---------------------------- MODULE RedsysProofs ----------------------------
(***************************************************************************)
(* Proofs about RedsysOrders, for any number of charges, requests of the   *)
(* payment page and stops: every step is a transaction of the ledger, only *)
(* what the bank approved is booked, a charge is booked by its answer or   *)
(* by its notification, never by both, an order is booked once, and what   *)
(* the bank approved is accounted for when nobody works on it.             *)
(***************************************************************************)
EXTENDS RedsysOrders, InvoiceLedgerProofs, SequenceTheorems

-----------------------------------------------------------------------------
(* A charge and its payment row: before the bank is asked there is no      *)
(* answer, and 'succeeded' is only answered for an approved one.           *)
CallFine(c) ==
    /\ call[c].pc \in {"idle", "reserved", "ordered"} =>
          bank[c] = "none" /\ call[c].result = "none" /\ pay[c].status \notin Settled
    /\ call[c].pc = "answered" => call[c].result # "none"
    /\ call[c].result = "succeeded" => bank[c] = "approved"

(* An order and its handler: it applies what the bank approved.            *)
BankFine(o) ==
    /\ handler[o].pc # "idle" => bank[o] \in {"approved", "declined"}
    /\ handler[o].pc \in {"split", "apply"} => bank[o] = "approved"
    /\ handler[o].pc = "sync" => o \in Charges
    /\ handler[o].pc = "apply" => Len(handler[o].parts) > 0
    /\ booked[o] # {} => bank[o] = "approved"
    /\ o \in Charges /\ pay[o].status \in Settled => bank[o] = "approved"

(* Who took the order out of 'charging' is the only one that books it.     *)
Taken(c) == order[c].status \in {"paid", "failed"}

TakenFine(c) ==
    /\ handler[c].pc # "idle" \/ booked[c] # {} => Taken(c)
    /\ handler[c].pc \in {"claimed", "sync", "split"} => booked[c] = {}
    /\ call[c].result = "succeeded" \/ pay[c].status \in Settled =>
          Taken(c) /\ handler[c].pc = "idle" /\ booked[c] = {}

Row(o) == BankFine(o) /\ (o \in Charges => CallFine(o) /\ TakenFine(o))

RowsInv   == \A o \in Orders : Row(o)
RedsysInv == RedsysTypeOK /\ RowsInv

-----------------------------------------------------------------------------
(* Every step is a transaction of the ledger, or leaves its rows alone.    *)

LEMMA MarkPaidIsLedger ==
    ASSUME TypeOK, NEW p \in Receipts, NEW a \in Nat, NEW override \in BOOLEAN,
           NEW inRemittance \in BOOLEAN, MarkPaid(p, a, override, inRemittance)
    PROVE  LedgerNext
<1>1. inv.paid \in Nat /\ Total \in Nat
  BY LedgerAssumption DEF TypeOK, InvoiceRow
<1>2. a \in 1..Total
  BY <1>1 DEF MarkPaid
<1> QED
  BY <1>2 DEF LedgerNext, OtherStep, ReceiptStep

LEMMA ChargeMoveIsLedger ==
    ASSUME NEW c \in Charges, ChargeMove(c)
    PROVE  LedgerNext
BY DEF LedgerNext, ChargeStep

LEMMA HeadOfParts ==
    ASSUME RedsysInv, NEW o \in Orders, Handling(o, "apply")
    PROVE  /\ Head(handler[o].parts) \in Nat
           /\ handler[o].parts \in Seq(Nat) /\ handler[o].parts # <<>>
<1>1. handler[o].parts \in Seq(Nat)
  BY DEF RedsysInv, RedsysTypeOK, HandlerRow
<1>2. Len(handler[o].parts) > 0
  BY DEF RedsysInv, RowsInv, Row, BankFine, Handling
<1> QED
  BY <1>1, <1>2

LEMMA CallStepIsLedger ==
    ASSUME RedsysInv, NEW c \in Charges, CallStep(c)
    PROVE  LedgerNext \/ UNCHANGED ledgerVars
<1>1. CASE Reserve(c)
  BY <1>1, ChargeMoveIsLedger DEF Reserve, ChargeMove
<1>2. CASE Stamp(c)
  BY <1>2, ChargeMoveIsLedger DEF Stamp, ChargeMove
<1>3. CASE Finalize(c)
  <2>1. call[c].result \in {"succeeded", "failed", "unknown"}
    BY <1>3 DEF RedsysInv, RowsInv, Row, CallFine, RedsysTypeOK, CallRow, Finalize, At, Orders
  <2>2. FinalStatus(call[c].result) \in {"processing", "succeeded", "failed"}
    BY <2>1 DEF FinalStatus
  <2>3. ChargeMove(c)
    BY <1>3, <2>2 DEF Finalize, ChargeMove
  <2> QED
    BY <2>3, ChargeMoveIsLedger
<1>4. CASE Throws(c)
  BY <1>4 DEF Throws, LedgerNext, ChargeStep
<1>5. CASE CardOnFileDisabled(c) \/ CreateCharging(c) \/ NoAnswer(c) \/ ErrorCode(c) \/ Resolve(c)
  BY <1>5 DEF CardOnFileDisabled, CreateCharging, NoAnswer, ErrorCode, Resolve
<1> QED
  BY <1>1, <1>2, <1>3, <1>4, <1>5 DEF CallStep

LEMMA HandlerStepIsLedger ==
    ASSUME RedsysInv, NEW o \in Orders, HandlerStep(o)
    PROVE  LedgerNext \/ UNCHANGED ledgerVars
<1>a. TypeOK
  BY DEF RedsysInv, RedsysTypeOK
<1>1. CASE SyncRow(o)
  <2>1. RowStatus(o) \in {"processing", "succeeded", "failed"}
    BY DEF RowStatus
  <2>2. CASE SyncCharge(o, RowStatus(o)) /\ o \in Charges
    <3>1. ChargeMove(o)
      BY <2>1, <2>2 DEF ChargeMove
    <3> QED
      BY <2>2, <3>1, ChargeMoveIsLedger
  <2>3. o \in Charges
    BY <1>1 DEF SyncRow, Handling, RedsysInv, RowsInv, Row, BankFine
  <2> QED
    BY <1>1, <2>2, <2>3 DEF SyncRow
<1>2. CASE ApplyPart(o)
  <2>1. PICK p \in Receipts : MarkPaid(p, Head(handler[o].parts), TRUE, TRUE)
    BY <1>2 DEF ApplyPart
  <2>2. Head(handler[o].parts) \in Nat
    BY <1>2, HeadOfParts DEF ApplyPart
  <2> QED
    BY <1>a, <2>1, <2>2, MarkPaidIsLedger
<1>3. CASE Claim(o) \/ CountRow(o) \/ Split(o) \/ RefusePart(o)
  BY <1>3 DEF Claim, CountRow, Split, RefusePart
<1> QED
  BY <1>1, <1>2, <1>3 DEF HandlerStep

LEMMA StepIsLedger ==
    ASSUME RedsysInv, [Next]_vars
    PROVE  [LedgerNext]_ledgerVars
<1>a. TypeOK
  BY DEF RedsysInv, RedsysTypeOK
<1>1. ASSUME NEW c \in Charges, SweepStep(c) \/ CrashCall(c) \/ CrashSweep(c)
      PROVE  LedgerNext \/ UNCHANGED ledgerVars
  BY <1>1, ChargeMoveIsLedger
     DEF SweepStep, ExpireOrder, ExpireRow, CrashCall, CrashSweep, ChargeMove
<1>2. ASSUME NEW o \in Orders, PageStep(o) \/ BankDecides(o) \/ CrashHandler(o)
      PROVE  UNCHANGED ledgerVars
  BY <1>2 DEF PageStep, ReadDue, Offer, BankDecides, CrashHandler
<1>3. CASE OthersStep
  BY <1>3, RedsysAssumption DEF OthersStep, LedgerNext, OtherStep, ReceiptStep
<1>4. CASE UNCHANGED vars
  BY <1>4 DEF vars
<1> QED
  BY <1>1, <1>2, <1>3, <1>4, CallStepIsLedger, HandlerStepIsLedger DEF Next, Orders

-----------------------------------------------------------------------------
(* What the steps write.                                                   *)

LEMMA Update ==
    ASSUME NEW S, NEW T, NEW f \in [S -> T], NEW x \in S, NEW v \in T,
           NEW g, g = [f EXCEPT ![x] = v]
    PROVE  g \in [S -> T] /\ g[x] = v /\ \A y \in S \ {x} : g[y] = f[y]
OBVIOUS

CallsFine    == call \in [Orders -> CallRow]
OrdersFine   == order \in [Orders -> OrderRow]
HandlersFine == handler \in [Orders -> HandlerRow]

CallPc == {"idle", "reserved", "ordered", "asked", "answered", "read", "done", "crashed"}

LEMMA GotoWrites ==
    ASSUME CallsFine, NEW o \in Orders, NEW pc \in CallPc, Goto(o, pc)
    PROVE  /\ CallsFine' /\ call'[o].pc = pc /\ call'[o].result = call[o].result
           /\ call'[o].amount = call[o].amount
           /\ \A q \in Orders \ {o} : call'[q] = call[q]
<1> DEFINE row == [call[o] EXCEPT !.pc = pc]
<1>1. call[o] \in CallRow
  BY DEF CallsFine
<1>2. row \in CallRow /\ row.pc = pc /\ row.result = call[o].result
      /\ row.amount = call[o].amount
  BY <1>1 DEF CallRow, CallPc
<1>3. call' = [call EXCEPT ![o] = row]
  BY DEF Goto
<1> HIDE DEF row
<1> QED
  BY <1>2, <1>3, Update DEF CallsFine

LEMMA GotoAmountWrites ==
    ASSUME CallsFine, NEW o \in Orders, NEW pc \in CallPc, NEW amount \in Nat,
           call' = [call EXCEPT ![o].pc = pc, ![o].amount = amount]
    PROVE  /\ CallsFine' /\ call'[o].pc = pc /\ call'[o].result = call[o].result
           /\ call'[o].amount = amount
           /\ \A q \in Orders \ {o} : call'[q] = call[q]
<1> DEFINE row == [call[o] EXCEPT !.pc = pc, !.amount = amount]
<1>1. call[o] \in CallRow
  BY DEF CallsFine
<1>2. row \in CallRow /\ row.pc = pc /\ row.result = call[o].result
      /\ row.amount = amount
  BY <1>1 DEF CallRow, CallPc
<1>3. call' = [call EXCEPT ![o] = row]
  OBVIOUS
<1> HIDE DEF row
<1> QED
  BY <1>2, <1>3 DEF CallsFine

LEMMA AnsweredWrites ==
    ASSUME CallsFine, NEW o \in Orders, NEW result \in {"succeeded", "failed", "unknown"},
           Answered(o, result)
    PROVE  /\ CallsFine' /\ call'[o].pc = "answered" /\ call'[o].result = result
           /\ call'[o].amount = call[o].amount
           /\ \A q \in Orders \ {o} : call'[q] = call[q]
<1> DEFINE row == [call[o] EXCEPT !.pc = "answered", !.result = result]
<1>1. call[o] \in CallRow
  BY DEF CallsFine
<1>2. row \in CallRow /\ row.pc = "answered" /\ row.result = result
      /\ row.amount = call[o].amount
  BY <1>1 DEF CallRow
<1>3. call' = [call EXCEPT ![o] = row]
  BY DEF Answered
<1> HIDE DEF row
<1> QED
  BY <1>2, <1>3, Update DEF CallsFine

LEMMA SetOrderWrites ==
    ASSUME OrdersFine, NEW o \in Orders, NEW status \in {"paid", "failed", "expired"},
           SetOrder(o, status)
    PROVE  /\ OrdersFine' /\ order'[o].status = status
           /\ order'[o].amount = order[o].amount
           /\ \A q \in Orders \ {o} : order'[q] = order[q]
<1> DEFINE row == [order[o] EXCEPT !.status = status]
<1>1. order[o] \in OrderRow
  BY DEF OrdersFine
<1>2. row \in OrderRow /\ row.status = status /\ row.amount = order[o].amount
  BY <1>1 DEF OrderRow, Claimable
<1>3. order' = [order EXCEPT ![o] = row]
  BY DEF SetOrder
<1> HIDE DEF row
<1> QED
  BY <1>2, <1>3, Update DEF OrdersFine

LEMMA HandlerWrites ==
    ASSUME HandlersFine, NEW o \in Orders,
           NEW pc \in {"idle", "claimed", "sync", "split", "apply"}, HandlerGoto(o, pc)
    PROVE  /\ HandlersFine' /\ handler'[o].pc = pc
           /\ \A q \in Orders \ {o} : handler'[q] = handler[q]
<1> DEFINE row == [handler[o] EXCEPT !.pc = pc]
<1>1. handler[o] \in HandlerRow
  BY DEF HandlersFine
<1>2. row \in HandlerRow /\ row.pc = pc
  BY <1>1 DEF HandlerRow
<1>3. handler' = [handler EXCEPT ![o] = row]
  BY DEF HandlerGoto
<1> HIDE DEF row
<1> QED
  BY <1>2, <1>3, Update DEF HandlersFine

LEMMA IdleWrites ==
    ASSUME HandlersFine, NEW o \in Orders, handler' = [handler EXCEPT ![o] = Idle]
    PROVE  /\ HandlersFine' /\ handler'[o].pc = "idle"
           /\ \A q \in Orders \ {o} : handler'[q] = handler[q]
<1>1. Idle \in HandlerRow /\ Idle.pc = "idle"
  BY DEF Idle, HandlerRow
<1> QED
  BY <1>1, Update DEF HandlersFine

(* The status of a charge's payment row, and nobody else's.                *)
LEMMA PayWrites ==
    ASSUME TypeOK, NEW c \in Charges, NEW status,
           \/ \E a \in Nat : ReserveCharge(c, a) /\ status = "processing"
           \/ StampOrder(c) /\ status = "processing"
           \/ (FailCharge(c) \/ CloseReservation(c)) /\ status = "failed"
           \/ SyncCharge(c, status)
           \/ /\ \E hasId \in BOOLEAN : FinalizeCharge(c, status, hasId)
              /\ pay[c].status = "processing"
    PROVE  pay'[c].status = status /\ \A d \in Charges \ {c} : pay'[d] = pay[d]
<1>1. c \in Payments /\ pay \in [Payments -> PaymentRow]
  BY DEF TypeOK, Payments
<1>2. \A d \in Charges : d \in Payments
  BY DEF Payments
<1>3. CASE \E a \in Nat : ReserveCharge(c, a) /\ status = "processing"
  BY <1>1, <1>2, <1>3 DEF ReserveCharge, NewPayment
<1>4. CASE StampOrder(c) /\ status = "processing"
  BY <1>1, <1>2, <1>4 DEF StampOrder, PaymentRow
<1>5. CASE (FailCharge(c) \/ CloseReservation(c)) /\ status = "failed"
  BY <1>1, <1>2, <1>5 DEF FailCharge, CloseReservation, PaymentRow
<1>6. CASE SyncCharge(c, status)
  BY <1>1, <1>2, <1>6 DEF SyncCharge, PaymentRow
<1>7. CASE /\ \E hasId \in BOOLEAN : FinalizeCharge(c, status, hasId)
           /\ pay[c].status = "processing"
  BY <1>1, <1>2, <1>7 DEF FinalizeCharge, PaymentRow
<1> QED
  BY <1>3, <1>4, <1>5, <1>6, <1>7

LEMMA ReceiptWrites ==
    ASSUME TypeOK, NEW p \in Receipts, NEW a, NEW override, NEW inRemittance,
           MarkPaid(p, a, override, inRemittance)
    PROVE  \A d \in Charges : pay'[d] = pay[d]
<1>1. \A d \in Charges : d \in Payments /\ d # p
  BY LedgerAssumption DEF Payments
<1> QED
  BY <1>1 DEF MarkPaid, TypeOK

(* A step that writes only what belongs to o.                              *)
LEMMA LocalStep ==
    ASSUME RowsInv, NEW o \in Orders, Row(o)',
           \A q \in Orders \ {o} :
              /\ call'[q] = call[q] /\ bank'[q] = bank[q]
              /\ handler'[q] = handler[q] /\ booked'[q] = booked[q]
              /\ q \in Charges => order'[q] = order[q] /\ pay'[q] = pay[q]
    PROVE  RowsInv'
<1> SUFFICES ASSUME NEW q \in Orders \ {o} PROVE Row(q)'
  BY DEF RowsInv
<1>1. Row(q)
  BY DEF RowsInv
<1>2. BankFine(q)'
  BY <1>1 DEF Row, BankFine
<1>3. q \in Charges => CallFine(q)' /\ TakenFine(q)'
  BY <1>1 DEF Row, CallFine, TakenFine, Taken
<1> QED
  BY <1>2, <1>3 DEF Row

-----------------------------------------------------------------------------
(* The invariant, kept by each step of a call.                             *)
RestFine ==
    /\ bank \in [Orders -> {"none", "approved", "declined", "refused"}]
    /\ booked \in [Orders -> SUBSET Receipts]
    /\ review \subseteq Orders /\ sweep \subseteq Charges /\ stopped \subseteq Orders
    /\ crashes \in Nat

Fine == CallsFine /\ OrdersFine /\ HandlersFine /\ RestFine

LEMMA InvParts == RedsysInv <=> TypeOK /\ Fine /\ RowsInv
BY DEF RedsysInv, RedsysTypeOK, Fine, CallsFine, OrdersFine, HandlersFine, RestFine

LEMMA RowOfCharge ==
    ASSUME RedsysInv, NEW c \in Charges
    PROVE  /\ TypeOK /\ CallsFine /\ OrdersFine /\ HandlersFine /\ RestFine /\ RowsInv
           /\ c \in Orders /\ BankFine(c) /\ CallFine(c) /\ TakenFine(c)
BY InvParts DEF Fine, RowsInv, Row, Orders

LEMMA ReserveInv ==
    ASSUME RedsysInv, NEW c \in Charges, Reserve(c)
    PROVE  Fine' /\ RowsInv'
<1>a. /\ TypeOK /\ CallsFine /\ OrdersFine /\ HandlersFine /\ RestFine /\ RowsInv
      /\ c \in Orders /\ BankFine(c) /\ CallFine(c) /\ TakenFine(c)
  BY RowOfCharge
<1>1. PICK a \in 1..Total :
          /\ ReserveCharge(c, a)
          /\ call' = [call EXCEPT ![c].pc = "reserved", ![c].amount = a]
  BY DEF Reserve
<1>2. UNCHANGED <<order, bank, handler, booked, review, sweep, stopped, crashes>> /\ At(c, "idle")
  BY DEF Reserve
<1>3. a \in Nat
  BY LedgerAssumption
<1>4. pay'[c].status = "processing" /\ \A d \in Charges \ {c} : pay'[d] = pay[d]
  BY <1>a, <1>1, <1>3, PayWrites
<1>5. /\ CallsFine' /\ call'[c].pc = "reserved" /\ call'[c].result = call[c].result
      /\ \A q \in Orders \ {c} : call'[q] = call[q]
  BY <1>a, <1>1, <1>3, GotoAmountWrites DEF CallPc
<1>6. BankFine(c)'
  BY <1>a, <1>2, <1>4 DEF BankFine, Settled
<1>7. CallFine(c)'
  BY <1>a, <1>2, <1>4, <1>5 DEF CallFine, Settled, At
<1>8. TakenFine(c)'
  BY <1>a, <1>2, <1>4, <1>5 DEF TakenFine, Taken, Settled
<1>9. RowsInv'
  BY <1>a, <1>2, <1>4, <1>5, <1>6, <1>7, <1>8, LocalStep DEF Row
<1> QED
  BY <1>a, <1>2, <1>5, <1>9 DEF Fine, OrdersFine, HandlersFine, RestFine

(* A step of the call that writes nothing but where it is.                 *)
LEMMA AnswerOnly ==
    ASSUME RedsysInv, NEW c \in Charges, NEW result \in {"failed", "unknown"},
           Answered(c, result),
           UNCHANGED <<ledgerVars, order, handler, booked, review, sweep, stopped, crashes>>,
           bank'[c] \in {bank[c], "refused"}, bank[c] = "none" \/ bank'[c] = bank[c],
           bank' \in [Orders -> {"none", "approved", "declined", "refused"}],
           \A q \in Orders \ {c} : bank'[q] = bank[q]
    PROVE  Fine' /\ RowsInv'
<1>a. /\ TypeOK /\ CallsFine /\ OrdersFine /\ HandlersFine /\ RestFine /\ RowsInv
      /\ c \in Orders /\ BankFine(c) /\ CallFine(c) /\ TakenFine(c)
  BY RowOfCharge
<1>1. /\ CallsFine' /\ call'[c].pc = "answered" /\ call'[c].result = result
      /\ \A q \in Orders \ {c} : call'[q] = call[q]
  BY <1>a, AnsweredWrites
<1>2. UNCHANGED pay
  BY DEF ledgerVars
<1>3. BankFine(c)'
  BY <1>a, <1>2 DEF BankFine
<1>4. CallFine(c)'
  BY <1>a, <1>1, <1>2 DEF CallFine
<1>5. TakenFine(c)'
  BY <1>a, <1>1, <1>2 DEF TakenFine, Taken
<1>6. RowsInv'
  BY <1>a, <1>1, <1>2, <1>3, <1>4, <1>5, LocalStep DEF Row
<1> QED
  BY <1>a, <1>1, <1>6 DEF Fine, OrdersFine, HandlersFine, RestFine

LEMMA AnswersInv ==
    ASSUME RedsysInv, NEW c \in Charges,
           CardOnFileDisabled(c) \/ NoAnswer(c) \/ ErrorCode(c)
    PROVE  Fine' /\ RowsInv'
<1>a. RestFine /\ c \in Orders
  BY RowOfCharge
<1>1. CASE CardOnFileDisabled(c) \/ NoAnswer(c)
  <2>1. /\ Answered(c, "failed") \/ Answered(c, "unknown")
        /\ UNCHANGED <<ledgerVars, order, bank, handler, booked, review, sweep, stopped, crashes>>
    BY <1>1 DEF CardOnFileDisabled, NoAnswer
  <2> QED
    BY <1>a, <2>1, AnswerOnly DEF RestFine
<1>2. CASE ErrorCode(c)
  <2>1. /\ Answered(c, "failed") /\ bank[c] = "none"
        /\ bank' = [bank EXCEPT ![c] = "refused"]
        /\ UNCHANGED <<ledgerVars, order, handler, booked, review, sweep, stopped, crashes>>
    BY <1>2 DEF ErrorCode
  <2>2. /\ bank' \in [Orders -> {"none", "approved", "declined", "refused"}]
        /\ bank'[c] = "refused" /\ \A q \in Orders \ {c} : bank'[q] = bank[q]
    BY <1>a, <2>1 DEF RestFine
  <2> QED
    BY <2>1, <2>2, AnswerOnly
<1> QED
  BY <1>1, <1>2

LEMMA CreateChargingInv ==
    ASSUME RedsysInv, NEW c \in Charges, CreateCharging(c)
    PROVE  Fine' /\ RowsInv'
<1>a. /\ TypeOK /\ CallsFine /\ OrdersFine /\ HandlersFine /\ RestFine /\ RowsInv
      /\ c \in Orders /\ BankFine(c) /\ CallFine(c) /\ TakenFine(c)
  BY RowOfCharge
<1> DEFINE row == [status |-> "charging", amount |-> call[c].amount]
<1>1. /\ At(c, "reserved") /\ order' = [order EXCEPT ![c] = row] /\ Goto(c, "ordered")
      /\ UNCHANGED <<ledgerVars, bank, handler, booked, review, sweep, stopped, crashes>>
  BY DEF CreateCharging
<1>2. row \in OrderRow
  BY <1>a DEF CallsFine, CallRow, OrderRow, Claimable
<1> HIDE DEF row
<1>3. OrdersFine' /\ \A q \in Orders \ {c} : order'[q] = order[q]
  BY <1>a, <1>1, <1>2 DEF OrdersFine
<1>4. /\ CallsFine' /\ call'[c].pc = "ordered" /\ call'[c].result = call[c].result
      /\ \A q \in Orders \ {c} : call'[q] = call[q]
  BY <1>a, <1>1, GotoWrites DEF CallPc
<1>5. bank[c] = "none" /\ call[c].result = "none" /\ pay[c].status \notin Settled
      /\ handler[c].pc = "idle" /\ booked[c] = {}
  BY <1>a, <1>1 DEF CallFine, BankFine, At
<1>6. UNCHANGED pay
  BY <1>1 DEF ledgerVars
<1>7. BankFine(c)' /\ CallFine(c)' /\ TakenFine(c)'
  BY <1>1, <1>4, <1>5, <1>6 DEF BankFine, CallFine, TakenFine
<1>8. RowsInv'
  BY <1>a, <1>1, <1>3, <1>4, <1>6, <1>7, LocalStep DEF Row
<1> QED
  BY <1>a, <1>1, <1>3, <1>4, <1>8 DEF Fine, HandlersFine, RestFine

LEMMA ResolveInv ==
    ASSUME RedsysInv, NEW c \in Charges, Resolve(c)
    PROVE  Fine' /\ RowsInv'
<1>a. /\ TypeOK /\ CallsFine /\ OrdersFine /\ HandlersFine /\ RestFine /\ RowsInv
      /\ c \in Orders /\ BankFine(c) /\ CallFine(c) /\ TakenFine(c)
  BY RowOfCharge
<1>1. UNCHANGED <<ledgerVars, bank, handler, booked, review, sweep, stopped, crashes>>
  BY DEF Resolve
<1>2. CASE order[c].status # "charging"
  <2>1. Answered(c, "failed") /\ UNCHANGED order
    BY <1>2 DEF Resolve
  <2> QED
    BY <1>a, <1>1, <2>1, AnswerOnly DEF RestFine
<1>3. CASE order[c].status = "charging"
  <2> DEFINE result == IF bank[c] = "approved" THEN "succeeded" ELSE "failed"
  <2>1. SetOrder(c, Decision(c)) /\ Answered(c, result)
    BY <1>3 DEF Resolve
  <2>2. /\ OrdersFine' /\ order'[c].status \in {"paid", "failed"}
        /\ \A q \in Orders \ {c} : order'[q] = order[q]
    <3>1. Decision(c) \in {"paid", "failed"}
      BY DEF Decision
    <3> QED
      BY <1>a, <2>1, <3>1, SetOrderWrites
  <2>3. /\ CallsFine' /\ call'[c].pc = "answered" /\ call'[c].result = result
        /\ \A q \in Orders \ {c} : call'[q] = call[q]
    BY <1>a, <2>1, AnsweredWrites
  <2>4. handler[c].pc = "idle" /\ booked[c] = {} /\ pay[c].status \notin Settled
    BY <1>a, <1>3 DEF TakenFine, Taken
  <2>5. UNCHANGED pay
    BY <1>1 DEF ledgerVars
  <2>6. BankFine(c)' /\ CallFine(c)' /\ TakenFine(c)'
    BY <1>1, <2>2, <2>3, <2>4, <2>5 DEF BankFine, CallFine, TakenFine, Taken
  <2>7. RowsInv'
    BY <1>a, <1>1, <2>2, <2>3, <2>5, <2>6, LocalStep DEF Row
  <2> QED
    BY <1>a, <1>1, <2>2, <2>3, <2>7 DEF Fine, HandlersFine, RestFine
<1> QED
  BY <1>2, <1>3

(* The steps of a call that move its payment row.                          *)
LEMMA RowStepsInv ==
    ASSUME RedsysInv, NEW c \in Charges, Stamp(c) \/ Finalize(c) \/ Throws(c)
    PROVE  Fine' /\ RowsInv'
<1>a. /\ TypeOK /\ CallsFine /\ OrdersFine /\ HandlersFine /\ RestFine /\ RowsInv
      /\ c \in Orders /\ BankFine(c) /\ CallFine(c) /\ TakenFine(c)
  BY RowOfCharge
<1>1. UNCHANGED <<order, bank, handler, booked, review, sweep, stopped, crashes>>
  BY DEF Stamp, Finalize, Throws
<1>2. /\ \A d \in Charges \ {c} : pay'[d] = pay[d]
      /\ pay'[c].status \in Settled =>
             pay[c].status \in Settled \/ call[c].result = "succeeded"
  <2>1. CASE Stamp(c)
    <3>1. StampOrder(c)
      BY <2>1 DEF Stamp
    <3> QED
      BY <1>a, <3>1, PayWrites DEF Settled
  <2>2. CASE Throws(c)
    <3>1. FailCharge(c)
      BY <2>2 DEF Throws
    <3> QED
      BY <1>a, <3>1, PayWrites DEF Settled
  <2>3. CASE Finalize(c)
    <3> DEFINE status == FinalStatus(call[c].result)
    <3>1. FinalizeCharge(c, status, TRUE)
      BY <2>3 DEF Finalize
    <3>2. status \in Settled => call[c].result = "succeeded"
      <4>1. call[c].result \in {"none", "succeeded", "failed", "unknown"}
        BY <1>a DEF CallsFine, CallRow
      <4> QED
        BY <4>1 DEF FinalStatus, Settled
    <3> HIDE DEF status
    <3>3. CASE pay[c].status = "processing"
      <4>1. pay'[c].status = status /\ \A d \in Charges \ {c} : pay'[d] = pay[d]
        BY <1>a, <3>1, <3>3, PayWrites
      <4> QED
        BY <3>2, <4>1
    <3>4. CASE pay[c].status # "processing"
      BY <3>1, <3>4 DEF FinalizeCharge
    <3> QED
      BY <3>3, <3>4
  <2> QED
    BY <2>1, <2>2, <2>3
<1>3. /\ CallsFine' /\ call'[c].pc \in {"asked", "done"} /\ call'[c].result = call[c].result
      /\ \A q \in Orders \ {c} : call'[q] = call[q]
  <2>1. Goto(c, "asked") \/ Goto(c, "done")
    BY DEF Stamp, Finalize, Throws
  <2> QED
    BY <1>a, <2>1, GotoWrites DEF CallPc
<1>4. BankFine(c)' /\ CallFine(c)' /\ TakenFine(c)'
  <2>1. BankFine(c)'
    BY <1>a, <1>1, <1>2 DEF BankFine, CallFine
  <2>2. CallFine(c)'
    BY <1>a, <1>1, <1>3 DEF CallFine
  <2>3. TakenFine(c)'
    BY <1>a, <1>1, <1>2, <1>3 DEF TakenFine, Taken
  <2> QED
    BY <2>1, <2>2, <2>3
<1>5. RowsInv'
  BY <1>a, <1>1, <1>2, <1>3, <1>4, LocalStep DEF Row
<1> QED
  BY <1>a, <1>1, <1>3, <1>5 DEF Fine, OrdersFine, HandlersFine, RestFine

-----------------------------------------------------------------------------
(* The invariant, kept by the payment page and by the bank.                *)
LEMMA RowOfOrder ==
    ASSUME RedsysInv, NEW o \in Orders
    PROVE  /\ TypeOK /\ CallsFine /\ OrdersFine /\ HandlersFine /\ RestFine /\ RowsInv
           /\ BankFine(o) /\ (o \in Charges => CallFine(o) /\ TakenFine(o))
BY InvParts DEF Fine, RowsInv, Row

LEMMA PageInv ==
    ASSUME RedsysInv, NEW o \in Redirects, PageStep(o)
    PROVE  Fine' /\ RowsInv'
<1>0. o \in Orders /\ o \notin Charges
  BY RedsysAssumption DEF Orders
<1>a. /\ TypeOK /\ CallsFine /\ OrdersFine /\ HandlersFine /\ RestFine /\ RowsInv
      /\ BankFine(o)
  BY <1>0, RowOfOrder
<1>1. UNCHANGED <<pay, bank, handler, booked, review, sweep, stopped, crashes>>
  BY DEF PageStep, ReadDue, Offer, ledgerVars
<1>2. CallsFine' /\ \A q \in Orders \ {o} : call'[q] = call[q]
  <2>1. CASE ReadDue(o)
    <3>1. Outstanding \in Nat
      BY <1>a, <2>1, LedgerAssumption DEF ReadDue, Outstanding, TypeOK, InvoiceRow
    <3>2. call' = [call EXCEPT ![o].pc = "read", ![o].amount = Outstanding]
      BY <2>1 DEF ReadDue
    <3> QED
      BY <1>0, <1>a, <3>1, <3>2, GotoAmountWrites DEF CallPc
  <2>2. CASE Offer(o)
    BY <1>0, <1>a, <2>2, GotoWrites DEF Offer, CallPc
  <2> QED
    BY <2>1, <2>2 DEF PageStep
<1>3. OrdersFine' /\ \A c \in Charges : order'[c] = order[c]
  <2>1. CASE UNCHANGED order
    BY <1>a, <2>1 DEF OrdersFine
  <2>2. CASE order # order'
    <3> DEFINE row(q) == IF q = o THEN [status |-> "pending", amount |-> call[o].amount]
                         ELSE IF q \in Pending THEN [order[q] EXCEPT !.status = "replaced"]
                         ELSE order[q]
    <3>1. order' = [q \in Orders |-> row(q)]
      BY <2>2 DEF PageStep, ReadDue, Offer
    <3>2. ASSUME NEW q \in Orders PROVE row(q) \in OrderRow
      <4>1. order[q] \in OrderRow /\ call[o].amount \in Nat
        BY <1>0, <1>a DEF OrdersFine, CallsFine, CallRow
      <4> QED
        BY <4>1 DEF OrderRow, Claimable
    <3>3. ASSUME NEW c \in Charges PROVE row(c) = order[c] /\ c \in Orders
      BY <1>0, RedsysAssumption DEF Pending, Orders
    <3> HIDE DEF row
    <3> QED
      BY <3>1, <3>2, <3>3 DEF OrdersFine
  <2> QED
    BY <2>1, <2>2
<1>4. Row(o)'
  BY <1>0, <1>a, <1>1 DEF Row, BankFine
<1>5. RowsInv'
  BY <1>0, <1>a, <1>1, <1>2, <1>3, <1>4, LocalStep
<1> QED
  BY <1>a, <1>1, <1>2, <1>3, <1>5 DEF Fine, HandlersFine, RestFine

LEMMA BankDecidesInv ==
    ASSUME RedsysInv, NEW o \in Orders, BankDecides(o)
    PROVE  Fine' /\ RowsInv'
<1>a. /\ TypeOK /\ CallsFine /\ OrdersFine /\ HandlersFine /\ RestFine /\ RowsInv
      /\ BankFine(o) /\ (o \in Charges => CallFine(o) /\ TakenFine(o))
  BY RowOfOrder
<1>1. PICK decision \in {"approved", "declined"} : bank' = [bank EXCEPT ![o] = decision]
  BY DEF BankDecides
<1>2. /\ bank[o] = "none" /\ Asked(o)
      /\ UNCHANGED <<pay, order, call, handler, booked, review, sweep, stopped, crashes>>
  BY DEF BankDecides, ledgerVars
<1>3. /\ bank' \in [Orders -> {"none", "approved", "declined", "refused"}]
      /\ bank'[o] = decision /\ \A q \in Orders \ {o} : bank'[q] = bank[q]
  BY <1>a, <1>1 DEF RestFine
<1>4. BankFine(o)'
  BY <1>a, <1>2, <1>3 DEF BankFine
<1>5. o \in Charges => CallFine(o)' /\ TakenFine(o)'
  BY <1>a, <1>2, <1>3 DEF CallFine, TakenFine, Taken, Asked
<1>6. RowsInv'
  BY <1>a, <1>2, <1>3, <1>4, <1>5, LocalStep DEF Row
<1> QED
  BY <1>a, <1>2, <1>3, <1>6 DEF Fine, CallsFine, OrdersFine, HandlersFine, RestFine

-----------------------------------------------------------------------------
(* The invariant, kept by each step of a notification.                     *)

LEMMA ClaimInv ==
    ASSUME RedsysInv, NEW o \in Orders, Claim(o)
    PROVE  Fine' /\ RowsInv'
<1>a. /\ TypeOK /\ CallsFine /\ OrdersFine /\ HandlersFine /\ RestFine /\ RowsInv
      /\ BankFine(o) /\ (o \in Charges => CallFine(o) /\ TakenFine(o))
  BY RowOfOrder
<1>1. /\ Handling(o, "idle") /\ bank[o] \in {"approved", "declined"}
      /\ order[o].status \in Claimable /\ SetOrder(o, Decision(o))
      /\ UNCHANGED <<pay, call, bank, booked, review, sweep, stopped, crashes>>
      /\ HandlerGoto(o, "claimed")
  BY DEF Claim, ledgerVars, HandlerGoto
<1>2. Decision(o) \in {"paid", "failed"}
  BY DEF Decision
<1>3. /\ OrdersFine' /\ order'[o].status \in {"paid", "failed"}
      /\ \A q \in Orders \ {o} : order'[q] = order[q]
  BY <1>a, <1>1, <1>2, SetOrderWrites
<1>4. /\ HandlersFine' /\ handler'[o].pc = "claimed"
      /\ \A q \in Orders \ {o} : handler'[q] = handler[q]
  BY <1>a, <1>1, HandlerWrites
<1>5. BankFine(o)'
  BY <1>a, <1>1, <1>4 DEF BankFine
<1>6. ASSUME o \in Charges PROVE CallFine(o)' /\ TakenFine(o)'
  <2>1. CallFine(o) /\ TakenFine(o)
    BY <1>a, <1>6
  <2>2. booked[o] = {} /\ call[o].result # "succeeded" /\ pay[o].status \notin Settled
    BY <1>1, <2>1 DEF TakenFine, Taken, Claimable
  <2> QED
    BY <1>1, <1>3, <1>4, <2>1, <2>2 DEF CallFine, TakenFine, Taken
<1>7. RowsInv'
  BY <1>a, <1>1, <1>3, <1>4, <1>5, <1>6, LocalStep DEF Row
<1> QED
  BY <1>a, <1>1, <1>3, <1>4, <1>7 DEF Fine, CallsFine, RestFine

LEMMA CountRowInv ==
    ASSUME RedsysInv, NEW o \in Orders, CountRow(o)
    PROVE  Fine' /\ RowsInv'
<1>a. /\ TypeOK /\ CallsFine /\ OrdersFine /\ HandlersFine /\ RestFine /\ RowsInv
      /\ BankFine(o) /\ (o \in Charges => CallFine(o) /\ TakenFine(o))
  BY RowOfOrder
<1> DEFINE pc == IF RowUnderWay(o) THEN "sync"
                 ELSE IF bank[o] = "approved" THEN "split" ELSE "idle"
<1>1. /\ Handling(o, "claimed") /\ HandlerGoto(o, pc)
      /\ UNCHANGED <<pay, order, call, bank, booked, review, sweep, stopped, crashes>>
  BY DEF CountRow, ledgerVars
<1>2. pc = "sync" => o \in Charges
  BY DEF RowUnderWay
<1>3. pc \in {"sync", "split", "idle"} /\ (pc = "split" => bank[o] = "approved")
  OBVIOUS
<1> HIDE DEF pc
<1>4. /\ HandlersFine' /\ handler'[o].pc = pc
      /\ \A q \in Orders \ {o} : handler'[q] = handler[q]
  BY <1>a, <1>1, <1>3, HandlerWrites
<1>5. BankFine(o)'
  BY <1>a, <1>1, <1>2, <1>3, <1>4 DEF BankFine, Handling
<1>6. ASSUME o \in Charges PROVE CallFine(o)' /\ TakenFine(o)'
  BY <1>a, <1>1, <1>3, <1>4, <1>6 DEF CallFine, TakenFine, Taken, Handling
<1>7. RowsInv'
  BY <1>a, <1>1, <1>4, <1>5, <1>6, LocalStep DEF Row
<1> QED
  BY <1>a, <1>1, <1>4, <1>7 DEF Fine, CallsFine, OrdersFine, RestFine

LEMMA SyncRowInv ==
    ASSUME RedsysInv, NEW o \in Orders, SyncRow(o)
    PROVE  Fine' /\ RowsInv'
<1>a. /\ TypeOK /\ CallsFine /\ OrdersFine /\ HandlersFine /\ RestFine /\ RowsInv
      /\ BankFine(o) /\ (o \in Charges => CallFine(o) /\ TakenFine(o))
  BY RowOfOrder
<1>1. /\ Handling(o, "sync") /\ HandlerGoto(o, "idle")
      /\ SyncCharge(o, RowStatus(o)) \/ UNCHANGED ledgerVars
      /\ UNCHANGED <<order, call, bank, booked, review, sweep, stopped, crashes>>
  BY DEF SyncRow
<1>2. o \in Charges /\ CallFine(o) /\ TakenFine(o)
  BY <1>a, <1>1 DEF BankFine, Handling
<1>3. /\ HandlersFine' /\ handler'[o].pc = "idle"
      /\ \A q \in Orders \ {o} : handler'[q] = handler[q]
  BY <1>a, <1>1, HandlerWrites
<1>4. /\ \A d \in Charges \ {o} : pay'[d] = pay[d]
      /\ pay'[o].status \in Settled => bank[o] = "approved"
  <2>1. CASE SyncCharge(o, RowStatus(o))
    <3>1. pay'[o].status = RowStatus(o) /\ \A d \in Charges \ {o} : pay'[d] = pay[d]
      BY <1>a, <1>2, <2>1, PayWrites
    <3>2. RowStatus(o) \in Settled => bank[o] = "approved"
      BY DEF RowStatus, Settled
    <3> QED
      BY <3>1, <3>2
  <2>2. CASE UNCHANGED ledgerVars
    BY <1>a, <1>2, <2>2 DEF ledgerVars, BankFine
  <2> QED
    BY <1>1, <2>1, <2>2
<1>5. /\ Taken(o) /\ booked[o] = {} /\ call[o].result # "succeeded"
      /\ call[o].pc \notin {"idle", "reserved", "ordered"}
  BY <1>1, <1>2, <1>a DEF TakenFine, CallFine, BankFine, Handling
<1>6. BankFine(o)'
  BY <1>a, <1>1, <1>3, <1>4, <1>5 DEF BankFine
<1>7. CallFine(o)' /\ TakenFine(o)'
  BY <1>1, <1>2, <1>3, <1>5 DEF CallFine, TakenFine, Taken
<1>8. RowsInv'
  BY <1>a, <1>1, <1>3, <1>4, <1>6, <1>7, LocalStep DEF Row
<1> QED
  BY <1>a, <1>1, <1>3, <1>8 DEF Fine, CallsFine, OrdersFine, RestFine

(* The parts of an order are one or two amounts.                           *)
LEMMA PartsType ==
    ASSUME TypeOK, NEW amount \in Nat
    PROVE  Parts(amount) \in Seq(Nat) /\ Len(Parts(amount)) > 0
<1> DEFINE due   == IF inv.status \in Payable THEN Positive(Outstanding) ELSE 0
           first == LowerOf(amount, due)
<1>1. Outstanding \in Int
  BY LedgerAssumption DEF TypeOK, InvoiceRow, Outstanding
<1>2. due \in Nat
  BY <1>1 DEF Positive
<1> HIDE DEF due
<1>3. first \in Nat /\ amount - first \in Nat
  BY <1>2 DEF LowerOf
<1> HIDE DEF first
<1>4. Parts(amount) = IF first \in {0, amount} THEN <<amount>> ELSE <<first, amount - first>>
  BY DEF Parts, due, first
<1> QED
  BY <1>3, <1>4

LEMMA SplitInv ==
    ASSUME RedsysInv, NEW o \in Orders, Split(o)
    PROVE  Fine' /\ RowsInv'
<1>a. /\ TypeOK /\ CallsFine /\ OrdersFine /\ HandlersFine /\ RestFine /\ RowsInv
      /\ BankFine(o) /\ (o \in Charges => CallFine(o) /\ TakenFine(o))
  BY RowOfOrder
<1> DEFINE row == [pc |-> "apply", parts |-> Parts(order[o].amount)]
<1>1. /\ Handling(o, "split") /\ handler' = [handler EXCEPT ![o] = row]
      /\ UNCHANGED <<pay, order, call, bank, booked, review, sweep, stopped, crashes>>
  BY DEF Split, ledgerVars
<1>2. order[o].amount \in Nat
  BY <1>a DEF OrdersFine, OrderRow
<1>3. row \in HandlerRow /\ row.pc = "apply" /\ Len(row.parts) > 0
  BY <1>a, <1>2, PartsType DEF HandlerRow
<1> HIDE DEF row
<1>4. /\ HandlersFine' /\ handler'[o] = row
      /\ \A q \in Orders \ {o} : handler'[q] = handler[q]
  BY <1>a, <1>1, <1>3, Update DEF HandlersFine
<1>5. BankFine(o)'
  BY <1>a, <1>1, <1>3, <1>4 DEF BankFine, Handling
<1>6. ASSUME o \in Charges PROVE CallFine(o)' /\ TakenFine(o)'
  BY <1>a, <1>1, <1>3, <1>4, <1>6 DEF CallFine, TakenFine, Taken, Handling
<1>7. RowsInv'
  BY <1>a, <1>1, <1>4, <1>5, <1>6, LocalStep DEF Row
<1> QED
  BY <1>a, <1>1, <1>4, <1>7 DEF Fine, CallsFine, OrdersFine, RestFine

LEMMA RestType ==
    ASSUME NEW h \in HandlerRow, h.parts # <<>>
    PROVE  Rest(h) \in HandlerRow /\ Rest(h).pc \in {"idle", h.pc}
           /\ (Rest(h).pc # "idle" => Len(Rest(h).parts) > 0)
<1>1. h.parts \in Seq(Nat) /\ h.pc \in {"idle", "claimed", "sync", "split", "apply"}
  BY DEF HandlerRow
<1>2. CASE Len(h.parts) = 1
  <2>1. Rest(h) = Idle
    BY <1>2 DEF Rest
  <2>2. Idle \in HandlerRow /\ Idle.pc = "idle"
    BY DEF Idle, HandlerRow
  <2> QED
    BY <2>1, <2>2
<1>3. CASE Len(h.parts) # 1
  <2>1. Tail(h.parts) \in Seq(Nat) /\ Len(Tail(h.parts)) > 0
    <3>1. ASSUME NEW s \in Seq(Nat), s # <<>>, Len(s) # 1
          PROVE  Tail(s) \in Seq(Nat) /\ Len(Tail(s)) > 0
      <4>1. Len(s) \in Nat \ {0}
        BY <3>1, EmptySeq
      <4>2. Tail(s) \in Seq(Nat) /\ Len(Tail(s)) = Len(s) - 1
        BY <3>1, HeadTailProperties
      <4> QED
        BY <3>1, <4>1, <4>2
    <3> QED
      BY <1>1, <1>3, <3>1
  <2> DEFINE rest == [h EXCEPT !.parts = Tail(h.parts)]
  <2>2. rest \in HandlerRow /\ rest.pc = h.pc /\ rest.parts = Tail(h.parts)
    BY <2>1 DEF HandlerRow
  <2>3. Rest(h) = rest
    BY <1>3 DEF Rest
  <2> HIDE DEF rest
  <2> QED
    BY <2>1, <2>2, <2>3
<1> QED
  BY <1>2, <1>3

LEMMA ApplyPartInv ==
    ASSUME RedsysInv, NEW o \in Orders, ApplyPart(o)
    PROVE  Fine' /\ RowsInv'
<1>a. /\ TypeOK /\ CallsFine /\ OrdersFine /\ HandlersFine /\ RestFine /\ RowsInv
      /\ BankFine(o) /\ (o \in Charges => CallFine(o) /\ TakenFine(o))
  BY RowOfOrder
<1>1. PICK p \in Receipts : /\ MarkPaid(p, Head(handler[o].parts), TRUE, TRUE)
                            /\ booked' = [booked EXCEPT ![o] = @ \cup {p}]
  BY DEF ApplyPart
<1> DEFINE row == Rest(handler[o])
<1>2. /\ Handling(o, "apply") /\ handler' = [handler EXCEPT ![o] = row]
      /\ UNCHANGED <<order, call, bank, review, sweep, stopped, crashes>>
  BY DEF ApplyPart
<1>3. handler[o].parts # <<>> /\ handler[o] \in HandlerRow
  BY <1>a, <1>2, HeadOfParts DEF HandlersFine
<1>4. /\ row \in HandlerRow /\ row.pc \in {"idle", "apply"}
      /\ row.pc # "idle" => Len(row.parts) > 0
  BY <1>2, <1>3, RestType DEF Handling
<1> HIDE DEF row
<1>5. /\ HandlersFine' /\ handler'[o] = row
      /\ \A q \in Orders \ {o} : handler'[q] = handler[q]
  BY <1>a, <1>2, <1>4, Update DEF HandlersFine
<1>6. /\ booked' \in [Orders -> SUBSET Receipts]
      /\ \A q \in Orders \ {o} : booked'[q] = booked[q]
  BY <1>a, <1>1 DEF RestFine
<1>7. \A d \in Charges : pay'[d] = pay[d]
  BY <1>a, <1>1, ReceiptWrites
<1>8. bank[o] = "approved" /\ handler[o].pc = "apply"
  BY <1>a, <1>2 DEF BankFine, Handling
<1>9. BankFine(o)'
  BY <1>a, <1>2, <1>4, <1>5, <1>7, <1>8 DEF BankFine
<1>10. ASSUME o \in Charges PROVE CallFine(o)' /\ TakenFine(o)'
  BY <1>a, <1>2, <1>4, <1>5, <1>7, <1>8, <1>10 DEF CallFine, TakenFine, Taken
<1>11. RowsInv'
  BY <1>a, <1>2, <1>5, <1>6, <1>7, <1>9, <1>10, LocalStep DEF Row
<1> QED
  BY <1>a, <1>2, <1>5, <1>6, <1>11 DEF Fine, CallsFine, OrdersFine, RestFine

(* Steps that only leave a handler idle, or the row of an expired charge.  *)
LEMMA RefusePartInv ==
    ASSUME RedsysInv, NEW o \in Orders, RefusePart(o) \/ CrashHandler(o)
    PROVE  Fine' /\ RowsInv'
<1>a. /\ TypeOK /\ CallsFine /\ OrdersFine /\ HandlersFine /\ RestFine /\ RowsInv
      /\ BankFine(o) /\ (o \in Charges => CallFine(o) /\ TakenFine(o))
  BY RowOfOrder
<1>1. /\ handler' = [handler EXCEPT ![o] = Idle]
      /\ UNCHANGED <<pay, order, call, bank, booked, sweep>>
  BY DEF RefusePart, CrashHandler, ledgerVars
<1>2. review' \subseteq Orders /\ stopped' \subseteq Orders /\ crashes' \in Nat
  BY <1>a DEF RefusePart, CrashHandler, Crash, RestFine
<1>3. /\ HandlersFine' /\ handler'[o].pc = "idle"
      /\ \A q \in Orders \ {o} : handler'[q] = handler[q]
  BY <1>a, <1>1, IdleWrites
<1>4. BankFine(o)' /\ (o \in Charges => CallFine(o)' /\ TakenFine(o)')
  BY <1>a, <1>1, <1>3 DEF BankFine, CallFine, TakenFine, Taken
<1>5. RowsInv'
  BY <1>a, <1>1, <1>3, <1>4, LocalStep DEF Row
<1> QED
  BY <1>a, <1>1, <1>2, <1>3, <1>5 DEF Fine, CallsFine, OrdersFine, RestFine

-----------------------------------------------------------------------------
(* The invariant, kept by the sweep, by stops and by the staff.            *)

LEMMA ExpireOrderInv ==
    ASSUME RedsysInv, NEW c \in Charges, ExpireOrder(c)
    PROVE  Fine' /\ RowsInv'
<1>a. /\ TypeOK /\ CallsFine /\ OrdersFine /\ HandlersFine /\ RestFine /\ RowsInv
      /\ c \in Orders /\ BankFine(c) /\ CallFine(c) /\ TakenFine(c)
  BY RowOfCharge
<1>1. /\ order[c].status = "charging" /\ SetOrder(c, "expired") /\ sweep' = sweep \cup {c}
      /\ UNCHANGED <<pay, call, bank, handler, booked, review, stopped, crashes>>
  BY DEF ExpireOrder, ledgerVars
<1>2. OrdersFine' /\ \A q \in Orders \ {c} : order'[q] = order[q]
  BY <1>a, <1>1, SetOrderWrites
<1>3. BankFine(c)' /\ CallFine(c)'
  BY <1>a, <1>1 DEF BankFine, CallFine
<1>4. TakenFine(c)'
  BY <1>a, <1>1 DEF TakenFine, Taken
<1>5. RowsInv'
  BY <1>a, <1>1, <1>2, <1>3, <1>4, LocalStep DEF Row
<1> QED
  BY <1>a, <1>1, <1>2, <1>5 DEF Fine, CallsFine, HandlersFine, RestFine

LEMMA ExpireRowInv ==
    ASSUME RedsysInv, NEW c \in Charges, ExpireRow(c) \/ CrashSweep(c)
    PROVE  Fine' /\ RowsInv'
<1>a. /\ TypeOK /\ CallsFine /\ OrdersFine /\ HandlersFine /\ RestFine /\ RowsInv
      /\ c \in Orders /\ BankFine(c) /\ CallFine(c) /\ TakenFine(c)
  BY RowOfCharge
<1>1. /\ sweep' = sweep \ {c}
      /\ CloseReservation(c) \/ UNCHANGED ledgerVars
      /\ UNCHANGED <<order, call, bank, handler, booked, review>>
  BY DEF ExpireRow, CrashSweep
<1>2. stopped' \subseteq Orders /\ crashes' \in Nat
  BY <1>a DEF ExpireRow, CrashSweep, Crash, RestFine
<1>3. /\ \A d \in Charges \ {c} : pay'[d] = pay[d]
      /\ pay'[c].status \in Settled => pay[c].status \in Settled
  <2>1. CASE CloseReservation(c)
    BY <1>a, <2>1, PayWrites DEF Settled
  <2>2. CASE UNCHANGED ledgerVars
    BY <2>2 DEF ledgerVars
  <2> QED
    BY <1>1, <2>1, <2>2
<1>4. BankFine(c)' /\ CallFine(c)' /\ TakenFine(c)'
  BY <1>a, <1>1, <1>3 DEF BankFine, CallFine, TakenFine, Taken
<1>5. RowsInv'
  BY <1>a, <1>1, <1>3, <1>4, LocalStep DEF Row
<1> QED
  BY <1>a, <1>1, <1>2, <1>5 DEF Fine, CallsFine, OrdersFine, HandlersFine, RestFine

LEMMA CrashCallInv ==
    ASSUME RedsysInv, NEW c \in Charges, CrashCall(c)
    PROVE  Fine' /\ RowsInv'
<1>a. /\ TypeOK /\ CallsFine /\ OrdersFine /\ HandlersFine /\ RestFine /\ RowsInv
      /\ c \in Orders /\ BankFine(c) /\ CallFine(c) /\ TakenFine(c)
  BY RowOfCharge
<1>1. /\ Goto(c, "crashed")
      /\ UNCHANGED <<pay, order, bank, handler, booked, review, sweep>>
  BY DEF CrashCall, ledgerVars
<1>2. stopped' \subseteq Orders /\ crashes' \in Nat
  BY <1>a DEF CrashCall, Crash, RestFine
<1>3. /\ CallsFine' /\ call'[c].pc = "crashed" /\ call'[c].result = call[c].result
      /\ \A q \in Orders \ {c} : call'[q] = call[q]
  BY <1>a, <1>1, GotoWrites DEF CallPc
<1>4. BankFine(c)' /\ CallFine(c)' /\ TakenFine(c)'
  BY <1>a, <1>1, <1>3 DEF BankFine, CallFine, TakenFine, Taken
<1>5. RowsInv'
  BY <1>a, <1>1, <1>3, <1>4, LocalStep DEF Row
<1> QED
  BY <1>a, <1>1, <1>2, <1>3, <1>5 DEF Fine, OrdersFine, HandlersFine, RestFine

LEMMA OthersInv ==
    ASSUME RedsysInv, OthersStep \/ UNCHANGED vars
    PROVE  Fine' /\ RowsInv'
<1>a. TypeOK /\ Fine /\ RowsInv
  BY InvParts
<1>1. UNCHANGED <<order, call, bank, handler, booked, review, sweep, stopped, crashes>>
  BY DEF OthersStep, vars, redsysVars
<1>2. \A d \in Charges : pay'[d] = pay[d]
  <2>1. CASE OthersStep
    BY <1>a, <2>1, ReceiptWrites, RedsysAssumption DEF OthersStep
  <2>2. CASE UNCHANGED vars
    BY <2>2 DEF vars, ledgerVars
  <2> QED
    BY <2>1, <2>2
<1>3. ASSUME NEW q \in Orders PROVE Row(q)'
  <2>1. Row(q)
    BY <1>a DEF RowsInv
  <2>2. BankFine(q)'
    BY <1>1, <1>2, <2>1 DEF Row, BankFine
  <2>3. q \in Charges => CallFine(q)' /\ TakenFine(q)'
    BY <1>1, <1>2, <2>1 DEF Row, CallFine, TakenFine, Taken
  <2> QED
    BY <2>2, <2>3 DEF Row
<1> QED
  BY <1>a, <1>1, <1>3 DEF Fine, CallsFine, OrdersFine, HandlersFine, RestFine, RowsInv

LEMMA RedsysStepInv ==
    ASSUME RedsysInv, [Next]_vars
    PROVE  RedsysInv'
<1>a. TypeOK
  BY InvParts
<1>b. TypeOK'
  BY <1>a, StepIsLedger, StepType
<1>c. ASSUME Fine' /\ RowsInv' PROVE RedsysInv'
  BY <1>b, <1>c
     DEF RedsysInv, RedsysTypeOK, Fine, CallsFine, OrdersFine, HandlersFine, RestFine
<1>1. ASSUME NEW c \in Charges, CallStep(c) PROVE RedsysInv'
  BY <1>1, <1>c, ReserveInv, AnswersInv, CreateChargingInv, ResolveInv, RowStepsInv DEF CallStep
<1>2. ASSUME NEW c \in Charges, SweepStep(c) \/ CrashCall(c) \/ CrashSweep(c) PROVE RedsysInv'
  BY <1>2, <1>c, ExpireOrderInv, ExpireRowInv, CrashCallInv DEF SweepStep
<1>3. ASSUME NEW o \in Redirects, PageStep(o) PROVE RedsysInv'
  BY <1>3, <1>c, PageInv
<1>4. ASSUME NEW o \in Orders, BankDecides(o) \/ HandlerStep(o) \/ CrashHandler(o)
      PROVE  RedsysInv'
  BY <1>4, <1>c, BankDecidesInv, ClaimInv, CountRowInv, SyncRowInv, SplitInv, ApplyPartInv,
     RefusePartInv DEF HandlerStep
<1>5. CASE OthersStep \/ UNCHANGED vars
  BY <1>5, <1>c, OthersInv
<1> QED
  BY <1>1, <1>2, <1>3, <1>4, <1>5 DEF Next

LEMMA RedsysInitInv == RedsysInit => RedsysInv
<1> SUFFICES ASSUME RedsysInit PROVE RedsysInv
  OBVIOUS
<1>1. TypeOK
  BY InitType DEF RedsysInit
<1> DEFINE first == [pc |-> "idle", amount |-> 0, result |-> "none"]
<1>2. /\ NoOrder \in OrderRow /\ first \in CallRow /\ Idle \in HandlerRow /\ Idle.pc = "idle"
      /\ first.pc = "idle" /\ first.result = "none"
  BY DEF NoOrder, OrderRow, CallRow, Idle, HandlerRow
<1>3. call = [o \in Orders |-> first]
  BY DEF RedsysInit
<1> HIDE DEF first
<1>4. \A c \in Charges : pay[c].status = "none"
  BY DEF RedsysInit, Init, NoPayment, NewPayment, Payments
<1>5. Fine
  BY <1>2, <1>3 DEF RedsysInit, Fine, CallsFine, OrdersFine, HandlersFine, RestFine
<1>6. ASSUME NEW o \in Orders PROVE Row(o)
  <2>1. BankFine(o)
    BY <1>2, <1>4 DEF RedsysInit, BankFine, Settled
  <2>2. o \in Charges => CallFine(o) /\ TakenFine(o)
    BY <1>2, <1>3, <1>4 DEF RedsysInit, CallFine, TakenFine, Settled
  <2> QED
    BY <2>1, <2>2 DEF Row
<1> QED
  BY <1>1, <1>5, <1>6, InvParts DEF RowsInv

LEMMA RedsysInvariant == Spec => []RedsysInv
BY RedsysInitInv, RedsysStepInv, PTL DEF Spec

-----------------------------------------------------------------------------
(* What the orders and the processes around them keep in their variables.  *)
THEOREM RedsysTypes == Spec => []RedsysTypeOK
<1>1. RedsysInv => RedsysTypeOK
  BY DEF RedsysInv
<1> QED
  BY <1>1, RedsysInvariant, PTL

(* No phantom money: the answer of a call, a notification, a repeat or the *)
(* expiry never book an order that the bank did not approve.               *)
THEOREM RedsysBookedWasApproved == Spec => []BookedWasApproved
<1>1. RedsysInv => BookedWasApproved
  BY DEF RedsysInv, RowsInv, Row, BankFine, BookedWasApproved
<1> QED
  BY <1>1, RedsysInvariant, PTL

(* A charge is booked by its payment row or by the receipts of its         *)
(* notification, never by both, however the answer of the call, the        *)
(* notification and the expiry race for the order: the heart of            *)
(* OrderBookedOnce.                                                        *)
OneBooks == \A c \in Charges : ~(pay[c].status \in Settled /\ booked[c] # {})

THEOREM RedsysOneBooks == Spec => []OneBooks
<1>1. RedsysInv => OneBooks
  BY DEF RedsysInv, RowsInv, Row, TakenFine, OneBooks, Orders
<1> QED
  BY <1>1, RedsysInvariant, PTL

-----------------------------------------------------------------------------
(* Charging through Redsys adds nothing to the ledger: each step is one of *)
(* its transactions.                                                       *)
THEOREM RedsysIsLedger == Spec => LedgerSpec
<1>1. RedsysInit => Init
  BY DEF RedsysInit
<1> QED
  BY <1>1, RedsysInvariant, StepIsLedger, PTL DEF Spec, LedgerSpec

(* A paid invoice is covered, also by orders that notifications split.     *)
THEOREM RedsysPaidMeansCovered == Spec => []PaidMeansCovered
BY RedsysIsLedger, LedgerPaidMeansCovered, PTL

(* Neither the answer of a call, nor a notification split into parts, nor  *)
(* the sweep ever moves amountPaid without the one payment it belongs to.  *)
THEOREM RedsysPaidMovesWithOnePayment == Spec => PaidMovesWithOnePayment
BY RedsysIsLedger, LedgerPaidMovesWithOnePayment, PTL

-----------------------------------------------------------------------------
(* amountPaid and the payments that count as collected.                    *)
LEMMA CallPays ==
    ASSUME RedsysInv, TypeOK', NEW c \in Charges, CallStep(c)
    PROVE  CollectedMoves
<1>a. TypeOK /\ CallFine(c)
  BY RowOfCharge
<1>1. CASE Reserve(c)
  BY <1>1, <1>a, ChargeCollects DEF Reserve
<1>2. CASE Stamp(c)
  <2> DEFINE row == [pay[c] EXCEPT !.gid = TRUE]
  <2>1. c \in Payments /\ pay[c] \in PaymentRow
    BY <1>a, RowOf DEF Payments
  <2>2. pay' = [pay EXCEPT ![c] = row] /\ KeepsMoney(c, row)
    BY <1>2, <2>1 DEF Stamp, StampOrder, KeepsMoney, PaymentRow
  <2> HIDE DEF row
  <2> QED
    BY <1>a, <2>1, <2>2, RowCollected
<1>3. CASE Finalize(c)
  <2>1. call[c].result \in {"succeeded", "failed", "unknown"}
    BY <1>3 DEF RedsysInv, RowsInv, Row, CallFine, RedsysTypeOK, CallRow, Finalize, At, Orders
  <2>2. FinalStatus(call[c].result) \in {"processing", "succeeded", "failed"}
    BY <2>1 DEF FinalStatus
  <2> QED
    BY <1>3, <1>a, <2>2, ChargeCollects DEF Finalize
<1>4. CASE Throws(c)
  <2>1. FailCharge(c) /\ pay[c].status \notin Settled
    BY <1>4, <1>a DEF Throws, CallFine
  <2> QED
    BY <1>a, <2>1, ChargeCollects
<1>5. CASE CardOnFileDisabled(c) \/ CreateCharging(c) \/ NoAnswer(c) \/ ErrorCode(c) \/ Resolve(c)
  BY <1>5, LedgerKept DEF CardOnFileDisabled, CreateCharging, NoAnswer, ErrorCode, Resolve
<1> QED
  BY <1>1, <1>2, <1>3, <1>4, <1>5 DEF CallStep

LEMMA HandlerPays ==
    ASSUME RedsysInv, TypeOK', NEW o \in Orders, HandlerStep(o)
    PROVE  CollectedMoves
<1>a. TypeOK /\ BankFine(o)
  BY RowOfOrder
<1>1. CASE SyncRow(o)
  <2>1. o \in Charges
    BY <1>1, <1>a DEF SyncRow, Handling, BankFine
  <2>2. RowStatus(o) \in {"processing", "succeeded", "failed"}
    BY DEF RowStatus
  <2> QED
    BY <1>1, <1>a, <2>1, <2>2, ChargeCollects, LedgerKept DEF SyncRow
<1>2. CASE ApplyPart(o)
  BY <1>2, <1>a, ReceiptCollects DEF ApplyPart
<1>3. CASE Claim(o) \/ CountRow(o) \/ Split(o) \/ RefusePart(o)
  BY <1>3, LedgerKept DEF Claim, CountRow, Split, RefusePart
<1> QED
  BY <1>1, <1>2, <1>3 DEF HandlerStep

LEMMA StepPays ==
    ASSUME RedsysInv, TypeOK', [Next]_vars
    PROVE  CollectedMoves
<1>a. TypeOK
  BY InvParts
<1>1. ASSUME NEW c \in Charges, SweepStep(c) \/ CrashCall(c) \/ CrashSweep(c)
      PROVE  CollectedMoves
  BY <1>1, <1>a, ChargeCollects, LedgerKept
     DEF SweepStep, ExpireOrder, ExpireRow, CrashCall, CrashSweep
<1>2. ASSUME NEW o \in Orders, PageStep(o) \/ BankDecides(o) \/ CrashHandler(o)
      PROVE  UNCHANGED ledgerVars
  BY <1>2 DEF PageStep, ReadDue, Offer, BankDecides, CrashHandler
<1>3. CASE OthersStep
  BY <1>3, <1>a, RedsysAssumption, ReceiptCollects DEF OthersStep
<1>4. CASE UNCHANGED vars
  BY <1>4, LedgerKept DEF vars
<1> QED
  BY <1>1, <1>2, <1>3, <1>4, CallPays, HandlerPays, LedgerKept DEF Next, Orders

(* amountPaid is always the money of the payments that count as collected: *)
(* the answer of a charge, its notification, the parts of a split order    *)
(* and the cash of the staff are each added once, and nothing is lost.     *)
THEOREM RedsysPaidIsBooked == Spec => []PaidIsBooked
<1>1. RedsysInit => PaidIsBooked
  BY InitCollects DEF RedsysInit, PaidIsBooked
<1>2. ASSUME RedsysInv, RedsysInv', PaidIsBooked, [Next]_vars PROVE PaidIsBooked'
  <2>1. TypeOK /\ TypeOK' /\ inv.paid \in Nat
    BY <1>2 DEF RedsysInv, RedsysTypeOK, TypeOK, InvoiceRow
  <2>2. CollectedMoves
    BY <1>2, <2>1, StepPays
  <2>3. inv.paid = Sum(Settled) /\ inv.paid <= Sum(Settled)
    BY <1>2, <2>1 DEF PaidIsBooked
  <2>4. (inv.paid = Sum(Settled))'
    BY <2>1, <2>2, <2>3, CollectedStays
  <2> QED
    BY <2>4 DEF PaidIsBooked
<1> QED
  BY <1>1, <1>2, RedsysInvariant, PTL DEF Spec

-----------------------------------------------------------------------------
(* An order is booked once and in full.  The amount of an order is that of *)
(* its charge; whoever takes an order has what it needs to book it, and    *)
(* keeps track of the parts it has not registered yet.                     *)
PartsTotal(s) == IF Len(s) = 1 THEN s[1] ELSE s[1] + s[2]

AmountFine(o) ==
    /\ o \in Charges =>
          /\ call[o].pc \in {"idle", "reserved"} => order[o].status = "none"
          /\ call[o].pc # "idle" => pay[o].amount = call[o].amount
          /\ order[o].status # "none" => order[o].amount = call[o].amount
    /\ o \in Redirects /\ call[o].pc \in {"idle", "read"} => order[o].status = "none"

BookFine(o) ==
    /\ Taken(o) => bank[o] \in {"approved", "declined"}
    /\ booked[o] # {} \/ handler[o].pc # "idle" => Taken(o)
    /\ handler[o].pc \in {"claimed", "sync", "split"} => booked[o] = {}
    /\ \A p \in booked[o] : pay[p].status = "succeeded"
    /\ BookedByNotification(o) <= order[o].amount
    /\ handler[o].pc = "apply" =>
          /\ Len(handler[o].parts) \in 1..2
          /\ BookedByNotification(o) + PartsTotal(handler[o].parts) = order[o].amount

(* The row of a charge, while its call or its handler still counts on it.  *)
CountsOn(c) ==
    /\ call[c].pc \in {"reserved", "ordered", "asked"} /\ ~Taken(c) =>
          pay[c].status = "processing"
    /\ call[c].pc = "answered" /\ call[c].result = "succeeded" =>
          pay[c].status = "processing"
    /\ handler[c].pc = "sync" => pay[c].gid /\ pay[c].status \in {"processing", "failed"}
    /\ c \in sweep => Old(c)

(* Where the money of an approved order is.                                *)
Followed(o) ==
    bank[o] = "approved" =>
        \/ order[o].status \in Claimable
        \/ o \in review \cup stopped
        \/ handler[o].pc # "idle"
        \/ o \in Charges /\ call[o].pc = "answered" /\ call[o].result = "succeeded"
        \/ BookedByRow(o) + BookedByNotification(o) = order[o].amount

Kept(o) == AmountFine(o) /\ BookFine(o) /\ Followed(o) /\ (o \in Charges => CountsOn(o))

KeptInv == \A o \in Orders : Kept(o)

-----------------------------------------------------------------------------
(* The receipts of an order.                                               *)
LEMMA BookedReceipts ==
    ASSUME RedsysInv, NEW o \in Orders
    PROVE  /\ booked[o] \subseteq Receipts /\ IsFiniteSet(booked[o])
           /\ \A p \in booked[o] : p \in Payments /\ pay[p].amount \in Nat
<1>1. booked[o] \subseteq Receipts
  BY DEF RedsysInv, RedsysTypeOK
<1>2. IsFiniteSet(booked[o])
  BY <1>1, PaymentsAssumption, FS_Subset
<1>3. TypeOK
  BY DEF RedsysInv, RedsysTypeOK
<1> QED
  BY <1>1, <1>2, <1>3 DEF TypeOK, PaymentRow, Payments

LEMMA NotifiedIsNat ==
    ASSUME RedsysInv, NEW o \in Orders
    PROVE  /\ BookedByNotification(o) \in Nat
           /\ booked[o] = {} => BookedByNotification(o) = 0
<1> DEFINE amount == [p \in Payments |-> pay[p].amount]
<1>1. IsFiniteSet(booked[o]) /\ \A p \in booked[o] : amount[p] \in Nat
  BY BookedReceipts
<1> HIDE DEF amount
<1>2. SumFunctionOnSet(amount, {}) <= SumFunctionOnSet(amount, booked[o])
  BY <1>1, SumAtLeastPart
<1>3. SumFunctionOnSet(amount, booked[o]) \in Int
  BY <1>1, SumIsInt
<1>4. SumFunctionOnSet(amount, booked[o]) \in Nat
  BY <1>2, <1>3, SumEmpty
<1> QED
  BY <1>4, SumEmpty DEF BookedByNotification, amount

LEMMA SameNotified ==
    ASSUME RedsysInv, NEW o \in Orders, booked'[o] = booked[o],
           \A p \in booked[o] : pay'[p] = pay[p]
    PROVE  BookedByNotification(o)' = BookedByNotification(o)
<1> DEFINE old == [p \in Payments |-> pay[p].amount]
           new == [p \in Payments |-> pay'[p].amount]
<1>1. IsFiniteSet(booked[o]) /\ \A p \in booked[o] : old[p] = new[p]
  BY BookedReceipts
<1> HIDE DEF old, new
<1>2. SumFunctionOnSet(old, booked[o]) = SumFunctionOnSet(new, booked[o])
  BY <1>1, SumSame
<1> QED
  BY <1>2 DEF BookedByNotification, old, new

LEMMA MoreNotified ==
    ASSUME RedsysInv, RedsysInv', NEW o \in Orders, NEW p \in Receipts \ booked[o],
           booked'[o] = booked[o] \cup {p}, \A q \in booked[o] : pay'[q] = pay[q]
    PROVE  BookedByNotification(o)' = BookedByNotification(o) + pay'[p].amount
<1> DEFINE old == [q \in Payments |-> pay[q].amount]
           new == [q \in Payments |-> pay'[q].amount]
<1>1. IsFiniteSet(booked[o]) /\ \A q \in booked[o] : old[q] = new[q] /\ new[q] \in Int
  BY BookedReceipts
<1>2. p \in Payments /\ new[p] = pay'[p].amount /\ new[p] \in Nat
  BY DEF RedsysInv, RedsysTypeOK, TypeOK, PaymentRow, Payments
<1>a. BookedByNotification(o) = SumFunctionOnSet(old, booked[o])
      /\ BookedByNotification(o)' = SumFunctionOnSet(new, booked'[o])
      /\ BookedByNotification(o) \in Nat
  BY NotifiedIsNat DEF BookedByNotification
<1> HIDE DEF old, new
<1>3. booked'[o] \ {p} = booked[o] /\ p \in booked'[o] /\ IsFiniteSet(booked'[o])
  BY <1>1, FS_AddElement
<1>4. \A q \in booked'[o] : new[q] \in Int
  BY <1>1, <1>2
<1>5. SumFunctionOnSet(new, booked'[o]) = new[p] + SumFunctionOnSet(new, booked[o])
  BY <1>3, <1>4, SumRemove
<1>6. SumFunctionOnSet(old, booked[o]) = SumFunctionOnSet(new, booked[o])
  BY <1>1, SumSame
<1> QED
  BY <1>2, <1>5, <1>6, <1>a

-----------------------------------------------------------------------------
(* What a step leaves alone.                                               *)
Untouched(q) ==
    /\ call'[q] = call[q] /\ bank'[q] = bank[q]
    /\ handler'[q] = handler[q] /\ booked'[q] = booked[q]
    /\ order'[q].amount = order[q].amount
    /\ \/ order'[q].status = order[q].status
       \/ q \in Redirects /\ order[q].status = "pending" /\ order'[q].status = "replaced"
    /\ q \in Charges => pay'[q] = pay[q]
    /\ q \in sweep' => q \in sweep
    /\ q \in review \cup stopped => q \in review' \cup stopped'

ReceiptsKept == \A p \in Receipts : pay[p].status # "none" => pay'[p] = pay[p]

LEMMA UntouchedKept ==
    ASSUME RedsysInv, ReceiptsKept, NEW q \in Orders, Kept(q), Untouched(q)
    PROVE  Kept(q)'
<1>1. \A p \in booked[q] : pay'[p] = pay[p]
  BY BookedReceipts DEF Kept, BookFine, ReceiptsKept
<1>2. BookedByNotification(q)' = BookedByNotification(q)
  BY <1>1, SameNotified DEF Untouched
<1>3. BookedByRow(q)' = BookedByRow(q)
  BY DEF BookedByRow, Untouched
<1>4. AmountFine(q)'
  BY DEF Kept, AmountFine, Untouched
<1>5. Taken(q)' <=> Taken(q)
  BY DEF Taken, Untouched
<1>6. BookFine(q)'
  BY <1>1, <1>2, <1>5 DEF Kept, BookFine, Untouched
<1>7. Followed(q)'
  BY <1>2, <1>3 DEF Kept, Followed, Untouched, Claimable
<1>8. q \in Charges => CountsOn(q)'
  BY <1>5 DEF Kept, CountsOn, Untouched, Old
<1> QED
  BY <1>4, <1>6, <1>7, <1>8 DEF Kept

LEMMA OneKept ==
    ASSUME RedsysInv, KeptInv, ReceiptsKept, NEW o \in Orders, Kept(o)',
           \A q \in Orders \ {o} : Untouched(q)
    PROVE  KeptInv'
BY UntouchedKept DEF KeptInv

(* The transactions of a charge write its own row, and keep its amount.    *)
LEMMA RowWrites ==
    ASSUME TypeOK, NEW c \in Charges,
           \/ \E a : ReserveCharge(c, a)
           \/ StampOrder(c) \/ FailCharge(c) \/ CloseReservation(c)
           \/ \E status : SyncCharge(c, status)
           \/ \E result : FinalizeCharge(c, result, TRUE)
           \/ UNCHANGED pay
    PROVE  /\ ReceiptsKept /\ \A d \in Charges \ {c} : pay'[d] = pay[d]
           /\ pay'[c].amount = pay[c].amount \/ \E a : ReserveCharge(c, a)
           /\ pay[c].gid => pay'[c].gid \/ \E a : ReserveCharge(c, a)
<1>1. c \in Payments /\ pay \in [Payments -> PaymentRow]
  BY DEF TypeOK, Payments
<1>2. \A p \in Payments \ {c} : pay'[p] = pay[p]
  BY <1>1 DEF ReserveCharge, StampOrder, FailCharge, CloseReservation, SyncCharge,
     FinalizeCharge
<1>3. ReceiptsKept /\ \A d \in Charges \ {c} : pay'[d] = pay[d]
  BY <1>2, LedgerAssumption DEF ReceiptsKept, Payments
<1>4. CASE StampOrder(c)
  BY <1>1, <1>3, <1>4 DEF StampOrder, PaymentRow
<1>5. CASE FailCharge(c) \/ CloseReservation(c)
  BY <1>1, <1>3, <1>5 DEF FailCharge, CloseReservation, PaymentRow
<1>6. CASE \E status : SyncCharge(c, status)
  BY <1>1, <1>3, <1>6 DEF SyncCharge, PaymentRow
<1>7. CASE \E result : FinalizeCharge(c, result, TRUE)
  BY <1>1, <1>3, <1>7 DEF FinalizeCharge, PaymentRow
<1> QED
  BY <1>3, <1>4, <1>5, <1>6, <1>7

(* What a step finds of the order it works on.                             *)
LEMMA Found ==
    ASSUME RedsysInv, KeptInv, NEW o \in Orders
    PROVE  /\ TypeOK /\ CallsFine /\ OrdersFine /\ HandlersFine /\ RestFine
           /\ AmountFine(o) /\ BookFine(o) /\ Followed(o) /\ BankFine(o)
           /\ o \in Charges => CountsOn(o) /\ CallFine(o) /\ TakenFine(o)
           /\ BookedByNotification(o) \in Nat /\ order[o].amount \in Nat
           /\ booked[o] = {} => BookedByNotification(o) = 0
           /\ o \in Charges => o \notin Redirects
<1>1. /\ TypeOK /\ CallsFine /\ OrdersFine /\ HandlersFine /\ RestFine
      /\ BankFine(o) /\ (o \in Charges => CallFine(o) /\ TakenFine(o))
  BY RowOfOrder
<1> QED
  BY <1>1, NotifiedIsNat, RedsysAssumption DEF KeptInv, Kept, OrdersFine, OrderRow

(* A step that keeps the receipts of the order.                            *)
LEMMA SameReceipts ==
    ASSUME RedsysInv, KeptInv, NEW o \in Orders, booked'[o] = booked[o], ReceiptsKept
    PROVE  /\ BookedByNotification(o)' = BookedByNotification(o)
           /\ \A p \in booked[o] : pay'[p] = pay[p]
<1>1. \A p \in booked[o] : pay'[p] = pay[p]
  BY BookedReceipts DEF KeptInv, Kept, BookFine, ReceiptsKept
<1> QED
  BY <1>1, SameNotified

-----------------------------------------------------------------------------
(* The calls.                                                              *)
LEMMA ReserveKept ==
    ASSUME RedsysInv, KeptInv, NEW c \in Charges, Reserve(c)
    PROVE  KeptInv'
<1>a. c \in Orders
  BY DEF Orders
<1>b. /\ TypeOK /\ CallsFine /\ AmountFine(c) /\ BookFine(c) /\ CountsOn(c) /\ CallFine(c)
      /\ order[c].amount \in Nat /\ c \notin Redirects
  BY <1>a, Found
<1>1. PICK a \in 1..Total :
          /\ ReserveCharge(c, a)
          /\ call' = [call EXCEPT ![c].pc = "reserved", ![c].amount = a]
  BY DEF Reserve
<1>2. UNCHANGED <<order, bank, handler, booked, review, sweep, stopped, crashes>> /\ At(c, "idle")
  BY DEF Reserve
<1>3. a \in Nat
  BY LedgerAssumption
<1>4. pay'[c].status = "processing" /\ pay'[c].amount = a
  <2>1. c \in DOMAIN pay
    BY <1>b DEF TypeOK, Payments
  <2> QED
    BY <1>1, <2>1 DEF ReserveCharge, NewPayment
<1>5. ReceiptsKept /\ \A d \in Charges \ {c} : pay'[d] = pay[d]
  BY <1>b, <1>1, RowWrites
<1>6. /\ call'[c].pc = "reserved" /\ call'[c].amount = a /\ call'[c].result = call[c].result
      /\ \A q \in Orders \ {c} : call'[q] = call[q]
  BY <1>a, <1>b, <1>1, <1>3, GotoAmountWrites DEF CallPc
<1>7. ~Taken(c) /\ handler[c].pc = "idle" /\ booked[c] = {} /\ bank[c] = "none"
      /\ order[c].status = "none" /\ c \notin sweep
  BY <1>b, <1>2 DEF AmountFine, BookFine, CountsOn, CallFine, At, Taken, Old
<1>8. BookedByNotification(c)' = BookedByNotification(c)
  BY <1>a, <1>2, <1>5, SameReceipts
<1>9. AmountFine(c)' /\ BookFine(c)' /\ Followed(c)' /\ CountsOn(c)'
  BY <1>b, <1>2, <1>4, <1>6, <1>7, <1>8 DEF AmountFine, BookFine, Followed, CountsOn, Taken
<1>10. \A q \in Orders \ {c} : Untouched(q)
  BY <1>2, <1>5, <1>6 DEF Untouched
<1> QED
  BY <1>a, <1>5, <1>9, <1>10, OneKept DEF Kept

(* The steps that find the bank not asked or the order not taken, and move *)
(* the call only.                                                          *)
LEMMA AnswersKept ==
    ASSUME RedsysInv, KeptInv, NEW c \in Charges,
           CardOnFileDisabled(c) \/ NoAnswer(c) \/ ErrorCode(c)
           \/ (Resolve(c) /\ order[c].status # "charging")
    PROVE  KeptInv'
<1>a. c \in Orders
  BY DEF Orders
<1>b. /\ TypeOK /\ CallsFine /\ AmountFine(c) /\ BookFine(c) /\ CountsOn(c) /\ CallFine(c)
      /\ Followed(c) /\ RestFine /\ c \notin Redirects
  BY <1>a, Found
<1>1. PICK result \in {"failed", "unknown"} : Answered(c, result)
  BY DEF CardOnFileDisabled, NoAnswer, ErrorCode, Resolve
<1>2. /\ call[c].pc \in {"reserved", "asked"}
      /\ UNCHANGED <<pay, order, handler, booked, review, sweep, stopped>>
      /\ bank' = bank \/ (bank[c] = "none" /\ bank' = [bank EXCEPT ![c] = "refused"])
      /\ call[c].pc = "reserved" => bank' = bank
  BY DEF CardOnFileDisabled, NoAnswer, ErrorCode, Resolve, ledgerVars, At
<1>3. /\ call'[c].pc = "answered" /\ call'[c].result = result
      /\ call'[c].amount = call[c].amount
      /\ \A q \in Orders \ {c} : call'[q] = call[q]
  BY <1>a, <1>b, <1>1, AnsweredWrites
<1>4. /\ bank'[c] = bank[c] \/ (bank[c] = "none" /\ bank'[c] = "refused")
      /\ \A q \in Orders \ {c} : bank'[q] = bank[q]
  BY <1>a, <1>b, <1>2 DEF RestFine
<1>5. BookedByNotification(c)' = BookedByNotification(c) /\ BookedByRow(c)' = BookedByRow(c)
      /\ ReceiptsKept
  BY <1>a, <1>2, SameReceipts DEF BookedByRow, ReceiptsKept
<1>6. AmountFine(c)'
  BY <1>b, <1>2, <1>3 DEF AmountFine
<1>7. BookFine(c)'
  BY <1>b, <1>2, <1>4, <1>5 DEF BookFine, Taken
<1>8. Followed(c)'
  BY <1>b, <1>2, <1>4, <1>5 DEF Followed
<1>9. CountsOn(c)'
  BY <1>b, <1>2, <1>3 DEF CountsOn, Taken, Old
<1>10. \A q \in Orders \ {c} : Untouched(q)
  BY <1>2, <1>3, <1>4 DEF Untouched
<1> QED
  BY <1>a, <1>5, <1>6, <1>7, <1>8, <1>9, <1>10, OneKept DEF Kept

LEMMA CreateChargingKept ==
    ASSUME RedsysInv, KeptInv, NEW c \in Charges, CreateCharging(c)
    PROVE  KeptInv'
<1>a. c \in Orders
  BY DEF Orders
<1>b. /\ TypeOK /\ CallsFine /\ OrdersFine /\ AmountFine(c) /\ BookFine(c) /\ CountsOn(c)
      /\ CallFine(c) /\ c \notin Redirects /\ (booked[c] = {} => BookedByNotification(c) = 0)
  BY <1>a, Found
<1> DEFINE row == [status |-> "charging", amount |-> call[c].amount]
<1>1. /\ At(c, "reserved") /\ order' = [order EXCEPT ![c] = row] /\ Goto(c, "ordered")
      /\ UNCHANGED <<pay, bank, handler, booked, review, sweep, stopped>>
  BY DEF CreateCharging, ledgerVars
<1>2. row.status = "charging" /\ row.amount = call[c].amount
  OBVIOUS
<1> HIDE DEF row
<1>3. order'[c] = row /\ \A q \in Orders \ {c} : order'[q] = order[q]
  BY <1>a, <1>b, <1>1 DEF OrdersFine
<1>4. /\ call'[c].pc = "ordered" /\ call'[c].result = call[c].result
      /\ call'[c].amount = call[c].amount
      /\ \A q \in Orders \ {c} : call'[q] = call[q]
  BY <1>a, <1>b, <1>1, GotoWrites DEF CallPc
<1>5. /\ bank[c] = "none" /\ order[c].status = "none" /\ ~Taken(c)
      /\ handler[c].pc = "idle" /\ booked[c] = {}
  BY <1>b, <1>1 DEF CallFine, AmountFine, BookFine, At, Taken
<1>6. BookedByNotification(c)' = BookedByNotification(c) /\ ReceiptsKept
  BY <1>a, <1>1, SameReceipts DEF ReceiptsKept
<1>7. call[c].amount \in Nat
  BY <1>a, <1>b DEF CallsFine, CallRow
<1>8. AmountFine(c)' /\ BookFine(c)' /\ Followed(c)' /\ CountsOn(c)'
  BY <1>b, <1>1, <1>2, <1>3, <1>4, <1>5, <1>6, <1>7
     DEF AmountFine, BookFine, Followed, CountsOn, Taken, At, Old
<1>9. \A q \in Orders \ {c} : Untouched(q)
  BY <1>1, <1>3, <1>4 DEF Untouched
<1> QED
  BY <1>a, <1>6, <1>8, <1>9, OneKept DEF Kept

LEMMA ResolveKept ==
    ASSUME RedsysInv, KeptInv, NEW c \in Charges, Resolve(c), order[c].status = "charging"
    PROVE  KeptInv'
<1>a. c \in Orders
  BY DEF Orders
<1>b. /\ TypeOK /\ CallsFine /\ OrdersFine /\ AmountFine(c) /\ BookFine(c) /\ CountsOn(c)
      /\ CallFine(c) /\ c \notin Redirects /\ (booked[c] = {} => BookedByNotification(c) = 0)
      /\ order[c].amount \in Nat
  BY <1>a, Found
<1> DEFINE result == IF bank[c] = "approved" THEN "succeeded" ELSE "failed"
<1>1. /\ At(c, "asked") /\ bank[c] \in {"approved", "declined"}
      /\ SetOrder(c, Decision(c)) /\ Answered(c, result)
      /\ UNCHANGED <<pay, bank, handler, booked, review, sweep, stopped>>
  BY DEF Resolve, ledgerVars
<1>2. /\ order'[c].status \in {"paid", "failed"} /\ order'[c].amount = order[c].amount
      /\ \A q \in Orders \ {c} : order'[q] = order[q]
  <2>1. Decision(c) \in {"paid", "failed"}
    BY DEF Decision
  <2> QED
    BY <1>a, <1>b, <1>1, <2>1, SetOrderWrites
<1>3. /\ call'[c].pc = "answered" /\ call'[c].result = result
      /\ call'[c].amount = call[c].amount
      /\ \A q \in Orders \ {c} : call'[q] = call[q]
  BY <1>a, <1>b, <1>1, AnsweredWrites
<1>4. ~Taken(c) /\ handler[c].pc = "idle" /\ booked[c] = {} /\ pay[c].status = "processing"
  BY <1>b, <1>1 DEF BookFine, CountsOn, Taken, At
<1>5. BookedByNotification(c)' = BookedByNotification(c) /\ ReceiptsKept
  BY <1>a, <1>1, SameReceipts DEF ReceiptsKept
<1>6. AmountFine(c)'
  BY <1>b, <1>1, <1>2, <1>3 DEF AmountFine, At
<1>7. BookFine(c)'
  BY <1>b, <1>1, <1>2, <1>4, <1>5 DEF BookFine, Taken
<1>8. Followed(c)'
  BY <1>1, <1>3 DEF Followed
<1>9. CountsOn(c)'
  BY <1>b, <1>1, <1>3, <1>4 DEF CountsOn, Old, At
<1>10. \A q \in Orders \ {c} : Untouched(q)
  BY <1>1, <1>2, <1>3 DEF Untouched
<1> QED
  BY <1>a, <1>5, <1>6, <1>7, <1>8, <1>9, <1>10, OneKept DEF Kept

LEMMA StampKept ==
    ASSUME RedsysInv, KeptInv, NEW c \in Charges, Stamp(c) \/ Throws(c)
    PROVE  KeptInv'
<1>a. c \in Orders
  BY DEF Orders
<1>b. /\ TypeOK /\ CallsFine /\ AmountFine(c) /\ BookFine(c) /\ CountsOn(c)
      /\ CallFine(c) /\ TakenFine(c) /\ BankFine(c) /\ c \notin Redirects
  BY <1>a, Found
<1>1. /\ call[c].pc \in {"reserved", "ordered"}
      /\ StampOrder(c) \/ FailCharge(c)
      /\ UNCHANGED <<order, bank, handler, booked, review, sweep, stopped>>
      /\ (Goto(c, "asked") /\ StampOrder(c)) \/ Goto(c, "done")
      /\ Stamp(c) => call[c].pc = "ordered"
  BY DEF Stamp, Throws, At
<1>2. /\ call'[c].pc \in {"asked", "done"} /\ call'[c].amount = call[c].amount
      /\ call'[c].pc = "asked" => StampOrder(c)
      /\ \A q \in Orders \ {c} : call'[q] = call[q]
  BY <1>a, <1>b, <1>1, GotoWrites DEF CallPc
<1>3. ReceiptsKept /\ pay'[c].amount = pay[c].amount /\ \A d \in Charges \ {c} : pay'[d] = pay[d]
  <2>1. pay'[c].amount = pay[c].amount \/ \E a : ReserveCharge(c, a)
    BY <1>b, <1>1, RowWrites
  <2>2. ReceiptsKept /\ \A d \in Charges \ {c} : pay'[d] = pay[d]
    BY <1>b, <1>1, RowWrites
  <2>3. ~\E a : ReserveCharge(c, a)
    BY <1>1, <1>b DEF ReserveCharge, CallFine, StampOrder, FailCharge
  <2> QED
    BY <2>1, <2>2, <2>3
<1>4. StampOrder(c) => pay'[c].status = "processing"
  BY <1>b, PayWrites
<1>5. bank[c] = "none" /\ ~Taken(c) /\ handler[c].pc = "idle" /\ booked[c] = {}
  BY <1>b, <1>1 DEF CallFine, BookFine
<1>6. BookedByNotification(c)' = BookedByNotification(c)
  BY <1>a, <1>1, <1>3, SameReceipts
<1>7. AmountFine(c)'
  BY <1>b, <1>1, <1>2, <1>3 DEF AmountFine
<1>8. BookFine(c)' /\ Followed(c)'
  BY <1>b, <1>1, <1>5, <1>6 DEF BookFine, Followed, Taken
<1>9. CountsOn(c)'
  BY <1>b, <1>1, <1>2, <1>4, <1>5 DEF CountsOn, Old
<1>10. \A q \in Orders \ {c} : Untouched(q)
  BY <1>1, <1>2, <1>3 DEF Untouched
<1> QED
  BY <1>a, <1>3, <1>7, <1>8, <1>9, <1>10, OneKept DEF Kept

(* Phase 3 of a call that was told 'succeeded' books the order.            *)
LEMMA FinalizeKept ==
    ASSUME RedsysInv, KeptInv, NEW c \in Charges, Finalize(c)
    PROVE  KeptInv'
<1>a. c \in Orders
  BY DEF Orders
<1>b. /\ TypeOK /\ CallsFine /\ AmountFine(c) /\ BookFine(c) /\ CountsOn(c) /\ Followed(c)
      /\ CallFine(c) /\ TakenFine(c) /\ BankFine(c) /\ c \notin Redirects
      /\ (booked[c] = {} => BookedByNotification(c) = 0) /\ order[c].amount \in Nat
  BY <1>a, Found
<1> DEFINE status == FinalStatus(call[c].result)
<1>1. /\ At(c, "answered") /\ FinalizeCharge(c, status, TRUE) /\ Goto(c, "done")
      /\ UNCHANGED <<order, bank, handler, booked, review, sweep, stopped>>
  BY DEF Finalize
<1>2. /\ call'[c].pc = "done" /\ call'[c].amount = call[c].amount
      /\ call'[c].result = call[c].result
      /\ \A q \in Orders \ {c} : call'[q] = call[q]
  BY <1>a, <1>b, <1>1, GotoWrites DEF CallPc
<1>3. status \in {"processing", "succeeded", "failed"}
      /\ (status = "succeeded" <=> call[c].result = "succeeded")
  <2>1. call[c].result \in {"succeeded", "failed", "unknown"}
    BY <1>a, <1>b, <1>1 DEF CallsFine, CallRow, CallFine, At
  <2> QED
    BY <2>1 DEF FinalStatus
<1> HIDE DEF status
<1>4. /\ ReceiptsKept /\ \A d \in Charges \ {c} : pay'[d] = pay[d]
      /\ pay'[c].amount = pay[c].amount /\ (pay[c].gid => pay'[c].gid)
      /\ pay'[c].status = IF pay[c].status = "processing" THEN status ELSE pay[c].status
  <2>1. ReceiptsKept /\ \A d \in Charges \ {c} : pay'[d] = pay[d]
    BY <1>b, <1>1, RowWrites
  <2>2. c \in DOMAIN pay /\ pay[c] \in PaymentRow
    BY <1>b DEF TypeOK, Payments
  <2>3. /\ pay'[c].amount = pay[c].amount /\ (pay[c].gid => pay'[c].gid)
        /\ pay'[c].status = IF pay[c].status = "processing" THEN status ELSE pay[c].status
    BY <1>1, <2>2 DEF FinalizeCharge, PaymentRow
  <2> QED
    BY <2>1, <2>3
<1>5. BookedByNotification(c)' = BookedByNotification(c) /\ (\A p \in booked[c] : pay'[p] = pay[p])
  BY <1>a, <1>1, <1>4, SameReceipts
<1>6. AmountFine(c)'
  BY <1>b, <1>1, <1>2, <1>4 DEF AmountFine, At
<1>7. BookFine(c)'
  BY <1>b, <1>1, <1>5 DEF BookFine, Taken
<1>8. Followed(c)'
  <2>1. CASE call[c].result = "succeeded"
    <3>1. Taken(c) /\ booked[c] = {}
      BY <1>b, <2>1 DEF TakenFine
    <3>2. pay'[c].status = "succeeded" /\ pay'[c].amount = order[c].amount
      BY <1>b, <1>1, <1>3, <1>4, <2>1, <3>1 DEF CountsOn, AmountFine, At, Taken
    <3>3. BookedByRow(c)' = order[c].amount
      BY <1>1, <3>2 DEF BookedByRow, Settled
    <3> QED
      BY <1>b, <1>1, <1>5, <3>1, <3>3 DEF Followed
  <2>2. CASE call[c].result # "succeeded"
    <3>1. BookedByRow(c)' = BookedByRow(c)
      BY <1>3, <1>4, <2>2 DEF BookedByRow, Settled
    <3> QED
      BY <1>b, <1>1, <1>5, <2>2, <3>1 DEF Followed
  <2> QED
    BY <2>1, <2>2
<1>9. CountsOn(c)'
  BY <1>b, <1>1, <1>2, <1>3, <1>4 DEF CountsOn, Old, TakenFine
<1>10. \A q \in Orders \ {c} : Untouched(q)
  BY <1>1, <1>2, <1>4 DEF Untouched
<1> QED
  BY <1>a, <1>4, <1>6, <1>7, <1>8, <1>9, <1>10, OneKept DEF Kept

-----------------------------------------------------------------------------
(* The payment page and the bank.                                          *)
LEMMA ReadDueKept ==
    ASSUME RedsysInv, KeptInv, NEW o \in Redirects, ReadDue(o)
    PROVE  KeptInv'
<1>a. o \in Orders /\ o \notin Charges
  BY RedsysAssumption DEF Orders
<1>b. /\ TypeOK /\ CallsFine /\ AmountFine(o) /\ BookFine(o) /\ Followed(o)
  BY <1>a, Found
<1>1. /\ At(o, "idle") /\ UNCHANGED <<pay, order, bank, handler, booked, review, sweep, stopped>>
      /\ call' = [call EXCEPT ![o].pc = "read", ![o].amount = Outstanding]
  BY DEF ReadDue, ledgerVars
<1>2. \A q \in Orders \ {o} : call'[q] = call[q]
  BY <1>b, <1>1 DEF CallsFine
<1>3. ReceiptsKept /\ BookedByNotification(o)' = BookedByNotification(o)
      /\ BookedByRow(o)' = BookedByRow(o)
  BY <1>a, <1>1, SameReceipts DEF ReceiptsKept, BookedByRow
<1>4. AmountFine(o)' /\ BookFine(o)' /\ Followed(o)'
  BY <1>a, <1>b, <1>1, <1>3 DEF AmountFine, BookFine, Followed, Taken, At
<1>5. \A q \in Orders \ {o} : Untouched(q)
  BY <1>1, <1>2 DEF Untouched
<1> QED
  BY <1>a, <1>3, <1>4, <1>5, OneKept DEF Kept

LEMMA OfferKept ==
    ASSUME RedsysInv, KeptInv, NEW o \in Redirects, Offer(o)
    PROVE  KeptInv'
<1>a. o \in Orders /\ o \notin Charges
  BY RedsysAssumption DEF Orders
<1>b. /\ TypeOK /\ CallsFine /\ OrdersFine /\ AmountFine(o) /\ BookFine(o) /\ Followed(o)
      /\ (booked[o] = {} => BookedByNotification(o) = 0)
  BY <1>a, Found
<1>1. /\ At(o, "read") /\ Goto(o, "done")
      /\ UNCHANGED <<pay, bank, handler, booked, review, sweep, stopped>>
  BY DEF Offer, ledgerVars
<1>2. call'[o].pc = "done" /\ \A q \in Orders \ {o} : call'[q] = call[q]
  BY <1>a, <1>b, <1>1, GotoWrites DEF CallPc
<1>3. order[o].status = "none"
  BY <1>b, <1>1 DEF AmountFine, At
<1>4. /\ order'[o] = order[o] \/ order'[o] = [status |-> "pending", amount |-> call[o].amount]
      /\ \A q \in Orders \ {o} :
            /\ order'[q].amount = order[q].amount
            /\ \/ order'[q].status = order[q].status
               \/ q \in Redirects /\ order[q].status = "pending" /\ order'[q].status = "replaced"
  <2>1. CASE UNCHANGED order
    BY <2>1
  <2>2. CASE order' # order
    <3>1. order' = [q \in Orders |->
                        IF q = o THEN [status |-> "pending", amount |-> call[o].amount]
                        ELSE IF q \in Pending THEN [order[q] EXCEPT !.status = "replaced"]
                        ELSE order[q]]
      BY <2>2 DEF Offer
    <3>2. \A q \in Orders \ {o} :
             order'[q] = IF q \in Pending THEN [order[q] EXCEPT !.status = "replaced"]
                         ELSE order[q]
      BY <3>1
    <3>3. \A q \in Orders : order[q] \in OrderRow
      BY <1>b DEF OrdersFine
    <3>4. ASSUME NEW q \in Orders \ {o}
          PROVE  /\ order'[q].amount = order[q].amount
                 /\ \/ order'[q].status = order[q].status
                    \/ q \in Redirects /\ order[q].status = "pending" /\ order'[q].status = "replaced"
      BY <3>2, <3>3 DEF Pending, OrderRow
    <3>5. order'[o] = [status |-> "pending", amount |-> call[o].amount]
      BY <1>a, <3>1
    <3> QED
      BY <3>4, <3>5
  <2> QED
    BY <2>1, <2>2
<1>5. /\ booked[o] = {} /\ handler[o].pc = "idle" /\ ~Taken(o)
      /\ call[o].amount \in Nat /\ order[o].amount \in Nat
  BY <1>a, <1>b, <1>3 DEF BookFine, Taken, CallsFine, CallRow, OrdersFine, OrderRow
<1>6. ReceiptsKept /\ BookedByNotification(o)' = BookedByNotification(o)
      /\ BookedByRow(o)' = BookedByRow(o)
  BY <1>a, <1>1, SameReceipts DEF ReceiptsKept, BookedByRow
<1>7. AmountFine(o)'
  BY <1>a, <1>2 DEF AmountFine
<1>8. BookFine(o)'
  BY <1>b, <1>1, <1>3, <1>4, <1>5, <1>6 DEF BookFine, Taken
<1>9. Followed(o)'
  BY <1>a, <1>b, <1>1, <1>3, <1>4, <1>5, <1>6 DEF Followed, Claimable
<1>10. \A q \in Orders \ {o} : Untouched(q)
  BY <1>1, <1>2, <1>4 DEF Untouched
<1> QED
  BY <1>a, <1>6, <1>7, <1>8, <1>9, <1>10, OneKept DEF Kept

LEMMA BankDecidesKept ==
    ASSUME RedsysInv, KeptInv, NEW o \in Orders, BankDecides(o)
    PROVE  KeptInv'
<1>b. /\ TypeOK /\ RestFine /\ AmountFine(o) /\ BookFine(o) /\ Followed(o)
      /\ (o \in Charges => CountsOn(o)) /\ OrdersFine
  BY Found
<1>1. PICK decision \in {"approved", "declined"} : bank' = [bank EXCEPT ![o] = decision]
  BY DEF BankDecides
<1>2. /\ bank[o] = "none" /\ order[o].status # "none"
      /\ UNCHANGED <<pay, order, call, handler, booked, review, sweep, stopped>>
  BY DEF BankDecides, ledgerVars
<1>3. bank'[o] = decision /\ \A q \in Orders \ {o} : bank'[q] = bank[q]
  BY <1>b, <1>1 DEF RestFine
<1>4. order[o].status \in Claimable
  <2>1. order[o].status \in Claimable \cup {"none", "paid", "failed"}
    BY <1>b DEF OrdersFine, OrderRow
  <2> QED
    BY <1>b, <1>2, <2>1 DEF BookFine, Taken
<1>5. ReceiptsKept /\ BookedByNotification(o)' = BookedByNotification(o)
  BY <1>2, SameReceipts DEF ReceiptsKept
<1>6. AmountFine(o)' /\ BookFine(o)' /\ Followed(o)' /\ (o \in Charges => CountsOn(o)')
  BY <1>b, <1>2, <1>3, <1>4, <1>5 DEF AmountFine, BookFine, Followed, CountsOn, Taken, Old
<1>7. \A q \in Orders \ {o} : Untouched(q)
  BY <1>2, <1>3 DEF Untouched
<1> QED
  BY <1>5, <1>6, <1>7, OneKept DEF Kept

-----------------------------------------------------------------------------
(* The notifications.                                                      *)
LEMMA ClaimKept ==
    ASSUME RedsysInv, KeptInv, NEW o \in Orders, Claim(o)
    PROVE  KeptInv'
<1>b. /\ OrdersFine /\ HandlersFine /\ AmountFine(o) /\ BookFine(o) /\ Followed(o)
      /\ (o \in Charges => CountsOn(o))
  BY Found
<1>1. /\ Handling(o, "idle") /\ bank[o] \in {"approved", "declined"}
      /\ order[o].status \in Claimable /\ SetOrder(o, Decision(o))
      /\ UNCHANGED <<pay, call, bank, booked, review, sweep, stopped>>
      /\ HandlerGoto(o, "claimed")
  BY DEF Claim, ledgerVars, HandlerGoto
<1>2. /\ order'[o].status \in {"paid", "failed"} /\ order'[o].amount = order[o].amount
      /\ \A q \in Orders \ {o} : order'[q] = order[q]
  <2>1. Decision(o) \in {"paid", "failed"}
    BY DEF Decision
  <2> QED
    BY <1>b, <1>1, <2>1, SetOrderWrites
<1>3. /\ handler'[o].pc = "claimed" /\ \A q \in Orders \ {o} : handler'[q] = handler[q]
  BY <1>b, <1>1, HandlerWrites
<1>4. ~Taken(o) /\ booked[o] = {}
  BY <1>b, <1>1 DEF BookFine, Taken, Claimable
<1>5. ReceiptsKept /\ BookedByNotification(o)' = BookedByNotification(o)
  BY <1>1, SameReceipts DEF ReceiptsKept
<1>6. AmountFine(o)'
  BY <1>b, <1>1, <1>2 DEF AmountFine, Claimable
<1>7. BookFine(o)' /\ Followed(o)' /\ (o \in Charges => CountsOn(o)')
  BY <1>b, <1>1, <1>2, <1>3, <1>4, <1>5 DEF BookFine, Followed, CountsOn, Taken, Old
<1>8. \A q \in Orders \ {o} : Untouched(q)
  BY <1>1, <1>2, <1>3 DEF Untouched
<1> QED
  BY <1>5, <1>6, <1>7, <1>8, OneKept DEF Kept

LEMMA CountRowKept ==
    ASSUME RedsysInv, KeptInv, NEW o \in Orders, CountRow(o)
    PROVE  KeptInv'
<1>b. /\ HandlersFine /\ AmountFine(o) /\ BookFine(o) /\ Followed(o) /\ BankFine(o)
      /\ (o \in Charges => CountsOn(o))
  BY Found
<1> DEFINE pc == IF RowUnderWay(o) THEN "sync"
                 ELSE IF bank[o] = "approved" THEN "split" ELSE "idle"
<1>1. /\ Handling(o, "claimed") /\ HandlerGoto(o, pc)
      /\ UNCHANGED <<pay, order, call, bank, booked, review, sweep, stopped>>
  BY DEF CountRow, ledgerVars
<1>2. /\ pc \in {"sync", "split", "idle"} /\ (pc = "sync" => RowUnderWay(o))
      /\ (pc = "idle" => bank[o] # "approved")
  OBVIOUS
<1> HIDE DEF pc
<1>3. /\ handler'[o].pc = pc /\ \A q \in Orders \ {o} : handler'[q] = handler[q]
  BY <1>b, <1>1, <1>2, HandlerWrites
<1>4. Taken(o) /\ booked[o] = {}
  BY <1>b, <1>1 DEF BookFine, Handling
<1>5. ReceiptsKept /\ BookedByNotification(o)' = BookedByNotification(o)
  BY <1>1, SameReceipts DEF ReceiptsKept
<1>6. AmountFine(o)' /\ BookFine(o)' /\ Followed(o)'
  BY <1>b, <1>1, <1>2, <1>3, <1>4, <1>5 DEF AmountFine, BookFine, Followed, Taken
<1>7. o \in Charges => CountsOn(o)'
  BY <1>b, <1>1, <1>2, <1>3, <1>4 DEF CountsOn, Taken, RowUnderWay, Old
<1>8. \A q \in Orders \ {o} : Untouched(q)
  BY <1>1, <1>3 DEF Untouched
<1> QED
  BY <1>5, <1>6, <1>7, <1>8, OneKept DEF Kept

(* An approved charge that was under way when its notification counted it  *)
(* is booked by its row: failing it meanwhile does not stop the move.      *)
LEMMA SyncRowKept ==
    ASSUME RedsysInv, KeptInv, NEW o \in Orders, SyncRow(o)
    PROVE  KeptInv'
<1>b. /\ TypeOK /\ HandlersFine /\ AmountFine(o) /\ BookFine(o) /\ BankFine(o)
      /\ (o \in Charges => CountsOn(o) /\ CallFine(o) /\ TakenFine(o))
      /\ (booked[o] = {} => BookedByNotification(o) = 0) /\ order[o].amount \in Nat
  BY Found
<1>1. /\ Handling(o, "sync") /\ HandlerGoto(o, "idle")
      /\ SyncCharge(o, RowStatus(o)) \/ (~SyncMoves(o, RowStatus(o)) /\ UNCHANGED ledgerVars)
      /\ UNCHANGED <<order, call, bank, booked, review, sweep, stopped>>
  BY DEF SyncRow
<1>2. o \in Charges /\ o \notin Redirects /\ CountsOn(o) /\ CallFine(o) /\ TakenFine(o)
  BY <1>b, <1>1, RedsysAssumption DEF BankFine, Handling
<1>3. /\ handler'[o].pc = "idle" /\ \A q \in Orders \ {o} : handler'[q] = handler[q]
  BY <1>b, <1>1, HandlerWrites
<1>4. /\ ReceiptsKept /\ \A d \in Charges \ {o} : pay'[d] = pay[d]
      /\ pay'[o].amount = pay[o].amount
      /\ bank[o] = "approved" => pay'[o].status = "succeeded"
  <2>1. CASE SyncCharge(o, RowStatus(o))
    <3>1. ReceiptsKept /\ \A d \in Charges \ {o} : pay'[d] = pay[d]
      BY <1>b, <1>2, <2>1, RowWrites
    <3>2. o \in DOMAIN pay /\ pay[o] \in PaymentRow
      BY <1>b, <1>2 DEF TypeOK, Payments
    <3>3. pay'[o].amount = pay[o].amount /\ pay'[o].status = RowStatus(o)
      BY <2>1, <3>2 DEF SyncCharge, PaymentRow
    <3> QED
      BY <3>1, <3>3 DEF RowStatus
  <2>2. CASE ~SyncMoves(o, RowStatus(o)) /\ UNCHANGED ledgerVars
    <3>1. pay[o].status \in {"processing", "failed"}
      BY <1>1, <1>2 DEF CountsOn, Handling
    <3>2. bank[o] # "approved"
      BY <2>2, <3>1 DEF SyncMoves, RowStatus, Settled
    <3> QED
      BY <2>2, <3>2 DEF ledgerVars, ReceiptsKept
  <2> QED
    BY <1>1, <2>1, <2>2
<1>5. /\ Taken(o) /\ booked[o] = {} /\ call[o].result # "succeeded" /\ call[o].pc # "idle"
  BY <1>b, <1>1, <1>2 DEF BookFine, TakenFine, CallFine, BankFine, Handling
<1>6. BookedByNotification(o)' = BookedByNotification(o)
  BY <1>1, <1>4, SameReceipts
<1>7. AmountFine(o)'
  BY <1>b, <1>1, <1>2, <1>4 DEF AmountFine
<1>8. BookFine(o)'
  BY <1>b, <1>1, <1>3, <1>5, <1>6 DEF BookFine, Taken
<1>9. Followed(o)'
  <2>1. CASE bank[o] = "approved"
    <3>1. pay'[o].amount = order[o].amount
      BY <1>b, <1>2, <1>4, <1>5 DEF AmountFine, Taken
    <3>2. BookedByRow(o)' = order[o].amount
      BY <1>2, <1>4, <2>1, <3>1 DEF BookedByRow, Settled
    <3> QED
      BY <1>b, <1>1, <1>5, <1>6, <3>2 DEF Followed
  <2>2. CASE bank[o] # "approved"
    BY <1>1, <2>2 DEF Followed
  <2> QED
    BY <2>1, <2>2
<1>10. CountsOn(o)'
  BY <1>1, <1>2, <1>3, <1>5 DEF CountsOn, Taken, Old
<1>11. \A q \in Orders \ {o} : Untouched(q)
  BY <1>1, <1>3, <1>4 DEF Untouched
<1> QED
  BY <1>4, <1>7, <1>8, <1>9, <1>10, <1>11, OneKept DEF Kept

LEMMA PartsAddUp ==
    ASSUME TypeOK, NEW amount \in Nat
    PROVE  /\ Len(Parts(amount)) \in 1..2
           /\ PartsTotal(Parts(amount)) = amount
<1> DEFINE due   == IF inv.status \in Payable THEN Positive(Outstanding) ELSE 0
           first == LowerOf(amount, due)
<1>1. Outstanding \in Int
  BY LedgerAssumption DEF TypeOK, InvoiceRow, Outstanding
<1>2. due \in Nat
  BY <1>1 DEF Positive
<1> HIDE DEF due
<1>3. first \in Nat
  BY <1>2 DEF LowerOf
<1> HIDE DEF first
<1>4. Parts(amount) = IF first \in {0, amount} THEN <<amount>> ELSE <<first, amount - first>>
  BY DEF Parts, due, first
<1> QED
  BY <1>3, <1>4 DEF PartsTotal

LEMMA SplitKept ==
    ASSUME RedsysInv, KeptInv, NEW o \in Orders, Split(o)
    PROVE  KeptInv'
<1>b. /\ TypeOK /\ HandlersFine /\ AmountFine(o) /\ BookFine(o) /\ Followed(o)
      /\ (o \in Charges => CountsOn(o))
      /\ (booked[o] = {} => BookedByNotification(o) = 0) /\ order[o].amount \in Nat
  BY Found
<1> DEFINE row == [pc |-> "apply", parts |-> Parts(order[o].amount)]
<1>1. /\ Handling(o, "split") /\ handler' = [handler EXCEPT ![o] = row]
      /\ UNCHANGED <<pay, order, call, bank, booked, review, sweep, stopped>>
  BY DEF Split, ledgerVars
<1>2. /\ row.pc = "apply" /\ Len(row.parts) \in 1..2
      /\ PartsTotal(row.parts) = order[o].amount
  BY <1>b, PartsAddUp
<1> HIDE DEF row
<1>3. handler'[o] = row /\ \A q \in Orders \ {o} : handler'[q] = handler[q]
  BY <1>b, <1>1 DEF HandlersFine
<1>4. Taken(o) /\ booked[o] = {} /\ BookedByNotification(o) = 0
  BY <1>b, <1>1 DEF BookFine, Handling
<1>5. ReceiptsKept /\ BookedByNotification(o)' = BookedByNotification(o)
  BY <1>1, SameReceipts DEF ReceiptsKept
<1>6. AmountFine(o)' /\ Followed(o)'
  BY <1>b, <1>1, <1>2, <1>3 DEF AmountFine, Followed
<1>7. BookFine(o)'
  BY <1>b, <1>1, <1>2, <1>3, <1>4, <1>5 DEF BookFine, Taken
<1>8. o \in Charges => CountsOn(o)'
  BY <1>b, <1>1, <1>2, <1>3 DEF CountsOn, Taken, Old
<1>9. \A q \in Orders \ {o} : Untouched(q)
  BY <1>1, <1>3 DEF Untouched
<1> QED
  BY <1>5, <1>6, <1>7, <1>8, <1>9, OneKept DEF Kept

(* What is left to apply after a part, of one or two.                      *)
LEMMA RestTotal ==
    ASSUME NEW h \in HandlerRow, Len(h.parts) \in 1..2
    PROVE  /\ Head(h.parts) \in Nat
           /\ Len(h.parts) = 1 => Rest(h) = Idle /\ PartsTotal(h.parts) = Head(h.parts)
           /\ Len(h.parts) = 2 =>
                 /\ Rest(h).pc = h.pc /\ Len(Rest(h).parts) = 1
                 /\ PartsTotal(Rest(h).parts) \in Nat
                 /\ PartsTotal(h.parts) = Head(h.parts) + PartsTotal(Rest(h).parts)
<1> DEFINE s == h.parts
<1>1. s \in Seq(Nat)
  BY DEF HandlerRow
<1>2. Head(s) = s[1] /\ s[1] \in Nat
  BY <1>1
<1>3. CASE Len(s) = 1
  BY <1>2, <1>3 DEF Rest, PartsTotal
<1>4. CASE Len(s) = 2
  <2>1. s # <<>> /\ Tail(s) \in Seq(Nat) /\ Len(Tail(s)) = 1
    BY <1>1, <1>4, HeadTailProperties
  <2>2. Tail(s)[1] = s[2] /\ s[2] \in Nat
    BY <1>1, <1>4, <2>1, HeadTailProperties
  <2> DEFINE rest == [h EXCEPT !.parts = Tail(s)]
  <2>3. rest.pc = h.pc /\ rest.parts = Tail(s)
    BY DEF HandlerRow
  <2>4. Rest(h) = rest
    BY <1>4 DEF Rest
  <2> HIDE DEF rest
  <2>5. PartsTotal(rest.parts) = s[2] /\ PartsTotal(s) = s[1] + s[2]
    BY <1>4, <2>1, <2>2, <2>3 DEF PartsTotal
  <2>6. /\ Rest(h).pc = h.pc /\ Len(Rest(h).parts) = 1
        /\ PartsTotal(Rest(h).parts) = s[2]
    BY <2>1, <2>3, <2>4, <2>5
  <2>7. Len(s) # 1
    BY <1>4
  <2> QED
    BY <1>2, <2>2, <2>5, <2>6, <2>7
<1> QED
  BY <1>3, <1>4

(* A part is registered by a receipt of its own: the receipts of the order *)
(* and the parts left add up to it, and when none is left it is booked.    *)
LEMMA ApplyPartKept ==
    ASSUME RedsysInv, RedsysInv', KeptInv, NEW o \in Orders, ApplyPart(o)
    PROVE  KeptInv'
<1>b. /\ TypeOK /\ HandlersFine /\ RestFine /\ AmountFine(o) /\ BookFine(o)
      /\ (o \in Charges => CountsOn(o) /\ TakenFine(o))
      /\ BookedByNotification(o) \in Nat /\ order[o].amount \in Nat
  BY Found
<1> DEFINE head == Head(handler[o].parts)
           row  == Rest(handler[o])
<1>1. PICK p \in Receipts : /\ MarkPaid(p, head, TRUE, TRUE)
                            /\ booked' = [booked EXCEPT ![o] = @ \cup {p}]
  BY DEF ApplyPart
<1>2. /\ Handling(o, "apply") /\ handler' = [handler EXCEPT ![o] = row]
      /\ UNCHANGED <<order, call, bank, review, sweep, stopped, crashes>>
  BY DEF ApplyPart
<1>3. /\ handler[o] \in HandlerRow /\ Len(handler[o].parts) \in 1..2
      /\ BookedByNotification(o) + PartsTotal(handler[o].parts) = order[o].amount
      /\ Taken(o)
  BY <1>b, <1>2 DEF HandlersFine, BookFine, Handling
<1>4. /\ head \in Nat
      /\ Len(handler[o].parts) = 1 =>
            row.pc = "idle" /\ PartsTotal(handler[o].parts) = head
      /\ Len(handler[o].parts) = 2 =>
            /\ row.pc = "apply" /\ Len(row.parts) = 1
            /\ PartsTotal(row.parts) \in Nat
            /\ PartsTotal(handler[o].parts) = head + PartsTotal(row.parts)
  BY <1>2, <1>3, RestTotal DEF Handling, Idle
<1> HIDE DEF row, head
<1>5. handler'[o] = row /\ \A q \in Orders \ {o} : handler'[q] = handler[q]
  BY <1>b, <1>2 DEF HandlersFine
<1>6. booked'[o] = booked[o] \cup {p} /\ \A q \in Orders \ {o} : booked'[q] = booked[q]
  BY <1>b, <1>1 DEF RestFine
<1>7. /\ \A d \in Charges : pay'[d] = pay[d]
      /\ ReceiptsKept
      /\ pay[p].status = "none" /\ pay'[p].status = "succeeded" /\ pay'[p].amount = head
  <2>1. \A d \in Charges : pay'[d] = pay[d]
    BY <1>b, <1>1, ReceiptWrites
  <2>2. p \in DOMAIN pay /\ Receipts \subseteq DOMAIN pay
    BY <1>b DEF TypeOK, Payments
  <2> QED
    BY <1>1, <2>1, <2>2 DEF MarkPaid, NewPayment, ReceiptsKept
<1>8. p \notin booked[o]
  BY <1>b, <1>7 DEF BookFine
<1>9. \A q \in booked[o] : pay[q].status = "succeeded" /\ pay'[q] = pay[q]
  BY <1>b, <1>7, BookedReceipts DEF BookFine, ReceiptsKept
<1>10. BookedByNotification(o)' = BookedByNotification(o) + head
  BY <1>6, <1>7, <1>8, <1>9, MoreNotified
<1>11. AmountFine(o)'
  BY <1>b, <1>2, <1>7 DEF AmountFine
<1>12. BookFine(o)'
  <2>1. Taken(o)' /\ bank'[o] \in {"approved", "declined"}
    BY <1>b, <1>2, <1>3 DEF BookFine, Taken
  <2>2. \A q \in booked'[o] : pay'[q].status = "succeeded"
    BY <1>6, <1>7, <1>9
  <2>3. BookedByNotification(o)' <= order[o].amount
    BY <1>b, <1>3, <1>4, <1>10
  <2>4. row.pc = "apply" =>
          /\ Len(row.parts) \in 1..2
          /\ BookedByNotification(o)' + PartsTotal(row.parts) = order[o].amount
    BY <1>b, <1>3, <1>4, <1>10
  <2>5. row.pc \in {"idle", "apply"}
    BY <1>3, <1>4
  <2> QED
    BY <1>2, <1>5, <2>1, <2>2, <2>3, <2>4, <2>5 DEF BookFine
<1>13. Followed(o)'
  <2>1. CASE Len(handler[o].parts) = 1
    <3>1. BookedByNotification(o)' = order[o].amount
      BY <1>b, <1>3, <1>4, <1>10, <2>1
    <3>2. BookedByRow(o)' = 0
      BY <1>b, <1>2, <1>7 DEF TakenFine, Handling, BookedByRow
    <3> QED
      BY <1>b, <1>2, <3>1, <3>2 DEF Followed
  <2>2. CASE Len(handler[o].parts) = 2
    BY <1>4, <1>5, <2>2 DEF Followed
  <2> QED
    BY <1>3, <2>1, <2>2
<1>14. o \in Charges => CountsOn(o)'
  BY <1>b, <1>2, <1>3, <1>4, <1>5, <1>7 DEF CountsOn, Taken, Old
<1>15. \A q \in Orders \ {o} : Untouched(q)
  BY <1>2, <1>5, <1>6, <1>7 DEF Untouched
<1> QED
  BY <1>7, <1>11, <1>12, <1>13, <1>14, <1>15, OneKept DEF Kept

(* A refused part goes to the staff; a handler that stops leaves the order *)
(* to nobody.                                                              *)
LEMMA RefuseKept ==
    ASSUME RedsysInv, KeptInv, NEW o \in Orders, RefusePart(o) \/ CrashHandler(o)
    PROVE  KeptInv'
<1>b. /\ HandlersFine /\ AmountFine(o) /\ BookFine(o) /\ (o \in Charges => CountsOn(o))
  BY Found
<1>1. /\ handler' = [handler EXCEPT ![o] = Idle] /\ o \in review' \cup stopped'
      /\ review \subseteq review' /\ stopped \subseteq stopped'
      /\ UNCHANGED <<pay, order, call, bank, booked, sweep>>
  BY DEF RefusePart, CrashHandler, ledgerVars
<1>2. /\ handler'[o].pc = "idle" /\ \A q \in Orders \ {o} : handler'[q] = handler[q]
  BY <1>b, <1>1, IdleWrites
<1>3. ReceiptsKept /\ BookedByNotification(o)' = BookedByNotification(o)
  BY <1>1, SameReceipts DEF ReceiptsKept
<1>4. AmountFine(o)' /\ BookFine(o)' /\ Followed(o)' /\ (o \in Charges => CountsOn(o)')
  BY <1>b, <1>1, <1>2, <1>3 DEF AmountFine, BookFine, Followed, CountsOn, Taken, Old
<1>5. \A q \in Orders \ {o} : Untouched(q)
  BY <1>1, <1>2 DEF Untouched
<1> QED
  BY <1>3, <1>4, <1>5, OneKept DEF Kept

-----------------------------------------------------------------------------
(* The sweep, the calls that stop, the staff.                              *)
LEMMA ExpireOrderKept ==
    ASSUME RedsysInv, KeptInv, NEW c \in Charges, ExpireOrder(c)
    PROVE  KeptInv'
<1>a. c \in Orders
  BY DEF Orders
<1>b. /\ OrdersFine /\ AmountFine(c) /\ BookFine(c) /\ CountsOn(c) /\ c \notin Redirects
  BY <1>a, Found
<1>1. /\ order[c].status = "charging" /\ Old(c)
      /\ SetOrder(c, "expired") /\ sweep' = sweep \cup {c}
      /\ UNCHANGED <<pay, call, bank, handler, booked, review, stopped>>
  BY DEF ExpireOrder, ledgerVars
<1>2. /\ order'[c].status = "expired" /\ order'[c].amount = order[c].amount
      /\ \A q \in Orders \ {c} : order'[q] = order[q]
  BY <1>a, <1>b, <1>1, SetOrderWrites
<1>3. ReceiptsKept /\ BookedByNotification(c)' = BookedByNotification(c)
  BY <1>a, <1>1, SameReceipts DEF ReceiptsKept
<1>4. ~Taken(c) /\ handler[c].pc = "idle" /\ booked[c] = {}
  BY <1>b, <1>1 DEF BookFine, Taken
<1>5. AmountFine(c)' /\ BookFine(c)' /\ Followed(c)' /\ CountsOn(c)'
  BY <1>b, <1>1, <1>2, <1>3, <1>4
     DEF AmountFine, BookFine, Followed, CountsOn, Taken, Old, Claimable
<1>6. \A q \in Orders \ {c} : Untouched(q)
  BY <1>1, <1>2 DEF Untouched
<1> QED
  BY <1>a, <1>3, <1>5, <1>6, OneKept DEF Kept

LEMMA ExpireRowKept ==
    ASSUME RedsysInv, KeptInv, NEW c \in Charges, ExpireRow(c) \/ CrashSweep(c)
    PROVE  KeptInv'
<1>a. c \in Orders
  BY DEF Orders
<1>b. /\ TypeOK /\ AmountFine(c) /\ BookFine(c) /\ Followed(c) /\ CountsOn(c)
      /\ TakenFine(c) /\ c \notin Redirects
  BY <1>a, Found
<1>1. /\ c \in sweep /\ sweep' = sweep \ {c} /\ stopped \subseteq stopped'
      /\ CloseReservation(c) \/ UNCHANGED ledgerVars
      /\ UNCHANGED <<order, call, bank, handler, booked, review>>
  BY DEF ExpireRow, CrashSweep
<1>2. Old(c)
  BY <1>b, <1>1 DEF CountsOn
<1>3. /\ ReceiptsKept /\ \A d \in Charges \ {c} : pay'[d] = pay[d]
      /\ pay'[c].amount = pay[c].amount /\ (pay[c].gid => pay'[c].gid)
      /\ pay'[c].status = pay[c].status
         \/ (pay[c].status = "processing" /\ pay'[c].status = "failed")
  <2>1. CASE CloseReservation(c)
    <3>1. ReceiptsKept /\ \A d \in Charges \ {c} : pay'[d] = pay[d]
      BY <1>b, <2>1, RowWrites
    <3>2. c \in DOMAIN pay /\ pay[c] \in PaymentRow
      BY <1>b DEF TypeOK, Payments
    <3> QED
      BY <2>1, <3>1, <3>2 DEF CloseReservation, PaymentRow
  <2>2. CASE UNCHANGED ledgerVars
    BY <2>2 DEF ledgerVars, ReceiptsKept
  <2> QED
    BY <1>1, <2>1, <2>2
<1>4. BookedByNotification(c)' = BookedByNotification(c) /\ (\A p \in booked[c] : pay'[p] = pay[p])
  BY <1>a, <1>1, <1>3, SameReceipts
<1>5. BookedByRow(c)' = BookedByRow(c)
  BY <1>3 DEF BookedByRow, Settled
<1>6. AmountFine(c)'
  BY <1>b, <1>1, <1>3 DEF AmountFine
<1>7. BookFine(c)' /\ Followed(c)'
  BY <1>b, <1>1, <1>4, <1>5 DEF BookFine, Followed, Taken
<1>8. CountsOn(c)'
  BY <1>b, <1>1, <1>2, <1>3 DEF CountsOn, Taken, Old
<1>9. \A q \in Orders \ {c} : Untouched(q)
  BY <1>1, <1>3 DEF Untouched
<1> QED
  BY <1>a, <1>3, <1>6, <1>7, <1>8, <1>9, OneKept DEF Kept

LEMMA CrashCallKept ==
    ASSUME RedsysInv, KeptInv, NEW c \in Charges, CrashCall(c)
    PROVE  KeptInv'
<1>a. c \in Orders
  BY DEF Orders
<1>b. /\ CallsFine /\ AmountFine(c) /\ BookFine(c) /\ Followed(c) /\ CountsOn(c)
      /\ TakenFine(c) /\ c \notin Redirects
  BY <1>a, Found
<1>1. /\ Goto(c, "crashed") /\ call[c].pc \in {"reserved", "ordered", "asked", "answered"}
      /\ stopped \subseteq stopped' /\ (Taken(c) => c \in stopped')
      /\ UNCHANGED <<pay, order, bank, handler, booked, review, sweep>>
  BY DEF CrashCall, ledgerVars, Taken
<1>2. /\ call'[c].pc = "crashed" /\ call'[c].result = call[c].result
      /\ call'[c].amount = call[c].amount
      /\ \A q \in Orders \ {c} : call'[q] = call[q]
  BY <1>a, <1>b, <1>1, GotoWrites DEF CallPc
<1>3. /\ ReceiptsKept /\ BookedByNotification(c)' = BookedByNotification(c)
      /\ BookedByRow(c)' = BookedByRow(c)
  BY <1>a, <1>1, SameReceipts DEF ReceiptsKept, BookedByRow
<1>4. call[c].result = "succeeded" => Taken(c)
  BY <1>b DEF TakenFine
<1>5. AmountFine(c)' /\ BookFine(c)'
  BY <1>b, <1>1, <1>2, <1>3 DEF AmountFine, BookFine, Taken
<1>6. Followed(c)'
  BY <1>b, <1>1, <1>3, <1>4 DEF Followed
<1>7. CountsOn(c)'
  BY <1>b, <1>1, <1>2 DEF CountsOn, Taken, Old
<1>8. \A q \in Orders \ {c} : Untouched(q)
  BY <1>1, <1>2 DEF Untouched
<1> QED
  BY <1>a, <1>3, <1>5, <1>6, <1>7, <1>8, OneKept DEF Kept

LEMMA OthersKept ==
    ASSUME RedsysInv, KeptInv, OthersStep \/ UNCHANGED vars
    PROVE  KeptInv'
<1>1. UNCHANGED <<order, call, bank, handler, booked, review, sweep, stopped>> /\ TypeOK
  BY DEF OthersStep, vars, redsysVars, RedsysInv, RedsysTypeOK
<1>2. ReceiptsKept /\ \A d \in Charges : pay'[d] = pay[d]
  <2>1. CASE OthersStep
    <3>1. PICK p \in Receipts, a \in 1..Total, override \in BOOLEAN : MarkPaid(p, a, override, FALSE)
      BY <2>1, RedsysAssumption DEF OthersStep
    <3>2. \A d \in Charges : pay'[d] = pay[d]
      BY <1>1, <3>1, ReceiptWrites
    <3>3. Receipts \subseteq DOMAIN pay
      BY <1>1 DEF TypeOK, Payments
    <3> QED
      BY <3>1, <3>2, <3>3 DEF MarkPaid, ReceiptsKept
  <2>2. CASE UNCHANGED vars
    BY <2>2 DEF vars, ledgerVars, ReceiptsKept
  <2> QED
    BY <2>1, <2>2
<1>3. \A q \in Orders : Untouched(q)
  BY <1>1, <1>2 DEF Untouched
<1> QED
  BY <1>2, <1>3, UntouchedKept DEF KeptInv

LEMMA StepKept ==
    ASSUME RedsysInv, KeptInv, [Next]_vars
    PROVE  KeptInv'
<1>a. RedsysInv'
  BY RedsysStepInv
<1>1. ASSUME NEW c \in Charges, CallStep(c) PROVE KeptInv'
  <2>1. CASE Reserve(c) \/ CreateCharging(c) \/ Stamp(c) \/ Throws(c) \/ Finalize(c)
    BY <2>1, ReserveKept, CreateChargingKept, StampKept, FinalizeKept
  <2>2. CASE CardOnFileDisabled(c) \/ NoAnswer(c) \/ ErrorCode(c)
    BY <2>2, AnswersKept
  <2>3. CASE Resolve(c)
    BY <2>3, AnswersKept, ResolveKept
  <2> QED
    BY <1>1, <2>1, <2>2, <2>3 DEF CallStep
<1>2. ASSUME NEW c \in Charges, SweepStep(c) \/ CrashCall(c) \/ CrashSweep(c) PROVE KeptInv'
  BY <1>2, ExpireOrderKept, ExpireRowKept, CrashCallKept DEF SweepStep
<1>3. ASSUME NEW o \in Redirects, PageStep(o) PROVE KeptInv'
  BY <1>3, ReadDueKept, OfferKept DEF PageStep
<1>4. ASSUME NEW o \in Orders, BankDecides(o) \/ HandlerStep(o) \/ CrashHandler(o)
      PROVE  KeptInv'
  BY <1>4, <1>a, BankDecidesKept, ClaimKept, CountRowKept, SyncRowKept, SplitKept,
     ApplyPartKept, RefuseKept DEF HandlerStep
<1>5. CASE OthersStep \/ UNCHANGED vars
  BY <1>5, OthersKept
<1> QED
  BY <1>1, <1>2, <1>3, <1>4, <1>5 DEF Next

LEMMA InitKept == RedsysInit => KeptInv
<1> SUFFICES ASSUME RedsysInit PROVE KeptInv
  OBVIOUS
<1>1. RedsysInv
  BY RedsysInitInv
<1> DEFINE first == [pc |-> "idle", amount |-> 0, result |-> "none"]
<1>2. /\ first.pc = "idle" /\ NoOrder.status = "none" /\ NoOrder.amount = 0
      /\ Idle.pc = "idle"
  BY DEF NoOrder, Idle
<1>3. call = [o \in Orders |-> first]
  BY DEF RedsysInit
<1> HIDE DEF first
<1>4. ASSUME NEW o \in Orders PROVE Kept(o)
  <2>1. /\ call[o] = first /\ order[o] = NoOrder /\ handler[o] = Idle
        /\ booked[o] = {} /\ bank[o] = "none" /\ sweep = {}
    BY <1>3 DEF RedsysInit
  <2>2. BookedByNotification(o) = 0
    BY <1>1, <2>1, NotifiedIsNat
  <2>3. AmountFine(o) /\ Followed(o)
    BY <1>2, <2>1 DEF AmountFine, Followed
  <2>4. BookFine(o) /\ CountsOn(o)
    BY <1>2, <2>1, <2>2 DEF BookFine, CountsOn, Taken
  <2> QED
    BY <2>3, <2>4 DEF Kept
<1> QED
  BY <1>4 DEF KeptInv

LEMMA KeptInvariant == Spec => []KeptInv
BY InitKept, StepKept, RedsysInvariant, PTL DEF Spec

-----------------------------------------------------------------------------
(* An order is booked once, by its payment row or by the receipts of its   *)
(* notification, and never for more than the bank charged, however the     *)
(* answer of the call, repeated notifications and the expiry race for it.  *)
THEOREM RedsysOrderBookedOnce == Spec => []OrderBookedOnce
<1>1. ASSUME RedsysInv, KeptInv, NEW o \in Orders
      PROVE  BookedByRow(o) + BookedByNotification(o) <= order[o].amount
  <2>1. /\ AmountFine(o) /\ BookFine(o) /\ (o \in Charges => CallFine(o) /\ TakenFine(o))
        /\ BookedByNotification(o) \in Nat /\ order[o].amount \in Nat
        /\ (booked[o] = {} => BookedByNotification(o) = 0)
    BY <1>1, Found
  <2>2. CASE o \in Charges /\ pay[o].status \in Settled
    <3>1. Taken(o) /\ booked[o] = {} /\ call[o].pc # "idle"
      BY <2>1, <2>2 DEF TakenFine, CallFine
    <3>2. pay[o].amount = order[o].amount
      BY <2>1, <2>2, <3>1 DEF AmountFine, Taken
    <3> QED
      BY <2>1, <2>2, <3>1, <3>2 DEF BookedByRow
  <2>3. CASE ~(o \in Charges /\ pay[o].status \in Settled)
    BY <2>1, <2>3 DEF BookedByRow, BookFine
  <2> QED
    BY <2>2, <2>3
<1>2. RedsysInv /\ KeptInv => OrderBookedOnce
  BY <1>1 DEF OrderBookedOnce
<1> QED
  BY <1>2, RedsysInvariant, KeptInvariant, PTL

(* Nothing the bank approved is lost: once calls, notifications and sweep  *)
(* rest, each approved order is booked in full, before the staff, or was   *)
(* left half-way by a process that stopped after taking it.                *)
THEOREM RedsysAccountedAtRest == Spec => []AccountedAtRest
<1>1. ASSUME KeptInv, AtRest, NEW o \in Orders, bank[o] = "approved" PROVE Accounted(o)
  BY <1>1 DEF KeptInv, Kept, Followed, AtRest, Accounted, Handling
<1>2. KeptInv => AccountedAtRest
  BY <1>1 DEF AccountedAtRest
<1> QED
  BY <1>2, KeptInvariant, PTL

=============================================================================
