--------------------------- MODULE InvoiceLedger ---------------------------
(***************************************************************************)
(* The database side of collecting one issued invoice: the row of the      *)
(* invoice, its payment rows, and the items that put it in SEPA            *)
(* remittances.  Every action is ONE database transaction (or one UPDATE)  *)
(* of the API, so the actions here are the atomic steps that the processes *)
(* of the other modules interleave:                                        *)
(*                                                                         *)
(*   payments.service.ts   chargeInvoice phases 1 and 3, its catch branch, *)
(*                         syncFromWebhook, syncRefundFromWebhook,         *)
(*                         syncDisputeFromWebhook                          *)
(*   invoices.service.ts   markPaidManually, refund, revertPayment,        *)
(*                         cancelIssued                                    *)
(*   sepa.service.ts       createRemittance, claimConfirmation,            *)
(*                         setItemStatus, cancelRemittance                 *)
(*   dunning.service.ts    the overdue marking of the daily tick           *)
(*                                                                         *)
(* Taken alone, the module puts no order on the calls: any transaction may *)
(* run whenever its own checks let it.  What holds here holds whatever the *)
(* gateways, the workers and the staff do.                                 *)
(*                                                                         *)
(* Payment status 'pending' is declared in the schema but no code writes   *)
(* it, so it is left out.  Withholding and credit compensations (payment   *)
(* rows that are not money) and the deposit receipts charged together with *)
(* the invoice are not modelled.                                           *)
(***************************************************************************)
EXTENDS Integers, FiniteSets, Functions

CONSTANTS
    Charges,      \* payment rows that chargeInvoice may create
    Receipts,     \* payment rows that markPaidManually may create
    Remittances,  \* SEPA remittances the invoice may be put in
    Gateway,      \* the gateway of the payment method behind each charge
    Total,        \* total of the invoice, in cents
    MaxPaid       \* bound for TLC: amountPaid above which no charge throws any more

Gateways == {"stripe", "gocardless", "redsys"}

ASSUME LedgerAssumption ==
    /\ Charges \cap Receipts = {}
    /\ Gateway \in [Charges -> Gateways]
    /\ Total \in Nat \ {0}
    /\ MaxPaid \in Nat

(* The sums over the payment rows of an invoice are sums of finitely many. *)
ASSUME PaymentsAssumption == IsFiniteSet(Charges) /\ IsFiniteSet(Receipts)

VARIABLES
    inv,          \* the invoice: status, amountPaid, amountRefunded, dueDate < now
    pay,          \* payments: status, amount, refundedAmount, has a gatewayPaymentId,
                  \* returnedAt is set
    remit,        \* remittances: status, and status and amount of the invoice's item
    justOverdue,  \* the daily tick has selected the invoice and not updated it yet
    voiding       \* status cancelIssued will restore if the rectification fails

ledgerVars == <<inv, pay, remit, justOverdue, voiding>>

Payments      == Charges \cup Receipts
InvoiceStatus == {"issued", "overdue", "paid", "partially_refunded", "refunded",
                  "rectified"}
Payable       == {"issued", "overdue"}
PaymentStatus == {"none", "processing", "succeeded", "failed", "refunded",
                  "partially_refunded"}
Settled       == {"succeeded", "refunded", "partially_refunded"}
Live          == {"processing", "succeeded"}
ItemStatus    == {"none", "pending", "collected", "failed", "cancelled", "returned"}
Indexed       == {c \in Charges : Gateway[c] \in {"stripe", "gocardless"}}

LowerOf(a, b) == IF a <= b THEN a ELSE b
Positive(n)   == IF n > 0 THEN n ELSE 0
Outstanding   == Total - inv.paid

NewPayment(status, amount) ==
    [status |-> status, amount |-> amount, back |-> 0, gid |-> FALSE, returned |-> FALSE]
NoPayment == NewPayment("none", 0)
NoItem    == [status |-> "none", item |-> "none", amount |-> 0]

(* Amount of the payment rows whose status is one of S.                    *)
Sum(S) == SumFunctionOnSet([p \in Payments |-> pay[p].amount],
                           {p \in Payments : pay[p].status \in S})

PaymentInFlight  == \E p \in Payments : pay[p].status = "processing"
InSepaRemittance == \E r \in Remittances : remit[r].item = "pending"

-----------------------------------------------------------------------------
(* Variants of definitions below, each with the slip that one property     *)
(* must notice.  No action of the specification uses them.                 *)
CreditedUpToTotal(i, a) ==
    [i EXCEPT !.paid = LowerOf(@ + a, Total),
              !.status = IF @ \in Payable /\ i.paid + a >= Total THEN "paid" ELSE @]

DebitedKeepingStatus(i, a) == [i EXCEPT !.paid = Positive(@ - a)]

ReserveWithoutLock(c, amount) ==
    /\ pay[c].status = "none"
    /\ pay' = [pay EXCEPT ![c] = NewPayment("processing", amount)]
    /\ UNCHANGED <<inv, remit, justOverdue, voiding>>

IndexDropped(c, status) == c \in Charges /\ status \in PaymentStatus

SyncMovesAlways(c, status) == pay[c].status # "none" /\ status \in PaymentStatus

SyncMovesUnlessReserved(c, status) ==
    pay[c].status \notin Settled \cup {status, "none", "processing"}

BeginVoidSavingLate ==
    /\ voiding = "none"
    /\ inv.status \in Payable
    /\ inv.paid = 0
    /\ inv' = [inv EXCEPT !.status = "rectified"]
    /\ voiding' = inv'.status
    /\ UNCHANGED <<pay, remit, justOverdue>>

CreateRemittanceAgain(r) ==
    /\ remit[r].status = "none"
    /\ inv.status \in Payable
    /\ ~PaymentInFlight
    /\ Outstanding > 0
    /\ remit' = [remit EXCEPT ![r] = [status |-> "generated", item |-> "pending",
                                      amount |-> Outstanding]]
    /\ UNCHANGED <<inv, pay, justOverdue, voiding>>

-----------------------------------------------------------------------------
(* amountPaid grows by a; an invoice still to be paid turns paid when that *)
(* covers the total.                                                       *)
Credited(i, a) ==
    [i EXCEPT !.paid = @ + a,
              !.status = IF @ \in Payable /\ i.paid + a >= Total THEN "paid" ELSE @]

(* amountPaid shrinks by a; a paid invoice is due again.                   *)
Debited(i, a) ==
    [i EXCEPT !.paid = Positive(@ - a),
              !.status = IF @ # "paid" THEN @ ELSE IF i.due THEN "overdue" ELSE "issued"]

RefundStatus(back, amount) ==
    IF back >= amount THEN "refunded" ELSE "partially_refunded"

(* More variants, of the transactions that use the operators above.        *)
FinalizeAnyway(c, result, hasId) ==
    /\ pay[c].status # "none"
    /\ pay' = [pay EXCEPT ![c].status = result, ![c].gid = @ \/ hasId]
    /\ inv' = IF result = "succeeded" THEN Credited(inv, pay[c].amount) ELSE inv
    /\ UNCHANGED <<remit, justOverdue, voiding>>

SyncRefundAdding(c, total) ==
    /\ pay[c].gid
    /\ total > pay[c].back /\ total <= pay[c].amount
    /\ pay' = [pay EXCEPT ![c].back = @ + total,
                          ![c].status = RefundStatus(total, pay[c].amount)]
    /\ inv' = [inv EXCEPT !.refunded = LowerOf(@ + total, Total)]
    /\ UNCHANGED <<remit, justOverdue, voiding>>

SyncDisputeKeepingMoney(c) ==
    /\ pay[c].gid
    /\ pay[c].status = "succeeded"
    /\ pay' = [pay EXCEPT ![c].status = "failed", ![c].returned = TRUE]
    /\ UNCHANGED <<inv, remit, justOverdue, voiding>>

Init ==
    /\ inv = [status |-> "issued", paid |-> 0, refunded |-> 0, due |-> FALSE]
    /\ pay = [p \in Payments |-> NoPayment]
    /\ remit = [r \in Remittances |-> NoItem]
    /\ justOverdue = FALSE
    /\ voiding = "none"

-----------------------------------------------------------------------------
(* Gateway charges: payments.service.ts                                    *)

(* chargeInvoice, phase 1: under the advisory lock, no live gateway charge *)
(* of the invoice may exist.  The status and the amount of the invoice are *)
(* not read again here.                                                    *)
ReserveCharge(c, amount) ==
    /\ pay[c].status = "none"
    /\ \A d \in Charges : pay[d].status \notin Live
    /\ pay' = [pay EXCEPT ![c] = NewPayment("processing", amount)]
    /\ UNCHANGED <<inv, remit, justOverdue, voiding>>

(* redsys-charge.service.ts: the reserved payment takes the order number.  *)
StampOrder(c) ==
    /\ Gateway[c] = "redsys"
    /\ pay[c].status = "processing"
    /\ pay' = [pay EXCEPT ![c].gid = TRUE]
    /\ UNCHANGED <<inv, remit, justOverdue, voiding>>

(* chargeInvoice, phase 3: only this call moves the reservation out of     *)
(* 'processing', unless a webhook already did.                             *)
FinalizeCharge(c, result, hasId) ==
    /\ pay[c].status # "none"
    /\ IF pay[c].status = "processing"
       THEN /\ pay' = [pay EXCEPT ![c].status = result, ![c].gid = @ \/ hasId]
            /\ IF result = "succeeded"
               THEN inv' = Credited(inv, pay[c].amount)
               ELSE UNCHANGED inv
       ELSE UNCHANGED <<pay, inv>>
    /\ UNCHANGED <<remit, justOverdue, voiding>>

(* chargeInvoice, the catch around phase 2: whatever the row says by now.  *)
FailCharge(c) ==
    /\ pay[c].status # "none"
    /\ pay' = [pay EXCEPT ![c].status = "failed"]
    /\ UNCHANGED <<inv, remit, justOverdue, voiding>>

(* stale-charges.service.ts: closes a reservation still open.              *)
CloseReservation(c) ==
    /\ pay[c].status = "processing"
    /\ pay' = [pay EXCEPT ![c].status = "failed"]
    /\ UNCHANGED <<inv, remit, justOverdue, voiding>>

(* syncFromWebhook, first transaction: a Stripe payment whose answer was   *)
(* lost takes the gateway's id, found through the charge's metadata.       *)
AdoptCharge(c) ==
    /\ Gateway[c] = "stripe"
    /\ pay[c].status # "none" /\ ~pay[c].gid
    /\ pay' = [pay EXCEPT ![c].gid = TRUE]
    /\ UNCHANGED <<inv, remit, justOverdue, voiding>>

(* The unique index payments_one_live_gateway_charge.                      *)
IndexAllows(c, status) ==
    c \in Indexed /\ status \in Live =>
        \A d \in Indexed \ {c} : pay[d].status \notin Live

(* syncOneFromWebhook: moves the payment unless it is settled or already   *)
(* there.  The first move to 'succeeded' adds the money.                   *)
SyncMoves(c, status) == pay[c].status \notin Settled \cup {status, "none"}

SyncCharge(c, status) ==
    /\ pay[c].gid
    /\ SyncMoves(c, status)
    /\ IndexAllows(c, status)
    /\ pay' = [pay EXCEPT ![c].status = status]
    /\ IF status = "succeeded"
       THEN inv' = Credited(inv, pay[c].amount)
       ELSE UNCHANGED inv
    /\ UNCHANGED <<remit, justOverdue, voiding>>

(* syncOneRefund: total is what the gateway has given back so far.         *)
SyncRefund(c, total) ==
    /\ pay[c].gid
    /\ total > pay[c].back /\ total <= pay[c].amount
    /\ pay' = [pay EXCEPT ![c].back = total,
                          ![c].status = RefundStatus(total, pay[c].amount)]
    /\ LET refunded == LowerOf(inv.refunded + total - pay[c].back, Total)
       IN  inv' = [inv EXCEPT !.refunded = refunded,
                              !.status = RefundStatus(refunded, Total)]
    /\ UNCHANGED <<remit, justOverdue, voiding>>

(* syncOneDispute: only a payment in 'succeeded' is taken back.            *)
SyncDispute(c) ==
    /\ pay[c].gid
    /\ pay[c].status = "succeeded"
    /\ pay' = [pay EXCEPT ![c].status = "failed", ![c].returned = TRUE]
    /\ inv' = Debited(inv, pay[c].amount)
    /\ UNCHANGED <<remit, justOverdue, voiding>>

-----------------------------------------------------------------------------
(* The invoice row, locked: invoices.service.ts                            *)

(* markPaidManually.  override and inRemittance are the two input flags    *)
(* that skip the in-flight guard and the SEPA guard.                       *)
MarkPaid(p, amount, override, inRemittance) ==
    /\ pay[p].status = "none"
    /\ inv.status \in Payable
    /\ amount > 0 /\ inv.paid + amount <= Total
    /\ override \/ ~\E c \in Charges : pay[c].status = "processing"
    /\ inRemittance \/ ~InSepaRemittance
    /\ pay' = [pay EXCEPT ![p] = NewPayment("succeeded", amount)]
    /\ inv' = Credited(inv, amount)
    /\ UNCHANGED <<remit, justOverdue, voiding>>

(* revertPayment of one recorded payment: a direct debit the bank sent     *)
(* back (undo = FALSE) or an automatic match undone (undo = TRUE).  The     *)
(* amount taken back is that payment's: the bank statement's lines are     *)
(* matched by it.                                                          *)
RevertPayment(p, undo) ==
    /\ inv.paid > 0
    /\ pay[p].status = "succeeded"
    /\ pay' = [pay EXCEPT ![p].status = "failed", ![p].returned = @ \/ ~undo]
    /\ inv' = Debited(inv, pay[p].amount)
    /\ UNCHANGED <<remit, justOverdue, voiding>>

(* refund: at most the total and at most the money collected.  A payment   *)
(* with a gateway id goes first, and only up to what is left of it; a      *)
(* manual one just records the refund.                                     *)
Refundable(p) == pay[p].status \in {"succeeded", "partially_refunded"}

Refund(p, amount) ==
    /\ inv.status \in {"paid", "partially_refunded"}
    /\ amount > 0
    /\ inv.refunded + amount <= Total
    /\ inv.refunded + amount <= Sum(Settled)
    /\ Refundable(p)
    /\ IF pay[p].gid
       THEN pay[p].back + amount <= pay[p].amount
       ELSE \A q \in Payments : Refundable(q) => ~pay[q].gid
    /\ pay' = [pay EXCEPT ![p].back = @ + amount,
                          ![p].status = RefundStatus(pay[p].back + amount,
                                                     pay[p].amount)]
    /\ inv' = [inv EXCEPT !.refunded = @ + amount,
                          !.status = RefundStatus(inv.refunded + amount, Total)]
    /\ UNCHANGED <<remit, justOverdue, voiding>>

(* cancelIssued, the reservation: no money, no charge, no SEPA item.       *)
(* One cancellation is followed at a time.                                 *)
BeginVoid ==
    /\ voiding = "none"
    /\ inv.status \in Payable
    /\ inv.paid = 0
    /\ ~PaymentInFlight
    /\ ~InSepaRemittance
    /\ inv' = [inv EXCEPT !.status = "rectified"]
    /\ voiding' = inv.status
    /\ UNCHANGED <<pay, remit, justOverdue>>

(* cancelIssued: the corrective invoice exists, or it could not be made    *)
(* and the invoice takes its former status back.                           *)
EndVoid ==
    /\ voiding # "none"
    /\ voiding' = "none"
    /\ UNCHANGED <<inv, pay, remit, justOverdue>>

UndoVoid ==
    /\ voiding # "none"
    /\ inv' = [inv EXCEPT !.status = IF @ = "rectified" THEN voiding ELSE @]
    /\ voiding' = "none"
    /\ UNCHANGED <<pay, remit, justOverdue>>

-----------------------------------------------------------------------------
(* The daily tick: dunning.service.ts                                      *)

DueDatePasses ==
    /\ ~inv.due
    /\ inv' = [inv EXCEPT !.due = TRUE]
    /\ UNCHANGED <<pay, remit, justOverdue, voiding>>

(* findMany of the invoices just overdue.                                  *)
SelectOverdue ==
    /\ ~justOverdue
    /\ inv.status = "issued" /\ inv.due
    /\ ~PaymentInFlight /\ ~InSepaRemittance
    /\ justOverdue' = TRUE
    /\ UNCHANGED <<inv, pay, remit, voiding>>

(* updateMany of those ids, whatever their status is by then.              *)
WriteOverdue ==
    /\ justOverdue
    /\ inv' = [inv EXCEPT !.status = "overdue"]
    /\ justOverdue' = FALSE
    /\ UNCHANGED <<pay, remit, voiding>>

-----------------------------------------------------------------------------
(* SEPA remittances: sepa.service.ts                                       *)

(* createRemittance: the invoice row is locked and everything read again.  *)
CreateRemittance(r) ==
    /\ remit[r].status = "none"
    /\ inv.status \in Payable
    /\ \A q \in Remittances : remit[q].item \notin {"pending", "collected"}
    /\ ~PaymentInFlight
    /\ Outstanding > 0
    /\ remit' = [remit EXCEPT ![r] = [status |-> "generated", item |-> "pending",
                                      amount |-> Outstanding]]
    /\ UNCHANGED <<inv, pay, justOverdue, voiding>>

(* claimConfirmation, first claim.                                         *)
ClaimRemittance(r) ==
    /\ remit[r].status = "generated"
    /\ remit' = [remit EXCEPT ![r].status = "confirmed"]
    /\ UNCHANGED <<inv, pay, justOverdue, voiding>>

(* setItemStatus, called by confirmRemittance.                             *)
SetItemStatus(r, status) ==
    /\ remit[r].status = "confirmed"
    /\ remit' = [remit EXCEPT ![r].item = status]
    /\ UNCHANGED <<inv, pay, justOverdue, voiding>>

CancelRemittance(r) ==
    /\ remit[r].status = "generated"
    /\ remit' = [remit EXCEPT ![r].status = "cancelled",
                              ![r].item = IF @ = "pending" THEN "cancelled" ELSE @]
    /\ UNCHANGED <<inv, pay, justOverdue, voiding>>

(* markSepaItemReturned.                                                   *)
ReturnItem(r) ==
    /\ remit[r].item = "collected"
    /\ remit' = [remit EXCEPT ![r].item = "returned"]
    /\ UNCHANGED <<inv, pay, justOverdue, voiding>>

-----------------------------------------------------------------------------
ChargeMove(c) ==
    \/ \E a \in 1..Total : ReserveCharge(c, a)
    \/ StampOrder(c)
    \/ \E result \in {"processing", "succeeded", "failed"}, hasId \in BOOLEAN :
           \* an answer 'succeeded' always carries the gateway's id
           (result = "succeeded" => hasId) /\ FinalizeCharge(c, result, hasId)
    \/ CloseReservation(c)
    \/ AdoptCharge(c)
    \/ \E status \in {"processing", "succeeded", "failed"} : SyncCharge(c, status)
    \/ \E total \in 1..Total : SyncRefund(c, total)
    \/ SyncDispute(c)

ChargeStep(c) == ChargeMove(c) \/ FailCharge(c)

ReceiptStep(p) ==
    \E a \in 1..Total, override \in BOOLEAN, inRemittance \in BOOLEAN :
        MarkPaid(p, a, override, inRemittance)

GiveBackStep(p) ==
    \/ \E undo \in BOOLEAN : RevertPayment(p, undo)
    \/ \E a \in 1..Total : Refund(p, a)

InvoiceStep == BeginVoid \/ EndVoid \/ UndoVoid \/ DueDatePasses \/ SelectOverdue \/ WriteOverdue

RemittanceStep(r) ==
    \/ CreateRemittance(r)
    \/ ClaimRemittance(r)
    \/ \E status \in {"collected", "failed"} : SetItemStatus(r, status)
    \/ CancelRemittance(r)
    \/ ReturnItem(r)

OtherStep ==
    \/ \E p \in Receipts : ReceiptStep(p)
    \/ \E p \in Payments : GiveBackStep(p)
    \/ InvoiceStep
    \/ \E r \in Remittances : RemittanceStep(r)

LedgerNext == OtherStep \/ \E c \in Charges : ChargeStep(c)

LedgerSpec == Init /\ [][LedgerNext]_ledgerVars

(* Without the protocol of the callers a charge could be failed and booked *)
(* again for ever; for TLC no charge throws above MaxPaid.                 *)
BoundedNext ==
    \/ OtherStep
    \/ \E c \in Charges : ChargeMove(c) \/ (inv.paid <= MaxPaid /\ FailCharge(c))

BoundedSpec == Init /\ [][BoundedNext]_ledgerVars

-----------------------------------------------------------------------------
InvoiceRow == [status : InvoiceStatus, paid : Nat, refunded : Nat, due : BOOLEAN]
PaymentRow == [status : PaymentStatus, amount : Nat, back : Nat, gid : BOOLEAN,
               returned : BOOLEAN]
RemittanceRow == [status : {"none", "generated", "confirmed", "cancelled"},
                  item : ItemStatus, amount : Nat]

(* Type invariant of the rows of one invoice.                              *)
TypeOK ==
    /\ inv \in InvoiceRow
    /\ pay \in [Payments -> PaymentRow]
    /\ remit \in [Remittances -> RemittanceRow]
    /\ justOverdue \in BOOLEAN
    /\ voiding \in {"none"} \cup Payable

(* An invoice is 'paid' only while what was added to amountPaid and not    *)
(* taken back covers its total, however charges, receipts, disputes,       *)
(* returned debits, remittances and the daily tick interleave.             *)
PaidMeansCovered == inv.status = "paid" => inv.paid >= Total

(* amountPaid counts no money twice: it moves only together with exactly   *)
(* one payment row that enters or leaves 'succeeded' in the same           *)
(* transaction, and by that payment's amount.                              *)
MovedBy(p, d) ==
    /\ d * (pay'[p].amount) = inv'.paid - inv.paid
    /\ \A q \in Payments \ {p} : pay'[q] = pay[q]

PaidMovesWithOnePayment ==
    [][inv'.paid # inv.paid =>
          \E p \in Payments :
             \/ /\ pay[p].status # "succeeded" /\ pay'[p].status = "succeeded"
                /\ MovedBy(p, 1)
             \/ /\ pay[p].status = "succeeded" /\ pay'[p].status = "failed"
                /\ MovedBy(p, -1)]_ledgerVars

(* What is recorded as given back never exceeds the total of the invoice,  *)
(* nor, for a gateway payment, what that gateway collected: refunds from   *)
(* the panel and refunds synchronised from the gateway are not added up    *)
(* twice.                                                                  *)
RefundsBounded ==
    /\ inv.refunded <= Total
    /\ \A c \in Charges : pay[c].gid => pay[c].back <= pay[c].amount

(* amountPaid never falls below the money of the payments that count as    *)
(* collected and not refunded, so taking one back never meets the floor at *)
(* zero that would hide the difference.                                    *)
SucceededIsCovered == Sum({"succeeded"}) <= inv.paid

(* At most one Stripe or GoCardless charge of the invoice is live: what    *)
(* the index payments_one_live_gateway_charge promises, also when a        *)
(* disputed charge gets a late success after another one was reserved.     *)
OneLiveCharge ==
    \A c, d \in Indexed : pay[c].status \in Live /\ pay[d].status \in Live => c = d

=============================================================================
