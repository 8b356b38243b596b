------------------------- MODULE InvoiceLedgerProofs -------------------------
(***************************************************************************)
(* Proofs about InvoiceLedger, for any number of charges, receipts and     *)
(* remittances and any total.  The types, PaidMeansCovered, OneLiveCharge   *)
(* and RefundsBounded do not depend on what Sum computes; the last section *)
(* does, through the lemmas of SumLemmas.                                  *)
(***************************************************************************)
EXTENDS InvoiceLedger, SumLemmas, TLAPS

-----------------------------------------------------------------------------
(* What the helpers return.                                                *)

LEMMA CreditType ==
    ASSUME NEW i \in InvoiceRow, NEW a \in Nat
    PROVE  Credited(i, a) \in InvoiceRow
<1>1. i.paid + a \in Nat
  BY DEF InvoiceRow
<1>2. CASE i.status \in Payable /\ i.paid + a >= Total
  BY <1>1, <1>2 DEF InvoiceRow, Credited, InvoiceStatus
<1>3. CASE ~(i.status \in Payable /\ i.paid + a >= Total)
  BY <1>1, <1>3 DEF InvoiceRow, Credited
<1> QED
  BY <1>2, <1>3

LEMMA DebitType ==
    ASSUME NEW i \in InvoiceRow, NEW a \in Nat
    PROVE  Debited(i, a) \in InvoiceRow
<1>1. Positive(i.paid - a) \in Nat
  BY DEF InvoiceRow, Positive
<1> QED
  BY <1>1 DEF InvoiceRow, Debited, InvoiceStatus

LEMMA RefundStatusType ==
    ASSUME NEW back \in Nat, NEW amount \in Nat
    PROVE  RefundStatus(back, amount) \in {"refunded", "partially_refunded"}
BY DEF RefundStatus

(* A transaction that writes one well-typed payment row and a well-typed   *)
(* invoice keeps the type invariant.                                       *)
LEMMA WriteRow ==
    ASSUME TypeOK, NEW p \in Payments, NEW row \in PaymentRow,
           pay' = [pay EXCEPT ![p] = row], inv' \in InvoiceRow,
           UNCHANGED <<remit, justOverdue, voiding>>
    PROVE  TypeOK'
BY DEF TypeOK

LEMMA RowOf ==
    ASSUME TypeOK, NEW p \in Payments
    PROVE  /\ pay[p] \in PaymentRow
           /\ pay[p].amount \in Nat /\ pay[p].back \in Nat
           /\ inv \in InvoiceRow
           /\ inv.paid \in Nat /\ inv.refunded \in Nat
BY DEF TypeOK, PaymentRow, InvoiceRow

-----------------------------------------------------------------------------
(* The type invariant.                                                     *)

LEMMA ChargeStepType ==
    ASSUME TypeOK, NEW c \in Charges, ChargeStep(c)
    PROVE  TypeOK'
<1>0. c \in Payments
  BY DEF Payments
<1>a. pay[c] \in PaymentRow /\ pay[c].amount \in Nat /\ pay[c].back \in Nat
  BY <1>0, RowOf
<1>b. inv \in InvoiceRow /\ inv.paid \in Nat /\ inv.refunded \in Nat
  BY <1>0, RowOf
<1>1. ASSUME NEW a \in 1..Total, ReserveCharge(c, a) PROVE TypeOK'
  <2> DEFINE row == NewPayment("processing", a)
  <2>1. row \in PaymentRow
    BY LedgerAssumption DEF NewPayment, PaymentRow, PaymentStatus
  <2>2. pay' = [pay EXCEPT ![c] = row] /\ UNCHANGED <<inv, remit, justOverdue, voiding>>
    BY <1>1 DEF ReserveCharge
  <2> QED
    BY <1>0, <1>b, <2>1, <2>2, WriteRow
<1>2. ASSUME StampOrder(c) \/ AdoptCharge(c) PROVE TypeOK'
  <2> DEFINE row == [pay[c] EXCEPT !.gid = TRUE]
  <2>1. row \in PaymentRow
    BY <1>a DEF PaymentRow
  <2>2. pay' = [pay EXCEPT ![c] = row] /\ UNCHANGED <<inv, remit, justOverdue, voiding>>
    BY <1>2 DEF StampOrder, AdoptCharge
  <2> QED
    BY <1>0, <1>b, <2>1, <2>2, WriteRow
<1>3. ASSUME NEW result \in {"processing", "succeeded", "failed"}, NEW hasId \in BOOLEAN,
             FinalizeCharge(c, result, hasId)
      PROVE TypeOK'
  <2>1. CASE pay[c].status = "processing"
    <3> DEFINE row == [pay[c] EXCEPT !.status = result, !.gid = @ \/ hasId]
    <3>1. row \in PaymentRow
      BY <1>a DEF PaymentRow, PaymentStatus
    <3>2. pay' = [pay EXCEPT ![c] = row] /\ UNCHANGED <<remit, justOverdue, voiding>>
      BY <1>3, <2>1 DEF FinalizeCharge
    <3>3. inv' \in InvoiceRow
      BY <1>3, <1>a, <1>b, <2>1, CreditType DEF FinalizeCharge
    <3> QED
      BY <1>0, <3>1, <3>2, <3>3, WriteRow
  <2>2. CASE pay[c].status # "processing"
    BY <1>3, <2>2 DEF FinalizeCharge, TypeOK
  <2> QED
    BY <2>1, <2>2
<1>4. ASSUME FailCharge(c) \/ CloseReservation(c) PROVE TypeOK'
  <2> DEFINE row == [pay[c] EXCEPT !.status = "failed"]
  <2>1. row \in PaymentRow
    BY <1>a DEF PaymentRow, PaymentStatus
  <2>2. pay' = [pay EXCEPT ![c] = row] /\ UNCHANGED <<inv, remit, justOverdue, voiding>>
    BY <1>4 DEF FailCharge, CloseReservation
  <2> QED
    BY <1>0, <1>b, <2>1, <2>2, WriteRow
<1>5. ASSUME NEW status \in {"processing", "succeeded", "failed"}, SyncCharge(c, status)
      PROVE TypeOK'
  <2> DEFINE row == [pay[c] EXCEPT !.status = status]
  <2>1. row \in PaymentRow
    BY <1>a DEF PaymentRow, PaymentStatus
  <2>2. pay' = [pay EXCEPT ![c] = row] /\ UNCHANGED <<remit, justOverdue, voiding>>
    BY <1>5 DEF SyncCharge
  <2>3. inv' \in InvoiceRow
    BY <1>5, <1>a, <1>b, CreditType DEF SyncCharge
  <2> QED
    BY <1>0, <2>1, <2>2, <2>3, WriteRow
<1>6. ASSUME NEW total \in 1..Total, SyncRefund(c, total) PROVE TypeOK'
  <2> DEFINE st == RefundStatus(total, pay[c].amount)
             row == [pay[c] EXCEPT !.back = total, !.status = st]
             refunded == LowerOf(inv.refunded + total - pay[c].back, Total)
  <2>1. total \in Nat /\ Total \in Nat /\ total > pay[c].back
    BY <1>6, LedgerAssumption DEF SyncRefund
  <2>2. st \in PaymentStatus
    BY <1>a, <2>1, RefundStatusType DEF PaymentStatus
  <2>3. row \in PaymentRow
    BY <1>a, <2>1, <2>2 DEF PaymentRow
  <2>4. pay' = [pay EXCEPT ![c] = row] /\ UNCHANGED <<remit, justOverdue, voiding>>
    BY <1>6 DEF SyncRefund
  <2>5. refunded \in Nat
    BY <1>a, <1>b, <2>1 DEF LowerOf
  <2>6. RefundStatus(refunded, Total) \in InvoiceStatus
    BY <2>1, <2>5, RefundStatusType DEF InvoiceStatus
  <2>7. inv' = [inv EXCEPT !.refunded = refunded, !.status = RefundStatus(refunded, Total)]
    BY <1>6 DEF SyncRefund
  <2>8. inv' \in InvoiceRow
    BY <1>b, <2>5, <2>6, <2>7 DEF InvoiceRow
  <2> QED
    BY <1>0, <2>3, <2>4, <2>8, WriteRow
<1>7. ASSUME SyncDispute(c) PROVE TypeOK'
  <2> DEFINE row == [pay[c] EXCEPT !.status = "failed", !.returned = TRUE]
  <2>1. row \in PaymentRow
    BY <1>a DEF PaymentRow, PaymentStatus
  <2>2. pay' = [pay EXCEPT ![c] = row] /\ UNCHANGED <<remit, justOverdue, voiding>>
    BY <1>7 DEF SyncDispute
  <2>3. inv' \in InvoiceRow
    BY <1>7, <1>a, <1>b, DebitType DEF SyncDispute
  <2> QED
    BY <1>0, <2>1, <2>2, <2>3, WriteRow
<1> QED
  BY <1>1, <1>2, <1>3, <1>4, <1>5, <1>6, <1>7 DEF ChargeStep, ChargeMove

LEMMA ReceiptStepType ==
    ASSUME TypeOK, NEW p \in Receipts, ReceiptStep(p)
    PROVE  TypeOK'
<1>1. PICK a \in 1..Total, override \in BOOLEAN, inRemittance \in BOOLEAN :
          MarkPaid(p, a, override, inRemittance)
  BY DEF ReceiptStep
<1> DEFINE row == NewPayment("succeeded", a)
<1>2. a \in Nat /\ p \in Payments
  BY LedgerAssumption DEF Payments
<1>3. row \in PaymentRow
  BY <1>2 DEF NewPayment, PaymentRow, PaymentStatus
<1>4. inv' \in InvoiceRow
  BY <1>1, <1>2, RowOf, CreditType DEF MarkPaid
<1>5. pay' = [pay EXCEPT ![p] = row] /\ UNCHANGED <<remit, justOverdue, voiding>>
  BY <1>1 DEF MarkPaid
<1> QED
  BY <1>2, <1>3, <1>4, <1>5, WriteRow

LEMMA GiveBackStepType ==
    ASSUME TypeOK, NEW p \in Payments, GiveBackStep(p)
    PROVE  TypeOK'
<1>a. pay[p] \in PaymentRow /\ pay[p].amount \in Nat /\ pay[p].back \in Nat
  BY RowOf
<1>b. inv \in InvoiceRow /\ inv.paid \in Nat /\ inv.refunded \in Nat
  BY RowOf
<1>1. ASSUME NEW undo \in BOOLEAN, RevertPayment(p, undo) PROVE TypeOK'
  <2> DEFINE row == [pay[p] EXCEPT !.status = "failed", !.returned = @ \/ ~undo]
  <2>1. row \in PaymentRow
    BY <1>a DEF PaymentRow, PaymentStatus
  <2>2. pay' = [pay EXCEPT ![p] = row] /\ UNCHANGED <<remit, justOverdue, voiding>>
    BY <1>1 DEF RevertPayment
  <2>3. inv' \in InvoiceRow
    BY <1>1, <1>a, <1>b, DebitType DEF RevertPayment
  <2> QED
    BY <2>1, <2>2, <2>3, WriteRow
<1>2. ASSUME NEW a \in 1..Total, Refund(p, a) PROVE TypeOK'
  <2> DEFINE st  == RefundStatus(pay[p].back + a, pay[p].amount)
             row == [pay[p] EXCEPT !.back = @ + a, !.status = st]
             ist == RefundStatus(inv.refunded + a, Total)
  <2>1. a \in Nat /\ Total \in Nat
    BY LedgerAssumption
  <2>2. pay[p].back + a \in Nat /\ inv.refunded + a \in Nat
    BY <1>a, <1>b, <2>1
  <2>3. st \in PaymentStatus /\ ist \in InvoiceStatus
    BY <1>a, <2>1, <2>2, RefundStatusType DEF PaymentStatus, InvoiceStatus
  <2>4. pay' = [pay EXCEPT ![p] = row] /\ UNCHANGED <<remit, justOverdue, voiding>>
    BY <1>2 DEF Refund
  <2>5. inv' = [inv EXCEPT !.refunded = @ + a, !.status = ist]
    BY <1>2 DEF Refund
  <2> HIDE DEF st, ist
  <2>6. row \in PaymentRow
    BY <1>a, <2>2, <2>3 DEF PaymentRow
  <2>7. inv' \in InvoiceRow
    BY <1>b, <2>2, <2>3, <2>5 DEF InvoiceRow
  <2> QED
    BY <2>4, <2>6, <2>7, WriteRow
<1> QED
  BY <1>1, <1>2 DEF GiveBackStep

LEMMA InvoiceStepType ==
    ASSUME TypeOK, InvoiceStep
    PROVE  TypeOK'
<1> USE DEF TypeOK, InvoiceRow, InvoiceStatus, Payable
<1>1. CASE BeginVoid
  BY <1>1 DEF BeginVoid
<1>2. CASE EndVoid
  BY <1>2 DEF EndVoid
<1>3. CASE UndoVoid
  BY <1>3 DEF UndoVoid
<1>4. CASE DueDatePasses
  BY <1>4 DEF DueDatePasses
<1>5. CASE SelectOverdue
  BY <1>5 DEF SelectOverdue
<1>6. CASE WriteOverdue
  BY <1>6 DEF WriteOverdue
<1> QED
  BY <1>1, <1>2, <1>3, <1>4, <1>5, <1>6 DEF InvoiceStep

LEMMA RemittanceStepType ==
    ASSUME TypeOK, NEW r \in Remittances, RemittanceStep(r)
    PROVE  TypeOK'
<1> USE DEF TypeOK, RemittanceRow, ItemStatus
<1>1. CASE CreateRemittance(r)
  <2>1. Outstanding \in Nat
    BY <1>1, LedgerAssumption DEF CreateRemittance, Outstanding, InvoiceRow
  <2> QED
    BY <1>1, <2>1 DEF CreateRemittance
<1>2. CASE ClaimRemittance(r)
  BY <1>2 DEF ClaimRemittance
<1>3. CASE \E status \in {"collected", "failed"} : SetItemStatus(r, status)
  BY <1>3 DEF SetItemStatus
<1>4. CASE CancelRemittance(r)
  BY <1>4 DEF CancelRemittance
<1>5. CASE ReturnItem(r)
  BY <1>5 DEF ReturnItem
<1> QED
  BY <1>1, <1>2, <1>3, <1>4, <1>5 DEF RemittanceStep

LEMMA InitType == Init => TypeOK
<1> SUFFICES ASSUME Init PROVE TypeOK
  OBVIOUS
<1>1. inv \in InvoiceRow
  BY DEF Init, InvoiceRow, InvoiceStatus
<1>2. NoPayment \in PaymentRow
  BY DEF NoPayment, NewPayment, PaymentRow, PaymentStatus
<1>3. NoItem \in RemittanceRow
  BY DEF NoItem, RemittanceRow, ItemStatus
<1> QED
  BY <1>1, <1>2, <1>3 DEF Init, TypeOK

LEMMA StepType ==
    ASSUME TypeOK, [LedgerNext]_ledgerVars
    PROVE  TypeOK'
<1>1. CASE LedgerNext
  BY <1>1, ChargeStepType, ReceiptStepType, GiveBackStepType, InvoiceStepType,
     RemittanceStepType DEF LedgerNext, OtherStep
<1>2. CASE UNCHANGED ledgerVars
  BY <1>2 DEF ledgerVars, TypeOK
<1> QED
  BY <1>1, <1>2

(* The rows keep their types whatever transactions run: statuses stay in   *)
(* their enumerations, and amountPaid, amountRefunded and the amounts of   *)
(* payments and items never go below zero.                                 *)
THEOREM LedgerTypeOK == LedgerSpec => []TypeOK
BY InitType, StepType, PTL DEF LedgerSpec

-----------------------------------------------------------------------------
(* A paid invoice is covered.  TypeOK is what makes it inductive: it says  *)
(* that cancelIssued can only restore 'issued' or 'overdue'.               *)

CoveredRow(i) == i.status = "paid" => i.paid >= Total

LEMMA CreditCovers ==
    ASSUME NEW i \in InvoiceRow, NEW a \in Nat, CoveredRow(i)
    PROVE  CoveredRow(Credited(i, a))
<1>1. i.paid \in Nat /\ i.paid + a \in Nat /\ Total \in Nat
  BY LedgerAssumption DEF InvoiceRow
<1>2. Credited(i, a).paid = i.paid + a
  BY DEF Credited, InvoiceRow
<1>3. Credited(i, a).status = IF i.status \in Payable /\ i.paid + a >= Total
                              THEN "paid" ELSE i.status
  BY DEF Credited, InvoiceRow
<1> QED
  BY <1>1, <1>2, <1>3 DEF CoveredRow

LEMMA DebitIsDue ==
    ASSUME NEW i \in InvoiceRow, NEW a \in Nat
    PROVE  CoveredRow(Debited(i, a))
<1>1. Debited(i, a).status # "paid"
  BY DEF Debited, InvoiceRow
<1> QED
  BY <1>1 DEF CoveredRow

LEMMA RefundIsNotPaid ==
    ASSUME NEW back, NEW amount
    PROVE  RefundStatus(back, amount) # "paid"
BY DEF RefundStatus

LEMMA StepCovered ==
    ASSUME TypeOK, PaidMeansCovered, [LedgerNext]_ledgerVars
    PROVE  PaidMeansCovered'
<1>a. inv \in InvoiceRow /\ CoveredRow(inv)
  BY DEF TypeOK, PaidMeansCovered, CoveredRow
<1>b. SUFFICES CoveredRow(inv')
  BY DEF PaidMeansCovered, CoveredRow
<1>c. ASSUME NEW p \in Payments PROVE pay[p].amount \in Nat
  BY RowOf
<1>1. ASSUME NEW c \in Charges, ChargeStep(c) PROVE CoveredRow(inv')
  <2>0. pay[c].amount \in Nat
    BY <1>c DEF Payments
  <2>1. CASE UNCHANGED inv
    BY <1>a, <2>1 DEF CoveredRow
  <2>2. CASE inv' = Credited(inv, pay[c].amount)
    BY <1>a, <2>0, <2>2, CreditCovers
  <2>3. CASE inv' = Debited(inv, pay[c].amount)
    BY <1>a, <2>0, <2>3, DebitIsDue
  <2>4. CASE \E total \in 1..Total : SyncRefund(c, total)
    <3>1. PICK refunded : inv' = [inv EXCEPT !.refunded = refunded,
                                            !.status = RefundStatus(refunded, Total)]
      BY <2>4 DEF SyncRefund
    <3>2. inv'.status # "paid"
      BY <1>a, <3>1, RefundIsNotPaid DEF InvoiceRow
    <3> QED
      BY <3>2 DEF CoveredRow
  <2> QED
    BY <1>1, <2>1, <2>2, <2>3, <2>4
    DEF ChargeStep, ChargeMove, ReserveCharge, StampOrder, FinalizeCharge, FailCharge,
        CloseReservation, AdoptCharge, SyncCharge, SyncDispute
<1>2. ASSUME NEW p \in Receipts, ReceiptStep(p) PROVE CoveredRow(inv')
  <2>1. PICK a \in 1..Total : inv' = Credited(inv, a)
    BY <1>2 DEF ReceiptStep, MarkPaid
  <2>2. a \in Nat
    BY LedgerAssumption
  <2> QED
    BY <1>a, <2>1, <2>2, CreditCovers
<1>3. ASSUME NEW p \in Payments, GiveBackStep(p) PROVE CoveredRow(inv')
  <2>1. CASE \E undo \in BOOLEAN : RevertPayment(p, undo)
    BY <1>a, <1>c, <2>1, DebitIsDue DEF RevertPayment
  <2>2. CASE \E a \in 1..Total : Refund(p, a)
    <3>1. PICK a \in 1..Total :
              inv' = [inv EXCEPT !.refunded = @ + a,
                                 !.status = RefundStatus(inv.refunded + a, Total)]
      BY <2>2 DEF Refund
    <3>2. inv'.status # "paid"
      BY <1>a, <3>1, RefundIsNotPaid DEF InvoiceRow
    <3> QED
      BY <3>2 DEF CoveredRow
  <2> QED
    BY <1>3, <2>1, <2>2 DEF GiveBackStep
<1>4. CASE InvoiceStep
  BY <1>a, <1>4 DEF InvoiceStep, BeginVoid, EndVoid, UndoVoid, DueDatePasses,
     SelectOverdue, WriteOverdue, TypeOK, Payable, CoveredRow, InvoiceRow
<1>5. ASSUME NEW r \in Remittances, RemittanceStep(r) PROVE CoveredRow(inv')
  BY <1>a, <1>5 DEF RemittanceStep, CreateRemittance, ClaimRemittance, SetItemStatus,
     CancelRemittance, ReturnItem, CoveredRow
<1>6. CASE UNCHANGED ledgerVars
  BY <1>a, <1>6 DEF ledgerVars, CoveredRow
<1> QED
  BY <1>1, <1>2, <1>3, <1>4, <1>5, <1>6 DEF LedgerNext, OtherStep

(* An invoice is never 'paid' with less than its total in amountPaid,      *)
(* whatever the order of charges, receipts, refunds, disputes, voids,      *)
(* remittances and daily ticks.                                            *)
THEOREM LedgerPaidMeansCovered == LedgerSpec => []PaidMeansCovered
<1>1. Init => PaidMeansCovered
  BY DEF Init, PaidMeansCovered
<1> QED
  BY <1>1, InitType, StepType, StepCovered, PTL DEF LedgerSpec

-----------------------------------------------------------------------------
(* At most one live gateway charge.  The invariant is inductive: a charge  *)
(* becomes live by a reservation, which finds none alive, or by a webhook, *)
(* whose transaction the unique index guards.                              *)

(* A transaction after which no more charges are live keeps it.            *)
LEMMA NoneRevived ==
    ASSUME OneLiveCharge,
           \A c \in Indexed : pay'[c].status \in Live => pay[c].status \in Live
    PROVE  OneLiveCharge'
BY DEF OneLiveCharge, Indexed, Live

LEMMA StepOneLive ==
    ASSUME TypeOK, OneLiveCharge, [LedgerNext]_ledgerVars
    PROVE  OneLiveCharge'
<1>a. ASSUME NEW p \in Payments, NEW row, pay' = [pay EXCEPT ![p] = row],
             p \in Indexed /\ row.status \in Live => pay[p].status \in Live
      PROVE  OneLiveCharge'
  <2>1. pay'[p] = row /\ \A q \in Payments \ {p} : pay'[q] = pay[q]
    BY <1>a DEF TypeOK
  <2>2. Indexed \subseteq Payments
    BY DEF Indexed, Payments
  <2> QED
    BY <1>a, <2>1, <2>2, NoneRevived
<1>b. ASSUME UNCHANGED pay PROVE OneLiveCharge'
  BY <1>b, NoneRevived
<1>1. ASSUME NEW c \in Charges, ChargeStep(c) PROVE OneLiveCharge'
  <2>0. c \in Payments /\ pay[c] \in PaymentRow
    BY RowOf DEF Payments
  <2>1. ASSUME NEW a \in 1..Total, ReserveCharge(c, a) PROVE OneLiveCharge'
    <3>1. \A d \in Indexed \ {c} : pay'[d] = pay[d]
      BY <2>1 DEF ReserveCharge, TypeOK, Indexed, Payments
    <3>2. \A d \in Indexed \ {c} : pay'[d].status \notin Live
      BY <2>1, <3>1 DEF ReserveCharge, Indexed
    <3> QED
      BY <3>2 DEF OneLiveCharge, Indexed
  <2>2. CASE StampOrder(c) \/ AdoptCharge(c)
    <3> DEFINE row == [pay[c] EXCEPT !.gid = TRUE]
    <3>1. row.status = pay[c].status
      BY <2>0 DEF PaymentRow
    <3>2. pay' = [pay EXCEPT ![c] = row]
      BY <2>2 DEF StampOrder, AdoptCharge
    <3> HIDE DEF row
    <3> QED
      BY <1>a, <2>0, <3>1, <3>2
  <2>3. ASSUME NEW result \in {"processing", "succeeded", "failed"}, NEW hasId \in BOOLEAN,
               FinalizeCharge(c, result, hasId)
        PROVE OneLiveCharge'
    <3>1. CASE pay[c].status = "processing"
      <4> DEFINE row == [pay[c] EXCEPT !.status = result, !.gid = @ \/ hasId]
      <4>1. pay' = [pay EXCEPT ![c] = row]
        BY <2>3, <3>1 DEF FinalizeCharge
      <4>2. pay[c].status \in Live
        BY <3>1 DEF Live
      <4> HIDE DEF row
      <4> QED
        BY <1>a, <2>0, <4>1, <4>2
    <3> QED
      BY <1>b, <2>3, <3>1 DEF FinalizeCharge
  <2>4. CASE FailCharge(c) \/ CloseReservation(c)
    <3> DEFINE row == [pay[c] EXCEPT !.status = "failed"]
    <3>1. row.status \notin Live
      BY <2>0 DEF PaymentRow, Live
    <3>2. pay' = [pay EXCEPT ![c] = row]
      BY <2>4 DEF FailCharge, CloseReservation
    <3> HIDE DEF row
    <3> QED
      BY <1>a, <2>0, <3>1, <3>2
  <2>5. ASSUME NEW status \in {"processing", "succeeded", "failed"}, SyncCharge(c, status)
        PROVE OneLiveCharge'
    <3>1. pay'[c].status = status /\ \A d \in Indexed \ {c} : pay'[d] = pay[d]
      BY <2>0, <2>5 DEF SyncCharge, TypeOK, PaymentRow, Indexed, Payments
    <3>2. CASE c \in Indexed /\ status \in Live
      <4>1. \A d \in Indexed \ {c} : pay'[d].status \notin Live
        BY <2>5, <3>1, <3>2 DEF SyncCharge, IndexAllows
      <4> QED
        BY <4>1 DEF OneLiveCharge, Indexed
    <3>3. CASE ~(c \in Indexed /\ status \in Live)
      BY <3>1, <3>3, NoneRevived
    <3> QED
      BY <3>2, <3>3
  <2>6. ASSUME NEW total \in 1..Total, SyncRefund(c, total) PROVE OneLiveCharge'
    <3> DEFINE st  == RefundStatus(total, pay[c].amount)
               row == [pay[c] EXCEPT !.back = total, !.status = st]
    <3>1. pay' = [pay EXCEPT ![c] = row]
      BY <2>6 DEF SyncRefund
    <3>2. st \notin Live
      BY DEF RefundStatus, Live
    <3> HIDE DEF st
    <3>3. row.status \notin Live
      BY <2>0, <3>2 DEF PaymentRow
    <3> HIDE DEF row
    <3> QED
      BY <1>a, <2>0, <3>1, <3>3
  <2>7. CASE SyncDispute(c)
    <3> DEFINE row == [pay[c] EXCEPT !.status = "failed", !.returned = TRUE]
    <3>1. row.status \notin Live
      BY <2>0 DEF PaymentRow, Live
    <3>2. pay' = [pay EXCEPT ![c] = row]
      BY <2>7 DEF SyncDispute
    <3> HIDE DEF row
    <3> QED
      BY <1>a, <2>0, <3>1, <3>2
  <2> QED
    BY <1>1, <2>1, <2>2, <2>3, <2>4, <2>5, <2>6, <2>7 DEF ChargeStep, ChargeMove
<1>2. ASSUME NEW p \in Receipts, ReceiptStep(p) PROVE OneLiveCharge'
  <2>1. PICK row : pay' = [pay EXCEPT ![p] = row]
    BY <1>2 DEF ReceiptStep, MarkPaid
  <2>2. p \in Payments /\ p \notin Indexed
    BY LedgerAssumption DEF Payments, Indexed
  <2> QED
    BY <1>a, <2>1, <2>2
<1>3. ASSUME NEW p \in Payments, GiveBackStep(p) PROVE OneLiveCharge'
  <2>0. pay[p] \in PaymentRow
    BY RowOf
  <2>1. ASSUME NEW undo \in BOOLEAN, RevertPayment(p, undo) PROVE OneLiveCharge'
    <3> DEFINE row == [pay[p] EXCEPT !.status = "failed", !.returned = @ \/ ~undo]
    <3>1. row.status \notin Live
      BY <2>0 DEF PaymentRow, Live
    <3>2. pay' = [pay EXCEPT ![p] = row]
      BY <2>1 DEF RevertPayment
    <3> HIDE DEF row
    <3> QED
      BY <1>a, <3>1, <3>2
  <2>2. ASSUME NEW a \in 1..Total, Refund(p, a) PROVE OneLiveCharge'
    <3> DEFINE st  == RefundStatus(pay[p].back + a, pay[p].amount)
               row == [pay[p] EXCEPT !.back = @ + a, !.status = st]
    <3>1. pay' = [pay EXCEPT ![p] = row]
      BY <2>2 DEF Refund
    <3>2. st \notin Live
      BY DEF RefundStatus, Live
    <3> HIDE DEF st
    <3>3. row.status \notin Live
      BY <2>0, <3>2 DEF PaymentRow
    <3> HIDE DEF row
    <3> QED
      BY <1>a, <3>1, <3>3
  <2> QED
    BY <1>3, <2>1, <2>2 DEF GiveBackStep
<1>4. CASE InvoiceStep
  BY <1>b, <1>4 DEF InvoiceStep, BeginVoid, EndVoid, UndoVoid, DueDatePasses,
     SelectOverdue, WriteOverdue
<1>5. ASSUME NEW r \in Remittances, RemittanceStep(r) PROVE OneLiveCharge'
  BY <1>b, <1>5 DEF RemittanceStep, CreateRemittance, ClaimRemittance, SetItemStatus,
     CancelRemittance, ReturnItem
<1>6. CASE UNCHANGED ledgerVars
  BY <1>b, <1>6 DEF ledgerVars
<1> QED
  BY <1>1, <1>2, <1>3, <1>4, <1>5, <1>6 DEF LedgerNext, OtherStep

(* However charges, answers, webhooks, disputes and sweeps interleave, no  *)
(* two Stripe or GoCardless charges of the invoice are live together.      *)
THEOREM LedgerOneLiveCharge == LedgerSpec => []OneLiveCharge
<1>1. Init => OneLiveCharge
  BY DEF Init, OneLiveCharge, NoPayment, NewPayment, Live, Indexed, Payments
<1> QED
  BY <1>1, InitType, StepType, StepOneLive, PTL DEF LedgerSpec

-----------------------------------------------------------------------------
(* Refunds are bounded.  RefundsBounded speaks of payments with a gateway  *)
(* id; a payment may get one later (the answer, the order stamp, or the    *)
(* webhook that adopts it), so the induction also needs that nothing was   *)
(* given back, nor settled, before.                                        *)
SoundRow(row) ==
    IF row.gid THEN row.back <= row.amount
               ELSE row.back = 0 /\ row.status \notin Settled

RefundsInv ==
    /\ inv.refunded <= Total
    /\ \A c \in Charges : SoundRow(pay[c])

LEMMA RefundsInvBounds == RefundsInv => RefundsBounded
BY DEF RefundsInv, RefundsBounded, SoundRow

(* A transaction that writes one payment row keeps it, if that row is      *)
(* sound and the invoice's refunds stay within the total.                  *)
LEMMA WriteSound ==
    ASSUME TypeOK, RefundsInv, NEW p \in Payments, NEW row,
           pay' = [pay EXCEPT ![p] = row],
           p \in Charges => SoundRow(row),
           inv'.refunded <= Total
    PROVE  RefundsInv'
<1>1. pay'[p] = row /\ \A q \in Payments \ {p} : pay'[q] = pay[q]
  BY DEF TypeOK
<1>2. \A c \in Charges : SoundRow(pay'[c])
  BY <1>1 DEF RefundsInv, Payments
<1> QED
  BY <1>2 DEF RefundsInv, SoundRow

LEMMA SameRefunded ==
    ASSUME NEW i \in InvoiceRow, NEW a
    PROVE  Credited(i, a).refunded = i.refunded /\ Debited(i, a).refunded = i.refunded
BY DEF Credited, Debited, InvoiceRow

LEMMA ChargeStepRefunds ==
    ASSUME TypeOK, RefundsInv, NEW c \in Charges, ChargeStep(c)
    PROVE  RefundsInv'
<1>a. c \in Payments /\ pay[c] \in PaymentRow /\ inv \in InvoiceRow /\ inv.refunded <= Total
  BY RowOf DEF Payments, RefundsInv
<1>b. pay[c].amount \in Nat /\ pay[c].back \in Nat /\ Total \in Nat /\ inv.refunded \in Nat
  BY <1>a, RowOf, LedgerAssumption
<1>c. SoundRow(pay[c])
  BY DEF RefundsInv
<1>1. ASSUME NEW a \in 1..Total, ReserveCharge(c, a) PROVE RefundsInv'
  <2> DEFINE row == NewPayment("processing", a)
  <2>1. SoundRow(row)
    BY DEF SoundRow, NewPayment, Settled
  <2>2. pay' = [pay EXCEPT ![c] = row] /\ inv'.refunded <= Total
    BY <1>1, <1>a DEF ReserveCharge
  <2> HIDE DEF row
  <2> QED
    BY <1>a, <2>1, <2>2, WriteSound
<1>2. CASE StampOrder(c) \/ AdoptCharge(c)
  <2> DEFINE row == [pay[c] EXCEPT !.gid = TRUE]
  <2>1. SoundRow(row)
    BY <1>a, <1>b, <1>c DEF SoundRow, PaymentRow
  <2>2. pay' = [pay EXCEPT ![c] = row] /\ inv'.refunded <= Total
    BY <1>2, <1>a DEF StampOrder, AdoptCharge
  <2> HIDE DEF row
  <2> QED
    BY <1>a, <2>1, <2>2, WriteSound
<1>3. ASSUME NEW result \in {"processing", "succeeded", "failed"}, NEW hasId \in BOOLEAN,
             result = "succeeded" => hasId, FinalizeCharge(c, result, hasId)
      PROVE RefundsInv'
  <2>1. CASE pay[c].status = "processing"
    <3> DEFINE row == [pay[c] EXCEPT !.status = result, !.gid = @ \/ hasId]
    <3>1. SoundRow(row)
      BY <1>3, <1>a, <1>b, <1>c DEF SoundRow, PaymentRow, Settled
    <3>2. pay' = [pay EXCEPT ![c] = row] /\ inv'.refunded <= Total
      BY <1>3, <1>a, <2>1, SameRefunded DEF FinalizeCharge
    <3> HIDE DEF row
    <3> QED
      BY <1>a, <3>1, <3>2, WriteSound
  <2>2. CASE pay[c].status # "processing"
    BY <1>3, <2>2 DEF FinalizeCharge, RefundsInv, SoundRow
  <2> QED
    BY <2>1, <2>2
<1>4. CASE FailCharge(c) \/ CloseReservation(c)
  <2> DEFINE row == [pay[c] EXCEPT !.status = "failed"]
  <2>1. SoundRow(row)
    BY <1>a, <1>c DEF SoundRow, PaymentRow, Settled
  <2>2. pay' = [pay EXCEPT ![c] = row] /\ inv'.refunded <= Total
    BY <1>4, <1>a DEF FailCharge, CloseReservation
  <2> HIDE DEF row
  <2> QED
    BY <1>a, <2>1, <2>2, WriteSound
<1>5. ASSUME NEW status \in {"processing", "succeeded", "failed"}, SyncCharge(c, status)
      PROVE RefundsInv'
  <2> DEFINE row == [pay[c] EXCEPT !.status = status]
  <2>1. SoundRow(row)
    BY <1>5, <1>a, <1>c DEF SyncCharge, SoundRow, PaymentRow
  <2>2. pay' = [pay EXCEPT ![c] = row] /\ inv'.refunded <= Total
    BY <1>5, <1>a, SameRefunded DEF SyncCharge
  <2> HIDE DEF row
  <2> QED
    BY <1>a, <2>1, <2>2, WriteSound
<1>6. ASSUME NEW total \in 1..Total, SyncRefund(c, total) PROVE RefundsInv'
  <2> DEFINE st  == RefundStatus(total, pay[c].amount)
             row == [pay[c] EXCEPT !.back = total, !.status = st]
             refunded == LowerOf(inv.refunded + total - pay[c].back, Total)
             ist == RefundStatus(refunded, Total)
  <2>1. total \in Nat /\ refunded <= Total
    BY <1>b DEF LowerOf
  <2>2. pay' = [pay EXCEPT ![c] = row]
    BY <1>6 DEF SyncRefund
  <2>3. inv' = [inv EXCEPT !.refunded = refunded, !.status = ist]
    BY <1>6 DEF SyncRefund
  <2>4. pay[c].gid /\ total <= pay[c].amount
    BY <1>6 DEF SyncRefund
  <2> HIDE DEF st, ist, refunded
  <2>5. SoundRow(row)
    BY <1>a, <2>4 DEF SoundRow, PaymentRow
  <2>6. inv'.refunded <= Total
    BY <1>a, <2>1, <2>3 DEF InvoiceRow
  <2> HIDE DEF row
  <2> QED
    BY <1>a, <2>2, <2>5, <2>6, WriteSound
<1>7. CASE SyncDispute(c)
  <2> DEFINE row == [pay[c] EXCEPT !.status = "failed", !.returned = TRUE]
  <2>1. SoundRow(row)
    BY <1>a, <1>c DEF SoundRow, PaymentRow, Settled
  <2>2. pay' = [pay EXCEPT ![c] = row] /\ inv'.refunded <= Total
    BY <1>7, <1>a, SameRefunded DEF SyncDispute
  <2> HIDE DEF row
  <2> QED
    BY <1>a, <2>1, <2>2, WriteSound
<1> QED
  BY <1>1, <1>2, <1>3, <1>4, <1>5, <1>6, <1>7 DEF ChargeStep, ChargeMove

LEMMA StepRefunds ==
    ASSUME TypeOK, RefundsInv, [LedgerNext]_ledgerVars
    PROVE  RefundsInv'
<1>a. inv \in InvoiceRow /\ inv.refunded <= Total
  BY DEF TypeOK, RefundsInv
<1>1. ASSUME NEW c \in Charges, ChargeStep(c) PROVE RefundsInv'
  BY <1>1, ChargeStepRefunds
<1>2. ASSUME NEW p \in Receipts, ReceiptStep(p) PROVE RefundsInv'
  <2>1. PICK row, a : pay' = [pay EXCEPT ![p] = row] /\ inv' = Credited(inv, a)
    BY <1>2 DEF ReceiptStep, MarkPaid
  <2>2. p \in Payments /\ p \notin Charges
    BY LedgerAssumption DEF Payments
  <2> QED
    BY <1>a, <2>1, <2>2, SameRefunded, WriteSound
<1>3. ASSUME NEW p \in Payments, GiveBackStep(p) PROVE RefundsInv'
  <2>a. pay[p] \in PaymentRow /\ (p \in Charges => SoundRow(pay[p]))
    BY RowOf DEF RefundsInv
  <2>1. ASSUME NEW undo \in BOOLEAN, RevertPayment(p, undo) PROVE RefundsInv'
    <3> DEFINE row == [pay[p] EXCEPT !.status = "failed", !.returned = @ \/ ~undo]
    <3>1. p \in Charges => SoundRow(row)
      BY <2>a DEF SoundRow, PaymentRow, Settled
    <3>2. pay' = [pay EXCEPT ![p] = row] /\ inv'.refunded <= Total
      BY <2>1, <1>a, SameRefunded DEF RevertPayment
    <3> HIDE DEF row
    <3> QED
      BY <3>1, <3>2, WriteSound
  <2>2. ASSUME NEW a \in 1..Total, Refund(p, a) PROVE RefundsInv'
    <3> DEFINE st  == RefundStatus(pay[p].back + a, pay[p].amount)
               row == [pay[p] EXCEPT !.back = @ + a, !.status = st]
               ist == RefundStatus(inv.refunded + a, Total)
    <3>1. pay' = [pay EXCEPT ![p] = row]
      BY <2>2 DEF Refund
    <3>2. inv' = [inv EXCEPT !.refunded = @ + a, !.status = ist]
      BY <2>2 DEF Refund
    <3>3. inv.refunded + a <= Total
      BY <2>2 DEF Refund
    <3>4. p \in Charges => pay[p].gid
      BY <2>2, <2>a DEF Refund, Refundable, SoundRow, Settled
    <3>5. pay[p].gid => pay[p].back + a <= pay[p].amount
      BY <2>2 DEF Refund
    <3> HIDE DEF st, ist
    <3>6. p \in Charges => SoundRow(row)
      BY <2>a, <3>4, <3>5 DEF SoundRow, PaymentRow
    <3>7. inv'.refunded <= Total
      BY <1>a, <3>2, <3>3 DEF InvoiceRow
    <3> HIDE DEF row
    <3> QED
      BY <3>1, <3>6, <3>7, WriteSound
  <2> QED
    BY <1>3, <2>1, <2>2 DEF GiveBackStep
<1>4. CASE InvoiceStep
  <2>1. inv'.refunded = inv.refunded /\ pay' = pay
    BY <1>a, <1>4 DEF InvoiceStep, BeginVoid, EndVoid, UndoVoid, DueDatePasses,
       SelectOverdue, WriteOverdue, InvoiceRow
  <2> QED
    BY <2>1 DEF RefundsInv, SoundRow
<1>5. ASSUME NEW r \in Remittances, RemittanceStep(r) PROVE RefundsInv'
  <2>1. inv' = inv /\ pay' = pay
    BY <1>5 DEF RemittanceStep, CreateRemittance, ClaimRemittance, SetItemStatus,
       CancelRemittance, ReturnItem
  <2> QED
    BY <2>1 DEF RefundsInv, SoundRow
<1>6. CASE UNCHANGED ledgerVars
  BY <1>6 DEF ledgerVars, RefundsInv, SoundRow
<1> QED
  BY <1>1, <1>2, <1>3, <1>4, <1>5, <1>6 DEF LedgerNext, OtherStep

(* Refunds from the panel and refunds synchronised from the gateway never  *)
(* record more than the invoice's total, nor more than a gateway payment.  *)
THEOREM LedgerRefundsBounded == LedgerSpec => []RefundsBounded
<1>1. Init => RefundsInv
  BY LedgerAssumption DEF Init, RefundsInv, SoundRow, NoPayment, NewPayment, Payments, Settled
<1> QED
  BY <1>1, InitType, StepType, StepRefunds, RefundsInvBounds, PTL DEF LedgerSpec

-----------------------------------------------------------------------------
(* No payment is larger than the invoice: a reservation takes at most what *)
(* was due, and nothing changes the amount of a payment afterwards.        *)
AmountsInv == \A p \in Payments : pay[p].amount <= Total

LEMMA StepAmounts ==
    ASSUME TypeOK, AmountsInv, [LedgerNext]_ledgerVars
    PROVE  AmountsInv'
<1>a. ASSUME NEW p \in Payments, NEW row, pay' = [pay EXCEPT ![p] = row],
             row.amount <= Total
      PROVE  AmountsInv'
  BY <1>a DEF TypeOK, AmountsInv
<1>b. ASSUME NEW p \in Payments, NEW row, pay' = [pay EXCEPT ![p] = row],
             row.amount = pay[p].amount
      PROVE  AmountsInv'
  BY <1>a, <1>b DEF AmountsInv
<1>c. ASSUME UNCHANGED pay PROVE AmountsInv'
  BY <1>c DEF AmountsInv
<1>1. ASSUME NEW c \in Charges, ChargeStep(c) PROVE AmountsInv'
  <2>0. c \in Payments /\ pay[c] \in PaymentRow /\ pay[c].amount <= Total
    BY RowOf DEF Payments, AmountsInv
  <2>1. CASE \E a \in 1..Total : ReserveCharge(c, a)
    <3>1. PICK a \in 1..Total : pay' = [pay EXCEPT ![c] = NewPayment("processing", a)]
      BY <2>1 DEF ReserveCharge
    <3>2. NewPayment("processing", a).amount <= Total
      BY LedgerAssumption DEF NewPayment
    <3> QED
      BY <1>a, <2>0, <3>1, <3>2
  <2>2. CASE StampOrder(c) \/ AdoptCharge(c)
    BY <1>b, <2>0, <2>2 DEF StampOrder, AdoptCharge, PaymentRow
  <2>3. CASE \E result \in {"processing", "succeeded", "failed"}, hasId \in BOOLEAN :
                 FinalizeCharge(c, result, hasId)
    BY <1>b, <1>c, <2>0, <2>3 DEF FinalizeCharge, PaymentRow
  <2>4. CASE FailCharge(c) \/ CloseReservation(c)
    BY <1>b, <2>0, <2>4 DEF FailCharge, CloseReservation, PaymentRow
  <2>5. CASE \E status \in {"processing", "succeeded", "failed"} : SyncCharge(c, status)
    BY <1>b, <2>0, <2>5 DEF SyncCharge, PaymentRow
  <2>6. ASSUME NEW total \in 1..Total, SyncRefund(c, total) PROVE AmountsInv'
    <3>1. PICK st : pay' = [pay EXCEPT ![c].back = total, ![c].status = st]
      BY <2>6 DEF SyncRefund
    <3> QED
      BY <1>b, <2>0, <3>1 DEF PaymentRow
  <2>7. CASE SyncDispute(c)
    BY <1>b, <2>0, <2>7 DEF SyncDispute, PaymentRow
  <2> QED
    BY <1>1, <2>1, <2>2, <2>3, <2>4, <2>5, <2>6, <2>7 DEF ChargeStep, ChargeMove
<1>2. ASSUME NEW p \in Receipts, ReceiptStep(p) PROVE AmountsInv'
  <2>1. PICK a \in 1..Total : pay' = [pay EXCEPT ![p] = NewPayment("succeeded", a)]
    BY <1>2 DEF ReceiptStep, MarkPaid
  <2>2. NewPayment("succeeded", a).amount <= Total /\ p \in Payments
    BY LedgerAssumption DEF NewPayment, Payments
  <2> QED
    BY <1>a, <2>1, <2>2
<1>3. ASSUME NEW p \in Payments, GiveBackStep(p) PROVE AmountsInv'
  <2>0. pay[p] \in PaymentRow /\ pay[p].amount <= Total
    BY RowOf DEF AmountsInv
  <2>1. CASE \E undo \in BOOLEAN : RevertPayment(p, undo)
    <3>1. PICK b : pay' = [pay EXCEPT ![p].status = "failed", ![p].returned = b]
      BY <2>1 DEF RevertPayment
    <3> QED
      BY <1>b, <2>0, <3>1 DEF PaymentRow
  <2>2. ASSUME NEW a \in 1..Total, Refund(p, a) PROVE AmountsInv'
    <3>1. PICK st : pay' = [pay EXCEPT ![p].back = @ + a, ![p].status = st]
      BY <2>2 DEF Refund
    <3> QED
      BY <1>b, <2>0, <3>1 DEF PaymentRow
  <2> QED
    BY <1>3, <2>1, <2>2 DEF GiveBackStep
<1>4. CASE InvoiceStep
  BY <1>c, <1>4 DEF InvoiceStep, BeginVoid, EndVoid, UndoVoid, DueDatePasses,
     SelectOverdue, WriteOverdue
<1>5. ASSUME NEW r \in Remittances, RemittanceStep(r) PROVE AmountsInv'
  BY <1>c, <1>5 DEF RemittanceStep, CreateRemittance, ClaimRemittance, SetItemStatus,
     CancelRemittance, ReturnItem
<1>6. CASE UNCHANGED ledgerVars
  BY <1>c, <1>6 DEF ledgerVars
<1> QED
  BY <1>1, <1>2, <1>3, <1>4, <1>5, <1>6 DEF LedgerNext, OtherStep

-----------------------------------------------------------------------------
(* Sums over the payment rows: writing one row moves a sum by what the row *)
(* counted before and counts now.                                          *)
SumOf(rows, S) ==
    SumFunctionOnSet([p \in Payments |-> rows[p].amount],
                     {p \in Payments : rows[p].status \in S})

Counted(row, S) == IF row.status \in S THEN row.amount ELSE 0

LEMMA SumIsSumOf ==
    ASSUME NEW CONSTANT S
    PROVE  Sum(S) = SumOf(pay, S) /\ Sum(S)' = SumOf(pay', S)
BY DEF Sum, SumOf

LEMMA SumOfIsNat ==
    ASSUME NEW rows \in [Payments -> PaymentRow], NEW S
    PROVE  SumOf(rows, S) \in Nat
<1> DEFINE amount == [p \in Payments |-> rows[p].amount]
           counted == {p \in Payments : rows[p].status \in S}
<1>1. IsFiniteSet(counted) /\ counted \subseteq Payments
  BY PaymentsAssumption, FS_Union, FS_Subset DEF Payments
<1>2. \A p \in Payments : amount[p] \in Nat
  BY DEF PaymentRow
<1> HIDE DEF amount, counted
<1>3. SumFunctionOnSet(amount, {}) <= SumFunctionOnSet(amount, counted)
  BY <1>1, <1>2, SumAtLeastPart
<1>4. SumFunctionOnSet(amount, counted) \in Int
  BY <1>1, <1>2, SumIsInt
<1>5. SumFunctionOnSet(amount, counted) \in Nat
  BY <1>3, <1>4, SumEmpty
<1> QED
  BY <1>5 DEF SumOf, amount, counted

LEMMA SumOfRest ==
    ASSUME NEW rows \in [Payments -> PaymentRow], NEW S, NEW p \in Payments
    PROVE  SumOf(rows, S) =
             Counted(rows[p], S)
             + SumFunctionOnSet([q \in Payments |-> rows[q].amount],
                                {q \in Payments \ {p} : rows[q].status \in S})
<1> DEFINE amount == [q \in Payments |-> rows[q].amount]
           counted == {q \in Payments : rows[q].status \in S}
           rest == {q \in Payments \ {p} : rows[q].status \in S}
<1>1. IsFiniteSet(counted) /\ counted \subseteq Payments
  BY PaymentsAssumption, FS_Union, FS_Subset DEF Payments
<1>2. \A q \in Payments : amount[q] \in Int
  BY DEF PaymentRow
<1>3. rest = counted \ {p} /\ amount[p] = rows[p].amount /\ (p \in counted <=> rows[p].status \in S)
  OBVIOUS
<1> HIDE DEF amount, counted, rest
<1>4. IsFiniteSet(rest)
  BY <1>1, <1>3, FS_RemoveElement
<1>5. SumFunctionOnSet(amount, rest) \in Int
  BY <1>1, <1>2, <1>3, <1>4, SumIsInt
<1>6. CASE p \in counted
  <2>1. SumFunctionOnSet(amount, counted) = amount[p] + SumFunctionOnSet(amount, rest)
    BY <1>1, <1>2, <1>3, <1>6, SumRemove
  <2> QED
    BY <1>3, <1>6, <2>1 DEF SumOf, Counted, amount, counted, rest
<1>7. CASE p \notin counted
  <2>1. rest = counted
    BY <1>3, <1>7
  <2>2. SumFunctionOnSet(amount, counted) = 0 + SumFunctionOnSet(amount, rest)
    BY <1>5, <2>1
  <2> QED
    BY <1>3, <1>7, <2>2 DEF SumOf, Counted, amount, counted, rest
<1> QED
  BY <1>6, <1>7

LEMMA SumOfWrite ==
    ASSUME NEW rows \in [Payments -> PaymentRow], NEW S, NEW p \in Payments,
           NEW row \in PaymentRow
    PROVE  SumOf([rows EXCEPT ![p] = row], S)
             = SumOf(rows, S) + Counted(row, S) - Counted(rows[p], S)
<1> DEFINE new == [rows EXCEPT ![p] = row]
           rest == {q \in Payments \ {p} : rows[q].status \in S}
           Other(r) == SumFunctionOnSet([q \in Payments |-> r[q].amount], rest)
<1>1. new \in [Payments -> PaymentRow] /\ new[p] = row
      /\ \A q \in Payments \ {p} : new[q] = rows[q]
  OBVIOUS
<1>2. rest = {q \in Payments \ {p} : new[q].status \in S}
  BY <1>1
<1>3. IsFiniteSet(rest)
  BY PaymentsAssumption, FS_Union, FS_Subset DEF Payments
<1>4. Other(new) = Other(rows)
  <2>1. \A q \in rest : [x \in Payments |-> new[x].amount][q] = [x \in Payments |-> rows[x].amount][q]
    BY <1>1
  <2> HIDE DEF new, rest
  <2> QED
    BY <1>3, <2>1, SumSame
<1>5. Other(rows) \in Int
  <2>1. \A q \in rest : [x \in Payments |-> rows[x].amount][q] \in Int
    BY DEF PaymentRow
  <2> HIDE DEF rest
  <2> QED
    BY <1>3, <2>1, SumIsInt
<1>6. SumOf(rows, S) = Counted(rows[p], S) + Other(rows)
  BY SumOfRest
<1> HIDE DEF new
<1>7. SumOf(new, S) = Counted(row, S) + Other(new)
  BY <1>1, <1>2, SumOfRest
<1>8. Counted(row, S) \in Nat /\ Counted(rows[p], S) \in Nat
  BY DEF Counted, PaymentRow
<1> HIDE DEF Other
<1>9. SumOf(new, S) = SumOf(rows, S) + Counted(row, S) - Counted(rows[p], S)
  BY <1>4, <1>5, <1>6, <1>7, <1>8
<1> QED
  BY <1>9 DEF new

(* One row never counts for more than the whole sum.                       *)
LEMMA CountedInSum ==
    ASSUME NEW rows \in [Payments -> PaymentRow], NEW S, NEW p \in Payments
    PROVE  Counted(rows[p], S) <= SumOf(rows, S)
<1> DEFINE amount == [q \in Payments |-> rows[q].amount]
           rest == {q \in Payments \ {p} : rows[q].status \in S}
<1>1. IsFiniteSet(rest) /\ rest \subseteq Payments
  BY PaymentsAssumption, FS_Union, FS_Subset DEF Payments
<1>2. \A q \in Payments : amount[q] \in Nat
  BY DEF PaymentRow
<1>3. SumOf(rows, S) = Counted(rows[p], S) + SumFunctionOnSet(amount, rest)
  BY SumOfRest
<1>4. Counted(rows[p], S) \in Nat
  BY DEF Counted, PaymentRow
<1> HIDE DEF amount, rest
<1>5. SumFunctionOnSet(amount, {}) <= SumFunctionOnSet(amount, rest)
  BY <1>1, <1>2, SumAtLeastPart
<1>6. SumFunctionOnSet(amount, rest) \in Int
  BY <1>1, <1>2, SumIsInt
<1> QED
  BY <1>3, <1>4, <1>5, <1>6, SumEmpty

-----------------------------------------------------------------------------
(* How a transaction moves money.  It writes no payment row, or one row of *)
(* three kinds: money enters with the row that turns 'succeeded', leaves   *)
(* with the one that turns 'failed', and otherwise no row turns            *)
(* 'succeeded' and amountPaid stays.                                       *)
Enters(p, row) ==
    /\ pay[p].status # "succeeded" /\ row.status = "succeeded"
    /\ inv'.paid = inv.paid + row.amount

Leaves(p, row) ==
    /\ pay[p].status = "succeeded" /\ row.status = "failed"
    /\ row.amount = pay[p].amount
    /\ inv'.paid = Positive(inv.paid - row.amount)

Stays(p, row) ==
    /\ row.status = "succeeded" =>
          pay[p].status = "succeeded" /\ row.amount = pay[p].amount
    /\ inv'.paid = inv.paid

MoneyMoves ==
    \/ UNCHANGED pay /\ inv'.paid = inv.paid
    \/ \E p \in Payments, row \in PaymentRow :
          /\ pay' = [pay EXCEPT ![p] = row]
          /\ Enters(p, row) \/ Leaves(p, row) \/ Stays(p, row)

LEMMA PaidOf ==
    ASSUME NEW i \in InvoiceRow, NEW a
    PROVE  Credited(i, a).paid = i.paid + a /\ Debited(i, a).paid = Positive(i.paid - a)
BY DEF Credited, Debited, InvoiceRow

LEMMA WrittenRow ==
    ASSUME TypeOK, TypeOK', NEW p \in Payments, NEW row, pay' = [pay EXCEPT ![p] = row]
    PROVE  row \in PaymentRow
<1>1. pay'[p] = row
  BY DEF TypeOK
<1> QED
  BY <1>1 DEF TypeOK

LEMMA ChargeMovesMoney ==
    ASSUME TypeOK, TypeOK', NEW c \in Charges, ChargeStep(c)
    PROVE  MoneyMoves
<1>a. c \in Payments /\ pay[c] \in PaymentRow /\ inv \in InvoiceRow
  BY RowOf DEF Payments
<1>b. ASSUME NEW row, pay' = [pay EXCEPT ![c] = row],
             Enters(c, row) \/ Leaves(c, row) \/ Stays(c, row)
      PROVE  MoneyMoves
  BY <1>a, <1>b, WrittenRow DEF MoneyMoves
<1>1. ASSUME NEW a \in 1..Total, ReserveCharge(c, a) PROVE MoneyMoves
  <2> DEFINE row == NewPayment("processing", a)
  <2>1. pay' = [pay EXCEPT ![c] = row] /\ Stays(c, row)
    BY <1>1 DEF ReserveCharge, Stays, NewPayment
  <2> HIDE DEF row
  <2> QED
    BY <1>b, <2>1
<1>2. CASE StampOrder(c) \/ AdoptCharge(c)
  <2> DEFINE row == [pay[c] EXCEPT !.gid = TRUE]
  <2>1. pay' = [pay EXCEPT ![c] = row] /\ Stays(c, row)
    BY <1>2, <1>a DEF StampOrder, AdoptCharge, Stays, PaymentRow
  <2> HIDE DEF row
  <2> QED
    BY <1>b, <2>1
<1>3. ASSUME NEW result \in {"processing", "succeeded", "failed"}, NEW hasId \in BOOLEAN,
             FinalizeCharge(c, result, hasId)
      PROVE MoneyMoves
  <2>1. CASE pay[c].status = "processing"
    <3> DEFINE row == [pay[c] EXCEPT !.status = result, !.gid = @ \/ hasId]
    <3>1. pay' = [pay EXCEPT ![c] = row] /\ row.status = result /\ row.amount = pay[c].amount
      BY <1>3, <1>a, <2>1 DEF FinalizeCharge, PaymentRow
    <3>2. Enters(c, row) \/ Stays(c, row)
      BY <1>3, <1>a, <2>1, <3>1, PaidOf DEF FinalizeCharge, Enters, Stays
    <3> HIDE DEF row
    <3> QED
      BY <1>b, <3>1, <3>2
  <2>2. CASE pay[c].status # "processing"
    BY <1>3, <2>2 DEF FinalizeCharge, MoneyMoves
  <2> QED
    BY <2>1, <2>2
<1>4. CASE FailCharge(c) \/ CloseReservation(c)
  <2> DEFINE row == [pay[c] EXCEPT !.status = "failed"]
  <2>1. pay' = [pay EXCEPT ![c] = row] /\ Stays(c, row)
    BY <1>4, <1>a DEF FailCharge, CloseReservation, Stays, PaymentRow
  <2> HIDE DEF row
  <2> QED
    BY <1>b, <2>1
<1>5. ASSUME NEW status \in {"processing", "succeeded", "failed"}, SyncCharge(c, status)
      PROVE MoneyMoves
  <2> DEFINE row == [pay[c] EXCEPT !.status = status]
  <2>1. pay' = [pay EXCEPT ![c] = row] /\ row.status = status /\ row.amount = pay[c].amount
    BY <1>5, <1>a DEF SyncCharge, PaymentRow
  <2>2. Enters(c, row) \/ Stays(c, row)
    BY <1>5, <1>a, <2>1, PaidOf DEF SyncCharge, SyncMoves, Settled, Enters, Stays
  <2> HIDE DEF row
  <2> QED
    BY <1>b, <2>1, <2>2
<1>6. ASSUME NEW total \in 1..Total, SyncRefund(c, total) PROVE MoneyMoves
  <2> DEFINE st == RefundStatus(total, pay[c].amount)
             row == [pay[c] EXCEPT !.back = total, !.status = st]
  <2>1. pay' = [pay EXCEPT ![c] = row]
    BY <1>6 DEF SyncRefund
  <2>2. st # "succeeded" /\ inv'.paid = inv.paid
    BY <1>6, <1>a DEF SyncRefund, RefundStatus, InvoiceRow
  <2> HIDE DEF st
  <2>3. Stays(c, row)
    BY <1>a, <2>2 DEF Stays, PaymentRow
  <2> HIDE DEF row
  <2> QED
    BY <1>b, <2>1, <2>3
<1>7. CASE SyncDispute(c)
  <2> DEFINE row == [pay[c] EXCEPT !.status = "failed", !.returned = TRUE]
  <2>1. pay' = [pay EXCEPT ![c] = row] /\ Leaves(c, row)
    BY <1>7, <1>a, PaidOf DEF SyncDispute, Leaves, PaymentRow
  <2> HIDE DEF row
  <2> QED
    BY <1>b, <2>1
<1> QED
  BY <1>1, <1>2, <1>3, <1>4, <1>5, <1>6, <1>7 DEF ChargeStep, ChargeMove

LEMMA StepMovesMoney ==
    ASSUME TypeOK, [LedgerNext]_ledgerVars
    PROVE  MoneyMoves
<1>a. TypeOK' /\ inv \in InvoiceRow
  BY StepType DEF TypeOK
<1>1. ASSUME NEW c \in Charges, ChargeStep(c) PROVE MoneyMoves
  BY <1>1, <1>a, ChargeMovesMoney
<1>2. ASSUME NEW p \in Receipts, ReceiptStep(p) PROVE MoneyMoves
  <2>1. PICK a \in 1..Total : /\ pay' = [pay EXCEPT ![p] = NewPayment("succeeded", a)]
                              /\ inv' = Credited(inv, a) /\ pay[p].status = "none"
    BY <1>2 DEF ReceiptStep, MarkPaid
  <2> DEFINE row == NewPayment("succeeded", a)
  <2>2. Enters(p, row)
    BY <1>a, <2>1, PaidOf DEF Enters, NewPayment
  <2>3. p \in Payments /\ row \in PaymentRow
    BY <1>a, <2>1, WrittenRow DEF Payments
  <2> QED
    BY <2>1, <2>2, <2>3 DEF MoneyMoves
<1>3. ASSUME NEW p \in Payments, GiveBackStep(p) PROVE MoneyMoves
  <2>a. pay[p] \in PaymentRow
    BY RowOf
  <2>1. ASSUME NEW undo \in BOOLEAN, RevertPayment(p, undo) PROVE MoneyMoves
    <3> DEFINE row == [pay[p] EXCEPT !.status = "failed", !.returned = @ \/ ~undo]
    <3>1. pay' = [pay EXCEPT ![p] = row] /\ Leaves(p, row)
      BY <1>a, <2>a, <2>1, PaidOf DEF RevertPayment, Leaves, PaymentRow
    <3> HIDE DEF row
    <3> QED
      BY <1>a, <3>1, WrittenRow DEF MoneyMoves
  <2>2. ASSUME NEW a \in 1..Total, Refund(p, a) PROVE MoneyMoves
    <3> DEFINE st  == RefundStatus(pay[p].back + a, pay[p].amount)
               row == [pay[p] EXCEPT !.back = @ + a, !.status = st]
    <3>1. pay' = [pay EXCEPT ![p] = row]
      BY <2>2 DEF Refund
    <3>2. st # "succeeded" /\ inv'.paid = inv.paid
      BY <1>a, <2>2 DEF Refund, RefundStatus, InvoiceRow
    <3> HIDE DEF st
    <3>3. Stays(p, row)
      BY <2>a, <3>2 DEF Stays, PaymentRow
    <3> HIDE DEF row
    <3> QED
      BY <1>a, <3>1, <3>3, WrittenRow DEF MoneyMoves
  <2> QED
    BY <1>3, <2>1, <2>2 DEF GiveBackStep
<1>4. CASE InvoiceStep
  BY <1>a, <1>4 DEF InvoiceStep, BeginVoid, EndVoid, UndoVoid, DueDatePasses,
     SelectOverdue, WriteOverdue, InvoiceRow, MoneyMoves
<1>5. ASSUME NEW r \in Remittances, RemittanceStep(r) PROVE MoneyMoves
  BY <1>5 DEF RemittanceStep, CreateRemittance, ClaimRemittance, SetItemStatus,
     CancelRemittance, ReturnItem, MoneyMoves
<1>6. CASE UNCHANGED ledgerVars
  BY <1>6 DEF ledgerVars, MoneyMoves
<1> QED
  BY <1>1, <1>2, <1>3, <1>4, <1>5, <1>6 DEF LedgerNext, OtherStep

(* A payment that counts is part of amountPaid, so the floor at zero never *)
(* cuts what is taken back with it.                                        *)
LEMMA CountedIsPaid ==
    ASSUME TypeOK, SucceededIsCovered, NEW p \in Payments, pay[p].status = "succeeded"
    PROVE  pay[p].amount <= inv.paid
<1>1. pay \in [Payments -> PaymentRow] /\ pay[p].amount \in Nat /\ inv.paid \in Nat
  BY DEF TypeOK, PaymentRow, InvoiceRow
<1>2. SumOf(pay, {"succeeded"}) \in Nat /\ SumOf(pay, {"succeeded"}) <= inv.paid
  BY <1>1, SumOfIsNat, SumIsSumOf DEF SucceededIsCovered
<1>3. pay[p].amount <= SumOf(pay, {"succeeded"})
  BY <1>1, CountedInSum DEF Counted
<1> QED
  BY <1>1, <1>2, <1>3

LEMMA StepSucceeded ==
    ASSUME TypeOK, SucceededIsCovered, [LedgerNext]_ledgerVars
    PROVE  SucceededIsCovered'
<1> DEFINE S == {"succeeded"}
<1>a. pay \in [Payments -> PaymentRow] /\ inv.paid \in Nat
  BY DEF TypeOK, InvoiceRow
<1>b. SumOf(pay, S) \in Nat /\ SumOf(pay, S) <= inv.paid
  BY <1>a, SumOfIsNat, SumIsSumOf DEF SucceededIsCovered
<1>c. SUFFICES SumOf(pay', S) <= inv'.paid
  BY SumIsSumOf DEF SucceededIsCovered
<1>1. CASE UNCHANGED pay /\ inv'.paid = inv.paid
  BY <1>1, <1>b
<1>2. ASSUME NEW p \in Payments, NEW row \in PaymentRow,
             pay' = [pay EXCEPT ![p] = row],
             Enters(p, row) \/ Leaves(p, row) \/ Stays(p, row)
      PROVE  SumOf(pay', S) <= inv'.paid
  <2>1. SumOf(pay', S) = SumOf(pay, S) + Counted(row, S) - Counted(pay[p], S)
    BY <1>2, <1>a, SumOfWrite
  <2>2. pay[p].amount \in Nat /\ row.amount \in Nat
    BY <1>a DEF PaymentRow
  <2>3. /\ Counted(row, S) = IF row.status = "succeeded" THEN row.amount ELSE 0
        /\ Counted(pay[p], S) = IF pay[p].status = "succeeded" THEN pay[p].amount ELSE 0
    BY DEF Counted
  <2>4. CASE Enters(p, row)
    BY <1>a, <1>b, <2>1, <2>2, <2>3, <2>4 DEF Enters
  <2>5. CASE Leaves(p, row)
    <3>1. pay[p].amount <= inv.paid
      BY <2>5, CountedIsPaid DEF Leaves
    <3>2. inv'.paid = inv.paid - pay[p].amount
      BY <1>a, <2>2, <2>5, <3>1 DEF Leaves, Positive
    <3> QED
      BY <1>a, <1>b, <2>1, <2>2, <2>3, <2>5, <3>2 DEF Leaves
  <2>6. CASE Stays(p, row)
    BY <1>a, <1>b, <2>1, <2>2, <2>3, <2>6 DEF Stays
  <2> QED
    BY <1>2, <2>4, <2>5, <2>6
<1> QED
  BY <1>1, <1>2, StepMovesMoney DEF MoneyMoves

LEMMA InitSucceeded == Init => SucceededIsCovered
<1> SUFFICES ASSUME Init PROVE SucceededIsCovered
  OBVIOUS
<1>1. {p \in Payments : pay[p].status \in {"succeeded"}} = {}
  BY DEF Init, NoPayment, NewPayment
<1>2. Sum({"succeeded"}) = 0 /\ inv.paid = 0
  BY <1>1, SumEmpty DEF Sum, Init
<1> QED
  BY <1>2 DEF SucceededIsCovered

(* What counts as collected and not refunded is always part of amountPaid: *)
(* disputes, returned debits and undone matches take back exactly what     *)
(* their payment had added, and the floor at zero hides nothing.           *)
THEOREM LedgerSucceededIsCovered == LedgerSpec => []SucceededIsCovered
BY InitType, StepType, InitSucceeded, StepSucceeded, PTL DEF LedgerSpec

LEMMA StepMovesOne ==
    ASSUME TypeOK, SucceededIsCovered, [LedgerNext]_ledgerVars, inv'.paid # inv.paid
    PROVE  \E p \in Payments :
              \/ /\ pay[p].status # "succeeded" /\ pay'[p].status = "succeeded"
                 /\ MovedBy(p, 1)
              \/ /\ pay[p].status = "succeeded" /\ pay'[p].status = "failed"
                 /\ MovedBy(p, -1)
<1>1. PICK p \in Payments, row \in PaymentRow :
          /\ pay' = [pay EXCEPT ![p] = row]
          /\ Enters(p, row) \/ Leaves(p, row)
  BY StepMovesMoney DEF MoneyMoves, Stays
<1>2. pay'[p] = row /\ \A q \in Payments \ {p} : pay'[q] = pay[q]
  BY <1>1 DEF TypeOK
<1>3. row.amount \in Nat /\ inv.paid \in Nat
  BY DEF TypeOK, PaymentRow, InvoiceRow
<1>4. CASE Enters(p, row)
  BY <1>2, <1>3, <1>4 DEF Enters, MovedBy
<1>5. CASE Leaves(p, row)
  <2>1. row.amount <= inv.paid
    BY <1>5, CountedIsPaid DEF Leaves
  <2>2. inv'.paid = inv.paid - row.amount
    BY <1>3, <1>5, <2>1 DEF Leaves, Positive
  <2> QED
    BY <1>2, <1>3, <1>5, <2>2 DEF Leaves, MovedBy
<1> QED
  BY <1>1, <1>4, <1>5

(* amountPaid never moves without exactly one payment row that enters or   *)
(* leaves 'succeeded' in the same transaction, by that payment's amount:   *)
(* no answer, webhook or receipt is counted twice.                         *)
THEOREM LedgerPaidMovesWithOnePayment == LedgerSpec => PaidMovesWithOnePayment
<1>1. TypeOK /\ SucceededIsCovered /\ [LedgerNext]_ledgerVars =>
        [inv'.paid # inv.paid =>
          \E p \in Payments :
             \/ /\ pay[p].status # "succeeded" /\ pay'[p].status = "succeeded"
                /\ MovedBy(p, 1)
             \/ /\ pay[p].status = "succeeded" /\ pay'[p].status = "failed"
                /\ MovedBy(p, -1)]_ledgerVars
  BY StepMovesOne
<1> QED
  BY <1>1, LedgerTypeOK, LedgerSucceededIsCovered, PTL DEF LedgerSpec, PaidMovesWithOnePayment

-----------------------------------------------------------------------------
(* The money that counts as collected, for protocols that know whose row   *)
(* each transaction finds.  A step writes no payment row, or one row of    *)
(* three kinds: a payment that becomes settled adds its amount to          *)
(* amountPaid, one that stops being so takes it back, and any other leaves *)
(* both as they were.                                                      *)
Collects(p, row) ==
    /\ pay[p].status \notin Settled /\ row.status \in Settled
    /\ inv'.paid = inv.paid + row.amount

TakesBack(p, row) ==
    /\ pay[p].status \in Settled /\ row.status \notin Settled
    /\ inv'.paid = Positive(inv.paid - pay[p].amount)

KeepsMoney(p, row) ==
    /\ pay[p].status \in Settled <=> row.status \in Settled
    /\ row.status \in Settled => row.amount = pay[p].amount
    /\ inv'.paid = inv.paid

CollectedMoves ==
    \/ UNCHANGED pay /\ inv'.paid = inv.paid
    \/ \E p \in Payments, row \in PaymentRow :
          /\ pay' = [pay EXCEPT ![p] = row]
          /\ Collects(p, row) \/ TakesBack(p, row) \/ KeepsMoney(p, row)

LEMMA LedgerKept == ASSUME UNCHANGED ledgerVars PROVE CollectedMoves
BY DEF ledgerVars, CollectedMoves

LEMMA RowCollected ==
    ASSUME TypeOK, TypeOK', NEW p \in Payments, NEW row, pay' = [pay EXCEPT ![p] = row],
           Collects(p, row) \/ TakesBack(p, row) \/ KeepsMoney(p, row)
    PROVE  CollectedMoves
BY WrittenRow DEF CollectedMoves

(* The transactions of a charge, refunds aside.                            *)
LEMMA ChargeCollects ==
    ASSUME TypeOK, TypeOK', NEW c \in Charges,
           \/ \E a : ReserveCharge(c, a)
           \/ \E result \in {"processing", "succeeded", "failed"}, hasId \in BOOLEAN :
                  FinalizeCharge(c, result, hasId)
           \/ FailCharge(c) /\ pay[c].status \notin Settled
           \/ CloseReservation(c) \/ AdoptCharge(c)
           \/ \E status \in {"processing", "succeeded", "failed"} : SyncCharge(c, status)
           \/ SyncDispute(c)
    PROVE  CollectedMoves
<1>a. c \in Payments /\ pay[c] \in PaymentRow /\ inv \in InvoiceRow
  BY RowOf DEF Payments, TypeOK
<1>1. ASSUME NEW a, ReserveCharge(c, a) PROVE CollectedMoves
  <2> DEFINE row == NewPayment("processing", a)
  <2>1. pay' = [pay EXCEPT ![c] = row] /\ KeepsMoney(c, row)
    BY <1>1 DEF ReserveCharge, KeepsMoney, NewPayment, Settled
  <2> HIDE DEF row
  <2> QED
    BY <1>a, <2>1, RowCollected
<1>2. ASSUME NEW result \in {"processing", "succeeded", "failed"}, NEW hasId \in BOOLEAN,
             FinalizeCharge(c, result, hasId)
      PROVE  CollectedMoves
  <2>1. CASE pay[c].status = "processing"
    <3> DEFINE row == [pay[c] EXCEPT !.status = result, !.gid = @ \/ hasId]
    <3>1. pay' = [pay EXCEPT ![c] = row] /\ row.status = result /\ row.amount = pay[c].amount
      BY <1>2, <1>a, <2>1 DEF FinalizeCharge, PaymentRow
    <3>2. Collects(c, row) \/ KeepsMoney(c, row)
      BY <1>2, <1>a, <2>1, <3>1, PaidOf DEF FinalizeCharge, Collects, KeepsMoney, Settled
    <3> HIDE DEF row
    <3> QED
      BY <1>a, <3>1, <3>2, RowCollected
  <2>2. CASE pay[c].status # "processing"
    BY <1>2, <2>2 DEF FinalizeCharge, CollectedMoves
  <2> QED
    BY <2>1, <2>2
<1>3. CASE (FailCharge(c) /\ pay[c].status \notin Settled) \/ CloseReservation(c)
  <2> DEFINE row == [pay[c] EXCEPT !.status = "failed"]
  <2>1. pay' = [pay EXCEPT ![c] = row] /\ KeepsMoney(c, row)
    BY <1>3, <1>a DEF FailCharge, CloseReservation, KeepsMoney, PaymentRow, Settled
  <2> HIDE DEF row
  <2> QED
    BY <1>a, <2>1, RowCollected
<1>4. CASE AdoptCharge(c)
  <2> DEFINE row == [pay[c] EXCEPT !.gid = TRUE]
  <2>1. pay' = [pay EXCEPT ![c] = row] /\ KeepsMoney(c, row)
    BY <1>4, <1>a DEF AdoptCharge, KeepsMoney, PaymentRow
  <2> HIDE DEF row
  <2> QED
    BY <1>a, <2>1, RowCollected
<1>5. ASSUME NEW status \in {"processing", "succeeded", "failed"}, SyncCharge(c, status)
      PROVE  CollectedMoves
  <2> DEFINE row == [pay[c] EXCEPT !.status = status]
  <2>1. pay' = [pay EXCEPT ![c] = row] /\ row.status = status /\ row.amount = pay[c].amount
    BY <1>5, <1>a DEF SyncCharge, PaymentRow
  <2>2. Collects(c, row) \/ KeepsMoney(c, row)
    BY <1>5, <1>a, <2>1, PaidOf DEF SyncCharge, SyncMoves, Settled, Collects, KeepsMoney
  <2> HIDE DEF row
  <2> QED
    BY <1>a, <2>1, <2>2, RowCollected
<1>6. CASE SyncDispute(c)
  <2> DEFINE row == [pay[c] EXCEPT !.status = "failed", !.returned = TRUE]
  <2>1. pay' = [pay EXCEPT ![c] = row] /\ TakesBack(c, row)
    BY <1>6, <1>a, PaidOf DEF SyncDispute, TakesBack, PaymentRow, Settled
  <2> HIDE DEF row
  <2> QED
    BY <1>a, <2>1, RowCollected
<1> QED
  BY <1>1, <1>2, <1>3, <1>4, <1>5, <1>6

(* A receipt, and what writes no payment row.                              *)
LEMMA ReceiptCollects ==
    ASSUME TypeOK, TypeOK', NEW p \in Receipts, NEW a, NEW override, NEW inRemittance,
           MarkPaid(p, a, override, inRemittance)
    PROVE  CollectedMoves
<1> DEFINE row == NewPayment("succeeded", a)
<1>1. pay' = [pay EXCEPT ![p] = row] /\ Collects(p, row) /\ p \in Payments
  BY PaidOf DEF MarkPaid, Collects, NewPayment, Settled, Payments, TypeOK
<1> HIDE DEF row
<1> QED
  BY <1>1, RowCollected

LEMMA InvoiceCollects ==
    ASSUME TypeOK,
           \/ InvoiceStep
           \/ \E r \in Remittances : CreateRemittance(r) \/ CancelRemittance(r)
    PROVE  CollectedMoves
BY DEF TypeOK, InvoiceRow, InvoiceStep, BeginVoid, EndVoid, UndoVoid, DueDatePasses,
   SelectOverdue, WriteOverdue, CreateRemittance, CancelRemittance, CollectedMoves

(* Such steps keep amountPaid within the settled payments, or equal to     *)
(* them.                                                                   *)
LEMMA CollectedStays ==
    ASSUME TypeOK, CollectedMoves, inv.paid <= Sum(Settled)
    PROVE  /\ (inv.paid <= Sum(Settled))'
           /\ inv.paid = Sum(Settled) => (inv.paid = Sum(Settled))'
<1> DEFINE S == Settled
<1>a. pay \in [Payments -> PaymentRow] /\ inv.paid \in Nat
  BY DEF TypeOK, InvoiceRow
<1>b. Sum(S) = SumOf(pay, S) /\ Sum(S)' = SumOf(pay', S) /\ SumOf(pay, S) \in Nat
  BY <1>a, SumIsSumOf, SumOfIsNat DEF Settled
<1>c. SUFFICES /\ inv'.paid <= SumOf(pay', S)
               /\ inv.paid = SumOf(pay, S) => inv'.paid = SumOf(pay', S)
  BY <1>b
<1>d. inv.paid <= SumOf(pay, S)
  BY <1>b
<1>1. CASE UNCHANGED pay /\ inv'.paid = inv.paid
  BY <1>1, <1>d
<1>2. ASSUME NEW p \in Payments, NEW row \in PaymentRow, pay' = [pay EXCEPT ![p] = row],
             Collects(p, row) \/ TakesBack(p, row) \/ KeepsMoney(p, row)
      PROVE  /\ inv'.paid <= SumOf(pay', S)
             /\ inv.paid = SumOf(pay, S) => inv'.paid = SumOf(pay', S)
  <2>1. SumOf(pay', S) = SumOf(pay, S) + Counted(row, S) - Counted(pay[p], S)
    BY <1>2, <1>a, SumOfWrite
  <2>2. pay[p].amount \in Nat /\ row.amount \in Nat
    BY <1>a DEF PaymentRow
  <2>3. /\ Counted(row, S) = IF row.status \in S THEN row.amount ELSE 0
        /\ Counted(pay[p], S) = IF pay[p].status \in S THEN pay[p].amount ELSE 0
        /\ Counted(pay[p], S) <= SumOf(pay, S)
    BY <1>a, CountedInSum DEF Counted
  <2>4. CASE Collects(p, row)
    BY <1>a, <1>b, <1>d, <2>1, <2>2, <2>3, <2>4 DEF Collects
  <2>5. CASE TakesBack(p, row)
    BY <1>a, <1>b, <1>d, <2>1, <2>2, <2>3, <2>5 DEF TakesBack, Positive
  <2>6. CASE KeepsMoney(p, row)
    BY <1>a, <1>b, <1>d, <2>1, <2>2, <2>3, <2>6 DEF KeepsMoney
  <2> QED
    BY <1>2, <2>4, <2>5, <2>6
<1> QED
  BY <1>1, <1>2 DEF CollectedMoves

LEMMA InitCollects == Init => inv.paid = 0 /\ Sum(Settled) = 0
<1> SUFFICES ASSUME Init PROVE inv.paid = 0 /\ Sum(Settled) = 0
  OBVIOUS
<1>1. {p \in Payments : pay[p].status \in Settled} = {}
  BY DEF Init, NoPayment, NewPayment, Settled
<1> QED
  BY <1>1, SumEmpty DEF Sum, Init

=============================================================================
