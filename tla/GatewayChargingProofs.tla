------------------------ MODULE GatewayChargingProofs ------------------------
(***************************************************************************)
(* Proofs about GatewayCharging, for any number of concurrent charges and  *)
(* crashes: every step of the processes is a transaction of the ledger, so *)
(* the ledger's invariants hold of them; amountPaid is the money of the    *)
(* settled rows; and with Stripe nobody is charged twice.                  *)
(***************************************************************************)
EXTENDS GatewayCharging, InvoiceLedgerProofs

-----------------------------------------------------------------------------
(* What a call remembers.  The amount it read is a legal one when it is    *)
(* reserved, and an answer 'succeeded' comes with the gateway's id.        *)
Sensible(c) ==
    /\ call[c].pc \in {"read", "checked"} => call[c].amount \in 1..Total
    /\ call[c].answer.result = "succeeded" => call[c].answer.id

CallInv == ChargingTypeOK /\ AmountsInv /\ \A c \in Charges : Sensible(c)

(* What happened to a charge at the gateway agrees with what its call, its *)
(* events and the sweep know of it, and with its payment row.              *)
Was == {"succeeded", "reversed", "refunded"}

AnswerAgrees(c) ==
    /\ call[c].pc \in {"idle", "read", "checked", "reserved"} => gw[c] = "none"
    /\ call[c].pc = "reserved" => pay[c].status = "processing"
    /\ call[c].pc = "answered" =>
          /\ call[c].answer.result = "thrown" => gw[c] = "none"
          /\ call[c].answer.result = "succeeded" => gw[c] \in Was
          /\ call[c].answer.result = "requires_action" => gw[c] = "requires_action"
          /\ call[c].answer.result = "failed" /\ Gateway[c] = "stripe" =>
                gw[c] \in {"failed", "requires_action"}

EventsAgree(c) ==
    /\ event[c]["succeeded"] # "none" => gw[c] \in Was
    /\ event[c]["paid_out"] # "none" => gw[c] \in Was
    /\ event[c]["failed"] # "none" => gw[c] = "failed"
    /\ event[c]["disputed"] # "none" => gw[c] = "reversed"
    /\ event[c]["refunded"] # "none" => gw[c] = "refunded"

SweepAgrees(c) ==
    /\ look[c] # "none" => call[c].pc \in {"done", "crashed"}
    /\ look[c] = "absent" => gw[c] = "none"
    /\ look[c] = "succeeded" => gw[c] \in Was
    /\ look[c] \in {"failed", "requires_action"} => gw[c] \in {"failed", "requires_action"}

RowAgrees(c) ==
    /\ pay[c].status \in Settled => gw[c] \in Was
    /\ AtGateway(c) /\ Gateway[c] = "stripe" => pay[c].status \in Live

Agrees(c) == AnswerAgrees(c) /\ EventsAgree(c) /\ SweepAgrees(c) /\ RowAgrees(c)

GatewayInv == \A c \in Charges : Agrees(c)

-----------------------------------------------------------------------------
(* Every step is a transaction of the ledger, or leaves its rows alone.    *)

LEMMA ChargeStepIsLedger ==
    ASSUME NEW c \in Charges, ChargeStep(c)
    PROVE  LedgerNext
BY DEF LedgerNext, OtherStep

LEMMA CallStepIsLedger ==
    ASSUME CallInv, NEW c \in Charges, CallStep(c)
    PROVE  LedgerNext \/ UNCHANGED ledgerVars
<1>1. CASE Reserve(c)
  <2>1. call[c].amount \in 1..Total
    BY <1>1 DEF CallInv, Sensible, Reserve, At
  <2> QED
    BY <1>1, <2>1, ChargeStepIsLedger DEF Reserve, ChargeStep, ChargeMove
<1>2. CASE Finalize(c)
  <2> DEFINE result == FinalStatus(call[c].answer.result)
             hasId  == call[c].answer.id
  <2>1. hasId \in BOOLEAN
    BY DEF CallInv, ChargingTypeOK, CallRow
  <2>2. result \in {"processing", "succeeded", "failed"}
    BY <1>2 DEF Finalize, FinalStatus
  <2>3. result = "succeeded" => hasId
    BY DEF FinalStatus, CallInv, Sensible
  <2>4. FinalizeCharge(c, result, hasId)
    BY <1>2 DEF Finalize
  <2> HIDE DEF result, hasId
  <2> QED
    BY <2>1, <2>2, <2>3, <2>4, ChargeStepIsLedger DEF ChargeStep, ChargeMove
<1>3. CASE FinalizeThrown(c)
  BY <1>3, ChargeStepIsLedger DEF FinalizeThrown, ChargeStep, ChargeMove
<1>4. CASE \/ ReadInvoice(c) \/ CheckInFlight(c) \/ RefuseReservation(c)
           \/ SubmitReached(c) \/ SubmitLost(c) \/ CancelUnfinished(c)
  BY <1>4 DEF ReadInvoice, CheckInFlight, RefuseReservation, SubmitReached, SubmitLost,
     CancelUnfinished
<1> QED
  BY <1>1, <1>2, <1>3, <1>4 DEF CallStep

LEMMA HandlerStepIsLedger ==
    ASSUME CallInv, NEW c \in Charges, NEW k \in EventKind, HandlerStep(c, k)
    PROVE  LedgerNext \/ UNCHANGED ledgerVars
<1>1. CASE HandleAdopt(c, k)
  BY <1>1, ChargeStepIsLedger DEF HandleAdopt, ChargeStep, ChargeMove
<1>2. CASE HandleSync(c, k)
  <2>1. StatusOf(k) \in {"processing", "succeeded", "failed"}
    BY DEF StatusOf
  <2> QED
    BY <1>2, <2>1, ChargeStepIsLedger DEF HandleSync, ChargeStep, ChargeMove
<1>3. CASE HandleDispute(c, k)
  BY <1>3, ChargeStepIsLedger DEF HandleDispute, ChargeStep, ChargeMove
<1>4. CASE HandleRefund(c)
  <2>1. pay[c].amount \in Nat /\ pay[c].back \in Nat /\ Total \in Nat
    BY RowOf, LedgerAssumption DEF CallInv, ChargingTypeOK, Payments
  <2>2. SyncRefund(c, pay[c].amount) /\ pay[c].amount <= Total
    BY <1>4 DEF HandleRefund, CallInv, AmountsInv, Payments
  <2>3. pay[c].amount \in 1..Total
    BY <2>1, <2>2 DEF SyncRefund
  <2> QED
    BY <2>2, <2>3, ChargeStepIsLedger DEF ChargeStep, ChargeMove
<1>5. CASE ClaimEvent(c, k) \/ HandleRefused(c, k) \/ HandleIgnored(c, k)
  BY <1>5 DEF ClaimEvent, HandleRefused, HandleIgnored
<1> QED
  BY <1>1, <1>2, <1>3, <1>4, <1>5 DEF HandlerStep

LEMMA SweepStepIsLedger ==
    ASSUME CallInv, NEW c \in Charges, SweepStep(c)
    PROVE  LedgerNext \/ UNCHANGED ledgerVars
<1>1. CASE SweepAbsent(c)
  BY <1>1, ChargeStepIsLedger DEF SweepAbsent, ChargeStep, ChargeMove
<1>2. CASE SweepAdopt(c)
  BY <1>2, ChargeStepIsLedger DEF SweepAdopt, ChargeStep, ChargeMove
<1>3. CASE SweepSync(c)
  BY <1>3, ChargeStepIsLedger DEF SweepSync, Applying, ChargeStep, ChargeMove
<1>4. CASE Lookup(c) \/ SweepCancel(c) \/ SweepNothing(c)
  BY <1>4 DEF Lookup, SweepCancel, SweepNothing
<1> QED
  BY <1>1, <1>2, <1>3, <1>4 DEF SweepStep

LEMMA OthersStepIsLedger ==
    ASSUME OthersStep
    PROVE  LedgerNext
<1>1. CASE \E p \in Receipts, a \in 1..Total, o \in BOOLEAN : MarkPaid(p, a, o, FALSE)
  BY <1>1 DEF LedgerNext, OtherStep, ReceiptStep
<1>2. CASE \E r \in Remittances : CreateRemittance(r) \/ CancelRemittance(r)
  BY <1>2 DEF LedgerNext, OtherStep, RemittanceStep
<1>3. CASE BeginVoid \/ EndVoid \/ UndoVoid \/ DueDatePasses \/ SelectOverdue \/ WriteOverdue
  BY <1>3 DEF LedgerNext, OtherStep, InvoiceStep
<1> QED
  BY <1>1, <1>2, <1>3 DEF OthersStep

LEMMA StepIsLedger ==
    ASSUME CallInv, [Next]_vars
    PROVE  [LedgerNext]_ledgerVars
<1>1. ASSUME NEW c \in Charges, GatewayStep(c) \/ CrashStep(c)
      PROVE  UNCHANGED ledgerVars
  BY <1>1 DEF GatewayStep, Settles, Disputed, RefundedThere, CrashStep, CrashCall,
     CrashSweep, CrashHandler
<1>2. CASE UNCHANGED vars
  BY <1>2 DEF vars
<1> QED
  BY <1>1, <1>2, CallStepIsLedger, HandlerStepIsLedger, SweepStepIsLedger,
     OthersStepIsLedger DEF Next

-----------------------------------------------------------------------------
(* Types of the processes.                                                 *)

CallsFine == call \in [Charges -> CallRow] /\ \A c \in Charges : Sensible(c)
RestFine  == /\ gw \in [Charges -> GatewayState]
             /\ event \in [Charges -> [EventKind -> EventState]]
             /\ look \in [Charges -> LookState]
             /\ crashes \in Nat

(* A step of one call that writes a sensible row of it.                    *)
LEMMA WriteCall ==
    ASSUME CallsFine, NEW c \in Charges,
           NEW row \in CallRow, call' = [call EXCEPT ![c] = row],
           row.pc \in {"read", "checked"} => row.amount \in 1..Total,
           row.answer.result = "succeeded" => row.answer.id
    PROVE  CallsFine'
<1>1. call'[c] = row /\ \A d \in Charges \ {c} : call'[d] = call[d]
  BY DEF CallsFine
<1>2. call' \in [Charges -> CallRow]
  BY DEF CallsFine
<1>3. ASSUME NEW d \in Charges PROVE Sensible(d)'
  BY <1>1 DEF CallsFine, Sensible
<1> QED
  BY <1>2, <1>3 DEF CallsFine

LEMMA GotoFine ==
    ASSUME CallsFine, NEW c \in Charges,
           NEW pc \in {"idle", "read", "checked", "reserved", "answered", "done",
                      "crashed"},
           Goto(c, pc), pc \in {"read", "checked"} => call[c].amount \in 1..Total
    PROVE  CallsFine'
<1> DEFINE row == [call[c] EXCEPT !.pc = pc]
<1>1. call[c] \in CallRow /\ Sensible(c)
  BY DEF CallsFine
<1>2. row \in CallRow /\ row.pc = pc /\ row.amount = call[c].amount
      /\ row.answer = call[c].answer
  BY <1>1 DEF CallRow
<1>3. call' = [call EXCEPT ![c] = row]
  BY DEF Goto
<1> HIDE DEF row
<1> QED
  BY <1>1, <1>2, <1>3, WriteCall DEF Sensible

LEMMA AnsweredFine ==
    ASSUME CallsFine, NEW c \in Charges, NEW result \in AnswerKind, NEW id \in BOOLEAN,
           Answered(c, result, id), result = "succeeded" => id
    PROVE  CallsFine'
<1> DEFINE answer == [result |-> result, id |-> id]
           row    == [call[c] EXCEPT !.pc = "answered", !.answer = answer]
<1>1. call[c] \in CallRow
  BY DEF CallsFine
<1>2. answer \in [result : AnswerKind, id : BOOLEAN] /\ answer.result = result /\ answer.id = id
  OBVIOUS
<1>3. call' = [call EXCEPT ![c] = row]
  BY DEF Answered
<1> HIDE DEF answer
<1>4. row \in CallRow /\ row.pc = "answered" /\ row.answer = answer
  BY <1>1, <1>2 DEF CallRow
<1> HIDE DEF row
<1> QED
  BY <1>2, <1>3, <1>4, WriteCall

LEMMA EmitType ==
    ASSUME RestFine, NEW c \in Charges, NEW kinds, Emit(c, kinds)
    PROVE  event' \in [Charges -> [EventKind -> EventState]]
BY DEF RestFine, Emit, EventState

LEMMA MarkType ==
    ASSUME RestFine, NEW c \in Charges, NEW k \in EventKind,
           NEW state \in EventState, Mark(c, k, state)
    PROVE  event' \in [Charges -> [EventKind -> EventState]]
BY DEF RestFine, Mark

LEMMA CallStepFine ==
    ASSUME TypeOK, CallsFine, RestFine, NEW c \in Charges, CallStep(c)
    PROVE  CallsFine' /\ RestFine'
<1>a. call[c] \in CallRow /\ Sensible(c)
  BY DEF CallsFine
<1>1. CASE ReadInvoice(c)
  <2>1. PICK a \in 1..Outstanding :
            call' = [call EXCEPT ![c].pc = "read", ![c].amount = a]
    BY <1>1 DEF ReadInvoice
  <2>2. a \in 1..Total /\ a \in Nat
    BY LedgerAssumption DEF Outstanding, TypeOK, InvoiceRow
  <2> DEFINE row == [call[c] EXCEPT !.pc = "read", !.amount = a]
  <2>3. row \in CallRow /\ row.amount = a /\ row.answer = call[c].answer
    BY <1>a, <2>2 DEF CallRow
  <2>4. call' = [call EXCEPT ![c] = row]
    BY <2>1
  <2> HIDE DEF row
  <2>5. CallsFine'
    BY <1>a, <2>2, <2>3, <2>4, WriteCall DEF Sensible
  <2> QED
    BY <1>1, <2>5 DEF ReadInvoice, RestFine
<1>2. CASE CheckInFlight(c)
  <2>1. CallsFine'
    BY <1>a, <1>2, GotoFine DEF CheckInFlight, At, Sensible
  <2> QED
    BY <1>2, <2>1 DEF CheckInFlight, RestFine
<1>3. CASE Reserve(c)
  BY <1>3, GotoFine DEF Reserve, RestFine
<1>4. CASE RefuseReservation(c)
  BY <1>4, GotoFine DEF RefuseReservation, RestFine
<1>5. CASE SubmitReached(c)
  <2>1. PICK state \in Outcomes(c) :
            /\ gw' = [gw EXCEPT ![c] = state]
            /\ Emit(c, EventsOn(c, state))
            /\ \/ Answered(c, state, TRUE)
               \/ \E id \in {FALSE, ErrorIds} : Answered(c, "unknown", id)
               \/ Answered(c, "failed", FALSE)
    BY <1>5 DEF SubmitReached
  <2>2. state \in AnswerKind /\ state \in GatewayState
    BY DEF Outcomes, AnswerKind, GatewayState
  <2>3. CallsFine'
    BY <2>1, <2>2, ChargingAssumption, AnsweredFine DEF AnswerKind
  <2>4. event' \in [Charges -> [EventKind -> EventState]]
    BY <2>1, EmitType
  <2> QED
    BY <1>5, <2>1, <2>2, <2>3, <2>4 DEF SubmitReached, RestFine
<1>6. CASE SubmitLost(c)
  <2>1. CallsFine'
    BY <1>6, AnsweredFine DEF SubmitLost, AnswerKind
  <2> QED
    BY <1>6, <2>1 DEF SubmitLost, RestFine
<1>7. CASE CancelUnfinished(c)
  <2> DEFINE row == [call[c] EXCEPT !.answer.result = "failed"]
  <2>1. row \in CallRow /\ row.pc = call[c].pc /\ row.answer.result = "failed"
    BY <1>a DEF CallRow, AnswerKind
  <2>2. call' = [call EXCEPT ![c] = row] /\ row.pc = "answered"
    BY <1>7, <2>1 DEF CancelUnfinished, At
  <2> HIDE DEF row
  <2>3. CallsFine'
    BY <2>1, <2>2, WriteCall
  <2>4. gw' \in [Charges -> GatewayState]
    BY <1>7 DEF CancelUnfinished, RestFine, GatewayState
  <2> QED
    BY <1>7, <2>3, <2>4 DEF CancelUnfinished, RestFine
<1>8. CASE Finalize(c)
  BY <1>8, GotoFine DEF Finalize, RestFine
<1>9. CASE FinalizeThrown(c)
  BY <1>9, GotoFine DEF FinalizeThrown, RestFine
<1> QED
  BY <1>1, <1>2, <1>3, <1>4, <1>5, <1>6, <1>7, <1>8, <1>9 DEF CallStep

LEMMA GatewayStepFine ==
    ASSUME CallsFine, RestFine, NEW c \in Charges, GatewayStep(c)
    PROVE  CallsFine' /\ RestFine'
<1>1. PICK state, kinds :
          state \in GatewayState /\ gw' = [gw EXCEPT ![c] = state] /\ Emit(c, kinds)
  BY DEF GatewayStep, Settles, Disputed, RefundedThere, GatewayState
<1>2. event' \in [Charges -> [EventKind -> EventState]]
  BY <1>1, EmitType
<1>3. UNCHANGED <<ledgerVars, call, look, crashes>>
  BY DEF GatewayStep, Settles, Disputed, RefundedThere
<1> QED
  BY <1>1, <1>2, <1>3 DEF CallsFine, RestFine, Sensible

LEMMA HandlerStepFine ==
    ASSUME CallsFine, RestFine, NEW c \in Charges, NEW k \in EventKind, HandlerStep(c, k)
    PROVE  CallsFine' /\ RestFine'
<1>1. UNCHANGED <<call, gw, look, crashes>>
  BY DEF HandlerStep, ClaimEvent, HandleAdopt, HandleSync, HandleRefused, HandleDispute,
     HandleIgnored, HandleRefund, chargingVars
<1>2. event' \in [Charges -> [EventKind -> EventState]]
  <2>1. CASE UNCHANGED event
    BY <2>1 DEF RestFine
  <2>2. CASE \E j \in EventKind, state \in EventState : Mark(c, j, state)
    BY <2>2, MarkType
  <2> QED
    BY <2>1, <2>2 DEF HandlerStep, ClaimEvent, HandleAdopt, HandleSync, HandleRefused,
       HandleDispute, HandleIgnored, HandleRefund, chargingVars, EventState, EventKind
<1> QED
  BY <1>1, <1>2 DEF CallsFine, RestFine, Sensible

LEMMA SweepStepFine ==
    ASSUME CallsFine, RestFine, NEW c \in Charges, SweepStep(c)
    PROVE  CallsFine' /\ RestFine'
<1>1. UNCHANGED <<call, event, crashes>>
  BY DEF SweepStep, Lookup, SweepAbsent, SweepCancel, SweepAdopt, SweepSync, SweepNothing,
     chargingVars
<1>2. gw' \in [Charges -> GatewayState]
  BY DEF RestFine, GatewayState, SweepStep, Lookup, SweepAbsent, SweepCancel, SweepAdopt,
     SweepSync, SweepNothing, chargingVars
<1>3. look' \in [Charges -> LookState]
  <2>1. CASE UNCHANGED look
    BY <2>1 DEF RestFine
  <2>2. CASE \E state \in LookState : look' = [look EXCEPT ![c] = state]
    BY <2>2 DEF RestFine
  <2>3. CASE Lookup(c)
    <3>1. gw[c] \in GatewayState
      BY DEF RestFine
    <3> QED
      BY <2>2, <2>3, <3>1 DEF Lookup, GatewayState, LookState
  <2> QED
    BY <2>1, <2>2, <2>3 DEF SweepStep, SweepAbsent, SweepCancel, SweepAdopt, SweepSync,
       SweepNothing, Forget, chargingVars, LookState
<1> QED
  BY <1>1, <1>2, <1>3 DEF CallsFine, RestFine, Sensible

LEMMA CrashStepFine ==
    ASSUME CallsFine, RestFine, NEW c \in Charges, CrashStep(c)
    PROVE  CallsFine' /\ RestFine'
<1>0. crashes' \in Nat
  BY DEF RestFine, CrashStep, CrashCall, CrashSweep, CrashHandler, Crash
<1>1. CASE CrashCall(c)
  <2>1. CallsFine'
    BY <1>1, GotoFine DEF CrashCall
  <2> QED
    BY <1>0, <1>1, <2>1 DEF CrashCall, RestFine
<1>2. CASE CrashSweep(c)
  BY <1>0, <1>2 DEF CrashSweep, Forget, LookState, CallsFine, RestFine, Sensible
<1>3. ASSUME NEW k \in EventKind, CrashHandler(c, k) PROVE CallsFine' /\ RestFine'
  <2>1. event' \in [Charges -> [EventKind -> EventState]]
    BY <1>3, MarkType DEF CrashHandler, EventState
  <2> QED
    BY <1>0, <1>3, <2>1 DEF CrashHandler, CallsFine, RestFine, Sensible
<1> QED
  BY <1>1, <1>2, <1>3 DEF CrashStep

LEMMA StepCallInv ==
    ASSUME CallInv, [Next]_vars
    PROVE  CallInv'
<1>1. TypeOK /\ AmountsInv /\ CallsFine /\ RestFine
  BY DEF CallInv, ChargingTypeOK, CallsFine, RestFine
<1>2. TypeOK' /\ AmountsInv'
  BY <1>1, StepIsLedger, StepType, StepAmounts
<1>3. ASSUME OthersStep \/ UNCHANGED vars PROVE CallsFine' /\ RestFine'
  BY <1>1, <1>3 DEF OthersStep, vars, chargingVars, CallsFine, RestFine, Sensible
<1>4. CallsFine' /\ RestFine'
  BY <1>1, <1>3, CallStepFine, GatewayStepFine, HandlerStepFine, SweepStepFine,
     CrashStepFine DEF Next
<1> QED
  BY <1>2, <1>4 DEF CallInv, ChargingTypeOK, CallsFine, RestFine

LEMMA InitCallInv == ChargingInit => CallInv
<1> SUFFICES ASSUME ChargingInit PROVE CallInv
  OBVIOUS
<1>1. TypeOK
  BY InitType DEF ChargingInit
<1>2. AmountsInv
  BY LedgerAssumption DEF ChargingInit, Init, AmountsInv, NoPayment, NewPayment
<1>3. [pc |-> "idle", amount |-> 0, answer |-> NoAnswer] \in CallRow
  BY DEF CallRow, NoAnswer, AnswerKind
<1>4. ChargingTypeOK
  BY <1>1, <1>3 DEF ChargingInit, ChargingTypeOK, GatewayState, EventState, LookState
<1>5. \A c \in Charges : Sensible(c)
  BY DEF ChargingInit, Sensible, NoAnswer
<1> QED
  BY <1>2, <1>4, <1>5 DEF CallInv

(* The processes of charging keep the types of the rows and of their own   *)
(* state.                                                                  *)
THEOREM ChargingTypes == Spec => []ChargingTypeOK
<1>1. CallInv => ChargingTypeOK
  BY DEF CallInv
<1> QED
  BY <1>1, InitCallInv, StepCallInv, PTL DEF Spec

(* Whatever the calls, the gateways, the webhooks, the sweep, the staff    *)
(* and the crashes do, the rows of the invoice only move by transactions   *)
(* of InvoiceLedger.                                                       *)
THEOREM ChargingIsLedger == Spec => LedgerSpec
<1>1. ChargingInit => Init
  BY DEF ChargingInit
<1> QED
  BY <1>1, InitCallInv, StepCallInv, StepIsLedger, PTL DEF Spec, LedgerSpec

(* What the ledger promises of any order of its transactions holds of the  *)
(* processes of charging.                                                  *)
THEOREM ChargingPaidMeansCovered == Spec => []PaidMeansCovered
BY ChargingIsLedger, LedgerPaidMeansCovered, PTL

THEOREM ChargingOneLiveCharge == Spec => []OneLiveCharge
BY ChargingIsLedger, LedgerOneLiveCharge, PTL

(* With webhooks, the sweep and crashed requests around them, refunds from *)
(* the panel and from the gateway's dashboard never record more than the   *)
(* invoice's total, nor more than a gateway payment collected.             *)
THEOREM ChargingRefundsBounded == Spec => []RefundsBounded
BY ChargingIsLedger, LedgerRefundsBounded, PTL

(* None of them moves amountPaid without the one payment it belongs to:    *)
(* phase 3, a webhook or the sweep, an overtaken step included.            *)
THEOREM ChargingPaidMovesWithOnePayment == Spec => PaidMovesWithOnePayment
BY ChargingIsLedger, LedgerPaidMovesWithOnePayment, PTL

-----------------------------------------------------------------------------
(* The gateway, the events, the sweep and the rows agree.                  *)

(* A step of one charge leaves what belongs to the others as it is.        *)
KeepsOthers(c) ==
    \A d \in Charges \ {c} :
        /\ call'[d] = call[d] /\ gw'[d] = gw[d] /\ event'[d] = event[d]
        /\ look'[d] = look[d] /\ pay'[d] = pay[d]

LEMMA SameAgrees ==
    ASSUME NEW d \in Charges, Agrees(d), call'[d] = call[d], gw'[d] = gw[d],
           event'[d] = event[d], look'[d] = look[d], pay'[d] = pay[d]
    PROVE  Agrees(d)'
BY DEF Agrees, AnswerAgrees, EventsAgree, SweepAgrees, RowAgrees, AtGateway

LEMMA OneMoves ==
    ASSUME GatewayInv, NEW c \in Charges, KeepsOthers(c), Agrees(c)'
    PROVE  GatewayInv'
BY SameAgrees DEF GatewayInv, KeepsOthers

(* What each transaction does to the status of the charge's payment.       *)
LEMMA RowStatus ==
    ASSUME TypeOK, NEW c \in Charges
    PROVE  /\ \A a : ReserveCharge(c, a) => pay'[c].status = "processing"
           /\ \A result, hasId : FinalizeCharge(c, result, hasId) =>
                  pay'[c].status = IF pay[c].status = "processing" THEN result
                                                                  ELSE pay[c].status
           /\ FailCharge(c) \/ CloseReservation(c) => pay'[c].status = "failed"
           /\ AdoptCharge(c) => pay'[c].status = pay[c].status
           /\ \A status : SyncCharge(c, status) => pay'[c].status = status
           /\ \A total : SyncRefund(c, total) => pay'[c].status \in Settled
           /\ SyncDispute(c) => pay'[c].status = "failed"
<1>0. c \in DOMAIN pay /\ pay[c] \in PaymentRow /\ pay \in [Payments -> PaymentRow]
  BY DEF TypeOK, Payments
<1>1. ASSUME NEW a, ReserveCharge(c, a) PROVE pay'[c].status = "processing"
  BY <1>0, <1>1 DEF ReserveCharge, NewPayment
<1>2. ASSUME NEW result, NEW hasId, FinalizeCharge(c, result, hasId)
      PROVE pay'[c].status = IF pay[c].status = "processing" THEN result
                                                            ELSE pay[c].status
  BY <1>0, <1>2 DEF FinalizeCharge, PaymentRow
<1>3. ASSUME FailCharge(c) \/ CloseReservation(c) PROVE pay'[c].status = "failed"
  BY <1>0, <1>3 DEF FailCharge, CloseReservation, PaymentRow
<1>4. ASSUME AdoptCharge(c) PROVE pay'[c].status = pay[c].status
  BY <1>0, <1>4 DEF AdoptCharge, PaymentRow
<1>5. ASSUME NEW status, SyncCharge(c, status) PROVE pay'[c].status = status
  BY <1>0, <1>5 DEF SyncCharge, PaymentRow
<1>6. ASSUME NEW total, SyncRefund(c, total) PROVE pay'[c].status \in Settled
  <2> DEFINE st == RefundStatus(total, pay[c].amount)
  <2>1. st \in Settled
    BY DEF RefundStatus, Settled
  <2>2. pay' = [pay EXCEPT ![c].back = total, ![c].status = st]
    BY <1>6 DEF SyncRefund
  <2> HIDE DEF st
  <2> QED
    BY <1>0, <2>1, <2>2 DEF PaymentRow
<1>7. ASSUME SyncDispute(c) PROVE pay'[c].status = "failed"
  BY <1>0, <1>7 DEF SyncDispute, PaymentRow
<1> QED
  BY <1>1, <1>2, <1>3, <1>4, <1>5, <1>6, <1>7

(* Every transaction of a charge writes its own payment row only.          *)
LEMMA RowFrame ==
    ASSUME TypeOK, NEW c \in Charges, NEW d \in Charges \ {c},
           \/ \E a : ReserveCharge(c, a)
           \/ \E result, hasId : FinalizeCharge(c, result, hasId)
           \/ FailCharge(c) \/ CloseReservation(c) \/ AdoptCharge(c)
           \/ \E status : SyncCharge(c, status)
           \/ \E total : SyncRefund(c, total)
           \/ SyncDispute(c)
           \/ UNCHANGED pay
    PROVE  pay'[d] = pay[d]
BY DEF TypeOK, Payments, ReserveCharge, FinalizeCharge, FailCharge, CloseReservation,
   AdoptCharge, SyncCharge, SyncRefund, SyncDispute

LEMMA CallFrame ==
    ASSUME CallInv, NEW c \in Charges, CallStep(c)
    PROVE  KeepsOthers(c)
<1>1. \A d \in Charges \ {c} : pay'[d] = pay[d]
  BY RowFrame DEF CallInv, ChargingTypeOK, CallStep, ReadInvoice, CheckInFlight, Reserve,
     RefuseReservation, SubmitReached, SubmitLost, CancelUnfinished, Finalize,
     FinalizeThrown, ledgerVars
<1>2. \A d \in Charges \ {c} : call'[d] = call[d] /\ gw'[d] = gw[d] /\ event'[d] = event[d]
  BY DEF CallInv, ChargingTypeOK, CallStep, ReadInvoice, CheckInFlight, Reserve,
     RefuseReservation, SubmitReached, SubmitLost, CancelUnfinished, Finalize,
     FinalizeThrown, Goto, Answered, Emit
<1>3. UNCHANGED look
  BY DEF CallStep, ReadInvoice, CheckInFlight, Reserve, RefuseReservation, SubmitReached,
     SubmitLost, CancelUnfinished, Finalize, FinalizeThrown
<1> QED
  BY <1>1, <1>2, <1>3 DEF KeepsOthers

LEMMA GatewayFrame ==
    ASSUME CallInv, NEW c \in Charges, GatewayStep(c)
    PROVE  KeepsOthers(c)
BY DEF CallInv, ChargingTypeOK, GatewayStep, Settles, Disputed, RefundedThere, Emit,
   ledgerVars, KeepsOthers

LEMMA HandlerFrame ==
    ASSUME CallInv, NEW c \in Charges, NEW k \in EventKind, HandlerStep(c, k)
    PROVE  KeepsOthers(c)
<1>1. \A d \in Charges \ {c} : pay'[d] = pay[d]
  BY RowFrame DEF CallInv, ChargingTypeOK, HandlerStep, ClaimEvent, HandleAdopt,
     HandleSync, HandleRefused, HandleDispute, HandleIgnored, HandleRefund, ledgerVars
<1>2. \A d \in Charges \ {c} : event'[d] = event[d]
  BY DEF CallInv, ChargingTypeOK, HandlerStep, ClaimEvent, HandleAdopt, HandleSync,
     HandleRefused, HandleDispute, HandleIgnored, HandleRefund, Mark, chargingVars
<1>3. UNCHANGED <<call, gw, look>>
  BY DEF HandlerStep, ClaimEvent, HandleAdopt, HandleSync, HandleRefused, HandleDispute,
     HandleIgnored, HandleRefund, chargingVars
<1> QED
  BY <1>1, <1>2, <1>3 DEF KeepsOthers

LEMMA SweepFrame ==
    ASSUME CallInv, NEW c \in Charges, SweepStep(c)
    PROVE  KeepsOthers(c)
<1>1. \A d \in Charges \ {c} : pay'[d] = pay[d]
  BY RowFrame DEF CallInv, ChargingTypeOK, SweepStep, Lookup, SweepAbsent, SweepCancel,
     SweepAdopt, SweepSync, SweepNothing, ledgerVars
<1>2. \A d \in Charges \ {c} : look'[d] = look[d] /\ gw'[d] = gw[d]
  BY DEF CallInv, ChargingTypeOK, SweepStep, Lookup, SweepAbsent, SweepCancel, SweepAdopt,
     SweepSync, SweepNothing, Forget, chargingVars
<1>3. UNCHANGED <<call, event>>
  BY DEF SweepStep, Lookup, SweepAbsent, SweepCancel, SweepAdopt, SweepSync, SweepNothing,
     chargingVars
<1> QED
  BY <1>1, <1>2, <1>3 DEF KeepsOthers

LEMMA CrashFrame ==
    ASSUME CallInv, NEW c \in Charges, CrashStep(c)
    PROVE  KeepsOthers(c)
BY DEF CallInv, ChargingTypeOK, CrashStep, CrashCall, CrashSweep, CrashHandler, Goto,
   Forget, Mark, ledgerVars, KeepsOthers

LEMMA CallAgrees ==
    ASSUME CallInv, NEW c \in Charges, Agrees(c), CallStep(c)
    PROVE  Agrees(c)'
<1>a. TypeOK /\ call[c] \in CallRow /\ gw[c] \in GatewayState /\ look[c] \in LookState
      /\ event[c] \in [EventKind -> EventState]
  BY DEF CallInv, ChargingTypeOK
<1>b. call \in [Charges -> CallRow] /\ gw \in [Charges -> GatewayState]
      /\ event \in [Charges -> [EventKind -> EventState]]
  BY DEF CallInv, ChargingTypeOK
<1> USE DEF Agrees, AnswerAgrees, EventsAgree, SweepAgrees, RowAgrees, AtGateway, Was
<1>1. CASE ReadInvoice(c) \/ CheckInFlight(c) \/ RefuseReservation(c)
  <2>1. UNCHANGED <<gw, event, look, pay>>
    BY <1>1 DEF ReadInvoice, CheckInFlight, RefuseReservation, ledgerVars
  <2>2. /\ call[c].pc \in {"idle", "read", "checked"}
        /\ call'[c].pc \in {"idle", "read", "checked"}
    BY <1>1, <1>a, <1>b DEF ReadInvoice, CheckInFlight, RefuseReservation, At, Goto, CallRow
  <2> QED
    BY <2>1, <2>2
<1>2. CASE Reserve(c)
  <2>1. UNCHANGED <<gw, event, look>> /\ pay'[c].status = "processing"
    BY <1>2, <1>a, RowStatus DEF Reserve
  <2>2. call[c].pc = "checked" /\ call'[c].pc = "reserved"
    BY <1>2, <1>a, <1>b DEF Reserve, At, Goto, CallRow
  <2> QED
    BY <2>1, <2>2 DEF Settled
<1>3. CASE SubmitReached(c)
  <2>0. call[c].pc = "reserved" /\ gw[c] = "none" /\ pay[c].status = "processing"
        /\ look[c] = "none"
    BY <1>3 DEF SubmitReached, At
  <2>1. PICK state \in Outcomes(c) :
            /\ gw' = [gw EXCEPT ![c] = state]
            /\ Emit(c, EventsOn(c, state))
            /\ \/ Answered(c, state, TRUE)
               \/ Gateway[c] = "stripe" /\ \E id \in {FALSE, ErrorIds} : Answered(c, "unknown", id)
               \/ Gateway[c] = "gocardless" /\ Answered(c, "failed", FALSE)
    BY <1>3 DEF SubmitReached
  <2>2. gw'[c] = state
    BY <1>b, <2>1
  <2>3. /\ call'[c].pc = "answered"
        /\ \/ call'[c].answer.result = state
           \/ call'[c].answer.result = "unknown"
           \/ Gateway[c] = "gocardless" /\ call'[c].answer.result = "failed"
    BY <1>a, <1>b, <2>1 DEF Answered, CallRow
  <2>4. UNCHANGED <<pay, look>>
    BY <1>3 DEF SubmitReached, ledgerVars
  <2>5. \A k \in EventKind : event[c][k] = "none"
    BY <2>0 DEF EventKind
  <2>6. \A k \in EventKind : event'[c][k] # "none" => k \in EventsOn(c, state)
    BY <1>b, <2>1, <2>5 DEF Emit
  <2>7. EventsAgree(c)'
    BY <2>2, <2>6 DEF EventsOn, SuccessEvents, EventKind
  <2>8. state \in {"processing", "succeeded", "failed", "requires_action"}
    BY DEF Outcomes
  <2>9. AnswerAgrees(c)'
    BY <2>2, <2>3, <2>8
  <2> QED
    BY <2>0, <2>2, <2>3, <2>4, <2>7, <2>9 DEF Live, Settled
<1>4. CASE SubmitLost(c)
  <2>1. UNCHANGED <<gw, event, look, pay>>
    BY <1>4 DEF SubmitLost, ledgerVars
  <2>2. call[c].pc = "reserved" /\ gw[c] = "none"
    BY <1>4 DEF SubmitLost, At
  <2>3. /\ call'[c].pc = "answered"
        /\ \/ call'[c].answer.result \in {"unknown", "thrown"}
           \/ Gateway[c] = "gocardless" /\ call'[c].answer.result = "failed"
    BY <1>4, <1>a, <1>b DEF SubmitLost, Answered, CallRow
  <2> QED
    BY <2>1, <2>2, <2>3
<1>5. CASE CancelUnfinished(c)
  <2>1. UNCHANGED <<event, look, pay>>
    BY <1>5 DEF CancelUnfinished, ledgerVars
  <2>2. call[c].pc = "answered" /\ gw[c] = "requires_action"
    BY <1>5 DEF CancelUnfinished, At
  <2>3. gw'[c] \in {"failed", "requires_action"}
    BY <1>5, <1>b, <2>2 DEF CancelUnfinished
  <2>4. call'[c].pc = "answered" /\ call'[c].answer.result = "failed"
    BY <1>5, <1>a, <1>b, <2>2 DEF CancelUnfinished, CallRow
  <2> QED
    BY <2>1, <2>2, <2>3, <2>4
<1>6. CASE Finalize(c)
  <2>1. UNCHANGED <<gw, event, look>>
    BY <1>6 DEF Finalize
  <2>2. /\ call[c].pc = "answered" /\ call'[c].pc = "done"
        /\ call[c].answer.result \in {"succeeded", "processing", "unknown", "failed"}
    BY <1>6, <1>a, <1>b DEF Finalize, At, Goto, CallRow
  <2>3. pay'[c].status = IF pay[c].status = "processing"
                         THEN FinalStatus(call[c].answer.result) ELSE pay[c].status
    BY <1>6, <1>a, RowStatus DEF Finalize
  <2> QED
    BY <2>1, <2>2, <2>3 DEF FinalStatus, Live, Settled
<1>7. CASE FinalizeThrown(c)
  <2>1. UNCHANGED <<gw, event, look>> /\ pay'[c].status = "failed"
    BY <1>7, <1>a, RowStatus DEF FinalizeThrown
  <2>2. call[c].pc = "answered" /\ call[c].answer.result = "thrown" /\ call'[c].pc = "done"
    BY <1>7, <1>a, <1>b DEF FinalizeThrown, At, Goto, CallRow
  <2> QED
    BY <2>1, <2>2 DEF Settled
<1> QED
  BY <1>1, <1>2, <1>3, <1>4, <1>5, <1>6, <1>7 DEF CallStep

LEMMA GatewayAgrees ==
    ASSUME CallInv, NEW c \in Charges, Agrees(c), GatewayStep(c)
    PROVE  Agrees(c)'
<1>a. gw \in [Charges -> GatewayState] /\ event \in [Charges -> [EventKind -> EventState]]
  BY DEF CallInv, ChargingTypeOK
<1>b. UNCHANGED <<pay, call, look>>
  BY DEF GatewayStep, Settles, Disputed, RefundedThere, ledgerVars
<1>c. ASSUME NEW kinds, Emit(c, kinds)
      PROVE \A k \in EventKind : event'[c][k] # "none" => k \in kinds \/ event[c][k] # "none"
  BY <1>a, <1>c DEF Emit
<1> USE DEF Agrees, AnswerAgrees, EventsAgree, SweepAgrees, RowAgrees, AtGateway, Was
<1>1. CASE Settles(c)
  <2>1. PICK state \in {"succeeded", "failed"} :
            gw' = [gw EXCEPT ![c] = state] /\ Emit(c, EventsOn(c, state))
    BY <1>1 DEF Settles
  <2>2. gw[c] = "processing" /\ gw'[c] = state
    BY <1>1, <1>a, <2>1 DEF Settles
  <2>3. \A k \in EventKind : event'[c][k] # "none" => k \in EventsOn(c, state)
    BY <1>c, <2>1, <2>2 DEF EventKind
  <2>4. EventsAgree(c)'
    BY <2>2, <2>3 DEF EventsOn, SuccessEvents, EventKind
  <2> QED
    BY <1>b, <2>2, <2>4 DEF Live
<1>2. CASE Disputed(c)
  <2>1. gw[c] = "succeeded" /\ gw'[c] = "reversed"
    BY <1>2, <1>a DEF Disputed, Captured
  <2>2. \A k \in EventKind : event'[c][k] # "none" => k = "disputed" \/ event[c][k] # "none"
    BY <1>2, <1>c DEF Disputed
  <2> QED
    BY <1>b, <2>1, <2>2 DEF EventKind
<1>3. CASE RefundedThere(c)
  <2>1. gw[c] = "succeeded" /\ gw'[c] = "refunded"
    BY <1>3, <1>a DEF RefundedThere, Captured
  <2>2. \A k \in EventKind : event'[c][k] # "none" => k = "refunded" \/ event[c][k] # "none"
    BY <1>3, <1>c DEF RefundedThere
  <2> QED
    BY <1>b, <2>1, <2>2 DEF EventKind
<1> QED
  BY <1>1, <1>2, <1>3 DEF GatewayStep

LEMMA HandlerAgrees ==
    ASSUME CallInv, NEW c \in Charges, NEW k \in EventKind, Agrees(c), HandlerStep(c, k)
    PROVE  Agrees(c)'
<1>a. TypeOK /\ event \in [Charges -> [EventKind -> EventState]]
  BY DEF CallInv, ChargingTypeOK
<1>b. UNCHANGED <<call, gw, look>>
  BY DEF HandlerStep, ClaimEvent, HandleAdopt, HandleSync, HandleRefused, HandleDispute,
     HandleIgnored, HandleRefund, chargingVars
<1>c. event[c][k] # "none" \/ UNCHANGED event
  BY DEF HandlerStep, ClaimEvent, HandleAdopt, HandleSync, HandleRefused, HandleDispute,
     HandleIgnored, HandleRefund, Claimed, chargingVars
<1>d. \A j \in EventKind : event'[c][j] # "none" => event[c][j] # "none"
  BY <1>a, <1>c DEF HandlerStep, ClaimEvent, HandleAdopt, HandleSync, HandleRefused,
     HandleDispute, HandleIgnored, HandleRefund, Mark, chargingVars
<1> USE DEF Agrees, AnswerAgrees, EventsAgree, SweepAgrees, RowAgrees, AtGateway, Was
<1>e. EventsAgree(c)' /\ SweepAgrees(c)'
  BY <1>b, <1>d DEF EventKind
<1>1. CASE pay'[c].status = pay[c].status
  BY <1>b, <1>e, <1>1
<1>2. CASE HandleSync(c, k)
  <2>1. pay'[c].status = StatusOf(k)
    BY <1>2, <1>a, RowStatus DEF HandleSync
  <2>2. event[c][k] # "none" /\ k \in {"succeeded", "paid_out", "failed"}
    BY <1>2 DEF HandleSync, Claimed
  <2> QED
    BY <1>b, <1>e, <2>1, <2>2 DEF StatusOf, Live, Settled
<1>3. CASE HandleDispute(c, k)
  <2>1. pay'[c].status = "failed"
    BY <1>3, <1>a, RowStatus DEF HandleDispute
  <2>2. event[c][k] # "none" /\ k \in {"disputed", "failed"}
    BY <1>3 DEF HandleDispute, Claimed
  <2> QED
    BY <1>b, <1>e, <2>1, <2>2 DEF Settled
<1>4. CASE k = "refunded" /\ HandleRefund(c)
  <2>1. pay'[c].status \in Settled
    BY <1>4, <1>a, RowStatus DEF HandleRefund
  <2>2. gw[c] = "refunded"
    BY <1>4 DEF HandleRefund, Claimed
  <2> QED
    BY <1>b, <1>e, <2>1, <2>2
<1>5. CASE ClaimEvent(c, k) \/ HandleRefused(c, k) \/ HandleIgnored(c, k)
  BY <1>1, <1>5 DEF ClaimEvent, HandleRefused, HandleIgnored, ledgerVars
<1>6. CASE HandleAdopt(c, k)
  BY <1>1, <1>6, <1>a, RowStatus DEF HandleAdopt
<1> QED
  BY <1>2, <1>3, <1>4, <1>5, <1>6 DEF HandlerStep

LEMMA SweepStepAgrees ==
    ASSUME CallInv, NEW c \in Charges, Agrees(c), SweepStep(c)
    PROVE  Agrees(c)'
<1>a. TypeOK /\ gw[c] \in GatewayState /\ look[c] \in LookState
  BY DEF CallInv, ChargingTypeOK
<1>b. UNCHANGED <<call, event>>
  BY DEF SweepStep, Lookup, SweepAbsent, SweepCancel, SweepAdopt, SweepSync, SweepNothing,
     chargingVars
<1>c. gw \in [Charges -> GatewayState] /\ look \in [Charges -> LookState]
  BY DEF CallInv, ChargingTypeOK
<1> USE DEF Agrees, AnswerAgrees, EventsAgree, SweepAgrees, RowAgrees, AtGateway, Was
<1>1. CASE Lookup(c)
  <2>1. UNCHANGED <<gw, pay>> /\ call[c].pc \in {"done", "crashed"}
    BY <1>1 DEF Lookup, Stale, ledgerVars
  <2>2. look'[c] = CASE gw[c] = "none"                     -> "absent"
                     [] gw[c] \in {"reversed", "refunded"} -> "succeeded"
                     [] OTHER                              -> gw[c]
    BY <1>1, <1>c DEF Lookup
  <2>3. SweepAgrees(c)'
    BY <1>a, <1>b, <2>1, <2>2 DEF GatewayState
  <2> QED
    BY <1>b, <2>1, <2>3
<1>2. CASE SweepAbsent(c)
  <2>1. UNCHANGED gw /\ gw[c] = "none" /\ look'[c] = "none" /\ call[c].pc \in {"done", "crashed"}
    BY <1>2, <1>c DEF SweepAbsent, Forget
  <2>2. pay'[c].status = "failed" \/ pay' = pay
    BY <1>2, <1>a, RowStatus DEF SweepAbsent, ledgerVars
  <2> QED
    BY <1>b, <2>1, <2>2 DEF Settled
<1>3. CASE SweepCancel(c)
  <2>1. UNCHANGED pay /\ call[c].pc \in {"done", "crashed"}
        /\ gw[c] \in {"failed", "requires_action"}
    BY <1>3 DEF SweepCancel, ledgerVars
  <2>2. look'[c] = "failed" /\ gw'[c] \in {gw[c], "failed"}
    BY <1>3, <1>c DEF SweepCancel
  <2>3. gw'[c] \in {"failed", "requires_action"}
    BY <2>1, <2>2
  <2>4. event[c]["failed"] # "none" => gw'[c] = "failed"
    BY <2>1, <2>2
  <2> QED
    BY <1>b, <2>1, <2>2, <2>3, <2>4
<1>4. CASE SweepAdopt(c)
  <2>1. UNCHANGED <<gw, look>> /\ pay'[c].status = pay[c].status
    BY <1>4, <1>a, RowStatus DEF SweepAdopt, chargingVars
  <2> QED
    BY <1>b, <2>1
<1>5. CASE SweepSync(c)
  <2>1. UNCHANGED gw /\ look'[c] = "none" /\ pay'[c].status = look[c]
    BY <1>5, <1>a, <1>c, RowStatus DEF SweepSync, Forget
  <2>2. look[c] \in {"processing", "succeeded", "failed"} /\ call[c].pc \in {"done", "crashed"}
    BY <1>5 DEF SweepSync, Applying
  <2> QED
    BY <1>b, <2>1, <2>2 DEF Live, Settled
<1>6. CASE SweepNothing(c)
  <2>1. UNCHANGED <<gw, pay>> /\ look'[c] = "none"
    BY <1>6, <1>c DEF SweepNothing, Forget, ledgerVars
  <2> QED
    BY <1>b, <2>1
<1> QED
  BY <1>1, <1>2, <1>3, <1>4, <1>5, <1>6 DEF SweepStep

LEMMA CrashAgrees ==
    ASSUME CallInv, NEW c \in Charges, Agrees(c), CrashStep(c)
    PROVE  Agrees(c)'
<1>a. call[c] \in CallRow /\ call \in [Charges -> CallRow] /\ look \in [Charges -> LookState]
      /\ event \in [Charges -> [EventKind -> EventState]]
  BY DEF CallInv, ChargingTypeOK
<1>b. UNCHANGED <<gw, pay>>
  BY DEF CrashStep, CrashCall, CrashSweep, CrashHandler, ledgerVars
<1> USE DEF Agrees, AnswerAgrees, EventsAgree, SweepAgrees, RowAgrees, AtGateway, Was
<1>1. CASE CrashCall(c)
  <2>1. call'[c].pc = "crashed" /\ UNCHANGED <<event, look>>
    BY <1>1, <1>a DEF CrashCall, Goto, CallRow
  <2> QED
    BY <1>b, <2>1
<1>2. CASE CrashSweep(c)
  <2>1. look'[c] = "none" /\ UNCHANGED <<event, call>>
    BY <1>2, <1>a DEF CrashSweep, Forget
  <2> QED
    BY <1>b, <2>1
<1>3. ASSUME NEW k \in EventKind, CrashHandler(c, k) PROVE Agrees(c)'
  <2>1. UNCHANGED <<call, look>>
        /\ \A j \in EventKind : event'[c][j] # "none" => event[c][j] # "none"
    BY <1>3, <1>a DEF CrashHandler, Claimed, Mark
  <2> QED
    BY <1>b, <2>1 DEF EventKind
<1> QED
  BY <1>1, <1>2, <1>3 DEF CrashStep

LEMMA OthersRows ==
    ASSUME CallInv, OthersStep \/ UNCHANGED vars, NEW d \in Charges
    PROVE  pay'[d] = pay[d]
<1>1. CASE UNCHANGED pay
  BY <1>1
<1>2. ASSUME NEW p \in Receipts, NEW row, pay' = [pay EXCEPT ![p] = row]
      PROVE pay'[d] = pay[d]
  BY <1>2, LedgerAssumption DEF CallInv, ChargingTypeOK, TypeOK, Payments
<1> QED
  BY <1>1, <1>2 DEF OthersStep, vars, ledgerVars, MarkPaid, CreateRemittance,
     CancelRemittance, BeginVoid, EndVoid, UndoVoid, DueDatePasses, SelectOverdue,
     WriteOverdue

LEMMA OthersAgree ==
    ASSUME CallInv, GatewayInv, OthersStep \/ UNCHANGED vars
    PROVE  GatewayInv'
<1>1. UNCHANGED <<call, gw, event, look>>
  BY DEF OthersStep, vars, chargingVars
<1> QED
  BY <1>1, OthersRows, SameAgrees DEF GatewayInv

LEMMA StepGatewayInv ==
    ASSUME CallInv, GatewayInv, [Next]_vars
    PROVE  GatewayInv'
<1>1. ASSUME NEW c \in Charges, CallStep(c) PROVE GatewayInv'
  BY <1>1, CallFrame, CallAgrees, OneMoves DEF GatewayInv
<1>2. ASSUME NEW c \in Charges, GatewayStep(c) PROVE GatewayInv'
  BY <1>2, GatewayFrame, GatewayAgrees, OneMoves DEF GatewayInv
<1>3. ASSUME NEW c \in Charges, SweepStep(c) PROVE GatewayInv'
  BY <1>3, SweepFrame, SweepStepAgrees, OneMoves DEF GatewayInv
<1>4. ASSUME NEW c \in Charges, CrashStep(c) PROVE GatewayInv'
  BY <1>4, CrashFrame, CrashAgrees, OneMoves DEF GatewayInv
<1>5. ASSUME NEW c \in Charges, NEW k \in EventKind, HandlerStep(c, k) PROVE GatewayInv'
  BY <1>5, HandlerFrame, HandlerAgrees, OneMoves DEF GatewayInv
<1> QED
  BY <1>1, <1>2, <1>3, <1>4, <1>5, OthersAgree DEF Next

LEMMA InitGatewayInv == ChargingInit => GatewayInv
BY DEF ChargingInit, Init, NoPayment, NewPayment, NoAnswer, GatewayInv, Agrees,
   AnswerAgrees, EventsAgree, SweepAgrees, RowAgrees, AtGateway, EventKind, Settled,
   Payments

LEMMA ChargingInv == Spec => [](CallInv /\ GatewayInv)
BY InitCallInv, StepCallInv, InitGatewayInv, StepGatewayInv, PTL DEF Spec

(* No phantom money, with any gateways: a payment row counts as collected  *)
(* only if the gateway collected it.                                       *)
THEOREM ChargingBookedWasCaptured == Spec => []BookedWasCaptured
<1>1. GatewayInv => BookedWasCaptured
  BY DEF GatewayInv, Agrees, RowAgrees, BookedWasCaptured, Was
<1> QED
  BY <1>1, ChargingInv, PTL

-----------------------------------------------------------------------------
(* With Stripe, whose lost answers stay 'unknown', the row of a charge     *)
(* stands for its money for as long as the money is with the gateway; and  *)
(* since only one row can be live, nobody is charged twice.                *)
StripeOnly == \A c \in Charges : Gateway[c] = "stripe"

LEMMA StripeHolds ==
    ASSUME StripeOnly, GatewayInv
    PROVE  CaptureHoldsItsRow
BY DEF StripeOnly, GatewayInv, Agrees, RowAgrees, CaptureHoldsItsRow

LEMMA HeldOnce ==
    ASSUME CaptureHoldsItsRow, OneLiveCharge
    PROVE  CapturedOnce
BY ChargingAssumption DEF CaptureHoldsItsRow, OneLiveCharge, CapturedOnce

(* Money at Stripe always has a live payment row: whatever was lost, a     *)
(* webhook or the sweep can find where it belongs.                         *)
THEOREM StripeCaptureHoldsItsRow ==
    ASSUME StripeOnly
    PROVE  Spec => []CaptureHoldsItsRow
<1>1. GatewayInv => CaptureHoldsItsRow
  BY StripeHolds
<1> QED
  BY <1>1, ChargingInv, PTL

(* However many requests are made at once, and whatever answers, webhooks  *)
(* and processes are lost, two charges of one invoice are never both in    *)
(* Stripe's hands.                                                         *)
THEOREM StripeCapturedOnce ==
    ASSUME StripeOnly
    PROVE  Spec => []CapturedOnce
BY StripeCaptureHoldsItsRow, ChargingOneLiveCharge, HeldOnce, PTL

-----------------------------------------------------------------------------
(* With Stripe, charging implements Collection.                            *)
Money  == [c \in Charges |-> MoneyOf(c)]
Booked == {c \in Charges : pay[c].status \in Settled}

(* A step of one charge that does not touch the gateway books it, unbooks  *)
(* it or changes nothing that Collection speaks of.                        *)
LEMMA BookingStep ==
    ASSUME NEW c \in Charges, KeepsOthers(c), Agrees(c)', Money' = Money
    PROVE  Promise!Book(c) \/ Promise!Unbook(c)
           \/ (Money' = Money /\ Booked' = Booked)
<1>1. \A d \in Charges \ {c} : d \in Booked' <=> d \in Booked
  BY DEF KeepsOthers, Booked
<1>2. Booked' \subseteq Charges /\ Booked \subseteq Charges
  BY DEF Booked
<1>3. CASE c \in Booked' /\ c \notin Booked
  <2>1. Booked' = Booked \cup {c}
    BY <1>1, <1>2, <1>3
  <2>2. gw'[c] \in Was
    BY <1>3 DEF Booked, Agrees, RowAgrees
  <2>3. Money'[c] \in {"collected", "given_back"}
    BY <2>2 DEF Money, MoneyOf, Was
  <2>4. Money[c] \in {"collected", "given_back"}
    BY <2>3
  <2> QED
    BY <2>1, <2>4 DEF Promise!Book, Money, Booked
<1>4. CASE c \notin Booked' /\ c \in Booked
  <2>1. Booked' = Booked \ {c}
    BY <1>1, <1>2, <1>4
  <2> QED
    BY <2>1 DEF Promise!Unbook, Money, Booked
<1>5. CASE c \in Booked' <=> c \in Booked
  BY <1>1, <1>2, <1>5
<1> QED
  BY <1>3, <1>4, <1>5

CollectionStep == Promise!Next \/ (Money' = Money /\ Booked' = Booked)

(* A step that moves the money of one charge and no payment row.           *)
LEMMA MoneyStep ==
    ASSUME NEW c \in Charges, KeepsOthers(c), UNCHANGED pay, NEW place,
           MoneyOf(c)' = place
    PROVE  Promise!Move(c, place)
<1>1. \A d \in Charges \ {c} : MoneyOf(d)' = MoneyOf(d)
  BY DEF KeepsOthers, MoneyOf
<1>2. Money' = [Money EXCEPT ![c] = place]
  BY <1>1 DEF Money
<1>3. Booked' = Booked
  BY DEF Booked
<1> QED
  BY <1>2, <1>3 DEF Promise!Move, Money, Booked

LEMMA SameMoney ==
    ASSUME NEW c \in Charges, KeepsOthers(c), MoneyOf(c)' = MoneyOf(c)
    PROVE  Money' = Money
<1>1. \A d \in Charges \ {c} : MoneyOf(d)' = MoneyOf(d)
  BY DEF KeepsOthers, MoneyOf
<1> QED
  BY <1>1 DEF Money

LEMMA CollectionMoves ==
    ASSUME StripeOnly, CallInv, GatewayInv, GatewayInv', OneLiveCharge, [Next]_vars
    PROVE  CollectionStep
<1>a. gw \in [Charges -> GatewayState]
  BY DEF CallInv, ChargingTypeOK
<1>b. ASSUME NEW c \in Charges, KeepsOthers(c), MoneyOf(c)' = MoneyOf(c)
      PROVE  CollectionStep
  BY <1>b, SameMoney, BookingStep DEF GatewayInv, CollectionStep, Promise!Next
<1>c. ASSUME NEW c \in Charges, UNCHANGED gw PROVE MoneyOf(c)' = MoneyOf(c)
  BY <1>c DEF MoneyOf
<1>d. ASSUME NEW c \in Charges PROVE MoneyOf(c) = Money[c]
  BY DEF Money
<1>1. ASSUME NEW c \in Charges, SubmitReached(c) PROVE CollectionStep
  <2>1. KeepsOthers(c) /\ UNCHANGED pay
    BY <1>1, CallFrame DEF CallStep, SubmitReached, ledgerVars
  <2>2. call[c].pc = "reserved" /\ gw[c] = "none" /\ pay[c].status = "processing"
    BY <1>1 DEF SubmitReached, At, GatewayInv, Agrees, AnswerAgrees
  <2>3. \A d \in Charges \ {c} : Money[d] \notin {"held", "collected"}
    <3>1. \A d \in Charges \ {c} : pay[d].status \notin Live
      BY <2>2, ChargingAssumption DEF OneLiveCharge, Live
    <3>2. \A d \in Charges \ {c} : ~AtGateway(d)
      BY <3>1 DEF StripeOnly, GatewayInv, Agrees, RowAgrees
    <3> QED
      BY <3>2, <1>a DEF AtGateway, GatewayState, Money, MoneyOf
  <2>4. Money[c] = "untried"
    BY <2>2 DEF Money, MoneyOf
  <2>5. MoneyOf(c)' \in {"held", "collected", "declined"}
    BY <1>1, <1>a DEF SubmitReached, Outcomes, MoneyOf
  <2>6. Promise!Move(c, MoneyOf(c)')
    BY <2>1, MoneyStep
  <2>7. Promise!Take(c) \/ Promise!Decline(c)
    BY <2>3, <2>4, <2>5, <2>6 DEF Promise!Take, Promise!Taken, Promise!Decline, Money
  <2> QED
    BY <2>7 DEF CollectionStep, Promise!Next
<1>2. ASSUME NEW c \in Charges, CancelUnfinished(c) \/ SweepCancel(c) PROVE CollectionStep
  <2>1. KeepsOthers(c)
    BY <1>2, CallFrame, SweepFrame DEF CallStep, SweepStep
  <2>2. gw[c] \in {"failed", "requires_action"}
    BY <1>2 DEF CancelUnfinished, SweepCancel, At, GatewayInv, Agrees, AnswerAgrees,
       SweepAgrees
  <2>3. gw'[c] \in {"failed", "requires_action"}
    BY <1>2, <1>a, <2>2 DEF CancelUnfinished, SweepCancel
  <2> QED
    BY <1>b, <2>1, <2>2, <2>3 DEF MoneyOf
<1>3. ASSUME NEW c \in Charges, GatewayStep(c) PROVE CollectionStep
  <2>1. KeepsOthers(c) /\ UNCHANGED pay
    BY <1>3, GatewayFrame DEF GatewayStep, Settles, Disputed, RefundedThere, ledgerVars
  <2>2. Promise!Move(c, MoneyOf(c)')
    BY <2>1, MoneyStep
  <2>3. CASE Settles(c)
    <3>1. Money[c] = "held" /\ MoneyOf(c)' \in {"collected", "declined"}
      BY <1>a, <2>3 DEF Settles, Money, MoneyOf
    <3>2. Promise!Settle(c) \/ Promise!Decline(c)
      BY <2>2, <3>1 DEF Promise!Settle, Promise!Decline, Money
    <3> QED
      BY <3>2 DEF CollectionStep, Promise!Next
  <2>4. CASE Disputed(c) \/ RefundedThere(c)
    <3>1. Money[c] = "collected" /\ MoneyOf(c)' = "given_back"
      BY <1>a, <2>4 DEF Disputed, RefundedThere, Captured, Money, MoneyOf
    <3>2. Promise!GiveBack(c)
      BY <2>2, <3>1 DEF Promise!GiveBack, Money
    <3> QED
      BY <3>2 DEF CollectionStep, Promise!Next
  <2> QED
    BY <1>3, <2>3, <2>4 DEF GatewayStep
<1>4. ASSUME NEW c \in Charges, CallStep(c), ~SubmitReached(c), ~CancelUnfinished(c)
      PROVE CollectionStep
  <2>1. UNCHANGED gw
    BY <1>4 DEF CallStep, ReadInvoice, CheckInFlight, Reserve, RefuseReservation,
       SubmitLost, Finalize, FinalizeThrown
  <2> QED
    BY <1>4, <1>b, <1>c, <2>1, CallFrame
<1>5. ASSUME NEW c \in Charges, NEW k \in EventKind, HandlerStep(c, k) PROVE CollectionStep
  <2>1. UNCHANGED gw
    BY <1>5 DEF HandlerStep, ClaimEvent, HandleAdopt, HandleSync, HandleRefused,
       HandleDispute, HandleIgnored, HandleRefund, chargingVars
  <2> QED
    BY <1>5, <1>b, <1>c, <2>1, HandlerFrame
<1>6. ASSUME NEW c \in Charges, SweepStep(c), ~SweepCancel(c) PROVE CollectionStep
  <2>1. UNCHANGED gw
    BY <1>6 DEF SweepStep, Lookup, SweepAbsent, SweepAdopt, SweepSync, SweepNothing,
       chargingVars
  <2> QED
    BY <1>6, <1>b, <1>c, <2>1, SweepFrame
<1>7. ASSUME NEW c \in Charges, CrashStep(c) PROVE CollectionStep
  <2>1. UNCHANGED gw
    BY <1>7 DEF CrashStep, CrashCall, CrashSweep, CrashHandler
  <2> QED
    BY <1>7, <1>b, <1>c, <2>1, CrashFrame
<1>8. ASSUME OthersStep \/ UNCHANGED vars PROVE CollectionStep
  <2>1. UNCHANGED gw
    BY <1>8 DEF OthersStep, vars, chargingVars
  <2>2. \A d \in Charges : pay'[d] = pay[d]
    BY <1>8, OthersRows
  <2>3. Money' = Money /\ Booked' = Booked
    BY <2>1, <2>2 DEF Money, MoneyOf, Booked
  <2> QED
    BY <2>3 DEF CollectionStep
<1> QED
  BY <1>1, <1>2, <1>3, <1>4, <1>5, <1>6, <1>7, <1>8 DEF Next

(* With Stripe, charging keeps the promise of Collection: the money of an  *)
(* invoice is with one charge at a time, each is tried once, and a charge  *)
(* is booked only for money that Stripe collected.                         *)
THEOREM StripeCollection ==
    ASSUME StripeOnly
    PROVE  Spec => CollectionSpec
<1>1. ChargingInit => Promise!Init
  BY DEF ChargingInit, Init, NoPayment, NewPayment, Promise!Init, MoneyOf, Settled, Payments
<1>2. ASSUME CallInv, GatewayInv, GatewayInv', OneLiveCharge, [Next]_vars
      PROVE  [Promise!Next]_(Promise!collectionVars)
  BY <1>2, CollectionMoves DEF CollectionStep, Money, Booked, Promise!collectionVars
<1> QED
  BY <1>1, <1>2, ChargingInv, ChargingOneLiveCharge, PTL DEF Spec, CollectionSpec, Promise!Spec

-----------------------------------------------------------------------------
(* amountPaid and the payments that count as collected.  A refund of the   *)
(* whole charge in the gateway's dashboard may also reach a payment whose  *)
(* money was never added.                                                  *)
RefundedEarly(p, row) ==
    /\ p \in Charges /\ gw[p] = "refunded" /\ gw' = gw
    /\ pay[p].status \notin Settled /\ row.status \in Settled
    /\ inv'.paid = inv.paid

RefundsEarly ==
    \E p \in Charges, row \in PaymentRow :
        pay' = [pay EXCEPT ![p] = row] /\ RefundedEarly(p, row)

LEMMA CallCollects ==
    ASSUME CallInv, GatewayInv, TypeOK, TypeOK', NEW c \in Charges, CallStep(c)
    PROVE  CollectedMoves
<1>1. CASE Reserve(c)
  BY <1>1, ChargeCollects DEF Reserve
<1>2. CASE Finalize(c)
  <2>1. /\ FinalStatus(call[c].answer.result) \in {"processing", "succeeded", "failed"}
        /\ call[c].answer.id \in BOOLEAN
    BY <1>2 DEF Finalize, FinalStatus, CallInv, ChargingTypeOK, CallRow
  <2> QED
    BY <1>2, <2>1, ChargeCollects DEF Finalize
<1>3. CASE FinalizeThrown(c)
  <2>1. gw[c] = "none"
    BY <1>3 DEF FinalizeThrown, At, GatewayInv, Agrees, AnswerAgrees
  <2>2. pay[c].status \notin Settled
    BY <2>1 DEF GatewayInv, Agrees, RowAgrees, Was
  <2> QED
    BY <1>3, <2>2, ChargeCollects DEF FinalizeThrown
<1>4. CASE \/ ReadInvoice(c) \/ CheckInFlight(c) \/ RefuseReservation(c)
           \/ SubmitReached(c) \/ SubmitLost(c) \/ CancelUnfinished(c)
  BY <1>4, LedgerKept DEF ReadInvoice, CheckInFlight, RefuseReservation, SubmitReached,
     SubmitLost, CancelUnfinished
<1> QED
  BY <1>1, <1>2, <1>3, <1>4 DEF CallStep

LEMMA HandlerCollects ==
    ASSUME CallInv, GatewayInv, TypeOK, TypeOK', NEW c \in Charges, NEW k \in EventKind,
           HandlerStep(c, k)
    PROVE  CollectedMoves \/ RefundsEarly
<1>1. CASE HandleAdopt(c, k) \/ HandleDispute(c, k)
  BY <1>1, ChargeCollects DEF HandleAdopt, HandleDispute
<1>2. CASE HandleSync(c, k)
  BY <1>2, ChargeCollects DEF HandleSync, StatusOf
<1>3. CASE HandleRefund(c)
  <2>1. gw[c] = "refunded" /\ gw' = gw
    BY <1>3 DEF HandleRefund, Claimed, GatewayInv, Agrees, EventsAgree
  <2> DEFINE st  == RefundStatus(pay[c].amount, pay[c].amount)
             row == [pay[c] EXCEPT !.back = pay[c].amount, !.status = st]
  <2>2. pay[c] \in PaymentRow /\ c \in Payments /\ inv \in InvoiceRow
    BY RowOf DEF Payments, TypeOK
  <2>3. pay' = [pay EXCEPT ![c] = row]
    BY <1>3 DEF HandleRefund, SyncRefund
  <2>4. st \in Settled /\ inv'.paid = inv.paid
    BY <1>3, <2>2 DEF HandleRefund, SyncRefund, RefundStatus, Settled, InvoiceRow
  <2> HIDE DEF st
  <2>5. row.status \in Settled /\ row.amount = pay[c].amount
    BY <2>2, <2>4 DEF PaymentRow
  <2> HIDE DEF row
  <2>6. KeepsMoney(c, row) \/ RefundedEarly(c, row)
    BY <2>1, <2>4, <2>5 DEF KeepsMoney, RefundedEarly
  <2> QED
    BY <2>2, <2>3, <2>6, RowCollected, WrittenRow DEF RefundsEarly
<1>4. CASE ClaimEvent(c, k) \/ HandleRefused(c, k) \/ HandleIgnored(c, k)
  BY <1>4, LedgerKept DEF ClaimEvent, HandleRefused, HandleIgnored
<1> QED
  BY <1>1, <1>2, <1>3, <1>4 DEF HandlerStep

LEMMA SweepCollects ==
    ASSUME TypeOK, TypeOK', NEW c \in Charges, SweepStep(c)
    PROVE  CollectedMoves
<1>1. CASE SweepAbsent(c)
  BY <1>1, ChargeCollects, LedgerKept DEF SweepAbsent
<1>2. CASE SweepAdopt(c)
  BY <1>2, ChargeCollects DEF SweepAdopt
<1>3. CASE SweepSync(c)
  BY <1>3, ChargeCollects DEF SweepSync, Applying
<1>4. CASE Lookup(c) \/ SweepCancel(c) \/ SweepNothing(c)
  BY <1>4, LedgerKept DEF Lookup, SweepCancel, SweepNothing
<1> QED
  BY <1>1, <1>2, <1>3, <1>4 DEF SweepStep

LEMMA OthersCollect ==
    ASSUME TypeOK, TypeOK', OthersStep
    PROVE  CollectedMoves
BY ReceiptCollects, InvoiceCollects DEF OthersStep, InvoiceStep

LEMMA StepCollects ==
    ASSUME CallInv, GatewayInv, CallInv', [Next]_vars
    PROVE  CollectedMoves \/ RefundsEarly
<1>a. TypeOK /\ TypeOK'
  BY DEF CallInv, ChargingTypeOK
<1>1. ASSUME NEW c \in Charges, GatewayStep(c) \/ CrashStep(c)
      PROVE  UNCHANGED ledgerVars
  BY <1>1 DEF GatewayStep, Settles, Disputed, RefundedThere, CrashStep, CrashCall,
     CrashSweep, CrashHandler
<1>2. CASE UNCHANGED vars
  BY <1>2, LedgerKept DEF vars
<1> QED
  BY <1>a, <1>1, <1>2, LedgerKept, CallCollects, HandlerCollects, SweepCollects,
     OthersCollect DEF Next

-----------------------------------------------------------------------------
(* The amounts of the settled payments, against amountPaid.                *)
NoneGivenBack == \A c \in Charges : gw[c] # "refunded"

CollectedInv ==
    /\ inv.paid <= Sum(Settled)
    /\ NoneGivenBack => inv.paid = Sum(Settled)

(* A charge that was given back stays so.                                  *)
LEMMA GivenBackStays ==
    ASSUME CallInv, GatewayInv, [Next]_vars, NEW c \in Charges, gw[c] = "refunded"
    PROVE  gw'[c] = "refunded"
<1>a. gw \in [Charges -> GatewayState]
  BY DEF CallInv, ChargingTypeOK
<1>b. Agrees(c)
  BY DEF GatewayInv
<1>1. CASE gw' = gw
  BY <1>1
<1>2. ASSUME NEW d \in Charges, SubmitReached(d) PROVE gw'[c] = "refunded"
  BY <1>a, <1>2 DEF SubmitReached, At, GatewayInv, Agrees, AnswerAgrees
<1>3. ASSUME NEW d \in Charges, CancelUnfinished(d) PROVE gw'[c] = "refunded"
  BY <1>a, <1>3 DEF CancelUnfinished, At, GatewayInv, Agrees, AnswerAgrees
<1>4. ASSUME NEW d \in Charges, GatewayStep(d) PROVE gw'[c] = "refunded"
  BY <1>a, <1>4 DEF GatewayStep, Settles, Disputed, RefundedThere, Captured
<1>5. ASSUME NEW d \in Charges, SweepCancel(d) PROVE gw'[c] = "refunded"
  BY <1>a, <1>5 DEF SweepCancel, GatewayInv, Agrees, SweepAgrees
<1>6. ASSUME NEW d \in Charges, CallStep(d), ~SubmitReached(d), ~CancelUnfinished(d)
      PROVE  gw' = gw
  BY <1>6 DEF CallStep, ReadInvoice, CheckInFlight, Reserve, RefuseReservation, SubmitLost,
     Finalize, FinalizeThrown
<1>7. ASSUME NEW d \in Charges, SweepStep(d), ~SweepCancel(d) PROVE gw' = gw
  BY <1>7 DEF SweepStep, Lookup, SweepAbsent, SweepAdopt, SweepSync, SweepNothing,
     chargingVars
<1>8. ASSUME NEW d \in Charges, CrashStep(d) PROVE gw' = gw
  BY <1>8 DEF CrashStep, CrashCall, CrashSweep, CrashHandler
<1>9. ASSUME NEW d \in Charges, NEW k \in EventKind, HandlerStep(d, k) PROVE gw' = gw
  BY <1>9 DEF HandlerStep, ClaimEvent, HandleAdopt, HandleSync, HandleRefused,
     HandleDispute, HandleIgnored, HandleRefund, chargingVars
<1>10. CASE OthersStep \/ UNCHANGED vars
  BY <1>10 DEF OthersStep, vars, chargingVars
<1> QED
  BY <1>1, <1>2, <1>3, <1>4, <1>5, <1>6, <1>7, <1>8, <1>9, <1>10 DEF Next

LEMMA StepCollected ==
    ASSUME CallInv, GatewayInv, CallInv', CollectedInv, [Next]_vars
    PROVE  CollectedInv'
<1>a. TypeOK
  BY DEF CallInv, ChargingTypeOK
<1>1. CASE CollectedMoves
  <2>1. NoneGivenBack' => NoneGivenBack
    BY GivenBackStays DEF NoneGivenBack
  <2> QED
    BY <1>a, <1>1, <2>1, CollectedStays DEF CollectedInv
<1>2. ASSUME NEW p \in Charges, NEW row \in PaymentRow, pay' = [pay EXCEPT ![p] = row],
             RefundedEarly(p, row)
      PROVE  CollectedInv'
  <2> DEFINE S == Settled
  <2>1. p \in Payments /\ pay \in [Payments -> PaymentRow] /\ inv.paid \in Nat
    BY <1>a DEF TypeOK, Payments, InvoiceRow
  <2>2. Sum(S) = SumOf(pay, S) /\ Sum(S)' = SumOf(pay', S) /\ SumOf(pay, S) \in Nat
    BY <2>1, SumIsSumOf, SumOfIsNat DEF Settled
  <2>3. SumOf(pay', S) = SumOf(pay, S) + row.amount /\ row.amount \in Nat
    <3>1. SumOf(pay', S) = SumOf(pay, S) + Counted(row, S) - Counted(pay[p], S)
      BY <1>2, <2>1, SumOfWrite
    <3>2. row.amount \in Nat
      BY DEF PaymentRow
    <3> QED
      BY <1>2, <2>2, <3>1, <3>2 DEF Counted, RefundedEarly
  <2>4. inv.paid <= Sum(S)
    BY DEF CollectedInv
  <2>5. inv'.paid <= Sum(S)'
    BY <1>2, <2>1, <2>2, <2>3, <2>4 DEF RefundedEarly
  <2>6. ~NoneGivenBack'
    BY <1>2 DEF RefundedEarly, NoneGivenBack
  <2> QED
    BY <2>5, <2>6 DEF CollectedInv
<1> QED
  BY <1>1, <1>2, StepCollects DEF RefundsEarly

LEMMA InitCollected == ChargingInit => CollectedInv
BY InitCollects DEF ChargingInit, CollectedInv

LEMMA ChargingCollected == Spec => []CollectedInv
BY InitCollected, StepCollected, ChargingInv, PTL DEF Spec

(* amountPaid never exceeds the payments that were collected: whatever the *)
(* order of answers, webhooks, sweeps, receipts, disputes and refunds, no  *)
(* payment is credited twice.                                              *)
THEOREM ChargingPaidIsBacked == Spec => [](inv.paid <= Sum(Settled))
<1>1. CollectedInv => inv.paid <= Sum(Settled)
  BY DEF CollectedInv
<1> QED
  BY <1>1, ChargingCollected, PTL

(* And it is exactly their sum, with any gateways, disputes and crashes,   *)
(* as long as nobody refunds a charge in the gateway's dashboard: such a   *)
(* refund may reach a payment before its money was booked, and then the    *)
(* money never is.                                                         *)
THEOREM ChargingPaidIsCollected ==
    ASSUME "refund" \notin Actors
    PROVE  Spec => []PaidIsCollected
<1>1. ChargingInit => NoneGivenBack
  BY DEF ChargingInit, NoneGivenBack
<1>2. ASSUME CallInv, NoneGivenBack, [Next]_vars PROVE NoneGivenBack'
  <2>a. gw \in [Charges -> GatewayState]
    BY <1>2 DEF CallInv, ChargingTypeOK
  <2>1. ASSUME NEW d \in Charges, NEW state \in GatewayState \ {"refunded"},
               gw' = [gw EXCEPT ![d] = state]
        PROVE  NoneGivenBack'
    BY <1>2, <2>a, <2>1 DEF NoneGivenBack
  <2>2. CASE gw' = gw
    BY <1>2, <2>2 DEF NoneGivenBack
  <2>3. ASSUME NEW d \in Charges, CallStep(d) PROVE NoneGivenBack'
    BY <2>1, <2>2, <2>3 DEF CallStep, ReadInvoice, CheckInFlight, Reserve,
       RefuseReservation, SubmitReached, Outcomes, SubmitLost, CancelUnfinished, Finalize,
       FinalizeThrown, GatewayState
  <2>4. ASSUME NEW d \in Charges, GatewayStep(d) PROVE NoneGivenBack'
    BY <2>1, <2>4 DEF GatewayStep, Settles, Disputed, RefundedThere, GatewayState
  <2>5. ASSUME NEW d \in Charges, SweepStep(d) PROVE NoneGivenBack'
    BY <2>1, <2>2, <2>5 DEF SweepStep, Lookup, SweepAbsent, SweepCancel, SweepAdopt,
       SweepSync, SweepNothing, chargingVars, GatewayState
  <2>6. ASSUME NEW d \in Charges, CrashStep(d) PROVE NoneGivenBack'
    BY <2>2, <2>6 DEF CrashStep, CrashCall, CrashSweep, CrashHandler
  <2>7. ASSUME NEW d \in Charges, NEW k \in EventKind, HandlerStep(d, k) PROVE NoneGivenBack'
    BY <2>2, <2>7 DEF HandlerStep, ClaimEvent, HandleAdopt, HandleSync, HandleRefused,
       HandleDispute, HandleIgnored, HandleRefund, chargingVars
  <2>8. CASE OthersStep \/ UNCHANGED vars
    BY <2>2, <2>8 DEF OthersStep, vars, chargingVars
  <2> QED
    BY <1>2, <2>3, <2>4, <2>5, <2>6, <2>7, <2>8 DEF Next
<1>3. Spec => []NoneGivenBack
  BY <1>1, <1>2, ChargingInv, PTL DEF Spec
<1>4. CollectedInv /\ NoneGivenBack => PaidIsCollected
  BY DEF CollectedInv, PaidIsCollected
<1> QED
  BY <1>3, <1>4, ChargingCollected, PTL

=============================================================================
