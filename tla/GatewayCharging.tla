-------------------------- MODULE GatewayCharging --------------------------
(***************************************************************************)
(* Charging an invoice through Stripe or GoCardless: the concurrent calls  *)
(* of chargeInvoice (portal, panel, auto-charge, retries), the gateway,    *)
(* the webhook handlers and the sweep of stale charges, over the           *)
(* transactions of InvoiceLedger.                                          *)
(*                                                                         *)
(* chargeInvoice is four separate database accesses around one external    *)
(* request, each on what the previous one read:                            *)
(*   ReadInvoice -> CheckInFlight -> Reserve -> Submit -> Finalize         *)
(* Webhooks and the sweep act on the same payment row at any moment, and a *)
(* process may stop between any two steps.                                 *)
(*                                                                         *)
(* One element of Charges is one request id of chargeInvoice and the       *)
(* payment row it may create.  Redsys has a protocol of its own            *)
(* (RedsysOrders).                                                         *)
(***************************************************************************)
EXTENDS InvoiceLedger

CONSTANTS
    ErrorIds,    \* may Stripe's "no answer" errors carry the id of the charge?
    Debits,      \* charges on a SEPA mandate, settled days later; the rest are cards
    Actors,      \* who else acts on the invoice: subset of OtherActors
    Crashable,   \* what may stop half-way: subset of {"call", "handler", "sweep"}
    MaxCrashes   \* bound: how many times something stops half-way

OtherActors == {"void", "tick", "dispute", "refund"}

ASSUME ChargingAssumption ==
    /\ Indexed = Charges
    /\ ErrorIds \in BOOLEAN
    /\ Debits \subseteq Charges
    /\ \A c \in Charges : Gateway[c] = "gocardless" => c \in Debits
    /\ Actors \subseteq OtherActors
    /\ Crashable \subseteq {"call", "handler", "sweep"}
    /\ MaxCrashes \in Nat

VARIABLES
    call,     \* chargeInvoice: where it is, the amount it read, the gateway's answer
    gw,       \* what really happened to the charge at the gateway
    event,    \* webhook events of each charge
    look,     \* sweep of stale charges: the gateway's state it read, not yet applied
    crashes

chargingVars == <<call, gw, event, look, crashes>>
vars == <<ledgerVars, chargingVars>>

NoAnswer   == [result |-> "none", id |-> FALSE]
AnswerKind == {"none", "succeeded", "processing", "unknown", "failed",
               "requires_action", "thrown"}
EventKind  == {"succeeded", "paid_out", "failed", "disputed", "refunded"}

(* The gateway took the money and has not given it back.                   *)
Captured(c) == gw[c] = "succeeded"
(* Money is with the gateway, or may still get there.                      *)
AtGateway(c) == gw[c] \in {"processing", "succeeded"}

ChargingInit ==
    /\ Init
    /\ call = [c \in Charges |-> [pc |-> "idle", amount |-> 0, answer |-> NoAnswer]]
    /\ gw = [c \in Charges |-> "none"]
    /\ event = [c \in Charges |-> [k \in EventKind |-> "none"]]
    /\ look = [c \in Charges |-> "none"]
    /\ crashes = 0

At(c, pc) == call[c].pc = pc
Goto(c, pc) == call' = [call EXCEPT ![c].pc = pc]

(* Events the gateway sends when a charge reaches a state.                 *)
Emit(c, kinds) ==
    event' = [event EXCEPT ![c] = [k \in EventKind |->
                 IF k \in kinds /\ @[k] = "none" THEN "sent" ELSE @[k]]]
SuccessEvents(c) == IF Gateway[c] = "gocardless" THEN {"succeeded", "paid_out"}
                                                 ELSE {"succeeded"}
EventsOn(c, state) ==
    CASE state = "succeeded" -> SuccessEvents(c)
      [] state = "failed"    -> {"failed"}
      [] OTHER               -> {}

-----------------------------------------------------------------------------
(* Variants of definitions below, each with the slip that one property     *)
(* must notice.  No action of the specification uses them.                 *)
FinalStatusAsAnswered(result)   == result
FinalStatusUnknownFails(result) == IF result = "unknown" THEN "failed" ELSE result
FinalStatusPendingPays(result)  ==
    IF result \in {"processing", "unknown"} THEN "succeeded" ELSE result
StaleAtOnce(c) == call[c].pc # "none"
StaleNever(c)  == call[c].pc = "none"

-----------------------------------------------------------------------------
(* chargeInvoice                                                           *)

(* The first transaction: payable, and an amount within what was due then. *)
ReadInvoice(c) ==
    /\ At(c, "idle")
    /\ inv.status \in Payable
    /\ \E a \in 1..Outstanding :
          call' = [call EXCEPT ![c].pc = "read", ![c].amount = a]
    /\ UNCHANGED <<ledgerVars, gw, event, look, crashes>>

(* assertNoPaymentInFlight, a transaction of its own.                      *)
CheckInFlight(c) ==
    /\ At(c, "read")
    /\ Goto(c, IF PaymentInFlight \/ InSepaRemittance THEN "idle" ELSE "checked")
    /\ UNCHANGED <<ledgerVars, gw, event, look, crashes>>

(* Phase 1, or the 409 payment_in_progress.                                *)
Reserve(c) ==
    /\ At(c, "checked")
    /\ ReserveCharge(c, call[c].amount)
    /\ Goto(c, "reserved")
    /\ UNCHANGED <<gw, event, look, crashes>>

RefuseReservation(c) ==
    /\ At(c, "checked")
    /\ \E d \in Charges : pay[d].status \in Live
    /\ Goto(c, "idle")
    /\ UNCHANGED <<ledgerVars, gw, event, look, crashes>>

(* Phase 2.  The idempotency key makes the SDK's own retries one charge.   *)
(* `state` is what becomes of it at the gateway, 'none' if the request     *)
(* never got there.                                                        *)
Answered(c, result, id) ==
    call' = [call EXCEPT ![c].pc = "answered",
                         ![c].answer = [result |-> result, id |-> id]]

Outcomes(c) ==
    IF c \in Debits THEN {"processing", "failed"}
                    ELSE {"succeeded", "failed", "requires_action"}

SubmitReached(c) ==
    /\ At(c, "reserved")
    /\ \E state \in Outcomes(c) :
          /\ gw' = [gw EXCEPT ![c] = state]
          /\ Emit(c, EventsOn(c, state))
          /\ \/ Answered(c, state, TRUE)
             \* the answer is lost: Stripe's adapter says 'unknown', with the id if
             \* the error carried one; GoCardless's says 'failed', under an id that
             \* GoCardless does not know
             \/ /\ Gateway[c] = "stripe"
                /\ \E id \in {FALSE, ErrorIds} : Answered(c, "unknown", id)
             \/ Gateway[c] = "gocardless" /\ Answered(c, "failed", FALSE)
    /\ UNCHANGED <<ledgerVars, look, crashes>>

SubmitLost(c) ==
    /\ At(c, "reserved")
    /\ \/ Gateway[c] = "stripe"     /\ Answered(c, "unknown", FALSE)
       \/ Gateway[c] = "gocardless" /\ Answered(c, "failed", FALSE)
       \/ Answered(c, "thrown", FALSE)
    /\ UNCHANGED <<ledgerVars, gw, event, look, crashes>>

(* A charge that waits for the customer is cancelled; an error of the      *)
(* cancellation is ignored.                                                *)
CancelUnfinished(c) ==
    /\ At(c, "answered") /\ call[c].answer.result = "requires_action"
    /\ gw' = [gw EXCEPT ![c] = "failed"] \/ UNCHANGED gw
    /\ call' = [call EXCEPT ![c].answer.result = "failed"]
    /\ UNCHANGED <<ledgerVars, event, look, crashes>>

(* Phase 3.                                                                *)
FinalStatus(result) == IF result \in {"processing", "unknown"} THEN "processing" ELSE result

Finalize(c) ==
    /\ At(c, "answered")
    /\ call[c].answer.result \in {"succeeded", "processing", "unknown", "failed"}
    /\ FinalizeCharge(c, FinalStatus(call[c].answer.result), call[c].answer.id)
    /\ Goto(c, "done")
    /\ UNCHANGED <<gw, event, look, crashes>>

(* The catch around phase 2.                                               *)
FinalizeThrown(c) ==
    /\ At(c, "answered") /\ call[c].answer.result = "thrown"
    /\ FailCharge(c)
    /\ Goto(c, "done")
    /\ UNCHANGED <<gw, event, look, crashes>>

-----------------------------------------------------------------------------
(* The gateway                                                             *)

Settles(c) ==
    /\ gw[c] = "processing"
    /\ \E state \in {"succeeded", "failed"} :
          gw' = [gw EXCEPT ![c] = state] /\ Emit(c, EventsOn(c, state))
    /\ UNCHANGED <<ledgerVars, call, look, crashes>>

(* A chargeback, or a direct debit its bank sends back.                    *)
Disputed(c) ==
    /\ "dispute" \in Actors
    /\ Captured(c)
    /\ gw' = [gw EXCEPT ![c] = "reversed"]
    /\ Emit(c, {"disputed"})
    /\ UNCHANGED <<ledgerVars, call, look, crashes>>

(* A refund made in the gateway's dashboard, of the whole charge.          *)
RefundedThere(c) ==
    /\ "refund" \in Actors
    /\ Captured(c)
    /\ gw' = [gw EXCEPT ![c] = "refunded"]
    /\ Emit(c, {"refunded"})
    /\ UNCHANGED <<ledgerVars, call, look, crashes>>

-----------------------------------------------------------------------------
(* Webhooks: delivered at least once and in any order.  markProcessed      *)
(* claims the event id, so the other deliveries of it are dropped; an      *)
(* exception releases it.                                                  *)
Mark(c, k, state) == event' = [event EXCEPT ![c][k] = state]

ClaimEvent(c, k) ==
    /\ event[c][k] = "sent"
    /\ Mark(c, k, "claimed")
    /\ UNCHANGED <<ledgerVars, call, gw, look, crashes>>

Claimed(c, k) == event[c][k] = "claimed"
StatusOf(k) == IF k = "failed" THEN "failed" ELSE "succeeded"

(* syncFromWebhook first looks for the row, by id or by the metadata.      *)
HandleAdopt(c, k) ==
    /\ Claimed(c, k) /\ k \in {"succeeded", "failed"}
    /\ AdoptCharge(c)
    /\ UNCHANGED chargingVars

HandleSync(c, k) ==
    /\ Claimed(c, k) /\ k \in {"succeeded", "paid_out", "failed"}
    /\ SyncCharge(c, StatusOf(k))
    /\ Mark(c, k, "done")
    /\ UNCHANGED <<call, gw, look, crashes>>

(* The index refuses the row: the transaction fails, the event is released *)
(* and the gateway sends it again.                                         *)
HandleRefused(c, k) ==
    /\ Claimed(c, k) /\ k \in {"succeeded", "paid_out"}
    /\ pay[c].gid /\ SyncMoves(c, "succeeded") /\ ~IndexAllows(c, "succeeded")
    /\ Mark(c, k, "sent")
    /\ UNCHANGED <<ledgerVars, call, gw, look, crashes>>

(* charge.dispute.created, GoCardless charged_back; and GoCardless 'failed'*)
(* for a payment already collected.                                        *)
HandleDispute(c, k) ==
    /\ Claimed(c, k)
    /\ k = "disputed" \/ (k = "failed" /\ Gateway[c] = "gocardless")
    /\ SyncDispute(c)
    /\ Mark(c, k, "done")
    /\ UNCHANGED <<call, gw, look, crashes>>

HandleRefund(c) ==
    /\ Claimed(c, "refunded")
    /\ SyncRefund(c, pay[c].amount)
    /\ Mark(c, "refunded", "done")
    /\ UNCHANGED <<call, gw, look, crashes>>

(* No row with that id, or nothing to change: logged, and the event stays  *)
(* processed.                                                              *)
Ignorable(c, k) ==
    CASE k \in {"succeeded", "paid_out"} ->
             IF pay[c].gid THEN ~SyncMoves(c, "succeeded") ELSE Gateway[c] # "stripe"
      [] k = "failed" ->
             IF pay[c].gid THEN /\ ~SyncMoves(c, "failed")
                                /\ Gateway[c] = "stripe" \/ pay[c].status # "succeeded"
                           ELSE Gateway[c] # "stripe"
      [] k = "disputed" -> ~pay[c].gid \/ pay[c].status # "succeeded"
      [] k = "refunded" -> ~pay[c].gid \/ pay[c].back >= pay[c].amount

HandleIgnored(c, k) ==
    /\ Claimed(c, k)
    /\ Ignorable(c, k)
    /\ Mark(c, k, "done")
    /\ UNCHANGED <<ledgerVars, call, gw, look, crashes>>

-----------------------------------------------------------------------------
(* The sweep of stale charges, every 15 minutes.  It looks at a charge ten *)
(* minutes old, and gives one up after an hour: by then its call is over.  *)
Stale(c) == call[c].pc \in {"done", "crashed"}

Lookup(c) ==
    /\ look[c] = "none"
    /\ Gateway[c] = "stripe"
    /\ pay[c].status = "processing" /\ ~pay[c].gid
    /\ Stale(c)
    /\ look' = [look EXCEPT ![c] =
                   CASE gw[c] = "none"                     -> "absent"
                     [] gw[c] \in {"reversed", "refunded"} -> "succeeded"
                     [] OTHER                              -> gw[c]]
    /\ UNCHANGED <<ledgerVars, call, gw, event, crashes>>

Forget(c) == look' = [look EXCEPT ![c] = "none"]

SweepAbsent(c) ==
    /\ look[c] = "absent"
    /\ CloseReservation(c) \/ (pay[c].status # "processing" /\ UNCHANGED ledgerVars)
    /\ Forget(c)
    /\ UNCHANGED <<call, gw, event, crashes>>

SweepCancel(c) ==
    /\ look[c] = "requires_action"
    /\ gw' = [gw EXCEPT ![c] = "failed"] \/ UNCHANGED gw
    /\ look' = [look EXCEPT ![c] = "failed"]
    /\ UNCHANGED <<ledgerVars, call, event, crashes>>

Applying(c) == look[c] \in {"processing", "succeeded", "failed"}

SweepAdopt(c) ==
    /\ Applying(c)
    /\ AdoptCharge(c)
    /\ UNCHANGED chargingVars

SweepSync(c) ==
    /\ Applying(c)
    /\ SyncCharge(c, look[c])
    /\ Forget(c)
    /\ UNCHANGED <<call, gw, event, crashes>>

(* Nothing to change, or the index refused it: logged, and on to the next. *)
SweepNothing(c) ==
    /\ Applying(c)
    /\ pay[c].gid
    /\ ~SyncMoves(c, look[c]) \/ ~IndexAllows(c, look[c])
    /\ Forget(c)
    /\ UNCHANGED <<ledgerVars, call, gw, event, crashes>>

-----------------------------------------------------------------------------
(* A process stops: its memory is lost, the rows stay as they are.         *)
Crash(what) ==
    /\ what \in Crashable
    /\ crashes < MaxCrashes
    /\ crashes' = crashes + 1

CrashCall(c) ==
    /\ Crash("call")
    /\ call[c].pc \in {"reserved", "answered"}
    /\ Goto(c, "crashed")
    /\ UNCHANGED <<ledgerVars, gw, event, look>>

CrashHandler(c, k) ==
    /\ Crash("handler")
    /\ Claimed(c, k)
    /\ Mark(c, k, "done")
    /\ UNCHANGED <<ledgerVars, call, gw, look>>

CrashSweep(c) ==
    /\ Crash("sweep")
    /\ look[c] # "none"
    /\ Forget(c)
    /\ UNCHANGED <<ledgerVars, call, gw, event>>

-----------------------------------------------------------------------------
(* The staff, the daily tick and the remittances, on the same invoice.     *)
OthersStep ==
    /\ \/ \E p \in Receipts, a \in 1..Total, o \in BOOLEAN : MarkPaid(p, a, o, FALSE)
       \/ \E r \in Remittances : CreateRemittance(r) \/ CancelRemittance(r)
       \/ "void" \in Actors /\ (BeginVoid \/ EndVoid \/ UndoVoid)
       \/ "tick" \in Actors /\ (DueDatePasses \/ SelectOverdue \/ WriteOverdue)
    /\ UNCHANGED chargingVars

CallStep(c) ==
    \/ ReadInvoice(c) \/ CheckInFlight(c) \/ Reserve(c) \/ RefuseReservation(c)
    \/ SubmitReached(c) \/ SubmitLost(c) \/ CancelUnfinished(c)
    \/ Finalize(c) \/ FinalizeThrown(c)

GatewayStep(c) == Settles(c) \/ Disputed(c) \/ RefundedThere(c)

HandlerStep(c, k) ==
    \/ ClaimEvent(c, k) \/ HandleAdopt(c, k) \/ HandleSync(c, k) \/ HandleRefused(c, k)
    \/ HandleDispute(c, k) \/ HandleIgnored(c, k)
    \/ k = "refunded" /\ HandleRefund(c)

SweepStep(c) ==
    \/ Lookup(c) \/ SweepAbsent(c) \/ SweepCancel(c)
    \/ SweepAdopt(c) \/ SweepSync(c) \/ SweepNothing(c)

CrashStep(c) ==
    CrashCall(c) \/ CrashSweep(c) \/ \E k \in EventKind : CrashHandler(c, k)

Next ==
    \/ \E c \in Charges :
          \/ CallStep(c) \/ GatewayStep(c) \/ SweepStep(c) \/ CrashStep(c)
          \/ \E k \in EventKind : HandlerStep(c, k)
    \/ OthersStep

Spec == ChargingInit /\ [][Next]_vars

(* A request once made runs to its end, the gateway settles what it took   *)
(* and delivers its events until they are accepted, and the cron keeps     *)
(* sweeping.  Nobody has to charge, dispute or refund.                     *)
Fairness ==
    \A c \in Charges :
        /\ WF_vars(~At(c, "idle") /\ CallStep(c))
        /\ WF_vars(Settles(c))
        /\ \A k \in EventKind : WF_vars(HandlerStep(c, k))
        /\ WF_vars(SweepStep(c))

FairSpec == Spec /\ Fairness

-----------------------------------------------------------------------------
CallRow == [pc : {"idle", "read", "checked", "reserved", "answered", "done", "crashed"},
            amount : Nat,
            answer : [result : AnswerKind, id : BOOLEAN]]
GatewayState == {"none", "processing", "succeeded", "failed", "requires_action",
                 "reversed", "refunded"}
EventState   == {"none", "sent", "claimed", "done"}
LookState    == {"none", "absent", "processing", "succeeded", "failed", "requires_action"}

(* Type invariant of the charging processes.                               *)
ChargingTypeOK ==
    /\ TypeOK
    /\ call \in [Charges -> CallRow]
    /\ gw \in [Charges -> GatewayState]
    /\ event \in [Charges -> [EventKind -> EventState]]
    /\ look \in [Charges -> LookState]
    /\ crashes \in Nat

(* The customer is never charged twice: two charges of one invoice are     *)
(* never both in the gateway's hands or collected, whatever double clicks, *)
(* lost answers, crashes, late webhooks and sweeps do.                     *)
CapturedOnce == \A c, d \in Charges : AtGateway(c) /\ AtGateway(d) => c = d

(* Money at the gateway always has a payment row of the invoice that still *)
(* stands for it (the promise of reserving before charging), so a webhook  *)
(* or the sweep can find where it belongs.                                 *)
CaptureHoldsItsRow ==
    \A c \in Charges : AtGateway(c) => pay[c].status \in Live

(* No phantom money: a payment counts as collected only if the gateway did *)
(* collect it at some time.                                                *)
BookedWasCaptured ==
    \A c \in Charges :
        pay[c].status \in Settled => gw[c] \in {"succeeded", "reversed", "refunded"}

(* amountPaid is the money of the payments that were collected: nothing is *)
(* credited twice or lost by an early, late or repeated webhook racing the *)
(* answer of the charge and the sweep.                                     *)
PaidIsCollected == inv.paid = Sum(Settled)

(* Charging keeps the promise of Collection.                               *)
MoneyOf(c) ==
    CASE gw[c] = "none"                        -> "untried"
      [] gw[c] = "processing"                  -> "held"
      [] gw[c] = "succeeded"                   -> "collected"
      [] gw[c] \in {"failed", "requires_action"} -> "declined"
      [] gw[c] \in {"reversed", "refunded"}    -> "given_back"

Promise == INSTANCE Collection WITH
               money  <- [c \in Charges |-> MoneyOf(c)],
               booked <- {c \in Charges : pay[c].status \in Settled}

CollectionSpec == Promise!Spec

(* Money the gateway collected ends up in amountPaid, or back with the     *)
(* customer: the webhook, the answer of the call or the sweep applies it,  *)
(* even when the answer is lost or the call's process stops.               *)
CapturedIsBooked ==
    \A c \in Charges : Captured(c) ~> (pay[c].status \in Settled \/ ~Captured(c))

(* A reservation does not block the invoice for ever: the webhook, the     *)
(* answer of the call or the sweep closes it.                              *)
EveryChargeIsResolved ==
    \A c \in Charges : pay[c].status = "processing" ~> pay[c].status # "processing"

-----------------------------------------------------------------------------
(* sepa.service.ts, createRemittance: a charge that arrives at the same    *)
(* time does not end up in the bank's file as well.  chargeInvoice breaks  *)
(* it: it looks for remittances before its reservation and not in it.      *)
ChargedOrRemitted == ~(PaymentInFlight /\ InSepaRemittance)

=============================================================================
