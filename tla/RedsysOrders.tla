---------------------------- MODULE RedsysOrders ----------------------------
(***************************************************************************)
(* Collecting an invoice through Redsys, over the transactions of          *)
(* InvoiceLedger.  Redsys has no payment object to look up: what the API   *)
(* knows of a payment is the row of its order, and two things close it,    *)
(* the answer of the bank to a charge and the notification that the bank   *)
(* sends to the webhook:                                                   *)
(*                                                                         *)
(*   redsys-charge.service.ts   the charge of a saved card inside          *)
(*                              chargeInvoice: order 'charging'            *)
(*   redsys.service.ts          the payment page: order 'pending', which a *)
(*                              later request reuses or replaces; and      *)
(*                              handleNotification, for both               *)
(*   stale-charges.service.ts   a charge without answer nor notification   *)
(*                              in a day expires                           *)
(*                                                                         *)
(* An element of Charges is a call of chargeInvoice, its payment row and   *)
(* its order; an element of Redirects is a request of the payment page and *)
(* the order it may create.  Deposit receipts and further invoices paid    *)
(* with the same order, and the saving of the card, are not modelled.      *)
(***************************************************************************)
EXTENDS InvoiceLedger, Sequences

CONSTANTS
    Redirects,   \* requests of the payment page
    Cash,        \* receipts that the staff register; the rest are the notifications'
    Crashable,   \* what may stop half-way: subset of {"call", "handler", "sweep"}
    MaxCrashes   \* bound: how many times something stops half-way

ASSUME RedsysAssumption ==
    /\ Indexed = {}
    /\ Redirects \cap (Charges \cup Receipts) = {}
    /\ Cash \subseteq Receipts
    /\ Crashable \subseteq {"call", "handler", "sweep"}
    /\ MaxCrashes \in Nat

VARIABLES
    order,     \* rows of redsys_orders: status and amount
    call,      \* chargeInvoice and createRedirect: where each is, and what it read
    bank,      \* what the bank decided about each order
    handler,   \* handleNotification: where it is, and the parts still to apply
    booked,    \* the receipts whose note names the order
    review,    \* orders with a 'redsys.overpayment_needs_review' notification
    sweep,     \* charges the sweep has expired and not failed yet
    stopped,   \* orders left half-way by a process that stopped
    crashes

redsysVars == <<order, call, bank, handler, booked, review, sweep, stopped, crashes>>
vars == <<ledgerVars, redsysVars>>

Orders == Charges \cup Redirects

(* Statuses from which a notification may still claim the order; and a     *)
(* variant of them that no action uses.                                    *)
ClaimableButReplaced == {"pending", "charging", "expired"}
Claimable == {"pending", "charging", "expired", "replaced"}
NoOrder   == [status |-> "none", amount |-> 0]
Idle      == [pc |-> "idle", parts |-> <<>>]

RedsysInit ==
    /\ Init
    /\ order = [o \in Orders |-> NoOrder]
    /\ call = [o \in Orders |-> [pc |-> "idle", amount |-> 0, result |-> "none"]]
    /\ bank = [o \in Orders |-> "none"]
    /\ handler = [o \in Orders |-> Idle]
    /\ booked = [o \in Orders |-> {}]
    /\ review = {}
    /\ sweep = {}
    /\ stopped = {}
    /\ crashes = 0

At(o, pc)    == call[o].pc = pc
Goto(o, pc)  == call' = [call EXCEPT ![o].pc = pc]
Handling(o, pc) == handler[o].pc = pc
SetOrder(o, status) == order' = [order EXCEPT ![o].status = status]

Decision(o) == IF bank[o] = "approved" THEN "paid" ELSE "failed"

-----------------------------------------------------------------------------
(* Variants of definitions below, each with the slip that one property     *)
(* must notice.  No action of the specification uses them.                 *)
FinalStatusAsAnswered(result) == result

ResolveAnyway(c) ==
    /\ At(c, "asked")
    /\ bank[c] \in {"approved", "declined"}
    /\ SetOrder(c, Decision(c))
    /\ call' = [call EXCEPT ![c].pc = "answered",
                            ![c].result = IF bank[c] = "approved" THEN "succeeded" ELSE "failed"]
    /\ UNCHANGED <<ledgerVars, bank, handler, booked, review, sweep, stopped, crashes>>

CountRowAnyDecision(o) ==
    /\ Handling(o, "claimed")
    /\ handler' = [handler EXCEPT ![o].pc =
                      IF o \in Charges /\ pay[o].gid /\ pay[o].status = "processing"
                      THEN "sync" ELSE "split"]
    /\ UNCHANGED <<ledgerVars, order, call, bank, booked, review, sweep, stopped, crashes>>

ExpireRowForgotten(c) ==
    /\ c \in sweep
    /\ sweep' = sweep \ {c}
    /\ UNCHANGED <<ledgerVars, order, call, bank, handler, booked, review, stopped, crashes>>

-----------------------------------------------------------------------------
(* Charging a saved card: chargeInvoice around redsys-charge.service.ts    *)

(* Phase 1.  The status and the amount of the invoice were read before;    *)
(* the first reading may be as old as the invoice, so any amount may       *)
(* arrive here.                                                            *)
Reserve(c) ==
    /\ At(c, "idle")
    /\ \E a \in 1..Total :
          /\ ReserveCharge(c, a)
          /\ call' = [call EXCEPT ![c].pc = "reserved", ![c].amount = a]
    /\ UNCHANGED <<order, bank, handler, booked, review, sweep, stopped, crashes>>

Answered(c, result) ==
    call' = [call EXCEPT ![c].pc = "answered", ![c].result = result]

(* The saved cards were switched off: a made-up order, no request.         *)
CardOnFileDisabled(c) ==
    /\ At(c, "reserved")
    /\ Answered(c, "failed")
    /\ UNCHANGED <<ledgerVars, order, bank, handler, booked, review, sweep, stopped, crashes>>

(* The order is stored before charging, and its number in the payment.     *)
CreateCharging(c) ==
    /\ At(c, "reserved")
    /\ order' = [order EXCEPT ![c] = [status |-> "charging", amount |-> call[c].amount]]
    /\ Goto(c, "ordered")
    /\ UNCHANGED <<ledgerVars, bank, handler, booked, review, sweep, stopped, crashes>>

Stamp(c) ==
    /\ At(c, "ordered")
    /\ StampOrder(c)
    /\ Goto(c, "asked")
    /\ UNCHANGED <<order, bank, handler, booked, review, sweep, stopped, crashes>>

(* No answer, or one that cannot be trusted: the payment stays under way.  *)
NoAnswer(c) ==
    /\ At(c, "asked")
    /\ Answered(c, "unknown")
    /\ UNCHANGED <<ledgerVars, order, bank, handler, booked, review, sweep, stopped, crashes>>

(* An error code: Redsys did not process the order.                        *)
ErrorCode(c) ==
    /\ At(c, "asked")
    /\ bank[c] = "none"
    /\ bank' = [bank EXCEPT ![c] = "refused"]
    /\ Answered(c, "failed")
    /\ UNCHANGED <<ledgerVars, order, handler, booked, review, sweep, stopped, crashes>>

(* resolve: whoever moves the order out of 'charging' applies it.          *)
Resolve(c) ==
    /\ At(c, "asked")
    /\ bank[c] \in {"approved", "declined"}
    /\ IF order[c].status = "charging"
       THEN /\ SetOrder(c, Decision(c))
            /\ Answered(c, IF bank[c] = "approved" THEN "succeeded" ELSE "failed")
       ELSE Answered(c, "failed") /\ UNCHANGED order
    /\ UNCHANGED <<ledgerVars, bank, handler, booked, review, sweep, stopped, crashes>>

(* Phase 3.                                                                *)
FinalStatus(result) == IF result = "unknown" THEN "processing" ELSE result

Finalize(c) ==
    /\ At(c, "answered")
    /\ FinalizeCharge(c, FinalStatus(call[c].result), TRUE)
    /\ Goto(c, "done")
    /\ UNCHANGED <<order, bank, handler, booked, review, sweep, stopped, crashes>>

(* The settings or the order could not be read or written: the catch       *)
(* around phase 2.                                                         *)
Throws(c) ==
    /\ call[c].pc \in {"reserved", "ordered"}
    /\ FailCharge(c)
    /\ Goto(c, "done")
    /\ UNCHANGED <<order, bank, handler, booked, review, sweep, stopped, crashes>>

-----------------------------------------------------------------------------
(* The payment page: createRedirect                                        *)

ReadDue(o) ==
    /\ At(o, "idle")
    /\ inv.status \in Payable
    /\ ~PaymentInFlight /\ ~InSepaRemittance
    /\ Outstanding > 0
    /\ call' = [call EXCEPT ![o].pc = "read", ![o].amount = Outstanding]
    /\ UNCHANGED <<ledgerVars, order, bank, handler, booked, review, sweep, stopped, crashes>>

(* Under the advisory lock: the pending order is offered again if it has   *)
(* the amount, and replaced if it does not.                                *)
Pending == {q \in Redirects : order[q].status = "pending"}

Offer(o) ==
    /\ At(o, "read")
    /\ IF \E q \in Pending : order[q].amount = call[o].amount
       THEN UNCHANGED order
       ELSE order' = [q \in Orders |->
                        IF q = o THEN [status |-> "pending", amount |-> call[o].amount]
                        ELSE IF q \in Pending THEN [order[q] EXCEPT !.status = "replaced"]
                        ELSE order[q]]
    /\ Goto(o, "done")
    /\ UNCHANGED <<ledgerVars, bank, handler, booked, review, sweep, stopped, crashes>>

-----------------------------------------------------------------------------
(* The bank decides once about an order it was asked for: while the call   *)
(* waits, after it gave up, or whenever the customer pays the form, even   *)
(* one that was replaced since.                                            *)
Asked(o) ==
    IF o \in Charges THEN call[o].pc \notin {"idle", "reserved", "ordered"} /\ pay[o].gid
                     ELSE order[o].status # "none"

BankDecides(o) ==
    /\ bank[o] = "none"
    /\ Asked(o) /\ order[o].status # "none"
    /\ \E decision \in {"approved", "declined"} : bank' = [bank EXCEPT ![o] = decision]
    /\ UNCHANGED <<ledgerVars, order, call, handler, booked, review, sweep, stopped, crashes>>

-----------------------------------------------------------------------------
(* handleNotification.  A decision is notified at least once and at any    *)
(* time after it; a notification that finds the order taken does nothing,  *)
(* so handling again is enabled only when the claim succeeds.              *)
Claim(o) ==
    /\ Handling(o, "idle")
    /\ bank[o] \in {"approved", "declined"}
    /\ order[o].status \in Claimable
    /\ SetOrder(o, Decision(o))
    /\ handler' = [handler EXCEPT ![o].pc = "claimed"]
    /\ UNCHANGED <<ledgerVars, call, bank, booked, review, sweep, stopped, crashes>>

HandlerGoto(o, pc) == handler' = [handler EXCEPT ![o].pc = pc]

(* Is a payment of this order under way?                                   *)
RowUnderWay(o) == o \in Charges /\ pay[o].gid /\ pay[o].status = "processing"

CountRow(o) ==
    /\ Handling(o, "claimed")
    /\ HandlerGoto(o, IF RowUnderWay(o) THEN "sync"
                      ELSE IF bank[o] = "approved" THEN "split" ELSE "idle")
    /\ UNCHANGED <<ledgerVars, order, call, bank, booked, review, sweep, stopped, crashes>>

RowStatus(o) == IF bank[o] = "approved" THEN "succeeded" ELSE "failed"

SyncRow(o) ==
    /\ Handling(o, "sync")
    /\ SyncCharge(o, RowStatus(o)) \/ (~SyncMoves(o, RowStatus(o)) /\ UNCHANGED ledgerVars)
    /\ HandlerGoto(o, "idle")
    /\ UNCHANGED <<order, call, bank, booked, review, sweep, stopped, crashes>>

(* splitOrder: what is due, and what is left over, if any.                 *)
Parts(amount) ==
    LET due   == IF inv.status \in Payable THEN Positive(Outstanding) ELSE 0
        first == LowerOf(amount, due)
    IN  IF first \in {0, amount} THEN <<amount>> ELSE <<first, amount - first>>

Split(o) ==
    /\ Handling(o, "split")
    /\ handler' = [handler EXCEPT ![o] = [pc |-> "apply", parts |-> Parts(order[o].amount)]]
    /\ UNCHANGED <<ledgerVars, order, call, bank, booked, review, sweep, stopped, crashes>>

(* Each part is a receipt of its own transaction; by card the invoice must *)
(* be settled in full.                                                     *)
Settling(amount) == inv.paid + amount = Total

(* A handler that has applied the first of its parts.                      *)
Rest(h) == IF Len(h.parts) = 1 THEN Idle ELSE [h EXCEPT !.parts = Tail(@)]

ApplyPart(o) ==
    /\ Handling(o, "apply")
    /\ Settling(Head(handler[o].parts))
    /\ \E p \in Receipts \ Cash :
          /\ MarkPaid(p, Head(handler[o].parts), TRUE, TRUE)
          /\ booked' = [booked EXCEPT ![o] = @ \cup {p}]
    /\ handler' = [handler EXCEPT ![o] = Rest(@)]
    /\ UNCHANGED <<order, call, bank, review, sweep, stopped, crashes>>

(* Refused: the staff are told, and the other parts are not tried.         *)
RefusePart(o) ==
    /\ Handling(o, "apply")
    /\ inv.status \notin Payable \/ ~Settling(Head(handler[o].parts))
    /\ review' = review \cup {o}
    /\ handler' = [handler EXCEPT ![o] = Idle]
    /\ UNCHANGED <<ledgerVars, order, call, bank, booked, sweep, stopped, crashes>>

-----------------------------------------------------------------------------
(* The sweep: a day later the call is over.                                *)
Old(c) == call[c].pc \in {"done", "crashed"}

ExpireOrder(c) ==
    /\ order[c].status = "charging" /\ Old(c)
    /\ SetOrder(c, "expired")
    /\ sweep' = sweep \cup {c}
    /\ UNCHANGED <<ledgerVars, call, bank, handler, booked, review, stopped, crashes>>

ExpireRow(c) ==
    /\ c \in sweep
    /\ IF RowUnderWay(c) THEN CloseReservation(c) ELSE UNCHANGED ledgerVars
    /\ sweep' = sweep \ {c}
    /\ UNCHANGED <<order, call, bank, handler, booked, review, stopped, crashes>>

-----------------------------------------------------------------------------
(* A process stops.  stopped records when nobody else takes over: the row  *)
(* has no order yet, the call has closed its order, the handler has        *)
(* claimed it, or the sweep has expired it.                                *)
Crash(what) ==
    /\ what \in Crashable
    /\ crashes < MaxCrashes
    /\ crashes' = crashes + 1

CrashCall(c) ==
    /\ Crash("call")
    /\ call[c].pc \in {"reserved", "ordered", "asked", "answered"}
    /\ Goto(c, "crashed")
    /\ stopped' = IF ~pay[c].gid \/ order[c].status \in {"paid", "failed"}
                  THEN stopped \cup {c} ELSE stopped
    /\ UNCHANGED <<ledgerVars, order, bank, handler, booked, review, sweep>>

CrashHandler(o) ==
    /\ Crash("handler")
    /\ ~Handling(o, "idle")
    /\ handler' = [handler EXCEPT ![o] = Idle]
    /\ stopped' = stopped \cup {o}
    /\ UNCHANGED <<ledgerVars, order, call, bank, booked, review, sweep>>

CrashSweep(c) ==
    /\ Crash("sweep")
    /\ c \in sweep
    /\ sweep' = sweep \ {c}
    /\ stopped' = stopped \cup {c}
    /\ UNCHANGED <<ledgerVars, order, call, bank, handler, booked, review>>

-----------------------------------------------------------------------------
(* The staff register cash.                                                *)
OthersStep ==
    /\ \E p \in Cash, a \in 1..Total, override \in BOOLEAN : MarkPaid(p, a, override, FALSE)
    /\ UNCHANGED redsysVars

CallStep(c) ==
    \/ Reserve(c) \/ CardOnFileDisabled(c) \/ CreateCharging(c) \/ Stamp(c)
    \/ NoAnswer(c) \/ ErrorCode(c) \/ Resolve(c) \/ Finalize(c) \/ Throws(c)

PageStep(o) == ReadDue(o) \/ Offer(o)

HandlerStep(o) ==
    \/ Claim(o) \/ CountRow(o) \/ SyncRow(o)
    \/ Split(o) \/ ApplyPart(o) \/ RefusePart(o)

SweepStep(c) == ExpireOrder(c) \/ ExpireRow(c)

Next ==
    \/ \E c \in Charges : CallStep(c) \/ SweepStep(c) \/ CrashCall(c) \/ CrashSweep(c)
    \/ \E o \in Redirects : PageStep(o)
    \/ \E o \in Orders : BankDecides(o) \/ HandlerStep(o) \/ CrashHandler(o)
    \/ OthersStep

Spec == RedsysInit /\ [][Next]_vars

(* A call that began runs to its end, a decision is notified until it is   *)
(* accepted and its handler finishes, and the cron keeps sweeping.  The    *)
(* bank, the customer and the staff need not do anything.                  *)
Fairness ==
    /\ \A c \in Charges : WF_vars(~At(c, "idle") /\ CallStep(c)) /\ WF_vars(SweepStep(c))
    /\ \A o \in Orders : WF_vars(HandlerStep(o))

FairSpec == Spec /\ Fairness

-----------------------------------------------------------------------------
OrderRow   == [status : Claimable \cup {"none", "paid", "failed"}, amount : Nat]
CallRow    == [pc : {"idle", "reserved", "ordered", "asked", "answered", "read", "done",
                     "crashed"},
               amount : Nat,
               result : {"none", "succeeded", "failed", "unknown"}]
HandlerRow == [pc : {"idle", "claimed", "sync", "split", "apply"}, parts : Seq(Nat)]

(* Type invariant of the orders and of the processes around them.          *)
RedsysTypeOK ==
    /\ TypeOK
    /\ order \in [Orders -> OrderRow]
    /\ call \in [Orders -> CallRow]
    /\ bank \in [Orders -> {"none", "approved", "declined", "refused"}]
    /\ handler \in [Orders -> HandlerRow]
    /\ booked \in [Orders -> SUBSET Receipts]
    /\ review \subseteq Orders
    /\ sweep \subseteq Charges
    /\ stopped \subseteq Orders
    /\ crashes \in Nat

(* Cents of the invoice that stand for an order: its payment row, or the   *)
(* receipts that its notification registered.                              *)
BookedByRow(o) == IF o \in Charges /\ pay[o].status \in Settled THEN pay[o].amount ELSE 0
BookedByNotification(o) == SumFunctionOnSet([p \in Payments |-> pay[p].amount], booked[o])

(* An order is booked once: by the answer of the call or by the            *)
(* notification, never by both, never for more than it charged, however    *)
(* the two race with each other, with repeats and with the expiry.         *)
OrderBookedOnce ==
    \A o \in Orders : BookedByRow(o) + BookedByNotification(o) <= order[o].amount

(* No phantom money: only what the bank approved is booked.                *)
BookedWasApproved ==
    \A o \in Orders :
        (o \in Charges /\ pay[o].status \in Settled) \/ booked[o] # {} => bank[o] = "approved"

(* amountPaid is the money of the payments that count as collected.        *)
PaidIsBooked == inv.paid = Sum(Settled)

Accounted(o) ==
    \/ BookedByRow(o) + BookedByNotification(o) = order[o].amount
    \/ o \in review \cup stopped

AtRest ==
    /\ \A o \in Orders : /\ call[o].pc \in {"idle", "done", "crashed"}
                         /\ Handling(o, "idle")
                         /\ bank[o] \in {"approved", "declined"} =>
                               order[o].status \notin Claimable
    /\ sweep = {}

(* When calls, notifications and sweep have come to rest, every approved   *)
(* payment is booked in full or put before the staff, also when the answer *)
(* was lost, the invoice changed meanwhile, the order was replaced or      *)
(* expired, or the call stopped; unless a process stopped after it had     *)
(* taken the order.                                                        *)
AccountedAtRest == AtRest => \A o \in Orders : bank[o] = "approved" => Accounted(o)

(* The reservation of a charge does not block the invoice for ever.        *)
EveryReservationCloses ==
    \A c \in Charges :
        pay[c].status = "processing" ~> (pay[c].status # "processing" \/ c \in stopped)

=============================================================================
