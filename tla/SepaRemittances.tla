-------------------------- MODULE SepaRemittances --------------------------
(***************************************************************************)
(* SEPA remittances as processes, over the transactions of InvoiceLedger:  *)
(* the staff confirm a remittance, one debit at a time, resume a           *)
(* confirmation that was cut short, and mark the debits that the bank      *)
(* returned.                                                               *)
(*                                                                         *)
(*   sepa.service.ts                 confirmRemittance, claimConfirmation  *)
(*   bank-reconciliation.service.ts  markReturn                            *)
(*                                                                         *)
(* One invoice is followed, so a remittance has one item.  A confirmation  *)
(* is a sequence of transactions, each on what the previous ones read:     *)
(*   Read -> Claim or Resume -> List -> Look -> Receipt -> Set             *)
(* A remittance may be resumed five minutes after it was last claimed;     *)
(* FiveMinutesPass lets them pass at any moment.  `overlapped` records the *)
(* remittances whose confirmation was still running by then: the code      *)
(* takes such a confirmation for dead.                                     *)
(*                                                                         *)
(* Mandates and their FRST/RCUR sequence are not modelled.                 *)
(***************************************************************************)
EXTENDS InvoiceLedger

CONSTANTS
    Confirms,    \* requests of confirmRemittance
    Returns,     \* requests of markReturn
    Cash,        \* receipts that the staff register; the rest are the confirmations'
    NoRemittance, \* "none yet", for a request that has not read its remittance
    MaxStops     \* bound: how many confirmations stop half-way

ASSUME SepaAssumption ==
    /\ Cash \subseteq Receipts
    /\ NoRemittance \notin Remittances
    /\ MaxStops \in Nat

VARIABLES
    rejected,    \* remittances whose debit the bank rejected: every request says so
    claims,      \* per remittance: how often it was claimed (a value of confirmedAt)
    aged,        \* remittances last claimed over five minutes ago
    overlapped,  \* remittances still being confirmed when they aged
    noted,       \* per remittance: receipts whose note has the item's endToEndId
    conf,        \* confirmRemittance: where it is, its remittance, what it read
    line,        \* per remittance: the bank statement's line that returns its debit
    ret,         \* markReturn: where it is, and the line it works on
    stops

sepaVars == <<rejected, claims, aged, overlapped, noted, conf, line, ret, stops>>
vars == <<ledgerVars, sepaVars>>

IdleConf == [pc |-> "idle", r |-> NoRemittance, status |-> "none", claim |-> 0,
             outcome |-> "none"]
IdleReturn == [pc |-> "idle", r |-> NoRemittance]

SepaInit ==
    /\ Init
    /\ rejected \in SUBSET Remittances
    /\ claims = [r \in Remittances |-> 0]
    /\ aged = {}
    /\ overlapped = {}
    /\ noted = [r \in Remittances |-> {}]
    /\ conf = [k \in Confirms |-> IdleConf]
    /\ line = [r \in Remittances |-> "none"]
    /\ ret = [s \in Returns |-> IdleReturn]
    /\ stops = 0

At(k, pc)   == conf[k].pc = pc
Goto(k, pc) == conf' = [conf EXCEPT ![k].pc = pc]
Finish(k)   == conf' = [conf EXCEPT ![k] = [IdleConf EXCEPT !.pc = "done"]]
Working     == {"claimed", "listed", "receipt", "set"}
Confirming(r) == \E k \in Confirms : conf[k].r = r /\ conf[k].pc \in Working

-----------------------------------------------------------------------------
(* Variants of definitions below, each with the slip that one property     *)
(* must notice.  No action of the specification uses them.                 *)
SameClaimUnchecked(k) == conf[k].claim <= claims[conf[k].r]

ReceiptedNever(r) == r \notin Remittances

ClaimLineAgain(s) ==
    /\ ret[s].pc = "idle"
    /\ \E r \in Remittances :
          /\ line[r] # "none"
          /\ line' = [line EXCEPT ![r] = "returned"]
          /\ ret' = [ret EXCEPT ![s] = [pc |-> "claimed", r |-> r]]
    /\ UNCHANGED <<ledgerVars, rejected, claims, aged, overlapped, noted, conf, stops>>

ReceiptRefusedUnread(k) ==
    /\ conf[k].pc = "receipt"
    /\ inv.status \notin Payable \/ inv.paid + remit[conf[k].r].amount > Total
    /\ conf' = [conf EXCEPT ![k].pc = "set", ![k].outcome = inv.status]
    /\ UNCHANGED <<ledgerVars, rejected, claims, aged, overlapped, noted, line, ret, stops>>

-----------------------------------------------------------------------------
(* claimConfirmation                                                       *)

(* findOrThrow: the status and confirmedAt that Resume compares with.      *)
Read(k) ==
    /\ At(k, "idle")
    /\ \E r \in Remittances :
          /\ remit[r].status # "none"
          /\ conf' = [conf EXCEPT ![k] = [pc |-> "read", r |-> r, status |-> remit[r].status,
                                          claim |-> claims[r], outcome |-> "none"]]
    /\ UNCHANGED <<ledgerVars, rejected, claims, aged, overlapped, noted, line, ret, stops>>

Reclaim(r) ==
    /\ claims' = [claims EXCEPT ![r] = @ + 1]
    /\ aged' = aged \ {r}

Claim(k) ==
    /\ At(k, "read")
    /\ ClaimRemittance(conf[k].r)
    /\ Reclaim(conf[k].r)
    /\ Goto(k, "claimed")
    /\ UNCHANGED <<rejected, overlapped, noted, line, ret, stops>>

(* It was already confirmed when it was read, over five minutes ago, and   *)
(* its item is still pending.                                              *)
MayResume(k) ==
    LET r == conf[k].r IN
    /\ At(k, "read")
    /\ remit[r].status # "generated"
    /\ conf[k].status = "confirmed"
    /\ remit[r].item = "pending"
    /\ r \in aged \/ claims[r] # conf[k].claim

CheckPending(k) ==
    /\ MayResume(k)
    /\ Goto(k, "resumable")
    /\ UNCHANGED <<ledgerVars, rejected, claims, aged, overlapped, noted, line, ret, stops>>

(* Only while confirmedAt is the one that was read.                        *)
SameClaim(k) == claims[conf[k].r] = conf[k].claim

Resume(k) ==
    /\ At(k, "resumable")
    /\ SameClaim(k)
    /\ Reclaim(conf[k].r)
    /\ Goto(k, "claimed")
    /\ UNCHANGED <<ledgerVars, rejected, overlapped, noted, line, ret, stops>>

(* 400: confirming, or not confirmable.                                    *)
Refuse(k) ==
    /\ \/ At(k, "read") /\ remit[conf[k].r].status # "generated" /\ ~MayResume(k)
       \/ At(k, "resumable") /\ ~SameClaim(k)
    /\ Finish(k)
    /\ UNCHANGED <<ledgerVars, rejected, claims, aged, overlapped, noted, line, ret, stops>>

-----------------------------------------------------------------------------
(* confirmRemittance, after the claim                                      *)

(* The pending items; those the staff say the bank rejected are failed.    *)
List(k) ==
    /\ At(k, "claimed")
    /\ IF remit[conf[k].r].item = "pending"
       THEN IF conf[k].r \in rejected
            THEN conf' = [conf EXCEPT ![k].pc = "set", ![k].outcome = "failed"]
            ELSE Goto(k, "listed")
       ELSE Finish(k)
    /\ UNCHANGED <<ledgerVars, rejected, claims, aged, overlapped, noted, line, ret, stops>>

(* Was the receipt registered by a confirmation that was cut short?        *)
Receipted(r) == noted[r] # {}

Look(k) ==
    /\ At(k, "listed")
    /\ IF Receipted(conf[k].r)
       THEN conf' = [conf EXCEPT ![k].pc = "set", ![k].outcome = "collected"]
       ELSE Goto(k, "receipt")
    /\ UNCHANGED <<ledgerVars, rejected, claims, aged, overlapped, noted, line, ret, stops>>

RegisterReceipt(k) ==
    /\ At(k, "receipt")
    /\ \E p \in Receipts \ Cash :
          /\ MarkPaid(p, remit[conf[k].r].amount, TRUE, TRUE)
          /\ noted' = [noted EXCEPT ![conf[k].r] = @ \cup {p}]
    /\ conf' = [conf EXCEPT ![k].pc = "set", ![k].outcome = "collected"]
    /\ UNCHANGED <<rejected, claims, aged, overlapped, line, ret, stops>>

(* The invoice was settled by another way: the bank's money must go back.  *)
ReceiptRefused(k) ==
    /\ At(k, "receipt")
    /\ inv.status \notin Payable \/ inv.paid + remit[conf[k].r].amount > Total
    /\ conf' = [conf EXCEPT ![k].pc = "set", ![k].outcome = "failed"]
    /\ UNCHANGED <<ledgerVars, rejected, claims, aged, overlapped, noted, line, ret, stops>>

Set(k) ==
    /\ At(k, "set")
    /\ SetItemStatus(conf[k].r, conf[k].outcome)
    /\ Finish(k)
    /\ UNCHANGED <<rejected, claims, aged, overlapped, noted, line, ret, stops>>

(* The process stops, or the request is cut.                               *)
Stop(k) ==
    /\ stops < MaxStops
    /\ conf[k].pc \in Working
    /\ stops' = stops + 1
    /\ Finish(k)
    /\ UNCHANGED <<ledgerVars, rejected, claims, aged, overlapped, noted, line, ret>>

(* They matter only while the item waits: nobody resumes afterwards.       *)
FiveMinutesPass(r) ==
    /\ claims[r] > 0 /\ r \notin aged
    /\ remit[r].item = "pending"
    /\ aged' = aged \cup {r}
    /\ overlapped' = IF Confirming(r) THEN overlapped \cup {r} ELSE overlapped
    /\ UNCHANGED <<ledgerVars, rejected, claims, noted, conf, line, ret, stops>>

-----------------------------------------------------------------------------
(* Returned debits: markReturn                                             *)

(* The bank sends back the debit of a remittance, or charges its rejection;*)
(* the statement is imported.                                              *)
BankReturns(r) ==
    /\ line[r] = "none"
    /\ remit[r].item \in {"collected", "failed"}
    /\ line' = [line EXCEPT ![r] = "pending"]
    /\ UNCHANGED <<ledgerVars, rejected, claims, aged, overlapped, noted, conf, ret, stops>>

RetAt(s, pc) == ret[s].pc = pc
RetGoto(s, pc) == ret' = [ret EXCEPT ![s].pc = pc]
RetFinish(s)   == ret' = [ret EXCEPT ![s] = [IdleReturn EXCEPT !.pc = "done"]]

(* Whoever moves the line out of 'pending' works on it.                     *)
ClaimLine(s) ==
    /\ RetAt(s, "idle")
    /\ \E r \in Remittances :
          /\ line[r] = "pending"
          /\ line' = [line EXCEPT ![r] = "returned"]
          /\ ret' = [ret EXCEPT ![s] = [pc |-> "claimed", r |-> r]]
    /\ UNCHANGED <<ledgerVars, rejected, claims, aged, overlapped, noted, conf, stops>>

(* A succeeded payment of that amount fails.                               *)
Revert(s) ==
    /\ RetAt(s, "claimed")
    /\ \E p \in Payments :
          pay[p].amount = remit[ret[s].r].amount /\ RevertPayment(p, FALSE)
    /\ RetGoto(s, "reverted")
    /\ UNCHANGED <<rejected, claims, aged, overlapped, noted, conf, line, stops>>

(* Nothing to take back: the line is released.                             *)
RevertRefused(s) ==
    /\ RetAt(s, "claimed")
    /\ inv.paid = 0
    /\ line' = [line EXCEPT ![ret[s].r] = "pending"]
    /\ RetFinish(s)
    /\ UNCHANGED <<ledgerVars, rejected, claims, aged, overlapped, noted, conf, stops>>

(* markSepaItemReturned: the collected item of the invoice.                *)
MarkReturned(s) ==
    /\ RetAt(s, "reverted")
    /\ IF \E r \in Remittances : remit[r].item = "collected"
       THEN \E r \in Remittances : ReturnItem(r)
       ELSE UNCHANGED ledgerVars
    /\ RetFinish(s)
    /\ UNCHANGED <<rejected, claims, aged, overlapped, noted, conf, line, stops>>

-----------------------------------------------------------------------------
(* The staff make and cancel remittances, register cash and transfers, and *)
(* undo a transfer that was matched by mistake.                            *)
OthersStep ==
    /\ \/ \E r \in Remittances : CreateRemittance(r) \/ CancelRemittance(r)
       \/ \E p \in Cash, a \in 1..Total, allow \in BOOLEAN : MarkPaid(p, a, FALSE, allow)
       \/ \E p \in Cash : RevertPayment(p, TRUE)
    /\ UNCHANGED sepaVars

ConfirmStep(k) ==
    \/ Read(k) \/ Claim(k) \/ CheckPending(k) \/ Resume(k) \/ Refuse(k) \/ List(k)
    \/ Look(k) \/ RegisterReceipt(k) \/ ReceiptRefused(k) \/ Set(k) \/ Stop(k)

ReturnStep(s) ==
    ClaimLine(s) \/ Revert(s) \/ RevertRefused(s) \/ MarkReturned(s)

Next ==
    \/ \E k \in Confirms : ConfirmStep(k)
    \/ \E s \in Returns : ReturnStep(s)
    \/ \E r \in Remittances : FiveMinutesPass(r) \/ BankReturns(r)
    \/ OthersStep

Spec == SepaInit /\ [][Next]_vars

-----------------------------------------------------------------------------
MaybeRemittance == Remittances \cup {NoRemittance}
ConfRow == [pc : Working \cup {"idle", "read", "resumable", "done"},
            r : MaybeRemittance,
            status : {"none", "generated", "confirmed", "cancelled"},
            claim : Nat,
            outcome : {"none", "collected", "failed"}]
ReturnRow == [pc : {"idle", "claimed", "reverted", "done"}, r : MaybeRemittance]

(* Type invariant of the remittances' processes.                           *)
SepaTypeOK ==
    /\ TypeOK
    /\ rejected \subseteq Remittances
    /\ claims \in [Remittances -> Nat]
    /\ aged \subseteq Remittances
    /\ overlapped \subseteq Remittances
    /\ noted \in [Remittances -> SUBSET Receipts]
    /\ conf \in [Confirms -> ConfRow]
    /\ line \in [Remittances -> {"none", "pending", "returned"}]
    /\ ret \in [Returns -> ReturnRow]
    /\ stops \in Nat

(* A debit is registered at most once, also when the confirmation stops    *)
(* after registering it and another one resumes, or two requests resume at *)
(* the same time.  Only a confirmation still running after five minutes    *)
(* escapes it.                                                             *)
ReceiptedOnce ==
    \A r \in Remittances \ overlapped : Cardinality(noted[r]) <= 1

(* The staff send back the bank's money of a 'failed' item and keep that   *)
(* of a 'collected' one: the item says so exactly when its receipt was     *)
(* registered, however confirmations stop and resume.                      *)
ItemTellsTheTruth ==
    \A r \in Remittances \ overlapped :
        /\ remit[r].item = "failed" => noted[r] = {}
        /\ remit[r].item = "collected" => noted[r] # {}

(* The invoice is in one remittance at a time: what the bank is asked for, *)
(* or has collected and not returned.                                      *)
RemittedOnce ==
    overlapped = {} =>
        \A q, r \in Remittances :
            remit[q].item \in {"pending", "collected"}
            /\ remit[r].item \in {"pending", "collected"} => q = r

(* Two people marking the same line of the statement take the money back   *)
(* once.                                                                   *)
ReturnedOnce ==
    Cardinality({p \in Payments : pay[p].returned})
        <= Cardinality({r \in Remittances : line[r] = "returned"})

=============================================================================
