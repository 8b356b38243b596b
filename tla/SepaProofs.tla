----------------------------- MODULE SepaProofs -----------------------------
(***************************************************************************)
(* Proofs about SepaRemittances, for any number of remittances,            *)
(* confirmations, returns and stops: every step is a transaction of the    *)
(* ledger, a debit is registered at most once, its item says whether it    *)
(* was, a returned debit is taken back once, and amountPaid is what the    *)
(* payments add up to.                                                     *)
(***************************************************************************)
EXTENDS SepaRemittances, InvoiceLedgerProofs, FiniteSetTheorems

-----------------------------------------------------------------------------
(* What a confirmation is sure of: its remittance exists, it was read with *)
(* no more claims than there are, and only a confirmed one is worked on.   *)
Sound(k) ==
    LET r == conf[k].r IN
    /\ conf[k].pc \notin {"idle", "done"} =>
          r \in Remittances /\ remit[r].status # "none" /\ conf[k].claim <= claims[r]
    /\ conf[k].pc \in Working \cup {"resumable"} => remit[r].status = "confirmed"
    /\ conf[k].pc = "read" /\ conf[k].status = "confirmed" => remit[r].status = "confirmed"
    /\ conf[k].pc = "set" => conf[k].outcome \in {"collected", "failed"}

SoundReturn(s) == ret[s].pc \in {"claimed", "reverted"} => ret[s].r \in Remittances

SepaTypesInv ==
    SepaTypeOK /\ (\A k \in Confirms : Sound(k)) /\ \A s \in Returns : SoundReturn(s)

(* Of the remittances whose confirmation never overran the five minutes,   *)
(* one confirmation at a time works on each.  Nobody works on one that has *)
(* aged, and it must age before it is resumed; the item waits until its    *)
(* confirmation sets it, and the receipt agrees with what it is about to   *)
(* set.                                                                    *)
Alone(k) ==
    LET r == conf[k].r IN
    r \notin overlapped =>
        /\ conf[k].pc \in Working =>
              r \notin aged /\ \A j \in Confirms :
                                  conf[j].pc \in Working /\ conf[j].r = r => j = k
        /\ conf[k].pc = "resumable" /\ claims[r] = conf[k].claim => r \in aged
        /\ conf[k].pc \in {"listed", "receipt", "set"} => remit[r].item = "pending"
        /\ conf[k].pc \in {"listed", "receipt"} => r \notin rejected
        /\ conf[k].pc = "receipt" => noted[r] = {}
        /\ conf[k].pc = "set" => (conf[k].outcome = "collected" <=> noted[r] # {})

Agrees(r) ==
    r \notin overlapped =>
        /\ \A p, q \in noted[r] : p = q
        /\ noted[r] # {} => r \notin rejected
        /\ remit[r].item = "failed" => noted[r] = {}
        /\ remit[r].item = "collected" => noted[r] # {}

SepaInv == SepaTypesInv /\ (\A k \in Confirms : Alone(k)) /\ \A r \in Remittances : Agrees(r)

-----------------------------------------------------------------------------
(* Every step is a transaction of the ledger, or leaves its rows alone.    *)

LEMMA MarkPaidIsLedger ==
    ASSUME TypeOK, NEW p \in Receipts, NEW a \in Nat, NEW override \in BOOLEAN,
           NEW inRemittance \in BOOLEAN, MarkPaid(p, a, override, inRemittance)
    PROVE  LedgerNext
<1>1. inv.paid \in Nat /\ Total \in Nat
  BY LedgerAssumption DEF TypeOK, InvoiceRow
<1>2. a \in 1..Total
  BY <1>1 DEF MarkPaid
<1> QED
  BY <1>2 DEF LedgerNext, OtherStep, ReceiptStep

LEMMA RemittanceIsLedger ==
    ASSUME NEW r \in Remittances, RemittanceStep(r)
    PROVE  LedgerNext
BY DEF LedgerNext, OtherStep

LEMMA GiveBackIsLedger ==
    ASSUME NEW p \in Payments, NEW undo \in BOOLEAN, RevertPayment(p, undo)
    PROVE  LedgerNext
BY DEF LedgerNext, OtherStep, GiveBackStep

LEMMA ConfirmStepIsLedger ==
    ASSUME SepaTypesInv, NEW k \in Confirms, ConfirmStep(k)
    PROVE  LedgerNext \/ UNCHANGED ledgerVars
<1>a. TypeOK /\ Sound(k)
  BY DEF SepaTypesInv, SepaTypeOK
<1>1. CASE Claim(k)
  BY <1>a, <1>1, RemittanceIsLedger DEF Claim, At, Sound, RemittanceStep
<1>2. CASE RegisterReceipt(k)
  <2>1. conf[k].r \in Remittances
    BY <1>a, <1>2 DEF RegisterReceipt, At, Sound
  <2>2. remit[conf[k].r].amount \in Nat
    BY <1>a, <2>1 DEF TypeOK, RemittanceRow
  <2> QED
    BY <1>a, <1>2, <2>2, MarkPaidIsLedger DEF RegisterReceipt
<1>3. CASE Set(k)
  BY <1>a, <1>3, RemittanceIsLedger DEF Set, At, Sound, Working, RemittanceStep
<1>4. CASE ~(Claim(k) \/ RegisterReceipt(k) \/ Set(k))
  BY <1>4 DEF ConfirmStep, Read, CheckPending, Resume, Refuse, List, Look, ReceiptRefused, Stop
<1> QED
  BY <1>1, <1>2, <1>3, <1>4

LEMMA ReturnStepIsLedger ==
    ASSUME SepaTypesInv, NEW s \in Returns, ReturnStep(s)
    PROVE  LedgerNext \/ UNCHANGED ledgerVars
<1>1. CASE Revert(s)
  BY <1>1, GiveBackIsLedger DEF Revert
<1>2. CASE MarkReturned(s)
  BY <1>2, RemittanceIsLedger DEF MarkReturned, RemittanceStep
<1>3. CASE ClaimLine(s) \/ RevertRefused(s)
  BY <1>3 DEF ClaimLine, RevertRefused
<1> QED
  BY <1>1, <1>2, <1>3 DEF ReturnStep

LEMMA OthersStepIsLedger ==
    ASSUME SepaTypesInv, OthersStep
    PROVE  LedgerNext
<1>1. CASE \E r \in Remittances : CreateRemittance(r) \/ CancelRemittance(r)
  BY <1>1, RemittanceIsLedger DEF RemittanceStep
<1>2. CASE \E p \in Cash, a \in 1..Total, allow \in BOOLEAN : MarkPaid(p, a, FALSE, allow)
  BY <1>2, SepaAssumption DEF LedgerNext, OtherStep, ReceiptStep
<1>3. CASE \E p \in Cash : RevertPayment(p, TRUE)
  BY <1>3, SepaAssumption, GiveBackIsLedger DEF Payments
<1> QED
  BY <1>1, <1>2, <1>3 DEF OthersStep

LEMMA StepIsLedger ==
    ASSUME SepaTypesInv, [Next]_vars
    PROVE  [LedgerNext]_ledgerVars
<1>1. ASSUME NEW r \in Remittances, FiveMinutesPass(r) \/ BankReturns(r)
      PROVE  UNCHANGED ledgerVars
  BY <1>1 DEF FiveMinutesPass, BankReturns
<1>2. CASE UNCHANGED vars
  BY <1>2 DEF vars
<1> QED
  BY <1>1, <1>2, ConfirmStepIsLedger, ReturnStepIsLedger, OthersStepIsLedger DEF Next

-----------------------------------------------------------------------------
(* What the steps of a confirmation write.                                 *)
ConfFine == conf \in [Confirms -> ConfRow]

LEMMA GotoWrites ==
    ASSUME ConfFine, NEW k \in Confirms, NEW pc, Goto(k, pc)
    PROVE  /\ conf'[k].pc = pc /\ conf'[k].r = conf[k].r /\ conf'[k].claim = conf[k].claim
           /\ conf'[k].outcome = conf[k].outcome /\ conf'[k].status = conf[k].status
           /\ \A j \in Confirms \ {k} : conf'[j] = conf[j]
           /\ pc \in Working \cup {"read", "resumable"} => ConfFine'
<1>1. conf[k] \in ConfRow
  BY DEF ConfFine
<1> DEFINE row == [conf[k] EXCEPT !.pc = pc]
<1>2. /\ row.pc = pc /\ row.r = conf[k].r /\ row.claim = conf[k].claim
      /\ row.outcome = conf[k].outcome /\ row.status = conf[k].status
      /\ pc \in Working \cup {"read", "resumable"} => row \in ConfRow
  BY <1>1 DEF ConfRow
<1>3. conf' = [conf EXCEPT ![k] = row]
  BY DEF Goto
<1> HIDE DEF row
<1> QED
  BY <1>2, <1>3 DEF ConfFine

LEMMA SetWrites ==
    ASSUME ConfFine, NEW k \in Confirms, NEW outcome \in {"collected", "failed"},
           conf' = [conf EXCEPT ![k].pc = "set", ![k].outcome = outcome]
    PROVE  /\ conf'[k].pc = "set" /\ conf'[k].r = conf[k].r /\ conf'[k].claim = conf[k].claim
           /\ conf'[k].outcome = outcome
           /\ \A j \in Confirms \ {k} : conf'[j] = conf[j]
           /\ ConfFine'
<1>1. conf[k] \in ConfRow
  BY DEF ConfFine
<1> DEFINE row == [conf[k] EXCEPT !.pc = "set", !.outcome = outcome]
<1>2. /\ row.pc = "set" /\ row.r = conf[k].r /\ row.claim = conf[k].claim
      /\ row.outcome = outcome /\ row \in ConfRow
  BY <1>1 DEF ConfRow, Working
<1>3. conf' = [conf EXCEPT ![k] = row]
  OBVIOUS
<1> HIDE DEF row
<1> QED
  BY <1>2, <1>3 DEF ConfFine

LEMMA FinishWrites ==
    ASSUME ConfFine, NEW k \in Confirms, Finish(k)
    PROVE  /\ conf'[k].pc = "done"
           /\ \A j \in Confirms \ {k} : conf'[j] = conf[j]
           /\ ConfFine'
<1> DEFINE row == [IdleConf EXCEPT !.pc = "done"]
<1>1. row.pc = "done" /\ row \in ConfRow
  BY DEF IdleConf, ConfRow, MaybeRemittance
<1>2. conf' = [conf EXCEPT ![k] = row]
  BY DEF Finish
<1> HIDE DEF row
<1> QED
  BY <1>1, <1>2 DEF ConfFine

LEMMA ReadWrites ==
    ASSUME SepaTypesInv, NEW k \in Confirms, Read(k)
    PROVE  \E r \in Remittances :
              /\ remit[r].status # "none"
              /\ conf'[k].pc = "read" /\ conf'[k].r = r /\ conf'[k].claim = claims[r]
              /\ conf'[k].status = remit[r].status
              /\ \A j \in Confirms \ {k} : conf'[j] = conf[j]
              /\ ConfFine'
<1>1. PICK r \in Remittances :
          /\ remit[r].status # "none"
          /\ conf' = [conf EXCEPT ![k] = [pc |-> "read", r |-> r, status |-> remit[r].status,
                                          claim |-> claims[r], outcome |-> "none"]]
  BY DEF Read
<1> DEFINE row == [pc |-> "read", r |-> r, status |-> remit[r].status,
                   claim |-> claims[r], outcome |-> "none"]
<1>2. remit[r].status \in {"none", "generated", "confirmed", "cancelled"} /\ claims[r] \in Nat
      /\ ConfFine
  BY DEF SepaTypesInv, SepaTypeOK, TypeOK, RemittanceRow, ConfFine
<1>3. row \in ConfRow /\ row.pc = "read" /\ row.r = r /\ row.claim = claims[r]
      /\ row.status = remit[r].status
  BY <1>2 DEF ConfRow, MaybeRemittance
<1>4. conf' = [conf EXCEPT ![k] = row]
  BY <1>1
<1> HIDE DEF row
<1> QED
  BY <1>1, <1>2, <1>3, <1>4 DEF ConfFine

(* The items and the statuses of the remittances: what the ledger writes.  *)
LEMMA ClaimWrites ==
    ASSUME TypeOK, NEW r \in Remittances, ClaimRemittance(r)
    PROVE  /\ remit[r].status = "generated" /\ remit'[r].status = "confirmed"
           /\ remit'[r].item = remit[r].item
           /\ \A q \in Remittances \ {r} : remit'[q] = remit[q]
BY DEF ClaimRemittance, TypeOK, RemittanceRow

LEMMA SetItemWrites ==
    ASSUME TypeOK, NEW r \in Remittances, NEW status, SetItemStatus(r, status)
    PROVE  /\ remit'[r].status = remit[r].status /\ remit'[r].item = status
           /\ \A q \in Remittances \ {r} : remit'[q] = remit[q]
BY DEF SetItemStatus, TypeOK, RemittanceRow

(* A transaction of the others: it makes a remittance, cancels one nobody  *)
(* works on, returns a collected item, or touches none.                    *)
LEMMA OthersWrite ==
    ASSUME TypeOK, NEW r \in Remittances, OthersStep \/ (\E s \in Returns : ReturnStep(s))
    PROVE  \/ remit'[r] = remit[r]
           \/ /\ remit[r].status = "none"
              /\ remit'[r].status = "generated" /\ remit'[r].item = "pending"
           \/ /\ remit[r].status = "generated"
              /\ remit'[r].status = "cancelled"
              /\ remit'[r].item = IF remit[r].item = "pending" THEN "cancelled"
                                                              ELSE remit[r].item
           \/ /\ remit[r].item = "collected" /\ remit'[r].item = "returned"
              /\ remit'[r].status = remit[r].status
<1>1. CASE UNCHANGED remit
  BY <1>1
<1>2. ASSUME NEW q \in Remittances,
             CreateRemittance(q) \/ CancelRemittance(q) \/ ReturnItem(q)
      PROVE  \/ remit'[r] = remit[r]
             \/ /\ remit[r].status = "none"
                /\ remit'[r].status = "generated" /\ remit'[r].item = "pending"
             \/ /\ remit[r].status = "generated"
                /\ remit'[r].status = "cancelled"
                /\ remit'[r].item = IF remit[r].item = "pending" THEN "cancelled"
                                                                ELSE remit[r].item
             \/ /\ remit[r].item = "collected" /\ remit'[r].item = "returned"
                /\ remit'[r].status = remit[r].status
  <2>0. remit \in [Remittances -> RemittanceRow]
    BY DEF TypeOK
  <2>1. CASE q # r
    BY <1>2, <2>0, <2>1 DEF CreateRemittance, CancelRemittance, ReturnItem
  <2>2. CASE q = r /\ CreateRemittance(r)
    BY <2>0, <2>2 DEF CreateRemittance
  <2>3. CASE q = r /\ CancelRemittance(r)
    BY <2>0, <2>3 DEF CancelRemittance, RemittanceRow
  <2>4. CASE q = r /\ ReturnItem(r)
    BY <2>0, <2>4 DEF ReturnItem, RemittanceRow
  <2> QED
    BY <1>2, <2>1, <2>2, <2>3, <2>4
<1> QED
  BY <1>1, <1>2 DEF OthersStep, MarkPaid, RevertPayment, ReturnStep, ClaimLine, Revert,
     RevertRefused, MarkReturned, ledgerVars

-----------------------------------------------------------------------------
(* The invariant, kept by each step of a confirmation.                     *)
ConfirmsInv == \A k \in Confirms : Sound(k) /\ Alone(k)
ItemsInv    == \A r \in Remittances : Agrees(r)
RestFine    == /\ rejected \subseteq Remittances /\ claims \in [Remittances -> Nat]
               /\ aged \subseteq Remittances /\ overlapped \subseteq Remittances
               /\ noted \in [Remittances -> SUBSET Receipts]
               /\ line \in [Remittances -> {"none", "pending", "returned"}]
               /\ ret \in [Returns -> ReturnRow] /\ (\A s \in Returns : SoundReturn(s))
               /\ stops \in Nat

LEMMA InvParts ==
    SepaInv <=> TypeOK /\ ConfFine /\ RestFine /\ ConfirmsInv /\ ItemsInv
BY DEF SepaInv, SepaTypesInv, SepaTypeOK, ConfFine, RestFine, ConfirmsInv, ItemsInv

(* Steps that only move one confirmation k, of the remittance r.            *)
LEMMA ReadInv ==
    ASSUME SepaInv, NEW k \in Confirms, Read(k)
    PROVE  ConfFine' /\ RestFine' /\ ConfirmsInv' /\ ItemsInv'
<1>a. ConfirmsInv /\ ItemsInv /\ RestFine /\ SepaTypesInv
  BY InvParts DEF SepaInv
<1>1. PICK r \in Remittances :
              /\ remit[r].status # "none"
              /\ conf'[k].pc = "read" /\ conf'[k].r = r /\ conf'[k].claim = claims[r]
              /\ conf'[k].status = remit[r].status
              /\ \A j \in Confirms \ {k} : conf'[j] = conf[j]
              /\ ConfFine'
  BY <1>a, ReadWrites
<1>2. UNCHANGED <<remit, rejected, claims, aged, overlapped, noted, line, ret, stops>>
  BY DEF Read, ledgerVars
<1>3. claims[r] \in Nat
  BY <1>a DEF RestFine
<1>4. Sound(k)' /\ Alone(k)'
  BY <1>1, <1>2, <1>3 DEF Sound, Alone, Working
<1>5. ASSUME NEW j \in Confirms \ {k} PROVE Sound(j)' /\ Alone(j)'
  BY <1>a, <1>1, <1>2 DEF ConfirmsInv, Sound, Alone, Working
<1> QED
  BY <1>a, <1>1, <1>2, <1>4, <1>5 DEF ConfirmsInv, ItemsInv, Agrees, RestFine, SoundReturn

LEMMA ClaimInv ==
    ASSUME SepaInv, NEW k \in Confirms, Claim(k)
    PROVE  ConfFine' /\ RestFine' /\ ConfirmsInv' /\ ItemsInv'
<1>a. ConfirmsInv /\ ItemsInv /\ RestFine /\ ConfFine /\ TypeOK
  BY InvParts
<1> DEFINE r == conf[k].r
<1>1. At(k, "read") /\ ClaimRemittance(r) /\ Reclaim(r) /\ Goto(k, "claimed")
      /\ UNCHANGED <<rejected, overlapped, noted, line, ret, stops>>
  BY DEF Claim
<1>2. r \in Remittances /\ conf[k].claim <= claims[r]
  BY <1>a, <1>1 DEF ConfirmsInv, Sound, At
<1>3. /\ remit[r].status = "generated" /\ remit'[r].status = "confirmed"
      /\ remit'[r].item = remit[r].item
      /\ \A q \in Remittances \ {r} : remit'[q] = remit[q]
  BY <1>a, <1>1, <1>2, ClaimWrites
<1>4. claims' = [claims EXCEPT ![r] = @ + 1] /\ aged' = aged \ {r}
  BY <1>1 DEF Reclaim
<1>5. /\ conf'[k].pc = "claimed" /\ conf'[k].r = r /\ conf'[k].claim = conf[k].claim
      /\ \A j \in Confirms \ {k} : conf'[j] = conf[j]
      /\ ConfFine'
  BY <1>a, <1>1, GotoWrites DEF Working
<1> HIDE DEF r
<1>6. claims' \in [Remittances -> Nat] /\ claims'[r] = claims[r] + 1
      /\ \A q \in Remittances \ {r} : claims'[q] = claims[q]
  BY <1>a, <1>2, <1>4 DEF RestFine
<1>7. conf[k].claim \in Nat /\ claims[r] \in Nat
  BY <1>a, <1>2 DEF ConfFine, ConfRow, RestFine
<1>8. \A j \in Confirms : conf[j].pc \in Working => conf[j].r # r
  BY <1>a, <1>3 DEF ConfirmsInv, Sound
<1>9. Sound(k)' /\ Alone(k)'
  BY <1>2, <1>3, <1>4, <1>5, <1>6, <1>7, <1>8 DEF Sound, Alone, Working
<1>10. ASSUME NEW j \in Confirms \ {k} PROVE Sound(j)' /\ Alone(j)'
  <2>1. Sound(j) /\ Alone(j) /\ conf[j].claim \in Nat /\ UNCHANGED <<overlapped, rejected, noted>>
    BY <1>a, <1>1 DEF ConfirmsInv, ConfFine, ConfRow
  <2>2. CASE conf[j].r = r
    BY <1>2, <1>3, <1>4, <1>5, <1>6, <1>7, <1>8, <2>1, <2>2 DEF Sound, Alone, Working
  <2>3. CASE conf[j].r # r
    BY <1>3, <1>4, <1>5, <1>6, <2>1, <2>3 DEF Sound, Alone, Working
  <2> QED
    BY <2>2, <2>3
<1>11. ItemsInv'
  BY <1>a, <1>1, <1>3 DEF ItemsInv, Agrees
<1> QED
  BY <1>a, <1>1, <1>4, <1>5, <1>6, <1>9, <1>10, <1>11 DEF ConfirmsInv, RestFine, SoundReturn

LEMMA ResumeInv ==
    ASSUME SepaInv, NEW k \in Confirms, Resume(k)
    PROVE  ConfFine' /\ RestFine' /\ ConfirmsInv' /\ ItemsInv'
<1>a. ConfirmsInv /\ ItemsInv /\ RestFine /\ ConfFine /\ TypeOK
  BY InvParts
<1> DEFINE r == conf[k].r
<1>1. At(k, "resumable") /\ SameClaim(k) /\ Reclaim(r) /\ Goto(k, "claimed")
      /\ UNCHANGED <<remit, rejected, overlapped, noted, line, ret, stops>>
  BY DEF Resume, ledgerVars
<1>2. r \in Remittances /\ conf[k].claim = claims[r] /\ remit[r].status = "confirmed"
      /\ (r \notin overlapped => r \in aged)
  BY <1>a, <1>1 DEF ConfirmsInv, Sound, Alone, At, SameClaim
<1>4. claims' = [claims EXCEPT ![r] = @ + 1] /\ aged' = aged \ {r}
  BY <1>1 DEF Reclaim
<1>5. /\ conf'[k].pc = "claimed" /\ conf'[k].r = r /\ conf'[k].claim = conf[k].claim
      /\ \A j \in Confirms \ {k} : conf'[j] = conf[j]
      /\ ConfFine'
  BY <1>a, <1>1, GotoWrites DEF Working
<1> HIDE DEF r
<1>6. claims' \in [Remittances -> Nat] /\ claims'[r] = claims[r] + 1
      /\ \A q \in Remittances \ {r} : claims'[q] = claims[q]
  BY <1>a, <1>2, <1>4 DEF RestFine
<1>7. conf[k].claim \in Nat /\ claims[r] \in Nat
  BY <1>a, <1>2 DEF ConfFine, ConfRow, RestFine
<1>8. r \notin overlapped => \A j \in Confirms : conf[j].pc \in Working => conf[j].r # r
  BY <1>a, <1>2 DEF ConfirmsInv, Alone
<1>9. Sound(k)' /\ Alone(k)'
  BY <1>1, <1>2, <1>4, <1>5, <1>6, <1>7, <1>8 DEF Sound, Alone, Working
<1>10. ASSUME NEW j \in Confirms \ {k} PROVE Sound(j)' /\ Alone(j)'
  <2>1. Sound(j) /\ Alone(j) /\ conf[j].claim \in Nat
        /\ UNCHANGED <<remit, overlapped, rejected, noted>>
    BY <1>a, <1>1 DEF ConfirmsInv, ConfFine, ConfRow
  <2>2. CASE conf[j].r = r
    BY <1>2, <1>4, <1>5, <1>6, <1>7, <1>8, <2>1, <2>2 DEF Sound, Alone, Working
  <2>3. CASE conf[j].r # r
    BY <1>4, <1>5, <1>6, <2>1, <2>3 DEF Sound, Alone, Working
  <2> QED
    BY <2>2, <2>3
<1>11. ItemsInv'
  BY <1>a, <1>1 DEF ItemsInv, Agrees
<1> QED
  BY <1>a, <1>1, <1>4, <1>5, <1>6, <1>9, <1>10, <1>11 DEF ConfirmsInv, RestFine, SoundReturn

(* A step of k that writes no row, and starts no work.                     *)
LEMMA MoveInv ==
    ASSUME SepaInv, NEW k \in Confirms, ConfFine',
           \A j \in Confirms \ {k} : conf'[j] = conf[j],
           UNCHANGED <<remit, rejected, claims, aged, overlapped, noted, line, ret>>,
           stops' \in Nat, Sound(k)',
           conf'[k].pc \in Working =>
               conf[k].pc \in Working /\ conf'[k].r = conf[k].r,
           conf'[k].pc \in Working \cup {"resumable"} => Alone(k)'
    PROVE  ConfFine' /\ RestFine' /\ ConfirmsInv' /\ ItemsInv'
<1>a. ConfirmsInv /\ ItemsInv /\ RestFine
  BY InvParts
<1>1. ASSUME NEW j \in Confirms \ {k} PROVE Sound(j)' /\ Alone(j)'
  BY <1>a, <1>1 DEF ConfirmsInv, Sound, Alone
<1>2. Alone(k)'
  BY DEF Alone, Working
<1> QED
  BY <1>a, <1>1, <1>2 DEF ConfirmsInv, ItemsInv, Agrees, RestFine, SoundReturn

(* k is about to set its item: what it must be sure of.                     *)
LEMMA SettingAlone ==
    ASSUME NEW k \in Confirms, NEW r, conf'[k].pc = "set", conf'[k].r = r,
           NEW outcome \in {"collected", "failed"}, conf'[k].outcome = outcome,
           \A j \in Confirms \ {k} : conf'[j] = conf[j],
           r \notin overlapped' =>
              /\ r \notin aged' /\ remit'[r].item = "pending"
              /\ \A j \in Confirms : conf[j].pc \in Working /\ conf[j].r = r => j = k
              /\ outcome = "collected" => noted'[r] # {}
              /\ outcome = "failed" => noted'[r] = {}
    PROVE  Alone(k)'
<1>1. "collected" # "failed"
  OBVIOUS
<1>2. r \notin overlapped' =>
         \A j \in Confirms : conf'[j].pc \in Working /\ conf'[j].r = r => j = k
  OBVIOUS
<1>3. r \notin overlapped' => (conf'[k].outcome = "collected" <=> noted'[r] # {})
  OBVIOUS
<1> QED
  BY <1>2, <1>3 DEF Alone

LEMMA QuietStepsInv ==
    ASSUME SepaInv, NEW k \in Confirms,
           CheckPending(k) \/ Refuse(k) \/ List(k) \/ Look(k) \/ ReceiptRefused(k) \/ Stop(k)
    PROVE  ConfFine' /\ RestFine' /\ ConfirmsInv' /\ ItemsInv'
<1>a. ConfirmsInv /\ ItemsInv /\ RestFine /\ ConfFine /\ TypeOK /\ Sound(k) /\ Alone(k)
  BY InvParts DEF ConfirmsInv
<1>b. UNCHANGED <<remit, rejected, claims, aged, overlapped, noted, line, ret>>
  BY DEF CheckPending, Refuse, List, Look, ReceiptRefused, Stop, ledgerVars
<1>c. stops' \in Nat
  BY <1>a DEF RestFine, CheckPending, Refuse, List, Look, ReceiptRefused, Stop
<1> DEFINE r == conf[k].r
<1>1. ASSUME Finish(k) PROVE ConfFine' /\ RestFine' /\ ConfirmsInv' /\ ItemsInv'
  <2>1. conf'[k].pc = "done" /\ (\A j \in Confirms \ {k} : conf'[j] = conf[j]) /\ ConfFine'
    BY <1>a, <1>1, FinishWrites
  <2>2. Sound(k)' /\ conf'[k].pc \notin Working \cup {"resumable"}
    BY <2>1 DEF Sound, Working
  <2> QED
    BY <1>b, <1>c, <2>1, <2>2, MoveInv
<1>2. CASE CheckPending(k)
  <2>1. MayResume(k) /\ Goto(k, "resumable")
    BY <1>2 DEF CheckPending
  <2>2. /\ conf'[k].pc = "resumable" /\ conf'[k].r = conf[k].r
        /\ conf'[k].claim = conf[k].claim
        /\ \A j \in Confirms \ {k} : conf'[j] = conf[j]
        /\ ConfFine'
    BY <1>a, <2>1, GotoWrites
  <2>3. Sound(k)'
    BY <1>a, <1>b, <2>1, <2>2 DEF MayResume, At, Sound, Working
  <2>4. Alone(k)'
    BY <1>b, <2>1, <2>2 DEF MayResume, Alone, Working
  <2> QED
    BY <1>b, <1>c, <2>2, <2>3, <2>4, MoveInv DEF Working
<1>3. CASE List(k)
  <2>1. CASE Finish(k)
    BY <1>1, <2>1
  <2>2. CASE /\ remit[r].item = "pending" /\ r \in rejected
             /\ conf' = [conf EXCEPT ![k].pc = "set", ![k].outcome = "failed"]
    <3>1. /\ conf'[k].pc = "set" /\ conf'[k].r = conf[k].r /\ conf'[k].claim = conf[k].claim
          /\ conf'[k].outcome = "failed"
          /\ \A j \in Confirms \ {k} : conf'[j] = conf[j]
          /\ ConfFine'
      BY <1>a, <2>2, SetWrites
    <3>2. conf[k].pc = "claimed" /\ r \in Remittances
      BY <1>a, <1>3 DEF List, At, Sound
    <3>3. Agrees(r)
      BY <1>a, <3>2 DEF ItemsInv
    <3>4. Sound(k)'
      BY <1>a, <1>b, <3>1, <3>2 DEF Sound, Working
    <3>5. Alone(k)'
      <4>1. r \notin overlapped => r \notin aged /\ noted[r] = {}
            /\ \A j \in Confirms : conf[j].pc \in Working /\ conf[j].r = r => j = k
        BY <1>a, <2>2, <3>2, <3>3 DEF Alone, Agrees, Working
      <4> HIDE DEF r
      <4> QED
        BY <1>b, <2>2, <3>1, <4>1, SettingAlone DEF r
    <3> QED
      BY <1>b, <1>c, <3>1, <3>2, <3>4, <3>5, MoveInv DEF Working
  <2>3. CASE remit[r].item = "pending" /\ r \notin rejected /\ Goto(k, "listed")
    <3>1. /\ conf'[k].pc = "listed" /\ conf'[k].r = conf[k].r /\ conf'[k].claim = conf[k].claim
          /\ \A j \in Confirms \ {k} : conf'[j] = conf[j]
          /\ ConfFine'
      BY <1>a, <2>3, GotoWrites DEF Working
    <3>2. conf[k].pc = "claimed"
      BY <1>3 DEF List, At
    <3>3. Sound(k)'
      BY <1>a, <1>b, <3>1, <3>2 DEF Sound, Working
    <3>4. Alone(k)'
      BY <1>a, <1>b, <2>3, <3>1, <3>2 DEF Alone, Working
    <3> QED
      BY <1>b, <1>c, <3>1, <3>2, <3>3, <3>4, MoveInv DEF Working
  <2> QED
    BY <1>3, <2>1, <2>2, <2>3 DEF List
<1>4. CASE Look(k)
  <2>0. conf[k].pc = "listed"
    BY <1>4 DEF Look, At
  <2>1. CASE /\ Receipted(r)
             /\ conf' = [conf EXCEPT ![k].pc = "set", ![k].outcome = "collected"]
    <3>1. /\ conf'[k].pc = "set" /\ conf'[k].r = conf[k].r /\ conf'[k].claim = conf[k].claim
          /\ conf'[k].outcome = "collected"
          /\ \A j \in Confirms \ {k} : conf'[j] = conf[j]
          /\ ConfFine'
      BY <1>a, <2>1, SetWrites
    <3>2. Sound(k)'
      BY <1>a, <1>b, <2>0, <3>1 DEF Sound, Working
    <3>3. Alone(k)'
      <4>1. r \notin overlapped => r \notin aged /\ remit[r].item = "pending"
            /\ \A j \in Confirms : conf[j].pc \in Working /\ conf[j].r = r => j = k
        BY <1>a, <2>0 DEF Alone, Working
      <4>2. noted[r] # {}
        BY <2>1 DEF Receipted
      <4> QED
        BY <1>b, <3>1, <4>1, <4>2, SettingAlone
    <3> QED
      BY <1>b, <1>c, <2>0, <3>1, <3>2, <3>3, MoveInv DEF Working
  <2>2. CASE ~Receipted(r) /\ Goto(k, "receipt")
    <3>1. /\ conf'[k].pc = "receipt" /\ conf'[k].r = conf[k].r /\ conf'[k].claim = conf[k].claim
          /\ \A j \in Confirms \ {k} : conf'[j] = conf[j]
          /\ ConfFine'
      BY <1>a, <2>2, GotoWrites DEF Working
    <3>2. Sound(k)'
      BY <1>a, <1>b, <2>0, <3>1 DEF Sound, Working
    <3>3. Alone(k)'
      BY <1>a, <1>b, <2>0, <2>2, <3>1 DEF Alone, Working, Receipted
    <3> QED
      BY <1>b, <1>c, <2>0, <3>1, <3>2, <3>3, MoveInv DEF Working
  <2> QED
    BY <1>4, <2>1, <2>2 DEF Look
<1>5. CASE ReceiptRefused(k)
  <2>0. conf[k].pc = "receipt"
        /\ conf' = [conf EXCEPT ![k].pc = "set", ![k].outcome = "failed"]
    BY <1>5 DEF ReceiptRefused, At
  <2>1. /\ conf'[k].pc = "set" /\ conf'[k].r = conf[k].r /\ conf'[k].claim = conf[k].claim
        /\ conf'[k].outcome = "failed"
        /\ \A j \in Confirms \ {k} : conf'[j] = conf[j]
        /\ ConfFine'
    BY <1>a, <2>0, SetWrites
  <2>2. Sound(k)'
    BY <1>a, <1>b, <2>0, <2>1 DEF Sound, Working
  <2>3. Alone(k)'
    <3>1. r \notin overlapped => r \notin aged /\ remit[r].item = "pending" /\ noted[r] = {}
          /\ \A j \in Confirms : conf[j].pc \in Working /\ conf[j].r = r => j = k
      BY <1>a, <2>0 DEF Alone, Working
    <3> QED
      BY <1>b, <2>1, <3>1, SettingAlone
  <2> QED
    BY <1>b, <1>c, <2>0, <2>1, <2>2, <2>3, MoveInv DEF Working
<1> QED
  BY <1>1, <1>2, <1>3, <1>4, <1>5 DEF Refuse, Stop

LEMMA RegisterInv ==
    ASSUME SepaInv, NEW k \in Confirms, RegisterReceipt(k)
    PROVE  ConfFine' /\ RestFine' /\ ConfirmsInv' /\ ItemsInv'
<1>a. ConfirmsInv /\ ItemsInv /\ RestFine /\ ConfFine /\ TypeOK /\ Sound(k) /\ Alone(k)
  BY InvParts DEF ConfirmsInv
<1> DEFINE r == conf[k].r
<1>1. PICK p \in Receipts : noted' = [noted EXCEPT ![r] = @ \cup {p}]
  BY DEF RegisterReceipt
<1>2. /\ conf[k].pc = "receipt"
      /\ conf' = [conf EXCEPT ![k].pc = "set", ![k].outcome = "collected"]
      /\ UNCHANGED <<remit, rejected, claims, aged, overlapped, line, ret, stops>>
  BY DEF RegisterReceipt, MarkPaid, At
<1>3. /\ conf'[k].pc = "set" /\ conf'[k].r = conf[k].r /\ conf'[k].claim = conf[k].claim
      /\ conf'[k].outcome = "collected"
      /\ \A j \in Confirms \ {k} : conf'[j] = conf[j]
      /\ ConfFine'
  BY <1>a, <1>2, SetWrites
<1>4. r \in Remittances /\ (r \notin overlapped => noted[r] = {} /\ r \notin rejected
                                                 /\ remit[r].item = "pending")
  BY <1>a, <1>2 DEF Sound, Alone
<1> HIDE DEF r
<1>5. noted'[r] = noted[r] \cup {p} /\ (\A q \in Remittances \ {r} : noted'[q] = noted[q])
      /\ noted' \in [Remittances -> SUBSET Receipts]
  BY <1>a, <1>1, <1>4 DEF RestFine
<1>6. Sound(k)' /\ Alone(k)'
  <2>1. r \notin overlapped => r \notin aged
        /\ \A j \in Confirms : conf[j].pc \in Working /\ conf[j].r = r => j = k
    BY <1>a, <1>2 DEF Alone, Working, r
  <2>2. noted'[r] # {}
    BY <1>5
  <2>3. Alone(k)'
    BY <1>2, <1>3, <1>4, <2>1, <2>2, SettingAlone DEF r
  <2> QED
    BY <1>a, <1>2, <1>3, <1>4, <2>3 DEF Sound, Working, r
<1>7. ASSUME NEW j \in Confirms \ {k} PROVE Sound(j)' /\ Alone(j)'
  <2>1. Sound(j) /\ Alone(j)
    BY <1>a DEF ConfirmsInv
  <2>2. conf[j].pc \in Working /\ r \notin overlapped => conf[j].r # r
    BY <1>a, <1>2 DEF Alone, Working, r
  <2>3. conf[j].r # r /\ conf[j].pc \notin {"idle", "done"} => noted'[conf[j].r] = noted[conf[j].r]
    BY <1>5, <2>1 DEF Sound
  <2>4. UNCHANGED <<remit, rejected, claims, aged, overlapped>> /\ conf'[j] = conf[j]
    BY <1>2, <1>3
  <2>5. Sound(j)'
    BY <2>1, <2>4 DEF Sound
  <2>6. CASE conf[j].r = r
    <3>1. conf'[k].pc \in Working /\ (r \notin overlapped => conf[j].pc \notin Working)
      BY <1>3, <2>2, <2>6 DEF Working
    <3> QED
      BY <2>1, <2>4, <2>5, <2>6, <3>1 DEF Alone, Working
  <2>7. CASE conf[j].r # r /\ conf[j].pc \in {"idle", "done"}
    BY <2>4, <2>5, <2>7 DEF Alone, Working
  <2>8. CASE conf[j].r # r /\ conf[j].pc \notin {"idle", "done"}
    <3>1. \A i \in Confirms : conf'[i].pc \in Working /\ conf'[i].r = conf[j].r
                                => conf[i].pc \in Working /\ conf[i].r = conf[j].r
      BY <1>2, <1>3, <2>8 DEF r
    <3>2. noted'[conf[j].r] = noted[conf[j].r]
      BY <2>3, <2>8
    <3>3. Alone(j)'
      BY <2>1, <2>4, <3>1, <3>2 DEF Alone
    <3> QED
      BY <2>5, <3>3
  <2> QED
    BY <2>5, <2>6, <2>7, <2>8
<1>8. ItemsInv'
  BY <1>a, <1>2, <1>4, <1>5 DEF ItemsInv, Agrees
<1> QED
  BY <1>a, <1>2, <1>3, <1>5, <1>6, <1>7, <1>8 DEF ConfirmsInv, RestFine, SoundReturn

LEMMA SetInv ==
    ASSUME SepaInv, NEW k \in Confirms, Set(k)
    PROVE  ConfFine' /\ RestFine' /\ ConfirmsInv' /\ ItemsInv'
<1>a. ConfirmsInv /\ ItemsInv /\ RestFine /\ ConfFine /\ TypeOK /\ Sound(k) /\ Alone(k)
  BY InvParts DEF ConfirmsInv
<1> DEFINE r == conf[k].r
           outcome == conf[k].outcome
<1>1. /\ conf[k].pc = "set" /\ SetItemStatus(r, outcome) /\ Finish(k)
      /\ UNCHANGED <<rejected, claims, aged, overlapped, noted, line, ret, stops>>
  BY DEF Set, At
<1>2. r \in Remittances /\ outcome \in {"collected", "failed"}
  BY <1>a, <1>1 DEF Sound
<1>3. /\ remit'[r].status = remit[r].status /\ remit'[r].item = outcome
      /\ \A q \in Remittances \ {r} : remit'[q] = remit[q]
  BY <1>a, <1>1, <1>2, SetItemWrites
<1>4. conf'[k].pc = "done" /\ (\A j \in Confirms \ {k} : conf'[j] = conf[j]) /\ ConfFine'
  BY <1>a, <1>1, FinishWrites
<1>5. r \notin overlapped => /\ (outcome = "collected" <=> noted[r] # {})
                            /\ \A j \in Confirms \ {k} : conf[j].pc \in Working => conf[j].r # r
  BY <1>a, <1>1 DEF Alone, Working
<1> HIDE DEF r, outcome
<1>6. Sound(k)' /\ Alone(k)'
  BY <1>4 DEF Sound, Alone, Working
<1>7. ASSUME NEW j \in Confirms \ {k} PROVE Sound(j)' /\ Alone(j)'
  <2>1. Sound(j) /\ Alone(j) /\ conf'[j] = conf[j]
    BY <1>a, <1>4 DEF ConfirmsInv
  <2>2. CASE conf[j].r = r
    BY <1>1, <1>3, <1>4, <1>5, <2>1, <2>2 DEF Sound, Alone, Working
  <2>3. CASE conf[j].r # r /\ conf[j].pc \in {"idle", "done"}
    BY <2>1, <2>3 DEF Sound, Alone, Working
  <2>4. CASE conf[j].r # r /\ conf[j].pc \notin {"idle", "done"}
    <3>1. remit'[conf[j].r] = remit[conf[j].r]
      BY <1>3, <2>1, <2>4 DEF Sound
    <3> QED
      BY <1>1, <1>4, <2>1, <2>4, <3>1 DEF Sound, Alone, Working
  <2> QED
    BY <2>2, <2>3, <2>4
<1>8. ItemsInv'
  BY <1>a, <1>1, <1>2, <1>3, <1>5 DEF ItemsInv, Agrees
<1> QED
  BY <1>a, <1>1, <1>4, <1>6, <1>7, <1>8 DEF ConfirmsInv, RestFine, SoundReturn

-----------------------------------------------------------------------------
(* The invariant, kept by the bank, the returns, the clock and the others. *)

LEMMA OthersKeep ==
    ASSUME SepaInv, OthersStep \/ (\E s \in Returns : ReturnStep(s))
    PROVE  ConfFine' /\ ConfirmsInv' /\ ItemsInv'
<1>a. ConfirmsInv /\ ItemsInv /\ ConfFine /\ TypeOK
  BY InvParts
<1>b. UNCHANGED <<rejected, claims, aged, overlapped, noted, conf>>
  BY DEF OthersStep, sepaVars, ReturnStep, ClaimLine, Revert, RevertRefused, MarkReturned
<1>1. ASSUME NEW k \in Confirms PROVE Sound(k)' /\ Alone(k)'
  <2>1. Sound(k) /\ Alone(k)
    BY <1>a DEF ConfirmsInv
  <2>2. CASE conf[k].pc \in {"idle", "done"}
    BY <1>b, <2>2 DEF Sound, Alone, Working
  <2>3. CASE conf[k].pc \notin {"idle", "done"}
    <3>1. conf[k].r \in Remittances
      BY <2>1, <2>3 DEF Sound
    <3> DEFINE r == conf[k].r
    <3>2. \/ remit'[r] = remit[r]
          \/ remit[r].status = "none"
          \/ remit[r].status = "generated" /\ remit'[r].status = "cancelled"
          \/ /\ remit[r].item = "collected" /\ remit'[r].status = remit[r].status
      BY <1>a, <3>1, OthersWrite
    <3>3. Sound(k)'
      BY <1>b, <2>1, <3>2 DEF Sound, Working
    <3>4. CASE conf[k].pc \in Working \cup {"resumable"}
      <4>1. remit'[r] = remit[r] \/ remit[r].item = "collected"
        BY <2>1, <3>2, <3>4 DEF Sound
      <4>2. Alone(k)'
        BY <1>b, <2>1, <4>1 DEF Alone
      <4> QED
        BY <3>3, <4>2
    <3>5. CASE conf[k].pc \notin Working \cup {"resumable"}
      BY <1>b, <3>3, <3>5 DEF Alone, Working
    <3> QED
      BY <3>4, <3>5
  <2> QED
    BY <2>2, <2>3
<1>2. ASSUME NEW r \in Remittances PROVE Agrees(r)'
  <2>1. Agrees(r)
    BY <1>a DEF ItemsInv
  <2>2. \/ remit'[r] = remit[r]
        \/ remit'[r].item \notin {"failed", "collected"}
        \/ remit'[r].item = remit[r].item
    BY <1>a, OthersWrite
  <2> QED
    BY <1>b, <2>1, <2>2 DEF Agrees
<1> QED
  BY <1>a, <1>b, <1>1, <1>2 DEF ConfFine, ConfirmsInv, ItemsInv

LEMMA ReturnRest ==
    ASSUME RestFine, NEW s \in Returns, ReturnStep(s)
    PROVE  RestFine'
<1>a. ret \in [Returns -> ReturnRow] /\ line \in [Remittances -> {"none", "pending", "returned"}]
      /\ \A t \in Returns : SoundReturn(t)
  BY DEF RestFine
<1>b. UNCHANGED <<rejected, claims, aged, overlapped, noted, stops>>
  BY DEF ReturnStep, ClaimLine, Revert, RevertRefused, MarkReturned
<1>1. ASSUME NEW row \in ReturnRow, ret' = [ret EXCEPT ![s] = row],
             row.pc \in {"claimed", "reverted"} => row.r \in Remittances
      PROVE  ret' \in [Returns -> ReturnRow] /\ \A t \in Returns : SoundReturn(t)'
  BY <1>a, <1>1 DEF SoundReturn
<1>2. ret' \in [Returns -> ReturnRow] /\ \A t \in Returns : SoundReturn(t)'
  <2>1. CASE ClaimLine(s)
    <3>1. PICK r \in Remittances : ret' = [ret EXCEPT ![s] = [pc |-> "claimed", r |-> r]]
      BY <2>1 DEF ClaimLine
    <3> DEFINE row == [pc |-> "claimed", r |-> r]
    <3>2. row \in ReturnRow /\ row.r \in Remittances
      BY DEF ReturnRow, MaybeRemittance
    <3>3. ret' = [ret EXCEPT ![s] = row]
      BY <3>1
    <3> HIDE DEF row
    <3> QED
      BY <1>1, <3>2, <3>3
  <2>2. CASE Revert(s)
    <3> DEFINE row == [ret[s] EXCEPT !.pc = "reverted"]
    <3>1. ret[s].pc = "claimed" /\ ret' = [ret EXCEPT ![s] = row]
      BY <2>2 DEF Revert, RetAt, RetGoto
    <3>2. row \in ReturnRow /\ row.r = ret[s].r
      BY <1>a DEF ReturnRow
    <3>3. ret[s].r \in Remittances
      BY <1>a, <3>1 DEF SoundReturn
    <3> HIDE DEF row
    <3> QED
      BY <1>1, <3>1, <3>2, <3>3
  <2>3. CASE RevertRefused(s) \/ MarkReturned(s)
    <3> DEFINE row == [IdleReturn EXCEPT !.pc = "done"]
    <3>1. ret' = [ret EXCEPT ![s] = row]
      BY <2>3 DEF RevertRefused, MarkReturned, RetFinish
    <3>2. row \in ReturnRow /\ row.pc = "done"
      BY DEF IdleReturn, ReturnRow, MaybeRemittance
    <3> HIDE DEF row
    <3> QED
      BY <1>1, <3>1, <3>2
  <2> QED
    BY <2>1, <2>2, <2>3 DEF ReturnStep
<1>3. line' \in [Remittances -> {"none", "pending", "returned"}]
  BY <1>a DEF ReturnStep, ClaimLine, Revert, RevertRefused, MarkReturned
<1> QED
  BY <1>b, <1>2, <1>3 DEF RestFine

LEMMA FiveMinutesInv ==
    ASSUME SepaInv, NEW r \in Remittances, FiveMinutesPass(r)
    PROVE  ConfFine' /\ RestFine' /\ ConfirmsInv' /\ ItemsInv'
<1>a. ConfirmsInv /\ ItemsInv /\ RestFine /\ ConfFine
  BY InvParts
<1>1. /\ aged' = aged \cup {r}
      /\ overlapped' = IF Confirming(r) THEN overlapped \cup {r} ELSE overlapped
      /\ UNCHANGED <<remit, rejected, claims, noted, conf, line, ret, stops>>
  BY DEF FiveMinutesPass, ledgerVars
<1>2. ASSUME NEW k \in Confirms PROVE Sound(k)' /\ Alone(k)'
  <2>1. Sound(k) /\ Alone(k)
    BY <1>a DEF ConfirmsInv
  <2>2. Sound(k)'
    BY <1>1, <2>1 DEF Sound
  <2>3. CASE conf[k].r = r /\ conf[k].pc \in Working
    <3>1. r \in overlapped'
      BY <1>1, <2>3 DEF Confirming
    <3>2. Alone(k)'
      BY <1>1, <2>3, <3>1 DEF Alone
    <3> QED
      BY <2>2, <3>2
  <2>4. CASE conf[k].r = r /\ conf[k].pc \notin Working
    <3>1. Alone(k)'
      BY <1>1, <2>4 DEF Alone, Working
    <3> QED
      BY <2>2, <3>1
  <2>5. CASE conf[k].r # r
    <3>1. (conf[k].r \in aged' <=> conf[k].r \in aged)
          /\ (conf[k].r \in overlapped' <=> conf[k].r \in overlapped)
      BY <1>1, <2>5
    <3>2. Alone(k)'
      BY <1>1, <2>1, <3>1 DEF Alone
    <3> QED
      BY <2>2, <3>2
  <2> QED
    BY <2>3, <2>4, <2>5
<1>3. ItemsInv'
  BY <1>a, <1>1 DEF ItemsInv, Agrees
<1> QED
  BY <1>a, <1>1, <1>2, <1>3 DEF ConfFine, RestFine, ConfirmsInv, SoundReturn

LEMMA BankReturnsInv ==
    ASSUME SepaInv, NEW r \in Remittances, BankReturns(r)
    PROVE  ConfFine' /\ RestFine' /\ ConfirmsInv' /\ ItemsInv'
<1>a. ConfirmsInv /\ ItemsInv /\ RestFine /\ ConfFine
  BY InvParts
<1>1. /\ line' = [line EXCEPT ![r] = "pending"]
      /\ UNCHANGED <<remit, rejected, claims, aged, overlapped, noted, conf, ret, stops>>
  BY DEF BankReturns, ledgerVars
<1> QED
  BY <1>a, <1>1 DEF ConfFine, RestFine, ConfirmsInv, ItemsInv, Sound, Alone, Agrees, SoundReturn

LEMMA SepaStepInv ==
    ASSUME SepaInv, [Next]_vars
    PROVE  SepaInv'
<1>a. TypeOK /\ SepaTypesInv /\ RestFine
  BY InvParts DEF SepaInv
<1>b. TypeOK'
  BY <1>a, StepIsLedger, StepType
<1>c. ASSUME (ConfFine /\ RestFine /\ ConfirmsInv /\ ItemsInv)' PROVE SepaInv'
  BY <1>b, <1>c DEF SepaInv, SepaTypesInv, SepaTypeOK, ConfFine, RestFine, ConfirmsInv, ItemsInv
<1>1. ASSUME NEW k \in Confirms, ConfirmStep(k) PROVE SepaInv'
  BY <1>1, <1>c, ReadInv, ClaimInv, ResumeInv, QuietStepsInv, RegisterInv, SetInv DEF ConfirmStep
<1>2. ASSUME NEW s \in Returns, ReturnStep(s) PROVE SepaInv'
  BY <1>2, <1>a, <1>c, OthersKeep, ReturnRest
<1>3. CASE OthersStep
  <2>1. RestFine'
    BY <1>3, <1>a DEF OthersStep, sepaVars, RestFine, SoundReturn
  <2> QED
    BY <1>3, <1>c, <2>1, OthersKeep
<1>4. ASSUME NEW r \in Remittances, FiveMinutesPass(r) \/ BankReturns(r) PROVE SepaInv'
  BY <1>4, <1>c, FiveMinutesInv, BankReturnsInv
<1>5. CASE UNCHANGED vars
  <2>1. UNCHANGED <<remit, rejected, claims, aged, overlapped, noted, conf, line, ret, stops>>
    BY <1>5 DEF vars, ledgerVars, sepaVars
  <2>2. ConfFine /\ RestFine /\ ConfirmsInv /\ ItemsInv
    BY InvParts
  <2> QED
    BY <1>c, <2>1, <2>2
       DEF ConfFine, RestFine, ConfirmsInv, ItemsInv, Sound, Alone, Agrees, SoundReturn
<1> QED
  BY <1>1, <1>2, <1>3, <1>4, <1>5 DEF Next

LEMMA SepaInitInv == SepaInit => SepaInv
<1> SUFFICES ASSUME SepaInit PROVE SepaInv
  OBVIOUS
<1>1. TypeOK
  BY InitType DEF SepaInit
<1>2. IdleConf \in ConfRow /\ IdleConf.pc = "idle" /\ IdleReturn \in ReturnRow
      /\ IdleReturn.pc = "idle"
  BY DEF IdleConf, IdleReturn, ConfRow, ReturnRow, MaybeRemittance
<1>3. \A r \in Remittances : remit[r].item = "none"
  BY DEF SepaInit, Init, NoItem
<1>4. ConfFine /\ RestFine
  BY <1>2, SepaAssumption DEF SepaInit, ConfFine, RestFine, SoundReturn
<1>5. ConfirmsInv
  BY <1>2 DEF SepaInit, ConfirmsInv, Sound, Alone, Working
<1>6. ItemsInv
  BY <1>3 DEF SepaInit, ItemsInv, Agrees
<1> QED
  BY <1>1, <1>4, <1>5, <1>6, InvParts

LEMMA SepaInvariant == Spec => []SepaInv
BY SepaInitInv, SepaStepInv, PTL DEF Spec

-----------------------------------------------------------------------------
(* What the processes of the remittances keep in their variables.          *)
THEOREM SepaTypes == Spec => []SepaTypeOK
<1>1. SepaInv => SepaTypeOK
  BY DEF SepaInv, SepaTypesInv
<1> QED
  BY <1>1, SepaInvariant, PTL

(* A debit is registered once, however often its confirmation stops and is *)
(* resumed, and however many requests confirm it at the same time.         *)
THEOREM SepaReceiptedOnce == Spec => []ReceiptedOnce
<1>1. ASSUME SepaInv PROVE ReceiptedOnce
  <2> SUFFICES ASSUME NEW r \in Remittances \ overlapped PROVE Cardinality(noted[r]) <= 1
    BY DEF ReceiptedOnce
  <2>1. \A p, q \in noted[r] : p = q
    BY <1>1 DEF SepaInv, Agrees
  <2>2. CASE noted[r] = {}
    BY <2>2, FS_EmptySet
  <2>3. CASE noted[r] # {}
    <3>1. PICK p : p \in noted[r]
      BY <2>3
    <3>2. noted[r] = {p}
      BY <2>1, <3>1
    <3> QED
      BY <3>2, FS_Singleton
  <2> QED
    BY <2>2, <2>3
<1> QED
  BY <1>1, SepaInvariant, PTL

(* The item of a remittance says whether its debit was registered.         *)
THEOREM SepaItemTellsTheTruth == Spec => []ItemTellsTheTruth
<1>1. SepaInv => ItemTellsTheTruth
  BY DEF SepaInv, Agrees, ItemTellsTheTruth
<1> QED
  BY <1>1, SepaInvariant, PTL

-----------------------------------------------------------------------------
(* The invoice is in one remittance at a time.  An item becomes 'pending'  *)
(* only by a remittance made when no other is open, and 'collected' only   *)
(* from 'pending', because its confirmation is alone with it.              *)
Open(r) == remit[r].item \in {"pending", "collected"}

LEMMA NoneReopened ==
    ASSUME RemittedOnce, overlapped' = {} => overlapped = {},
           overlapped' = {} => \A r \in Remittances : Open(r)' => Open(r)
    PROVE  RemittedOnce'
BY DEF RemittedOnce, Open

LEMMA StepRemittedOnce ==
    ASSUME SepaInv, RemittedOnce, [Next]_vars
    PROVE  RemittedOnce'
<1>a. TypeOK /\ ConfirmsInv /\ remit \in [Remittances -> RemittanceRow]
  BY InvParts DEF TypeOK
<1>b. overlapped' = {} => overlapped = {}
  BY DEF Next, ConfirmStep, Read, Claim, CheckPending, Resume, Refuse, List, Look,
     RegisterReceipt, ReceiptRefused, Set, Stop, ReturnStep, ClaimLine, Revert, RevertRefused,
     MarkReturned, FiveMinutesPass, BankReturns, OthersStep, vars, sepaVars
<1>1. CASE UNCHANGED remit
  BY <1>b, <1>1 DEF RemittedOnce
<1>2. ASSUME NEW q \in Remittances, CreateRemittance(q) PROVE RemittedOnce'
  <2>1. /\ \A r \in Remittances : ~Open(r)
        /\ \A r \in Remittances \ {q} : remit'[r] = remit[r]
    BY <1>a, <1>2 DEF CreateRemittance, Open
  <2> QED
    BY <2>1 DEF RemittedOnce, Open
<1>3. ASSUME NEW q \in Remittances, CancelRemittance(q) \/ ReturnItem(q) \/ ClaimRemittance(q)
      PROVE  RemittedOnce'
  <2>1. \A r \in Remittances : remit'[r].item \in {"pending", "collected"} => Open(r)
    BY <1>a, <1>3 DEF CancelRemittance, ReturnItem, ClaimRemittance, RemittanceRow, Open
  <2> QED
    BY <1>b, <2>1, NoneReopened DEF Open
<1>4. ASSUME NEW k \in Confirms, Set(k) PROVE RemittedOnce'
  <2> DEFINE q == conf[k].r
  <2>1. q \in Remittances /\ conf[k].pc = "set" /\ SetItemStatus(q, conf[k].outcome)
    BY <1>a, <1>4 DEF ConfirmsInv, Sound, Set, At
  <2>2. \A r \in Remittances \ {q} : remit'[r] = remit[r]
    BY <1>a, <2>1, SetItemWrites
  <2>3. overlapped = {} => Open(q)
    BY <1>a, <2>1 DEF ConfirmsInv, Alone, Open
  <2> HIDE DEF q
  <2> QED
    BY <1>b, <2>1, <2>2, <2>3, NoneReopened DEF Open
<1>5. \/ UNCHANGED remit
      \/ \E q \in Remittances : \/ CreateRemittance(q) \/ CancelRemittance(q)
                                \/ ReturnItem(q) \/ ClaimRemittance(q)
      \/ \E k \in Confirms : Set(k)
  <2>1. ASSUME NEW k \in Confirms, Claim(k)
        PROVE  \E q \in Remittances : ClaimRemittance(q)
    BY <1>a, <2>1 DEF Claim, At, ConfirmsInv, Sound
  <2>2. ASSUME NEW k \in Confirms, ConfirmStep(k), ~Claim(k), ~Set(k)
        PROVE  UNCHANGED remit
    BY <2>2 DEF ConfirmStep, Read, CheckPending, Resume, Refuse, List, Look,
       RegisterReceipt, MarkPaid, ReceiptRefused, Stop, ledgerVars
  <2>3. ASSUME NEW s \in Returns, ReturnStep(s)
        PROVE  UNCHANGED remit \/ \E q \in Remittances : ReturnItem(q)
    BY <2>3 DEF ReturnStep, ClaimLine, Revert, RevertPayment, RevertRefused, MarkReturned,
       ledgerVars
  <2>4. CASE OthersStep
    BY <2>4 DEF OthersStep, MarkPaid, RevertPayment
  <2>5. ASSUME NEW r \in Remittances, FiveMinutesPass(r) \/ BankReturns(r)
        PROVE  UNCHANGED remit
    BY <2>5 DEF FiveMinutesPass, BankReturns, ledgerVars
  <2> QED
    BY <2>1, <2>2, <2>3, <2>4, <2>5 DEF Next, vars, ledgerVars
<1> QED
  BY <1>1, <1>2, <1>3, <1>4, <1>5

(* An invoice is in one remittance at a time, so the bank is not asked     *)
(* twice for its money.                                                    *)
THEOREM SepaRemittedOnce == Spec => []RemittedOnce
<1>1. SepaInit => RemittedOnce
  BY DEF SepaInit, Init, NoItem, RemittedOnce
<1> QED
  BY <1>1, SepaInvariant, StepRemittedOnce, PTL DEF Spec

-----------------------------------------------------------------------------
(* The processes of the remittances add nothing to the ledger: each of     *)
(* their steps is one of its transactions.                                 *)
THEOREM SepaIsLedger == Spec => LedgerSpec
<1>1. SepaInit => Init
  BY DEF SepaInit
<1>2. SepaInv => SepaTypesInv
  BY DEF SepaInv
<1> QED
  BY <1>1, <1>2, SepaInvariant, StepIsLedger, PTL DEF Spec, LedgerSpec

(* A paid invoice stays covered under confirmations and returned debits.   *)
THEOREM SepaPaidMeansCovered == Spec => []PaidMeansCovered
BY SepaIsLedger, LedgerPaidMeansCovered, PTL

-----------------------------------------------------------------------------
(* Money is taken back at most once for a line of the statement: the       *)
(* payments taken back, and the requests that have claimed a line and not  *)
(* reverted its payment yet, are no more than the lines that say           *)
(* 'returned'.  The request that finds nothing to take back gives up one   *)
(* of each.  Only finitely many of any of them have acted at any moment.   *)
TakenBack      == {p \in Payments : pay[p].returned}
ClaimedReturns == {s \in Returns : RetAt(s, "claimed")}
ReturnedLines  == {r \in Remittances : line[r] = "returned"}

ReturnBooks ==
    /\ IsFiniteSet(TakenBack) /\ IsFiniteSet(ClaimedReturns) /\ IsFiniteSet(ReturnedLines)
    /\ Cardinality(TakenBack) + Cardinality(ClaimedReturns) <= Cardinality(ReturnedLines)

LEMMA AtMostOneMore ==
    ASSUME NEW S, IsFiniteSet(S), NEW x, NEW T, T \subseteq S \cup {x}
    PROVE  IsFiniteSet(T) /\ Cardinality(T) \in Nat /\ Cardinality(T) <= Cardinality(S) + 1
<1>0. /\ IsFiniteSet(S \cup {x})
      /\ Cardinality(S \cup {x}) = IF x \in S THEN Cardinality(S) ELSE Cardinality(S) + 1
  BY FS_AddElement
<1>1. /\ IsFiniteSet(S \cup {x}) /\ Cardinality(S) \in Nat
      /\ Cardinality(S \cup {x}) <= Cardinality(S) + 1
  BY <1>0, FS_CardinalityType
<1>2. IsFiniteSet(T) /\ Cardinality(T) <= Cardinality(S \cup {x})
  BY <1>1, FS_Subset
<1> QED
  BY <1>1, <1>2, FS_CardinalityType

(* Nothing is taken back and no line is claimed.                           *)
LEMMA BooksKept ==
    ASSUME ReturnBooks, TakenBack' \subseteq TakenBack, ClaimedReturns' = ClaimedReturns,
           ReturnedLines' = ReturnedLines
    PROVE  ReturnBooks'
<1>1. IsFiniteSet(TakenBack') /\ Cardinality(TakenBack') <= Cardinality(TakenBack)
  BY FS_Subset DEF ReturnBooks
<1>2. /\ Cardinality(TakenBack) \in Nat /\ Cardinality(TakenBack') \in Nat
      /\ Cardinality(ClaimedReturns) \in Nat /\ Cardinality(ReturnedLines) \in Nat
  BY <1>1, FS_CardinalityType DEF ReturnBooks
<1> QED
  BY <1>1, <1>2 DEF ReturnBooks

LEMMA ReturnStepBooks ==
    ASSUME SepaInv, ReturnBooks, NEW s \in Returns, ReturnStep(s)
    PROVE  ReturnBooks'
<1>a. TypeOK /\ RestFine /\ ret \in [Returns -> ReturnRow]
      /\ line \in [Remittances -> {"none", "pending", "returned"}]
  BY InvParts DEF RestFine
<1>b. /\ IsFiniteSet(TakenBack) /\ IsFiniteSet(ClaimedReturns) /\ IsFiniteSet(ReturnedLines)
      /\ Cardinality(TakenBack) \in Nat /\ Cardinality(ClaimedReturns) \in Nat
      /\ Cardinality(ReturnedLines) \in Nat
      /\ Cardinality(TakenBack) + Cardinality(ClaimedReturns) <= Cardinality(ReturnedLines)
  BY FS_CardinalityType DEF ReturnBooks
<1>1. CASE ClaimLine(s)
  <2>1. PICK r \in Remittances :
            /\ line[r] = "pending" /\ line' = [line EXCEPT ![r] = "returned"]
            /\ ret' = [ret EXCEPT ![s] = [pc |-> "claimed", r |-> r]]
    BY <1>1 DEF ClaimLine
  <2>2. ret[s].pc = "idle" /\ pay' = pay
    BY <1>1 DEF ClaimLine, RetAt, ledgerVars
  <2>3. TakenBack' = TakenBack
    BY <2>2 DEF TakenBack
  <2>4. ClaimedReturns' = ClaimedReturns \cup {s} /\ s \notin ClaimedReturns
    BY <1>a, <2>1, <2>2 DEF ClaimedReturns, RetAt
  <2>5. ReturnedLines' = ReturnedLines \cup {r} /\ r \notin ReturnedLines
    BY <1>a, <2>1 DEF ReturnedLines
  <2>6. /\ IsFiniteSet(ClaimedReturns') /\ IsFiniteSet(ReturnedLines')
        /\ Cardinality(ClaimedReturns') = Cardinality(ClaimedReturns) + 1
        /\ Cardinality(ReturnedLines') = Cardinality(ReturnedLines) + 1
    BY <1>b, <2>4, <2>5, FS_AddElement
  <2> QED
    BY <1>b, <2>3, <2>6 DEF ReturnBooks
<1>2. CASE Revert(s)
  <2>1. PICK p \in Payments : RevertPayment(p, FALSE)
    BY <1>2 DEF Revert
  <2>2. RetAt(s, "claimed") /\ RetGoto(s, "reverted") /\ line' = line
    BY <1>2 DEF Revert
  <2>3. \A q \in Payments \ {p} : pay'[q] = pay[q]
    BY <1>a, <2>1 DEF RevertPayment, TypeOK
  <2>4. TakenBack' \subseteq TakenBack \cup {p}
    BY <2>3 DEF TakenBack
  <2>5. /\ IsFiniteSet(TakenBack') /\ Cardinality(TakenBack') \in Nat
        /\ Cardinality(TakenBack') <= Cardinality(TakenBack) + 1
    BY <1>b, <2>4, AtMostOneMore
  <2>6. ClaimedReturns' = ClaimedReturns \ {s} /\ s \in ClaimedReturns
    <3>1. ret'[s].pc = "reverted" /\ \A t \in Returns \ {s} : ret'[t] = ret[t]
      BY <1>a, <2>2 DEF RetGoto, ReturnRow
    <3> QED
      BY <2>2, <3>1 DEF ClaimedReturns, RetAt
  <2>7. /\ IsFiniteSet(ClaimedReturns')
        /\ Cardinality(ClaimedReturns') = Cardinality(ClaimedReturns) - 1
    BY <1>b, <2>6, FS_RemoveElement
  <2>8. ReturnedLines' = ReturnedLines
    BY <2>2 DEF ReturnedLines
  <2> QED
    BY <1>b, <2>5, <2>7, <2>8 DEF ReturnBooks
<1>3. CASE RevertRefused(s)
  <2> DEFINE r == ret[s].r
             row == [IdleReturn EXCEPT !.pc = "done"]
  <2>1. /\ RetAt(s, "claimed") /\ pay' = pay
        /\ line' = [line EXCEPT ![r] = "pending"] /\ ret' = [ret EXCEPT ![s] = row]
    BY <1>3 DEF RevertRefused, RetFinish, ledgerVars
  <2>2. row.pc = "done"
    BY DEF IdleReturn
  <2> HIDE DEF row, r
  <2>3. TakenBack' = TakenBack
    BY <2>1 DEF TakenBack
  <2>4. ClaimedReturns' = ClaimedReturns \ {s} /\ s \in ClaimedReturns
    BY <1>a, <2>1, <2>2 DEF ClaimedReturns, RetAt
  <2>5. ReturnedLines' = ReturnedLines \ {r}
    BY <1>a, <2>1 DEF ReturnedLines
  <2>6. /\ IsFiniteSet(ClaimedReturns')
        /\ Cardinality(ClaimedReturns') = Cardinality(ClaimedReturns) - 1
    BY <1>b, <2>4, FS_RemoveElement
  <2>7. /\ IsFiniteSet(ReturnedLines')
        /\ Cardinality(ReturnedLines') =
              IF r \in ReturnedLines THEN Cardinality(ReturnedLines) - 1
                                     ELSE Cardinality(ReturnedLines)
    BY <1>b, <2>5, FS_RemoveElement
  <2>8. Cardinality(ReturnedLines') >= Cardinality(ReturnedLines) - 1
    BY <1>b, <2>7
  <2> QED
    BY <1>b, <2>3, <2>6, <2>7, <2>8 DEF ReturnBooks
<1>4. CASE MarkReturned(s)
  <2> DEFINE row == [IdleReturn EXCEPT !.pc = "done"]
  <2>1. RetAt(s, "reverted") /\ line' = line /\ ret' = [ret EXCEPT ![s] = row]
    BY <1>4 DEF MarkReturned, RetFinish
  <2>2. pay' = pay
    BY <1>4 DEF MarkReturned, ReturnItem, ledgerVars
  <2>3. row.pc = "done"
    BY DEF IdleReturn
  <2> HIDE DEF row
  <2>4. ClaimedReturns' = ClaimedReturns
    BY <1>a, <2>1, <2>3 DEF ClaimedReturns, RetAt
  <2> QED
    BY <2>1, <2>2, <2>4, BooksKept DEF TakenBack, ReturnedLines
<1> QED
  BY <1>1, <1>2, <1>3, <1>4 DEF ReturnStep

LEMMA StepBooks ==
    ASSUME SepaInv, ReturnBooks, [Next]_vars
    PROVE  ReturnBooks'
<1>a. TypeOK /\ line \in [Remittances -> {"none", "pending", "returned"}]
      /\ pay \in [Payments -> PaymentRow]
  BY InvParts DEF RestFine, TypeOK
<1>b. ASSUME NEW p \in Payments, NEW amount, NEW override, NEW inRemittance,
             MarkPaid(p, amount, override, inRemittance)
      PROVE  TakenBack' \subseteq TakenBack
  <2>1. /\ pay'[p].returned = FALSE /\ \A q \in Payments \ {p} : pay'[q] = pay[q]
    BY <1>a, <1>b DEF MarkPaid, NewPayment
  <2> QED
    BY <2>1 DEF TakenBack
<1>1. ASSUME NEW k \in Confirms, ConfirmStep(k) PROVE ReturnBooks'
  <2>1. UNCHANGED <<line, ret>>
    BY <1>1 DEF ConfirmStep, Read, Claim, CheckPending, Resume, Refuse, List, Look,
       RegisterReceipt, ReceiptRefused, Set, Stop
  <2>2. TakenBack' \subseteq TakenBack
    <3>1. CASE RegisterReceipt(k)
      BY <1>b, <3>1 DEF RegisterReceipt, Payments
    <3>2. CASE ~RegisterReceipt(k)
      <4>1. pay' = pay
        BY <1>1, <3>2 DEF ConfirmStep, Read, Claim, CheckPending, Resume, Refuse, List, Look,
           ReceiptRefused, Set, Stop, ClaimRemittance, SetItemStatus, ledgerVars
      <4> QED
        BY <4>1 DEF TakenBack
    <3> QED
      BY <3>1, <3>2
  <2> QED
    BY <2>1, <2>2, BooksKept DEF ClaimedReturns, ReturnedLines, RetAt
<1>2. ASSUME NEW s \in Returns, ReturnStep(s) PROVE ReturnBooks'
  BY <1>2, ReturnStepBooks
<1>3. CASE OthersStep
  <2>1. UNCHANGED <<line, ret>>
    BY <1>3 DEF OthersStep, sepaVars
  <2>2. ASSUME NEW r \in Remittances, CreateRemittance(r) \/ CancelRemittance(r)
        PROVE  TakenBack' \subseteq TakenBack
    BY <2>2 DEF CreateRemittance, CancelRemittance, TakenBack
  <2>3. ASSUME NEW p \in Cash, RevertPayment(p, TRUE)
        PROVE  TakenBack' \subseteq TakenBack
    <3>1. p \in Payments
      BY SepaAssumption DEF Payments
    <3>2. /\ pay'[p].returned = (pay[p].returned \/ ~TRUE)
          /\ \A q \in Payments \ {p} : pay'[q] = pay[q]
      BY <1>a, <2>3, <3>1 DEF RevertPayment, PaymentRow
    <3> QED
      BY <3>2 DEF TakenBack
  <2>4. \A p \in Cash : p \in Payments
    BY SepaAssumption DEF Payments
  <2>5. TakenBack' \subseteq TakenBack
    BY <1>3, <1>b, <2>2, <2>3, <2>4 DEF OthersStep
  <2> QED
    BY <2>1, <2>5, BooksKept DEF ClaimedReturns, ReturnedLines, RetAt
<1>4. ASSUME NEW r \in Remittances, FiveMinutesPass(r) PROVE ReturnBooks'
  BY <1>4, BooksKept
     DEF FiveMinutesPass, ledgerVars, TakenBack, ClaimedReturns, ReturnedLines, RetAt
<1>5. ASSUME NEW r \in Remittances, BankReturns(r) PROVE ReturnBooks'
  <2>1. /\ line[r] = "none" /\ line' = [line EXCEPT ![r] = "pending"]
        /\ UNCHANGED <<pay, ret>>
    BY <1>5 DEF BankReturns, ledgerVars
  <2>2. ReturnedLines' = ReturnedLines
    BY <1>a, <2>1 DEF ReturnedLines
  <2> QED
    BY <2>1, <2>2, BooksKept DEF TakenBack, ClaimedReturns, RetAt
<1>6. CASE UNCHANGED vars
  BY <1>6, BooksKept
     DEF vars, ledgerVars, sepaVars, TakenBack, ClaimedReturns, ReturnedLines, RetAt
<1> QED
  BY <1>1, <1>2, <1>3, <1>4, <1>5, <1>6 DEF Next

LEMMA InitBooks == SepaInit => ReturnBooks
<1> SUFFICES ASSUME SepaInit PROVE ReturnBooks
  OBVIOUS
<1>1. TakenBack = {}
  BY DEF SepaInit, Init, NoPayment, NewPayment, TakenBack
<1>2. ClaimedReturns = {} /\ ReturnedLines = {}
  BY DEF SepaInit, IdleReturn, ClaimedReturns, ReturnedLines, RetAt
<1> QED
  BY <1>1, <1>2, FS_EmptySet DEF ReturnBooks

(* However many people mark the lines of the statement, and however often  *)
(* a refused one is tried again, the money of a line is taken back once.   *)
THEOREM SepaReturnedOnce == Spec => []ReturnedOnce
<1>1. ASSUME ReturnBooks PROVE ReturnedOnce
  <2>1. /\ Cardinality(TakenBack) \in Nat /\ Cardinality(ClaimedReturns) \in Nat
        /\ Cardinality(ReturnedLines) \in Nat
    BY <1>1, FS_CardinalityType DEF ReturnBooks
  <2>2. Cardinality(TakenBack) <= Cardinality(ReturnedLines)
    BY <1>1, <2>1 DEF ReturnBooks
  <2> QED
    BY <2>2 DEF ReturnedOnce, TakenBack, ReturnedLines
<1>2. Spec => []ReturnBooks
  BY InitBooks, StepBooks, SepaInvariant, PTL DEF Spec
<1> QED
  BY <1>1, <1>2, PTL

-----------------------------------------------------------------------------
(* amountPaid and the payments that count as collected.                    *)
LEMMA RevertCollects ==
    ASSUME TypeOK, TypeOK', NEW p \in Payments, NEW undo \in BOOLEAN, RevertPayment(p, undo)
    PROVE  CollectedMoves
<1> DEFINE row == [pay[p] EXCEPT !.status = "failed", !.returned = @ \/ ~undo]
<1>a. pay[p] \in PaymentRow /\ inv \in InvoiceRow
  BY RowOf DEF TypeOK
<1>1. pay' = [pay EXCEPT ![p] = row] /\ TakesBack(p, row)
  BY <1>a, PaidOf DEF RevertPayment, TakesBack, PaymentRow, Settled
<1> HIDE DEF row
<1> QED
  BY <1>1, RowCollected

LEMMA StepPays ==
    ASSUME SepaInv, TypeOK', [Next]_vars
    PROVE  CollectedMoves
<1>a. TypeOK
  BY DEF SepaInv, SepaTypesInv, SepaTypeOK
<1>1. ASSUME NEW k \in Confirms, ConfirmStep(k) PROVE CollectedMoves
  <2>1. CASE RegisterReceipt(k)
    BY <1>a, <2>1, ReceiptCollects DEF RegisterReceipt
  <2>2. CASE Claim(k) \/ Set(k)
    BY <2>2 DEF Claim, Set, ClaimRemittance, SetItemStatus, CollectedMoves
  <2>3. CASE \/ Read(k) \/ CheckPending(k) \/ Resume(k) \/ Refuse(k) \/ List(k)
             \/ Look(k) \/ ReceiptRefused(k) \/ Stop(k)
    BY <2>3, LedgerKept
       DEF Read, CheckPending, Resume, Refuse, List, Look, ReceiptRefused, Stop
  <2> QED
    BY <1>1, <2>1, <2>2, <2>3 DEF ConfirmStep
<1>2. ASSUME NEW s \in Returns, ReturnStep(s) PROVE CollectedMoves
  <2>1. CASE Revert(s)
    BY <1>a, <2>1, RevertCollects DEF Revert
  <2>2. CASE MarkReturned(s)
    BY <2>2, LedgerKept DEF MarkReturned, ReturnItem, CollectedMoves
  <2>3. CASE ClaimLine(s) \/ RevertRefused(s)
    BY <2>3, LedgerKept DEF ClaimLine, RevertRefused
  <2> QED
    BY <1>2, <2>1, <2>2, <2>3 DEF ReturnStep
<1>3. ASSUME NEW r \in Remittances, FiveMinutesPass(r) \/ BankReturns(r)
      PROVE  UNCHANGED ledgerVars
  BY <1>3 DEF FiveMinutesPass, BankReturns
<1>4. CASE OthersStep
  BY <1>4, <1>a, SepaAssumption, ReceiptCollects, RevertCollects, InvoiceCollects
     DEF OthersStep, Payments
<1>5. CASE UNCHANGED vars
  BY <1>5, LedgerKept DEF vars
<1> QED
  BY <1>1, <1>2, <1>3, <1>4, <1>5, LedgerKept DEF Next

(* amountPaid is always the money of the payments that count as collected: *)
(* a debit receipted by one confirmation or by the one that resumes it is  *)
(* added once, a returned debit or an undone transfer takes back all of    *)
(* its own amount, and the floor at zero never hides money lost.           *)
THEOREM SepaPaidIsCollected == Spec => [](inv.paid = Sum(Settled))
<1>1. SepaInit => inv.paid = Sum(Settled)
  BY InitCollects DEF SepaInit
<1>2. ASSUME SepaInv, SepaInv', inv.paid = Sum(Settled), [Next]_vars
      PROVE  (inv.paid = Sum(Settled))'
  <2>1. TypeOK /\ TypeOK' /\ inv.paid \in Nat
    BY <1>2 DEF SepaInv, SepaTypesInv, SepaTypeOK, TypeOK, InvoiceRow
  <2>2. CollectedMoves
    BY <1>2, <2>1, StepPays
  <2>3. inv.paid <= Sum(Settled)
    BY <1>2, <2>1
  <2> QED
    BY <1>2, <2>1, <2>2, <2>3, CollectedStays
<1> QED
  BY <1>1, <1>2, SepaInvariant, PTL DEF Spec

(* A confirmation, a returned debit or a receipt moves amountPaid with     *)
(* exactly one payment, by its amount.                                     *)
THEOREM SepaPaidMovesWithOnePayment == Spec => PaidMovesWithOnePayment
BY SepaIsLedger, LedgerPaidMovesWithOnePayment, PTL

=============================================================================
