-------------------------- MODULE VerifactuProofs --------------------------
(***************************************************************************)
(* Proofs about Verifactu, for any number of invoices, series, issuers,    *)
(* requests and failures: the numbers have no gaps, the chain does not     *)
(* fork, the agency gets the records in order, and what an invoice shows   *)
(* agrees with the agency.                                                 *)
(***************************************************************************)
EXTENDS Verifactu, TLAPS

-----------------------------------------------------------------------------
(* Who is at work on an invoice that is already issued.                    *)
Answers == {"accepted", "rejected", "error"}
AfterIssue == {"queueing", "refreshing", "resending"}

InvoiceRow == [issued : BOOLEAN, number : Nat, seq : Nat, prev : MaybeInvoice,
               aeat : AeatStatus \cup {"none"}, sent : BOOLEAN]
RequestRow == [pc : Transaction \cup {"idle", "queueing", "refreshing", "resending"},
               i : MaybeInvoice, number : Nat, seq : Nat, prev : MaybeInvoice,
               answer : AeatStatus \cup {"none"}]
WorkRow == [pc : {"idle", "asking", "sending", "answered"}, i : MaybeInvoice,
            answer : AeatStatus \cup {"none"}]
AgencyRow == [at : {"none", "registered", "refused"}, got : BOOLEAN, late : BOOLEAN]

VerifactuTypesInv ==
    /\ VerifactuTypeOK
    /\ \A i \in Invoices : jobs[i] > 0 => Issued(i)
    /\ \A q \in Requests :
          /\ req[q].pc \in AfterIssue => Issued(req[q].i)
          /\ req[q].pc = "refreshing" => req[q].answer \in Answers
    /\ work.pc = "idle" => work = Resting
    /\ work.pc = "answered" => work.answer \in Answers

-----------------------------------------------------------------------------
(* Types.                                                                  *)

LEMMA InitTypes ==
    ASSUME Init
    PROVE  VerifactuTypesInv
<1> USE VerifactuAssumption DEF Init, VerifactuTypesInv, VerifactuTypeOK, Draft, Idle, Resting,
        MaybeInvoice, AeatStatus, Transaction, Issued, AfterIssue, Answers
<1>1. \A i \in Invoices : row[i] = Draft /\ ~Issued(i)
  OBVIOUS
<1>2. \A q \in Requests : req[q] = Idle
  OBVIOUS
<1> QED
  BY <1>1, <1>2

(* A request moves on to a row of its own, and nothing else changes.       *)
LEMMA RequestTypes ==
    ASSUME VerifactuTypesInv, NEW q \in Requests, NEW r \in RequestRow,
           req' = [req EXCEPT ![q] = r],
           UNCHANGED <<row, next, jobs, work, agency, unsure>>,
           r.pc # "idle" => r.i \in Invoices,
           r.pc \in AfterIssue => Issued(r.i),
           r.pc = "refreshing" => r.answer \in Answers,
           touched' \subseteq Invoices,
           troubles' \in 0..MaxTroubles
    PROVE  VerifactuTypesInv'
<1>1. \A p \in Requests : req'[p] = IF p = q THEN r ELSE req[p]
  BY DEF VerifactuTypesInv, VerifactuTypeOK
<1>2. req' \in [Requests -> RequestRow]
  BY DEF VerifactuTypesInv, VerifactuTypeOK, RequestRow
<1>3. \A i : Issued(i)' = Issued(i)
  BY DEF Issued
<1> QED
  BY <1>1, <1>2, <1>3 DEF VerifactuTypesInv, VerifactuTypeOK, RequestRow, Issued

(* The statuses of one record change.                                      *)
Shows(i, aeat, sent) == [row[i] EXCEPT !.aeat = aeat, !.sent = sent]

LEMMA StatusTypes ==
    ASSUME VerifactuTypesInv, NEW i \in Invoices, Issued(i), NEW aeat \in AeatStatus,
           NEW sent \in BOOLEAN, row' = [row EXCEPT ![i] = Shows(i, aeat, sent)]
    PROVE  /\ row' \in [Invoices -> InvoiceRow]
           /\ row'[i].aeat = aeat /\ row'[i].sent = sent
           /\ \A j \in Invoices \ {i} : row'[j] = row[j]
           /\ \A j \in Invoices :
                 /\ row'[j].issued = row[j].issued /\ row'[j].number = row[j].number
                 /\ row'[j].seq = row[j].seq /\ row'[j].prev = row[j].prev
           /\ \A j \in Invoices : row'[j].issued <=> row'[j].aeat # "none"
<1>1. row \in [Invoices -> InvoiceRow]
  BY DEF VerifactuTypesInv, VerifactuTypeOK, InvoiceRow
<1>2. \A j \in Invoices : row'[j] = IF j = i THEN Shows(i, aeat, sent) ELSE row[j]
  BY <1>1
<1>3. /\ Shows(i, aeat, sent) \in InvoiceRow
      /\ Shows(i, aeat, sent).aeat = aeat /\ Shows(i, aeat, sent).sent = sent
      /\ Shows(i, aeat, sent).issued = row[i].issued
      /\ Shows(i, aeat, sent).number = row[i].number
      /\ Shows(i, aeat, sent).seq = row[i].seq /\ Shows(i, aeat, sent).prev = row[i].prev
  BY <1>1 DEF InvoiceRow, Shows
<1>4. row' \in [Invoices -> InvoiceRow]
  BY <1>1, <1>2, <1>3
<1>5. aeat # "none" /\ row[i].issued /\ \A j \in Invoices : row[j].issued <=> row[j].aeat # "none"
  BY DEF VerifactuTypesInv, VerifactuTypeOK, AeatStatus, Issued
<1> QED
  BY <1>2, <1>3, <1>4, <1>5

LEMMA TroubleTypes ==
    ASSUME VerifactuTypesInv, troubles' = troubles \/ Trouble
    PROVE  troubles' \in 0..MaxTroubles
BY VerifactuAssumption DEF VerifactuTypesInv, VerifactuTypeOK, Trouble

(* Every action of a request but the commit and those that write a status. *)
LEMMA AskTypes ==
    ASSUME VerifactuTypesInv, NEW q \in Requests,
           \/ \E i \in Invoices : Lock(q, i)
           \/ ReserveNumber(q) \/ Chain(q) \/ Rollback(q)
           \/ \E i \in Invoices : Refresh(q, i) \/ RefreshFails(q, i) \/ Resend(q, i)
           \/ RequestStops(q)
    PROVE  VerifactuTypesInv'
<1> USE DEF VerifactuTypesInv, VerifactuTypeOK
<1>a. req[q] \in RequestRow /\ Idle \in RequestRow /\ Idle.pc = "idle"
  BY DEF RequestRow, Idle, MaybeInvoice
<1>b. touched' \subseteq Invoices
  BY DEF Lock, ReserveNumber, Chain, Rollback, Refresh, RefreshFails, Resend, RequestStops
<1>c. troubles' \in 0..MaxTroubles
  <2>1. troubles' = troubles \/ Trouble
    BY DEF Lock, ReserveNumber, Chain, Rollback, Refresh, RefreshFails, Resend, RequestStops
  <2> QED
    BY <2>1, TroubleTypes
<1>d. UNCHANGED <<row, next, jobs, work, agency, unsure>>
  BY DEF Lock, ReserveNumber, Chain, Rollback, Refresh, RefreshFails, Resend, RequestStops
<1> HIDE DEF VerifactuTypesInv, VerifactuTypeOK
<1>1. ASSUME NEW i \in Invoices, Lock(q, i)
      PROVE  VerifactuTypesInv'
  <2> DEFINE r == [Idle EXCEPT !.pc = "locked", !.i = i]
  <2>1. r \in RequestRow /\ r.pc = "locked" /\ r.i = i
    BY DEF RequestRow, Idle, MaybeInvoice, Transaction
  <2>2. req' = [req EXCEPT ![q] = r]
    BY <1>1 DEF Lock
  <2> HIDE DEF r
  <2> QED
    BY <1>b, <1>c, <1>d, <2>1, <2>2, RequestTypes DEF AfterIssue
<1>2. CASE ReserveNumber(q)
  <2> DEFINE r == [req[q] EXCEPT !.pc = "numbered", !.number = next[Series[req[q].i]]]
  <2>1. req[q].i \in Invoices /\ next[Series[req[q].i]] \in Nat
    BY <1>2, VerifactuAssumption DEF VerifactuTypesInv, VerifactuTypeOK, ReserveNumber
  <2>2. r \in RequestRow /\ r.pc = "numbered" /\ r.i = req[q].i
    BY <1>a, <2>1 DEF RequestRow, Transaction
  <2>3. req' = [req EXCEPT ![q] = r]
    BY <1>2 DEF ReserveNumber
  <2> HIDE DEF r
  <2> QED
    BY <1>b, <1>c, <1>d, <2>1, <2>2, <2>3, RequestTypes DEF AfterIssue
<1>3. CASE Chain(q)
  <2>1. req[q].i \in Invoices /\ \A j \in Invoices : row[j].seq \in Nat
    BY <1>3 DEF VerifactuTypesInv, VerifactuTypeOK, Chain
  <2>2. PICK j \in MaybeInvoice, n \in Nat :
            req' = [req EXCEPT ![q] = [req[q] EXCEPT !.pc = "chained", !.prev = j, !.seq = n]]
    <3>1. CASE Last(req[q].i) = {}
      <4>1. req' = [req EXCEPT ![q] = [req[q] EXCEPT !.pc = "chained", !.seq = 1]]
        BY <1>3, <3>1 DEF Chain
      <4>2. [req[q] EXCEPT !.pc = "chained", !.seq = 1]
              = [req[q] EXCEPT !.pc = "chained", !.prev = req[q].prev, !.seq = 1]
        BY <1>a DEF RequestRow
      <4> QED
        BY <1>a, <4>1, <4>2 DEF RequestRow
    <3>2. CASE Last(req[q].i) # {}
      <4>1. PICK j \in Last(req[q].i) :
              req' = [req EXCEPT ![q] = [req[q] EXCEPT !.pc = "chained", !.prev = j,
                                                      !.seq = row[j].seq + 1]]
        BY <1>3, <3>2 DEF Chain
      <4>2. j \in Invoices /\ row[j].seq + 1 \in Nat
        BY <2>1 DEF Last, Chained
      <4> QED
        BY <4>1, <4>2 DEF MaybeInvoice
    <3> QED
      BY <3>1, <3>2
  <2> DEFINE r == [req[q] EXCEPT !.pc = "chained", !.prev = j, !.seq = n]
  <2>3. r \in RequestRow /\ r.pc = "chained" /\ r.i = req[q].i
    BY <1>a DEF RequestRow, Transaction
  <2>4. req' = [req EXCEPT ![q] = r]
    BY <2>2
  <2> HIDE DEF r
  <2> QED
    BY <1>b, <1>c, <1>d, <2>1, <2>3, <2>4, RequestTypes DEF AfterIssue
<1>4. CASE Rollback(q) \/ RequestStops(q)
  <2>1. req' = [req EXCEPT ![q] = Idle]
    BY <1>4 DEF Rollback, RequestStops
  <2> QED
    BY <1>a, <1>b, <1>c, <1>d, <2>1, RequestTypes DEF AfterIssue
<1>5. ASSUME NEW i \in Invoices, Refresh(q, i) \/ RefreshFails(q, i)
      PROVE  VerifactuTypesInv'
  <2>1. PICK answer \in Answers : Asked(q, i, answer)
    BY <1>5 DEF Refresh, RefreshFails, Known, Answers
  <2> DEFINE r == [Idle EXCEPT !.pc = "refreshing", !.i = i, !.answer = answer]
  <2>2. r \in RequestRow /\ r.pc = "refreshing" /\ r.i = i /\ r.answer = answer
    BY DEF RequestRow, Idle, MaybeInvoice, Answers, AeatStatus
  <2>3. req' = [req EXCEPT ![q] = r]
    BY <2>1 DEF Asked
  <2>4. Issued(i)
    BY <1>5 DEF Refresh, RefreshFails
  <2> HIDE DEF r
  <2> QED
    BY <1>b, <1>c, <1>d, <2>2, <2>3, <2>4, RequestTypes
<1>6. ASSUME NEW i \in Invoices, Resend(q, i)
      PROVE  VerifactuTypesInv'
  <2> DEFINE r == [Idle EXCEPT !.pc = "resending", !.i = i]
  <2>1. r \in RequestRow /\ r.pc = "resending" /\ r.i = i
    BY DEF RequestRow, Idle, MaybeInvoice, Transaction
  <2>2. req' = [req EXCEPT ![q] = r] /\ Issued(i)
    BY <1>6 DEF Resend
  <2> HIDE DEF r
  <2> QED
    BY <1>b, <1>c, <1>d, <2>1, <2>2, RequestTypes
<1> QED
  BY <1>1, <1>2, <1>3, <1>4, <1>5, <1>6

LEMMA CommitTypes ==
    ASSUME VerifactuTypesInv, NEW q \in Requests, NEW r \in RequestRow, r = req[q], Commit(q)
    PROVE  VerifactuTypesInv'
<1> DEFINE new == [issued |-> TRUE, number |-> r.number, seq |-> r.seq, prev |-> r.prev,
                   aeat |-> "pending", sent |-> FALSE]
           next_r == [Idle EXCEPT !.pc = "queueing", !.i = r.i]
<1>1. r.i \in Invoices
  BY DEF VerifactuTypesInv, VerifactuTypeOK, Commit
<1>2. /\ row' = [row EXCEPT ![r.i] = new] /\ next' = [next EXCEPT ![Series[r.i]] = r.number + 1]
      /\ req' = [req EXCEPT ![q] = next_r]
      /\ UNCHANGED <<jobs, work, agency, unsure, touched, troubles>>
  BY DEF Commit
<1>3. new \in InvoiceRow /\ new.issued /\ new.aeat # "none"
  BY <1>1 DEF RequestRow, InvoiceRow, AeatStatus
<1>4. next_r \in RequestRow /\ next_r.pc = "queueing" /\ next_r.i = r.i
  BY <1>1 DEF RequestRow, Idle, MaybeInvoice
<1>5. r.number + 1 \in Nat \ {0}
  BY <1>1 DEF RequestRow
<1>6. row \in [Invoices -> InvoiceRow] /\ req \in [Requests -> RequestRow]
      /\ next \in [SeriesSet -> Nat \ {0}]
  BY DEF VerifactuTypesInv, VerifactuTypeOK, InvoiceRow, RequestRow
<1> HIDE DEF new, next_r
<1>7. \A j \in Invoices : row'[j] = IF j = r.i THEN new ELSE row[j]
  BY <1>2, <1>6
<1>8. \A p \in Requests : req'[p] = IF p = q THEN next_r ELSE req[p]
  BY <1>2, <1>6
<1>9. /\ row' \in [Invoices -> InvoiceRow] /\ req' \in [Requests -> RequestRow]
      /\ next' \in [SeriesSet -> Nat \ {0}]
  BY <1>1, <1>2, <1>3, <1>4, <1>5, <1>6
<1>10. \A j \in Invoices : Issued(j) => Issued(j)'
  BY <1>3, <1>7 DEF Issued
<1>11. \A j \in Invoices : Issued(j)' <=> row'[j].aeat # "none"
  BY <1>3, <1>7 DEF Issued, VerifactuTypesInv, VerifactuTypeOK
<1>12. \A p \in Requests : req'[p].pc # "idle" => req'[p].i \in Invoices
  BY <1>1, <1>4, <1>8 DEF VerifactuTypesInv, VerifactuTypeOK
<1>13. \A p \in Requests : req'[p].pc \in AfterIssue => row'[req'[p].i].issued
  <2>1. row'[r.i].issued
    BY <1>1, <1>3, <1>7
  <2>2. \A p \in Requests : req[p].pc \in AfterIssue => req[p].i \in Invoices /\ Issued(req[p].i)
    BY DEF VerifactuTypesInv, VerifactuTypeOK, AfterIssue
  <2> QED
    BY <1>4, <1>8, <1>10, <2>1, <2>2 DEF Issued
<1>14. \A p \in Requests : req'[p].pc = "refreshing" => req'[p].answer \in Answers
  BY <1>4, <1>8 DEF VerifactuTypesInv
<1>15. VerifactuTypeOK'
  BY <1>2, <1>9, <1>11, <1>12 DEF VerifactuTypesInv, VerifactuTypeOK, InvoiceRow, RequestRow
<1> QED
  BY <1>2, <1>10, <1>13, <1>14, <1>15 DEF VerifactuTypesInv, VerifactuTypeOK, Issued

(* Two requests write a status; the rows otherwise stay.                   *)
LEMMA RequestWritesTypes ==
    ASSUME VerifactuTypesInv, NEW q \in Requests, NEW r \in RequestRow,
           NEW i \in Invoices, NEW aeat \in AeatStatus, NEW sent \in BOOLEAN, Issued(i),
           row' = [row EXCEPT ![i] = Shows(i, aeat, sent)],
           req' = [req EXCEPT ![q] = r],
           r.pc # "idle" => r.i \in Invoices,
           r.pc \in AfterIssue => Issued(r.i),
           r.pc # "refreshing",
           UNCHANGED <<next, jobs, work, agency, touched, troubles>>,
           unsure' \subseteq Invoices
    PROVE  VerifactuTypesInv'
<1>1. /\ row' \in [Invoices -> InvoiceRow]
      /\ \A j \in Invoices : row'[j].issued = row[j].issued
      /\ \A j \in Invoices : row'[j].issued <=> row'[j].aeat # "none"
  BY StatusTypes
<1>2. \A p \in Requests : req'[p] = IF p = q THEN r ELSE req[p]
  BY DEF VerifactuTypesInv, VerifactuTypeOK
<1>3. req' \in [Requests -> RequestRow]
  BY DEF VerifactuTypesInv, VerifactuTypeOK, RequestRow
<1>4. \A p \in Requests : req'[p].pc # "idle" => req'[p].i \in Invoices
  BY <1>2 DEF VerifactuTypesInv, VerifactuTypeOK
<1>5. VerifactuTypeOK'
  BY <1>1, <1>3, <1>4 DEF VerifactuTypesInv, VerifactuTypeOK, InvoiceRow, RequestRow, Issued
<1>6. \A p \in Requests : req'[p].pc \in AfterIssue => row'[req'[p].i].issued
  <2>1. \A p \in Requests : req[p].pc \in AfterIssue => req[p].i \in Invoices /\ Issued(req[p].i)
    BY DEF VerifactuTypesInv, VerifactuTypeOK, AfterIssue
  <2>2. r.pc \in AfterIssue => r.i \in Invoices /\ Issued(r.i)
    BY DEF AfterIssue
  <2> QED
    BY <1>1, <1>2, <2>1, <2>2 DEF Issued
<1>7. \A p \in Requests : req'[p].pc = "refreshing" => req'[p].answer \in Answers
  BY <1>2 DEF VerifactuTypesInv
<1> QED
  BY <1>1, <1>5, <1>6, <1>7 DEF VerifactuTypesInv, VerifactuTypeOK, Issued

LEMMA WriteTypes ==
    ASSUME VerifactuTypesInv, NEW q \in Requests, WriteRefresh(q) \/ WriteResend(q)
    PROVE  VerifactuTypesInv'
<1> DEFINE i == req[q].i
<1>1. i \in Invoices /\ Issued(i) /\ row[i].sent \in BOOLEAN
  BY DEF VerifactuTypesInv, VerifactuTypeOK, WriteRefresh, WriteResend, AfterIssue
<1>2. row[i] \in InvoiceRow /\ req[q] \in RequestRow
  BY <1>1 DEF VerifactuTypesInv, VerifactuTypeOK, InvoiceRow, RequestRow
<1>3. CASE WriteRefresh(q)
  <2>1. row' = [row EXCEPT ![i] = Shows(i, req[q].answer, row[i].sent)]
    BY <1>2, <1>3 DEF WriteRefresh, Shows, InvoiceRow
  <2>2. req[q].answer \in AeatStatus
    BY <1>3 DEF VerifactuTypesInv, WriteRefresh, Answers, AeatStatus
  <2>3. unsure' \subseteq Invoices
    BY <1>1, <1>3 DEF WriteRefresh, VerifactuTypesInv, VerifactuTypeOK
  <2>4. Idle \in RequestRow /\ Idle.pc = "idle"
    BY DEF RequestRow, Idle, MaybeInvoice
  <2>5. req' = [req EXCEPT ![q] = Idle]
        /\ UNCHANGED <<next, jobs, work, agency, touched, troubles>>
    BY <1>3 DEF WriteRefresh
  <2> HIDE DEF i
  <2> QED
    BY <1>1, <2>1, <2>2, <2>3, <2>4, <2>5, RequestWritesTypes DEF AfterIssue
<1>4. CASE WriteResend(q)
  <2> DEFINE r == [req[q] EXCEPT !.pc = "queueing"]
  <2>1. row' = [row EXCEPT ![i] = Shows(i, "pending", row[i].sent)]
    BY <1>2, <1>4 DEF WriteResend, Shows, InvoiceRow
  <2>2. r \in RequestRow /\ r.pc = "queueing" /\ r.i = i
    BY <1>2 DEF RequestRow
  <2>3. req' = [req EXCEPT ![q] = r] /\ unsure' \subseteq Invoices
        /\ UNCHANGED <<next, jobs, work, agency, touched, troubles>>
    BY <1>4 DEF WriteResend, VerifactuTypesInv, VerifactuTypeOK
  <2>4. "pending" \in AeatStatus
    BY DEF AeatStatus
  <2> HIDE DEF i, r
  <2> QED
    BY <1>1, <2>1, <2>2, <2>3, <2>4, RequestWritesTypes DEF AfterIssue
<1> QED
  BY <1>3, <1>4

(* The queue, the worker and the agency change, and a status perhaps.      *)
LEMMA QueueTypes ==
    ASSUME VerifactuTypesInv,
           jobs' \in [Invoices -> 0..MaxJobs],
           \A i \in Invoices : jobs'[i] > 0 => Issued(i),
           work' \in WorkRow,
           work'.pc # "idle" => work'.i \in Invoices /\ jobs'[work'.i] > 0,
           work'.pc = "idle" => work' = Resting,
           work'.pc = "answered" => work'.answer \in Answers,
           agency' \in [Invoices -> AgencyRow],
           unsure' \subseteq Invoices,
           troubles' = troubles \/ Trouble,
           \/ row' = row
           \/ \E i \in Invoices, aeat \in AeatStatus, sent \in BOOLEAN :
                 Issued(i) /\ row' = [row EXCEPT ![i] = Shows(i, aeat, sent)],
           UNCHANGED <<next, req, touched>>
    PROVE  VerifactuTypesInv'
<1>1. /\ row' \in [Invoices -> InvoiceRow]
      /\ \A j \in Invoices : row'[j].issued = row[j].issued
      /\ \A j \in Invoices : row'[j].issued <=> row'[j].aeat # "none"
  <2>1. CASE row' = row
    BY <2>1 DEF VerifactuTypesInv, VerifactuTypeOK, InvoiceRow, Issued
  <2>2. CASE \E i \in Invoices, aeat \in AeatStatus, sent \in BOOLEAN :
                 Issued(i) /\ row' = [row EXCEPT ![i] = Shows(i, aeat, sent)]
    BY <2>2, StatusTypes
  <2> QED
    BY <2>1, <2>2
<1>2. troubles' \in 0..MaxTroubles
  BY TroubleTypes
<1>3. VerifactuTypeOK'
  BY <1>1, <1>2
     DEF VerifactuTypesInv, VerifactuTypeOK, InvoiceRow, WorkRow, AgencyRow, Issued
<1>4. \A p \in Requests : req[p].pc \in AfterIssue => req[p].i \in Invoices /\ Issued(req[p].i)
  BY DEF VerifactuTypesInv, VerifactuTypeOK, AfterIssue
<1> QED
  BY <1>1, <1>3, <1>4 DEF VerifactuTypesInv, Issued

(* What happens to the jobs.                                               *)
LEMMA QueuedTypes ==
    ASSUME VerifactuTypesInv, NEW i \in Invoices, Issued(i)
    PROVE  /\ Queued(i) \in [Invoices -> 0..MaxJobs]
           /\ \A j \in Invoices : Queued(i)[j] >= jobs[j]
           /\ \A j \in Invoices : Queued(i)[j] > 0 => Issued(j)
<1>1. jobs \in [Invoices -> 0..MaxJobs] /\ MaxJobs \in Nat
      /\ \A j \in Invoices : jobs[j] > 0 => Issued(j)
  BY VerifactuAssumption DEF VerifactuTypesInv, VerifactuTypeOK
<1>2. \A j \in Invoices : Queued(i)[j] = IF j = i /\ jobs[j] < MaxJobs THEN jobs[j] + 1 ELSE jobs[j]
  BY <1>1 DEF Queued
<1>3. \A j \in Invoices : Queued(i)[j] \in 0..MaxJobs /\ Queued(i)[j] >= jobs[j]
  BY <1>1, <1>2
<1>4. Queued(i) \in [Invoices -> 0..MaxJobs]
  BY <1>1, <1>3 DEF Queued
<1> QED
  BY <1>1, <1>2, <1>3, <1>4

LEMMA RetriedTypes ==
    ASSUME VerifactuTypesInv, NEW i \in Invoices, jobs[i] > 0, Retried(i) \/ jobs' = Removed(i)
    PROVE  /\ jobs' \in [Invoices -> 0..MaxJobs]
           /\ \A j \in Invoices : jobs'[j] > 0 => Issued(j)
<1>1. jobs \in [Invoices -> 0..MaxJobs] /\ MaxJobs \in Nat
      /\ \A j \in Invoices : jobs[j] > 0 => Issued(j)
  BY VerifactuAssumption DEF VerifactuTypesInv, VerifactuTypeOK
<1>2. CASE jobs' = jobs
  BY <1>1, <1>2
<1>3. CASE jobs' = [jobs EXCEPT ![i] = jobs[i] - 1]
  <2>1. \A j \in Invoices : jobs'[j] = IF j = i THEN jobs[i] - 1 ELSE jobs[j]
    BY <1>1, <1>3
  <2>2. \A j \in Invoices : jobs'[j] \in 0..MaxJobs /\ jobs'[j] <= jobs[j]
    BY <1>1, <2>1
  <2>3. jobs' \in [Invoices -> 0..MaxJobs]
    BY <1>1, <1>3, <2>2
  <2>4. \A j \in Invoices : jobs'[j] > 0 => jobs[j] > 0
    BY <1>1, <2>2
  <2> QED
    BY <1>1, <2>3, <2>4
<1> QED
  BY <1>2, <1>3 DEF Retried, Removed

LEMMA EnqueueTypes ==
    ASSUME VerifactuTypesInv, NEW q \in Requests, Enqueue(q)
    PROVE  VerifactuTypesInv'
<1>1. req[q].i \in Invoices /\ Issued(req[q].i)
  BY DEF VerifactuTypesInv, VerifactuTypeOK, Enqueue, AfterIssue
<1>2. /\ jobs' \in [Invoices -> 0..MaxJobs]
      /\ \A j \in Invoices : jobs'[j] >= jobs[j]
      /\ \A j \in Invoices : jobs'[j] > 0 => Issued(j)
  BY <1>1, QueuedTypes DEF Enqueue
<1>3. /\ Idle \in RequestRow /\ Idle.pc = "idle" /\ req' = [req EXCEPT ![q] = Idle]
      /\ UNCHANGED <<row, next, work, agency, unsure, touched, troubles>>
  BY DEF RequestRow, Idle, MaybeInvoice, Enqueue
<1>4. \A p \in Requests : req'[p] = IF p = q THEN Idle ELSE req[p]
  BY <1>3 DEF VerifactuTypesInv, VerifactuTypeOK
<1>5. req' \in [Requests -> RequestRow]
  BY <1>3 DEF VerifactuTypesInv, VerifactuTypeOK, RequestRow
<1>6. work.pc # "idle" => jobs'[work.i] > 0
  <2>1. SUFFICES ASSUME work.pc # "idle"
                 PROVE  jobs'[work.i] > 0
    OBVIOUS
  <2>2. work.i \in Invoices /\ jobs[work.i] > 0 /\ jobs[work.i] \in Nat
    BY <2>1, VerifactuAssumption DEF VerifactuTypesInv, VerifactuTypeOK
  <2>3. jobs'[work.i] \in Nat /\ jobs'[work.i] >= jobs[work.i]
    BY <1>2, <2>2, VerifactuAssumption
  <2> QED
    BY <2>2, <2>3
<1>7. \A p \in Requests : req'[p].pc # "idle" => req'[p].i \in Invoices
  BY <1>3, <1>4 DEF VerifactuTypesInv, VerifactuTypeOK
<1>8. VerifactuTypeOK'
  BY <1>2, <1>3, <1>5, <1>6, <1>7 DEF VerifactuTypesInv, VerifactuTypeOK, RequestRow, Issued
<1> QED
  BY <1>2, <1>3, <1>4, <1>8 DEF VerifactuTypesInv, Issued, AfterIssue

(* The agency decides, and the worker keeps its invoice.                   *)
LEMMA DecidedTypes ==
    ASSUME VerifactuTypesInv, NEW i \in Invoices, NEW at \in Decisions(i), Decided(i, at)
    PROVE  /\ agency' \in [Invoices -> AgencyRow]
           /\ agency'[i].at = at /\ agency'[i].got /\ agency'[i].late = agency[i].late
           /\ \A j \in Invoices \ {i} : agency'[j] = agency[j]
<1>1. agency \in [Invoices -> AgencyRow]
  BY DEF VerifactuTypesInv, VerifactuTypeOK, AgencyRow
<1>2. at \in {"registered", "refused"}
  BY DEF Decisions
<1>3. \A j \in Invoices :
         agency'[j] = IF j = i THEN [agency[i] EXCEPT !.at = at, !.got = TRUE] ELSE agency[j]
  BY <1>1 DEF Decided
<1>4. [agency[i] EXCEPT !.at = at, !.got = TRUE] \in AgencyRow
  BY <1>1, <1>2 DEF AgencyRow
<1>5. agency' \in [Invoices -> AgencyRow]
  BY <1>1, <1>4 DEF Decided
<1> QED
  BY <1>1, <1>3, <1>5 DEF AgencyRow

LEMMA AnsweredTypes ==
    ASSUME VerifactuTypesInv, work.pc # "idle", NEW answer \in Answers, Answered(answer)
    PROVE  /\ work' \in WorkRow /\ work'.pc = "answered" /\ work'.i = work.i
           /\ work'.answer = answer
<1>1. work \in WorkRow /\ answer \in AeatStatus
  BY DEF VerifactuTypesInv, VerifactuTypeOK, WorkRow, Answers, AeatStatus
<1> QED
  BY <1>1 DEF Answered, WorkRow

LEMMA AtWork ==
    ASSUME VerifactuTypesInv
    PROVE  /\ work \in WorkRow /\ Resting \in WorkRow /\ Resting.pc = "idle"
           /\ Resting.i = NoInvoice
           /\ work.pc # "idle" => work.i \in Invoices /\ jobs[work.i] > 0 /\ Issued(work.i)
           /\ work.pc = "idle" => work.i = NoInvoice
           /\ jobs \in [Invoices -> 0..MaxJobs]
           /\ agency \in [Invoices -> AgencyRow]
           /\ \A i \in Invoices : jobs[i] > 0 => Issued(i)
BY DEF VerifactuTypesInv, VerifactuTypeOK, WorkRow, AgencyRow, Resting, MaybeInvoice

LEMMA TakeTypes ==
    ASSUME VerifactuTypesInv, NEW i \in Invoices, Take(i)
    PROVE  VerifactuTypesInv'
<1>1. UNCHANGED <<row, next, req, agency, unsure, touched, troubles>>
      /\ work.pc = "idle" /\ work = Resting /\ jobs[i] > 0 /\ unsure \subseteq Invoices
  BY DEF Take, VerifactuTypesInv, VerifactuTypeOK
<1>2. CASE Retried(i) /\ UNCHANGED work
  BY <1>1, <1>2, AtWork, RetriedTypes, QueueTypes
<1>3. CASE jobs' = Removed(i) /\ UNCHANGED work
  BY <1>1, <1>3, AtWork, RetriedTypes, QueueTypes
<1>4. CASE /\ work' = [Resting EXCEPT !.i = i, !.pc = IF row[i].sent THEN "asking" ELSE "sending"]
           /\ UNCHANGED jobs
  <2>1. work' \in WorkRow /\ work'.i = i /\ work'.pc \in {"asking", "sending"}
    BY <1>4 DEF WorkRow, Resting, MaybeInvoice
  <2> QED
    BY <1>1, <1>4, <2>1, AtWork, QueueTypes
<1> QED
  BY <1>2, <1>3, <1>4 DEF Take

LEMMA AskFirstTypes ==
    ASSUME VerifactuTypesInv, AskFirst
    PROVE  VerifactuTypesInv'
<1>1. work.pc = "asking" /\ UNCHANGED <<next, req, agency, unsure, touched, troubles>>
      /\ unsure \subseteq Invoices
  BY DEF AskFirst, VerifactuTypesInv, VerifactuTypeOK
<1>2. work.i \in Invoices /\ Issued(work.i) /\ jobs[work.i] > 0
  BY <1>1, AtWork
<1>3. CASE row' = [row EXCEPT ![work.i].aeat = "accepted"] /\ jobs' = Removed(work.i)
           /\ work' = Resting
  <2>1. row' = [row EXCEPT ![work.i] = Shows(work.i, "accepted", row[work.i].sent)]
        /\ row[work.i].sent \in BOOLEAN /\ "accepted" \in AeatStatus
    BY <1>2, <1>3 DEF VerifactuTypesInv, VerifactuTypeOK, Shows, AeatStatus
  <2> QED
    BY <1>1, <1>2, <1>3, <2>1, AtWork, RetriedTypes, QueueTypes
<1>4. CASE work' = [work EXCEPT !.pc = "sending"] /\ UNCHANGED <<row, jobs>>
  <2>1. work' \in WorkRow /\ work'.i = work.i /\ work'.pc = "sending"
    BY <1>4, AtWork DEF WorkRow
  <2> QED
    BY <1>1, <1>2, <1>4, <2>1, AtWork, QueueTypes
<1> QED
  BY <1>3, <1>4 DEF AskFirst

LEMMA SendTypes ==
    ASSUME VerifactuTypesInv, AskFails \/ Submit \/ DuplicateUnclear \/ SubmitLost
    PROVE  VerifactuTypesInv'
<1>1. /\ work.pc \in {"asking", "sending"}
      /\ UNCHANGED <<row, next, req, jobs, touched>> /\ (troubles' = troubles \/ Trouble)
  BY DEF AskFails, Submit, DuplicateUnclear, SubmitLost
<1>2. work.i \in Invoices /\ Issued(work.i) /\ jobs[work.i] > 0 /\ work.pc # "idle"
  BY <1>1, AtWork
<1>3. unsure' \subseteq Invoices
  BY <1>2 DEF AskFails, Submit, DuplicateUnclear, SubmitLost, VerifactuTypesInv, VerifactuTypeOK
<1>4. agency' \in [Invoices -> AgencyRow]
  <2>1. CASE \E at \in Decisions(work.i) : Decided(work.i, at)
    BY <1>2, <2>1, DecidedTypes
  <2>2. CASE agency' = agency
    BY <2>2, AtWork
  <2>3. CASE agency' = [agency EXCEPT ![work.i].got = TRUE, ![work.i].late = TRUE]
    BY <1>2, <2>3, AtWork DEF AgencyRow
  <2> QED
    BY <2>1, <2>2, <2>3 DEF AskFails, Submit, DuplicateUnclear, SubmitLost
<1>5. work' \in WorkRow /\ work'.i = work.i /\ work'.pc # "idle"
      /\ (work'.pc = "answered" => work'.answer \in Answers)
  <2>1. CASE AskFails
    BY <2>1, AtWork DEF AskFails, WorkRow
  <2>2. CASE Submit \/ DuplicateUnclear \/ SubmitLost
    <3>1. PICK answer \in Answers : Answered(answer)
      BY <2>2 DEF Submit, DuplicateUnclear, SubmitLost, Answers
    <3> QED
      BY <1>2, <3>1, AnsweredTypes
  <2> QED
    BY <2>1, <2>2
<1> QED
  BY <1>1, <1>2, <1>3, <1>4, <1>5, AtWork, QueueTypes

LEMMA StoreTypes ==
    ASSUME VerifactuTypesInv, Store \/ WorkerStops
    PROVE  VerifactuTypesInv'
<1>1. /\ work.pc # "idle" /\ work' = Resting /\ UNCHANGED <<next, req, agency, touched>>
      /\ (Retried(work.i) \/ jobs' = Removed(work.i)) /\ (troubles' = troubles \/ Trouble)
  BY DEF Store, WorkerStops
<1>2. work.i \in Invoices /\ Issued(work.i) /\ jobs[work.i] > 0
  BY <1>1, AtWork
<1>3. CASE Store
  <2>1. row' = [row EXCEPT ![work.i] = Shows(work.i, work.answer, TRUE)]
        /\ UNCHANGED unsure /\ unsure \subseteq Invoices
    BY <1>2, <1>3 DEF Store, Shows, VerifactuTypesInv, VerifactuTypeOK
  <2>2. work.answer \in AeatStatus
    BY <1>3 DEF Store, VerifactuTypesInv, Answers, AeatStatus
  <2> QED
    BY <1>1, <1>2, <2>1, <2>2, AtWork, RetriedTypes, QueueTypes
<1>4. CASE WorkerStops
  <2>1. row' = row /\ unsure' \subseteq Invoices
    BY <1>2, <1>4 DEF WorkerStops, VerifactuTypesInv, VerifactuTypeOK
  <2> QED
    BY <1>1, <1>2, <2>1, AtWork, RetriedTypes, QueueTypes
<1> QED
  BY <1>3, <1>4

LEMMA AgencyTypes ==
    ASSUME VerifactuTypesInv, NEW i \in Invoices, Arrive(i) \/ Requeue(i)
    PROVE  VerifactuTypesInv'
<1>1. UNCHANGED <<row, next, req, work, touched, troubles>>
  BY DEF Arrive, Requeue
<1>2. unsure' \subseteq Invoices
  <2>1. unsure' = unsure \/ unsure' = unsure \cup {i}
    BY DEF Arrive, Requeue
  <2> QED
    BY <2>1 DEF VerifactuTypesInv, VerifactuTypeOK
<1>3. CASE Arrive(i)
  <2>1. PICK at \in Decisions(i) : agency' = [agency EXCEPT ![i].at = at, ![i].late = FALSE]
    BY <1>3 DEF Arrive
  <2>2. at \in {"registered", "refused"}
    BY DEF Decisions
  <2>3. [agency[i] EXCEPT !.at = at, !.late = FALSE] \in AgencyRow
    BY <2>2, AtWork DEF AgencyRow
  <2>4. agency' \in [Invoices -> AgencyRow] /\ jobs' = jobs
    BY <1>3, <2>1, <2>3, AtWork DEF Arrive
  <2> QED
    BY <1>1, <1>2, <2>4, AtWork, QueueTypes DEF VerifactuTypesInv
<1>4. CASE Requeue(i)
  <2>1. Issued(i) /\ jobs' = Queued(i) /\ agency' = agency
    BY <1>4 DEF Requeue, Stalled, VerifactuTypesInv, VerifactuTypeOK
  <2>2. \A j \in Invoices : jobs'[j] \in Nat /\ jobs[j] \in Nat /\ jobs'[j] >= jobs[j]
    BY <2>1, QueuedTypes, AtWork, VerifactuAssumption
  <2>3. work.pc # "idle" => jobs'[work.i] > 0
    BY <2>2, AtWork
  <2> QED
    BY <1>1, <1>2, <2>1, <2>3, AtWork, QueuedTypes, QueueTypes DEF VerifactuTypesInv
<1> QED
  BY <1>3, <1>4

LEMMA StepTypes ==
    ASSUME VerifactuTypesInv, [Next]_vars
    PROVE  VerifactuTypesInv'
<1>1. CASE UNCHANGED vars
  BY <1>1 DEF vars, VerifactuTypesInv, VerifactuTypeOK, Issued
<1>2. ASSUME NEW q \in Requests, RequestStep(q)
      PROVE  VerifactuTypesInv'
  <2>1. req[q] \in RequestRow
    BY DEF VerifactuTypesInv, VerifactuTypeOK, RequestRow
  <2> QED
    BY <1>2, <2>1, AskTypes, CommitTypes, EnqueueTypes, WriteTypes DEF RequestStep
<1>3. CASE WorkerStep
  BY <1>3, TakeTypes, AskFirstTypes, SendTypes, StoreTypes DEF WorkerStep
<1>4. ASSUME NEW i \in Invoices, Arrive(i) \/ Requeue(i)
      PROVE  VerifactuTypesInv'
  BY <1>4, AgencyTypes
<1> QED
  BY <1>1, <1>2, <1>3, <1>4 DEF Next

(* The types of the invoices, requests, jobs and of the agency's records   *)
(* hold for any number of them.                                            *)
THEOREM VerifactuTypes == Spec => []VerifactuTypeOK
<1>1. VerifactuTypesInv => VerifactuTypeOK
  BY DEF VerifactuTypesInv
<1> QED
  BY <1>1, InitTypes, StepTypes, PTL DEF Spec

-----------------------------------------------------------------------------
(* The numbers and the chain.  Of the transactions under way no two are    *)
(* behind the same lock; each works on a draft, has the next number of its *)
(* series and is linked to the last record of its issuer.                  *)
Numbered == {"numbered", "chained"}

Apart(r, t) ==
    /\ r.pc \in Transaction /\ t.pc \in Transaction => r.i # t.i
    /\ r.pc \in Numbered /\ t.pc \in Numbered => Series[r.i] # Series[t.i]
    /\ r.pc = "chained" /\ t.pc = "chained" => Issuer[r.i] # Issuer[t.i]

LinkedToLast(r) ==
    IF Chained(r.i) = {} THEN r.prev = NoInvoice /\ r.seq = 1
    ELSE r.prev \in Last(r.i) /\ r.seq = row[r.prev].seq + 1

Ready(r) ==
    /\ r.pc \in Transaction => ~Issued(r.i)
    /\ r.pc \in {"locked", "numbered"} => r.prev = NoInvoice
    /\ r.pc \in Numbered => r.number = next[Series[r.i]]
    /\ r.pc = "chained" => LinkedToLast(r)

Placed(i) ==
    /\ Issued(i) => row[i].seq >= 1
    /\ Chained(i) = {} \/ Last(i) # {}

IssueInv ==
    /\ \A p, q \in Requests : p # q => Apart(req[p], req[q])
    /\ \A q \in Requests : Ready(req[q])
    /\ \A i \in Invoices : Placed(i)
    /\ NumbersWithoutGaps
    /\ OneChain

LEMMA InitIssue ==
    ASSUME Init
    PROVE  IssueInv
<1>1. \A i \in Invoices : ~Issued(i)
  BY DEF Init, Draft, Issued
<1>2. \A q \in Requests : req[q].pc = "idle"
  BY DEF Init, Idle
<1>3. \A i \in Invoices : Chained(i) = {}
  BY <1>1 DEF Chained
<1>4. NumbersWithoutGaps
  <2>1. \A t \in SeriesSet : next[t] = 1
    BY DEF Init
  <2>2. \A t \in SeriesSet : {row[i].number : i \in {j \in Invoices : Issued(j) /\ Series[j] = t}} = {}
    BY <1>1
  <2>3. 1..(1 - 1) = {}
    OBVIOUS
  <2> QED
    BY <1>1, <2>1, <2>2, <2>3 DEF NumbersWithoutGaps
<1>5. OneChain
  BY <1>1 DEF OneChain
<1> QED
  BY <1>1, <1>2, <1>3, <1>4, <1>5 DEF IssueInv, Apart, Ready, Placed, Transaction, Numbered

(* The place of the records in their series and chains.                    *)
SameRecords ==
    \A i \in Invoices :
        /\ row'[i].issued = row[i].issued /\ row'[i].number = row[i].number
        /\ row'[i].seq = row[i].seq /\ row'[i].prev = row[i].prev

LEMMA RecordsStay ==
    ASSUME VerifactuTypesInv, IssueInv, SameRecords, next' = next
    PROVE  /\ \A i \in Invoices : Issued(i)' = Issued(i)
           /\ \A i \in Invoices : Chained(i)' = Chained(i) /\ Last(i)' = Last(i)
           /\ \A i \in Invoices : Placed(i)'
           /\ NumbersWithoutGaps' /\ OneChain'
<1>1. \A i \in Invoices : Issued(i)' = Issued(i)
  BY DEF SameRecords, Issued
<1>2. \A i \in Invoices : Chained(i)' = Chained(i)
  BY <1>1 DEF Chained
<1>3. \A i \in Invoices : Chained(i) \subseteq Invoices
  BY DEF Chained
<1>4. \A i \in Invoices : Last(i)' = Last(i)
  BY <1>2, <1>3 DEF Last, SameRecords
<1>5. \A i \in Invoices : Placed(i)'
  BY <1>1, <1>2, <1>4 DEF IssueInv, Placed, SameRecords
<1>6. NumbersWithoutGaps'
  <2>1. \A t : {j \in Invoices : Issued(j) /\ Series[j] = t}' = {j \in Invoices : Issued(j) /\ Series[j] = t}
    BY <1>1
  <2>2. \A t \in SeriesSet :
           {row'[i].number : i \in {j \in Invoices : Issued(j)' /\ Series[j] = t}}
             = {row[i].number : i \in {j \in Invoices : Issued(j) /\ Series[j] = t}}
    BY <1>1 DEF SameRecords
  <2> QED
    BY <1>1, <2>2 DEF IssueInv, NumbersWithoutGaps, SameRecords
<1>7. OneChain'
  <2>1. \A i \in Invoices : row[i].prev \in MaybeInvoice
    BY DEF VerifactuTypesInv, VerifactuTypeOK
  <2>2. \A i \in Invoices : row[i].prev # NoInvoice => row'[row[i].prev].seq = row[row[i].prev].seq
    BY <2>1 DEF SameRecords, MaybeInvoice
  <2> QED
    BY <1>1, <1>2, <1>3, <2>2 DEF IssueInv, OneChain, SameRecords
<1> QED
  BY <1>1, <1>2, <1>4, <1>5, <1>6, <1>7

(* A request that is apart from the others and ready moves on.             *)
LEMMA ReadyStays ==
    ASSUME VerifactuTypesInv, IssueInv, SameRecords, next' = next,
           NEW r \in RequestRow, Ready(r), r.pc # "idle" => r.i \in Invoices
    PROVE  Ready(r)'
<1>1. CASE r.pc \in Transaction
  <2>1. r.i \in Invoices /\ Issued(r.i)' = Issued(r.i) /\ Chained(r.i)' = Chained(r.i)
        /\ Last(r.i)' = Last(r.i)
    BY <1>1, RecordsStay DEF Transaction
  <2>2. \A j \in Last(r.i) : row'[j].seq = row[j].seq
    BY DEF Last, Chained, SameRecords
  <2> QED
    BY <2>1, <2>2 DEF Ready, LinkedToLast
<1>2. CASE r.pc \notin Transaction
  BY <1>2 DEF Ready, Transaction, Numbered
<1> QED
  BY <1>1, <1>2

LEMMA AllReady ==
    ASSUME NEW q \in Requests, NEW r, r = req'[q], Ready(r)'
    PROVE  Ready(req[q])'
BY DEF Ready, LinkedToLast, Last, Chained, Issued

LEMMA Requester ==
    ASSUME VerifactuTypesInv, NEW q \in Requests
    PROVE  req[q] \in RequestRow /\ (req[q].pc # "idle" => req[q].i \in Invoices)
BY DEF VerifactuTypesInv, VerifactuTypeOK, RequestRow

(* Every action but the commit keeps the records; one request may be at    *)
(* another step of its transaction.                                        *)
LEMMA RequestIssue ==
    ASSUME VerifactuTypesInv, IssueInv, SameRecords, next' = next,
           NEW q \in Requests, NEW r \in RequestRow,
           r.pc # "idle" => r.i \in Invoices,
           req' = [req EXCEPT ![q] = r],
           Ready(r),
           \A p \in Requests \ {q} : Apart(r, req[p])
    PROVE  IssueInv'
<1>1. \A p \in Requests : req'[p] = IF p = q THEN r ELSE req[p]
  BY DEF VerifactuTypesInv, VerifactuTypeOK
<1>2. \A x, y : Apart(x, y) => Apart(y, x)
  BY DEF Apart
<1>3. \A p, t \in Requests : p # t => Apart(req'[p], req'[t])
  BY <1>1, <1>2 DEF IssueInv
<1>4. ASSUME NEW p \in Requests
      PROVE  Ready(req[p])'
  <2>1. PICK x \in RequestRow : x = req'[p] /\ Ready(x) /\ (x.pc # "idle" => x.i \in Invoices)
    BY <1>1, Requester DEF IssueInv
  <2>2. Ready(x)'
    BY <2>1, ReadyStays
  <2> QED
    BY <2>1, <2>2, AllReady
<1> QED
  BY <1>3, <1>4, RecordsStay DEF IssueInv

(* The other actions do not touch a transaction, unless to roll it back.   *)
LEMMA QuietIssue ==
    ASSUME VerifactuTypesInv, VerifactuTypesInv', IssueInv, SameRecords, next' = next,
           \A q \in Requests : req'[q].pc \in Transaction => req'[q] = req[q]
    PROVE  IssueInv'
<1>1. \A p, t \in Requests : p # t => Apart(req'[p], req'[t])
  <2>1. \A p, t \in Requests : Apart(req[p], req[t]) => Apart(req'[p], req'[t])
    BY DEF Apart, Transaction, Numbered
  <2> QED
    BY <2>1 DEF IssueInv
<1>2. ASSUME NEW p \in Requests
      PROVE  Ready(req[p])'
  <2>1. PICK x : x = req'[p]
    OBVIOUS
  <2>2. CASE x.pc \in Transaction
    <3>1. x \in RequestRow /\ Ready(x) /\ (x.pc # "idle" => x.i \in Invoices)
      BY <2>1, <2>2, Requester DEF IssueInv
    <3>2. Ready(x)'
      BY <3>1, ReadyStays
    <3> QED
      BY <2>1, <3>2, AllReady
  <2>3. CASE x.pc \notin Transaction
    BY <2>1, <2>3 DEF Ready, Transaction, Numbered
  <2> QED
    BY <2>2, <2>3
<1> QED
  BY <1>1, <1>2, RecordsStay DEF IssueInv

(* The locks: waiting for them keeps a request apart.                      *)
LEMMA LockIssue ==
    ASSUME VerifactuTypesInv, IssueInv, NEW q \in Requests, NEW i \in Invoices, Lock(q, i)
    PROVE  IssueInv'
<1> DEFINE r == [Idle EXCEPT !.pc = "locked", !.i = i]
<1>1. r \in RequestRow /\ r.pc = "locked" /\ r.i = i /\ r.prev = NoInvoice
  BY DEF RequestRow, Idle, MaybeInvoice, Transaction
<1>2. SameRecords /\ next' = next /\ req' = [req EXCEPT ![q] = r] /\ ~Issued(i)
      /\ \A p \in Requests : req[p].pc \in Transaction => req[p].i # i
  BY DEF Lock, SameRecords, InvoiceLocked
<1> HIDE DEF r
<1>3. Ready(r)
  BY <1>1, <1>2 DEF Ready, Numbered
<1>4. \A p \in Requests : Apart(r, req[p])
  BY <1>1, <1>2 DEF Apart, Numbered
<1> QED
  BY <1>1, <1>2, <1>3, <1>4, RequestIssue

LEMMA ReserveIssue ==
    ASSUME VerifactuTypesInv, IssueInv, NEW q \in Requests, ReserveNumber(q)
    PROVE  IssueInv'
<1> DEFINE r == [req[q] EXCEPT !.pc = "numbered", !.number = next[Series[req[q].i]]]
<1>1. req[q].pc = "locked" /\ req[q] \in RequestRow /\ req[q].i \in Invoices /\ Ready(req[q])
      /\ next[Series[req[q].i]] \in Nat
  BY Requester, VerifactuAssumption
     DEF ReserveNumber, IssueInv, VerifactuTypesInv, VerifactuTypeOK
<1>2. r \in RequestRow /\ r.pc = "numbered" /\ r.i = req[q].i /\ r.prev = req[q].prev
      /\ r.number = next[Series[r.i]]
  BY <1>1 DEF RequestRow, Transaction
<1>3. SameRecords /\ next' = next /\ req' = [req EXCEPT ![q] = r]
      /\ \A p \in Requests : req[p].pc \in Numbered => Series[req[p].i] # Series[r.i]
  BY <1>2 DEF ReserveNumber, SameRecords, SeriesLocked, Numbered
<1> HIDE DEF r
<1>4. Ready(r)
  BY <1>1, <1>2 DEF Ready, Transaction
<1>5. \A p \in Requests \ {q} : Apart(r, req[p])
  BY <1>1, <1>2, <1>3 DEF Apart, IssueInv, Transaction
<1> QED
  BY <1>1, <1>2, <1>3, <1>4, <1>5, RequestIssue

LEMMA ChainIssue ==
    ASSUME VerifactuTypesInv, IssueInv, NEW q \in Requests, Chain(q)
    PROVE  IssueInv'
<1> DEFINE i == req[q].i
<1>1. req[q].pc = "numbered" /\ req[q] \in RequestRow /\ i \in Invoices /\ Ready(req[q])
      /\ req[q].prev = NoInvoice
  BY Requester DEF Chain, IssueInv, Ready
<1>2. PICK r \in RequestRow :
         /\ r.pc = "chained" /\ r.i = i /\ r.number = req[q].number
         /\ LinkedToLast(r) /\ req' = [req EXCEPT ![q] = r]
  <2>1. CASE Last(i) = {}
    <3> DEFINE r == [req[q] EXCEPT !.pc = "chained", !.seq = 1]
    <3>1. r \in RequestRow /\ r.pc = "chained" /\ r.i = i /\ r.number = req[q].number
          /\ r.prev = NoInvoice /\ r.seq = 1
      BY <1>1 DEF RequestRow, Transaction
    <3>2. req' = [req EXCEPT ![q] = r]
      BY <2>1 DEF Chain
    <3>3. Chained(i) = {}
      BY <1>1, <2>1 DEF IssueInv, Placed
    <3> HIDE DEF r
    <3> QED
      BY <3>1, <3>2, <3>3 DEF LinkedToLast
  <2>2. CASE Last(i) # {}
    <3>1. PICK j \in Last(i) : req' = [req EXCEPT ![q] = [req[q] EXCEPT !.pc = "chained",
                                          !.prev = j, !.seq = row[j].seq + 1]]
      BY <2>2 DEF Chain
    <3>2. j \in MaybeInvoice /\ row[j].seq + 1 \in Nat /\ j \in Chained(i)
      BY DEF Last, Chained, VerifactuTypesInv, VerifactuTypeOK, MaybeInvoice
    <3>n. PICK n \in Nat : n = row[j].seq + 1
      BY <3>2
    <3> DEFINE r == [req[q] EXCEPT !.pc = "chained", !.prev = j, !.seq = n]
    <3>3. r \in RequestRow /\ r.pc = "chained" /\ r.i = i /\ r.number = req[q].number
          /\ r.prev = j /\ r.seq = n
      BY <1>1, <3>2 DEF RequestRow, Transaction
    <3>4. req' = [req EXCEPT ![q] = r]
      BY <3>1, <3>n
    <3> HIDE DEF r
    <3>5. LinkedToLast(r)
      BY <3>1, <3>2, <3>3, <3>n DEF LinkedToLast
    <3> QED
      BY <3>3, <3>4, <3>5
  <2> QED
    BY <2>1, <2>2
<1>3. SameRecords /\ next' = next
      /\ \A p \in Requests : req[p].pc = "chained" => Issuer[req[p].i] # Issuer[i]
  BY DEF Chain, SameRecords, ChainLocked
<1>4. Ready(r)
  BY <1>1, <1>2 DEF Ready, Transaction, Numbered
<1>5. \A p \in Requests \ {q} : Apart(r, req[p])
  <2>1. \A p \in Requests \ {q} : Apart(req[q], req[p])
    BY DEF IssueInv
  <2> QED
    BY <1>1, <1>2, <1>3, <2>1 DEF Apart, Transaction, Numbered
<1> QED
  BY <1>1, <1>2, <1>3, <1>4, <1>5, RequestIssue

(* The commit: the draft becomes the last record of its series and chain,  *)
(* and the transactions still open are behind other locks.                 *)
LEMMA CommitIssue ==
    ASSUME VerifactuTypesInv, VerifactuTypesInv', IssueInv,
           NEW q \in Requests, NEW r \in RequestRow, r = req[q], Commit(q)
    PROVE  IssueInv'
<1> DEFINE i == r.i
<1>1. /\ r.pc = "chained" /\ i \in Invoices /\ ~Issued(i) /\ LinkedToLast(r)
      /\ r.number = next[Series[i]]
  BY Requester DEF Commit, IssueInv, Ready, Transaction, Numbered
<1>2. /\ row' = [row EXCEPT ![i] = [issued |-> TRUE, number |-> r.number, seq |-> r.seq,
                                    prev |-> r.prev, aeat |-> "pending", sent |-> FALSE]]
      /\ next' = [next EXCEPT ![Series[i]] = r.number + 1]
      /\ req' = [req EXCEPT ![q] = [Idle EXCEPT !.pc = "queueing", !.i = i]]
  BY DEF Commit
<1>3. /\ row'[i].issued /\ row'[i].number = r.number /\ row'[i].seq = r.seq
      /\ row'[i].prev = r.prev
      /\ \A j \in Invoices \ {i} : row'[j] = row[j]
  BY <1>1, <1>2 DEF VerifactuTypesInv, VerifactuTypeOK
<1>4. /\ next'[Series[i]] = r.number + 1
      /\ \A t \in SeriesSet \ {Series[i]} : next'[t] = next[t]
      /\ Series[i] \in SeriesSet
  BY <1>1, <1>2, VerifactuAssumption DEF VerifactuTypesInv, VerifactuTypeOK
<1>5. /\ req'[q].pc = "queueing"
      /\ \A p \in Requests \ {q} : req'[p] = req[p]
  BY <1>2 DEF VerifactuTypesInv, VerifactuTypeOK, Idle
<1>6. /\ row[i].issued = FALSE
      /\ \A j \in Invoices : row[j].seq \in Nat /\ row[j].number \in Nat
                             /\ row[j].issued \in BOOLEAN
      /\ r.seq \in Nat /\ r.number \in Nat
      /\ \A t \in SeriesSet : next[t] \in Nat \ {0}
  BY <1>1 DEF VerifactuTypesInv, VerifactuTypeOK, RequestRow, Issued
<1> HIDE DEF i
<1>7. \A j \in Invoices : row'[j].issued <=> (row[j].issued \/ j = i)
  BY <1>1, <1>3
<1>8. \A k \in Invoices :
         Chained(k)' = IF Issuer[k] = Issuer[i] THEN Chained(k) \cup {i} ELSE Chained(k)
  BY <1>1, <1>7 DEF Chained, Issued
<1>9. \A k \in Chained(i) : k \in Invoices /\ k # i /\ row[k].seq < r.seq
  <2>1. SUFFICES ASSUME NEW k \in Chained(i)
                 PROVE  row[k].seq < r.seq
    BY <1>1 DEF Chained
  <2>2. r.prev \in Last(i) /\ r.seq = row[r.prev].seq + 1
    BY <1>1, <2>1 DEF LinkedToLast, i
  <2>3. row[k].seq <= row[r.prev].seq /\ k \in Invoices /\ r.prev \in Invoices
    BY <2>1, <2>2 DEF Last, Chained
  <2> QED
    BY <1>6, <2>2, <2>3
<1>10. r.seq >= 1 /\ (r.prev = NoInvoice <=> r.seq = 1)
       /\ (r.prev # NoInvoice => r.prev \in Chained(i) /\ row[r.prev].seq + 1 = r.seq)
  <2>1. CASE Chained(i) = {}
    BY <1>1, <2>1 DEF LinkedToLast, i
  <2>2. CASE Chained(i) # {}
    <3>1. r.prev \in Last(i) /\ r.seq = row[r.prev].seq + 1
      BY <1>1, <2>2 DEF LinkedToLast, i
    <3>2. r.prev \in Chained(i) /\ r.prev \in Invoices /\ Issued(r.prev)
      BY <3>1 DEF Last, Chained
    <3>3. row[r.prev].seq >= 1 /\ row[r.prev].seq \in Nat
      BY <1>6, <3>2 DEF IssueInv, Placed
    <3> QED
      BY <3>1, <3>2, <3>3, VerifactuAssumption
  <2> QED
    BY <2>1, <2>2
(* The numbers.                                                            *)
<1>11. NumbersWithoutGaps'
  <2>1. ASSUME NEW t \in SeriesSet
        PROVE  {row'[k].number : k \in {j \in Invoices : row'[j].issued /\ Series[j] = t}}
                 = 1..(next'[t] - 1)
    <3> DEFINE Old == {row[k].number : k \in {j \in Invoices : row[j].issued /\ Series[j] = t}}
               New == {row'[k].number : k \in {j \in Invoices : row'[j].issued /\ Series[j] = t}}
    <3>1. Old = 1..(next[t] - 1)
      BY DEF IssueInv, NumbersWithoutGaps, Issued
    <3>2. CASE t = Series[i]
      <4>1. New = Old \cup {r.number}
        BY <1>1, <1>3, <1>6, <1>7, <3>2
      <4>2. r.number = next[t] /\ next'[t] = r.number + 1 /\ next[t] \in Nat \ {0}
        BY <1>1, <1>4, <1>6, <3>2
      <4>3. 1..(next[t] - 1) \cup {next[t]} = 1..((next[t] + 1) - 1)
        BY <4>2
      <4> QED
        BY <3>1, <4>1, <4>2, <4>3
    <3>3. CASE t # Series[i]
      <4>1. New = Old
        BY <1>1, <1>3, <1>6, <1>7, <3>3
      <4> QED
        BY <1>4, <3>1, <3>3, <4>1
    <3> QED
      BY <3>2, <3>3
  <2>2. \A k \in Invoices : Issued(k) /\ Series[k] = Series[i] => row[k].number # r.number
    <3>1. SUFFICES ASSUME NEW k \in Invoices, Issued(k), Series[k] = Series[i]
                   PROVE  row[k].number # r.number
      OBVIOUS
    <3>2. row[k].number \in 1..(next[Series[i]] - 1)
      BY <1>4, <3>1 DEF IssueInv, NumbersWithoutGaps
    <3> QED
      BY <1>1, <1>4, <1>6, <3>2
  <2>3. \A k, m \in Invoices :
           Issued(k) /\ Issued(m) /\ Series[k] = Series[m] /\ row[k].number = row[m].number => k = m
    BY DEF IssueInv, NumbersWithoutGaps
  <2>4. \A k, m \in Invoices :
           row'[k].issued /\ row'[m].issued /\ Series[k] = Series[m]
             /\ row'[k].number = row'[m].number => k = m
    BY <1>3, <1>7, <2>2, <2>3 DEF Issued
  <2> QED
    BY <2>1, <2>4 DEF NumbersWithoutGaps, Issued
(* The chain.                                                              *)
<1>12. OneChain'
  <2>1. \A k \in Chained(i) : row[k].seq # r.seq /\ row[k].prev # r.prev
    <3>1. SUFFICES ASSUME NEW k \in Chained(i)
                   PROVE  row[k].seq # r.seq /\ row[k].prev # r.prev
      OBVIOUS
    <3>2. k \in Invoices /\ Issued(k) /\ row[k].seq < r.seq /\ row[k].seq \in Nat
          /\ Issuer[k] = Issuer[i]
      BY <1>6, <1>9 DEF Chained
    <3>3. CASE r.prev = NoInvoice
      <4>1. r.seq = 1 /\ row[k].seq >= 1
        BY <1>10, <3>2, <3>3 DEF IssueInv, Placed
      <4> QED
        BY <3>2, <4>1
    <3>4. CASE r.prev # NoInvoice
      <4>1. row[r.prev].seq + 1 = r.seq
        BY <1>10, <3>4
      <4>2. row[k].prev = r.prev => row[r.prev].seq + 1 = row[k].seq
        BY <3>2, <3>4 DEF IssueInv, OneChain
      <4> QED
        BY <1>6, <3>2, <4>1, <4>2
    <3> QED
      BY <3>3, <3>4
  <2>2. \A k \in Invoices : Issued(k) =>
           /\ row[k].prev = NoInvoice <=> row[k].seq = 1
           /\ row[k].prev # NoInvoice => row[k].prev \in Chained(k) /\ row[row[k].prev].seq + 1 = row[k].seq
           /\ \A j \in Chained(k) \ {k} : row[j].seq # row[k].seq /\ row[j].prev # row[k].prev
    BY DEF IssueInv, OneChain
  <2>3. ASSUME NEW k \in Invoices, row'[k].issued
        PROVE  /\ row'[k].prev = NoInvoice <=> row'[k].seq = 1
               /\ row'[k].prev # NoInvoice =>
                    row'[k].prev \in Chained(k)' /\ row'[row'[k].prev].seq + 1 = row'[k].seq
               /\ \A j \in Chained(k)' \ {k} : row'[j].seq # row'[k].seq /\ row'[j].prev # row'[k].prev
    <3>1. CASE k = i
      <4>1. Chained(k)' \ {k} = Chained(i)
        BY <1>8, <1>9, <3>1
      <4> QED
        BY <1>3, <1>8, <1>9, <1>10, <2>1, <3>1, <4>1
    <3>2. CASE k # i
      <4>1. Issued(k) /\ row'[k] = row[k]
        BY <1>3, <1>7, <2>3, <3>2 DEF Issued
      <4>2. \A j \in Chained(k) : j \in Invoices /\ j # i /\ row'[j] = row[j]
        BY <1>1, <1>3 DEF Chained
      <4>3. i \in Chained(k)' => Chained(k) = Chained(i) /\ k \in Chained(i)
        BY <1>8, <4>1, <4>2 DEF Chained
      <4>4. \A j \in Chained(k)' : j = i \/ j \in Chained(k)
        BY <1>8
      <4>5. \A j \in Chained(k) : j \in Chained(k)'
        BY <1>8
      <4>6. row[k].prev # NoInvoice => row[k].prev \in Chained(k)
        BY <2>2, <4>1
      <4>7. \A j \in Chained(k) \ {k} : row'[j].seq # row[k].seq /\ row'[j].prev # row[k].prev
        BY <2>2, <4>1, <4>2
      <4>8. i \in Chained(k)' => row'[i].seq # row[k].seq /\ row'[i].prev # row[k].prev
        BY <1>3, <2>1, <4>3
      <4>9. row[k].prev # NoInvoice =>
              row[k].prev \in Chained(k)' /\ row'[row[k].prev].seq + 1 = row[k].seq
        BY <2>2, <4>1, <4>2, <4>5, <4>6
      <4>10. row[k].prev = NoInvoice <=> row[k].seq = 1
        BY <2>2, <4>1
      <4> QED
        BY <4>1, <4>4, <4>7, <4>8, <4>9, <4>10
    <3> QED
      BY <3>1, <3>2
  <2> QED
    BY <2>3 DEF OneChain, Issued
<1>13. ASSUME NEW k \in Invoices
       PROVE  Placed(k)'
  <2>1. row'[k].issued => row'[k].seq >= 1
    BY <1>3, <1>7, <1>10 DEF IssueInv, Placed, Issued
  <2>2. CASE Issuer[k] = Issuer[i]
    <3>1. Chained(k)' = Chained(i) \cup {i} /\ Chained(i) = Chained(k)
      BY <1>8, <2>2 DEF Chained
    <3>2. \A j \in Chained(i) \cup {i} : row'[j].seq <= row'[i].seq
      BY <1>3, <1>6, <1>9
    <3>3. i \in Last(k)'
      BY <3>1, <3>2 DEF Last
    <3> QED
      BY <2>1, <3>3 DEF Placed, Issued
  <2>3. CASE Issuer[k] # Issuer[i]
    <3>1. Chained(k)' = Chained(k) /\ \A j \in Chained(k) : row'[j] = row[j]
      BY <1>3, <1>8, <2>3 DEF Chained
    <3>2. Last(k)' = Last(k)
      BY <3>1 DEF Last
    <3> QED
      BY <2>1, <3>1, <3>2 DEF IssueInv, Placed, Issued
  <2> QED
    BY <2>2, <2>3
(* The transactions still open.                                            *)
<1>14. \A p, t \in Requests : p # t => Apart(req'[p], req'[t])
  BY <1>5 DEF IssueInv, Apart, Transaction, Numbered
<1>15. ASSUME NEW p \in Requests
       PROVE  Ready(req[p])'
  <2>1. CASE p = q
    BY <1>5, <2>1 DEF Ready, Transaction, Numbered
  <2>2. CASE p # q /\ req[p].pc \in Transaction
    <3>1. PICK x \in RequestRow : x = req[p] /\ x = req'[p] /\ x.i \in Invoices
      BY <1>5, <2>2, Requester DEF Transaction
    <3>2. Apart(x, r) /\ Ready(x) /\ x.pc \in Transaction
      BY <2>2, <3>1 DEF IssueInv
    <3>3. x.i # i
      BY <1>1, <3>2 DEF Apart, Transaction, i
    <3>4. x.pc \in Numbered => Series[x.i] # Series[i]
      BY <1>1, <3>2 DEF Apart, Numbered, i
    <3>5. x.pc = "chained" => Issuer[x.i] # Issuer[i]
      BY <1>1, <3>2 DEF Apart, i
    <3>6. ~row'[x.i].issued
      BY <1>3, <1>7, <3>1, <3>2, <3>3 DEF Ready, Issued
    <3>7. x.pc \in Numbered => x.number = next'[Series[x.i]]
      BY <1>4, <3>1, <3>2, <3>4, VerifactuAssumption DEF Ready
    <3>8. x.pc = "chained" => LinkedToLast(x)'
      <4>1. SUFFICES ASSUME x.pc = "chained"
                     PROVE  LinkedToLast(x)'
        OBVIOUS
      <4>2. Chained(x.i)' = Chained(x.i) /\ \A j \in Chained(x.i) : row'[j] = row[j]
        BY <1>3, <1>8, <3>1, <3>5, <4>1 DEF Chained
      <4>3. Last(x.i)' = Last(x.i) /\ \A j \in Last(x.i) : row'[j] = row[j]
        BY <4>2 DEF Last
      <4> QED
        BY <3>2, <4>1, <4>2, <4>3 DEF Ready, LinkedToLast
    <3>9. Ready(x)'
      BY <3>2, <3>6, <3>7, <3>8 DEF Ready, Issued
    <3> QED
      BY <3>1, <3>9, AllReady
  <2>3. CASE p # q /\ req[p].pc \notin Transaction
    BY <1>5, <2>3 DEF Ready, Transaction, Numbered
  <2> QED
    BY <2>1, <2>2, <2>3
<1> QED
  BY <1>11, <1>12, <1>13, <1>14, <1>15 DEF IssueInv

(* The other actions: they change the statuses at most.                    *)
LEMMA StatusKeepsRecords ==
    ASSUME VerifactuTypesInv, NEW i \in Invoices, NEW aeat, NEW sent,
           row' = [row EXCEPT ![i] = Shows(i, aeat, sent)]
    PROVE  SameRecords
<1>1. \A j \in Invoices : row'[j] = IF j = i THEN Shows(i, aeat, sent) ELSE row[j]
  BY DEF VerifactuTypesInv, VerifactuTypeOK
<1>2. row[i] \in InvoiceRow
  BY DEF VerifactuTypesInv, VerifactuTypeOK, InvoiceRow
<1>3. /\ Shows(i, aeat, sent).issued = row[i].issued
      /\ Shows(i, aeat, sent).number = row[i].number
      /\ Shows(i, aeat, sent).seq = row[i].seq /\ Shows(i, aeat, sent).prev = row[i].prev
  BY <1>2 DEF InvoiceRow, Shows
<1> QED
  BY <1>1, <1>3 DEF SameRecords

LEMMA OneStatus ==
    ASSUME VerifactuTypesInv, NEW i \in Invoices, NEW aeat,
           \/ row' = [row EXCEPT ![i].aeat = aeat]
           \/ row' = [row EXCEPT ![i].aeat = aeat, ![i].sent = TRUE]
    PROVE  SameRecords
<1>1. row[i] \in InvoiceRow /\ row \in [Invoices -> InvoiceRow]
  BY DEF VerifactuTypesInv, VerifactuTypeOK, InvoiceRow
<1>2. CASE row' = [row EXCEPT ![i].aeat = aeat]
  <2>1. [row[i] EXCEPT !.aeat = aeat] = Shows(i, aeat, row[i].sent)
    BY <1>1 DEF InvoiceRow, Shows
  <2>2. row' = [row EXCEPT ![i] = Shows(i, aeat, row[i].sent)]
    BY <1>2, <2>1
  <2> QED
    BY <2>2, StatusKeepsRecords
<1>3. CASE row' = [row EXCEPT ![i].aeat = aeat, ![i].sent = TRUE]
  <2>1. row' = [row EXCEPT ![i] = Shows(i, aeat, TRUE)]
    BY <1>3 DEF Shows
  <2> QED
    BY <2>1, StatusKeepsRecords
<1> QED
  BY <1>2, <1>3

LEMMA RequestsQuiet ==
    ASSUME VerifactuTypesInv, NEW q \in Requests,
           \/ Rollback(q) \/ Enqueue(q) \/ WriteRefresh(q) \/ WriteResend(q) \/ RequestStops(q)
           \/ \E i \in Invoices : Refresh(q, i) \/ RefreshFails(q, i) \/ Resend(q, i)
    PROVE  SameRecords /\ next' = next
           /\ \A p \in Requests : req'[p].pc \in Transaction => req'[p] = req[p]
<1>1. next' = next
  BY DEF Rollback, Enqueue, WriteRefresh, WriteResend, RequestStops, Refresh, RefreshFails, Resend
<1>2. SameRecords
  <2>1. CASE WriteRefresh(q) \/ WriteResend(q)
    <3>1. req[q].i \in Invoices
      BY <2>1, Requester DEF WriteRefresh, WriteResend
    <3> QED
      BY <2>1, <3>1, OneStatus DEF WriteRefresh, WriteResend
  <2>2. CASE row' = row
    BY <2>2 DEF SameRecords
  <2> QED
    BY <2>1, <2>2 DEF Rollback, Enqueue, RequestStops, Refresh, RefreshFails, Resend
<1>3. PICK r : req' = [req EXCEPT ![q] = r] /\ r.pc \notin Transaction
  <2>1. CASE Rollback(q) \/ Enqueue(q) \/ WriteRefresh(q) \/ RequestStops(q)
    BY <2>1 DEF Rollback, Enqueue, WriteRefresh, RequestStops, Idle, Transaction
  <2>2. CASE WriteResend(q)
    <3>1. [req[q] EXCEPT !.pc = "queueing"].pc = "queueing"
      BY Requester DEF RequestRow
    <3> QED
      BY <2>2, <3>1 DEF WriteResend, Transaction
  <2>3. CASE \E i \in Invoices : Refresh(q, i) \/ RefreshFails(q, i)
    <3>1. PICK i \in Invoices, answer \in Answers : Asked(q, i, answer)
      BY <2>3 DEF Refresh, RefreshFails, Known, Answers
    <3>2. [Idle EXCEPT !.pc = "refreshing", !.i = i, !.answer = answer].pc = "refreshing"
      BY DEF Idle
    <3> QED
      BY <3>1, <3>2 DEF Asked, Transaction
  <2>4. CASE \E i \in Invoices : Resend(q, i)
    <3>1. PICK i \in Invoices : Resend(q, i)
      BY <2>4
    <3>2. [Idle EXCEPT !.pc = "resending", !.i = i].pc = "resending"
      BY DEF Idle
    <3> QED
      BY <3>1, <3>2 DEF Resend, Transaction
  <2> QED
    BY <2>1, <2>2, <2>3, <2>4
<1> QED
  BY <1>1, <1>2, <1>3 DEF VerifactuTypesInv, VerifactuTypeOK

LEMMA OthersQuiet ==
    ASSUME VerifactuTypesInv,
           WorkerStep \/ \E i \in Invoices : Arrive(i) \/ Requeue(i)
    PROVE  SameRecords /\ next' = next /\ req' = req
<1>1. next' = next /\ req' = req
  BY DEF WorkerStep, Take, AskFirst, AskFails, Submit, DuplicateUnclear, SubmitLost, Store,
         WorkerStops, Arrive, Requeue
<1>2. CASE row' = row
  BY <1>1, <1>2 DEF SameRecords
<1>3. CASE AskFirst \/ Store
  <2>1. work.i \in Invoices
    BY <1>3, AtWork DEF AskFirst, Store
  <2>2. CASE AskFirst
    BY <1>1, <1>2, <2>1, <2>2, OneStatus DEF AskFirst
  <2>3. CASE Store
    BY <1>1, <2>1, <2>3, OneStatus DEF Store
  <2> QED
    BY <1>3, <2>2, <2>3
<1> QED
  BY <1>2, <1>3 DEF WorkerStep, Take, AskFails, Submit, DuplicateUnclear, SubmitLost,
                    WorkerStops, Arrive, Requeue

LEMMA StepIssue ==
    ASSUME VerifactuTypesInv, VerifactuTypesInv', IssueInv, [Next]_vars
    PROVE  IssueInv'
<1>1. CASE UNCHANGED vars
  BY <1>1, QuietIssue DEF vars, SameRecords
<1>2. ASSUME NEW q \in Requests, RequestStep(q)
      PROVE  IssueInv'
  BY <1>2, Requester, LockIssue, ReserveIssue, ChainIssue, CommitIssue, RequestsQuiet, QuietIssue
     DEF RequestStep
<1>3. CASE WorkerStep \/ \E i \in Invoices : Arrive(i) \/ Requeue(i)
  BY <1>3, OthersQuiet, QuietIssue
<1> QED
  BY <1>1, <1>2, <1>3 DEF Next

(* The numbers of a series have no gaps and no repeats, for any number of  *)
(* concurrent requests (issue, reserveNextNumber).                         *)
THEOREM VerifactuNumbersWithoutGaps == Spec => []NumbersWithoutGaps
<1>1. Init => VerifactuTypesInv /\ IssueInv
  BY InitTypes, InitIssue
<1>2. (VerifactuTypesInv /\ IssueInv) /\ [Next]_vars => (VerifactuTypesInv /\ IssueInv)'
  BY StepTypes, StepIssue
<1>3. IssueInv => NumbersWithoutGaps
  BY DEF IssueInv
<1> QED
  BY <1>1, <1>2, <1>3, PTL DEF Spec

(* The records of each issuer form one chain, for any number of concurrent *)
(* requests and series (computeChainedHash).                               *)
THEOREM VerifactuOneChain == Spec => []OneChain
<1>1. Init => VerifactuTypesInv /\ IssueInv
  BY InitTypes, InitIssue
<1>2. (VerifactuTypesInv /\ IssueInv) /\ [Next]_vars => (VerifactuTypesInv /\ IssueInv)'
  BY StepTypes, StepIssue
<1>3. IssueInv => OneChain
  BY DEF IssueInv
<1> QED
  BY <1>1, <1>2, <1>3, PTL DEF Spec

-----------------------------------------------------------------------------
(* The sending.  What the worker or a query is about to write was said by  *)
(* the agency; the record before the one at work is decided; a record that *)
(* nobody touched by hand is pending before it is sent and has failed only *)
(* afterwards.                                                             *)
Backed(i, answer) ==
    /\ answer = "accepted" => Registered(i)
    /\ answer = "rejected" => agency[i].at # "none"

Released(i) == row[i].prev # NoInvoice => agency[row[i].prev].at # "none"

WorkFine ==
    /\ work.pc # "idle" => Released(work.i)
    /\ work.pc = "answered" =>
          /\ Backed(work.i, work.answer)
          /\ work.answer = "rejected" /\ work.i \notin unsure => agency[work.i].at = "refused"

RequestFine(r) ==
    /\ r.pc = "refreshing" =>
          /\ Backed(r.i, r.answer)
          /\ r.answer = "error" => r.i \in touched \/ row[r.i].sent
    /\ r.pc = "resending" => r.i \in touched

RecordFine(i) ==
    /\ ~Issued(i) => ~agency[i].got
    /\ Backed(i, row[i].aeat)
    /\ row[i].aeat = "rejected" /\ i \notin unsure \cup {work.i} => agency[i].at = "refused"
    /\ agency[i].got => Released(i)
    /\ i \notin touched => /\ row[i].aeat = "pending" => ~row[i].sent
                           /\ row[i].aeat = "error" => row[i].sent

SendInv ==
    /\ WorkFine
    /\ \A q \in Requests : RequestFine(req[q])
    /\ \A i \in Invoices : RecordFine(i)

LEMMA InitSend ==
    ASSUME Init
    PROVE  SendInv
<1>1. \A i \in Invoices : ~Issued(i) /\ row[i].aeat = "none" /\ ~agency[i].got
  BY DEF Init, Draft, Issued
<1>2. \A q \in Requests : req[q].pc = "idle"
  BY DEF Init, Idle
<1>3. work.pc = "idle"
  BY DEF Init, Resting
<1> QED
  BY <1>1, <1>2, <1>3 DEF SendInv, WorkFine, RequestFine, RecordFine, Backed

(* Nothing the agency decided is undone, and the histories grow.           *)
Grows ==
    /\ \A i \in Invoices :
          /\ agency[i].at # "none" => agency'[i].at # "none"
          /\ agency[i].at = "registered" => agency'[i].at = "registered"
          /\ row[i].sent => row'[i].sent
    /\ unsure \subseteq unsure' /\ touched \subseteq touched'

LEMMA StaysTrue ==
    ASSUME VerifactuTypesInv, SameRecords, Grows
    PROVE  /\ \A i \in Invoices : \A answer : Backed(i, answer) => Backed(i, answer)'
           /\ \A i \in Invoices : Released(i) => Released(i)'
           /\ \A i \in Invoices : Issued(i)' = Issued(i)
<1>1. \A i \in Invoices : row[i].prev \in MaybeInvoice /\ row'[i].prev = row[i].prev
  BY DEF VerifactuTypesInv, VerifactuTypeOK, SameRecords
<1>2. \A i \in Invoices : Released(i) => Released(i)'
  BY <1>1 DEF Grows, Released, MaybeInvoice
<1>3. \A i \in Invoices : \A answer : Backed(i, answer) => Backed(i, answer)'
  BY DEF Backed, Registered, Grows
<1>4. \A i \in Invoices : Issued(i)' = Issued(i)
  BY DEF SameRecords, Issued
<1> QED
  BY <1>2, <1>3, <1>4

LEMMA RequestStays ==
    ASSUME VerifactuTypesInv, SameRecords, Grows, NEW r \in RequestRow,
           r.pc # "idle" => r.i \in Invoices, RequestFine(r)
    PROVE  RequestFine(r)'
<1>1. CASE r.pc \in {"refreshing", "resending"}
  <2>1. r.i \in Invoices
    BY <1>1
  <2>2. Backed(r.i, r.answer) => Backed(r.i, r.answer)'
    BY <2>1, StaysTrue
  <2> QED
    BY <2>1, <2>2 DEF RequestFine, Grows
<1>2. CASE r.pc \notin {"refreshing", "resending"}
  BY <1>2 DEF RequestFine
<1> QED
  BY <1>1, <1>2

LEMMA AllFine ==
    ASSUME NEW q \in Requests, NEW r, r = req'[q], RequestFine(r)'
    PROVE  RequestFine(req[q])'
BY DEF RequestFine, Backed, Registered

LEMMA RecordStays ==
    ASSUME VerifactuTypesInv, SameRecords, Grows, NEW i \in Invoices, RecordFine(i),
           row'[i] = row[i], agency'[i].got => agency[i].got,
           \/ agency'[i].at = agency[i].at /\ (i = work.i => i = work'.i)
           \/ i \in unsure' \cup {work'.i}
    PROVE  RecordFine(i)'
<1>1. (agency[i].got => Released(i)') /\ Issued(i)' = Issued(i)
  BY StaysTrue DEF RecordFine
<1>2. Backed(i, row[i].aeat)'
  BY DEF RecordFine, Backed, Registered, Grows
<1>3. (row[i].aeat = "rejected" /\ i \notin unsure \cup {work.i} => agency[i].at = "refused")'
  BY DEF RecordFine, Grows
<1>4. (i \notin touched => /\ row[i].aeat = "pending" => ~row[i].sent
                           /\ row[i].aeat = "error" => row[i].sent)'
  BY DEF RecordFine, Grows
<1>5. (~Issued(i) => ~agency[i].got)' /\ (agency[i].got => Released(i))'
  BY <1>1 DEF RecordFine
<1> QED
  BY <1>2, <1>3, <1>4, <1>5 DEF RecordFine

(* The requests that only ask or wait.                                     *)
LEMMA AskKeeps ==
    ASSUME VerifactuTypesInv, SendInv,
           UNCHANGED <<row, agency, work, unsure>>, touched \subseteq touched',
           \A q \in Requests : RequestFine(req[q])'
    PROVE  SendInv'
<1>1. SameRecords /\ Grows
  BY DEF SameRecords, Grows
<1>2. \A i \in Invoices : RecordFine(i)'
  BY <1>1, RecordStays DEF SendInv
<1>3. WorkFine'
  BY DEF SendInv, WorkFine, Backed, Registered, Released
<1> QED
  BY <1>2, <1>3 DEF SendInv

LEMMA QuietSend ==
    ASSUME VerifactuTypesInv, SendInv,
           UNCHANGED <<row, agency, work, unsure, touched>>,
           \A q \in Requests : req'[q].pc \in {"refreshing", "resending"} => req'[q] = req[q]
    PROVE  SendInv'
<1>1. ASSUME NEW q \in Requests
      PROVE  RequestFine(req[q])'
  BY DEF SendInv, RequestFine, Backed, Registered
<1> QED
  BY <1>1, AskKeeps

LEMMA WaitSend ==
    ASSUME VerifactuTypesInv, SendInv, NEW q \in Requests,
           \/ \E i \in Invoices : Lock(q, i)
           \/ ReserveNumber(q) \/ Chain(q) \/ Rollback(q) \/ Enqueue(q) \/ RequestStops(q)
    PROVE  SendInv'
<1>1. UNCHANGED <<row, agency, work, unsure, touched>>
  BY DEF Lock, ReserveNumber, Chain, Rollback, Enqueue, RequestStops
<1>2. \E r : req' = [req EXCEPT ![q] = r] /\ r.pc \notin {"refreshing", "resending"}
  <2>1. CASE Rollback(q) \/ Enqueue(q) \/ RequestStops(q)
    <3>1. Idle.pc = "idle"
      BY DEF Idle
    <3> QED
      BY <2>1, <3>1 DEF Rollback, Enqueue, RequestStops
  <2>2. ASSUME NEW i \in Invoices, Lock(q, i)
        PROVE  \E r : req' = [req EXCEPT ![q] = r] /\ r.pc \notin {"refreshing", "resending"}
    <3>1. [Idle EXCEPT !.pc = "locked", !.i = i].pc = "locked"
      BY DEF Idle
    <3> QED
      BY <2>2, <3>1 DEF Lock
  <2>3. CASE ReserveNumber(q)
    <3>1. [req[q] EXCEPT !.pc = "numbered", !.number = next[Series[req[q].i]]].pc = "numbered"
      BY Requester DEF RequestRow
    <3> QED
      BY <2>3, <3>1 DEF ReserveNumber
  <2>4. CASE Chain(q)
    <3>1. [req[q] EXCEPT !.pc = "chained", !.seq = 1].pc = "chained"
      BY Requester DEF RequestRow
    <3>2. \A j : [req[q] EXCEPT !.pc = "chained", !.prev = j, !.seq = row[j].seq + 1].pc = "chained"
      BY Requester DEF RequestRow
    <3>3. CASE req' = [req EXCEPT ![q] = [req[q] EXCEPT !.pc = "chained", !.seq = 1]]
      BY <3>1, <3>3
    <3>4. ASSUME NEW j, req' = [req EXCEPT ![q] = [req[q] EXCEPT !.pc = "chained", !.prev = j,
                                                                !.seq = row[j].seq + 1]]
          PROVE  \E r : req' = [req EXCEPT ![q] = r] /\ r.pc \notin {"refreshing", "resending"}
      <4>1. PICK r : r = [req[q] EXCEPT !.pc = "chained", !.prev = j, !.seq = row[j].seq + 1]
        OBVIOUS
      <4> QED
        BY <3>2, <3>4, <4>1
    <3>5. CASE Last(req[q].i) = {}
      BY <2>4, <3>3, <3>5 DEF Chain
    <3>6. CASE Last(req[q].i) # {}
      <4>1. PICK j \in Last(req[q].i) :
               req' = [req EXCEPT ![q] = [req[q] EXCEPT !.pc = "chained", !.prev = j,
                                                       !.seq = row[j].seq + 1]]
        BY <2>4, <3>6 DEF Chain
      <4> QED
        BY <3>4, <4>1
    <3> QED
      BY <3>5, <3>6
  <2> QED
    BY <2>1, <2>2, <2>3, <2>4
<1>3. \A p \in Requests : req'[p].pc \in {"refreshing", "resending"} => req'[p] = req[p]
  BY <1>2 DEF VerifactuTypesInv, VerifactuTypeOK
<1> QED
  BY <1>1, <1>3, QuietSend

LEMMA OneAsks ==
    ASSUME VerifactuTypesInv, SendInv, NEW q \in Requests, NEW r \in RequestRow,
           req' = [req EXCEPT ![q] = r],
           UNCHANGED <<row, agency, work, unsure>>, touched \subseteq touched',
           RequestFine(r)'
    PROVE  SendInv'
<1>1. \A p \in Requests : req'[p] = IF p = q THEN r ELSE req[p]
  BY DEF VerifactuTypesInv, VerifactuTypeOK
<1>2. SameRecords /\ Grows
  BY DEF SameRecords, Grows
<1>3. ASSUME NEW p \in Requests
      PROVE  RequestFine(req[p])'
  <2>1. PICK x : x = req'[p]
    OBVIOUS
  <2>2. RequestFine(x)'
    <3>1. CASE p = q
      BY <1>1, <2>1, <3>1
    <3>2. CASE p # q
      BY <1>1, <1>2, <2>1, <3>2, Requester, RequestStays DEF SendInv
    <3> QED
      BY <3>1, <3>2
  <2> QED
    BY <2>1, <2>2, AllFine
<1> QED
  BY <1>3, AskKeeps

LEMMA AskSend ==
    ASSUME VerifactuTypesInv, SendInv, NEW q \in Requests, NEW i \in Invoices,
           Refresh(q, i) \/ RefreshFails(q, i) \/ Resend(q, i)
    PROVE  SendInv'
<1>1. UNCHANGED <<row, agency, work, unsure>> /\ touched \subseteq touched'
  BY DEF Refresh, RefreshFails, Resend
<1>2. CASE Refresh(q, i)
  <2>1. PICK answer \in Known(i) \ {"pending"} : Asked(q, i, answer)
    BY <1>2 DEF Refresh
  <2> DEFINE r == [Idle EXCEPT !.pc = "refreshing", !.i = i, !.answer = answer]
  <2>2. answer \in {"accepted", "rejected"} /\ Backed(i, answer)
    BY DEF Known, Backed
  <2>3. r \in RequestRow /\ r.pc = "refreshing" /\ r.i = i /\ r.answer = answer
    BY <2>2 DEF RequestRow, Idle, MaybeInvoice, AeatStatus
  <2>4. req' = [req EXCEPT ![q] = r]
    BY <2>1 DEF Asked
  <2> HIDE DEF r
  <2>5. RequestFine(r)'
    BY <1>1, <2>2, <2>3 DEF RequestFine, Backed, Registered
  <2> QED
    BY <1>1, <2>3, <2>4, <2>5, OneAsks
<1>3. CASE RefreshFails(q, i)
  <2> DEFINE r == [Idle EXCEPT !.pc = "refreshing", !.i = i, !.answer = "error"]
  <2>1. r \in RequestRow /\ r.pc = "refreshing" /\ r.i = i /\ r.answer = "error"
    BY DEF RequestRow, Idle, MaybeInvoice, AeatStatus
  <2>2. req' = [req EXCEPT ![q] = r] /\ (i \in touched' \/ row[i].sent)
    BY <1>3 DEF RefreshFails, Asked
  <2> HIDE DEF r
  <2>3. RequestFine(r)'
    BY <1>1, <2>1, <2>2 DEF RequestFine, Backed
  <2> QED
    BY <1>1, <2>1, <2>2, <2>3, OneAsks
<1>4. CASE Resend(q, i)
  <2> DEFINE r == [Idle EXCEPT !.pc = "resending", !.i = i]
  <2>1. r \in RequestRow /\ r.pc = "resending" /\ r.i = i
    BY DEF RequestRow, Idle, MaybeInvoice, Transaction
  <2>2. req' = [req EXCEPT ![q] = r] /\ i \in touched'
    BY <1>4 DEF Resend
  <2> HIDE DEF r
  <2>3. RequestFine(r)'
    BY <2>1, <2>2 DEF RequestFine
  <2> QED
    BY <1>1, <2>1, <2>2, <2>3, OneAsks
<1> QED
  BY <1>2, <1>3, <1>4

LEMMA CommitSend ==
    ASSUME VerifactuTypesInv, IssueInv, SendInv,
           NEW q \in Requests, NEW r \in RequestRow, r = req[q], Commit(q)
    PROVE  SendInv'
<1> DEFINE i == r.i
           new == [issued |-> TRUE, number |-> r.number, seq |-> r.seq, prev |-> r.prev,
                   aeat |-> "pending", sent |-> FALSE]
<1>1. i \in Invoices /\ ~Issued(i)
  BY Requester DEF Commit, IssueInv, Ready, Transaction
<1>2. /\ row' = [row EXCEPT ![i] = new]
      /\ req' = [req EXCEPT ![q] = [Idle EXCEPT !.pc = "queueing", !.i = i]]
      /\ UNCHANGED <<work, agency, unsure, touched>>
  BY DEF Commit
<1>3. row'[i] = new /\ \A j \in Invoices \ {i} : row'[j] = row[j]
  BY <1>1, <1>2 DEF VerifactuTypesInv, VerifactuTypeOK
<1>4. \A p \in Requests : req'[p].pc \in {"refreshing", "resending"} => req'[p] = req[p]
  <2>1. [Idle EXCEPT !.pc = "queueing", !.i = i].pc = "queueing"
    BY DEF Idle
  <2> QED
    BY <1>2, <2>1 DEF VerifactuTypesInv, VerifactuTypeOK
<1>5. new.issued /\ new.aeat = "pending" /\ ~new.sent
  OBVIOUS
<1> HIDE DEF i, new
<1>6. WorkFine'
  <2>1. work.pc # "idle" => work.i \in Invoices /\ work.i # i
    BY <1>1, AtWork
  <2> QED
    BY <1>2, <1>3, <2>1 DEF SendInv, WorkFine, Backed, Registered, Released
<1>7. ASSUME NEW p \in Requests
      PROVE  RequestFine(req[p])'
  <2>1. CASE req'[p].pc \in {"refreshing", "resending"}
    <3>1. req'[p] = req[p] /\ req[p].i \in Invoices /\ Issued(req[p].i)
      BY <1>4, <2>1, Requester DEF VerifactuTypesInv, AfterIssue
    <3>2. row'[req[p].i] = row[req[p].i]
      BY <1>1, <1>3, <3>1
    <3> QED
      BY <1>2, <2>1, <3>1, <3>2 DEF SendInv, RequestFine, Backed, Registered
  <2>2. CASE req'[p].pc \notin {"refreshing", "resending"}
    BY <2>2 DEF RequestFine
  <2> QED
    BY <2>1, <2>2
<1>8. ASSUME NEW j \in Invoices
      PROVE  RecordFine(j)'
  <2>1. CASE j = i
    <3>1. ~agency'[j].got
      BY <1>1, <1>2, <2>1 DEF SendInv, RecordFine
    <3> QED
      BY <1>3, <1>5, <2>1, <3>1 DEF RecordFine, Backed, Issued
  <2>2. CASE j # i
    BY <1>2, <1>3, <2>2 DEF SendInv, RecordFine, Backed, Registered, Released, Issued
  <2> QED
    BY <2>1, <2>2
<1> QED
  BY <1>6, <1>7, <1>8 DEF SendInv

(* A status is written: by a query, a resend or the worker.                *)
LEMMA StatusGrows ==
    ASSUME VerifactuTypesInv, NEW i \in Invoices, NEW aeat,
           \/ row' = [row EXCEPT ![i].aeat = aeat]
           \/ row' = [row EXCEPT ![i].aeat = aeat, ![i].sent = TRUE],
           agency' = agency, unsure \subseteq unsure', touched \subseteq touched'
    PROVE  /\ SameRecords /\ Grows
           /\ row'[i].aeat = aeat /\ row'[i].sent \in {row[i].sent, TRUE}
           /\ \A j \in Invoices \ {i} : row'[j] = row[j]
<1>1. row[i] \in InvoiceRow /\ row \in [Invoices -> InvoiceRow]
  BY DEF VerifactuTypesInv, VerifactuTypeOK, InvoiceRow
<1>2. PICK sent \in {row[i].sent, TRUE} : row' = [row EXCEPT ![i] = Shows(i, aeat, sent)]
  <2>1. CASE row' = [row EXCEPT ![i].aeat = aeat]
    <3>1. [row[i] EXCEPT !.aeat = aeat] = Shows(i, aeat, row[i].sent)
      BY <1>1 DEF InvoiceRow, Shows
    <3> QED
      BY <2>1, <3>1
  <2>2. CASE row' = [row EXCEPT ![i].aeat = aeat, ![i].sent = TRUE]
    BY <2>2 DEF Shows
  <2> QED
    BY <2>1, <2>2
<1>3. Shows(i, aeat, sent).aeat = aeat /\ Shows(i, aeat, sent).sent = sent
  BY <1>1 DEF InvoiceRow, Shows
<1>4. row'[i] = Shows(i, aeat, sent) /\ \A j \in Invoices \ {i} : row'[j] = row[j]
  BY <1>1, <1>2
<1>5. Grows
  BY <1>2, <1>3, <1>4 DEF Grows
<1> QED
  BY <1>2, <1>3, <1>4, <1>5, StatusKeepsRecords

LEMMA WriteRefreshSend ==
    ASSUME VerifactuTypesInv, SendInv, NEW q \in Requests, NEW r \in RequestRow, r = req[q],
           WriteRefresh(q)
    PROVE  SendInv'
<1> DEFINE i == r.i
<1>1. i \in Invoices /\ Issued(i) /\ r.pc = "refreshing" /\ RequestFine(r)
      /\ r.answer \in Answers
  BY Requester DEF WriteRefresh, VerifactuTypesInv, AfterIssue, SendInv
<1>2. /\ row' = [row EXCEPT ![i].aeat = r.answer]
      /\ req' = [req EXCEPT ![q] = Idle]
      /\ unsure' = IF Overtaken(r) THEN unsure \cup {i} ELSE unsure
      /\ UNCHANGED <<work, agency, touched>>
  BY DEF WriteRefresh
<1>3. /\ SameRecords /\ Grows
      /\ row'[i].aeat = r.answer /\ row'[i].sent \in {row[i].sent, TRUE}
      /\ \A j \in Invoices \ {i} : row'[j] = row[j]
  BY <1>1, <1>2, StatusGrows
<1>4. WorkFine'
  BY <1>2, <1>3, StaysTrue, AtWork DEF SendInv, WorkFine, Grows, Backed, Registered
<1>5. ASSUME NEW p \in Requests
      PROVE  RequestFine(req[p])'
  <2>1. Idle.pc = "idle"
    BY DEF Idle
  <2>2. PICK x : x = req'[p]
    OBVIOUS
  <2>3. x = Idle \/ (x = req[p])
    BY <1>2, <2>2 DEF VerifactuTypesInv, VerifactuTypeOK
  <2>4. RequestFine(x)'
    BY <1>3, <2>1, <2>3, Requester, RequestStays DEF SendInv, RequestFine
  <2> QED
    BY <2>2, <2>4, AllFine
<1>6. RecordFine(i)'
  <2>1. Backed(i, r.answer) /\ (r.answer = "error" => i \in touched \/ row[i].sent)
    BY <1>1 DEF RequestFine
  <2>2. Backed(i, row[i].aeat)'
    BY <1>2, <1>3, <2>1 DEF Backed, Registered
  <2>3. r.answer = "rejected" /\ i \notin unsure' => agency[i].at = "refused"
    <3>1. r.answer = "rejected" => agency[i].at \in {"registered", "refused"}
      BY <1>1, <2>1, AtWork DEF Backed, AgencyRow
    <3> QED
      BY <1>2, <3>1 DEF Overtaken, Registered
  <2>4. Issued(i)' /\ (agency[i].got => Released(i)')
    BY <1>1, <1>3, StaysTrue DEF SendInv, RecordFine
  <2>5. (i \notin touched => /\ row[i].aeat = "pending" => ~row[i].sent
                             /\ row[i].aeat = "error" => row[i].sent)'
    BY <1>1, <1>2, <1>3, <2>1 DEF Answers
  <2> HIDE DEF i
  <2> QED
    BY <1>2, <1>3, <2>2, <2>3, <2>4, <2>5 DEF RecordFine
<1>7. \A j \in Invoices \ {i} : RecordFine(j)'
  BY <1>2, <1>3, RecordStays DEF SendInv
<1> QED
  BY <1>1, <1>4, <1>5, <1>6, <1>7 DEF SendInv

LEMMA WriteResendSend ==
    ASSUME VerifactuTypesInv, SendInv, NEW q \in Requests, NEW r \in RequestRow, r = req[q],
           WriteResend(q)
    PROVE  SendInv'
<1> DEFINE i == r.i
<1>1. i \in Invoices /\ Issued(i) /\ r.pc = "resending" /\ i \in touched
  BY Requester DEF WriteResend, VerifactuTypesInv, AfterIssue, SendInv, RequestFine
<1>2. /\ row' = [row EXCEPT ![i].aeat = "pending"]
      /\ req' = [req EXCEPT ![q].pc = "queueing"]
      /\ UNCHANGED <<work, agency, unsure, touched>>
  BY DEF WriteResend
<1>3. /\ SameRecords /\ Grows
      /\ row'[i].aeat = "pending"
      /\ \A j \in Invoices \ {i} : row'[j] = row[j]
  BY <1>1, <1>2, StatusGrows
<1>4. WorkFine'
  BY <1>2, <1>3, StaysTrue, AtWork DEF SendInv, WorkFine, Grows, Backed, Registered
<1>5. ASSUME NEW p \in Requests
      PROVE  RequestFine(req[p])'
  <2>1. [r EXCEPT !.pc = "queueing"].pc = "queueing"
    BY DEF RequestRow
  <2>2. PICK x : x = req'[p]
    OBVIOUS
  <2>3. x.pc = "queueing" \/ x = req[p]
    BY <1>2, <2>1, <2>2 DEF VerifactuTypesInv, VerifactuTypeOK
  <2>4. RequestFine(x)'
    BY <1>3, <2>3, Requester, RequestStays DEF SendInv, RequestFine
  <2> QED
    BY <2>2, <2>4, AllFine
<1>6. RecordFine(i)'
  <2>1. Issued(i)' /\ (agency[i].got => Released(i)')
    BY <1>1, <1>3, StaysTrue DEF SendInv, RecordFine
  <2> HIDE DEF i
  <2> QED
    BY <1>1, <1>2, <1>3, <2>1 DEF RecordFine, Backed
<1>7. \A j \in Invoices \ {i} : RecordFine(j)'
  BY <1>2, <1>3, RecordStays DEF SendInv
<1> QED
  BY <1>1, <1>4, <1>5, <1>6, <1>7 DEF SendInv

(* The worker and the agency: the requests only look on.                   *)
LEMMA WorkKeeps ==
    ASSUME VerifactuTypesInv, SendInv, SameRecords, Grows, req' = req,
           WorkFine', \A i \in Invoices : RecordFine(i)'
    PROVE  SendInv'
<1>1. ASSUME NEW p \in Requests
      PROVE  RequestFine(req[p])'
  <2>1. PICK x \in RequestRow : x = req'[p] /\ x = req[p]
    BY Requester
  <2> QED
    BY <2>1, Requester, RequestStays, AllFine DEF SendInv
<1> QED
  BY <1>1 DEF SendInv

LEMMA TakeSend ==
    ASSUME VerifactuTypesInv, IssueInv, SendInv, NEW i \in Invoices, Take(i)
    PROVE  SendInv'
<1>1. UNCHANGED <<row, agency, unsure, touched, req>> /\ work.pc = "idle"
      /\ Issued(i) /\ work.i = NoInvoice
  BY AtWork DEF Take
<1>2. CASE work' = work
  BY <1>1, <1>2, QuietSend
<1>3. CASE /\ row[i].prev # NoInvoice => ~Unresolved(row[i].prev)
           /\ work' = [Resting EXCEPT !.i = i, !.pc = IF row[i].sent THEN "asking" ELSE "sending"]
  <2>1. work'.i = i /\ work'.pc \in {"asking", "sending"}
    BY <1>3 DEF Resting
  <2>2. Released(i)
    <3>1. SUFFICES ASSUME row[i].prev # NoInvoice
                   PROVE  agency[row[i].prev].at # "none"
      BY DEF Released
    <3>2. row[i].prev \in Invoices /\ Issued(row[i].prev)
      BY <1>1, <3>1 DEF IssueInv, OneChain, Chained
    <3>3. row[row[i].prev].aeat \in {"accepted", "rejected"}
      BY <1>3, <3>1, <3>2 DEF Unresolved, VerifactuTypesInv, VerifactuTypeOK, AeatStatus
    <3> QED
      BY <3>2, <3>3 DEF SendInv, RecordFine, Backed, Registered
  <2>3. SameRecords /\ Grows
    BY <1>1 DEF SameRecords, Grows
  <2>4. WorkFine'
    BY <1>1, <2>1, <2>2 DEF WorkFine, Released
  <2>5. \A j \in Invoices : RecordFine(j)'
    BY <1>1, <2>3, RecordStays, VerifactuAssumption DEF SendInv
  <2> QED
    BY <1>1, <2>3, <2>4, <2>5, WorkKeeps
<1> QED
  BY <1>2, <1>3 DEF Take

LEMMA AskFirstSend ==
    ASSUME VerifactuTypesInv, SendInv, AskFirst \/ AskFails
    PROVE  SendInv'
<1>1. PICK i \in Invoices :
         /\ i = work.i /\ Issued(i) /\ work.pc = "asking" /\ Released(i)
         /\ UNCHANGED <<agency, unsure, touched, req>>
  BY AtWork DEF AskFirst, AskFails, SendInv, WorkFine
<1>2. CASE row' = row /\ work' = [work EXCEPT !.pc = "sending"]
  <2>1. work'.i = work.i /\ work'.pc = "sending"
    BY <1>2, AtWork DEF WorkRow
  <2>2. SameRecords /\ Grows
    BY <1>1, <1>2 DEF SameRecords, Grows
  <2>3. WorkFine'
    BY <1>1, <1>2, <2>1 DEF WorkFine, Released
  <2>4. \A j \in Invoices : RecordFine(j)'
    BY <1>1, <1>2, <2>1, <2>2, RecordStays DEF SendInv
  <2> QED
    BY <1>1, <2>2, <2>3, <2>4, WorkKeeps
<1>3. CASE /\ row' = [row EXCEPT ![i].aeat = "accepted"] /\ work' = Resting
           /\ "accepted" \in Known(i)
  <2>1. /\ SameRecords /\ Grows /\ row'[i].aeat = "accepted"
        /\ \A j \in Invoices \ {i} : row'[j] = row[j]
    <3>1. PICK aeat : aeat = "accepted"
      OBVIOUS
    <3>2. /\ row' = [row EXCEPT ![i].aeat = aeat] /\ agency' = agency
          /\ unsure \subseteq unsure' /\ touched \subseteq touched'
      BY <1>1, <1>3, <3>1
    <3> QED
      BY <3>1, <3>2, StatusGrows
  <2>2. Registered(i)
    BY <1>3 DEF Known
  <2>3. WorkFine'
    BY <1>3 DEF WorkFine, Resting
  <2>4. RecordFine(i)'
    <3>1. Issued(i)' /\ (agency[i].got => Released(i)')
      BY <1>1, <2>1, StaysTrue DEF SendInv, RecordFine
    <3> QED
      BY <1>1, <2>1, <2>2, <3>1 DEF RecordFine, Backed, Registered
  <2>5. \A j \in Invoices \ {i} : RecordFine(j)'
    BY <1>1, <2>1, RecordStays DEF SendInv
  <2> QED
    BY <1>1, <2>1, <2>3, <2>4, <2>5, WorkKeeps
<1> QED
  BY <1>1, <1>2, <1>3 DEF AskFirst, AskFails

(* The worker sends: the agency decides on the record, or nothing is known.*)
LEMMA DecisionGrows ==
    ASSUME VerifactuTypesInv, NEW i \in Invoices,
           \/ \E at \in Decisions(i) : Decided(i, at)
           \/ agency' = [agency EXCEPT ![i].got = TRUE, ![i].late = TRUE]
           \/ agency' = agency
    PROVE  /\ agency[i].at # "none" => agency'[i].at # "none"
           /\ agency[i].at = "registered" => agency'[i].at = "registered"
           /\ \A j \in Invoices \ {i} : agency'[j] = agency[j]
<1>1. CASE \E at \in Decisions(i) : Decided(i, at)
  <2>1. PICK at \in Decisions(i) : Decided(i, at)
    BY <1>1
  <2>2. at # "none" /\ (agency[i].at = "registered" => at = "registered")
    BY DEF Decisions, Registered
  <2> QED
    BY <2>1, <2>2, DecidedTypes
<1>2. CASE agency' = [agency EXCEPT ![i].got = TRUE, ![i].late = TRUE]
  BY <1>2, AtWork DEF AgencyRow
<1>3. CASE agency' = agency
  BY <1>3
<1> QED
  BY <1>1, <1>2, <1>3

LEMMA SendSend ==
    ASSUME VerifactuTypesInv, SendInv, Submit \/ DuplicateUnclear \/ SubmitLost
    PROVE  SendInv'
<1>1. PICK i \in Invoices :
         /\ i = work.i /\ Issued(i) /\ work.pc = "sending" /\ Released(i)
         /\ UNCHANGED <<row, touched, req>> /\ unsure \subseteq unsure'
  BY AtWork DEF Submit, DuplicateUnclear, SubmitLost, SendInv, WorkFine
<1>2. \/ \E at \in Decisions(i) : Decided(i, at)
      \/ agency' = [agency EXCEPT ![i].got = TRUE, ![i].late = TRUE]
      \/ agency' = agency
  BY <1>1 DEF Submit, DuplicateUnclear, SubmitLost
<1>3. SameRecords /\ Grows
  BY <1>1, <1>2, DecisionGrows DEF SameRecords, Grows
<1>4. PICK answer \in Answers :
         /\ Answered(answer)
         /\ answer = "accepted" => agency'[i].at = "registered"
         /\ answer = "rejected" => agency'[i].at # "none"
         /\ answer = "rejected" /\ i \notin unsure' => agency'[i].at = "refused"
  <2>1. CASE Submit
    <3>1. PICK at \in Decisions(i) :
             Decided(i, at) /\ Answered(IF at = "registered" THEN "accepted" ELSE "rejected")
      BY <1>1, <2>1 DEF Submit
    <3>2. agency'[i].at = at /\ at \in {"registered", "refused"}
      BY <3>1, DecidedTypes DEF Decisions
    <3> QED
      BY <3>1, <3>2 DEF Answers
  <2>2. CASE DuplicateUnclear
    BY <1>1, <2>2 DEF DuplicateUnclear, Registered, Answers
  <2>3. CASE SubmitLost
    BY <2>3 DEF SubmitLost, Answers
  <2> QED
    BY <2>1, <2>2, <2>3
<1>5. work'.pc = "answered" /\ work'.i = i /\ work'.answer = answer
  BY <1>1, <1>4, AnsweredTypes
<1>6. Released(i)' /\ Issued(i)'
  BY <1>1, <1>3, StaysTrue
<1>7. WorkFine'
  BY <1>1, <1>4, <1>5, <1>6 DEF WorkFine, Backed, Registered, Released
<1>8. ASSUME NEW j \in Invoices
      PROVE  RecordFine(j)'
  <2>1. CASE j = i
    <3>1. Backed(j, row[j].aeat)'
      BY <1>1, <1>3, <2>1 DEF SendInv, RecordFine, Backed, Registered, Grows
    <3> QED
      BY <1>1, <1>5, <1>6, <2>1, <3>1 DEF SendInv, RecordFine
  <2>2. CASE j # i
    <3>1. agency'[j] = agency[j]
      BY <1>2, <2>2, DecisionGrows
    <3> QED
      BY <1>1, <1>3, <1>5, <2>2, <3>1, RecordStays DEF SendInv
  <2> QED
    BY <2>1, <2>2
<1> QED
  BY <1>1, <1>3, <1>7, <1>8, WorkKeeps

LEMMA StoreSend ==
    ASSUME VerifactuTypesInv, SendInv, Store
    PROVE  SendInv'
<1>1. PICK i \in Invoices :
         /\ i = work.i /\ Issued(i) /\ work.pc = "answered" /\ work' = Resting
         /\ row' = [row EXCEPT ![i].aeat = work.answer, ![i].sent = TRUE]
         /\ UNCHANGED <<agency, unsure, touched, req>>
  BY AtWork DEF Store
<1>2. /\ SameRecords /\ Grows /\ row'[i].aeat = work.answer /\ row'[i].sent
      /\ \A j \in Invoices \ {i} : row'[j] = row[j]
  <2>1. row'[i].sent
    BY <1>1 DEF VerifactuTypesInv, VerifactuTypeOK
  <2> QED
    BY <1>1, <2>1, StatusGrows
<1>3. work.answer \in Answers /\ Backed(i, work.answer)
      /\ (work.answer = "rejected" /\ i \notin unsure => agency[i].at = "refused")
  BY <1>1 DEF VerifactuTypesInv, SendInv, WorkFine
<1>4. WorkFine'
  BY <1>1 DEF WorkFine, Resting
<1>5. RecordFine(i)'
  <2>1. Issued(i)' /\ (agency[i].got => Released(i)')
    BY <1>1, <1>2, StaysTrue DEF SendInv, RecordFine
  <2>2. Backed(i, row[i].aeat)'
    BY <1>1, <1>2, <1>3 DEF Backed, Registered
  <2> QED
    BY <1>1, <1>2, <1>3, <2>1, <2>2 DEF RecordFine, Answers
<1>6. \A j \in Invoices \ {i} : RecordFine(j)'
  BY <1>1, <1>2, RecordStays DEF SendInv
<1> QED
  BY <1>1, <1>2, <1>4, <1>5, <1>6, WorkKeeps

LEMMA WorkerStopsSend ==
    ASSUME VerifactuTypesInv, SendInv, WorkerStops
    PROVE  SendInv'
<1>1. PICK i \in Invoices :
         /\ i = work.i /\ work' = Resting
         /\ unsure' = IF Registered(i) THEN unsure \cup {i} ELSE unsure
         /\ UNCHANGED <<row, agency, touched, req>>
  BY AtWork DEF WorkerStops
<1>2. SameRecords /\ Grows
  BY <1>1 DEF SameRecords, Grows
<1>3. WorkFine'
  BY <1>1 DEF WorkFine, Resting
<1>4. RecordFine(i)'
  <2>1. Released(i) => Released(i)'
    BY <1>2, StaysTrue
  <2>2. row[i].aeat = "rejected" /\ i \notin unsure' => agency[i].at = "refused"
    <3>1. row[i].aeat = "rejected" => agency[i].at \in {"registered", "refused"}
      BY AtWork DEF SendInv, RecordFine, Backed, AgencyRow
    <3> QED
      BY <1>1, <3>1 DEF Registered
  <2> QED
    BY <1>1, <2>1, <2>2 DEF SendInv, RecordFine, Backed, Registered, Issued
<1>5. \A j \in Invoices \ {i} : RecordFine(j)'
  BY <1>1, <1>2, RecordStays DEF SendInv
<1> QED
  BY <1>1, <1>2, <1>3, <1>4, <1>5, WorkKeeps

(* A record given up arrives after all.                                    *)
LEMMA ArriveSend ==
    ASSUME VerifactuTypesInv, SendInv, NEW i \in Invoices, Arrive(i)
    PROVE  SendInv'
<1>1. PICK at \in Decisions(i) :
         /\ agency' = [agency EXCEPT ![i].at = at, ![i].late = FALSE]
         /\ unsure' = IF at = "registered" /\ agency[i].at = "refused"
                      THEN unsure \cup {i} ELSE unsure
         /\ UNCHANGED <<row, work, touched, req>>
  BY DEF Arrive
<1>2. /\ agency'[i].at = at /\ agency'[i].got = agency[i].got
      /\ \A j \in Invoices \ {i} : agency'[j] = agency[j]
  BY <1>1, AtWork DEF AgencyRow
<1>3. at \in {"registered", "refused"} /\ (agency[i].at = "registered" => at = "registered")
  BY DEF Decisions, Registered
<1>4. SameRecords /\ Grows
  BY <1>1, <1>2, <1>3 DEF SameRecords, Grows
<1>5. \A j \in Invoices : agency[j].at = "refused" => agency'[j].at = "refused" \/ j \in unsure'
  BY <1>1, <1>2, <1>3
<1>6. WorkFine'
  <2>1. work.pc # "idle" => work.i \in Invoices
    BY AtWork
  <2> QED
    BY <1>1, <1>4, <1>5, <2>1, StaysTrue DEF SendInv, WorkFine, Grows, Backed, Registered
<1>7. ASSUME NEW j \in Invoices
      PROVE  RecordFine(j)'
  <2>1. Issued(j)' = Issued(j) /\ (Released(j) => Released(j)')
    BY <1>4, StaysTrue
  <2>2. Backed(j, row[j].aeat)'
    BY <1>1, <1>4 DEF SendInv, RecordFine, Backed, Registered, Grows
  <2>3. agency'[j].got = agency[j].got
    BY <1>2
  <2> QED
    BY <1>1, <1>5, <2>1, <2>2, <2>3 DEF SendInv, RecordFine
<1> QED
  BY <1>1, <1>4, <1>6, <1>7, WorkKeeps

LEMMA StepSend ==
    ASSUME VerifactuTypesInv, IssueInv, SendInv, [Next]_vars
    PROVE  SendInv'
<1>1. CASE UNCHANGED vars
  BY <1>1, QuietSend DEF vars
<1>2. ASSUME NEW q \in Requests, RequestStep(q)
      PROVE  SendInv'
  BY <1>2, Requester, WaitSend, AskSend, CommitSend, WriteRefreshSend, WriteResendSend
     DEF RequestStep
<1>3. CASE WorkerStep
  BY <1>3, TakeSend, AskFirstSend, SendSend, StoreSend, WorkerStopsSend DEF WorkerStep
<1>4. ASSUME NEW i \in Invoices, Arrive(i) \/ Requeue(i)
      PROVE  SendInv'
  <2>1. CASE Requeue(i)
    BY <2>1, QuietSend DEF Requeue
  <2> QED
    BY <1>4, <2>1, ArriveSend
<1> QED
  BY <1>1, <1>2, <1>3, <1>4 DEF Next

VerifactuInv == VerifactuTypesInv /\ IssueInv /\ SendInv

LEMMA VerifactuInvariant == Spec => []VerifactuInv
<1>1. Init => VerifactuInv
  BY InitTypes, InitIssue, InitSend DEF VerifactuInv
<1>2. VerifactuInv /\ [Next]_vars => VerifactuInv'
  BY StepTypes, StepIssue, StepSend DEF VerifactuInv
<1> QED
  BY <1>1, <1>2, PTL DEF Spec

(* The agency gets no record before it has decided on the one before it,   *)
(* however many answers are lost (sendToAeat).                             *)
THEOREM VerifactuSentInOrder == Spec => []SentInOrder
<1>1. VerifactuInv => SentInOrder
  BY DEF VerifactuInv, SendInv, RecordFine, Released, SentInOrder
<1> QED
  BY <1>1, VerifactuInvariant, PTL

(* What an invoice shows agrees with the agency, but for the named cases.  *)
THEOREM VerifactuAgencyAgrees == Spec => []AgencyAgrees
<1>1. VerifactuInv => AgencyAgrees
  BY DEF VerifactuInv, SendInv, RecordFine, Backed, AgencyAgrees
<1> QED
  BY <1>1, VerifactuInvariant, PTL

(* A record without an answer that nobody touched by hand is one that      *)
(* requeueStalled selects.                                                 *)
THEOREM VerifactuNobodyForgotten == Spec => []NobodyForgotten
<1>1. VerifactuInv => NobodyForgotten
  BY DEF VerifactuInv, SendInv, RecordFine, NobodyForgotten, Unresolved, Stalled
<1> QED
  BY <1>1, VerifactuInvariant, PTL

============================================================================
