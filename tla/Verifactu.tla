----------------------------- MODULE Verifactu -----------------------------
(***************************************************************************)
(* Issuing invoices and registering them with the tax agency (AEAT).       *)
(*                                                                         *)
(*   invoices.service.ts          issue, resendAeat, refreshAeatStatus     *)
(*   invoice-series.service.ts    reserveNextNumber                        *)
(*   verifactu.service.ts         computeChainedHash, sendToAeat,          *)
(*                                refreshStatus                            *)
(*   verifactu.processor.ts       the worker of the queue, one job at once *)
(*   verifactu-status-poller.cron.ts   requeueStalled, pollOrphans         *)
(*                                                                         *)
(* An invoice is issued in one transaction, which takes the locks of the   *)
(* invoice, of its series and of its issuer's chain one after another and  *)
(* may fail at any point.  Its record is then sent through the queue, in   *)
(* real mode.  'accepted' stands for 'accepted_with_warnings' too, the     *)
(* hash of a record for the link to the record before it.  Invoices issued *)
(* by Holded, the date order of a series and its restart every year are    *)
(* not modelled, nor an issuer without certificate (nothing is sent then). *)
(***************************************************************************)
EXTENDS Naturals, FiniteSets

CONSTANTS
    Invoices,
    SeriesSet, Series,    \* the series of each invoice
    Issuers, Issuer,      \* who issues it: the tenant or an owner
    Requests,             \* requests of the API, and the cron that polls
    NoInvoice,
    MaxJobs,              \* bound: jobs of one invoice in the queue
    MaxTroubles           \* bound: lost answers, resends by hand and stops of a process

ASSUME VerifactuAssumption ==
    /\ Series \in [Invoices -> SeriesSet]
    /\ Issuer \in [Invoices -> Issuers]
    /\ NoInvoice \notin Invoices
    /\ MaxJobs \in Nat \ {0}
    /\ MaxTroubles \in Nat

VARIABLES
    row,      \* the invoices: issued, number, position and link in the chain,
              \* aeatStatus, aeatSentAt set
    next,     \* the next number of each series
    req,      \* requests: what they are at, and what they have read
    jobs,     \* jobs in the queue for each invoice
    work,     \* the worker
    agency,   \* what the agency did with each record, and whether one is still
              \* on its way after the connection was given up
    unsure,   \* history: records whose status is of a failed or overtaken query,
              \* or was overtaken by an answer that nobody stored
    touched,  \* history: records resent by hand, or whose status was asked for
              \* by hand and without answer before they were sent
    troubles  \* lost answers, resends by hand and stops so far

vars == <<row, next, req, jobs, work, agency, unsure, touched, troubles>>

MaybeInvoice == Invoices \cup {NoInvoice}
Draft  == [issued |-> FALSE, number |-> 0, seq |-> 0, prev |-> NoInvoice,
           aeat |-> "none", sent |-> FALSE]
Idle   == [pc |-> "idle", i |-> NoInvoice, number |-> 0, seq |-> 0,
           prev |-> NoInvoice, answer |-> "none"]
Resting == [pc |-> "idle", i |-> NoInvoice, answer |-> "none"]

Issued(i)     == row[i].issued
Registered(i) == agency[i].at = "registered"

Init ==
    /\ row = [i \in Invoices |-> Draft]
    /\ next = [s \in SeriesSet |-> 1]
    /\ req = [q \in Requests |-> Idle]
    /\ jobs = [i \in Invoices |-> 0]
    /\ work = Resting
    /\ agency = [i \in Invoices |-> [at |-> "none", got |-> FALSE, late |-> FALSE]]
    /\ unsure = {}
    /\ touched = {}
    /\ troubles = 0

Trouble == troubles < MaxTroubles /\ troubles' = troubles + 1

-----------------------------------------------------------------------------
(* Variants of definitions below, each with the slip that one property     *)
(* must notice.  No action of the specification uses them.                 *)
SeriesBusy(s) == \E q \in Requests :
                    req[q].pc \in {"numbered", "chained"} /\ Series[req[q].i] = s

ReserveNumberAtOnce(q) ==
    LET s == Series[req[q].i]
    IN  /\ req[q].pc = "locked" /\ ~SeriesBusy(s)
        /\ next' = [next EXCEPT ![s] = @ + 1]
        /\ req' = [req EXCEPT ![q].pc = "numbered", ![q].number = next[s]]
        /\ UNCHANGED <<row, jobs, work, agency, unsure, touched, troubles>>

InSeries(i) == {j \in Invoices : Issued(j) /\ Series[j] = Series[i]}

ChainBySeries(q) ==
    LET i == req[q].i
        n == Cardinality({j \in Invoices : Issued(j) /\ Issuer[j] = Issuer[i]})
    IN  /\ req[q].pc = "numbered"
        /\ \E j \in IF InSeries(i) = {} THEN {NoInvoice} ELSE InSeries(i) :
              req' = [req EXCEPT ![q].pc = "chained", ![q].prev = j, ![q].seq = n + 1]
        /\ UNCHANGED <<row, next, jobs, work, agency, unsure, touched, troubles>>

UnresolvedPending(i) == row[i].aeat = "pending"

AskFirstAnyAnswer ==
    LET i == work.i
    IN  /\ work.pc = "asking"
        /\ row' = [row EXCEPT ![i].aeat = "accepted"]
        /\ jobs' = [jobs EXCEPT ![i] = @ - 1] /\ work' = Resting
        /\ UNCHANGED <<next, req, agency, unsure, touched, troubles>>

RefreshFailsOnDrafts(q, i) ==
    /\ req[q].pc = "idle" /\ Trouble
    /\ req' = [req EXCEPT ![q] = [Idle EXCEPT !.pc = "refreshing", !.i = i,
                                             !.answer = "error"]]
    /\ UNCHANGED <<row, next, jobs, work, agency, unsure, touched>>

StalledErrors(i) == row[i].aeat = "error" /\ row[i].sent

-----------------------------------------------------------------------------
(* issue.  A lock is held to the end of the transaction.                   *)
Transaction == {"locked", "numbered", "chained"}

InvoiceLocked(i) == \E q \in Requests : req[q].pc \in Transaction /\ req[q].i = i
SeriesLocked(s)  == \E q \in Requests :
                       req[q].pc \in {"numbered", "chained"} /\ Series[req[q].i] = s
ChainLocked(o)   == \E q \in Requests : req[q].pc = "chained" /\ Issuer[req[q].i] = o

(* lockInvoiceRow; an invoice that is no longer a draft is refused.        *)
Lock(q, i) ==
    /\ req[q].pc = "idle"
    /\ ~Issued(i) /\ ~InvoiceLocked(i)
    /\ req' = [req EXCEPT ![q] = [Idle EXCEPT !.pc = "locked", !.i = i]]
    /\ UNCHANGED <<row, next, jobs, work, agency, unsure, touched, troubles>>

(* reserveNextNumber: others see the counter move only at the commit.      *)
ReserveNumber(q) ==
    LET s == Series[req[q].i]
    IN  /\ req[q].pc = "locked"
        /\ ~SeriesLocked(s)
        /\ req' = [req EXCEPT ![q].pc = "numbered", ![q].number = next[s]]
        /\ UNCHANGED <<row, next, jobs, work, agency, unsure, touched, troubles>>

(* computeChainedHash: under the issuer's lock, the last record so far.    *)
Chained(i) == {j \in Invoices : Issued(j) /\ Issuer[j] = Issuer[i]}
Last(i) == {j \in Chained(i) : \A k \in Chained(i) : row[k].seq <= row[j].seq}

Chain(q) ==
    LET i == req[q].i
    IN  /\ req[q].pc = "numbered"
        /\ ~ChainLocked(Issuer[i])
        /\ IF Last(i) = {}
           THEN req' = [req EXCEPT ![q].pc = "chained", ![q].seq = 1]
           ELSE \E j \in Last(i) :
                   req' = [req EXCEPT ![q].pc = "chained", ![q].prev = j,
                                      ![q].seq = row[j].seq + 1]
        /\ UNCHANGED <<row, next, jobs, work, agency, unsure, touched, troubles>>

(* The unique indexes on the numbers of a series and the places in a chain.*)
IndexesAllow(r) ==
    \A j \in Invoices : Issued(j) =>
        /\ Series[j] = Series[r.i] => row[j].number # r.number
        /\ Issuer[j] = Issuer[r.i] => row[j].seq # r.seq

Commit(q) ==
    LET r == req[q]
    IN  /\ r.pc = "chained"
        /\ IndexesAllow(r)
        /\ row' = [row EXCEPT ![r.i] = [issued |-> TRUE, number |-> r.number, seq |-> r.seq,
                                        prev |-> r.prev, aeat |-> "pending", sent |-> FALSE]]
        /\ next' = [next EXCEPT ![Series[r.i]] = r.number + 1]
        /\ req' = [req EXCEPT ![q] = [Idle EXCEPT !.pc = "queueing", !.i = r.i]]
        /\ UNCHANGED <<jobs, work, agency, unsure, touched, troubles>>

(* A check after the number refuses, or an index does, or the process      *)
(* stops: nothing of the transaction remains.                              *)
Rollback(q) ==
    /\ req[q].pc \in Transaction
    /\ req' = [req EXCEPT ![q] = Idle]
    /\ UNCHANGED <<row, next, jobs, work, agency, unsure, touched, troubles>>

(* After the commit of an issue or of a resend.                            *)
Queued(i) == [jobs EXCEPT ![i] = IF @ < MaxJobs THEN @ + 1 ELSE @]

Enqueue(q) ==
    /\ req[q].pc = "queueing"
    /\ jobs' = Queued(req[q].i)
    /\ req' = [req EXCEPT ![q] = Idle]
    /\ UNCHANGED <<row, next, work, agency, unsure, touched, troubles>>

-----------------------------------------------------------------------------
(* The worker: sendToAeat.                                                 *)
Unresolved(i) == row[i].aeat \in {"pending", "error"}
Removed(i) == [jobs EXCEPT ![i] = @ - 1]

(* A job that throws is retried, or has had its three attempts.            *)
Retried(i) == jobs' \in {jobs, Removed(i)}

(* An accepted record is not sent again; one whose predecessor is not      *)
(* resolved fails without a trace in its row.                              *)
Take(i) ==
    LET prev == row[i].prev
    IN  /\ work.pc = "idle" /\ jobs[i] > 0
        /\ \/ /\ row[i].aeat = "accepted"
              /\ jobs' = Removed(i) /\ UNCHANGED work
           \/ /\ row[i].aeat # "accepted"
              /\ prev # NoInvoice /\ Unresolved(prev)
              /\ Retried(i) /\ UNCHANGED work
           \/ /\ row[i].aeat # "accepted"
              /\ prev # NoInvoice => ~Unresolved(prev)
              /\ work' = [Resting EXCEPT !.i = i,
                             !.pc = IF row[i].sent THEN "asking" ELSE "sending"]
              /\ UNCHANGED jobs
        /\ UNCHANGED <<row, next, req, agency, unsure, touched, troubles>>

(* getStatus: what the agency may answer about a record.                   *)
Known(i) ==
    CASE Registered(i)              -> {"accepted"}
      [] agency[i].at = "refused"   -> {"rejected", "pending"}
      [] OTHER                      -> {"pending"}

(* A query before sending again; unless it says 'accepted', send.          *)
AskFirst ==
    LET i == work.i
    IN  /\ work.pc = "asking"
        /\ IF "accepted" \in Known(i)
           THEN /\ row' = [row EXCEPT ![i].aeat = "accepted"]
                /\ jobs' = Removed(i) /\ work' = Resting
           ELSE /\ work' = [work EXCEPT !.pc = "sending"]
                /\ UNCHANGED <<row, jobs>>
        /\ UNCHANGED <<next, req, agency, unsure, touched, troubles>>

AskFails ==
    /\ work.pc = "asking"
    /\ Trouble
    /\ work' = [work EXCEPT !.pc = "sending"]
    /\ UNCHANGED <<row, next, req, jobs, agency, unsure, touched>>

Answered(answer) == work' = [work EXCEPT !.pc = "answered", !.answer = answer]

(* The agency decides: a record it has is a duplicate.                     *)
Decided(i, at) == agency' = [agency EXCEPT ![i].at = at, ![i].got = TRUE]
Decisions(i) == IF Registered(i) THEN {"registered"} ELSE {"registered", "refused"}

(* A duplicate is resolved by a query.                                     *)
Submit ==
    LET i == work.i
    IN  /\ work.pc = "sending"
        /\ \E at \in Decisions(i) :
              /\ Decided(i, at)
              /\ Answered(IF at = "registered" THEN "accepted" ELSE "rejected")
        /\ UNCHANGED <<row, next, req, jobs, unsure, touched, troubles>>

DuplicateUnclear ==
    /\ work.pc = "sending" /\ Registered(work.i)
    /\ Trouble
    /\ Answered("rejected")
    /\ unsure' = unsure \cup {work.i}
    /\ UNCHANGED <<row, next, req, jobs, agency, touched>>

(* The time runs out: the agency has decided, or will, or got nothing.     *)
SubmitLost ==
    LET i == work.i
    IN  /\ work.pc = "sending"
        /\ Trouble
        /\ \/ \E at \in Decisions(i) : Decided(i, at)
           \/ agency' = [agency EXCEPT ![i].got = TRUE, ![i].late = TRUE]
           \/ UNCHANGED agency
        /\ Answered("error")
        /\ UNCHANGED <<row, next, req, jobs, unsure, touched>>

Arrive(i) ==
    /\ agency[i].late
    /\ \E at \in Decisions(i) :
          /\ agency' = [agency EXCEPT ![i].at = at, ![i].late = FALSE]
          /\ unsure' = IF at = "registered" /\ agency[i].at = "refused"
                       THEN unsure \cup {i} ELSE unsure
    /\ UNCHANGED <<row, next, req, jobs, work, touched, troubles>>

Store ==
    LET i == work.i
    IN  /\ work.pc = "answered"
        /\ row' = [row EXCEPT ![i].aeat = work.answer, ![i].sent = TRUE]
        /\ IF work.answer = "error" THEN Retried(i) ELSE jobs' = Removed(i)
        /\ work' = Resting
        /\ UNCHANGED <<next, req, agency, unsure, touched, troubles>>

(* The job is found stalled and run again, or given up.                    *)
WorkerStops ==
    /\ work.pc # "idle"
    /\ Trouble
    /\ Retried(work.i)
    /\ unsure' = IF Registered(work.i) THEN unsure \cup {work.i} ELSE unsure
    /\ work' = Resting
    /\ UNCHANGED <<row, next, req, agency, touched>>

-----------------------------------------------------------------------------
(* refreshStatus, by hand or by pollOrphans: the answer is written over    *)
(* whatever the row says by then.                                          *)
Asked(q, i, answer) ==
    req' = [req EXCEPT ![q] = [Idle EXCEPT !.pc = "refreshing", !.i = i, !.answer = answer]]

Refresh(q, i) ==
    /\ req[q].pc = "idle" /\ Issued(i)
    /\ \E answer \in Known(i) \ {"pending"} : Asked(q, i, answer)
    /\ UNCHANGED <<row, next, jobs, work, agency, unsure, touched, troubles>>

RefreshFails(q, i) ==
    /\ req[q].pc = "idle" /\ Issued(i)
    /\ Trouble
    /\ Asked(q, i, "error")
    /\ touched' = IF row[i].sent THEN touched ELSE touched \cup {i}
    /\ UNCHANGED <<row, next, jobs, work, agency, unsure>>

Overtaken(r) == r.answer = "rejected" /\ Registered(r.i)

WriteRefresh(q) ==
    LET r == req[q]
    IN  /\ r.pc = "refreshing"
        /\ row' = [row EXCEPT ![r.i].aeat = r.answer]
        /\ unsure' = IF Overtaken(r) THEN unsure \cup {r.i} ELSE unsure
        /\ req' = [req EXCEPT ![q] = Idle]
        /\ UNCHANGED <<next, jobs, work, agency, touched, troubles>>

(* resendAeat: the status is read, and reset in a later statement.         *)
Resend(q, i) ==
    /\ req[q].pc = "idle"
    /\ Issued(i) /\ row[i].aeat # "accepted"
    /\ Trouble
    /\ req' = [req EXCEPT ![q] = [Idle EXCEPT !.pc = "resending", !.i = i]]
    /\ touched' = touched \cup {i}
    /\ UNCHANGED <<row, next, jobs, work, agency, unsure>>

WriteResend(q) ==
    /\ req[q].pc = "resending"
    /\ row' = [row EXCEPT ![req[q].i].aeat = "pending"]
    /\ req' = [req EXCEPT ![q].pc = "queueing"]
    /\ UNCHANGED <<next, jobs, work, agency, unsure, touched, troubles>>

RequestStops(q) ==
    /\ req[q].pc \in {"queueing", "refreshing", "resending"}
    /\ Trouble
    /\ req' = [req EXCEPT ![q] = Idle]
    /\ UNCHANGED <<row, next, jobs, work, agency, unsure, touched>>

(* requeueStalled.                                                         *)
Stalled(i) ==
    \/ row[i].aeat = "error" /\ row[i].sent
    \/ row[i].aeat = "pending" /\ ~row[i].sent

Requeue(i) ==
    /\ Stalled(i)
    /\ jobs' = Queued(i)
    /\ UNCHANGED <<row, next, req, work, agency, unsure, touched, troubles>>

-----------------------------------------------------------------------------
RequestStep(q) ==
    \/ \E i \in Invoices : Lock(q, i)
    \/ ReserveNumber(q) \/ Chain(q) \/ Commit(q) \/ Rollback(q) \/ Enqueue(q)
    \/ \E i \in Invoices : Refresh(q, i) \/ RefreshFails(q, i) \/ Resend(q, i)
    \/ WriteRefresh(q) \/ WriteResend(q) \/ RequestStops(q)

WorkerStep ==
    \/ \E i \in Invoices : Take(i)
    \/ AskFirst \/ AskFails \/ Submit \/ DuplicateUnclear \/ SubmitLost
    \/ Store \/ WorkerStops

Next ==
    \/ \E q \in Requests : RequestStep(q)
    \/ WorkerStep
    \/ \E i \in Invoices : Arrive(i) \/ Requeue(i)

Spec == Init /\ [][Next]_vars

-----------------------------------------------------------------------------
(* Type invariant of the issuing and sending of invoices.                  *)
AeatStatus == {"pending", "accepted", "rejected", "error"}

VerifactuTypeOK ==
    /\ row \in [Invoices -> [issued : BOOLEAN, number : Nat, seq : Nat, prev : MaybeInvoice,
                             aeat : AeatStatus \cup {"none"}, sent : BOOLEAN]]
    /\ \A i \in Invoices : Issued(i) <=> row[i].aeat # "none"
    /\ next \in [SeriesSet -> Nat \ {0}]
    /\ req \in [Requests ->
                   [pc : Transaction \cup {"idle", "queueing", "refreshing", "resending"},
                    i : MaybeInvoice, number : Nat, seq : Nat, prev : MaybeInvoice,
                    answer : AeatStatus \cup {"none"}]]
    /\ \A q \in Requests : req[q].pc # "idle" => req[q].i \in Invoices
    /\ jobs \in [Invoices -> 0..MaxJobs]
    /\ work \in [pc : {"idle", "asking", "sending", "answered"}, i : MaybeInvoice,
                 answer : AeatStatus \cup {"none"}]
    /\ work.pc # "idle" => work.i \in Invoices /\ jobs[work.i] > 0
    /\ agency \in [Invoices -> [at : {"none", "registered", "refused"},
                                got : BOOLEAN, late : BOOLEAN]]
    /\ unsure \subseteq Invoices /\ touched \subseteq Invoices
    /\ troubles \in 0..MaxTroubles

(* The invoices of a series are numbered 1, 2, 3... without gaps and       *)
(* without repeats, whatever transactions fail or meet (issue,             *)
(* reserveNextNumber).                                                     *)
NumbersWithoutGaps ==
    /\ \A s \in SeriesSet :
          {row[i].number : i \in {j \in Invoices : Issued(j) /\ Series[j] = s}}
            = 1..(next[s] - 1)
    /\ \A i, j \in Invoices :
          Issued(i) /\ Issued(j) /\ Series[i] = Series[j] /\ row[i].number = row[j].number
            => i = j

(* The records of an issuer, of all its series, form one chain: each one   *)
(* is linked to the one just before it and two never to the same           *)
(* (computeChainedHash).                                                   *)
OneChain ==
    \A i \in Invoices : Issued(i) =>
        /\ row[i].prev = NoInvoice <=> row[i].seq = 1
        /\ row[i].prev # NoInvoice =>
              row[i].prev \in Chained(i) /\ row[row[i].prev].seq + 1 = row[i].seq
        /\ \A j \in Chained(i) \ {i} : row[j].seq # row[i].seq /\ row[j].prev # row[i].prev

(* The agency does not receive a record before it has decided on the one   *)
(* before it in the chain, whatever answers were lost.                     *)
SentInOrder ==
    \A i \in Invoices :
        agency[i].got /\ row[i].prev # NoInvoice => agency[row[i].prev].at # "none"

(* What an invoice shows agrees with the agency: 'accepted' is registered; *)
(* 'rejected' was refused, unless it is being sent again, the query after  *)
(* a duplicate failed, the answer of a query was written after another     *)
(* attempt, or an attempt given up was accepted.                           *)
AgencyAgrees ==
    \A i \in Invoices :
        /\ row[i].aeat = "accepted" => Registered(i)
        /\ row[i].aeat = "rejected" /\ i \notin unsure \cup {work.i} => agency[i].at = "refused"

(* A record without an answer is one that the cron selects and queues      *)
(* again, although the process may stop between issuing the invoice and    *)
(* queueing its job, answers may be lost and attempts run out.  Not so     *)
(* after a resend by hand, or a query by hand of a record never sent.      *)
NobodyForgotten ==
    \A i \in Invoices \ touched : Unresolved(i) => Stalled(i)

=============================================================================
