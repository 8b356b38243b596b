--------------------------- MODULE SessionsProofs ---------------------------
(***************************************************************************)
(* Proofs about Sessions, for any number of sessions, browsers and         *)
(* requests: a renewal that only raced or lost its answer is never taken   *)
(* for a reuse, and a session replaced as lost was lost.                   *)
(***************************************************************************)
EXTENDS Sessions, TLAPS

-----------------------------------------------------------------------------
(* A row keeps its shape; one that was rotated has heirs, and only such a  *)
(* row has them; one replaced as a lost answer was lost.                   *)
Held(s) == UnderWay(s) \/ \E d \in Devices : jar[d] = s

Lost(s) ==
    Status(s) = "lost_response" /\ session[s].from \notin strained =>
        ~Held(s) /\ \A q \in Requests : req[q].new # s

RowFine ==
    /\ \A s \in Sessions : Status(s) = "none" => session[s] = NoRow
    /\ \A s \in Sessions : Status(s) = "rotated" => Heirs(s) # {}
    /\ \A s \in Sessions : session[s].from # NoSession => Status(session[s].from) = "rotated"
    /\ \A s \in Sessions : Lost(s)

(* While a browser holds a token, nobody holds what was made of it.        *)
HeirsUnheld(t) ==
    \A h \in Sessions : session[h].from = t => ~Held(h) /\ Status(h) # "rotated"

JarFine ==
    \A d \in Devices : jar[d] # NoSession =>
        /\ Status(jar[d]) # "none"
        /\ \A e \in Devices : jar[e] = jar[d] => e = d
        /\ HeirsUnheld(jar[d])

(* A request with a token over thirty seconds old is the only one with it, *)
(* and the same holds for it.                                              *)
AloneFor(q, t) ==
    session[t].old /\ t \notin strained =>
        /\ HeirsUnheld(t)
        /\ \A p \in Requests : req[p].pc # "idle" /\ req[p].token = t => p = q

(* The answer it is about to give is held by nobody yet.                   *)
AnswerFor(q, t, n) ==
    /\ Status(n) \notin {"none", "rotated"}
    /\ session[n].from = t
    /\ ~Held(n)
    /\ \A p \in Requests : req[p].new = n => p = q

ExcusedFor(t) ==
    \/ Ended(t)
    \/ \E h \in Heirs(t) : Status(h) \in ClosedStatus
    \/ {t, session[t].from} \cap strained # {}

(* What a request r has read of its token t is still so.                   *)
SoundFor(r, t) ==
    /\ Status(t) # "none"
    /\ \A d \in Devices : jar[d] = t => d = r.device
    /\ r.pc \in {"fork", "recover", "replace", "answered"} => Status(t) = "rotated"
    /\ r.pc \in {"recover", "replace"} => session[t].old
    /\ r.pc = "raced" => Status(t) # "live"
    /\ r.pc = "replace" =>
          \A h \in r.heirs :
              /\ session[h].from = t
              /\ t \notin strained => Status(h) \in {"live", "closed", "reuse"}
    /\ r.pc = "accuse" => ExcusedFor(t)

Sound(q)      == SoundFor(req[q], req[q].token)
Alone(q)      == AloneFor(q, req[q].token)
AnswerFine(q) == AnswerFor(q, req[q].token, req[q].new)

ReqFine ==
    \A q \in Requests :
        /\ req[q].pc # "idle" => Sound(q) /\ Alone(q)
        /\ req[q].pc = "answered" => AnswerFine(q)

(* The inductive invariant.                                                *)
SessionsInv == SessionsTypeOK /\ RowFine /\ JarFine /\ ReqFine

-----------------------------------------------------------------------------
(* Types.                                                                  *)
Row == [status : SessionStatus, from : MaybeSession, old : BOOLEAN, expired : BOOLEAN]

LEMMA SomeSession == NoSession \notin Sessions /\ NoDevice \notin Devices /\ MaxForks \in Nat
BY SessionsAssumption

LEMMA CreatedRows ==
    ASSUME NEW f \in [Sessions -> Row], NEW n \in Sessions, NEW t \in MaybeSession
    PROVE  /\ Created(f, n, t) \in [Sessions -> Row]
           /\ Created(f, n, t)[n] = [status |-> "live", from |-> t, old |-> FALSE,
                                     expired |-> FALSE]
           /\ \A s \in Sessions \ {n} : Created(f, n, t)[s] = f[s]
BY DEF Created, NoRow, Row, SessionStatus, MaybeSession

LEMMA RevokedRows ==
    ASSUME session \in [Sessions -> Row], NEW S, NEW reason \in SessionStatus
    PROVE  /\ Revoked(S, reason) \in [Sessions -> Row]
           /\ \A s \in Sessions :
                /\ s \in S /\ Live(s) =>
                     Revoked(S, reason)[s] = [session[s] EXCEPT !.status = reason]
                /\ ~(s \in S /\ Live(s)) => Revoked(S, reason)[s] = session[s]
BY DEF Revoked, Row, Live, Status

(* What a step does to the request it moves.                               *)
ReqRow == [pc : ReqPc, device : Devices \cup {NoDevice}, token : MaybeSession,
           heirs : SUBSET Sessions, new : MaybeSession]

OneRequest(q, r) ==
    /\ req' \in [Requests -> ReqRow] /\ req'[q] = r
    /\ \A p \in Requests \ {q} : req'[p] = req[p]

LEMMA GotoOne ==
    ASSUME req \in [Requests -> ReqRow], NEW q \in Requests, NEW pc \in ReqPc, Goto(q, pc)
    PROVE  OneRequest(q, [req[q] EXCEPT !.pc = pc])
<1>1. req[q] \in ReqRow /\ [req[q] EXCEPT !.pc = pc] \in ReqRow
  BY DEF ReqRow
<1> QED
  BY <1>1 DEF Goto, OneRequest

LEMMA AnswerOne ==
    ASSUME req \in [Requests -> ReqRow], NEW q \in Requests, NEW n \in Sessions, Answer(q, n)
    PROVE  OneRequest(q, [req[q] EXCEPT !.pc = "answered", !.new = n])
<1>1. req[q] \in ReqRow /\ [req[q] EXCEPT !.pc = "answered", !.new = n] \in ReqRow
  BY DEF ReqRow, ReqPc, MaybeSession
<1> QED
  BY <1>1 DEF Answer, OneRequest

LEMMA EndOne ==
    ASSUME req \in [Requests -> ReqRow], NEW q \in Requests, EndRequest(q)
    PROVE  OneRequest(q, NoReq)
BY DEF EndRequest, OneRequest, NoReq, ReqRow, ReqPc, MaybeSession

(* The types, with names for the rows.                                     *)
Shaped(r) ==
    /\ r.pc = "idle" <=> r = NoReq
    /\ r.pc # "idle" => r.device \in Devices /\ r.token \in Sessions
    /\ r.pc = "answered" <=> r.new \in Sessions

Typed ==
    /\ session \in [Sessions -> Row]
    /\ jar \in [Devices -> MaybeSession]
    /\ req \in [Requests -> ReqRow]
    /\ strained \in SUBSET Sessions
    /\ \A q \in Requests : Shaped(req[q])

LEMMA TypesUnpacked == SessionsTypeOK <=> Typed
BY DEF SessionsTypeOK, Typed, Shaped, Row, ReqRow

LEMMA TypesUnpackedNext == SessionsTypeOK' <=> Typed'
BY DEF SessionsTypeOK, Typed, Shaped, Row, ReqRow

LEMMA MovedRequest ==
    ASSUME Typed, NEW q \in Requests, NEW r, OneRequest(q, r), Shaped(r),
           session' \in [Sessions -> Row], jar' \in [Devices -> MaybeSession],
           strained' \in SUBSET Sessions
    PROVE  SessionsTypeOK'
<1>1. \A p \in Requests : Shaped(req'[p])
  BY DEF OneRequest, Typed
<1> QED
  BY <1>1, TypesUnpackedNext DEF OneRequest, Typed, Shaped

(* The parts of the invariant, with names for the sessions they are about. *)
LEMMA JarFineNext ==
    ASSUME \A d \in Devices : jar'[d] \in MaybeSession,
           \A d \in Devices, t \in Sessions : jar'[d] = t =>
                /\ Status(t)' # "none"
                /\ \A e \in Devices : jar'[e] = t => e = d
                /\ HeirsUnheld(t)'
    PROVE  JarFine'
BY SomeSession DEF JarFine, MaybeSession, Status, HeirsUnheld, Held, UnderWay

LEMMA SoundAndAlone ==
    ASSUME NEW q \in Requests, NEW t \in Sessions, req[q].token = t
    PROVE  (Sound(q) <=> SoundFor(req[q], t)) /\ (Alone(q) <=> AloneFor(q, t))
BY DEF Sound, Alone

LEMMA SoundAndAloneNext ==
    ASSUME NEW q \in Requests, NEW t \in Sessions, req'[q].token = t,
           NEW r, req'[q] = r, SoundFor(r, t)', AloneFor(q, t)'
    PROVE  Sound(q)' /\ Alone(q)'
BY DEF Sound, Alone, SoundFor, AloneFor, ExcusedFor, Ended, Heirs, Status, HeirsUnheld,
       Held, UnderWay

LEMMA AnswerNext ==
    ASSUME NEW q \in Requests, NEW t, NEW n \in Sessions, req'[q].token = t, req'[q].new = n,
           AnswerFor(q, t, n)'
    PROVE  AnswerFine(q)'
BY DEF AnswerFine, AnswerFor, Status, Held, UnderWay

-----------------------------------------------------------------------------
(* A request moves on, and nothing else changes.                           *)
LEMMA MovesOn ==
    ASSUME SessionsInv, NEW q \in Requests, NEW r \in ReqRow, OneRequest(q, r),
           UNCHANGED <<session, jar, strained>>,
           req[q].pc \notin {"idle", "answered"}, r.pc \notin {"idle", "answered"},
           r.token = req[q].token, r.device = req[q].device, r.new = req[q].new,
           SoundFor(r, req[q].token)
    PROVE  SessionsInv'
<1> USE DEF SessionsInv
<1>1. SessionsTypeOK'
  <2>1. Typed /\ Shaped(req[q])
    BY TypesUnpacked DEF Typed
  <2>2. Shaped(r)
    BY <2>1, TypesUnpacked DEF Typed, Shaped, NoReq
  <2> QED
    BY <2>1, <2>2, MovedRequest DEF Typed
<1>2. \A s \in Sessions : /\ Held(s)' = Held(s) /\ Heirs(s)' = Heirs(s) /\ Status(s)' = Status(s)
                          /\ Live(s)' = Live(s) /\ Ended(s)' = Ended(s)
  BY DEF OneRequest, Held, UnderWay, Heirs, Status, Live, Ended
<1>3. \A p \in Requests : /\ req'[p].token = req[p].token /\ req'[p].new = req[p].new
                          /\ req'[p].device = req[p].device
                          /\ req'[p].pc = "idle" <=> req[p].pc = "idle"
                          /\ req'[p].pc = "answered" <=> req[p].pc = "answered"
  BY DEF OneRequest
<1>4. \A s \in Sessions : session[s].from \in MaybeSession
  BY TypesUnpacked DEF Typed, Shaped, Row
<1>5. RowFine'
  <2>1. \A s \in Sessions : Lost(s)'
    BY <1>2, <1>3 DEF RowFine, Lost
  <2> QED
    BY <1>2, <2>1, <1>4 DEF RowFine, MaybeSession, Status
<1>6. \A t \in Sessions : HeirsUnheld(t)' = HeirsUnheld(t)
  BY <1>2 DEF HeirsUnheld
<1>7. JarFine'
  BY <1>2, <1>6, TypesUnpacked DEF Typed, Shaped, JarFine, MaybeSession
<1>8. ASSUME NEW p \in Requests, req[p].pc # "idle" PROVE Sound(p)' /\ Alone(p)'
  <2>0. PICK t \in Sessions : t = req[p].token
    BY <1>8, TypesUnpacked DEF Typed, Shaped
  <2>1. SoundFor(req[p], t) /\ AloneFor(p, t)
    BY <1>8, <2>0, SoundAndAlone DEF ReqFine
  <2>2. AloneFor(p, t)'
    BY <2>1, <1>6, <1>3 DEF AloneFor
  <2>3. ExcusedFor(t)' = ExcusedFor(t)
    BY <1>2 DEF ExcusedFor, Heirs
  <2>4. PICK r2 \in ReqRow : r2 = req'[p]
    BY DEF OneRequest
  <2>5. SoundFor(r2, t)' = SoundFor(r2, t)
    BY <1>2, <2>3 DEF SoundFor, Status
  <2>6. SoundFor(r2, t)
    BY <2>0, <2>1, <2>4 DEF OneRequest
  <2> QED
    BY <2>0, <2>2, <2>4, <2>5, <2>6, <1>3, SoundAndAloneNext
<1>9. ASSUME NEW p \in Requests, req[p].pc = "answered" PROVE AnswerFine(p)'
  <2>0. PICK t \in Sessions, n \in Sessions : t = req[p].token /\ n = req[p].new
    BY <1>9, TypesUnpacked DEF Typed, Shaped, ReqRow
  <2>1. AnswerFor(p, t, n)
    BY <1>9, <2>0 DEF ReqFine, AnswerFine
  <2>2. AnswerFor(p, t, n)'
    BY <2>1, <1>2, <1>3 DEF AnswerFor
  <2> QED
    BY <2>0, <2>2, <1>3, AnswerNext
<1> QED
  BY <1>1, <1>3, <1>5, <1>7, <1>8, <1>9 DEF ReqFine

-----------------------------------------------------------------------------
(* Sessions are closed, expire or grow old, cookies are cleared and        *)
(* requests end: nothing new is held by anybody.                           *)
Winds ==
    /\ session' \in [Sessions -> Row]
    /\ \A s \in Sessions :
        /\ session'[s].from = session[s].from
        /\ \/ Status(s)' = Status(s)
           \/ Status(s) = "live" /\ Status(s)' \in ClosedStatus
        /\ Status(s) = "none" => session'[s] = session[s]
        /\ session[s].old => session'[s].old
        /\ session[s].expired => session'[s].expired
        /\ session'[s].old /\ s \notin strained' => session[s].old \/ ~UnderWay(s)
    /\ strained' \in SUBSET Sessions /\ strained \subseteq strained'
    /\ jar' \in [Devices -> MaybeSession]
    /\ \A d \in Devices : jar'[d] \in {jar[d], NoSession}
    /\ req' \in [Requests -> ReqRow]
    /\ \A p \in Requests : req'[p] \in {req[p], NoReq}

LEMMA WindsKeeps ==
    ASSUME SessionsInv, Winds
    PROVE  SessionsInv'
<1> USE DEF SessionsInv
<1>t. Typed
  BY TypesUnpacked
<1>s. NoSession \notin Sessions
  BY SomeSession
<1>1. SessionsTypeOK'
  <2>1. \A p \in Requests : Shaped(req'[p])
    BY <1>t, <1>s DEF Winds, Typed, Shaped, NoReq
  <2> QED
    BY <2>1, TypesUnpackedNext DEF Winds, Typed, Shaped
<1>2. \A p \in Requests : req'[p].pc # "idle" => req'[p] = req[p] /\ req[p].pc # "idle"
  BY DEF Winds, NoReq
<1>3. \A p \in Requests : req'[p].new \in Sessions => req'[p] = req[p]
  BY <1>s DEF Winds, NoReq
<1>4. \A s \in Sessions : Held(s)' => Held(s)
  BY <1>2, <1>s DEF Held, UnderWay, Winds
<1>5. \A s \in Sessions : Heirs(s)' = Heirs(s)
  BY DEF Heirs, Winds
<1>6. \A t \in Sessions : HeirsUnheld(t) => HeirsUnheld(t)'
  BY <1>4 DEF HeirsUnheld, Winds, ClosedStatus
<1>7. RowFine'
  <2>1. \A s \in Sessions : Lost(s)'
    BY <1>3, <1>4, <1>t DEF RowFine, Lost, Winds, ClosedStatus
  <2>2. \A s \in Sessions : session[s].from \in MaybeSession
    BY <1>t DEF Typed, Row
  <2>3. \A s \in Sessions : Status(s)' = "none" => session'[s] = NoRow
    BY DEF RowFine, Winds, ClosedStatus
  <2>4. \A s \in Sessions : Status(s)' = "rotated" => Heirs(s)' # {}
    BY <1>5 DEF RowFine, Winds, ClosedStatus
  <2>5. ASSUME NEW s \in Sessions, NEW t \in Sessions, session'[s].from = t
        PROVE  Status(t)' = "rotated"
    <3>1. session[s].from = t /\ Status(t) = "rotated"
      BY <2>5, <1>s DEF Winds, RowFine
    <3> QED
      BY <3>1 DEF Winds, ClosedStatus
  <2>6. \A s \in Sessions : session'[s].from \in MaybeSession
    BY <2>2 DEF Winds
  <2> QED
    BY <2>1, <2>3, <2>4, <2>5, <2>6 DEF RowFine, MaybeSession, Status
<1>8. JarFine'
  <2>1. ASSUME NEW d \in Devices, NEW t \in Sessions, jar'[d] = t
        PROVE  /\ Status(t)' # "none"
               /\ \A e \in Devices : jar'[e] = t => e = d
               /\ HeirsUnheld(t)'
    <3>1. jar[d] = t /\ t # NoSession
      BY <2>1, <1>s DEF Winds
    <3>2. Status(t) # "none" /\ HeirsUnheld(t) /\ \A e \in Devices : jar[e] = t => e = d
      BY <3>1 DEF JarFine
    <3> QED
      BY <3>1, <3>2, <1>6 DEF Winds, ClosedStatus
  <2>2. \A d \in Devices : jar'[d] \in MaybeSession
    BY DEF Winds
  <2> QED
    BY <2>1, <2>2, JarFineNext
<1>9. ASSUME NEW p \in Requests, req'[p].pc # "idle" PROVE Sound(p)' /\ Alone(p)'
  <2>0. PICK t \in Sessions : t = req[p].token
    BY <1>9, <1>2, <1>t DEF Typed, Shaped
  <2>1. /\ req'[p] = req[p] /\ req[p].pc # "idle" /\ UnderWay(t)
        /\ SoundFor(req[p], t) /\ AloneFor(p, t)
    BY <1>9, <1>2, <2>0, SoundAndAlone DEF ReqFine, UnderWay
  <2>2. AloneFor(p, t)'
    <3> SUFFICES ASSUME session'[t].old, t \notin strained'
                 PROVE  /\ HeirsUnheld(t)'
                        /\ \A r \in Requests : req'[r].pc # "idle" /\ req'[r].token = t => r = p
      BY DEF AloneFor
    <3>1. session[t].old /\ t \notin strained
      BY <2>1 DEF Winds
    <3> QED
      BY <3>1, <2>1, <1>2, <1>6 DEF AloneFor
  <2>3. ExcusedFor(t) => ExcusedFor(t)'
    <3>1. \A h \in Sessions : Status(h) \in ClosedStatus => Status(h)' \in ClosedStatus
      BY DEF Winds, ClosedStatus
    <3>2. Ended(t) => Ended(t)'
      BY <3>1 DEF Ended, Winds
    <3> QED
      BY <3>1, <3>2, <1>5 DEF ExcusedFor, Winds, Heirs
  <2>r. PICK r \in ReqRow : r = req[p] /\ r = req'[p]
    BY <2>1, <1>t DEF Typed
  <2>4. SoundFor(r, t)'
    <3>0. SoundFor(r, t)
      BY <2>1, <2>r
    <3>1. \A h \in r.heirs : h \in Sessions
      BY DEF ReqRow
    <3>2. \A d \in Devices : jar'[d] = t => d = r.device
      BY <3>0, <1>s DEF Winds, SoundFor
    <3>3. r.pc = "replace" =>
            \A h \in r.heirs :
                /\ session'[h].from = t
                /\ t \notin strained' => Status(h)' \in {"live", "closed", "reuse"}
      BY <3>0, <3>1 DEF Winds, SoundFor, ClosedStatus
    <3> QED
      BY <3>0, <2>3, <3>2, <3>3 DEF SoundFor, Winds, ClosedStatus
  <2> QED
    BY <2>0, <2>1, <2>r, <2>2, <2>4, SoundAndAloneNext
<1>10. ASSUME NEW p \in Requests, req'[p].pc = "answered" PROVE AnswerFine(p)'
  <2>0. PICK n \in Sessions : n = req[p].new
    BY <1>10, <1>2, <1>t DEF Typed, Shaped
  <2>1. req'[p] = req[p] /\ AnswerFor(p, req[p].token, n)
    BY <1>10, <1>2, <2>0 DEF ReqFine, AnswerFine
  <2>2. \A r \in Requests : req'[r].new = n => r = p
    BY <2>1, <1>3 DEF AnswerFor
  <2> QED
    BY <2>0, <2>1, <2>2, <1>4, AnswerNext DEF AnswerFor, Winds, ClosedStatus
<1> QED
  BY <1>1, <1>7, <1>8, <1>9, <1>10 DEF ReqFine

(* Closing the sessions of S is one of these.                              *)
LEMMA ClosingRows ==
    ASSUME Typed, NEW S, NEW reason \in ClosedStatus
    PROVE  LET f == Revoked(S, reason) IN
           /\ f \in [Sessions -> Row]
           /\ \A s \in Sessions :
                /\ f[s].from = session[s].from /\ f[s].old = session[s].old
                /\ f[s].expired = session[s].expired
                /\ f[s].status = Status(s) \/ (Status(s) = "live" /\ f[s].status \in ClosedStatus)
                /\ Status(s) = "none" => f[s] = session[s]
<1>1. reason \in SessionStatus
  BY DEF ClosedStatus, SessionStatus
<1>2. \A s \in Sessions : session[s] \in Row
  BY DEF Typed
<1> DEFINE f == Revoked(S, reason)
<1>3. /\ f \in [Sessions -> Row]
      /\ \A s \in Sessions : \/ f[s] = session[s]
                             \/ Status(s) = "live" /\ f[s] = [session[s] EXCEPT !.status = reason]
  BY <1>1, RevokedRows DEF Typed, Live
<1> HIDE DEF f
<1>4. ASSUME NEW s \in Sessions
      PROVE  /\ f[s].from = session[s].from /\ f[s].old = session[s].old
             /\ f[s].expired = session[s].expired
             /\ f[s].status = Status(s) \/ (Status(s) = "live" /\ f[s].status \in ClosedStatus)
             /\ Status(s) = "none" => f[s] = session[s]
  BY <1>2, <1>3 DEF Row, Status
<1> QED
  BY <1>3, <1>4 DEF f

LEMMA ClosingWinds ==
    ASSUME Typed, NEW S, NEW reason \in ClosedStatus, session' = Revoked(S, reason),
           UNCHANGED strained,
           jar' \in [Devices -> MaybeSession], \A d \in Devices : jar'[d] \in {jar[d], NoSession},
           req' \in [Requests -> ReqRow], \A p \in Requests : req'[p] \in {req[p], NoReq}
    PROVE  Winds
BY ClosingRows DEF Winds, Typed, Status

LEMMA RequestEnds ==
    ASSUME Typed, NEW q \in Requests, EndRequest(q)
    PROVE  req' \in [Requests -> ReqRow] /\ \A p \in Requests : req'[p] \in {req[p], NoReq}
BY EndOne DEF OneRequest, Typed

LEMMA RevokeAllWinds ==
    ASSUME Typed, NEW q \in Requests, RevokeAll(q)
    PROVE  Winds
<1>1. "reuse" \in ClosedStatus
  BY DEF ClosedStatus
<1> QED
  BY <1>1, RequestEnds, ClosingWinds DEF RevokeAll, Typed

LEMMA LoseWinds ==
    ASSUME Typed, NEW q \in Requests, EndRequest(q), UNCHANGED <<session, jar, strained>>
    PROVE  Winds
BY RequestEnds DEF Winds, Typed, Status

LEMMA UserWinds ==
    ASSUME Typed, NEW d \in Devices, Logout(d) \/ LogoutAll(d) \/ RevokeOthers(d)
    PROVE  Winds
<1>1. "closed" \in ClosedStatus
  BY DEF ClosedStatus
<1>2. \A p \in Requests : req[p] \in {req[p], NoReq}
  OBVIOUS
<1>3. /\ jar' \in [Devices -> MaybeSession]
      /\ \A e \in Devices : jar'[e] \in {jar[e], NoSession}
  BY DEF Logout, LogoutAll, RevokeOthers, Typed, MaybeSession
<1>4. UNCHANGED <<req, strained>>
  BY DEF Logout, LogoutAll, RevokeOthers
<1>5. PICK S : session' = Revoked(S, "closed")
  BY DEF Logout, LogoutAll, RevokeOthers
<1> QED
  BY <1>1, <1>2, <1>3, <1>4, <1>5, ClosingWinds DEF Typed

LEMMA ClosesWinds ==
    ASSUME Typed, RevokeAllForUser \/ \E s \in Sessions : RevokeOwn(s)
    PROVE  Winds
<1>1. "closed" \in ClosedStatus
  BY DEF ClosedStatus
<1>2. UNCHANGED <<jar, req, strained>>
  BY DEF RevokeAllForUser, RevokeOwn
<1>3. PICK S : session' = Revoked(S, "closed")
  BY DEF RevokeAllForUser, RevokeOwn
<1> QED
  BY <1>1, <1>2, <1>3, ClosingWinds DEF Typed

LEMMA TimeWinds ==
    ASSUME Typed, NEW s \in Sessions, GracePasses(s) \/ Expire(s)
    PROVE  Winds
<1>1. session[s] \in Row
  BY DEF Typed
<1>2. CASE GracePasses(s)
  <2>1. /\ session' \in [Sessions -> Row]
        /\ session'[s] = [session[s] EXCEPT !.old = TRUE]
        /\ \A x \in Sessions \ {s} : session'[x] = session[x]
    BY <1>1, <1>2 DEF GracePasses, Typed, Row
  <2>2. strained' \in SUBSET Sessions /\ strained \subseteq strained'
    BY <1>2 DEF GracePasses, Typed
  <2>3. UnderWay(s) => s \in strained'
    BY <1>2 DEF GracePasses
  <2> QED
    BY <1>1, <1>2, <2>1, <2>2, <2>3 DEF GracePasses, Winds, Typed, Status, Row
<1>3. CASE Expire(s)
  <2>1. /\ session' \in [Sessions -> Row]
        /\ session'[s] = [session[s] EXCEPT !.expired = TRUE]
        /\ \A x \in Sessions \ {s} : session'[x] = session[x]
    BY <1>1, <1>3 DEF Expire, Typed, Row
  <2> QED
    BY <1>1, <1>3, <2>1 DEF Expire, Winds, Typed, Status, Row
<1> QED
  BY <1>2, <1>3

-----------------------------------------------------------------------------
(* Nobody knows a row that does not exist yet.                             *)
LEMMA FreshUnknown ==
    ASSUME SessionsInv, NEW n \in Fresh
    PROVE  /\ n \in Sessions /\ session[n] = NoRow /\ Status(n) = "none"
           /\ ~Held(n)
           /\ \A s \in Sessions : session[s].from # n
           /\ \A p \in Requests : req[p].new # n
<1> USE DEF SessionsInv
<1>1. n \in Sessions /\ Status(n) = "none" /\ n # NoSession
  BY SomeSession DEF Fresh
<1>2. session[n] = NoRow
  BY <1>1 DEF RowFine
<1>3. \A s \in Sessions : session[s].from # n
  BY <1>1 DEF RowFine
<1>4. ASSUME NEW p \in Requests, req[p].new = n PROVE FALSE
  <2>1. req[p].pc = "answered"
    BY <1>1, <1>4, TypesUnpacked DEF Typed, Shaped
  <2>2. AnswerFor(p, req[p].token, n)
    BY <2>1, <1>4 DEF ReqFine, AnswerFine
  <2> QED
    BY <2>2, <1>1 DEF AnswerFor
<1>5. ASSUME NEW p \in Requests, req[p].pc # "idle", req[p].token = n PROVE FALSE
  <2>1. SoundFor(req[p], n)
    BY <1>5 DEF ReqFine, Sound
  <2> QED
    BY <2>1, <1>1 DEF SoundFor
<1>6. \A d \in Devices : jar[d] # n
  BY <1>1 DEF JarFine
<1> QED
  BY <1>1, <1>2, <1>3, <1>4, <1>5, <1>6 DEF Held, UnderWay

-----------------------------------------------------------------------------
(* A request is answered with a new session made of its token: the token   *)
(* is claimed, or gets a sibling, or the heirs nobody received make way.   *)
Claims(q, S, reason) ==
    /\ req[q].pc = "claim" /\ Live(req[q].token)
    /\ S = {req[q].token} /\ reason = "rotated"
Forks(q, S)          == req[q].pc = "fork" /\ S = {}
Replaces(q, S, reason) ==
    /\ req[q].pc = "replace" /\ S = req[q].heirs /\ reason = "lost_response"

LEMMA AnswersKeep ==
    ASSUME SessionsInv, NEW q \in Requests, NEW n \in Fresh, NEW t, t = req[q].token,
           NEW S \in SUBSET Sessions, NEW reason \in {"rotated", "lost_response"},
           Claims(q, S, reason) \/ Forks(q, S) \/ Replaces(q, S, reason),
           session' = Created(Revoked(S, reason), n, t), Answer(q, n), UNCHANGED <<jar, strained>>
    PROVE  SessionsInv'
<1> USE DEF SessionsInv
<1>t. Typed
  BY TypesUnpacked
<1>s. NoSession \notin Sessions
  BY SomeSession
<1>p. req[q].pc \in {"claim", "fork", "replace"}
  BY DEF Claims, Forks, Replaces
<1>q. /\ t \in Sessions /\ UnderWay(t) /\ Held(t)
      /\ SoundFor(req[q], t) /\ AloneFor(q, t)
  <2>1. t \in Sessions /\ req[q].pc # "idle"
    BY <1>t, <1>p DEF Typed, Shaped
  <2> QED
    BY <2>1, SoundAndAlone DEF ReqFine, UnderWay, Held
<1>n. /\ n \in Sessions /\ session[n] = NoRow /\ Status(n) = "none" /\ ~Held(n)
      /\ \A s \in Sessions : session[s].from # n
      /\ \A p \in Requests : req[p].new # n
  BY FreshUnknown
<1>nt. n # t
  BY <1>n, <1>q
(* The rows.                                                               *)
<1>1. /\ session' \in [Sessions -> Row]
      /\ session'[n] = [status |-> "live", from |-> t, old |-> FALSE, expired |-> FALSE]
      /\ \A s \in Sessions \ {n} :
            \/ session'[s] = session[s] /\ ~(s \in S /\ Status(s) = "live")
            \/ /\ s \in S /\ Status(s) = "live"
               /\ session'[s] = [session[s] EXCEPT !.status = reason]
  <2>1. reason \in SessionStatus
    BY DEF SessionStatus
  <2> DEFINE f == Revoked(S, reason)
  <2>2. /\ f \in [Sessions -> Row]
        /\ \A s \in Sessions : \/ f[s] = session[s] /\ ~(s \in S /\ Status(s) = "live")
                               \/ /\ s \in S /\ Status(s) = "live"
                                  /\ f[s] = [session[s] EXCEPT !.status = reason]
    BY <1>t, <2>1, RevokedRows DEF Typed, Live
  <2> HIDE DEF f
  <2>3. t \in MaybeSession
    BY <1>q DEF MaybeSession
  <2>4. session' = Created(f, n, t)
    BY DEF f
  <2> QED
    BY <2>2, <2>3, <2>4, <1>n, CreatedRows
<1>2. \A s \in Sessions : session[s] \in Row
  BY <1>t DEF Typed
<1>3. ASSUME NEW s \in Sessions \ {n}
      PROVE  /\ session'[s].from = session[s].from /\ session'[s].old = session[s].old
             /\ session'[s].expired = session[s].expired
             /\ \/ Status(s)' = Status(s) /\ ~(s \in S /\ Status(s) = "live")
                \/ s \in S /\ Status(s) = "live" /\ Status(s)' = reason
             /\ Status(s) = "none" => session'[s] = session[s]
  BY <1>1, <1>2 DEF Status, Row
<1>4. Status(n)' = "live" /\ session'[n].from = t /\ ~session'[n].old
  BY <1>1 DEF Status
<1>5. Status(t)' = "rotated"
  <2>1. CASE Claims(q, S, reason)
    BY <2>1, <1>3, <1>nt, <1>q DEF Claims, Live
  <2>2. CASE req[q].pc \in {"fork", "replace"}
    <3>1. Status(t) = "rotated"
      BY <2>2, <1>q DEF SoundFor
    <3> QED
      BY <3>1, <1>3, <1>nt, <1>q
  <2> QED
    BY <2>1, <2>2 DEF Forks, Replaces
(* Which rows change.                                                      *)
<1>6. \A s \in S : Status(s) = "live" =>
        \/ s = t /\ reason = "rotated"
        \/ req[q].pc = "replace" /\ session[s].from = t /\ s # t /\ reason = "lost_response"
  <2>1. CASE Claims(q, S, reason)
    BY <2>1 DEF Claims
  <2>2. CASE Forks(q, S)
    BY <2>2 DEF Forks
  <2>3. CASE Replaces(q, S, reason)
    <3>1. Status(t) = "rotated"
      BY <2>3, <1>q DEF SoundFor, Replaces
    <3> QED
      BY <2>3, <3>1, <1>q DEF Replaces, SoundFor
  <2> QED
    BY <2>1, <2>2, <2>3
(* The requests.                                                           *)
<1>7. OneRequest(q, [req[q] EXCEPT !.pc = "answered", !.new = n])
  BY <1>t, <1>n, AnswerOne DEF Typed
<1>8. /\ req' \in [Requests -> ReqRow]
      /\ req'[q].pc = "answered" /\ req'[q].new = n /\ req'[q].token = t
      /\ req'[q].device = req[q].device
      /\ \A p \in Requests \ {q} : req'[p] = req[p]
  <2>1. req[q] \in ReqRow
    BY <1>t DEF Typed
  <2> QED
    BY <1>7, <2>1 DEF OneRequest, ReqRow
<1>9. \A p \in Requests : /\ req'[p].token = req[p].token
                          /\ req'[p].pc # "idle" <=> req[p].pc # "idle"
  BY <1>8, <1>p
<1>10. \A s \in Sessions : Held(s)' = Held(s)
  BY <1>9 DEF Held, UnderWay
<1>11. \A s \in Sessions \ {n} : s \notin S \/ Status(s) # "live" => Status(s)' = Status(s)
  BY <1>3
<1>12. ASSUME NEW s \in Sessions \ {n}, Held(s), s # t,
              ~(session[s].from = t /\ req[q].pc = "replace")
       PROVE  Status(s)' = Status(s)
  BY <1>12, <1>3, <1>6
<1>13. \A x \in Sessions : Heirs(x)' = IF x = t THEN Heirs(x) \cup {n} ELSE Heirs(x)
  BY <1>3, <1>4, <1>n, <1>s, <1>q DEF Heirs, NoRow
<1>14. ASSUME NEW x \in Sessions, HeirsUnheld(x) PROVE HeirsUnheld(x)'
  <2> SUFFICES ASSUME NEW h \in Sessions, session'[h].from = x
               PROVE  ~Held(h) /\ Status(h)' # "rotated"
    BY <1>10 DEF HeirsUnheld
  <2>1. CASE h = n
    BY <2>1, <1>4, <1>n
  <2>2. CASE h # n
    <3>1. ~Held(h) /\ Status(h) # "rotated" /\ h # t
      BY <2>2, <1>3, <1>14, <1>q DEF HeirsUnheld
    <3> QED
      BY <3>1, <2>2, <1>3, <1>6
  <2> QED
    BY <2>1, <2>2
<1>15. SessionsTypeOK'
  <2>1. Shaped(req[q])
    BY <1>t DEF Typed
  <2>2. req[q] \in ReqRow
    BY <1>t DEF Typed
  <2>3. Shaped(req'[q])
    BY <2>1, <1>8, <1>n, <1>q, <1>p, <2>2 DEF Shaped, NoReq
  <2> QED
    BY <2>3, <1>t, <1>1, <1>7, <1>8, TypesUnpackedNext DEF Typed
<1>16. RowFine'
  <2>1. \A s \in Sessions : Status(s)' = "none" => session'[s] = NoRow
    BY <1>3, <1>4 DEF RowFine
  <2>2. \A s \in Sessions : Status(s)' = "rotated" => Heirs(s)' # {}
    <3>1. \A s \in Sessions \ {n, t} : Status(s)' = "rotated" => Status(s) = "rotated"
      BY <1>3, <1>6
    <3> QED
      BY <3>1, <1>4, <1>13, <1>q DEF RowFine
  <2>3. ASSUME NEW s \in Sessions, NEW x \in Sessions, session'[s].from = x
        PROVE  Status(x)' = "rotated"
    <3>1. CASE s = n
      BY <3>1, <2>3, <1>4, <1>5
    <3>2. CASE s # n
      <4>1. session[s].from = x /\ x # n /\ Status(x) = "rotated"
        BY <3>2, <2>3, <1>3, <1>n, <1>s DEF RowFine
      <4> QED
        BY <4>1, <1>3
    <3> QED
      BY <3>1, <3>2
  <2>4. ASSUME NEW s \in Sessions PROVE Lost(s)'
    <3> SUFFICES ASSUME Status(s)' = "lost_response", session'[s].from \notin strained
                 PROVE  ~Held(s) /\ \A p \in Requests : req'[p].new # s
      BY <1>10 DEF Lost
    <3>1. s # n
      BY <1>4
    <3>2. ~Held(s) /\ \A p \in Requests : req[p].new # s
      <4>1. CASE Status(s) = "lost_response"
        BY <4>1, <3>1, <1>3 DEF RowFine, Lost
      <4>2. CASE Status(s) # "lost_response"
        <5>1. req[q].pc = "replace" /\ session[s].from = t
          BY <4>2, <3>1, <1>3, <1>6
        <5>2. session[t].old /\ t \notin strained
          BY <5>1, <3>1, <1>3, <1>q DEF SoundFor
        <5>3. ~Held(s) /\ \A p \in Requests : req[p].pc # "idle" /\ req[p].token = t => p = q
          BY <5>1, <5>2, <1>q DEF AloneFor, HeirsUnheld
        <5>4. ASSUME NEW p \in Requests, req[p].new = s PROVE FALSE
          <6>1. req[p].pc = "answered" /\ AnswerFor(p, req[p].token, s)
            BY <5>4, <1>t DEF Typed, Shaped, ReqFine, AnswerFine
          <6>2. req[p].token = t
            BY <6>1, <5>1 DEF AnswerFor
          <6> QED
            BY <6>1, <6>2, <5>1, <5>3
        <5> QED
          BY <5>3, <5>4
      <4> QED
        BY <4>1, <4>2
    <3> QED
      BY <3>1, <3>2, <1>8
  <2>5. \A s \in Sessions : session'[s].from \in MaybeSession
    BY <1>1 DEF Row
  <2> QED
    BY <2>1, <2>2, <2>3, <2>4, <2>5 DEF RowFine, MaybeSession, Status
<1>17. JarFine'
  <2>1. ASSUME NEW d \in Devices, NEW x \in Sessions, jar'[d] = x
        PROVE  /\ Status(x)' # "none"
               /\ \A e \in Devices : jar'[e] = x => e = d
               /\ HeirsUnheld(x)'
    <3>1. jar[d] = x /\ x # NoSession
      BY <2>1, <1>s
    <3>2. Status(x) # "none" /\ HeirsUnheld(x) /\ \A e \in Devices : jar[e] = x => e = d
      BY <3>1 DEF JarFine
    <3>3. x # n
      BY <3>2, <1>n
    <3> QED
      BY <3>1, <3>2, <3>3, <1>3, <1>14
  <2> QED
    BY <2>1, <1>t, JarFineNext DEF Typed
<1>18. ASSUME NEW p \in Requests, req'[p].pc # "idle" PROVE Sound(p)' /\ Alone(p)'
  <2>0. PICK x \in Sessions : x = req[p].token
    BY <1>18, <1>9, <1>t DEF Typed, Shaped
  <2>1. SoundFor(req[p], x) /\ AloneFor(p, x) /\ Held(x)
    BY <1>18, <1>9, <2>0, SoundAndAlone DEF ReqFine, UnderWay, Held
  <2>2. x # n /\ Status(x) # "none"
    BY <2>1, <1>n DEF SoundFor
  <2>3. AloneFor(p, x)'
    BY <2>1, <2>2, <1>3, <1>9, <1>14 DEF AloneFor
  <2>4. PICK r \in ReqRow : r = req'[p]
    BY <1>8
  <2>5. SoundFor(r, x)'
    <3>1. CASE p = q
      BY <3>1, <2>0, <2>1, <2>4, <1>5, <1>8, <1>q DEF SoundFor
    <3>2. CASE p # q
      <4>0. r = req[p] /\ SoundFor(r, x)
        BY <3>2, <2>1, <2>4, <1>8
      <4>1. Status(x)' # "none" /\ (Status(x) = "rotated" => Status(x)' = "rotated")
            /\ (Status(x) # "live" => Status(x)' # "live")
            /\ session'[x].old = session[x].old
        BY <2>2, <1>3
      <4>2. r.pc = "accuse" => ExcusedFor(x)'
        <5>1. r.pc = "accuse" => ExcusedFor(x)
          BY <4>0 DEF SoundFor
        <5>2. \A s \in Sessions \ {n} : Status(s) \in ClosedStatus => Status(s)' \in ClosedStatus
          BY <1>3 DEF ClosedStatus
        <5>3. Ended(x) => Ended(x)'
          BY <5>2, <2>2, <1>3 DEF Ended
        <5>4. \A h \in Heirs(x) : h # n /\ h \in Sessions /\ h \in Heirs(x)'
          BY <1>13, <1>n, <1>s, <2>0 DEF Heirs, NoRow
        <5>5. session'[x].from = session[x].from
          BY <2>2, <1>3
        <5> QED
          BY <5>1, <5>2, <5>3, <5>4, <5>5 DEF ExcusedFor
      <4>3. ASSUME r.pc = "replace", NEW h \in r.heirs
            PROVE  /\ session'[h].from = x
                   /\ x \notin strained => Status(h)' \in {"live", "closed", "reuse"}
        <5>1. h \in Sessions /\ session[h].from = x /\ h # n
          BY <4>0, <4>3, <1>n, <1>s DEF ReqRow, SoundFor, NoRow
        <5>2. ASSUME x \notin strained PROVE Status(h)' = Status(h)
          <6>1. session[x].old
            BY <4>0, <4>3 DEF SoundFor
          <6>2. ~Held(h) /\ \A o \in Requests : req[o].pc # "idle" /\ req[o].token = x => o = p
            BY <5>1, <5>2, <6>1, <2>1 DEF AloneFor, HeirsUnheld
          <6>3. h # t
            BY <6>2, <1>q
          <6>4. x # t
            BY <6>2, <3>2, <1>q, <1>p
          <6> QED
            BY <5>1, <6>3, <6>4, <1>3, <1>6
        <5> QED
          BY <5>1, <5>2, <1>3, <4>0, <4>3 DEF SoundFor
      <4> QED
        BY <4>0, <4>1, <4>2, <4>3 DEF SoundFor
    <3> QED
      BY <3>1, <3>2
  <2> QED
    BY <2>0, <2>3, <2>4, <2>5, <1>9, SoundAndAloneNext
<1>19. ASSUME NEW p \in Requests, req'[p].pc = "answered" PROVE AnswerFine(p)'
  <2>1. CASE p = q
    <3>1. AnswerFor(q, t, n)'
      BY <1>4, <1>8, <1>10, <1>n DEF AnswerFor
    <3> QED
      BY <2>1, <3>1, <1>8, <1>n, AnswerNext
  <2>2. CASE p # q
    <3>0. req'[p] = req[p]
      BY <2>2, <1>8
    <3>1. PICK x \in Sessions, m \in Sessions : x = req[p].token /\ m = req[p].new
      BY <1>19, <3>0, <1>t DEF Typed, Shaped
    <3>2. AnswerFor(p, x, m) /\ m # n
      BY <1>19, <3>0, <3>1, <1>n DEF ReqFine, AnswerFine
    <3>3. m # t
      BY <3>2, <1>q DEF AnswerFor
    <3>4. Status(m)' \notin {"none", "rotated"}
      BY <3>2, <3>3, <1>3, <1>6 DEF AnswerFor
    <3>5. AnswerFor(p, x, m)'
      BY <3>1, <3>2, <3>4, <1>3, <1>8, <1>10 DEF AnswerFor
    <3> QED
      BY <3>0, <3>1, <3>5, AnswerNext
  <2> QED
    BY <2>1, <2>2
<1> QED
  BY <1>15, <1>16, <1>17, <1>18, <1>19 DEF ReqFine

(* The transactions that create a session.                                 *)
LEMMA CreatingSteps ==
    ASSUME SessionsInv, NEW q \in Requests, NEW n \in Fresh, Answer(q, n),
           UNCHANGED <<jar, strained>>,
           NEW t, t = req[q].token,
           \/ /\ req[q].pc = "claim" /\ Live(t)
              /\ session' = Created(Revoked({t}, "rotated"), n, t)
           \/ req[q].pc = "fork" /\ session' = Created(session, n, t)
           \/ /\ req[q].pc = "replace"
              /\ {h \in req[q].heirs : Live(h)} = req[q].heirs
              /\ session' = Created(Revoked({h \in req[q].heirs : Live(h)}, "lost_response"), n, t)
    PROVE  SessionsInv'
<1>t. Typed
  BY TypesUnpacked DEF SessionsInv
<1>1. CASE /\ req[q].pc = "claim" /\ Live(t)
           /\ session' = Created(Revoked({t}, "rotated"), n, t)
  <2>1. t \in Sessions
    BY <1>1, <1>t DEF Typed, Shaped
  <2>2. Claims(q, {t}, "rotated")
    BY <1>1 DEF Claims
  <2> QED
    BY <1>1, <2>1, <2>2, AnswersKeep
<1>2. CASE req[q].pc = "fork" /\ session' = Created(session, n, t)
  <2>1. Revoked({}, "rotated") = session
    BY <1>t DEF Revoked, Typed
  <2>2. Forks(q, {})
    BY <1>2 DEF Forks
  <2> QED
    BY <1>2, <2>1, <2>2, AnswersKeep
<1>3. CASE /\ req[q].pc = "replace"
           /\ {h \in req[q].heirs : Live(h)} = req[q].heirs
           /\ session' = Created(Revoked({h \in req[q].heirs : Live(h)}, "lost_response"), n, t)
  <2> DEFINE S == req[q].heirs
  <2>1. S \in SUBSET Sessions
    BY <1>t DEF Typed, ReqRow
  <2>2. Replaces(q, S, "lost_response")
    BY <1>3 DEF Replaces
  <2>3. session' = Created(Revoked(S, "lost_response"), n, t)
    BY <1>3
  <2> HIDE DEF S
  <2> QED
    BY <2>1, <2>2, <2>3, AnswersKeep
<1> QED
  BY <1>1, <1>2, <1>3

-----------------------------------------------------------------------------
(* A browser presents its token: it alone has it, and nobody has its heirs.*)
LEMMA PresentKeeps ==
    ASSUME SessionsInv, NEW q \in Requests, NEW d \in Devices, Present(q, d)
    PROVE  SessionsInv'
<1> USE DEF SessionsInv
<1>t. Typed
  BY TypesUnpacked
<1>s. NoSession \notin Sessions
  BY SomeSession
<1>1. PICK t \in Sessions : t = jar[d]
  BY <1>t DEF Present, Typed, MaybeSession
<1>2. /\ req[q].pc = "idle" /\ Status(t) # "none" /\ HeirsUnheld(t) /\ Held(t)
      /\ \A e \in Devices : jar[e] = t => e = d
  BY <1>1, <1>s DEF Present, JarFine, NoReq, Held
<1>3. /\ req' \in [Requests -> ReqRow]
      /\ req'[q] = [pc |-> "sent", device |-> d, token |-> t, heirs |-> {}, new |-> NoSession]
      /\ \A p \in Requests \ {q} : req'[p] = req[p]
  BY <1>1, <1>t DEF Present, Typed, ReqRow, ReqPc, NoReq, MaybeSession
<1>4. /\ strained' \in SUBSET Sessions /\ strained \subseteq strained'
      /\ session[t].old /\ UnderWay(t) => t \in strained'
      /\ UNCHANGED <<session, jar>>
  BY <1>1, <1>t DEF Present, Typed
<1>5. \A s \in Sessions : Held(s)' = Held(s)
  BY <1>1, <1>2, <1>3, <1>4 DEF Held, UnderWay
<1>6. \A s \in Sessions : HeirsUnheld(s)' = HeirsUnheld(s)
  BY <1>4, <1>5 DEF HeirsUnheld, Status
<1>7. SessionsTypeOK'
  <2>1. Shaped(req'[q])
    BY <1>3, <1>s DEF Shaped, NoReq
  <2> QED
    BY <2>1, <1>3, <1>4, <1>t, TypesUnpackedNext DEF Typed
<1>8. RowFine'
  <2>1. ASSUME NEW s \in Sessions PROVE Lost(s)'
    BY <1>3, <1>4, <1>5, <1>s DEF RowFine, Lost, Status
  <2>2. \A s \in Sessions : session[s].from \in MaybeSession
    BY <1>t DEF Typed, Row
  <2> QED
    BY <2>1, <2>2, <1>4 DEF RowFine, Status, Heirs
<1>9. JarFine'
  BY <1>4, <1>6, <1>t DEF JarFine, Status, Typed, MaybeSession
<1>10. ASSUME NEW p \in Requests, req'[p].pc # "idle" PROVE Sound(p)' /\ Alone(p)'
  <2>1. CASE p = q
    <3>1. AloneFor(p, t)'
      BY <2>1, <1>2, <1>3, <1>4, <1>6 DEF AloneFor, UnderWay
    <3>2. PICK r : r = req'[p] /\ r.pc = "sent" /\ r.device = d
      BY <2>1, <1>3
    <3>3. SoundFor(r, t)'
      BY <1>2, <1>4, <3>2 DEF SoundFor, Status
    <3>4. req'[p].token = t
      BY <2>1, <1>3
    <3> QED
      BY <3>1, <3>2, <3>3, <3>4, SoundAndAloneNext
  <2>2. CASE p # q
    <3>0. PICK x \in Sessions, r \in ReqRow : x = req[p].token /\ r = req[p] /\ r = req'[p]
      BY <2>2, <1>3, <1>10, <1>t DEF Typed, Shaped
    <3>1. SoundFor(r, x) /\ AloneFor(p, x) /\ r.pc # "idle"
      BY <3>0, <1>10, SoundAndAlone DEF ReqFine
    <3>2. SoundFor(r, x)'
      <4>1. ExcusedFor(x) => ExcusedFor(x)'
        BY <1>4 DEF ExcusedFor, Ended, Status, Heirs
      <4> QED
        BY <3>1, <4>1, <1>4 DEF SoundFor, Status
    <3>3. AloneFor(p, x)'
      <4>1. ASSUME session[x].old, x \notin strained' PROVE x # t
        BY <4>1, <3>0, <3>1, <1>4 DEF UnderWay
      <4> QED
        BY <3>1, <4>1, <1>3, <1>4, <1>6 DEF AloneFor
    <3> QED
      BY <3>0, <3>2, <3>3, SoundAndAloneNext
  <2> QED
    BY <2>1, <2>2
<1>11. ASSUME NEW p \in Requests, req'[p].pc = "answered" PROVE AnswerFine(p)'
  <2>1. p # q /\ req'[p] = req[p]
    BY <1>3, <1>11
  <2>2. PICK x \in Sessions, m \in Sessions : x = req[p].token /\ m = req[p].new
    BY <2>1, <1>11, <1>t DEF Typed, Shaped
  <2>3. AnswerFor(p, x, m)
    BY <2>1, <2>2, <1>11 DEF ReqFine, AnswerFine
  <2>4. AnswerFor(p, x, m)'
    BY <2>3, <1>3, <1>4, <1>5, <1>s DEF AnswerFor, Status
  <2> QED
    BY <2>1, <2>2, <2>4, AnswerNext
<1> QED
  BY <1>7, <1>8, <1>9, <1>10, <1>11 DEF ReqFine

-----------------------------------------------------------------------------
(* The answer arrives: the browser forgets its token and has the new one.  *)
LEMMA DeliverKeeps ==
    ASSUME SessionsInv, NEW q \in Requests, Deliver(q)
    PROVE  SessionsInv'
<1> USE DEF SessionsInv
<1>t. Typed
  BY TypesUnpacked
<1>s. NoSession \notin Sessions
  BY SomeSession
<1>1. PICK t \in Sessions, n \in Sessions, d \in Devices :
         t = req[q].token /\ n = req[q].new /\ d = req[q].device
  BY <1>t DEF Deliver, Typed, Shaped
<1>2. /\ req[q].pc = "answered" /\ SoundFor(req[q], t) /\ AloneFor(q, t) /\ AnswerFor(q, t, n)
  BY <1>1, SoundAndAlone DEF Deliver, ReqFine, AnswerFine
<1>3. /\ Status(t) = "rotated" /\ \A e \in Devices : jar[e] = t => e = d
      /\ Status(n) \notin {"none", "rotated"} /\ session[n].from = t /\ ~Held(n) /\ n # t
      /\ \A p \in Requests : req[p].new = n => p = q
  BY <1>1, <1>2 DEF SoundFor, AnswerFor
<1>4. /\ OneRequest(q, NoReq)
      /\ jar' \in [Devices -> MaybeSession] /\ jar'[d] = n
      /\ \A e \in Devices \ {d} : jar'[e] = jar[e]
      /\ UNCHANGED <<session, strained>>
  BY <1>1, <1>t, EndOne DEF Deliver, Typed, MaybeSession
<1>5. /\ req'[q] = NoReq /\ \A p \in Requests \ {q} : req'[p] = req[p]
      /\ NoReq.pc = "idle" /\ NoReq.new = NoSession
      /\ req' \in [Requests -> ReqRow]
  BY <1>4 DEF OneRequest, NoReq
<1>6. \A s \in Sessions \ {n} : Held(s)' => Held(s)
  BY <1>4, <1>5 DEF Held, UnderWay
<1>7. ASSUME NEW x \in Sessions, HeirsUnheld(x), x # t PROVE HeirsUnheld(x)'
  BY <1>3, <1>4, <1>6, <1>7 DEF HeirsUnheld, Status
<1>8. SessionsTypeOK'
  <2>1. Shaped(NoReq)
    BY <1>s DEF Shaped, NoReq
  <2> QED
    BY <2>1, <1>4, <1>t, MovedRequest DEF Typed
<1>9. RowFine'
  <2>1. ASSUME NEW s \in Sessions PROVE Lost(s)'
    <3>1. s = n => ~(Status(s) = "lost_response" /\ session[s].from \notin strained)
      BY <1>1 DEF RowFine, Lost
    <3>2. \A p \in Requests : req'[p].new = s => req[p].new = s
      BY <1>5, <1>s
    <3> QED
      BY <3>1, <3>2, <1>4, <1>6 DEF RowFine, Lost, Status
  <2>2. \A s \in Sessions : session[s].from \in MaybeSession
    BY <1>t DEF Typed, Row
  <2> QED
    BY <2>1, <2>2, <1>4 DEF RowFine, Status, Heirs
<1>10. JarFine'
  <2>1. ASSUME NEW e \in Devices, NEW x \in Sessions, jar'[e] = x
        PROVE  /\ Status(x)' # "none"
               /\ \A o \in Devices : jar'[o] = x => o = e
               /\ HeirsUnheld(x)'
    <3>1. CASE x = n
      <4>1. \A o \in Devices : jar[o] # n
        BY <1>3 DEF Held
      <4>2. \A h \in Sessions : session[h].from # n
        BY <1>3, <1>s DEF RowFine
      <4> QED
        BY <3>1, <4>1, <4>2, <2>1, <1>3, <1>4 DEF HeirsUnheld, Status
    <3>2. CASE x # n
      <4>1. e # d /\ jar[e] = x /\ x # NoSession
        BY <3>2, <2>1, <1>4, <1>s
      <4>2. Status(x) # "none" /\ HeirsUnheld(x) /\ \A o \in Devices : jar[o] = x => o = e
        BY <4>1 DEF JarFine
      <4>3. x # t
        BY <4>1, <1>3
      <4> QED
        BY <3>2, <4>1, <4>2, <4>3, <1>4, <1>7 DEF Status
    <3> QED
      BY <3>1, <3>2
  <2> QED
    BY <2>1, <1>4, JarFineNext
<1>11. ASSUME NEW p \in Requests, req'[p].pc # "idle" PROVE Sound(p)' /\ Alone(p)'
  <2>0. p # q /\ req'[p] = req[p] /\ req[p].pc # "idle"
    BY <1>5, <1>11
  <2>1. PICK x \in Sessions, r \in ReqRow : x = req[p].token /\ r = req[p]
    BY <2>0, <1>t DEF Typed, Shaped
  <2>2. SoundFor(r, x) /\ AloneFor(p, x) /\ Held(x)
    BY <2>0, <2>1, SoundAndAlone DEF ReqFine, Held, UnderWay
  <2>3. x # n
    BY <2>2, <1>3
  <2>4. SoundFor(r, x)'
    <3>1. ExcusedFor(x)' = ExcusedFor(x)
      BY <1>4 DEF ExcusedFor, Ended, Status, Heirs
    <3>2. \A e \in Devices : jar'[e] = x => jar[e] = x
      BY <2>3, <1>4
    <3> QED
      BY <2>2, <3>1, <3>2, <1>4 DEF SoundFor, Status
  <2>5. AloneFor(p, x)'
    <3>1. ASSUME session[x].old, x \notin strained PROVE x # t
      BY <3>1, <2>0, <2>2, <1>1, <1>2 DEF AloneFor
    <3>2. \A o \in Requests : req'[o].pc # "idle" => req'[o] = req[o]
      BY <1>5
    <3> QED
      BY <2>2, <3>1, <3>2, <1>4, <1>7 DEF AloneFor
  <2> QED
    BY <2>0, <2>1, <2>4, <2>5, SoundAndAloneNext
<1>12. ASSUME NEW p \in Requests, req'[p].pc = "answered" PROVE AnswerFine(p)'
  <2>0. p # q /\ req'[p] = req[p] /\ req[p].pc = "answered"
    BY <1>5, <1>12
  <2>1. PICK x \in Sessions, m \in Sessions : x = req[p].token /\ m = req[p].new
    BY <2>0, <1>t DEF Typed, Shaped
  <2>2. AnswerFor(p, x, m) /\ m # n
    BY <2>0, <2>1, <1>3 DEF ReqFine, AnswerFine
  <2>3. \A o \in Requests : req'[o].new = m => req[o].new = m
    BY <1>5, <1>s
  <2>4. AnswerFor(p, x, m)'
    BY <2>2, <2>3, <1>4, <1>6 DEF AnswerFor, Status
  <2> QED
    BY <2>0, <2>1, <2>4, AnswerNext
<1> QED
  BY <1>8, <1>9, <1>10, <1>11, <1>12 DEF ReqFine

(* A login: a session made of nothing, in a cookie that forgets the other. *)
LEMMA LoginKeeps ==
    ASSUME SessionsInv, NEW d \in Devices, Login(d)
    PROVE  SessionsInv'
<1> USE DEF SessionsInv
<1>t. Typed
  BY TypesUnpacked
<1>s. NoSession \notin Sessions
  BY SomeSession
<1>0. PICK n \in Fresh : /\ session' = Created(session, n, NoSession)
                         /\ jar' = [jar EXCEPT ![d] = n]
                         /\ UNCHANGED <<req, strained>>
  BY DEF Login
<1>1. /\ n \in Sessions /\ session[n] = NoRow /\ Status(n) = "none" /\ ~Held(n)
      /\ \A s \in Sessions : session[s].from # n
      /\ \A p \in Requests : req[p].new # n
  BY FreshUnknown
<1>2. /\ session' \in [Sessions -> Row]
      /\ Status(n)' = "live" /\ session'[n].from = NoSession
      /\ \A s \in Sessions \ {n} : session'[s] = session[s] /\ Status(s)' = Status(s)
  <2>1. NoSession \in MaybeSession
    BY DEF MaybeSession
  <2>2. /\ session' \in [Sessions -> Row]
        /\ session'[n] = [status |-> "live", from |-> NoSession, old |-> FALSE, expired |-> FALSE]
        /\ \A s \in Sessions \ {n} : session'[s] = session[s]
    BY <2>1, <1>0, <1>1, <1>t, CreatedRows DEF Typed
  <2> QED
    BY <2>2 DEF Status
<1>3. /\ jar' \in [Devices -> MaybeSession] /\ jar'[d] = n
      /\ \A e \in Devices \ {d} : jar'[e] = jar[e]
  BY <1>0, <1>1, <1>t DEF Typed, MaybeSession
<1>4. \A s \in Sessions \ {n} : Held(s)' => Held(s)
  BY <1>0, <1>3 DEF Held, UnderWay
<1>5. \A x \in Sessions : HeirsUnheld(x) => HeirsUnheld(x)'
  BY <1>2, <1>4, <1>s DEF HeirsUnheld
<1>6. \A x \in Sessions : Heirs(x)' = Heirs(x)
  BY <1>1, <1>2, <1>s DEF Heirs, NoRow
<1>7. SessionsTypeOK'
  BY <1>0, <1>2, <1>3, <1>t, TypesUnpackedNext DEF Typed
<1>8. RowFine'
  <2>1. ASSUME NEW s \in Sessions PROVE Lost(s)'
    BY <1>0, <1>2, <1>4 DEF RowFine, Lost
  <2>2. \A s \in Sessions : session'[s].from \in MaybeSession
    BY <1>2 DEF Row
  <2>3. ASSUME NEW s \in Sessions, NEW x \in Sessions, session'[s].from = x
        PROVE  Status(x)' = "rotated"
    <3>1. session[s].from = x /\ x # n
      BY <2>3, <1>1, <1>2, <1>s
    <3> QED
      BY <3>1, <1>2, <1>s DEF RowFine
  <2> QED
    BY <2>1, <2>2, <2>3, <1>2, <1>6 DEF RowFine, MaybeSession, Status
<1>9. JarFine'
  <2>1. ASSUME NEW e \in Devices, NEW x \in Sessions, jar'[e] = x
        PROVE  /\ Status(x)' # "none"
               /\ \A o \in Devices : jar'[o] = x => o = e
               /\ HeirsUnheld(x)'
    <3>1. CASE x = n
      <4>1. \A o \in Devices : jar[o] # n
        BY <1>1 DEF Held
      <4>2. \A h \in Sessions : session'[h].from # n
        BY <1>1, <1>2, <1>s
      <4> QED
        BY <3>1, <4>1, <4>2, <2>1, <1>2, <1>3 DEF HeirsUnheld
    <3>2. CASE x # n
      <4>1. e # d /\ jar[e] = x /\ x # NoSession
        BY <3>2, <2>1, <1>3, <1>s
      <4>2. Status(x) # "none" /\ HeirsUnheld(x) /\ \A o \in Devices : jar[o] = x => o = e
        BY <4>1 DEF JarFine
      <4> QED
        BY <3>2, <4>1, <4>2, <1>2, <1>3, <1>5
    <3> QED
      BY <3>1, <3>2
  <2> QED
    BY <2>1, <1>3, JarFineNext
<1>10. ASSUME NEW p \in Requests, req'[p].pc # "idle" PROVE Sound(p)' /\ Alone(p)'
  <2>0. req'[p] = req[p] /\ req[p].pc # "idle"
    BY <1>0, <1>10
  <2>1. PICK x \in Sessions, r \in ReqRow : x = req[p].token /\ r = req[p]
    BY <2>0, <1>t DEF Typed, Shaped
  <2>2. SoundFor(r, x) /\ AloneFor(p, x) /\ Held(x)
    BY <2>0, <2>1, SoundAndAlone DEF ReqFine, Held, UnderWay
  <2>3. x # n
    BY <2>2, <1>1
  <2>4. SoundFor(r, x)'
    <3>1. ExcusedFor(x) => ExcusedFor(x)'
      <4>1. \A h \in Heirs(x) : h \in Sessions /\ h # n
        BY <2>1, <1>1, <1>s DEF Heirs, NoRow
      <4> QED
        BY <2>3, <4>1, <1>0, <1>2, <1>6 DEF ExcusedFor, Ended
    <3>2. \A e \in Devices : jar'[e] = x => jar[e] = x
      BY <2>3, <1>3
    <3>3. r.pc = "replace" => \A h \in r.heirs : h \in Sessions \ {n}
      BY <2>1, <2>2, <1>1, <1>s DEF SoundFor, ReqRow, NoRow
    <3> QED
      BY <2>2, <2>3, <3>1, <3>2, <3>3, <1>0, <1>2 DEF SoundFor
  <2>5. AloneFor(p, x)'
    BY <2>2, <2>3, <1>0, <1>2, <1>5 DEF AloneFor
  <2> QED
    BY <2>0, <2>1, <2>4, <2>5, SoundAndAloneNext
<1>11. ASSUME NEW p \in Requests, req'[p].pc = "answered" PROVE AnswerFine(p)'
  <2>0. req'[p] = req[p] /\ req[p].pc = "answered"
    BY <1>0, <1>11
  <2>1. PICK x \in Sessions, m \in Sessions : x = req[p].token /\ m = req[p].new
    BY <2>0, <1>t DEF Typed, Shaped
  <2>2. AnswerFor(p, x, m) /\ m # n
    BY <2>0, <2>1, <1>1 DEF ReqFine, AnswerFine
  <2>3. AnswerFor(p, x, m)'
    BY <2>1, <2>2, <1>0, <1>2, <1>4 DEF AnswerFor
  <2> QED
    BY <2>0, <2>1, <2>3, AnswerNext
<1> QED
  BY <1>7, <1>8, <1>9, <1>10, <1>11 DEF ReqFine

-----------------------------------------------------------------------------
(* What a request reads of its token leads it to a sound conclusion.       *)
Moved(q, pc) == [req[q] EXCEPT !.pc = pc]

LEMMA GoingKeeps ==
    ASSUME SessionsInv, NEW q \in Requests, NEW pc \in ReqPc \ {"idle", "answered"},
           Goto(q, pc), UNCHANGED <<session, jar, strained>>,
           req[q].pc \notin {"idle", "answered"},
           pc = "fork" => Status(req[q].token) = "rotated",
           pc = "recover" => Status(req[q].token) = "rotated" /\ session[req[q].token].old,
           pc = "raced" => Status(req[q].token) # "live",
           pc # "replace",
           pc = "accuse" => ExcusedFor(req[q].token)
    PROVE  SessionsInv'
<1>t. Typed
  BY TypesUnpacked DEF SessionsInv
<1>1. PICK t \in Sessions : t = req[q].token
  BY <1>t DEF Typed, Shaped
<1>2. SoundFor(req[q], t)
  BY <1>1, SoundAndAlone DEF SessionsInv, ReqFine
<1>3. req[q] \in ReqRow
  BY <1>t DEF Typed
<1>4. PICK r \in ReqRow : r = Moved(q, pc) /\ r.pc = pc /\ r.token = t
                           /\ r.device = req[q].device /\ r.new = req[q].new
  <2>1. Moved(q, pc) \in ReqRow
    BY <1>3 DEF Moved, ReqRow
  <2> QED
    BY <2>1, <1>1, <1>3 DEF Moved, ReqRow
<1>5. OneRequest(q, r)
  BY <1>t, <1>4, GotoOne DEF Typed, Moved
<1>6. SoundFor(r, t)
  BY <1>1, <1>2, <1>4 DEF SoundFor
<1> QED
  BY <1>1, <1>4, <1>5, <1>6, MovesOn

(* Somebody holds the judged token, so that it was not replaced as lost.   *)
LEMMA JudgedWell ==
    ASSUME SessionsInv, NEW q \in Requests, NEW t \in Sessions, t = req[q].token,
           req[q].pc # "idle", Status(t) # "live"
    PROVE  Status(t) = "rotated" \/ ExcusedFor(t)
<1>1. Status(t) \in SessionStatus
  BY TypesUnpacked DEF SessionsInv, Typed, Row, Status
<1>2. Status(t) # "none"
  BY SoundAndAlone DEF SessionsInv, ReqFine, SoundFor
<1>3. Held(t)
  BY DEF Held, UnderWay
<1>4. Status(t) = "lost_response" => session[t].from \in strained
  BY <1>3 DEF SessionsInv, RowFine, Lost
<1> QED
  BY <1>1, <1>2, <1>4 DEF SessionStatus, ExcusedFor, Ended, ClosedStatus

LEMMA JudgesKeep ==
    ASSUME SessionsInv, NEW q \in Requests, req[q].pc \notin {"idle", "answered"},
           Status(req[q].token) # "live",
           Goto(q, Judged(q)), UNCHANGED <<session, jar, strained>>
    PROVE  SessionsInv'
<1>1. PICK t \in Sessions : t = req[q].token
  BY TypesUnpacked DEF SessionsInv, Typed, Shaped
<1>2. Judged(q) \in {"accuse", "recover", "fork"}
  BY DEF Judged
<1>3. /\ Judged(q) = "accuse" => ExcusedFor(t)
      /\ Judged(q) \in {"fork", "recover"} => Status(t) = "rotated"
      /\ Judged(q) = "recover" => session[t].old
  BY <1>1, JudgedWell DEF Judged
<1> QED
  BY <1>1, <1>2, <1>3, GoingKeeps DEF ReqPc

LEMMA ReadKeeps ==
    ASSUME SessionsInv, NEW q \in Requests, Read(q) \/ ReadAgain(q)
    PROVE  SessionsInv'
<1>1. PICK t \in Sessions : t = req[q].token
  BY TypesUnpacked DEF SessionsInv, Typed, Shaped, Read, ReadAgain
<1>2. SoundFor(req[q], t)
  BY <1>1, SoundAndAlone DEF SessionsInv, ReqFine, Read, ReadAgain
<1>3. CASE Read(q) /\ session[t].expired
  <2>1. Goto(q, "accuse") /\ ExcusedFor(t)
    BY <1>1, <1>3 DEF Read, ExcusedFor, Ended
  <2> QED
    BY <1>1, <1>3, <2>1, GoingKeeps DEF Read, ReqPc
<1>4. CASE Read(q) /\ ~session[t].expired /\ Live(t)
  <2>1. Goto(q, "claim")
    BY <1>1, <1>4 DEF Read
  <2> QED
    BY <1>4, <2>1, GoingKeeps DEF Read, ReqPc
<1>5. CASE Read(q) /\ ~session[t].expired /\ ~Live(t)
  BY <1>1, <1>5, JudgesKeep DEF Read, Live
<1>6. CASE ReadAgain(q)
  BY <1>1, <1>2, <1>6, JudgesKeep DEF ReadAgain, SoundFor
<1> QED
  BY <1>3, <1>4, <1>5, <1>6

LEMMA ClaimKeeps ==
    ASSUME SessionsInv, NEW q \in Requests, Claim(q)
    PROVE  SessionsInv'
<1>1. CASE Live(req[q].token)
  BY <1>1, CreatingSteps DEF Claim
<1>2. CASE ~Live(req[q].token)
  BY <1>2, GoingKeeps DEF Claim, Live, ReqPc
<1> QED
  BY <1>1, <1>2

LEMMA ForkKeeps ==
    ASSUME SessionsInv, NEW q \in Requests, Fork(q)
    PROVE  SessionsInv'
<1>1. CASE EndRequest(q) /\ UNCHANGED session
  BY <1>1, TypesUnpacked, LoseWinds, WindsKeeps DEF Fork, SessionsInv
<1>2. CASE \E n \in Fresh : session' = Created(session, n, req[q].token) /\ Answer(q, n)
  BY <1>2, CreatingSteps DEF Fork
<1> QED
  BY <1>1, <1>2 DEF Fork

(* The heirs of a token that is not strained are nobody's, so that only    *)
(* the user can have closed them; one that was used is not among them.     *)
LEMMA FindHeirsKeeps ==
    ASSUME SessionsInv, NEW q \in Requests, FindHeirs(q)
    PROVE  SessionsInv'
<1>t. Typed
  BY TypesUnpacked DEF SessionsInv
<1>1. PICK t \in Sessions : t = req[q].token
  BY <1>t DEF Typed, Shaped, FindHeirs
<1>2. SoundFor(req[q], t) /\ AloneFor(q, t)
  BY <1>1, SoundAndAlone DEF SessionsInv, ReqFine, FindHeirs
<1>3. Status(t) = "rotated" /\ session[t].old /\ Heirs(t) # {}
  BY <1>1, <1>2 DEF SoundFor, FindHeirs, SessionsInv, RowFine
<1>4. \A h \in Heirs(t) : h \in Sessions /\ session[h].from = t
  BY DEF Heirs
<1>5. CASE \A h \in Heirs(t) : Status(h) \in {"live", "lost_response"}
  <2>1. req[q] \in ReqRow
    BY <1>t DEF Typed
  <2>2. PICK r \in ReqRow :
           /\ r = [req[q] EXCEPT !.pc = "replace", !.heirs = {h \in Heirs(t) : Live(h)}]
           /\ r.pc = "replace" /\ r.heirs = {h \in Heirs(t) : Live(h)}
           /\ r.token = t /\ r.device = req[q].device /\ r.new = req[q].new
    <3> DEFINE unused == {h \in Heirs(t) : Live(h)}
    <3>1. unused \in SUBSET Sessions
      BY <1>4
    <3> HIDE DEF unused
    <3>2. [req[q] EXCEPT !.pc = "replace", !.heirs = unused] \in ReqRow
      BY <2>1, <3>1 DEF ReqRow, ReqPc
    <3>3. LET r == [req[q] EXCEPT !.pc = "replace", !.heirs = unused]
          IN  /\ r.pc = "replace" /\ r.heirs = unused /\ r.token = t
              /\ r.device = req[q].device /\ r.new = req[q].new
      BY <2>1, <1>1 DEF ReqRow
    <3> QED
      BY <3>2, <3>3 DEF unused
  <2>3. OneRequest(q, r)
    <3>1. req' = [req EXCEPT ![q].pc = "replace", ![q].heirs = {h \in Heirs(t) : Live(h)}]
      BY <1>1, <1>3, <1>5 DEF FindHeirs
    <3> QED
      BY <3>1, <2>2, <1>t DEF OneRequest, Typed
  <2>4. SoundFor(r, t)
    <3>1. \A h \in r.heirs : session[h].from = t /\ Status(h) = "live"
      BY <2>2, <1>4 DEF Live
    <3> QED
      BY <2>2, <3>1, <1>2, <1>3 DEF SoundFor
  <2> QED
    BY <1>1, <2>2, <2>3, <2>4, MovesOn DEF FindHeirs
<1>6. CASE ~ \A h \in Heirs(t) : Status(h) \in {"live", "lost_response"}
  <2>1. Goto(q, "accuse")
    BY <1>1, <1>3, <1>6 DEF FindHeirs
  <2>2. ExcusedFor(t)
    <3>1. PICK h \in Sessions : h \in Heirs(t) /\ session[h].from = t
                                /\ Status(h) \notin {"live", "lost_response"}
      BY <1>4, <1>6
    <3>2. Status(h) \in SessionStatus
      BY <1>t DEF Typed, Row, Status
    <3>3. Status(h) # "none"
      BY <3>1, <1>1, SomeSession DEF SessionsInv, RowFine, NoRow
    <3>4. t \notin strained => Status(h) # "rotated"
      BY <3>1, <1>2, <1>3 DEF AloneFor, HeirsUnheld
    <3> QED
      BY <3>1, <3>2, <3>3, <3>4 DEF ExcusedFor, SessionStatus, ClosedStatus
  <2> QED
    BY <1>1, <2>1, <2>2, GoingKeeps DEF FindHeirs, ReqPc
<1> QED
  BY <1>5, <1>6

(* One of the heirs was closed since: the others make way, and the token   *)
(* is accused.                                                             *)
LEMMA MakeWayKeeps ==
    ASSUME SessionsInv, NEW q \in Requests, NEW t \in Sessions, t = req[q].token,
           req[q].pc = "replace", NEW S \in SUBSET req[q].heirs,
           session' = Revoked(S, "lost_response"), Goto(q, "accuse"), UNCHANGED <<jar, strained>>,
           ExcusedFor(t)
    PROVE  SessionsInv'
<1> USE DEF SessionsInv
<1>t. Typed
  BY TypesUnpacked
<1>s. NoSession \notin Sessions
  BY SomeSession
<1>q. /\ SoundFor(req[q], t) /\ AloneFor(q, t) /\ req[q] \in ReqRow
      /\ session[t].old /\ \A h \in S : h \in Sessions /\ session[h].from = t
  <2>1. SoundFor(req[q], t) /\ AloneFor(q, t) /\ req[q] \in ReqRow
    BY <1>t, SoundAndAlone DEF ReqFine, Typed
  <2> QED
    BY <2>1 DEF SoundFor, ReqRow
<1>1. /\ session' \in [Sessions -> Row]
      /\ \A s \in Sessions :
            /\ session'[s].from = session[s].from /\ session'[s].old = session[s].old
            /\ session'[s].expired = session[s].expired
            /\ \/ session'[s] = session[s]
               \/ s \in S /\ Status(s) = "live" /\ session'[s].status = "lost_response"
  <2> DEFINE f == Revoked(S, "lost_response")
  <2>1. "lost_response" \in SessionStatus
    BY DEF SessionStatus
  <2>2. /\ f \in [Sessions -> Row]
        /\ \A s \in Sessions : \/ f[s] = session[s]
                               \/ /\ s \in S /\ Status(s) = "live"
                                  /\ f[s] = [session[s] EXCEPT !.status = "lost_response"]
    BY <2>1, <1>t, RevokedRows DEF Typed, Live
  <2> HIDE DEF f
  <2>3. session' = f
    BY DEF f
  <2> QED
    BY <2>2, <2>3, <1>t DEF Typed, Row
<1>2. \A s \in Sessions :
        \/ Status(s)' = Status(s)
        \/ /\ Status(s) = "live" /\ Status(s)' = "lost_response" /\ session[s].from = t
           /\ t \notin strained => ~Held(s)
  BY <1>1, <1>q DEF Status, AloneFor, HeirsUnheld
<1>3. /\ req' \in [Requests -> ReqRow]
      /\ req'[q].pc = "accuse" /\ req'[q].token = t /\ req'[q].device = req[q].device
      /\ req'[q].new = req[q].new
      /\ \A p \in Requests \ {q} : req'[p] = req[p]
  <2>1. OneRequest(q, [req[q] EXCEPT !.pc = "accuse"])
    BY <1>t, GotoOne DEF Typed, ReqPc
  <2> QED
    BY <2>1, <1>q DEF OneRequest, ReqRow
<1>4. \A p \in Requests : /\ req'[p].token = req[p].token /\ req'[p].new = req[p].new
                          /\ req'[p].pc # "idle" <=> req[p].pc # "idle"
                          /\ req'[p].pc = "answered" <=> req[p].pc = "answered"
  BY <1>3
<1>5. \A s \in Sessions : Held(s)' = Held(s) /\ Heirs(s)' = Heirs(s)
  BY <1>1, <1>4 DEF Held, UnderWay, Heirs
<1>6. \A x \in Sessions : HeirsUnheld(x) => HeirsUnheld(x)'
  BY <1>1, <1>2, <1>5 DEF HeirsUnheld
<1>7. SessionsTypeOK'
  <2>1. \A p \in Requests : Shaped(req'[p])
    BY <1>3, <1>t, <1>s DEF Typed, Shaped, NoReq
  <2> QED
    BY <2>1, <1>1, <1>3, <1>t, TypesUnpackedNext DEF Typed
<1>8. \A p \in Requests : req[p].new \in Sessions =>
        req[p].pc = "answered" /\ AnswerFor(p, req[p].token, req[p].new)
  BY <1>t DEF Typed, Shaped, ReqFine, AnswerFine
<1>9. RowFine'
  <2>1. ASSUME NEW s \in Sessions PROVE Lost(s)'
    <3> SUFFICES ASSUME Status(s)' = "lost_response", session[s].from \notin strained
                 PROVE  ~Held(s) /\ \A p \in Requests : req[p].new # s
      BY <1>1, <1>4, <1>5 DEF Lost
    <3>1. CASE Status(s) = "lost_response"
      BY <3>1 DEF RowFine, Lost
    <3>2. CASE Status(s) # "lost_response"
      <4>1. session[s].from = t /\ ~Held(s)
        BY <3>2, <1>2
      <4>2. \A p \in Requests : req[p].pc # "idle" /\ req[p].token = t => p = q
        BY <4>1, <1>q DEF AloneFor
      <4> QED
        BY <4>1, <4>2, <1>8 DEF AnswerFor
    <3> QED
      BY <3>1, <3>2
  <2>2. \A s \in Sessions : session'[s].from \in MaybeSession
    BY <1>1 DEF Row
  <2>3. \A s \in Sessions : Status(s)' = "none" => session'[s] = NoRow
    BY <1>1, <1>2 DEF RowFine, Status
  <2>4. \A s \in Sessions : Status(s)' = "rotated" => Heirs(s)' # {}
    BY <1>2, <1>5 DEF RowFine
  <2>5. ASSUME NEW s \in Sessions, NEW x \in Sessions, session'[s].from = x
        PROVE  Status(x)' = "rotated"
    BY <2>5, <1>1, <1>2, <1>s DEF RowFine
  <2> QED
    BY <2>1, <2>2, <2>3, <2>4, <2>5 DEF RowFine, MaybeSession, Status
<1>10. JarFine'
  <2>1. ASSUME NEW d \in Devices, NEW x \in Sessions, jar'[d] = x
        PROVE  /\ Status(x)' # "none"
               /\ \A e \in Devices : jar'[e] = x => e = d
               /\ HeirsUnheld(x)'
    BY <2>1, <1>2, <1>6, <1>s DEF JarFine
  <2> QED
    BY <2>1, <1>t, JarFineNext DEF Typed
<1>11. ASSUME NEW x \in Sessions, ExcusedFor(x) PROVE ExcusedFor(x)'
  <2>1. \A h \in Sessions : Status(h) \in ClosedStatus => Status(h)' \in ClosedStatus
    BY <1>2 DEF ClosedStatus
  <2> QED
    BY <2>1, <1>1, <1>5, <1>11 DEF ExcusedFor, Ended, Heirs
<1>12. ASSUME NEW p \in Requests, req'[p].pc # "idle" PROVE Sound(p)' /\ Alone(p)'
  <2>0. PICK x \in Sessions : x = req[p].token
    BY <1>12, <1>4, <1>t DEF Typed, Shaped
  <2>1. SoundFor(req[p], x) /\ AloneFor(p, x)
    BY <1>12, <1>4, <2>0, SoundAndAlone DEF ReqFine
  <2>2. AloneFor(p, x)'
    BY <2>1, <1>1, <1>4, <1>6 DEF AloneFor
  <2>3. PICK r \in ReqRow : r = req'[p]
    BY <1>3
  <2>4. SoundFor(r, x)'
    <3>1. CASE p = q
      <4>1. r.pc = "accuse" /\ x = t /\ r.device = req[q].device
        BY <3>1, <2>0, <2>3, <1>3
      <4> QED
        BY <3>1, <4>1, <2>1, <1>2, <1>11 DEF SoundFor
    <3>2. CASE p # q
      <4>0. r = req[p] /\ SoundFor(r, x)
        BY <3>2, <2>1, <2>3, <1>3
      <4>1. ASSUME r.pc = "replace", NEW h \in r.heirs, x \notin strained
            PROVE  Status(h)' \in {"live", "closed", "reuse"}
        <5>1. h \in Sessions /\ session[h].from = x /\ session[x].old
              /\ Status(h) \in {"live", "closed", "reuse"}
          BY <4>0, <4>1 DEF ReqRow, SoundFor
        <5>2. x # t
          BY <5>1, <4>0, <4>1, <3>2, <2>0, <1>q DEF AloneFor
        <5> QED
          BY <5>1, <5>2, <1>2
      <4>2. \A h \in r.heirs : h \in Sessions
        BY DEF ReqRow
      <4> QED
        BY <4>0, <4>1, <4>2, <1>1, <1>2, <1>11 DEF SoundFor
    <3> QED
      BY <3>1, <3>2
  <2> QED
    BY <2>0, <2>2, <2>3, <2>4, <1>4, SoundAndAloneNext
<1>13. ASSUME NEW p \in Requests, req'[p].pc = "answered" PROVE AnswerFine(p)'
  <2>0. PICK x \in Sessions, n \in Sessions : x = req[p].token /\ n = req[p].new
    BY <1>13, <1>4, <1>t DEF Typed, Shaped
  <2>1. AnswerFor(p, x, n)
    BY <2>0, <1>8
  <2>2. AnswerFor(p, x, n)'
    BY <2>1, <1>1, <1>2, <1>4, <1>5 DEF AnswerFor
  <2> QED
    BY <2>0, <2>2, <1>4, AnswerNext
<1> QED
  BY <1>7, <1>9, <1>10, <1>12, <1>13 DEF ReqFine

LEMMA ReplaceKeeps ==
    ASSUME SessionsInv, NEW q \in Requests, Replace(q)
    PROVE  SessionsInv'
<1> DEFINE live == {h \in req[q].heirs : Live(h)}
<1>t. Typed
  BY TypesUnpacked DEF SessionsInv
<1>1. PICK t \in Sessions : t = req[q].token
  BY <1>t DEF Typed, Shaped, Replace
<1>2. CASE live = req[q].heirs
  BY <1>2, CreatingSteps DEF Replace
<1>3. CASE live # req[q].heirs
  <2>1. PICK h \in Sessions : h \in req[q].heirs /\ ~Live(h)
    BY <1>3, <1>t DEF Typed, ReqRow
  <2>2. SoundFor(req[q], t)
    BY <1>1, SoundAndAlone DEF SessionsInv, ReqFine, Replace
  <2>3. h \in Heirs(t) /\ (t \notin strained => Status(h) \in ClosedStatus)
    BY <2>1, <2>2 DEF Replace, SoundFor, Heirs, Live, ClosedStatus
  <2>4. ExcusedFor(t)
    BY <2>3 DEF ExcusedFor
  <2>5. live \in SUBSET req[q].heirs
    OBVIOUS
  <2> QED
    BY <1>1, <1>3, <2>4, <2>5, MakeWayKeeps DEF Replace
<1> QED
  BY <1>2, <1>3

-----------------------------------------------------------------------------
(* The invariant, and what follows from it.                                *)
LEMMA InitFine ==
    ASSUME Init
    PROVE  SessionsInv
<1>1. SessionsTypeOK
  BY SomeSession DEF Init, SessionsTypeOK, NoRow, NoReq, SessionStatus, ReqPc, MaybeSession
<1>2. \A s \in Sessions : session[s] = NoRow /\ Status(s) = "none" /\ NoRow.from = NoSession
  BY DEF Init, Status, NoRow
<1>3. RowFine
  BY <1>2 DEF RowFine, Lost
<1>4. JarFine
  BY DEF Init, JarFine
<1>5. \A q \in Requests : req[q].pc = "idle"
  BY DEF Init, NoReq
<1> QED
  BY <1>1, <1>3, <1>4, <1>5 DEF SessionsInv, ReqFine

LEMMA StepKeeps ==
    ASSUME SessionsInv, [Next]_vars
    PROVE  SessionsInv'
<1>t. Typed
  BY TypesUnpacked DEF SessionsInv
<1>1. ASSUME NEW q \in Requests, RequestStep(q) PROVE SessionsInv'
  <2>1. CASE \E d \in Devices : Present(q, d)
    BY <2>1, PresentKeeps
  <2>2. CASE Read(q) \/ ReadAgain(q)
    BY <2>2, ReadKeeps
  <2>3. CASE Claim(q)
    BY <2>3, ClaimKeeps
  <2>4. CASE Fork(q)
    BY <2>4, ForkKeeps
  <2>5. CASE FindHeirs(q)
    BY <2>5, FindHeirsKeeps
  <2>6. CASE Replace(q)
    BY <2>6, ReplaceKeeps
  <2>7. CASE RevokeAll(q)
    BY <2>7, <1>t, RevokeAllWinds, WindsKeeps
  <2>8. CASE Deliver(q)
    BY <2>8, DeliverKeeps
  <2>9. CASE Lose(q)
    BY <2>9, <1>t, LoseWinds, WindsKeeps DEF Lose
  <2> QED
    BY <1>1, <2>1, <2>2, <2>3, <2>4, <2>5, <2>6, <2>7, <2>8, <2>9 DEF RequestStep
<1>2. ASSUME NEW d \in Devices, UserStep(d) PROVE SessionsInv'
  <2>1. CASE Login(d)
    BY <2>1, LoginKeeps
  <2>2. CASE Logout(d) \/ LogoutAll(d) \/ RevokeOthers(d)
    BY <2>2, <1>t, UserWinds, WindsKeeps
  <2> QED
    BY <1>2, <2>1, <2>2 DEF UserStep
<1>3. CASE RevokeAllForUser \/ \E s \in Sessions : RevokeOwn(s)
  BY <1>3, <1>t, ClosesWinds, WindsKeeps
<1>4. ASSUME NEW s \in Sessions, GracePasses(s) \/ Expire(s) PROVE SessionsInv'
  BY <1>4, <1>t, TimeWinds, WindsKeeps
<1>5. CASE UNCHANGED vars
  <2>1. \A p \in Requests : req'[p] \in {req[p], NoReq}
    BY <1>5 DEF vars
  <2>2. Winds
    BY <1>5, <2>1, <1>t DEF vars, Winds, Typed, Status
  <2> QED
    BY <2>2, WindsKeeps
<1> QED
  BY <1>1, <1>2, <1>3, <1>4, <1>5 DEF Next

(* The rows, cookies and requests keep their shape (sessions.service.ts).  *)
THEOREM SessionsTypes == Spec => []SessionsTypeOK
<1>1. SessionsInv => SessionsTypeOK
  BY DEF SessionsInv
<1> QED
  BY <1>1, InitFine, StepKeeps, PTL DEF Spec

(* A renewal that only raced with others, or whose answer was lost, is not *)
(* taken for a reuse (rotateWithinGraceOrRevoke, recoverLostResponse): the *)
(* accused token had expired, it or an heir was closed, or it is strained. *)
THEOREM SessionsNoFalseAlarm == Spec => []NoFalseAlarm
<1>1. SessionsInv => NoFalseAlarm
  <2> SUFFICES ASSUME SessionsInv, NEW q \in Requests, req[q].pc = "accuse"
               PROVE  ExcusedFor(req[q].token)
    BY DEF NoFalseAlarm, ExcusedFor
  <2> QED
    BY DEF SessionsInv, ReqFine, Sound, SoundFor
<1> QED
  BY <1>1, InitFine, StepKeeps, PTL DEF Spec

(* A session replaced as a lost answer is in no cookie, and in no answer   *)
(* that is still to arrive (recoverLostResponse).                          *)
THEOREM SessionsReplacedIsLost == Spec => []ReplacedIsLost
<1>1. SessionsInv => ReplacedIsLost
  BY DEF SessionsInv, RowFine, Lost, Held, ReplacedIsLost
<1> QED
  BY <1>1, InitFine, StepKeeps, PTL DEF Spec
=============================================================================
