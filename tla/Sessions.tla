------------------------------ MODULE Sessions ------------------------------
(***************************************************************************)
(* The sessions of a user: a login gives the browser a cookie with a token *)
(* of its session, and every renewal replaces the session by a new one.    *)
(*                                                                         *)
(*   sessions.service.ts   createForLogin, rotate,                         *)
(*                         rotateWithinGraceOrRevoke, recoverLostResponse, *)
(*                         revoke, revokeOwn, revokeOthers, revokeAllForUser*)
(*   auth.controller.ts    the cookie: login, refresh, logout, logout-all  *)
(*   users.service.ts      changePassword closes the other sessions        *)
(*                                                                         *)
(* A request to renew is a sequence of transactions.  The answer may be    *)
(* lost, or arrive after others: every tab and every reload of a page      *)
(* makes a request of its own with the cookie that the browser has.        *)
(* Thirty seconds may pass after a rotation at any moment (GracePasses).   *)
(*                                                                         *)
(* A browser presents only tokens it was given, and always with the same   *)
(* user agent.  A transaction is one step, but for the two statements of   *)
(* recoverLostResponse.  Accounts that are switched off are not modelled.  *)
(***************************************************************************)
EXTENDS Naturals, FiniteSets

CONSTANTS
    Sessions,    \* the rows of the user that may be created
    Devices,     \* browsers
    Requests,    \* requests to renew that may be under way together
    NoSession, NoDevice,
    MaxForks     \* REFRESH_REUSE_GRACE_MAX_FORKS

ASSUME SessionsAssumption ==
    /\ NoSession \notin Sessions
    /\ NoDevice \notin Devices
    /\ MaxForks \in Nat

VARIABLES
    session,    \* the rows: status (revokedReason), rotatedFromId, rotated over
                \* thirty seconds ago, expired
    jar,        \* the session whose token is in the cookie of each browser
    req,        \* the requests: step, browser, token, heirs read, new session
    strained    \* history: tokens over thirty seconds old that two requests presented
                \* together, or whose thirty seconds ran out with one under way

vars == <<session, jar, req, strained>>

MaybeSession == Sessions \cup {NoSession}
ClosedStatus == {"closed", "reuse"}

NoRow  == [status |-> "none", from |-> NoSession, old |-> FALSE, expired |-> FALSE]
NoReq  == [pc |-> "idle", device |-> NoDevice, token |-> NoSession,
           heirs |-> {}, new |-> NoSession]

Init ==
    /\ session = [s \in Sessions |-> NoRow]
    /\ jar = [d \in Devices |-> NoSession]
    /\ req = [q \in Requests |-> NoReq]
    /\ strained = {}

Status(s)   == session[s].status
Live(s)     == Status(s) = "live"
Fresh       == {s \in Sessions : Status(s) = "none"}
Heirs(s)    == {h \in Sessions : session[h].from = s}
UnderWay(s) == \E q \in Requests : req[q].pc # "idle" /\ req[q].token = s

(* The rows f with a new session n, rotated from another one or not.       *)
Created(f, n, from) == [f EXCEPT ![n] = [NoRow EXCEPT !.status = "live", !.from = from]]
Revoked(S, reason) ==
    [s \in Sessions |-> IF s \in S /\ Live(s)
                        THEN [session[s] EXCEPT !.status = reason] ELSE session[s]]

Goto(q, pc)   == req' = [req EXCEPT ![q].pc = pc]
Answer(q, n)  == req' = [req EXCEPT ![q].pc = "answered", ![q].new = n]
EndRequest(q) == req' = [req EXCEPT ![q] = NoReq]

-----------------------------------------------------------------------------
(* Variants of definitions below, each with the slip that one property     *)
(* must notice.  No action of the specification uses them.                 *)
JudgedStale(q) ==
    IF req[q].pc = "raced" THEN "accuse"
    ELSE IF Status(req[q].token) # "rotated" THEN "accuse"
    ELSE IF session[req[q].token].old THEN "recover" ELSE "fork"

JudgedWithoutGrace(q) ==
    IF Status(req[q].token) = "rotated" THEN "recover" ELSE "accuse"

ForkUnchecked(q) ==
    LET t == req[q].token IN
    /\ req[q].pc = "fork"
    /\ \/ /\ Cardinality(Heirs(t)) <= MaxForks
          /\ \E n \in Fresh : session' = Created(session, n, t) /\ Answer(q, n)
       \/ /\ Cardinality(Heirs(t)) > MaxForks
          /\ Answer(q, NoSession)
          /\ UNCHANGED session
    /\ UNCHANGED <<jar, strained>>

-----------------------------------------------------------------------------
(* Renewing: rotate                                                        *)

(* A tab opens or reloads, or its access token runs out.                   *)
Present(q, d) ==
    /\ req[q] = NoReq
    /\ jar[d] # NoSession
    /\ req' = [req EXCEPT ![q] = [NoReq EXCEPT !.pc = "sent", !.device = d, !.token = jar[d]]]
    /\ strained' = IF session[jar[d]].old /\ UnderWay(jar[d])
                   THEN strained \cup {jar[d]} ELSE strained
    /\ UNCHANGED <<session, jar>>

(* What to do with a token that was revoked: a row rotated a moment ago is *)
(* given a sibling; one rotated earlier may be a lost answer.              *)
Judged(q) ==
    IF Status(req[q].token) # "rotated" THEN "accuse"
    ELSE IF session[req[q].token].old THEN "recover" ELSE "fork"

Read(q) ==
    LET t == req[q].token IN
    /\ req[q].pc = "sent"
    /\ Goto(q, IF session[t].expired THEN "accuse"
               ELSE IF Live(t) THEN "claim" ELSE Judged(q))
    /\ UNCHANGED <<session, jar, strained>>

(* The update finds the row as it was read, or changes nothing.            *)
Claim(q) ==
    LET t == req[q].token IN
    /\ req[q].pc = "claim"
    /\ \/ /\ Live(t)
          /\ \E n \in Fresh : /\ session' = Created(Revoked({t}, "rotated"), n, t)
                              /\ Answer(q, n)
       \/ ~Live(t) /\ Goto(q, "raced") /\ UNCHANGED session
    /\ UNCHANGED <<jar, strained>>

ReadAgain(q) ==
    /\ req[q].pc = "raced"
    /\ Goto(q, Judged(q))
    /\ UNCHANGED <<session, jar, strained>>

(* A sibling, up to a number of them; then a 401 that closes nothing.      *)
Fork(q) ==
    LET t == req[q].token IN
    /\ req[q].pc = "fork"
    /\ \/ /\ Cardinality(Heirs(t)) <= MaxForks
          /\ \E n \in Fresh : session' = Created(session, n, t) /\ Answer(q, n)
       \/ /\ Cardinality(Heirs(t)) > MaxForks
          /\ EndRequest(q)
          /\ UNCHANGED session
    /\ UNCHANGED <<jar, strained>>

(* recoverLostResponse: none of the heirs was used or closed.              *)
FindHeirs(q) ==
    LET heirs == Heirs(req[q].token) IN
    /\ req[q].pc = "recover"
    /\ IF heirs # {} /\ \A h \in heirs : Status(h) \in {"live", "lost_response"}
       THEN req' = [req EXCEPT ![q].pc = "replace", ![q].heirs = {h \in heirs : Live(h)}]
       ELSE Goto(q, "accuse")
    /\ UNCHANGED <<session, jar, strained>>

(* If one was closed since, the others are replaced all the same: returning*)
(* null does not roll the transaction back.                                *)
Replace(q) ==
    LET t == req[q].token  live == {h \in req[q].heirs : Live(h)} IN
    /\ req[q].pc = "replace"
    /\ \/ /\ live = req[q].heirs
          /\ \E n \in Fresh : /\ session' = Created(Revoked(live, "lost_response"), n, t)
                              /\ Answer(q, n)
       \/ /\ live # req[q].heirs
          /\ session' = Revoked(live, "lost_response") /\ Goto(q, "accuse")
    /\ UNCHANGED <<jar, strained>>

(* revokeAllAndFlagReuse.  The cookie stays.                               *)
RevokeAll(q) ==
    /\ req[q].pc = "accuse"
    /\ session' = Revoked(Sessions, "reuse")
    /\ EndRequest(q)
    /\ UNCHANGED <<jar, strained>>

(* The answer sets the cookie, or is lost.                                 *)
Deliver(q) ==
    /\ req[q].pc = "answered"
    /\ jar' = [jar EXCEPT ![req[q].device] = req[q].new]
    /\ EndRequest(q)
    /\ UNCHANGED <<session, strained>>

Lose(q) ==
    /\ req[q].pc = "answered"
    /\ EndRequest(q)
    /\ UNCHANGED <<session, jar, strained>>

-----------------------------------------------------------------------------
(* The user                                                                *)
Login(d) ==
    /\ \E n \in Fresh : /\ session' = Created(session, n, NoSession)
                        /\ jar' = [jar EXCEPT ![d] = n]
    /\ UNCHANGED <<req, strained>>

(* Sessions are closed from the browser that leaves or from another one:   *)
(* its own, one of the list, the others, all of them.                      *)
Logout(d) ==
    /\ jar[d] # NoSession
    /\ session' = Revoked({jar[d]}, "closed")
    /\ jar' = [jar EXCEPT ![d] = NoSession]
    /\ UNCHANGED <<req, strained>>

LogoutAll(d) ==
    /\ session' = Revoked(Sessions, "closed")
    /\ jar' = [jar EXCEPT ![d] = NoSession]
    /\ UNCHANGED <<req, strained>>

RevokeOwn(s) ==
    /\ Live(s)
    /\ session' = Revoked({s}, "closed")
    /\ UNCHANGED <<jar, req, strained>>

RevokeOthers(d) ==
    /\ session' = Revoked(Sessions \ {jar[d]}, "closed")
    /\ UNCHANGED <<jar, req, strained>>

(* A password reset, or the staff.                                         *)
RevokeAllForUser ==
    /\ session' = Revoked(Sessions, "closed")
    /\ UNCHANGED <<jar, req, strained>>

-----------------------------------------------------------------------------
(* Time                                                                    *)
GracePasses(s) ==
    /\ Status(s) = "rotated" /\ ~session[s].old
    /\ session' = [session EXCEPT ![s].old = TRUE]
    /\ strained' = IF UnderWay(s) THEN strained \cup {s} ELSE strained
    /\ UNCHANGED <<jar, req>>

(* The cookie outlives the session of a browser that is not the app.  It   *)
(* matters while somebody may still present the token.                     *)
Expire(s) ==
    /\ Status(s) \in {"live", "rotated"} /\ ~session[s].expired
    /\ UnderWay(s) \/ \E d \in Devices : jar[d] = s
    /\ session' = [session EXCEPT ![s].expired = TRUE]
    /\ UNCHANGED <<jar, req, strained>>

-----------------------------------------------------------------------------
RequestStep(q) ==
    \/ \E d \in Devices : Present(q, d)
    \/ Read(q) \/ Claim(q) \/ ReadAgain(q) \/ Fork(q)
    \/ FindHeirs(q) \/ Replace(q) \/ RevokeAll(q)
    \/ Deliver(q) \/ Lose(q)

UserStep(d) == Login(d) \/ Logout(d) \/ LogoutAll(d) \/ RevokeOthers(d)

Next ==
    \/ \E q \in Requests : RequestStep(q)
    \/ \E d \in Devices : UserStep(d)
    \/ \E s \in Sessions : RevokeOwn(s) \/ GracePasses(s) \/ Expire(s)
    \/ RevokeAllForUser

Spec == Init /\ [][Next]_vars

-----------------------------------------------------------------------------
(* Type invariant of the sessions, cookies and requests.                   *)
SessionStatus == {"none", "live", "rotated", "lost_response", "closed", "reuse"}
ReqPc == {"idle", "sent", "claim", "raced", "fork", "recover", "replace", "accuse", "answered"}

SessionsTypeOK ==
    /\ session \in [Sessions -> [status : SessionStatus, from : MaybeSession,
                                 old : BOOLEAN, expired : BOOLEAN]]
    /\ jar \in [Devices -> MaybeSession]
    /\ req \in [Requests -> [pc : ReqPc, device : Devices \cup {NoDevice},
                             token : MaybeSession, heirs : SUBSET Sessions,
                             new : MaybeSession]]
    /\ strained \in SUBSET Sessions
    /\ \A q \in Requests :
        /\ req[q].pc = "idle" <=> req[q] = NoReq
        /\ req[q].pc # "idle" => req[q].device \in Devices /\ req[q].token \in Sessions
        /\ req[q].pc = "answered" <=> req[q].new \in Sessions

Ended(s) == Status(s) \in ClosedStatus \/ session[s].expired

(* A renewal that races with others of the same browser, or whose answer   *)
(* was lost, is never taken for a reuse, which closes every session of the *)
(* user (rotateWithinGraceOrRevoke, recoverLostResponse).  A token is      *)
(* accused because its session had expired, or it or an heir of it had     *)
(* been closed; the code cannot tell the strained ones.                    *)
NoFalseAlarm ==
    \A q \in Requests :
        req[q].pc = "accuse" =>
            LET t == req[q].token IN
            \/ Ended(t)
            \/ \E h \in Heirs(t) : Status(h) \in ClosedStatus
            \/ {t, session[t].from} \cap strained # {}

(* A session replaced as a lost answer was lost indeed: no browser has its *)
(* token, and none is about to receive it (recoverLostResponse).           *)
ReplacedIsLost ==
    \A s \in Sessions :
        Status(s) = "lost_response" /\ session[s].from \notin strained =>
            /\ \A d \in Devices : jar[d] # s
            /\ \A q \in Requests : req[q].new # s
=============================================================================
