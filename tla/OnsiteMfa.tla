------------------------------ MODULE OnsiteMfa ------------------------------
(***************************************************************************)
(* The on-site MFA factor: a device on the venue LAN hands the kiosk a     *)
(* nonce that Cernere issued, somebody at the kiosk is verified, and the   *)
(* gateway signs one attestation and submits it to Cernere                 *)
(* (server/onsite-mfa/*, server/routes/onsite-mfa*.ts).                    *)
(*                                                                         *)
(* A kiosk request is split at its awaits: verification (face sidecar or   *)
(* WebAuthn) and submission (HTTP to Cernere).  Several requests run at    *)
(* once, Cernere may answer late or never, and the process may restart,    *)
(* which loses every in-memory session.                                    *)
(***************************************************************************)
EXTENDS Naturals, FiniteSets

CONSTANTS Nonces,        \* nonces Cernere can issue
          Users,         \* people who can be verified at the kiosk
          Owner,         \* Owner[n]: the user whose operation asked for n
          Sids,          \* session ids (randomUUID), never reused
          Handlers,      \* kiosk HTTP requests that can be in flight at once
          TTL,           \* ONSITE_MFA_SESSION_TTL_MS
          Retention,     \* retentionMs
          TicketTTL,     \* lifetime of a Cernere ticket
          MaxCeremonies, \* bound: passkey challenges open per session
          MaxTime,       \* bound on the clock
          NoSid, NoNonce

ASSUME MfaAssumption ==
    /\ Owner \in [Nonces -> Users]
    /\ TTL \in Nat \ {0} /\ Retention \in Nat
    /\ TicketTTL \in Nat \ {0}
    /\ TicketTTL <= TTL + Retention
    /\ MaxTime \in Nat /\ MaxCeremonies \in Nat
    /\ NoSid \notin Sids /\ NoNonce \notin Nonces

VARIABLES
    now,
    \* OnsiteMfaSessionStore.sessions; "unborn" and "gone" are not in the map
    state, nonce, expiresAt,
    \* challenges of /passkey/begin bound to a session and not yet used; that
    \* they lapse after 2 min is left to NotVerified
    ceremonies,
    \* kiosk requests: where they wait, the session in their path, and the
    \* session their proof of identity was begun for
    pc, target, bound,
    \* Cernere and the network (external)
    ticketExp, usedBy, net, replies,
    \* history: sessions opened since the last start, attestations signed
    opened, signed

storeVars == <<state, nonce, expiresAt>>
handlerVars == <<pc, target, bound>>
cernereVars == <<ticketExp, usedBy, net, replies>>
historyVars == <<opened, signed>>
vars == <<now, storeVars, ceremonies, handlerVars, cernereVars, historyVars>>

States == {"unborn", "waiting", "submitting", "submitted", "rejected", "gone"}
Attestation == [sid : Sids, nonce : Nonces, sub : Users]

TypeOK ==
    /\ now \in Nat
    /\ state \in [Sids -> States]
    /\ nonce \in [Sids -> Nonces \cup {NoNonce}]
    /\ expiresAt \in [Sids -> Nat]
    /\ ceremonies \in [Sids -> 0..MaxCeremonies]
    /\ pc \in [Handlers -> {"idle", "verifying", "submitting"}]
    /\ target \in [Handlers -> Sids \cup {NoSid}]
    /\ bound \in [Handlers -> Sids \cup {NoSid}]
    /\ ticketExp \in [Nonces -> Nat]
    /\ usedBy \in [Nonces -> Sids \cup {NoSid}]
    /\ net \subseteq Attestation
    /\ replies \subseteq [sid : Sids, ok : BOOLEAN]
    /\ opened \subseteq [sid : Sids, nonce : Nonces, at : Nat]
    /\ signed \subseteq Attestation

Init ==
    /\ now = 0
    /\ state = [s \in Sids |-> "unborn"]
    /\ nonce = [s \in Sids |-> NoNonce]
    /\ expiresAt = [s \in Sids |-> 0]
    /\ ceremonies = [s \in Sids |-> 0]
    /\ pc = [h \in Handlers |-> "idle"]
    /\ target = [h \in Handlers |-> NoSid]
    /\ bound = [h \in Handlers |-> NoSid]
    /\ ticketExp = [n \in Nonces |-> 0]
    /\ usedBy = [n \in Nonces |-> NoSid]
    /\ net = {} /\ replies = {} /\ opened = {} /\ signed = {}

-----------------------------------------------------------------------------
(* The session store.                                                       *)

Present(st, s) == st[s] \notin {"unborn", "gone"}

MutSweepAtExpiry(st) ==
    [s \in Sids |-> IF Present(st, s) /\ st[s] # "submitting" /\ expiresAt[s] <= now
                    THEN "gone" ELSE st[s]]

\* sweep(): a session being submitted is never dropped.
Swept(st) ==
    [s \in Sids |-> IF /\ Present(st, s)
                       /\ st[s] # "submitting"
                       /\ expiresAt[s] + Retention <= now
                    THEN "gone" ELSE st[s]]

HasNonce(st, n) == \E s \in Sids : Present(st, s) /\ nonce[s] = n

MutActiveOnlyWaiting(st, s) == st[s] = "waiting" /\ expiresAt[s] > now

\* active(): the session the kiosk shows and that makes it busy.
Active(st, s) ==
    \/ st[s] = "submitting"
    \/ st[s] = "waiting" /\ expiresAt[s] > now

\* view().state, as a device or the kiosk page sees it.
View(st, s) ==
    CASE st[s] = "submitting" -> "waiting"
      [] st[s] = "waiting"    -> IF expiresAt[s] > now THEN "waiting" ELSE "expired"
      [] OTHER                -> st[s]

MutClaimableWhileShown(s) == View(state, s) = "waiting"

MutClaimableExpired(s) == state[s] = "waiting"

\* claim() succeeds.
Claimable(s) == state[s] = "waiting" /\ expiresAt[s] > now

-----------------------------------------------------------------------------
(* Devices on the LAN.                                                      *)

Create(s, n) ==
    /\ state' = [Swept(state) EXCEPT ![s] = "waiting"]
    /\ nonce' = [nonce EXCEPT ![s] = n]
    /\ expiresAt' = [expiresAt EXCEPT ![s] = now + TTL]
    /\ opened' = opened \cup {[sid |-> s, nonce |-> n, at |-> now]}

\* POST /api/mfa/onsite/sessions that answers 202.  A device only has nonces
\* that Cernere has issued.
Open(n) ==
    /\ ticketExp[n] # 0
    /\ ~ HasNonce(Swept(state), n)                    \* nonce_reused
    /\ ~ \E s \in Sids : Active(Swept(state), s)      \* kiosk_busy
    /\ \E s \in Sids : state[s] = "unborn" /\ Create(s, n)
    /\ UNCHANGED <<now, ceremonies, handlerVars, cernereVars, signed>>

\* GET .../sessions/:id, GET /kiosk/mfa/current and a refused POST: the only
\* effect is the sweep.
Poll ==
    /\ state' = Swept(state)
    /\ UNCHANGED <<now, nonce, expiresAt, ceremonies, handlerVars, cernereVars, historyVars>>

-----------------------------------------------------------------------------
(* The kiosk.                                                               *)

Await(h, s, b) ==
    /\ pc[h] = "idle"
    /\ pc' = [pc EXCEPT ![h] = "verifying"]
    /\ target' = [target EXCEPT ![h] = s]
    /\ bound' = [bound EXCEPT ![h] = b]

\* POST /kiosk/mfa/:sessionId/face/frame up to the await of flow.process.
FaceFrame(h, s) ==
    /\ View(Swept(state), s) = "waiting"
    /\ state' = Swept(state)
    /\ Await(h, s, s)
    /\ UNCHANGED <<now, nonce, expiresAt, ceremonies, cernereVars, historyVars>>

PasskeyBegin(s) ==
    /\ View(Swept(state), s) = "waiting"
    /\ ceremonies[s] < MaxCeremonies
    /\ state' = Swept(state)
    /\ ceremonies' = [ceremonies EXCEPT ![s] = @ + 1]
    /\ UNCHANGED <<now, nonce, expiresAt, handlerVars, cernereVars, historyVars>>

\* POST .../passkey/finish for the session in its path with an assertion over
\* a challenge begun for session b: verifyAssertion takes the challenge.
PasskeyFinish(h, s, b) ==
    /\ ceremonies[b] > 0
    /\ ceremonies' = [ceremonies EXCEPT ![b] = @ - 1]
    /\ Await(h, s, b)
    /\ UNCHANGED <<now, storeVars, cernereVars, historyVars>>

Done(h) ==
    /\ pc' = [pc EXCEPT ![h] = "idle"]
    /\ target' = [target EXCEPT ![h] = NoSid]
    /\ bound' = [bound EXCEPT ![h] = NoSid]

\* The person is not verified (or needs another frame).
NotVerified(h) ==
    /\ pc[h] = "verifying"
    /\ Done(h)
    /\ UNCHANGED <<now, storeVars, ceremonies, cernereVars, historyVars>>

\* The person is verified as u: completeOnsiteMfa claims the session, signs
\* with purpose "mfa" and starts the submission.
Verified(h, u) ==
    LET s == target[h]
        a == [sid |-> s, nonce |-> nonce[s], sub |-> u]
    IN /\ pc[h] = "verifying" /\ bound[h] = s
       /\ Claimable(s)
       /\ state' = [state EXCEPT ![s] = "submitting"]
       /\ pc' = [pc EXCEPT ![h] = "submitting"]
       /\ signed' = signed \cup {a}
       /\ net' = net \cup {a}
       /\ UNCHANGED <<now, nonce, expiresAt, ceremonies, target, bound,
                      ticketExp, usedBy, replies, opened>>

\* Verified, but the proof was begun for another session (challenge_mismatch)
\* or the session cannot be claimed any more (mfa_session_closed).
VerifiedTooLate(h) ==
    /\ pc[h] = "verifying"
    /\ bound[h] # target[h] \/ ~ Claimable(target[h])
    /\ state' = IF bound[h] # target[h] THEN state ELSE Swept(state)
    /\ Done(h)
    /\ UNCHANGED <<now, nonce, expiresAt, ceremonies, cernereVars, historyVars>>

MutOutcomeOfAnyAnswer(r) == "submitted"

Outcome(r) == IF r.ok THEN "submitted" ELSE "rejected"

\* settle() and then view(), with its sweep.
Settle(h, outcome) ==
    LET s == target[h]
        settled == IF state[s] = "submitting" THEN [state EXCEPT ![s] = outcome] ELSE state
    IN /\ pc[h] = "submitting"
       /\ state' = Swept(settled)
       /\ Done(h)
       /\ UNCHANGED <<now, nonce, expiresAt, ceremonies, historyVars>>

\* Cernere's answer arrives.
SubmitAnswered(h) ==
    \E r \in replies :
        /\ r.sid = target[h]
        /\ Settle(h, Outcome(r))
        /\ replies' = replies \ {r}
        /\ UNCHANGED <<ticketExp, usedBy, net>>

\* No service token, no connection, or the 10 s timeout, which closes the
\* connection an answer could still have come on.
SubmitFailed(h) ==
    /\ Settle(h, "rejected")
    /\ replies' = {r \in replies : r.sid # target[h]}
    /\ UNCHANGED <<ticketExp, usedBy, net>>

-----------------------------------------------------------------------------
(* Cernere, the network, the clock and the process (external).              *)

IssueTicket(n) ==
    /\ ticketExp[n] = 0
    /\ ticketExp' = [ticketExp EXCEPT ![n] = now + TicketTTL]
    /\ UNCHANGED <<now, storeVars, ceremonies, handlerVars, usedBy, net, replies, historyVars>>

\* onsite-mfa-factor.md 4.2: nonce live and unused, sub is the ticket's user.
Accepts(a) ==
    /\ usedBy[a.nonce] = NoSid
    /\ ticketExp[a.nonce] > now
    /\ a.sub = Owner[a.nonce]

CernereReceives(a) ==
    /\ a \in net
    /\ net' = net \ {a}
    /\ usedBy' = IF Accepts(a) THEN [usedBy EXCEPT ![a.nonce] = a.sid] ELSE usedBy
    /\ replies' = IF \E h \in Handlers : pc[h] = "submitting" /\ target[h] = a.sid
                  THEN replies \cup {[sid |-> a.sid, ok |-> Accepts(a)]}
                  ELSE replies
    /\ UNCHANGED <<now, storeVars, ceremonies, handlerVars, ticketExp, historyVars>>

LoseRequest(a) ==
    /\ a \in net
    /\ net' = net \ {a}
    /\ UNCHANGED <<now, storeVars, ceremonies, handlerVars, ticketExp, usedBy, replies, historyVars>>

Tick ==
    /\ now < MaxTime
    /\ now' = now + 1
    /\ UNCHANGED <<storeVars, ceremonies, handlerVars, cernereVars, historyVars>>

\* A new process: every in-memory session, challenge and request is lost.
Restart ==
    /\ state' = [s \in Sids |-> IF state[s] = "unborn" THEN "unborn" ELSE "gone"]
    /\ ceremonies' = [s \in Sids |-> 0]
    /\ pc' = [h \in Handlers |-> "idle"]
    /\ target' = [h \in Handlers |-> NoSid]
    /\ bound' = [h \in Handlers |-> NoSid]
    /\ replies' = {} /\ opened' = {}
    /\ UNCHANGED <<now, nonce, expiresAt, ticketExp, usedBy, net, signed>>

Next ==
    \/ \E n \in Nonces : Open(n) \/ IssueTicket(n)
    \/ Poll
    \/ \E s \in Sids : PasskeyBegin(s)
    \/ \E h \in Handlers, s \in Sids :
          FaceFrame(h, s) \/ \E b \in Sids : PasskeyFinish(h, s, b)
    \/ \E h \in Handlers :
          \/ NotVerified(h)
          \/ \E u \in Users : Verified(h, u)
          \/ VerifiedTooLate(h)
          \/ SubmitAnswered(h)
          \/ SubmitFailed(h)
    \/ \E a \in net : CernereReceives(a) \/ LoseRequest(a)
    \/ Tick
    \/ Restart

Spec == Init /\ [][Next]_vars

-----------------------------------------------------------------------------
(* Properties.                                                              *)

\* A session that can still produce an attestation or is producing one.
Served(s) ==
    \/ state[s] = "submitting"
    \/ state[s] = "waiting" /\ expiresAt[s] > now

\* At most one session is served at a time, through expiry of the one before
\* and submissions that outlive their deadline (openOnsiteMfaSession).
OneServed == \A s, t \in Sids : Served(s) /\ Served(t) => s = t

\* However many frames and assertions are in flight for a session, one
\* attestation is signed for it and one request submits it (claim()).
OneAttestationPerSession ==
    /\ \A a, b \in signed : a.sid = b.sid => a = b
    /\ \A g, h \in Handlers :
          pc[g] = "submitting" /\ pc[h] = "submitting" /\ target[g] = target[h] => g = h

\* While the process runs, a nonce is not opened twice within the life of its
\* Cernere ticket, whatever became of the first session (session-store.ts
\* header: retention outlives the ticket).
ReplayRefused ==
    \A a, b \in opened :
        a.nonce = b.nonce /\ a # b /\ a.at <= b.at => ticketExp[a.nonce] <= b.at

\* A session a device sees as submitted is the one whose attestation consumed
\* the ticket at Cernere, for the user the ticket was issued to.
SubmittedIsConfirmed ==
    \A s \in Sids : state[s] = "submitted" =>
        /\ usedBy[nonce[s]] = s
        /\ \E a \in signed : a.sid = s /\ a.sub = Owner[nonce[s]]

\* The slot as KioskSlot sees it, and the sessions that have left it.
SlotNow ==
    IF \E s \in Sids : Served(s)
    THEN LET s == CHOOSE s \in Sids : Served(s) IN [sid |-> s, phase |-> state[s]]
    ELSE NoSid

LeftSlot == {s \in Sids : state[s] # "unborn" /\ ~ Served(s)}

\* The store implements the single slot of KioskSlot: taken when free, claimed
\* once, left for good, although expiry is only ever noticed lazily.
Slot == INSTANCE KioskSlot WITH Free <- NoSid, slot <- SlotNow, released <- LeftSlot

SlotSpec == Slot!Spec
=============================================================================
