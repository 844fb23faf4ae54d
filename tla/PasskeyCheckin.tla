--------------------------- MODULE PasskeyCheckin ---------------------------
(***************************************************************************)
(* Passkey check-in: WebAuthn begin/finish over one-shot challenges, the   *)
(* kiosk's identity sessions that a finish completes, and the attendance   *)
(* delivery between signing and completion (server/passkey-checkin.ts,     *)
(* challenge-store.ts, identity-session-store.ts, routes/checkin.ts,       *)
(* routes/identity.ts, routes/kiosk-proximity.ts).                         *)
(*                                                                         *)
(* Three mounted services share the code.  "checkin" and "identity" share  *)
(* one ChallengeStore, "proximity" has its own; each has its own map from  *)
(* challenges to sessions.  Entries past their deadline are dropped lazily *)
(* by the code and can never be used again, so the model keeps them and    *)
(* compares deadlines where the code does.                                 *)
(*                                                                         *)
(* The staff login and the on-site MFA kiosk (module OnsiteMfa) draw from  *)
(* the shared store too, without identity sessions: to the sessions here   *)
(* their challenges are those of "checkin".                                *)
(*                                                                         *)
(* The face path (module FaceFlow) works on the same sessions: a frame     *)
(* looks at its session before the analysis and moves it afterwards,       *)
(* whatever has become of it, an issued session included.                  *)
(***************************************************************************)
EXTENDS Naturals, FiniteSets

CONSTANTS Challenges,   \* challenge values, never drawn twice
          Sids,         \* identity session ids
          Creds,        \* synced credentials; each is its own user
          Handlers,     \* finish requests in flight at once
          ChallengeTTL, \* ChallengeTTL[svc]: 2 min, or 60 s for proximity
          SessionTTL,   \* IdentitySessionStore.ttlMs
          MaxUses,      \* bound: assertions one authenticator signs
          MaxTime,      \* bound on the clock
          MaxFaced,     \* bound: sessions of a kiosk with the face path
          None

Services == {"checkin", "identity", "proximity"}

ASSUME PasskeyAssumption ==
    /\ ChallengeTTL \in [Services -> Nat]
    /\ SessionTTL \in Nat /\ MaxUses \in Nat /\ MaxTime \in Nat /\ MaxFaced \in Nat
    /\ None \notin Challenges \cup Sids \cup Creds

VARIABLES
    now,
    faceOn,                \* the face path is mounted on this kiosk
    sess, sessExp,         \* IdentitySessionStore: state and deadline
    ch, chSvc, chSid, chExp, \* challenges: state, where begun, for whom, deadline
    req,                   \* finish requests in flight
    busy,                  \* proximity: sessions with a request in flight
    frames,                \* sessions with face frames being analysed
    counter, uses,         \* stored signature counter; the authenticator's own
    signed, recorded,      \* history: attestations signed; those Aedilis holds
    closed,                \* history: attestations that completed a session
    reopened               \* history: issued sessions a frame moved back, since
                           \* the last completion by the proximity route

sessVars == <<sess, sessExp>>
chVars == <<ch, chSvc, chSid, chExp>>
histVars == <<signed, recorded, closed, reopened>>
vars == <<now, faceOn, sessVars, chVars, req, busy, frames, counter, uses, histVars>>

Attestation ==
    [nonce : Challenges \cup {None}, sub : Creds \cup {None},
     sid : Sids \cup {None}, svc : Services \cup {"face"}]

Idle == [pc |-> "idle", svc |-> None, nonce |-> None, cred |-> None,
         sid |-> None, path |-> None, row |-> 0, ctr |-> 0]

Request ==
    [pc : {"verifying", "delivering"}, svc : Services, nonce : Challenges,
     cred : Creds, sid : Sids \cup {None}, path : Sids \cup {None},
     row : Nat, ctr : Nat]

\* "open" stands for idle, scanning and challenging.
SessStates == {"unborn", "open", "fallback", "issued"}

TypeOK ==
    /\ now \in Nat /\ faceOn \in BOOLEAN
    /\ sess \in [Sids -> SessStates]
    /\ sessExp \in [Sids -> Nat]
    /\ ch \in [Challenges -> {"unborn", "live", "used"}]
    /\ chSvc \in [Challenges -> Services \cup {None}]
    /\ chSid \in [Challenges -> Sids \cup {None}]
    /\ chExp \in [Challenges -> Nat]
    /\ req \in [Handlers -> Request \cup {Idle}]
    /\ busy \subseteq Sids /\ frames \subseteq Sids /\ reopened \subseteq Sids
    /\ counter \in [Creds -> Nat] /\ uses \in [Creds -> Nat]
    /\ signed \subseteq Attestation
    /\ recorded \subseteq Attestation
    /\ closed \subseteq Attestation

Init ==
    /\ now = 0 /\ faceOn \in BOOLEAN
    /\ sess = [s \in Sids |-> "unborn"] /\ sessExp = [s \in Sids |-> 0]
    /\ ch = [c \in Challenges |-> "unborn"]
    /\ chSvc = [c \in Challenges |-> None]
    /\ chSid = [c \in Challenges |-> None]
    /\ chExp = [c \in Challenges |-> 0]
    /\ req = [h \in Handlers |-> Idle]
    /\ busy = {} /\ frames = {}
    /\ counter = [k \in Creds |-> 0] /\ uses = [k \in Creds |-> 0]
    /\ signed = {} /\ recorded = {} /\ closed = {} /\ reopened = {}

-----------------------------------------------------------------------------
(* The stores.                                                              *)

\* IdentitySessionStore.get() finds the session.
Alive(s) == sess[s] # "unborn" /\ sessExp[s] > now

\* The state kiosk-proximity asks for: alive and not yet issued.
Unissued(s) == Alive(s) /\ sess[s] # "issued"

Store(svc) == IF svc = "proximity" THEN "own" ELSE "shared"

MutConsumableExpired(svc, c) ==
    ch[c] # "unborn" /\ Store(chSvc[c]) = Store(svc) /\ chExp[c] >= now

\* ChallengeStore.consume(): known to this service's store and not past it.
Consumable(svc, c) ==
    ch[c] = "live" /\ Store(chSvc[c]) = Store(svc) /\ chExp[c] >= now

MutTakeSessionOfStore(svc, c) == IF chExp[c] > now THEN chSid[c] ELSE None

\* takeSessionId(): each service only knows the sessions of its own begins,
\* and the binding ends one tick before the challenge does.
TakeSession(svc, c) ==
    IF chSvc[c] = svc /\ chExp[c] > now THEN chSid[c] ELSE None

-----------------------------------------------------------------------------
(* POST /identity/session and the begin routes.                             *)

Created == {s \in Sids : sess[s] # "unborn"}

CreateSession(s) ==
    /\ sess[s] = "unborn"
    /\ faceOn => Cardinality(Created) < MaxFaced
    /\ sess' = [sess EXCEPT ![s] = "open"]
    /\ sessExp' = [sessExp EXCEPT ![s] = now + SessionTTL]
    /\ UNCHANGED <<now, faceOn, chVars, req, busy, frames, counter, uses, histVars>>

\* PasskeyCheckinService.begin(): put the challenge and bind the session.
PutChallenge(svc, s) ==
    \E c \in Challenges :
        /\ ch[c] = "unborn"
        /\ ch' = [ch EXCEPT ![c] = "live"]
        /\ chSvc' = [chSvc EXCEPT ![c] = svc]
        /\ chSid' = [chSid EXCEPT ![c] = s]
        /\ chExp' = [chExp EXCEPT ![c] = now + ChallengeTTL[svc]]

BeginCheckin ==
    /\ PutChallenge("checkin", None)
    /\ UNCHANGED <<now, faceOn, sessVars, req, busy, frames, counter, uses, histVars>>

\* The session, if one is named, is touched; its state is not looked at.
BeginIdentity(s) ==
    /\ s # None => Alive(s)
    /\ sessExp' = [t \in Sids |-> IF t = s THEN now + SessionTTL ELSE sessExp[t]]
    /\ PutChallenge("identity", s)
    /\ UNCHANGED <<now, faceOn, sess, req, busy, frames, counter, uses, histVars>>

BeginProximity(s) ==
    /\ Unissued(s) /\ s \notin busy
    /\ PutChallenge("proximity", s)
    /\ UNCHANGED <<now, faceOn, sessVars, req, busy, frames, counter, uses, histVars>>

-----------------------------------------------------------------------------
(* The finish routes.                                                       *)

MutNotBusy(s) == TRUE

NotBusy(s) == s \notin busy

\* Up to the await of verifyAuthenticationResponse: the credential row is
\* read, then the binding and the challenge are taken.  An unknown credential
\* returns before anything is taken.
Finish(h, svc, c, k, s) ==
    /\ req[h] = Idle
    /\ Consumable(svc, c)
    /\ uses[k] < MaxUses
    /\ IF svc = "proximity"
       THEN s # None /\ Unissued(s) /\ NotBusy(s) /\ busy' = busy \cup {s}
       ELSE s = None /\ UNCHANGED busy
    /\ ch' = [ch EXCEPT ![c] = "used"]
    /\ uses' = [uses EXCEPT ![k] = @ + 1]
    /\ req' = [req EXCEPT ![h] =
          [pc |-> "verifying", svc |-> svc, nonce |-> c, cred |-> k,
           sid |-> TakeSession(svc, c), path |-> s,
           row |-> counter[k], ctr |-> uses[k] + 1]]
    /\ UNCHANGED <<now, faceOn, sessVars, chSvc, chSid, chExp, frames, counter, histVars>>

\* The finally of kiosk-proximity and the end of the request.
Respond(h) ==
    /\ req' = [req EXCEPT ![h] = Idle]
    /\ busy' = busy \ {req[h].path}

VerifyFails(h) ==
    /\ req[h].pc = "verifying"
    /\ Respond(h)
    /\ UNCHANGED <<now, faceOn, sessVars, chVars, frames, counter, uses, histVars>>

\* updateCounter(): against the row read before the await.
UpdateCounter(r) ==
    counter' = IF r.ctr > r.row THEN [counter EXCEPT ![r.cred] = r.ctr] ELSE counter

\* The checks of finish() that only kiosk-proximity asks for:
\* challenge_mismatch and session_closed.
MayIssue(r) ==
    r.svc = "proximity" => r.sid = r.path /\ Unissued(r.path)

Attested(r) == [nonce |-> r.nonce, sub |-> r.cred, sid |-> r.sid, svc |-> r.svc]

\* Verified: sign, record the event, and await the delivery to Aedilis.
Verified(h) ==
    LET r == req[h] IN
    /\ r.pc = "verifying"
    /\ MayIssue(r)
    /\ UpdateCounter(r)
    /\ signed' = signed \cup {Attested(r)}
    /\ req' = [req EXCEPT ![h].pc = "delivering"]
    /\ UNCHANGED <<now, faceOn, sessVars, chVars, busy, frames, uses, recorded, closed, reopened>>

VerifiedRefused(h) ==
    LET r == req[h] IN
    /\ r.pc = "verifying"
    /\ ~ MayIssue(r)
    /\ UpdateCounter(r)
    /\ Respond(h)
    /\ UNCHANGED <<now, faceOn, sessVars, chVars, frames, uses, histVars>>

\* onIssued: sessions.issue(), which needs the session to be alive still.
Issue(a) ==
    IF a.sid # None /\ Alive(a.sid)
    THEN /\ sess' = [sess EXCEPT ![a.sid] = "issued"]
         /\ sessExp' = [sessExp EXCEPT ![a.sid] = now + SessionTTL]
         /\ closed' = closed \cup {a}
         /\ reopened' = IF a.svc = "proximity" THEN reopened \ {a.sid} ELSE reopened
    ELSE UNCHANGED <<sessVars, closed, reopened>>

Recorded(h) ==
    /\ req[h].pc = "delivering"
    /\ recorded' = recorded \cup {Attested(req[h])}
    /\ Issue(Attested(req[h]))
    /\ Respond(h)
    /\ UNCHANGED <<now, faceOn, chVars, frames, counter, uses, signed>>

MutDeliveryFailed(h) ==
    /\ req[h].pc = "delivering"
    /\ recorded' \in {recorded, recorded \cup {Attested(req[h])}}
    /\ Issue(Attested(req[h]))
    /\ Respond(h)
    /\ UNCHANGED <<now, faceOn, chVars, frames, counter, uses, signed>>

\* Refused, unreachable or timed out: 502 and the session is left as it is.
\* Aedilis may hold the record although its answer was lost.
DeliveryFailed(h) ==
    /\ req[h].pc = "delivering"
    /\ recorded' \in {recorded, recorded \cup {Attested(req[h])}}
    /\ Respond(h)
    /\ UNCHANGED <<now, faceOn, sessVars, chVars, frames, counter, uses, signed, closed, reopened>>

-----------------------------------------------------------------------------
(* Face frames (module FaceFlow has what they decide).                       *)

\* process() up to the await of the analysis: an open session is touched.
FrameStart(s) ==
    /\ faceOn
    /\ Unissued(s) /\ sess[s] # "fallback"
    /\ frames' = frames \cup {s}
    /\ sessExp' = [sessExp EXCEPT ![s] = now + SessionTTL]
    /\ UNCHANGED <<now, faceOn, sess, chVars, req, busy, counter, uses, histVars>>

\* After it: other frames of the session may still be under way.
FrameEnds(s) ==
    /\ s \in frames
    /\ frames' \in {frames, frames \ {s}}
    /\ UNCHANGED <<now, faceOn, chVars, req, busy, counter, uses, recorded>>

\* transition() to scanning, challenging or fallback looks only whether the
\* session is alive: an issued one is moved back.  Nothing moves when it has
\* expired, or while the challenge's gesture is not complete.
FrameMoves(s) ==
    /\ FrameEnds(s)
    /\ \/ /\ Alive(s)
          /\ \E st \in {"open", "fallback"} : sess' = [sess EXCEPT ![s] = st]
          /\ sessExp' = [sessExp EXCEPT ![s] = now + SessionTTL]
          /\ reopened' = IF sess[s] = "issued" THEN reopened \cup {s} ELSE reopened
       \/ UNCHANGED <<sessVars, reopened>>
    /\ UNCHANGED <<signed, closed>>

\* The last vote or the challenge is done: issued, and an attestation signed
\* whether or not the session is alive still.
FrameIssues(s) ==
    LET a == [nonce |-> None, sub |-> None, sid |-> s, svc |-> "face"] IN
    /\ FrameEnds(s)
    /\ Issue(a)
    /\ signed' = signed \cup {a}

-----------------------------------------------------------------------------
(* Environment.                                                             *)

Tick ==
    /\ now < MaxTime
    /\ now' = now + 1
    /\ UNCHANGED <<faceOn, sessVars, chVars, req, busy, frames, counter, uses, histVars>>

\* A new process: sessions, challenges and requests are gone, the stored
\* counters are in SQLite.
Restart ==
    /\ sessExp' = [s \in Sids |-> 0]
    /\ ch' = [c \in Challenges |-> IF ch[c] = "unborn" THEN "unborn" ELSE "used"]
    /\ req' = [h \in Handlers |-> Idle]
    /\ busy' = {} /\ frames' = {}
    /\ UNCHANGED <<now, faceOn, sess, chSvc, chSid, chExp, counter, uses, histVars>>

Next ==
    \/ \E s \in Sids :
          \/ CreateSession(s) \/ BeginProximity(s)
          \/ FrameStart(s) \/ FrameMoves(s) \/ FrameIssues(s)
    \/ BeginCheckin
    \/ \E s \in Sids \cup {None} : BeginIdentity(s)
    \/ \E h \in Handlers, svc \in Services, c \in Challenges, k \in Creds,
          s \in Sids \cup {None} : Finish(h, svc, c, k, s)
    \/ \E h \in Handlers :
          \/ VerifyFails(h) \/ Verified(h) \/ VerifiedRefused(h)
          \/ Recorded(h) \/ DeliveryFailed(h)
    \/ Tick
    \/ Restart

Spec == Init /\ [][Next]_vars

-----------------------------------------------------------------------------
(* Properties.                                                              *)

\* One assertion, one attestation: the challenge that becomes an attestation's
\* nonce is spent by it, across the services that share a store and with
\* several finishes in flight (ChallengeStore.consume before the await).
OneAttestationPerChallenge ==
    /\ \A a, b \in signed : a.nonce # None /\ a.nonce = b.nonce => a = b
    /\ \A g, h \in Handlers :
          req[g] # Idle /\ req[h] # Idle /\ req[g].nonce = req[h].nonce => g = h

\* A passkey attestation completes only the session its challenge was begun
\* for, by the same service (takeSessionId, expectedSessionId).
CompletesOwnSession ==
    \A a \in closed : a.svc # "face" =>
        chSid[a.nonce] = a.sid /\ chSvc[a.nonce] = a.svc

\* A session is shown as issued only by an attestation, and one of a passkey
\* only when Aedilis has recorded it: a failed delivery does not mark the
\* session successful (kiosk-proximity-login.md).
IssuedIsRecorded ==
    /\ \A s \in Sids : sess[s] = "issued" => \E a \in closed : a.sid = s
    /\ \A a \in closed : a.svc = "face" \/ a \in recorded

\* The proximity route completes a session another time only after a late face
\* frame has moved the issued session back: concurrent requests are refused
\* while one is in flight, later ones as long as the session is issued.
CompletesAgainOnlyReopened ==
    [][\A a \in closed' \ closed :
          (a.svc = "proximity" /\ \E b \in closed : b.svc = "proximity" /\ b.sid = a.sid)
          => a.sid \in reopened]_vars

\* The same sentence across the services: once a session is issued, by whom
\* ever, the proximity route does not complete it another time.
IssuedCannotIssueAgain ==
    [][\A a \in closed' \ closed : a.svc = "proximity" => sess[a.sid] # "issued"]_vars
=============================================================================
