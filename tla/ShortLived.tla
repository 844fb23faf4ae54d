----------------------------- MODULE ShortLived -----------------------------
(***************************************************************************)
(* Capabilities with a life of their own, kept in memory: the nonces of    *)
(* venue registration (server/venue-registration), the challenges of       *)
(* GLab's automatic attendance (server/automatic-attendance.ts,            *)
(* server/routes/automatic-checkin.ts), the kiosk's browser session        *)
(* (server/kiosk-authorization.ts) and the staff session                   *)
(* (server/face/staff-session.ts).  A restart forgets all of them.         *)
(***************************************************************************)
EXTENDS Naturals, FiniteSets

CONSTANTS VenueNonces,    \* nonces of Cernere's venue challenges
          Challenges,     \* nonces of GLab's facility challenges
          VenueLife,      \* how long Cernere takes a venue nonce (external)
          VenueRetention, \* VENUE_REGISTRATION_NONCE_RETENTION_MS
          ChallengeLife,  \* longest expiresAt - issuedAt that is accepted
          Capacity,       \* entries the ledger of challenges holds
          KioskTTL,       \* DEFAULT_SESSION_TTL_MS
          StaffTTL,       \* life of a staff session
          MaxShortTime    \* bound on the clock, which starts at 1: 0 means absent

ASSUME ShortLivedAssumption ==
    /\ {VenueLife, VenueRetention, ChallengeLife, Capacity} \subseteq Nat
    /\ {KioskTTL, StaffTTL, MaxShortTime} \subseteq Nat \ {0}
    /\ VenueLife <= VenueRetention

VARIABLES
    shortNow,
    venueBorn,     \* Cernere (external): when it issued a nonce
    challenge,     \* GLab (external): issuedAt and expiresAt it signed
    seenAt,        \* VenueRegistrationNonceLedger
    submitting,    \* venue nonces whose attestation is on its way to Cernere
    used,          \* the automatic router's map: nonce -> expiresAt
    kioskEnd, staffEnd,
    \* history since the last start
    venueSigned,      \* per venue nonce, the signatures made while Cernere takes it
    challengeSigned,  \* per challenge, the signatures made
    kioskAge, staffAge  \* greatest age at which a session was honoured

venueVars == <<venueBorn, seenAt, submitting, venueSigned>>
challengeVars == <<challenge, used, challengeSigned>>
sessionVars == <<kioskEnd, staffEnd, kioskAge, staffAge>>
shortVars == <<shortNow, venueVars, challengeVars, sessionVars>>

ShortLivedTypeOK ==
    /\ shortNow \in 1..MaxShortTime
    /\ venueBorn \in [VenueNonces -> Nat] /\ seenAt \in [VenueNonces -> Nat]
    /\ submitting \subseteq VenueNonces
    /\ challenge \in [Challenges -> [from : Nat, until : Nat]]
    /\ used \in [Challenges -> Nat]
    /\ venueSigned \in [VenueNonces -> Nat]
    /\ challengeSigned \in [Challenges -> Nat]
    /\ {kioskEnd, staffEnd, kioskAge, staffAge} \subseteq Nat

ShortLivedInit ==
    /\ shortNow = 1
    /\ venueBorn = [n \in VenueNonces |-> 0] /\ seenAt = [n \in VenueNonces |-> 0]
    /\ submitting = {}
    /\ challenge = [n \in Challenges |-> [from |-> 0, until |-> 0]]
    /\ used = [n \in Challenges |-> 0]
    /\ venueSigned = [n \in VenueNonces |-> 0]
    /\ challengeSigned = [n \in Challenges |-> 0]
    /\ kioskEnd = 0 /\ staffEnd = 0 /\ kioskAge = 0 /\ staffAge = 0

-----------------------------------------------------------------------------
(* Venue registration.                                                      *)

IssueVenueNonce(n) ==
    /\ venueBorn[n] = 0
    /\ venueBorn' = [venueBorn EXCEPT ![n] = shortNow]
    /\ UNCHANGED <<shortNow, seenAt, submitting, venueSigned, challengeVars, sessionVars>>

\* sweep() of the ledger, before every claim.
Seen == [n \in VenueNonces |-> IF seenAt[n] + VenueRetention <= shortNow THEN 0 ELSE seenAt[n]]

MutReused(n) == n \in submitting

\* claim() finds the nonce in the ledger.
Reused(n) == Seen[n] # 0

\* Cernere would take what is signed for the nonce now.
Taken(n) == shortNow < venueBorn[n] + VenueLife

\* POST /api/venue-registration/sessions: the nonce is claimed and signed for
\* before the submission is awaited.
RegisterVenue(n) ==
    /\ venueBorn[n] # 0
    /\ IF Reused(n)
       THEN seenAt' = Seen /\ UNCHANGED <<submitting, venueSigned>>  \* nonce_reused
       ELSE /\ seenAt' = [Seen EXCEPT ![n] = shortNow]
            /\ submitting' = submitting \cup {n}
            /\ venueSigned' = IF Taken(n) THEN [venueSigned EXCEPT ![n] = @ + 1] ELSE venueSigned
    /\ UNCHANGED <<shortNow, venueBorn, challengeVars, sessionVars>>

\* The submission ends, accepted, refused or failed: the claim stays.
SubmissionEnds(n) ==
    /\ n \in submitting
    /\ submitting' = submitting \ {n}
    /\ UNCHANGED <<shortNow, venueBorn, seenAt, venueSigned, challengeVars, sessionVars>>

-----------------------------------------------------------------------------
(* Automatic attendance.                                                    *)

\* GLab's clock may run ahead of the gateway's by one unit.
IssueChallenge(n, from, until) ==
    /\ challenge[n].until = 0
    /\ challenge' = [challenge EXCEPT ![n] = [from |-> from, until |-> until]]
    /\ UNCHANGED <<shortNow, used, challengeSigned, venueVars, sessionVars>>

\* verifyFacilityChallenge, of the times it checks.
ChallengeValid(c) ==
    /\ c.from <= shortNow /\ shortNow < c.until
    /\ c.from < c.until /\ c.until - c.from <= ChallengeLife

Unexpired == [n \in Challenges |-> IF used[n] <= shortNow THEN 0 ELSE used[n]]

MutReplayed(n) == Unexpired[n] > shortNow + 1

\* The ledger has the nonce: 409 challenge_replayed.
Replayed(n) == Unexpired[n] # 0

\* POST /checkin/automatic: 401 before the ledger is looked at, then 409
\* challenge_replayed and 503 busy.
CheckInAutomatically(n) ==
    /\ ChallengeValid(challenge[n])
    /\ IF Replayed(n) \/ Cardinality({m \in Challenges : Unexpired[m] # 0}) >= Capacity
       THEN used' = Unexpired /\ UNCHANGED challengeSigned
       ELSE /\ used' = [Unexpired EXCEPT ![n] = challenge[n].until]
            /\ challengeSigned' = [challengeSigned EXCEPT ![n] = @ + 1]
    /\ UNCHANGED <<shortNow, challenge, venueVars, sessionVars>>

-----------------------------------------------------------------------------
(* Kiosk and staff sessions.                                                *)

Older(age, end, ttl) == IF shortNow + ttl - end > age THEN shortNow + ttl - end ELSE age

\* establishBrowserSession over TLS or loopback, with the shared token.
EstablishBrowserSession ==
    /\ kioskEnd' = shortNow + KioskTTL
    /\ UNCHANGED <<shortNow, staffEnd, kioskAge, staffAge, venueVars, challengeVars>>

\* A session is honoured until its end, not at it.
Honoured(end) == end > shortNow

\* isAuthorized by the cookie over TLS; an expired session is deleted.
AuthorizeByCookie ==
    /\ kioskEnd # 0
    /\ IF Honoured(kioskEnd)
       THEN kioskAge' = Older(kioskAge, kioskEnd, KioskTTL) /\ UNCHANGED kioskEnd
       ELSE kioskEnd' = 0 /\ UNCHANGED kioskAge
    /\ UNCHANGED <<shortNow, staffEnd, staffAge, venueVars, challengeVars>>

\* A staff passkey was verified: StaffSessionStore.create.
CreateStaffSession ==
    /\ staffEnd' = shortNow + StaffTTL
    /\ UNCHANGED <<shortNow, kioskEnd, kioskAge, staffAge, venueVars, challengeVars>>

\* StaffSessionStore.get, by every staff route.
GetStaffSession ==
    /\ staffEnd # 0
    /\ IF Honoured(staffEnd)
       THEN staffAge' = Older(staffAge, staffEnd, StaffTTL) /\ UNCHANGED staffEnd
       ELSE staffEnd' = 0 /\ UNCHANGED staffAge
    /\ UNCHANGED <<shortNow, kioskEnd, kioskAge, venueVars, challengeVars>>

-----------------------------------------------------------------------------
ShortTick ==
    /\ shortNow < MaxShortTime
    /\ shortNow' = shortNow + 1
    /\ UNCHANGED <<venueVars, challengeVars, sessionVars>>

\* The maps are gone, and with them the promise about what was signed before.
RestartForgets ==
    /\ seenAt' = [n \in VenueNonces |-> 0] /\ submitting' = {}
    /\ used' = [n \in Challenges |-> 0]
    /\ kioskEnd' = 0 /\ staffEnd' = 0
    /\ venueSigned' = [n \in VenueNonces |-> 0]
    /\ challengeSigned' = [n \in Challenges |-> 0]
    /\ UNCHANGED <<shortNow, venueBorn, challenge, kioskAge, staffAge>>

\* The three share the clock, but none of their maps.
VenueNext ==
    \/ ShortTick \/ RestartForgets
    \/ \E n \in VenueNonces : IssueVenueNonce(n) \/ RegisterVenue(n) \/ SubmissionEnds(n)

AutomaticNext ==
    \/ ShortTick \/ RestartForgets
    \/ \E n \in Challenges :
         \/ \E from \in {shortNow, shortNow + 1}, life \in 1..(ChallengeLife + 1) :
               IssueChallenge(n, from, from + life)
         \/ CheckInAutomatically(n)

SessionsNext ==
    \/ ShortTick \/ RestartForgets
    \/ EstablishBrowserSession \/ AuthorizeByCookie
    \/ CreateStaffSession \/ GetStaffSession

-----------------------------------------------------------------------------
(* Properties.                                                              *)

\* Between two starts the gateway signs for one venue nonce at most once while
\* Cernere would still take it, and for one facility challenge at most once at
\* all: forgetting an entry never opens the door to a replay, not in the tick
\* of the first request, not at the very deadlines, not with a full ledger (nonce-ledger.ts:27,
\* automatic-checkin.ts:23).
SignedOnce ==
    /\ \A n \in VenueNonces : venueSigned[n] <= 1
    /\ \A n \in Challenges : challengeSigned[n] <= 1

\* No kiosk cookie and no staff session is honoured beyond its life, however
\* late the expired entry is noticed (kiosk-authorization.ts:64,
\* staff-session.ts:16).
HonouredWithinLife == kioskAge < KioskTTL /\ staffAge < StaffTTL

\* A capability that was used up or has expired opens nothing any more.
SpentIsSpent == SignedOnce /\ HonouredWithinLife
=============================================================================
