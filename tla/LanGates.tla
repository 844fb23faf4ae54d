------------------------------ MODULE LanGates ------------------------------
(***************************************************************************)
(* What a request from the LAN passes before a router sees it              *)
(* (server/http-security/*, installed by installLanHardening): the Host    *)
(* and Origin allowlists, the rate limit, the guard of sensitive routes    *)
(* and the one-time request nonce, in this order.                          *)
(*                                                                         *)
(* None of the gates awaits anything, so a request passes all of them in   *)
(* one step.  The clock does not go back.                                  *)
(***************************************************************************)
EXTENDS Naturals, FiniteSets

CONSTANTS Devices,     \* records [key, addr, tls, forwarded]: who sends
          Nonces,      \* request nonces, each issued at most once
          Limit,       \* DEFAULT_RATE_LIMIT.limit
          Window,      \* DEFAULT_RATE_LIMIT.windowMs
          NonceTTL,    \* REQUEST_NONCE_TTL_MS
          MaxGateTime, \* bound on the clock
          NoNonce

ASSUME GatesAssumption ==
    /\ Devices \subseteq [key : STRING, addr : {"loopback", "private", "public", "unknown"},
                          tls : BOOLEAN, forwarded : BOOLEAN]
    /\ {Limit, Window} \subseteq Nat \ {0}
    /\ NonceTTL \in Nat /\ MaxGateTime \in Nat
    /\ NoNonce \notin Nonces

VARIABLES
    gateNow,
    bucket,     \* per key: start of the window and requests counted in it
    lastSweep,  \* lastSweepAt
    nonceState, nonceUntil,
    admitted,   \* history: requests a nonce has let in
    through     \* history: per key, the limited requests let through: the window,
                \* the number in it, the time

gateVars == <<gateNow, bucket, lastSweep, nonceState, nonceUntil, admitted, through>>

Keys == {d.key : d \in Devices}
NoBucket == [start |-> 0, count |-> 0]
Passage == [serial : Nat, start : 0..MaxGateTime, nth : 1..Limit, at : 0..MaxGateTime]

GatesTypeOK ==
    /\ gateNow \in 0..MaxGateTime
    /\ bucket \in [Keys -> [start : 0..MaxGateTime, count : 0..(Limit + 1)]]
    /\ lastSweep \in 0..gateNow
    /\ nonceState \in [Nonces -> {"unissued", "live", "spent"}]
    /\ nonceUntil \in [Nonces -> Nat]
    /\ admitted \in [Nonces -> Nat]
    /\ through \in [Keys -> SUBSET Passage]

GatesInit ==
    /\ gateNow = 0 /\ lastSweep = 0
    /\ bucket = [k \in Keys |-> NoBucket]
    /\ nonceState = [n \in Nonces |-> "unissued"]
    /\ nonceUntil = [n \in Nonces |-> 0]
    /\ admitted = [n \in Nonces |-> 0]
    /\ through = [k \in Keys |-> {}]

-----------------------------------------------------------------------------
(* The classification of routes and connections.                            *)

Routes == {"lan_nonce", "identity_session", "mobile_login", "face_frame"}
IsRateLimitedRoute(r) == r \in {"lan_nonce", "identity_session", "mobile_login"}
IsSensitiveRoute(r) == r \in {"mobile_login", "face_frame"}
RequiresRequestNonce(r) == r \in {"identity_session", "mobile_login"}

\* classifyTransport: a relay header takes the privilege of loopback away.
Transport(d) == IF d.tls THEN "tls"
                ELSE IF d.forwarded \/ d.addr # "loopback" THEN "insecure" ELSE "loopback"

\* createLanGuard: a private address and no relay header.
IsLan(d) == ~d.forwarded /\ d.addr \in {"loopback", "private"}

\* sensitiveRouteGuard: lan_only, secure_transport_required.
GuardPasses(d, r) == IsSensitiveRoute(r) => IsLan(d) /\ Transport(d) # "insecure"

-----------------------------------------------------------------------------
(* The rate limit.                                                          *)

MutWindowOver(b) == gateNow > b.start

\* The window of a bucket has ended; the code takes a new one.
WindowOver(b) == gateNow - b.start >= Window

SweepDue == gateNow - lastSweep >= Window

\* sweep(): the buckets whose window has ended are dropped.
SweptBuckets == IF SweepDue THEN [k \in Keys |-> IF WindowOver(bucket[k]) THEN NoBucket ELSE bucket[k]]
                ELSE bucket

\* hitRateLimit: refused requests count too; the count is capped at Limit + 1.
Hit(b) == LET current == IF b.count = 0 \/ WindowOver(b) THEN [start |-> gateNow, count |-> 0] ELSE b
          IN  [current EXCEPT !.count = IF @ <= Limit THEN @ + 1 ELSE @]

\* History: a request let through, each with a number of its own.
LetThrough(k, b) == [serial |-> Cardinality(through[k]), start |-> b.start, nth |-> b.count, at |-> gateNow]

-----------------------------------------------------------------------------
(* Request nonces.                                                          *)

\* RequestNonceStore.issue(): sweep, prune, put.
SweptNonces == [n \in Nonces |-> IF nonceState[n] = "live" /\ nonceUntil[n] < gateNow
                                 THEN "spent" ELSE nonceState[n]]

IssueNonce ==
    \E n \in Nonces :
        /\ nonceState[n] = "unissued"
        /\ nonceState' = [SweptNonces EXCEPT ![n] = "live"]
        /\ nonceUntil' = [nonceUntil EXCEPT ![n] = gateNow + NonceTTL]

\* consume(): true once, not after the deadline; the entry goes either way.
\* `passes` tells whether the other gates let the request through.
ConsumeNonce(n, passes) ==
    IF n # NoNonce /\ nonceState[n] = "live"
    THEN /\ nonceState' = [nonceState EXCEPT ![n] = "spent"]
         /\ admitted' = [admitted EXCEPT ![n] = IF passes /\ nonceUntil[n] >= gateNow THEN @ + 1 ELSE @]
    ELSE UNCHANGED <<nonceState, admitted>>

MutSpendsNonce(d, r, over) == RequiresRequestNonce(r)

\* Only a request that passed the gates before it spends its nonce.
SpendsNonce(d, r, over) == RequiresRequestNonce(r) /\ ~over /\ GuardPasses(d, r)

-----------------------------------------------------------------------------
(* Requests.                                                                *)

\* misdirected_host and origin_not_allowed change nothing, nor does a request
\* for a route without limit and nonce: they are not steps of their own.
\* This is a request that both allowlists let through; a loopback connection
\* is not limited.
Request(d, r, n) ==
    LET limited == IsRateLimitedRoute(r) /\ Transport(d) # "loopback"
        hit     == Hit(SweptBuckets[d.key])
        over    == limited /\ hit.count > Limit
    IN  /\ IF limited
           THEN /\ bucket' = [SweptBuckets EXCEPT ![d.key] = hit]
                /\ lastSweep' = IF SweepDue THEN gateNow ELSE lastSweep
                /\ through' = IF over THEN through
                              ELSE [through EXCEPT ![d.key] = @ \cup {LetThrough(d.key, hit)}]
           ELSE UNCHANGED <<bucket, lastSweep, through>>
        /\ \/ /\ r = "lan_nonce" /\ ~over
              /\ IssueNonce
              /\ UNCHANGED admitted
           \/ /\ r # "lan_nonce" /\ SpendsNonce(d, r, over)
              /\ ConsumeNonce(n, ~over /\ GuardPasses(d, r))
              /\ UNCHANGED nonceUntil
           \/ /\ IF r = "lan_nonce" THEN over ELSE ~SpendsNonce(d, r, over)
              /\ UNCHANGED <<nonceState, nonceUntil, admitted>>
        /\ UNCHANGED gateNow

GateTick ==
    /\ gateNow < MaxGateTime
    /\ gateNow' = gateNow + 1
    /\ UNCHANGED <<bucket, lastSweep, nonceState, nonceUntil, admitted, through>>

GatesNext ==
    \/ GateTick
    \/ \E d \in Devices, r \in Routes :
         \E n \in {NoNonce} \cup (IF RequiresRequestNonce(r) THEN Nonces ELSE {}) : Request(d, r, n)

-----------------------------------------------------------------------------
(* Properties.                                                              *)

\* In no stretch of one window, wherever it begins, does one address get more
\* than twice the limit through: fixed windows, the sweep of old buckets and
\* requests that were refused included (hitRateLimit, rate-limit.ts:33).
NoBurst ==
    \A k \in Keys, t \in 0..MaxGateTime :
        Cardinality({p \in through[k] : t <= p.at /\ p.at < t + Window}) <= 2 * Limit

\* A nonce that is still valid leaves the store only by letting a request in:
\* one refused by the rate limit or the guard of sensitive routes keeps its
\* nonce for a retry (the order of the gates, install.ts:10).
RefusedKeepsNonce ==
    [][\A n \in Nonces : nonceState[n] = "live" /\ nonceUntil[n] >= gateNow /\ nonceState'[n] # "live"
                            => admitted'[n] = admitted[n] + 1]_gateVars
=============================================================================
