--------------------------- MODULE CachedAnswers ---------------------------
(***************************************************************************)
(* What the gateway remembers of the world for a while: the base URL it    *)
(* shows to clients (createLanBaseUrlResolver, server/lan-route.ts), the   *)
(* Host names it takes (createAllowedHostsResolver,                        *)
(* server/http-security/host-allowlist.ts) and the token it shows to       *)
(* Cernere (createServiceTokenProvider, server/cernere-service-token.ts).  *)
(*                                                                         *)
(* Callers that wait for one detection, or for one login, share it and     *)
(* resume in the same turn: they are one step.                             *)
(***************************************************************************)
EXTENDS Naturals

CONSTANTS Addresses,    \* private IPv4 addresses of the venue's networks
          NoAddress,
          UrlTTL,       \* LAN_BASE_URL_TTL_MS
          HostsTTL,     \* REFRESH_MS
          DetectTime,   \* the timeout of detectDefaultRouteAddress
          TokenLives,   \* lives Cernere gives to a token (external)
          Skew,         \* EXPIRY_SKEW_MS
          FallbackTTL,  \* FALLBACK_TTL_MS
          MaxCacheTime  \* bound on the clock

ASSUME CachedAnswersAssumption ==
    /\ NoAddress \notin Addresses
    /\ {UrlTTL, HostsTTL, DetectTime, Skew, FallbackTTL, MaxCacheTime} \subseteq Nat
    /\ TokenLives \subseteq Nat \ {0}

VARIABLES
    cacheNow,
    address, leftAt,  \* the host's LAN address (external); when it last left one
    urlCache, hostsCache,
    detecting,        \* inFlight of the resolver: what it read, and since when
    token,            \* cached: expiresAt, the end Cernere knows, and whether the
                      \* answer was quick and its life no shorter than assumed
    login             \* inFlight of the provider, and the expiresIn of the answer

addressVars == <<address, leftAt, urlCache, hostsCache, detecting>>
tokenVars == <<token, login>>
cacheVars == <<cacheNow, addressVars, tokenVars>>

Places == Addresses \cup {NoAddress}
Idle == [on |-> FALSE, value |-> NoAddress, since |-> 0]
NoLogin == [at |-> "none", granted |-> 0, end |-> 0, said |-> 0]
NoToken == [until |-> 0, end |-> 0, reliable |-> TRUE]

CachedAnswersTypeOK ==
    /\ cacheNow \in 0..MaxCacheTime
    /\ address \in Places /\ leftAt \in [Addresses -> 0..cacheNow]
    /\ {urlCache, hostsCache} \subseteq [value : Places, until : Nat]
    /\ detecting \in [on : BOOLEAN, value : Places, since : 0..cacheNow]
    /\ token \in [until : Nat, end : Nat, reliable : BOOLEAN]
    /\ login \in [at : {"none", "asked", "granted"}, granted : 0..cacheNow, end : Nat, said : Nat]

CachedAnswersInit ==
    /\ cacheNow = 0
    /\ address = NoAddress /\ leftAt = [a \in Addresses |-> 0]
    /\ urlCache = [value |-> NoAddress, until |-> 0]
    /\ hostsCache = [value |-> NoAddress, until |-> 0]
    /\ detecting = Idle
    /\ token = NoToken /\ login = NoLogin

-----------------------------------------------------------------------------
(* The venue's network (external) and the two caches of its address.        *)

MoveNetwork(a) ==
    /\ a # address
    /\ address' = a
    /\ leftAt' = IF address = NoAddress THEN leftAt ELSE [leftAt EXCEPT ![address] = cacheNow]
    /\ UNCHANGED <<cacheNow, urlCache, hostsCache, detecting, tokenVars>>

\* The interfaces are listed at once; the answer for Wi-Fi needs no more.
AskBaseUrl ==
    /\ cacheNow >= urlCache.until /\ ~detecting.on
    /\ detecting' = [on |-> TRUE, value |-> address, since |-> cacheNow]
    /\ UNCHANGED <<cacheNow, address, leftAt, urlCache, hostsCache, tokenVars>>

\* The life in the cache counts from the end of the detection.
KeepUrl(v) == [value |-> v, until |-> cacheNow + UrlTTL]

\* The default route is an address of the list taken at the start, or unknown.
DetectionEnds ==
    /\ detecting.on
    /\ \E v \in {detecting.value, NoAddress} : urlCache' = KeepUrl(v)
    /\ detecting' = Idle
    /\ UNCHANGED <<cacheNow, address, leftAt, hostsCache, tokenVars>>

\* Every request resolves the allowed hosts, without waiting.
ResolveAllowedHosts ==
    /\ cacheNow >= hostsCache.until
    /\ hostsCache' = [value |-> address, until |-> cacheNow + HostsTTL]
    /\ UNCHANGED <<cacheNow, address, leftAt, urlCache, detecting, tokenVars>>

-----------------------------------------------------------------------------
(* The service token.                                                       *)

\* A caller finds no token, or one that has expired, and nobody logging in.
BeginTokenLogin ==
    /\ token.until <= cacheNow /\ login.at = "none"
    /\ login' = [NoLogin EXCEPT !.at = "asked"]
    /\ UNCHANGED <<cacheNow, addressVars, token>>

\* Cernere makes the token (external); its life counts from here.  The answer
\* says how long it is, or nothing that can be used.
CernereGrants(life, said) ==
    /\ login.at = "asked"
    /\ login' = [at |-> "granted", granted |-> cacheNow, end |-> cacheNow + life, said |-> said]
    /\ UNCHANGED <<cacheNow, addressVars, token>>

\* ttlSec: without a usable expiresIn the life is assumed.
AssumedLife(said) == IF said # 0 THEN said ELSE FallbackTTL

MutTokenLife(said) == AssumedLife(said)

\* Math.max(ttlSec - EXPIRY_SKEW_MS, 0)
TokenLife(said) == IF AssumedLife(said) > Skew THEN AssumedLife(said) - Skew ELSE 0

LoginAnswered ==
    /\ login.at = "granted"
    /\ token' = [until |-> cacheNow + TokenLife(login.said), end |-> login.end,
                 reliable |-> /\ cacheNow - login.granted <= Skew
                              /\ AssumedLife(login.said) <= login.end - login.granted]
    /\ login' = NoLogin
    /\ UNCHANGED <<cacheNow, addressVars>>

\* Every caller that waited fails; the next one logs in again.
LoginFails ==
    /\ login.at # "none"
    /\ login' = NoLogin
    /\ UNCHANGED <<cacheNow, addressVars, token>>

CacheTick ==
    /\ cacheNow < MaxCacheTime
    /\ detecting.on => cacheNow < detecting.since + DetectTime
    /\ cacheNow' = cacheNow + 1
    /\ UNCHANGED <<addressVars, tokenVars>>

AddressesNext ==
    \/ CacheTick
    \/ \E a \in Places : MoveNetwork(a)
    \/ AskBaseUrl \/ DetectionEnds \/ ResolveAllowedHosts

TokensNext ==
    \/ CacheTick
    \/ BeginTokenLogin \/ LoginAnswered \/ LoginFails
    \/ \E life \in TokenLives : \E said \in {0, life} : CernereGrants(life, said)

-----------------------------------------------------------------------------
(* Properties.                                                              *)

Outdated(cache, within) ==
    /\ cacheNow < cache.until /\ cache.value \in Addresses \ {address}
    /\ cacheNow >= leftAt[cache.value] + within

\* The gateway answers neither with an address the host left longer ago than
\* the life in the cache (and, for the base URL, the time of a detection that
\* had read it before), nor with a token Cernere no longer takes, if Cernere's
\* answer took no longer than the skew and stated the token's life, or gave one
\* no shorter than the fallback (lan-route.ts:128, host-allowlist.ts:61,
\* cernere-service-token.ts:72-75).
AnswersAreFresh ==
    /\ ~Outdated(urlCache, UrlTTL + DetectTime)
    /\ ~Outdated(hostsCache, HostsTTL)
    /\ token.reliable /\ cacheNow < token.until => cacheNow < token.end
=============================================================================
