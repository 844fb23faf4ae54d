--------------------------- MODULE ServicesProofs ---------------------------
(***************************************************************************)
(* Proofs about the services of the server in Services, for any values of  *)
(* the constants that satisfy their assumptions.  The pages are in         *)
(* PanelsProofs.                                                           *)
(***************************************************************************)
EXTENDS Services, FiniteSetTheorems, TLAPS

\* A step of the gateway is a step of one service, and the others stand still.
LEMMA OneMoves ==
    ASSUME [ServicesNext]_vars
    PROVE  /\ MobileNext \/ UNCHANGED mobileAllVars
           /\ GatesNext \/ UNCHANGED gateVars
           /\ VenueNext \/ AutomaticNext \/ SessionsNext \/ UNCHANGED shortVars
           /\ AddressesNext \/ TokensNext \/ UNCHANGED cacheVars
           /\ CertificatesNext \/ UNCHANGED certVars
           /\ KeysNext \/ BackupsNext \/ UNCHANGED storageVars
           /\ MfaPanelNext \/ UNCHANGED mfaVars
           /\ ReviewPanelNext \/ UNCHANGED reviewVars
           /\ KioskPageNext \/ UNCHANGED pageVars
           /\ ProximityPanelNext \/ UNCHANGED proxVars
           /\ EnrollPanelNext \/ UNCHANGED enrolVars
  BY DEF ServicesNext, Mobile, Mfa, Page, Cached, vars

-----------------------------------------------------------------------------
(* The profile client and the check-in with a password.                     *)

LEMMA ScheduleType == ScheduleReconnect => reconnectTimer' \in BOOLEAN
  BY ZenonT(30) DEF ScheduleReconnect

LEMMA MobileTypes ==
    ASSUME VantanTypeOK, MobileTypeOK, MobileNext \/ UNCHANGED mobileAllVars
    PROVE  VantanTypeOK' /\ MobileTypeOK'
<1> USE VantanAssumption DEF VantanTypeOK, MobileTypeOK, Logins, Replies, Sockets, vantanVars,
        mobileVars, Settle, PendingFailed, WsAfterClose
<1>1. ASSUME VantanNext, UNCHANGED mobileVars PROVE VantanTypeOK' /\ MobileTypeOK'
  <2>1. CASE Start
    BY <1>1, <2>1 DEF Start
  <2>6. CASE ReconnectTimerFires
    <3>1. reconnectTimer' \in BOOLEAN
      BY <2>6, Zenon DEF ReconnectTimerFires
    <3> QED
      BY <1>1, <2>6, <3>1 DEF ReconnectTimerFires
  <2>7. CASE ConnectFails
    BY <1>1, <2>7, ScheduleType DEF ConnectFails
  <2>2. CASE TokenArrives
    BY <1>1, <2>2 DEF TokenArrives
  <2>3. CASE CloseClient
    BY <1>1, <2>3 DEF CloseClient, TimerAfterClose
  <2>4. ASSUME NEW s \in Sockets, SocketOpens(s) \/ SocketErrors(s) \/ SocketCloses(s)
        PROVE  VantanTypeOK' /\ MobileTypeOK'
    BY <1>1, <2>4, ScheduleType DEF SocketOpens, SocketErrors, SocketCloses
  <2>5. ASSUME NEW c \in Calls, Answered(c) \/ RequestTimesOut(c)
        PROVE  VantanTypeOK' /\ MobileTypeOK'
    BY <1>1, <2>5 DEF Answered, RequestTimesOut
  <2> QED
    BY <1>1, <2>1, <2>2, <2>3, <2>4, <2>5, <2>6, <2>7 DEF VantanNext
<1>2. ASSUME NEW l \in Logins, Submit(l) \/ MobileStep(l) \/ FormShows(l)
      PROVE  VantanTypeOK' /\ MobileTypeOK'
  <2>1. CASE Submit(l)
    BY <2>1 DEF Submit
  <2>2. CASE LoginRefused(l)
    BY <2>2 DEF LoginRefused
  <2>3. CASE LoginAccepted(l)
    BY <2>3 DEF LoginAccepted, Ask
  <2>4. CASE BeginDelivery(l)
    BY <2>4 DEF BeginDelivery
  <2>5. CASE DeliveryEnds(l)
    BY <2>5 DEF DeliveryEnds, DeliveryReply
  <2>6. CASE FormShows(l)
    BY <2>6 DEF FormShows
  <2> QED
    BY <1>2, <2>1, <2>2, <2>3, <2>4, <2>5, <2>6 DEF MobileStep
<1>3. CASE UNCHANGED mobileAllVars
  BY <1>3 DEF mobileAllVars
<1> QED
  BY <1>1, <1>2, <1>3 DEF MobileNext

\* No action on the client leaves it without a retry, or brings anything back
\* after close().
LEMMA RetriesNext ==
    ASSUME VantanTypeOK, RetriesUntilClosed, MobileNext \/ UNCHANGED mobileAllVars
    PROVE  RetriesUntilClosed'
<1> USE VantanAssumption DEF VantanTypeOK, Sockets, NoSocket, RetriesUntilClosed, NeverGivesUp,
        ClosedStaysClosed, ScheduleReconnect, Settle, PendingFailed, WsAfterClose
<1>1. ASSUME VantanNext PROVE RetriesUntilClosed'
  <2>1. CASE Start \/ ReconnectTimerFires \/ ConnectFails
    BY <2>1 DEF Start, ReconnectTimerFires, ConnectFails
  <2>2. CASE TokenArrives
    BY <2>2 DEF TokenArrives
  <2>3. CASE CloseClient
    BY <2>3 DEF CloseClient, TimerAfterClose
  <2>4. ASSUME NEW s \in Sockets, SocketOpens(s) \/ SocketErrors(s) \/ SocketCloses(s)
        PROVE  RetriesUntilClosed'
    BY <2>4 DEF SocketOpens, SocketErrors, SocketCloses
  <2>5. ASSUME NEW c \in Calls, Answered(c) \/ RequestTimesOut(c)
        PROVE  RetriesUntilClosed'
    BY <2>5 DEF Answered, RequestTimesOut
  <2> QED
    BY <1>1, <2>1, <2>2, <2>3, <2>4, <2>5 DEF VantanNext
<1>2. ASSUME NEW l \in Logins, LoginAccepted(l) PROVE RetriesUntilClosed'
  BY <1>2 DEF LoginAccepted, Ask, Connected, Logins
<1>3. CASE UNCHANGED vantanVars
  BY <1>3 DEF vantanVars
<1> QED
  BY <1>1, <1>2, <1>3 DEF MobileNext, MobileStep, Submit, LoginRefused, BeginDelivery,
     DeliveryEnds, FormShows, mobileAllVars

RetriesInv == VantanTypeOK /\ MobileTypeOK /\ RetriesUntilClosed

LEMMA RetriesStart == ServicesInit => RetriesInv
<1> SUFFICES ASSUME VantanInit, MobileInit PROVE RetriesInv
  BY DEF ServicesInit
<1>1. VantanTypeOK
  <2>1. started \in BOOLEAN /\ closedByCaller \in BOOLEAN /\ reconnectTimer \in BOOLEAN
    BY Zenon DEF VantanInit
  <2> QED
    BY <2>1, VantanAssumption DEF VantanInit, VantanTypeOK, Sockets, NoSocket
<1>2. MobileTypeOK
  BY DEF MobileInit, MobileTypeOK, Logins, Replies
<1>3. RetriesUntilClosed
  BY DEF VantanInit, RetriesUntilClosed, NeverGivesUp, ClosedStaysClosed
<1> QED
  BY <1>1, <1>2, <1>3 DEF RetriesInv

LEMMA RetriesStep == RetriesInv /\ [ServicesNext]_vars => RetriesInv'
  BY OneMoves, MobileTypes, RetriesNext DEF RetriesInv

\* However errors, close events, timers and tokens arrive, the profile client
\* has a retry ahead until it is closed, and nothing afterwards
\* (vantan-user-client.ts, scheduleReconnect and close).
THEOREM ClientRetriesUntilClosed == Spec => []RetriesUntilClosed
<1>1. RetriesInv => RetriesUntilClosed
  BY DEF RetriesInv
<1> QED
  BY RetriesStart, RetriesStep, <1>1, PTL DEF Spec

-----------------------------------------------------------------------------
(* The gates of a request: the rate limit.                                  *)

\* A window that has passed: what was let through in it no longer counts.
Past(p) == p.start + Window <= gateNow

\* A bucket accounts for the requests of its key: each was let through in a
\* window that has passed or in the bucket's own, as one of those counted.
Accounts(b, k) ==
    /\ b.start <= gateNow
    /\ \A p \in through[k] : Past(p) \/ (p.start = b.start /\ p.nth <= b.count)
    /\ b.count > 0 => \A p \in through[k] : p.start = b.start \/ p.start + Window <= b.start

\* The windows of one key do not overlap, and in each of them a request has a
\* number of its own.
Apart(S) ==
    \A p, q \in S :
        /\ p.start # q.start => p.start + Window <= q.start \/ q.start + Window <= p.start
        /\ p.start = q.start /\ p.nth = q.nth => p = q

\* Every request was let through inside its window.
Inside(S) == \A p \in S : p.start <= p.at /\ p.at < p.start + Window /\ p.at <= gateNow

GatesInv ==
    /\ GatesTypeOK
    /\ \A k \in Keys : IsFiniteSet(through[k])
    /\ \A k \in Keys : Accounts(bucket[k], k) /\ Apart(through[k]) /\ Inside(through[k])

LEMMA SweepAccounts ==
    ASSUME GatesInv, NEW k \in Keys
    PROVE  /\ SweptBuckets \in [Keys -> [start : 0..MaxGateTime, count : 0..(Limit + 1)]]
           /\ Accounts(SweptBuckets[k], k)
<1>1. MaxGateTime \in Nat /\ Limit \in Nat \ {0} /\ Window \in Nat \ {0}
  BY GatesAssumption
<1>2. NoBucket \in [start : 0..MaxGateTime, count : 0..(Limit + 1)]
  BY <1>1 DEF NoBucket
<1>3. SweptBuckets \in [Keys -> [start : 0..MaxGateTime, count : 0..(Limit + 1)]]
  BY <1>2 DEF SweptBuckets, GatesInv, GatesTypeOK
<1>4. CASE SweptBuckets[k] = bucket[k]
  BY <1>3, <1>4 DEF GatesInv
<1>5. CASE SweptBuckets[k] = NoBucket /\ WindowOver(bucket[k])
  <2>1. bucket[k].start \in 0..MaxGateTime /\ gateNow \in 0..MaxGateTime
    BY DEF GatesInv, GatesTypeOK
  <2>2. \A p \in through[k] : Past(p)
    BY <1>1, <1>5, <2>1 DEF GatesInv, Accounts, Past, WindowOver
  <2> QED
    BY <1>1, <1>3, <1>5, <2>1, <2>2 DEF Accounts, NoBucket
<1> QED
  BY <1>3, <1>4, <1>5 DEF SweptBuckets

\* A hit counts the request in the bucket's window, or opens a new one only when
\* the requests of the old one have passed.
LEMMA HitAccounts ==
    ASSUME GatesInv, NEW k \in Keys,
           NEW b \in [start : 0..MaxGateTime, count : 0..(Limit + 1)], Accounts(b, k)
    PROVE  /\ Hit(b) \in [start : 0..MaxGateTime, count : 1..(Limit + 1)]
           /\ Accounts(Hit(b), k)
           /\ gateNow < Hit(b).start + Window
           /\ Hit(b).count <= Limit =>
                \A p \in through[k] : p.start = Hit(b).start => p.nth < Hit(b).count
<1>1. MaxGateTime \in Nat /\ Limit \in Nat \ {0} /\ Window \in Nat \ {0} /\ gateNow \in 0..MaxGateTime
  BY GatesAssumption DEF GatesInv, GatesTypeOK
<1>2. \A p \in through[k] : p.start \in 0..MaxGateTime /\ p.nth \in 1..Limit
  BY DEF GatesInv, GatesTypeOK, Passage
<1>3. CASE b.count = 0 \/ WindowOver(b)
  <2>1. Hit(b) = [start |-> gateNow, count |-> 1]
    BY <1>1, <1>3 DEF Hit
  <2>2. \A p \in through[k] : Past(p)
    BY <1>1, <1>2, <1>3 DEF Accounts, Past, WindowOver
  <2> QED
    BY <1>1, <1>2, <2>1, <2>2 DEF Accounts, Past
<1>4. CASE b.count # 0 /\ ~WindowOver(b)
  <2>1. /\ Hit(b).start = b.start
        /\ Hit(b).count = (IF b.count <= Limit THEN b.count + 1 ELSE b.count)
        /\ Hit(b) = [start |-> b.start, count |-> IF b.count <= Limit THEN b.count + 1 ELSE b.count]
    BY <1>4 DEF Hit
  <2>2. gateNow < b.start + Window
    BY <1>1, <1>4 DEF WindowOver
  <2>3. Hit(b).count \in 1..(Limit + 1) /\ b.count <= Hit(b).count
    BY <1>1, <1>4, <2>1
  <2>4. Accounts(Hit(b), k)
    BY <1>1, <1>2, <1>4, <2>1, <2>3 DEF Accounts
  <2>5. ASSUME Hit(b).count <= Limit, NEW p \in through[k], p.start = Hit(b).start
        PROVE  p.nth < Hit(b).count
    BY <1>1, <1>2, <2>1, <2>2, <2>5 DEF Accounts, Past
  <2> QED
    BY <2>1, <2>2, <2>3, <2>4, <2>5
<1> QED
  BY <1>3, <1>4

\* One request more, let through in the bucket's window with the next number.
LEMMA PassageKeepsApart ==
    ASSUME GatesInv, NEW k \in Keys,
           NEW b \in [start : 0..MaxGateTime, count : 1..(Limit + 1)], Accounts(b, k),
           gateNow < b.start + Window, b.count <= Limit,
           \A p \in through[k] : p.start = b.start => p.nth < b.count,
           NEW S, S = through[k] \cup {LetThrough(k, b)}
    PROVE  /\ S \subseteq Passage /\ IsFiniteSet(S) /\ Apart(S) /\ Inside(S)
           /\ \A p \in S : Past(p) \/ (p.start = b.start /\ p.nth <= b.count)
           /\ \A p \in S : p.start = b.start \/ p.start + Window <= b.start
<1> DEFINE new == LetThrough(k, b)
<1>1. MaxGateTime \in Nat /\ Limit \in Nat \ {0} /\ Window \in Nat \ {0} /\ gateNow \in 0..MaxGateTime
  BY GatesAssumption DEF GatesInv, GatesTypeOK
<1>2. \A p \in through[k] : p.start \in 0..MaxGateTime /\ p.nth \in 1..Limit /\ p.at \in 0..MaxGateTime
  BY DEF GatesInv, GatesTypeOK, Passage
<1>3. IsFiniteSet(through[k]) /\ through[k] \subseteq Passage
  BY DEF GatesInv, GatesTypeOK
<1>4. Cardinality(through[k]) \in Nat
  BY <1>3, FS_CardinalityType
<1>5. /\ new \in Passage /\ new.start = b.start /\ new.nth = b.count /\ new.at = gateNow
  BY <1>1, <1>4 DEF LetThrough, Passage
<1> HIDE DEF new
<1>6. IsFiniteSet(S)
  BY <1>3, FS_AddElement DEF new
<1>7. b.start <= gateNow /\ \A p \in through[k] : p.start = b.start \/ p.start + Window <= b.start
  BY <1>1 DEF Accounts
<1>8. Apart(S)
  <2> SUFFICES ASSUME NEW p \in S, NEW q \in S
               PROVE  /\ p.start # q.start => p.start + Window <= q.start \/ q.start + Window <= p.start
                      /\ p.start = q.start /\ p.nth = q.nth => p = q
    BY DEF Apart
  <2>1. CASE p \in through[k] /\ q \in through[k]
    BY <2>1 DEF GatesInv, Apart
  <2>2. CASE p = new /\ q \in through[k]
    BY <1>1, <1>2, <1>5, <1>7, <2>2
  <2>3. CASE q = new /\ p \in through[k]
    BY <1>1, <1>2, <1>5, <1>7, <2>3
  <2> QED
    BY <2>1, <2>2, <2>3 DEF new
<1>9. Inside(S)
  BY <1>1, <1>5, <1>7 DEF GatesInv, Inside, new
<1> QED
  BY <1>1, <1>3, <1>5, <1>6, <1>7, <1>8, <1>9 DEF new, Accounts

LEMMA NonceTypes ==
    ASSUME GatesTypeOK, NEW d \in Devices, NEW r \in Routes,
           NEW n \in {NoNonce} \cup Nonces, Request(d, r, n)
    PROVE  /\ nonceState' \in [Nonces -> {"unissued", "live", "spent"}]
           /\ nonceUntil' \in [Nonces -> Nat] /\ admitted' \in [Nonces -> Nat] /\ gateNow' = gateNow
<1> USE DEF GatesTypeOK
<1>1. NonceTTL \in Nat /\ gateNow \in Nat
  BY GatesAssumption
<1>2. CASE IssueNonce /\ UNCHANGED admitted
  <2>1. SweptNonces \in [Nonces -> {"unissued", "live", "spent"}]
    BY DEF SweptNonces
  <2> QED
    BY <1>1, <1>2, <2>1 DEF IssueNonce, Request
<1>3. ASSUME NEW passes, ConsumeNonce(n, passes), UNCHANGED nonceUntil
      PROVE  /\ nonceState' \in [Nonces -> {"unissued", "live", "spent"}]
             /\ nonceUntil' \in [Nonces -> Nat] /\ admitted' \in [Nonces -> Nat]
  BY <1>3 DEF ConsumeNonce
<1> QED
  BY <1>2, <1>3 DEF Request

\* A limited request counts, and the windows stay apart.
LEMMA LimitedCounts ==
    ASSUME GatesInv, NEW d \in Devices, NEW r \in Routes, NEW n \in {NoNonce} \cup Nonces,
           Request(d, r, n), IsRateLimitedRoute(r) /\ Transport(d) # "loopback"
    PROVE  GatesInv'
<1> DEFINE k == d.key
           hit == Hit(SweptBuckets[k])
<1>1. k \in Keys /\ MaxGateTime \in Nat /\ Limit \in Nat \ {0} /\ Window \in Nat \ {0}
      /\ gateNow \in 0..MaxGateTime /\ gateNow' = gateNow /\ lastSweep \in 0..gateNow
  BY GatesAssumption, NonceTypes DEF Keys, GatesInv, GatesTypeOK
<1>2. /\ SweptBuckets \in [Keys -> [start : 0..MaxGateTime, count : 0..(Limit + 1)]]
      /\ \A j \in Keys : Accounts(SweptBuckets[j], j)
  BY <1>1, SweepAccounts
<1>3. /\ hit \in [start : 0..MaxGateTime, count : 1..(Limit + 1)]
      /\ Accounts(hit, k) /\ gateNow < hit.start + Window
      /\ hit.count <= Limit => \A p \in through[k] : p.start = hit.start => p.nth < hit.count
  <2>1. SweptBuckets[k] \in [start : 0..MaxGateTime, count : 0..(Limit + 1)] /\ Accounts(SweptBuckets[k], k)
    BY <1>1, <1>2
  <2> QED
    BY <1>1, <2>1, HitAccounts
<1>4. /\ bucket' = [SweptBuckets EXCEPT ![k] = hit]
      /\ lastSweep' = IF SweepDue THEN gateNow ELSE lastSweep
      /\ through' = IF hit.count > Limit THEN through
                    ELSE [through EXCEPT ![k] = @ \cup {LetThrough(k, hit)}]
  BY DEF Request
<1> HIDE DEF k, hit
<1>5. bucket' \in [Keys -> [start : 0..MaxGateTime, count : 0..(Limit + 1)]]
      /\ bucket'[k] = hit /\ \A j \in Keys \ {k} : bucket'[j] = SweptBuckets[j]
  <2>1. hit \in [start : 0..MaxGateTime, count : 0..(Limit + 1)]
    BY <1>1, <1>3
  <2> QED
    BY <1>1, <1>2, <1>4, <2>1
<1>6. lastSweep' \in 0..gateNow'
  BY <1>1, <1>4
<1>7. /\ nonceState' \in [Nonces -> {"unissued", "live", "spent"}]
      /\ nonceUntil' \in [Nonces -> Nat] /\ admitted' \in [Nonces -> Nat]
  BY NonceTypes DEF GatesInv
<1>8. through \in [Keys -> SUBSET Passage]
  BY DEF GatesInv, GatesTypeOK
<1>9. CASE hit.count > Limit
  <2>1. through' = through
    BY <1>4, <1>9
  <2>2. \A j \in Keys : Accounts(bucket[j], j)'
    <3>1. \A j \in Keys : Accounts(bucket'[j], j)
      BY <1>2, <1>3, <1>5
    <3> QED
      BY <3>1, <2>1, <1>1 DEF Accounts, Past
  <2> QED
    BY <1>1, <1>5, <1>6, <1>7, <1>8, <2>1, <2>2 DEF GatesInv, GatesTypeOK, Apart, Inside
<1>10. CASE ~(hit.count > Limit)
  <2>1. hit.count <= Limit
    BY <1>1, <1>3, <1>10
  <2> DEFINE S == through[k] \cup {LetThrough(k, hit)}
  <2>2. /\ S \subseteq Passage /\ IsFiniteSet(S) /\ Apart(S) /\ Inside(S)
        /\ \A p \in S : Past(p) \/ (p.start = hit.start /\ p.nth <= hit.count)
        /\ \A p \in S : p.start = hit.start \/ p.start + Window <= hit.start
    BY <1>1, <1>3, <2>1, PassageKeepsApart
  <2>3. through'[k] = S /\ \A j \in Keys \ {k} : through'[j] = through[j]
    BY <1>1, <1>4, <1>8, <1>10
  <2>4. through' \in [Keys -> SUBSET Passage]
    BY <1>1, <1>4, <1>8, <1>10, <2>2
  <2> HIDE DEF S
  <2>5. ASSUME NEW j \in Keys
        PROVE  IsFiniteSet(through'[j]) /\ Accounts(bucket[j], j)' /\ Apart(through'[j]) /\ Inside(through[j])'
    <3>1. CASE j = k
      <4>1. Accounts(bucket[j], j)'
        BY <1>1, <1>3, <1>5, <2>2, <2>3, <3>1 DEF Accounts, Past
      <4> QED
        BY <1>1, <2>2, <2>3, <3>1, <4>1 DEF Inside
    <3>2. CASE j # k
      <4>1. through'[j] = through[j] /\ bucket'[j] = SweptBuckets[j]
        BY <1>5, <2>3, <3>2
      <4>2. Accounts(bucket[j], j)'
        BY <1>1, <1>2, <4>1 DEF Accounts, Past
      <4> QED
        BY <1>1, <4>1, <4>2 DEF GatesInv, Inside
    <3> QED
      BY <3>1, <3>2
  <2> QED
    BY <1>1, <1>5, <1>6, <1>7, <2>4, <2>5 DEF GatesInv, GatesTypeOK
<1> QED
  BY <1>9, <1>10

LEMMA GatesStep == GatesInv /\ (GatesNext \/ UNCHANGED gateVars) => GatesInv'
<1> SUFFICES ASSUME GatesInv, GatesNext \/ UNCHANGED gateVars PROVE GatesInv'
  OBVIOUS
<1> USE GatesAssumption
<1>1. CASE GateTick
  <2>1. gateNow' \in 0..MaxGateTime /\ gateNow' = gateNow + 1 /\ gateNow \in Nat
    BY <1>1 DEF GateTick, GatesInv, GatesTypeOK
  <2>2. UNCHANGED <<bucket, lastSweep, nonceState, nonceUntil, admitted, through>>
    BY <1>1 DEF GateTick
  <2>3. GatesTypeOK'
    BY <2>1, <2>2 DEF GatesInv, GatesTypeOK
  <2>4. ASSUME NEW k \in Keys
        PROVE  Accounts(bucket[k], k)' /\ Inside(through[k])'
    <3>1. bucket[k].start \in Nat /\ Window \in Nat
          /\ \A p \in through[k] : p.start \in Nat /\ p.at \in Nat
      BY DEF GatesInv, GatesTypeOK, Passage
    <3>2. Accounts(bucket[k], k)'
      BY <2>1, <2>2, <3>1 DEF GatesInv, Accounts, Past
    <3>3. Inside(through[k])'
      BY <2>1, <2>2, <3>1 DEF GatesInv, Inside
    <3> QED
      BY <3>2, <3>3
  <2> QED
    BY <2>2, <2>3, <2>4 DEF GatesInv, Apart
<1>2. ASSUME NEW d \in Devices, NEW r \in Routes, NEW n \in {NoNonce} \cup Nonces, Request(d, r, n)
      PROVE  GatesInv'
  <2>1. CASE IsRateLimitedRoute(r) /\ Transport(d) # "loopback"
    BY <1>2, <2>1, LimitedCounts
  <2>2. CASE ~(IsRateLimitedRoute(r) /\ Transport(d) # "loopback")
    <3>1. UNCHANGED <<bucket, lastSweep, through, gateNow>>
      BY <1>2, <2>2 DEF Request
    <3>2. GatesTypeOK'
      BY <1>2, <3>1, NonceTypes DEF GatesInv, GatesTypeOK
    <3> QED
      BY <3>1, <3>2 DEF GatesInv, Accounts, Apart, Inside, Past
  <2> QED
    BY <2>1, <2>2
<1>3. CASE UNCHANGED gateVars
  BY <1>3 DEF gateVars, GatesInv, GatesTypeOK, Accounts, Apart, Inside, Past
<1> QED
  BY <1>1, <1>2, <1>3 DEF GatesNext

LEMMA GatesStart == ServicesInit => GatesInv
<1> SUFFICES ASSUME GatesInit PROVE GatesInv
  BY DEF ServicesInit
<1>1. MaxGateTime \in Nat /\ Limit \in Nat \ {0} /\ Window \in Nat \ {0}
  BY GatesAssumption
<1>2. GatesTypeOK
  <2>1. NoBucket \in [start : 0..MaxGateTime, count : 0..(Limit + 1)]
    BY <1>1 DEF NoBucket
  <2> QED
    BY <1>1, <2>1 DEF GatesInit, GatesTypeOK
<1>3. \A k \in Keys : IsFiniteSet(through[k])
  BY FS_EmptySet DEF GatesInit
<1>4. \A k \in Keys : Accounts(bucket[k], k) /\ Apart(through[k]) /\ Inside(through[k])
  BY DEF GatesInit, Accounts, Apart, Inside, NoBucket
<1> QED
  BY <1>2, <1>3, <1>4 DEF GatesInv

\* Of one window no more requests are let through than the limit.
LEMMA OneWindowKeepsLimit ==
    ASSUME GatesInv, NEW k \in Keys, NEW S \in SUBSET through[k],
           \A p, q \in S : p.start = q.start
    PROVE  IsFiniteSet(S) /\ Cardinality(S) \in Nat /\ Cardinality(S) <= Limit
<1> DEFINE f == [p \in S |-> p.nth]
<1>1. Limit \in Nat \ {0} /\ \A p \in S : p.nth \in 1..Limit
  BY GatesAssumption DEF GatesInv, GatesTypeOK, Passage
<1>2. \A p, q \in S : f[p] = f[q] => p = q
  BY DEF GatesInv, Apart
<1>3. f \in Injection(S, 1..Limit)
  <2>1. f \in [S -> 1..Limit] /\ DOMAIN f = S
    BY <1>1
  <2> QED
    BY <1>2, <2>1 DEF Injection, IsInjective
<1>4. IsFiniteSet(1..Limit) /\ Cardinality(1..Limit) = Limit
  <2>1. 1 \in Int /\ Limit \in Int /\ ~(1 > Limit) /\ Limit - 1 + 1 = Limit
    BY <1>1
  <2>2. Cardinality(1..Limit) = IF 1 > Limit THEN 0 ELSE Limit - 1 + 1
    BY <2>1, FS_Interval, Zenon
  <2> QED
    BY <2>1, <2>2, FS_Interval
<1>5. IsFiniteSet(S) /\ Cardinality(S) <= Cardinality(1..Limit)
  BY <1>3, <1>4, FS_Injection
<1> QED
  BY <1>4, <1>5, FS_CardinalityType

\* A stretch as long as a window meets two windows at most: one that began
\* before it, one that began in it.
LEMMA TwoWindows == GatesInv => NoBurst
<1> SUFFICES ASSUME GatesInv, NEW k \in Keys, NEW t \in 0..MaxGateTime
             PROVE  Cardinality({p \in through[k] : t <= p.at /\ p.at < t + Window}) <= 2 * Limit
  BY DEF NoBurst
<1> DEFINE S == {p \in through[k] : t <= p.at /\ p.at < t + Window}
           A == {p \in S : p.start < t}
           B == {p \in S : t <= p.start}
<1>1. MaxGateTime \in Nat /\ Limit \in Nat \ {0} /\ Window \in Nat \ {0} /\ t \in Nat
  BY GatesAssumption
<1>2. \A p \in through[k] : p.start \in Nat /\ p.at \in Nat /\ p.start <= p.at /\ p.at < p.start + Window
  BY DEF GatesInv, GatesTypeOK, Passage, Inside
<1>3. \A p, q \in through[k] :
        p.start # q.start => p.start + Window <= q.start \/ q.start + Window <= p.start
  BY DEF GatesInv, Apart
<1>4. \A p, q \in A : p.start = q.start
  BY <1>1, <1>2, <1>3
<1>5. \A p, q \in B : p.start = q.start
  BY <1>1, <1>2, <1>3
<1>6. S = A \cup B /\ A \cap B = {} /\ A \subseteq through[k] /\ B \subseteq through[k]
  BY <1>1, <1>2
<1> HIDE DEF S, A, B
<1>7. /\ IsFiniteSet(A) /\ Cardinality(A) \in Nat /\ Cardinality(A) <= Limit
      /\ IsFiniteSet(B) /\ Cardinality(B) \in Nat /\ Cardinality(B) <= Limit
  BY <1>4, <1>5, <1>6, OneWindowKeepsLimit
<1>8. Cardinality(S) = Cardinality(A) + Cardinality(B) - Cardinality({})
  BY <1>6, <1>7, FS_Union
<1>9. Cardinality(S) <= 2 * Limit
  BY <1>1, <1>7, <1>8, FS_EmptySet
<1> QED
  BY <1>9 DEF S

\* However long the server runs and wherever a stretch of one window begins, no
\* address gets more than twice the limit through (hitRateLimit, rate-limit.ts).
THEOREM NoBurstPasses == Spec => []NoBurst
<1>1. GatesInv /\ [ServicesNext]_vars => GatesInv'
  BY OneMoves, GatesStep
<1> QED
  BY GatesStart, <1>1, TwoWindows, PTL DEF Spec

\* A valid nonce goes only with a request it has let in.
LEMMA NonceGoesIn ==
    ASSUME GatesInv, GatesNext, NEW n \in Nonces, nonceState[n] = "live", nonceUntil[n] >= gateNow,
           nonceState'[n] # "live"
    PROVE  admitted'[n] = admitted[n] + 1
<1> USE DEF GatesInv, GatesTypeOK
<1>1. ~GateTick
  BY DEF GateTick
<1>2. PICK d \in Devices, r \in Routes, m \in {NoNonce} \cup Nonces : Request(d, r, m)
  BY <1>1 DEF GatesNext
<1>3. ~IssueNonce
  <2> SUFFICES ASSUME IssueNonce PROVE FALSE
    OBVIOUS
  <2>1. PICK i \in Nonces : /\ nonceState[i] = "unissued"
                            /\ nonceState' = [SweptNonces EXCEPT ![i] = "live"]
    BY DEF IssueNonce
  <2>2. n # i /\ SweptNonces[n] = "live" /\ SweptNonces \in [Nonces -> {"unissued", "live", "spent"}]
    BY <2>1, GatesAssumption DEF SweptNonces
  <2> QED
    BY <2>1, <2>2
<1>4. SpendsNonce(d, r, IsRateLimitedRoute(r) /\ Transport(d) # "loopback"
                        /\ Hit(SweptBuckets[d.key]).count > Limit)
      /\ ConsumeNonce(m, ~(IsRateLimitedRoute(r) /\ Transport(d) # "loopback"
                           /\ Hit(SweptBuckets[d.key]).count > Limit) /\ GuardPasses(d, r))
  BY <1>2, <1>3 DEF Request
<1>5. m = n /\ nonceState[m] = "live"
  BY <1>4 DEF ConsumeNonce
<1> QED
  BY <1>4, <1>5, GatesAssumption DEF ConsumeNonce, SpendsNonce

\* A request refused by the rate limit or the guard of sensitive routes keeps its
\* nonce: a valid one leaves the store only by letting its request in
\* (installLanHardening, install.ts).
THEOREM NonceSurvivesRefusal == Spec => RefusedKeepsNonce
<1> DEFINE A == \A n \in Nonces : nonceState[n] = "live" /\ nonceUntil[n] >= gateNow /\ nonceState'[n] # "live"
                                    => admitted'[n] = admitted[n] + 1
<1>1. GatesInv /\ [ServicesNext]_vars => GatesInv'
  BY OneMoves, GatesStep
<1>2. GatesInv /\ [ServicesNext]_vars => [A]_gateVars
  BY OneMoves, NonceGoesIn
<1> QED
  BY GatesStart, <1>1, <1>2, PTL DEF Spec, RefusedKeepsNonce

-----------------------------------------------------------------------------
(* Nonces, challenges and sessions that live for a while.                   *)

\* A venue nonce signed for was claimed after its issue and the claim is still
\* there, or Cernere takes the nonce no more.
VenueKept ==
    \A n \in VenueNonces :
        /\ venueBorn[n] <= shortNow /\ venueSigned[n] <= 1
        /\ venueSigned[n] # 0 =>
             /\ venueBorn[n] > 0
             /\ venueBorn[n] <= seenAt[n] \/ ~Taken(n)

\* A facility challenge signed for is still remembered, or it has expired.
ChallengesKept ==
    \A n \in Challenges :
        /\ challengeSigned[n] <= 1
        /\ challengeSigned[n] # 0 =>
             /\ challenge[n].until > 0
             /\ used[n] = challenge[n].until \/ challenge[n].until <= shortNow

\* No session lasts longer than its life from now.
SessionsEnd ==
    /\ kioskEnd <= shortNow + KioskTTL /\ staffEnd <= shortNow + StaffTTL
    /\ HonouredWithinLife

ShortInv == ShortLivedTypeOK /\ VenueKept /\ ChallengesKept /\ SessionsEnd

LEMMA ShortStart == ServicesInit => ShortInv
<1> SUFFICES ASSUME ShortLivedInit PROVE ShortInv
  BY DEF ServicesInit
<1> QED
  BY ShortLivedAssumption DEF ShortLivedInit, ShortInv, ShortLivedTypeOK, VenueKept, ChallengesKept,
     SessionsEnd, HonouredWithinLife

LEMMA VenueStep ==
    ASSUME ShortInv, NEW n \in VenueNonces,
           IssueVenueNonce(n) \/ RegisterVenue(n) \/ SubmissionEnds(n)
    PROVE  ShortInv'
<1> USE ShortLivedAssumption DEF ShortInv, ShortLivedTypeOK, VenueKept, ChallengesKept, SessionsEnd,
        HonouredWithinLife, challengeVars, sessionVars, Taken
<1>1. CASE IssueVenueNonce(n)
  BY <1>1 DEF IssueVenueNonce
<1>2. CASE SubmissionEnds(n)
  BY <1>2 DEF SubmissionEnds
<1>3. CASE RegisterVenue(n)
  <2>1. Seen \in [VenueNonces -> Nat]
    BY DEF Seen
  <2>2. \A m \in VenueNonces : venueSigned[m] # 0 =>
            (venueBorn[m] <= Seen[m] /\ Seen[m] # 0) \/ ~Taken(m)
    BY DEF Seen
  <2>3. CASE Reused(n)
    BY <1>3, <2>1, <2>2, <2>3 DEF RegisterVenue
  <2>4. CASE ~Reused(n)
    <3>1. /\ seenAt' = [Seen EXCEPT ![n] = shortNow]
          /\ venueSigned' = IF Taken(n) THEN [venueSigned EXCEPT ![n] = @ + 1] ELSE venueSigned
          /\ UNCHANGED <<shortNow, venueBorn, challengeVars, sessionVars>>
          /\ submitting' = submitting \cup {n} /\ venueBorn[n] # 0
      BY <1>3, <2>4 DEF RegisterVenue
    <3>2. Taken(n) => venueSigned[n] = 0
      BY <2>2, <2>4 DEF Reused
    <3>3. /\ seenAt'[n] = shortNow /\ \A m \in VenueNonces \ {n} : seenAt'[m] = Seen[m]
          /\ venueSigned'[n] <= 1
          /\ \A m \in VenueNonces \ {n} : venueSigned'[m] = venueSigned[m]
      BY <2>1, <3>1, <3>2
    <3>4. ShortLivedTypeOK'
      BY <2>1, <3>1
    <3>5. VenueKept'
      BY <2>1, <2>2, <3>1, <3>3
    <3> QED
      BY <3>1, <3>4, <3>5
  <2> QED
    BY <2>3, <2>4
<1> QED
  BY <1>1, <1>2, <1>3

LEMMA AutomaticStep ==
    ASSUME ShortInv, NEW n \in Challenges,
           CheckInAutomatically(n)
           \/ \E from \in {shortNow, shortNow + 1}, life \in 1..(ChallengeLife + 1) :
                IssueChallenge(n, from, from + life)
    PROVE  ShortInv'
<1> USE ShortLivedAssumption DEF ShortInv, ShortLivedTypeOK, VenueKept, ChallengesKept, SessionsEnd,
        HonouredWithinLife, venueVars, sessionVars, Taken
<1>1. ASSUME NEW from \in {shortNow, shortNow + 1}, NEW life \in 1..(ChallengeLife + 1),
             IssueChallenge(n, from, from + life)
      PROVE  ShortInv'
  <2>1. [from |-> from, until |-> from + life] \in [from : Nat, until : Nat]
    OBVIOUS
  <2>2. challenge' \in [Challenges -> [from : Nat, until : Nat]]
        /\ \A m \in Challenges \ {n} : challenge'[m] = challenge[m]
    BY <1>1, <2>1 DEF IssueChallenge
  <2>3. challengeSigned[n] = 0
    BY <1>1 DEF IssueChallenge
  <2> QED
    BY <1>1, <2>2, <2>3 DEF IssueChallenge
<1>2. CASE CheckInAutomatically(n)
  <2>1. Unexpired \in [Challenges -> Nat]
    BY DEF Unexpired
  <2>2. \A m \in Challenges : challengeSigned[m] # 0 =>
             /\ challenge[m].until > 0
             /\ Unexpired[m] = challenge[m].until \/ challenge[m].until <= shortNow
    BY DEF Unexpired
  <2>3. CASE used' = Unexpired /\ UNCHANGED challengeSigned
    BY <1>2, <2>1, <2>2, <2>3 DEF CheckInAutomatically
  <2>4. CASE /\ ~Replayed(n)
             /\ used' = [Unexpired EXCEPT ![n] = challenge[n].until]
             /\ challengeSigned' = [challengeSigned EXCEPT ![n] = @ + 1]
    <3>1. challenge[n] \in [from : Nat, until : Nat] /\ shortNow < challenge[n].until
      BY <1>2 DEF CheckInAutomatically, ChallengeValid
    <3>2. challengeSigned[n] = 0
      BY <2>2, <2>4, <3>1 DEF Replayed
    <3>3. /\ used'[n] = challenge[n].until /\ \A m \in Challenges \ {n} : used'[m] = Unexpired[m]
          /\ challengeSigned'[n] = 1
          /\ \A m \in Challenges \ {n} : challengeSigned'[m] = challengeSigned[m]
      BY <2>1, <2>4, <3>2
    <3>4. ShortLivedTypeOK'
      BY <1>2, <2>1, <2>4, <3>1 DEF CheckInAutomatically
    <3>5. ChallengesKept'
      <4>1. UNCHANGED <<shortNow, challenge>> /\ shortNow \in Nat
        BY <1>2 DEF CheckInAutomatically
      <4>2. /\ challengeSigned'[n] = 1
            /\ challenge'[n].until > 0
            /\ used'[n] = challenge'[n].until
        BY <3>1, <3>3, <4>1
      <4> QED
        BY <2>2, <3>3, <4>1, <4>2
    <3> QED
      BY <1>2, <3>4, <3>5 DEF CheckInAutomatically
  <2> QED
    BY <1>2, <2>3, <2>4 DEF CheckInAutomatically
<1> QED
  BY <1>1, <1>2

LEMMA SessionStep ==
    ASSUME ShortInv,
           EstablishBrowserSession \/ AuthorizeByCookie \/ CreateStaffSession \/ GetStaffSession
    PROVE  ShortInv'
<1> USE ShortLivedAssumption DEF ShortInv, ShortLivedTypeOK, VenueKept, ChallengesKept, SessionsEnd,
        HonouredWithinLife, venueVars, challengeVars, Taken
<1>1. CASE EstablishBrowserSession
  BY <1>1 DEF EstablishBrowserSession
<1>2. CASE AuthorizeByCookie
  BY <1>2 DEF AuthorizeByCookie, Honoured, Older
<1>3. CASE CreateStaffSession
  BY <1>3 DEF CreateStaffSession
<1>4. CASE GetStaffSession
  BY <1>4 DEF GetStaffSession, Honoured, Older
<1> QED
  BY <1>1, <1>2, <1>3, <1>4

LEMMA ShortStep ==
    ASSUME ShortInv, VenueNext \/ AutomaticNext \/ SessionsNext \/ UNCHANGED shortVars
    PROVE  ShortInv'
<1> USE ShortLivedAssumption DEF ShortInv, ShortLivedTypeOK, VenueKept, ChallengesKept, SessionsEnd,
        HonouredWithinLife, venueVars, challengeVars, sessionVars, Taken
<1>1. CASE ShortTick
  BY <1>1 DEF ShortTick
<1>2. CASE RestartForgets
  BY <1>2 DEF RestartForgets
<1>3. CASE UNCHANGED shortVars
  BY <1>3 DEF shortVars
<1> QED
  BY <1>1, <1>2, <1>3, VenueStep, AutomaticStep, SessionStep DEF VenueNext, AutomaticNext, SessionsNext

LEMMA KeptIsSpent == ShortInv => SpentIsSpent
  BY DEF ShortInv, VenueKept, ChallengesKept, SessionsEnd, SpentIsSpent, SignedOnce

\* For any lifetimes with which the ledger keeps a nonce as long as Cernere takes
\* it, nothing that was used up or has expired is honoured again between two
\* starts: no second signature for a nonce or a challenge, no session beyond its
\* life (nonce-ledger.ts, automatic-checkin.ts, kiosk-authorization.ts,
\* staff-session.ts).
THEOREM CapabilitiesAreSpent == Spec => []SpentIsSpent
<1>1. ShortInv /\ [ServicesNext]_vars => ShortInv'
  BY OneMoves, ShortStep
<1> QED
  BY ShortStart, <1>1, KeptIsSpent, PTL DEF Spec

-----------------------------------------------------------------------------
(* Cached answers.                                                          *)

\* What a cache holds of an address is so still, or ends within `life` of the
\* moment the host left it.
Fresh(cache, life) ==
    cache.value \in Addresses => cache.value = address \/ cache.until <= leftAt[cache.value] + life

CacheInv ==
    /\ CachedAnswersTypeOK
    /\ hostsCache.until <= cacheNow + HostsTTL /\ Fresh(hostsCache, HostsTTL)
    /\ urlCache.until <= cacheNow + UrlTTL /\ Fresh(urlCache, UrlTTL + DetectTime)
    /\ detecting.on =>
         /\ cacheNow <= detecting.since + DetectTime
         /\ detecting.value \in Addresses =>
              detecting.value = address \/ detecting.since <= leftAt[detecting.value]
    /\ token.reliable => token.until <= token.end \/ token.until <= cacheNow
    /\ login.at = "granted" => login.granted <= login.end

LEMMA CacheStart == ServicesInit => CacheInv
<1> SUFFICES ASSUME CachedAnswersInit PROVE CacheInv
  BY DEF ServicesInit
<1> USE CachedAnswersAssumption DEF CachedAnswersInit, Places, Idle, NoLogin, NoToken
<1>1. token \in [until : Nat, end : Nat, reliable : BOOLEAN]
  OBVIOUS
<1>2. detecting \in [on : BOOLEAN, value : Places, since : 0..cacheNow] /\ ~detecting.on
  OBVIOUS
<1>3. CachedAnswersTypeOK
  BY <1>1, <1>2 DEF CachedAnswersTypeOK
<1> QED
  BY <1>1, <1>2, <1>3 DEF CacheInv, Fresh

LEMMA AddressStep ==
    ASSUME CacheInv,
           (\E a \in Places : MoveNetwork(a)) \/ AskBaseUrl \/ DetectionEnds \/ ResolveAllowedHosts
    PROVE  CacheInv'
<1> USE CachedAnswersAssumption DEF CacheInv, CachedAnswersTypeOK, Fresh, Places, tokenVars
<1>1. ASSUME NEW a \in Places, MoveNetwork(a) PROVE CacheInv'
  <2>1. CASE address = NoAddress
    BY <1>1, <2>1 DEF MoveNetwork
  <2>2. CASE address # NoAddress
    <3>1. /\ leftAt' = [leftAt EXCEPT ![address] = cacheNow] /\ address \in Addresses
          /\ leftAt'[address] = cacheNow
          /\ \A b \in Addresses \ {address} : leftAt'[b] = leftAt[b]
      BY <1>1, <2>2 DEF MoveNetwork
    <3> QED
      BY <1>1, <3>1 DEF MoveNetwork
  <2> QED
    BY <2>1, <2>2
<1>2. CASE AskBaseUrl
  <2>1. detecting' = [on |-> TRUE, value |-> address, since |-> cacheNow]
    BY <1>2 DEF AskBaseUrl
  <2>2. detecting' \in [on : BOOLEAN, value : Places, since : 0..cacheNow]
    BY <2>1
  <2> QED
    BY <1>2, <2>1, <2>2 DEF AskBaseUrl
<1>3. CASE DetectionEnds
  <2>1. PICK v \in {detecting.value, NoAddress} : urlCache' = [value |-> v, until |-> cacheNow + UrlTTL]
    BY <1>3 DEF DetectionEnds, KeepUrl
  <2>2. detecting' \in [on : BOOLEAN, value : Places, since : 0..cacheNow] /\ ~detecting'.on
    BY <1>3 DEF DetectionEnds, Idle
  <2>3. urlCache' \in [value : Places, until : Nat]
        /\ urlCache'.value = v /\ urlCache'.until = cacheNow + UrlTTL
    BY <2>1
  <2>4. UNCHANGED <<cacheNow, address, leftAt, hostsCache, token, login>> /\ detecting.on
    BY <1>3 DEF DetectionEnds
  <2> QED
    BY <2>2, <2>3, <2>4
<1>4. CASE ResolveAllowedHosts
  <2>1. hostsCache' \in [value : Places, until : Nat]
        /\ hostsCache'.value = address /\ hostsCache'.until = cacheNow + HostsTTL
    BY <1>4 DEF ResolveAllowedHosts
  <2> QED
    BY <1>4, <2>1 DEF ResolveAllowedHosts
<1> QED
  BY <1>1, <1>2, <1>3, <1>4

LEMMA TokenStep ==
    ASSUME CacheInv,
           \/ BeginTokenLogin \/ LoginAnswered \/ LoginFails
           \/ \E life \in TokenLives : \E said \in {0, life} : CernereGrants(life, said)
    PROVE  CacheInv'
<1> USE CachedAnswersAssumption DEF CacheInv, CachedAnswersTypeOK, addressVars
<1>1. CASE BeginTokenLogin
  <2>1. login' = [at |-> "asked", granted |-> 0, end |-> 0, said |-> 0]
    BY <1>1 DEF BeginTokenLogin, NoLogin
  <2>2. login' \in [at : {"none", "asked", "granted"}, granted : 0..cacheNow, end : Nat, said : Nat]
        /\ login'.at # "granted"
    BY <2>1
  <2> QED
    BY <1>1, <2>2 DEF BeginTokenLogin, Fresh
<1>2. CASE LoginFails
  BY <1>2 DEF LoginFails, NoLogin, Fresh
<1>3. ASSUME NEW life \in TokenLives, NEW said \in {0, life}, CernereGrants(life, said)
      PROVE  CacheInv'
  <2>1. login' \in [at : {"none", "asked", "granted"}, granted : 0..cacheNow, end : Nat, said : Nat]
        /\ login'.granted <= login'.end
    BY <1>3 DEF CernereGrants
  <2> QED
    BY <1>3, <2>1 DEF CernereGrants, Fresh
<1>4. CASE LoginAnswered
  <2> DEFINE assumed == AssumedLife(login.said)
  <2>1. /\ login.granted \in Nat /\ login.end \in Nat /\ login.said \in Nat
        /\ login.granted <= cacheNow /\ cacheNow \in Nat /\ Skew \in Nat
    BY <1>4 DEF LoginAnswered
  <2>2. assumed \in Nat /\ TokenLife(login.said) = IF assumed > Skew THEN assumed - Skew ELSE 0
    BY <2>1 DEF AssumedLife, TokenLife
  <2> HIDE DEF assumed
  <2>3. token' = [until |-> cacheNow + TokenLife(login.said), end |-> login.end,
                  reliable |-> cacheNow - login.granted <= Skew /\ assumed <= login.end - login.granted]
    BY <1>4 DEF LoginAnswered, assumed
  <2>4. token' \in [until : Nat, end : Nat, reliable : BOOLEAN]
    BY <2>1, <2>2, <2>3
  <2>5. token'.reliable => token'.until <= token'.end \/ token'.until <= cacheNow
    <3>1. ASSUME token'.reliable
          PROVE  cacheNow - login.granted <= Skew /\ assumed <= login.end - login.granted
      BY <2>3, <3>1
    <3>2. token'.until = cacheNow + TokenLife(login.said) /\ token'.end = login.end
      BY <2>3
    <3> QED
      BY <2>1, <2>2, <3>1, <3>2
  <2>6. login' = NoLogin /\ UNCHANGED <<cacheNow, addressVars>>
    BY <1>4 DEF LoginAnswered
  <2> QED
    BY <2>4, <2>5, <2>6 DEF NoLogin, Fresh
<1> QED
  BY <1>1, <1>2, <1>3, <1>4

LEMMA CacheStep ==
    ASSUME CacheInv, AddressesNext \/ TokensNext \/ UNCHANGED cacheVars
    PROVE  CacheInv'
<1>1. CASE CacheTick
  BY <1>1, CachedAnswersAssumption
     DEF CacheTick, CacheInv, CachedAnswersTypeOK, Fresh, Places, addressVars, tokenVars
<1>2. CASE UNCHANGED cacheVars
  BY <1>2 DEF CacheInv, CachedAnswersTypeOK, Fresh, cacheVars, addressVars, tokenVars
<1> QED
  BY <1>1, <1>2, AddressStep, TokenStep DEF AddressesNext, TokensNext

LEMMA FreshAnswers == CacheInv => AnswersAreFresh
  BY CachedAnswersAssumption
     DEF CacheInv, CachedAnswersTypeOK, Fresh, AnswersAreFresh, Outdated, Places

\* However the host moves between networks and however late detections and
\* logins end, no answer is older than its life allows (lan-route.ts,
\* host-allowlist.ts, cernere-service-token.ts).
THEOREM CachedAnswersAreFresh == Spec => []AnswersAreFresh
<1>1. CacheInv /\ [ServicesNext]_vars => CacheInv'
  BY OneMoves, CacheStep
<1> QED
  BY CacheStart, <1>1, FreshAnswers, PTL DEF Spec

-----------------------------------------------------------------------------
(* Runs of the certificate command.                                         *)

\* What is at Cloudflare is excused or in the list of the run that is under
\* way, which holds its own records only.
CertInv ==
    /\ CertificatesTypeOK
    /\ phase # "idle" => runs \in 1..MaxRuns /\ records \subseteq excused \cup created
    /\ \A r \in created : r[1] = runs
    /\ phase = "account" => created = {}
    /\ NoRecordLeftBehind

LEMMA CertStart == ServicesInit => CertInv
  BY CertificatesAssumption
     DEF ServicesInit, CertificatesInit, CertInv, CertificatesTypeOK, NoRecordLeftBehind, Authorizations

LEMMA CertStep ==
    ASSUME CertInv, CertificatesNext \/ UNCHANGED certVars
    PROVE  CertInv'
<1> USE CertificatesAssumption DEF CertInv, CertificatesTypeOK, NoRecordLeftBehind, Authorizations, filesVars
<1>a. phase # "idle" => ThisRecord \in Records /\ ThisRecord[1] = runs
  BY DEF ThisRecord, Records
<1>1. ASSUME NEW command \in {"issue", "renew"}, RunCli(command) PROVE CertInv'
  BY <1>1 DEF RunCli
<1>2. CASE OrderIsMade
  BY <1>2 DEF OrderIsMade
<1>3. CASE CreateTxtRecord
  BY <1>3, <1>a DEF CreateTxtRecord
<1>4. CASE VerifyChallenge
  BY <1>4 DEF VerifyChallenge, MoreAuthorizations
<1>5. CASE FinalizeOrder
  BY <1>5 DEF FinalizeOrder
<1>6. CASE WriteFullchain
  BY <1>6 DEF WriteFullchain
<1>7. CASE WritePrivkey
  BY <1>7 DEF WritePrivkey
<1>8. CASE Cleanup
  <2>1. PICK kept \in SUBSET created : /\ records' = (records \ created) \cup kept
                                       /\ excused' = excused \cup kept
    BY <1>8 DEF Cleanup, CleanedUp
  <2> QED
    BY <1>8, <2>1 DEF Cleanup
<1>9. CASE RunDies
  <2>1. PICK away \in SUBSET created : records' = records \ away
    BY <1>9 DEF RunDies
  <2>2. records' \subseteq excused' /\ excused' \subseteq excused \cup records'
    BY <1>9, <2>1 DEF RunDies
  <2> QED
    BY <1>9, <2>1, <2>2 DEF RunDies
<1>10. CASE ComesDue
  BY <1>10 DEF ComesDue
<1>11. CASE UNCHANGED certVars
  BY <1>11 DEF certVars
<1> QED
  BY <1>1, <1>2, <1>3, <1>4, <1>5, <1>6, <1>7, <1>8, <1>9, <1>10, <1>11 DEF CertificatesNext

\* However a run ends, for any number of names and runs, none of its TXT records
\* stays behind but those no code could know of (order.ts, the finally block).
THEOREM RecordsAreCleanedUp == Spec => []NoRecordLeftBehind
<1>1. CertInv /\ [ServicesNext]_vars => CertInv'
  BY OneMoves, CertStep
<1>2. CertInv => NoRecordLeftBehind
  BY DEF CertInv
<1> QED
  BY CertStart, <1>1, <1>2, PTL DEF Spec

-----------------------------------------------------------------------------
(* The key file and the backups.                                            *)

\* A nonempty set of keys has one that was made last.
LEMMA NewestExists ==
    ASSUME NEW S \in SUBSET Key, S # {}
    PROVE  \E k \in S : \A other \in S : other.id <= k.id
<1>1. MaxKeys \in Nat
  BY FaceStorageAssumption
<1> DEFINE R == OpToRel(<, Nat)
           T == {MaxKeys - k.id : k \in S}
<1>2. T \subseteq Nat /\ T # {}
  BY <1>1 DEF Key
<1>3. PICK m \in T : \A n \in T : ~ (<<n, m>> \in R)
  BY <1>2, NatLessThanWellFounded, WFMin
<1>4. \A n \in T : ~ (n < m)
  BY <1>2, <1>3 DEF OpToRel
<1>5. PICK k \in S : m = MaxKeys - k.id
  OBVIOUS
<1>6. ASSUME NEW other \in S PROVE other.id <= k.id
  <2>1. MaxKeys - other.id \in T
    OBVIOUS
  <2>2. ~ (MaxKeys - other.id < MaxKeys - k.id)
    BY <1>4, <1>5, <2>1
  <2>3. other.id \in 1..MaxKeys /\ k.id \in 1..MaxKeys
    BY DEF Key
  <2> QED
    BY <1>1, <2>2, <2>3
<1> QED
  BY <1>6

LEMMA CurrentIsNewest ==
    ASSUME NEW keys \in SUBSET Key, NEW p, Of(keys, p) # {}
    PROVE  CurrentOf(keys, p) \in Of(keys, p)
<1>1. Of(keys, p) \in SUBSET Key
  BY DEF Of
<1>2. \E k \in Of(keys, p) : \A other \in Of(keys, p) : other.id <= k.id
  BY <1>1, NewestExists
<1> QED
  BY <1>2 DEF CurrentOf

\* For any missing purposes there is a set of new keys, one of each.
LEMMA NewKeysExist ==
    ASSUME FaceStorageTypeOK
    PROVE  /\ IsFiniteSet(Missing) /\ Cardinality(Missing) \in Nat
           /\ Generated \subseteq [id : (made + 1)..(made + Cardinality(Missing)), purpose : Missing]
           /\ \A p \in Missing : Of(Generated, p) # {}
<1> DEFINE n == Cardinality(Missing)
           Made(new) == \A p \in Missing :
                          \E k \in new : Of(new, p) = {k} /\ \A o \in new \ {k} : o.id # k.id
<1>1. IsFiniteSet(Missing)
  BY FaceStorageAssumption, FS_Subset DEF Missing
<1>2. n \in Nat /\ ExistsBijection(1..n, Missing) /\ made \in Nat
  BY <1>1, FS_CardinalityType, FaceStorageAssumption DEF FaceStorageTypeOK
<1>3. PICK f : /\ f \in [1..n -> Missing]
               /\ \A i, j \in 1..n : f[i] = f[j] => i = j
               /\ \A p \in Missing : \E i \in 1..n : f[i] = p
  BY <1>2 DEF ExistsBijection, Bijection, Injection, Surjection, IsInjective
<1> HIDE DEF n
<1> DEFINE NewKey(i) == [id |-> made + i, purpose |-> f[i]]
           new == {NewKey(i) : i \in 1..n}
<1>4. new \subseteq [id : (made + 1)..(made + n), purpose : Missing]
  BY <1>2, <1>3
<1>5. ASSUME NEW p \in Missing
      PROVE  \E k \in new : Of(new, p) = {k} /\ \A o \in new \ {k} : o.id # k.id
  <2>1. PICK i \in 1..n : f[i] = p
    BY <1>3
  <2>2. NewKey(i) \in new
    OBVIOUS
  <2>3. \A j \in 1..n : NewKey(j).purpose = p => j = i
    BY <1>3, <2>1
  <2>4. Of(new, p) = {NewKey(i)}
    BY <2>1, <2>2, <2>3 DEF Of
  <2>5. \A o \in new \ {NewKey(i)} : o.id # NewKey(i).id
    BY <1>2
  <2> QED
    BY <2>2, <2>4, <2>5
<1>6. \E s \in SUBSET [id : (made + 1)..(made + n), purpose : Missing] : Made(s)
  BY <1>4, <1>5
<1>7. Generated \in SUBSET [id : (made + 1)..(made + n), purpose : Missing] /\ Made(Generated)
  BY <1>6 DEF Generated, n
<1> QED
  BY <1>1, <1>2, <1>7 DEF n

\* While the process runs it has a key of each purpose, and each of its keys is
\* one of the file unless it was taken from there.
KeysInv ==
    /\ file.valid \subseteq file.keys /\ (file.state = "absent" => file.valid = {})
    /\ running =>
         /\ loaded \subseteq file.valid \cup lost \cup spoiled
         /\ \A p \in Purposes : Of(loaded, p) # {}
    /\ SealedStaysReadable

\* The copy under way is the newest generation, on the medium and not yet whole.
BackupInv ==
    /\ copying # 0 => copying = begun /\ copying \in onMedium /\ copying \notin whole
    /\ GoodBackupSurvives

StorageInv == FaceStorageTypeOK /\ KeysInv /\ BackupInv

LEMMA StorageStart == ServicesInit => StorageInv
<1> SUFFICES ASSUME FaceStorageInit PROVE StorageInv
  BY DEF ServicesInit
<1> USE FaceStorageAssumption
<1>1. ASSUME NEW p \in Purposes PROVE 1 \in 1..MaxKeys
  <2>1. Cardinality(Purposes) \in Nat /\ Cardinality(Purposes) # 0
    BY FS_EmptySet, FS_CardinalityType
  <2> QED
    BY <2>1
<1>2. ~running /\ running \in BOOLEAN
  BY Zenon DEF FaceStorageInit
<1>3. CASE /\ file = Absent /\ made = 0
           /\ row = [p \in Purposes |-> 0]
  <2>1. file \in [state : {"absent", "torn", "good"}, keys : SUBSET Key, valid : SUBSET Key]
        /\ file.valid = {} /\ file.keys = {}
    BY <1>3 DEF Absent, File
  <2> QED
    BY <1>2, <1>3, <2>1 DEF FaceStorageInit, FaceStorageTypeOK, SealedStaysReadable, StorageInv, KeysInv,
       BackupInv, GoodBackupSurvives
<1>4. ASSUME NEW p \in Purposes, made = 1,
             file = File("good", {[id |-> 1, purpose |-> p]}, {[id |-> 1, purpose |-> p]}),
             row = [q \in Purposes |-> IF q = p THEN 1 ELSE 0]
      PROVE  StorageInv
  <2>1. [id |-> 1, purpose |-> p] \in Key
    BY <1>1 DEF Key
  <2>2. /\ file \in [state : {"absent", "torn", "good"}, keys : SUBSET Key, valid : SUBSET Key]
        /\ file.state = "good" /\ file.keys = file.valid
    BY <1>4, <2>1 DEF File
  <2>3. FaceStorageTypeOK
    BY <1>1, <1>2, <1>4, <2>2 DEF FaceStorageInit, FaceStorageTypeOK
  <2>4. SealedStaysReadable
    <3>1. [id |-> 1, purpose |-> p] \in Of(file.valid, p)
      BY <1>4 DEF Of, File
    <3> QED
      BY <1>2, <1>4, <3>1 DEF SealedStaysReadable
  <2> QED
    BY <1>2, <2>2, <2>3, <2>4 DEF FaceStorageInit, StorageInv, KeysInv, BackupInv, GoodBackupSurvives
<1> QED
  BY <1>3, <1>4 DEF FaceStorageInit

\* An event from outside or a start that dies: what the file loses is accounted
\* for, and the process and the rows stay as they are.
LEMMA FileStep ==
    ASSUME StorageInv, UNCHANGED <<made, running, loaded, row, backupVars>>,
           NEW kept \in SUBSET Key, NEW sound \in SUBSET kept,
           NEW state \in {"torn", "good"} \cup (IF sound = {} THEN {"absent"} ELSE {}),
           file' = File(state, kept, sound),
           lost' \subseteq Key, spoiled' \subseteq Key,
           lost \subseteq lost', spoiled \subseteq spoiled',
           file.valid \subseteq sound \cup lost' \cup spoiled'
    PROVE  StorageInv'
<1> USE FaceStorageAssumption DEF StorageInv, FaceStorageTypeOK
<1>1. BackupInv'
  BY DEF backupVars, BackupInv, GoodBackupSurvives
<1>2. /\ file' \in [state : {"absent", "torn", "good"}, keys : SUBSET Key, valid : SUBSET Key]
      /\ file'.valid = sound /\ file'.keys = kept /\ file'.state = state
  BY DEF File
<1>3. FaceStorageTypeOK'
  BY <1>2 DEF backupVars
<1>4. SealedStaysReadable'
  BY <1>2 DEF KeysInv, SealedStaysReadable, Of
<1>5. KeysInv'
  BY <1>2, <1>4 DEF KeysInv, Of
<1> QED
  BY <1>1, <1>3, <1>5

LEMMA OutsideStep ==
    ASSUME StorageInv,
           \/ DieWritingKeys \/ OperatorMends \/ FileIsRemoved
           \/ \E kept \in SUBSET file.keys : FileIsDamaged(kept)
           \/ \E sound \in SUBSET file.valid : EntriesAreSpoiled(sound)
    PROVE  StorageInv'
<1>1. /\ file.valid \subseteq file.keys /\ file.keys \subseteq Key
      /\ lost \subseteq Key /\ spoiled \subseteq Key
      /\ file = File(file.state, file.keys, file.valid)
      /\ file.state \in {"absent", "torn", "good"}
  BY DEF StorageInv, KeysInv, FaceStorageTypeOK, File
<1>2. CASE DieWritingKeys
  <2>1. /\ UNCHANGED <<made, running, loaded, row, spoiled, backupVars>>
        /\ file' = File("torn", {}, {}) /\ lost' = lost \cup file.keys
    BY <1>2 DEF DieWritingKeys
  <2> QED
    BY <1>1, <2>1, FileStep
<1>3. CASE OperatorMends
  <2>1. /\ UNCHANGED <<made, running, loaded, row, lost, spoiled, backupVars>>
        /\ file' = File("good", file.keys, file.keys)
    BY <1>3 DEF OperatorMends
  <2> QED
    BY <1>1, <2>1, FileStep
<1>4. CASE FileIsRemoved
  <2>1. /\ UNCHANGED <<made, running, loaded, row, spoiled, backupVars>>
        /\ file' = File("absent", {}, {}) /\ lost' = lost \cup file.keys
    BY <1>4 DEF FileIsRemoved, Absent
  <2> QED
    BY <1>1, <2>1, FileStep
<1>5. ASSUME NEW kept \in SUBSET file.keys, FileIsDamaged(kept) PROVE StorageInv'
  <2>1. /\ UNCHANGED <<made, running, loaded, row, spoiled, backupVars>>
        /\ file' = File("torn", kept, file.valid \cap kept)
        /\ lost' = lost \cup (file.keys \ kept)
    BY <1>5 DEF FileIsDamaged
  <2>2. /\ kept \in SUBSET Key /\ file.valid \cap kept \in SUBSET kept
        /\ lost' \subseteq Key
        /\ file.valid \subseteq (file.valid \cap kept) \cup lost' \cup spoiled'
    BY <1>1, <2>1
  <2> QED
    BY <1>1, <2>1, <2>2, FileStep
<1>6. ASSUME NEW sound \in SUBSET file.valid, EntriesAreSpoiled(sound) PROVE StorageInv'
  <2>1. /\ UNCHANGED <<made, running, loaded, row, lost, backupVars>>
        /\ file' = [file EXCEPT !.valid = sound] /\ file.state = "good"
        /\ spoiled' = spoiled \cup (file.valid \ sound)
    BY <1>6 DEF EntriesAreSpoiled
  <2>2. file' = File("good", file.keys, sound)
    BY <1>1, <2>1 DEF File
  <2> QED
    BY <1>1, <2>1, <2>2, FileStep
<1> QED
  BY <1>2, <1>3, <1>4, <1>5, <1>6

LEMMA KeyStep ==
    ASSUME StorageInv,
           \/ LoadLocalFaceKeys
           \/ \E p \in Purposes : OperatorAddsKey(p) \/ SealRow(p) \/ DeleteRow(p)
    PROVE  StorageInv'
<1> USE FaceStorageAssumption DEF StorageInv, FaceStorageTypeOK, KeysInv, SealedStaysReadable
<1>a. ASSUME UNCHANGED backupVars PROVE BackupInv'
  BY <1>a DEF backupVars, BackupInv, GoodBackupSurvives
<1>1. CASE LoadLocalFaceKeys
  <2>1. /\ IsFiniteSet(Missing) /\ Cardinality(Missing) \in Nat
        /\ Generated \subseteq [id : (made + 1)..(made + Cardinality(Missing)), purpose : Missing]
        /\ \A p \in Missing : Of(Generated, p) # {}
    BY NewKeysExist
  <2>2. /\ loaded' = ReadKeys \cup Generated
        /\ file' = IF Missing = {} THEN file ELSE File("good", loaded', loaded')
        /\ made' = made + Cardinality(Missing) /\ made' <= MaxKeys /\ running' = TRUE
        /\ UNCHANGED <<row, lost, spoiled, backupVars>> /\ file.state # "torn"
    BY <1>1 DEF LoadLocalFaceKeys, Readable
  <2>3. Generated \subseteq Key
    <3>1. made + Cardinality(Missing) <= MaxKeys /\ made \in Nat /\ MaxKeys \in Nat
      BY <2>2
    <3>2. Cardinality(Missing) \in Nat /\ Missing \subseteq Purposes
      BY <2>1 DEF Missing
    <3>3. (made + 1)..(made + Cardinality(Missing)) \subseteq 1..MaxKeys
      BY ONLY <3>1, <3>2
    <3> QED
      BY <2>1, <3>2, <3>3 DEF Key
  <2>4. ReadKeys = file.valid
    BY <2>2 DEF ReadKeys
  <2>5. Missing = {} => Generated = {}
    BY <2>1
  <2>6. /\ file' \in [state : {"absent", "torn", "good"}, keys : SUBSET Key, valid : SUBSET Key]
        /\ file'.valid = loaded' /\ file'.valid \subseteq file'.keys
        /\ file'.state = "absent" => file'.valid = {}
    <3>1. CASE Missing = {}
      BY <2>2, <2>4, <2>5, <3>1
    <3>2. CASE Missing # {}
      BY <2>2, <2>3, <2>4, <3>2 DEF File
    <3> QED
      BY <3>1, <3>2
  <2>7. FaceStorageTypeOK'
    <3>1. made' \in 0..MaxKeys
      <4>1. MaxKeys \in Nat /\ made \in 0..MaxKeys
        OBVIOUS
      <4> QED
        BY ONLY <2>1, <2>2, <4>1
    <3>2. loaded' \subseteq Key
      BY <2>2, <2>3, <2>4
    <3> QED
      BY <2>2, <2>6, <3>1, <3>2 DEF backupVars
  <2>8. \A p \in Purposes : Of(loaded', p) # {}
    BY <2>1, <2>2 DEF Of, Missing
  <2>9. SealedStaysReadable'
    BY <2>2, <2>4, <2>6 DEF Of
  <2> QED
    BY <1>a, <2>2, <2>6, <2>7, <2>8, <2>9
<1>2. ASSUME NEW p \in Purposes, OperatorAddsKey(p) PROVE StorageInv'
  <2> DEFINE fresh == {[id |-> made + 1, purpose |-> p]}
  <2>1. /\ file' = File("good", file.keys \cup fresh, file.valid \cup fresh)
        /\ made' = made + 1 /\ made < MaxKeys
        /\ UNCHANGED <<running, loaded, row, lost, spoiled, backupVars>>
    BY <1>2 DEF OperatorAddsKey
  <2>2. fresh \subseteq Key
    BY <2>1 DEF Key
  <2> HIDE DEF fresh
  <2>3. /\ file' \in [state : {"absent", "torn", "good"}, keys : SUBSET Key, valid : SUBSET Key]
        /\ file'.state = "good" /\ file.valid \subseteq file'.valid /\ file'.valid \subseteq file'.keys
    BY <2>1, <2>2 DEF File
  <2>4. FaceStorageTypeOK'
    <3>1. made' \in 0..MaxKeys
      BY <2>1
    <3> QED
      BY <2>1, <2>3, <3>1 DEF backupVars
  <2>5. SealedStaysReadable'
    BY <2>1, <2>3 DEF Of
  <2> QED
    BY <1>a, <2>1, <2>3, <2>4, <2>5
<1>3. ASSUME NEW p \in Purposes, SealRow(p) PROVE StorageInv'
  <2> DEFINE k == CurrentOf(loaded, p)
  <2>1. running /\ row' = [row EXCEPT ![p] = k.id] /\ UNCHANGED <<file, made, running, loaded, lost, spoiled, backupVars>>
    BY <1>3 DEF SealRow
  <2>2. k \in Of(loaded, p) /\ k \in Key
    BY <2>1, CurrentIsNewest DEF Of
  <2> HIDE DEF k
  <2>3. k.id \in 0..MaxKeys
    BY <2>2 DEF Key
  <2>4. row'[p] = k.id /\ \A q \in Purposes \ {p} : row'[q] = row[q]
    BY <2>1
  <2>5. SealedStaysReadable'
    BY <2>1, <2>2, <2>4 DEF Of
  <2>6. FaceStorageTypeOK'
    BY <2>1, <2>3 DEF backupVars
  <2> QED
    BY <1>a, <2>1, <2>5, <2>6
<1>4. ASSUME NEW p \in Purposes, DeleteRow(p) PROVE StorageInv'
  <2>1. /\ row' = [row EXCEPT ![p] = 0] /\ row' \in [Purposes -> 0..MaxKeys]
        /\ UNCHANGED <<file, made, running, loaded, lost, spoiled, backupVars>>
    BY <1>4 DEF DeleteRow
  <2>2. FaceStorageTypeOK'
    BY <2>1 DEF backupVars
  <2>3. SealedStaysReadable'
    BY <2>1 DEF Of
  <2> QED
    BY <1>a, <2>1, <2>2, <2>3
<1> QED
  BY <1>1, <1>2, <1>3, <1>4

LEMMA BackupStep ==
    ASSUME StorageInv, BeginBackup \/ BackupSucceeds \/ BackupFails \/ StorageProcessDies
    PROVE  StorageInv'
<1> USE FaceStorageAssumption DEF StorageInv, FaceStorageTypeOK, BackupInv, GoodBackupSurvives
<1>a. ASSUME UNCHANGED keyVars PROVE KeysInv'
  BY <1>a DEF keyVars, KeysInv, SealedStaysReadable, Of
<1>1. CASE BeginBackup
  BY <1>1, <1>a DEF BeginBackup, keyVars
<1>2. CASE BackupSucceeds
  <2>1. copying \in Nat \ {0} /\ copying = begun /\ copying \in onMedium /\ onMedium \subseteq 1..begun
    <3>1. MaxBackups \in Nat /\ begun \in 0..MaxBackups /\ copying \in 0..begun /\ copying # 0
      BY <1>2 DEF BackupSucceeds
    <3> QED
      BY <3>1
  <2>2. copying \notin Excess(onMedium)
    <3>1. \A h \in onMedium : ~ (h > copying)
      BY ONLY <2>1
    <3>2. {h \in onMedium : h > copying} = {}
      BY <3>1, Zenon
    <3>3. Cardinality({h \in onMedium : h > copying}) = 0
      BY <3>2, FS_EmptySet
    <3> QED
      BY <3>3 DEF Excess
  <2>3. PICK removed \in SUBSET Excess(onMedium) : onMedium' = onMedium \ removed
    BY <1>2 DEF BackupSucceeds, Rotate, Rotates
  <2>4. copying \in onMedium' /\ onMedium' \subseteq onMedium
    BY <2>1, <2>2, <2>3
  <2> QED
    BY <1>2, <1>a, <2>1, <2>4 DEF BackupSucceeds, keyVars
<1>3. CASE BackupFails
  <2>1. onMedium' \in {onMedium, onMedium \ {copying}}
    BY <1>3 DEF BackupFails, Rotate, Rotates
  <2> QED
    BY <1>3, <1>a, <2>1 DEF BackupFails, keyVars
<1>4. CASE StorageProcessDies
  <2>1. ~running' /\ running' \in BOOLEAN
    BY <1>4, Zenon DEF StorageProcessDies
  <2>2. KeysInv'
    BY <1>4, <2>1 DEF StorageProcessDies, KeysInv, SealedStaysReadable
  <2> QED
    BY <1>4, <2>1, <2>2 DEF StorageProcessDies
<1> QED
  BY <1>1, <1>2, <1>3, <1>4

LEMMA StorageStep ==
    ASSUME StorageInv, KeysNext \/ BackupsNext \/ UNCHANGED storageVars
    PROVE  StorageInv'
<1>1. CASE UNCHANGED storageVars
  BY <1>1 DEF storageVars, keyVars, backupVars, StorageInv, FaceStorageTypeOK, KeysInv, BackupInv,
     SealedStaysReadable, GoodBackupSurvives
<1> QED
  BY <1>1, KeyStep, OutsideStep, BackupStep DEF KeysNext, BackupsNext

\* Whatever starts, crashes, edits and keys added by hand follow each other, a
\* sealed face can be opened unless damage, removal, a torn write or an edit of
\* the key file took the very key it is sealed with (local-key.ts).
THEOREM SealedFacesStayReadable == Spec => []SealedStaysReadable
<1>1. StorageInv /\ [ServicesNext]_vars => StorageInv'
  BY OneMoves, StorageStep
<1>2. StorageInv => SealedStaysReadable
  BY DEF StorageInv, KeysInv
<1> QED
  BY StorageStart, <1>1, <1>2, PTL DEF Spec

\* However many copies fail or break off, and whichever old ones the rotation
\* fails to remove, a whole one stays on the medium once there was one (backup.ts).
THEOREM AGoodBackupSurvives == Spec => []GoodBackupSurvives
<1>1. StorageInv /\ [ServicesNext]_vars => StorageInv'
  BY OneMoves, StorageStep
<1>2. StorageInv => GoodBackupSurvives
  BY DEF StorageInv, BackupInv
<1> QED
  BY StorageStart, <1>1, <1>2, PTL DEF Spec
=============================================================================
