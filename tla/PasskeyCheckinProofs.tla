------------------------ MODULE PasskeyCheckinProofs ------------------------
(***************************************************************************)
(* Proofs about PasskeyCheckin, for any challenges, sessions, credentials, *)
(* requests in flight and lifetimes that satisfy PasskeyAssumption.        *)
(***************************************************************************)
EXTENDS PasskeyCheckin, TLAPS

InFlight(h) == req[h] # Idle

LEMMA TypeInit == Init => TypeOK
  BY PasskeyAssumption DEF Init, TypeOK, Services, SessStates

\* A request in flight is a request.
LEMMA InFlightType ==
    ASSUME TypeOK, NEW h \in Handlers, req[h].pc \in {"verifying", "delivering"} \/ InFlight(h)
    PROVE  /\ req[h] \in Request /\ InFlight(h)
           /\ Attested(req[h]) \in Attestation
  BY DEF TypeOK, Request, Idle, InFlight, Attested, Attestation

LEMMA TypeNext == TypeOK /\ [Next]_vars => TypeOK'
<1> SUFFICES ASSUME TypeOK, [Next]_vars PROVE TypeOK'
  OBVIOUS
<1> USE PasskeyAssumption DEF sessVars, chVars, histVars
<1>1. ASSUME NEW s \in Sids, CreateSession(s) PROVE TypeOK'
  BY <1>1 DEF CreateSession, TypeOK, SessStates
<1>2. ASSUME NEW svc \in Services, NEW s \in Sids \cup {None}, PutChallenge(svc, s)
      PROVE  /\ ch' \in [Challenges -> {"unborn", "live", "used"}]
             /\ chSvc' \in [Challenges -> Services \cup {None}]
             /\ chSid' \in [Challenges -> Sids \cup {None}]
             /\ chExp' \in [Challenges -> Nat]
  BY <1>2 DEF PutChallenge, TypeOK
<1>3. ASSUME NEW s \in Sids, BeginProximity(s) PROVE TypeOK'
  BY <1>2, <1>3 DEF BeginProximity, TypeOK, Services
<1>4. CASE BeginCheckin
  BY <1>2, <1>4 DEF BeginCheckin, TypeOK, Services
<1>5. ASSUME NEW s \in Sids \cup {None}, BeginIdentity(s) PROVE TypeOK'
  <2>1. sessExp' \in [Sids -> Nat]
    BY <1>5 DEF BeginIdentity, TypeOK
  <2> QED
    BY <1>2, <1>5, <2>1 DEF BeginIdentity, TypeOK, Services
<1>6. ASSUME NEW h \in Handlers, NEW svc \in Services, NEW c \in Challenges, NEW k \in Creds,
             NEW s \in Sids \cup {None}, Finish(h, svc, c, k, s)
      PROVE  TypeOK'
  <2> DEFINE r == [pc |-> "verifying", svc |-> svc, nonce |-> c, cred |-> k,
                   sid |-> TakeSession(svc, c), path |-> s,
                   row |-> counter[k], ctr |-> uses[k] + 1]
  <2>1. r \in Request
    BY DEF Request, TakeSession, TypeOK
  <2>2. req' = [req EXCEPT ![h] = r]
    BY <1>6 DEF Finish
  <2>3. req' \in [Handlers -> Request \cup {Idle}]
    BY <2>1, <2>2 DEF TypeOK
  <2>4. busy' \subseteq Sids /\ uses' \in [Creds -> Nat]
        /\ ch' \in [Challenges -> {"unborn", "live", "used"}]
    BY <1>6 DEF Finish, TypeOK
  <2> QED
    BY <1>6, <2>3, <2>4 DEF Finish, TypeOK
<1>7. ASSUME NEW h \in Handlers, Respond(h)
      PROVE  req' \in [Handlers -> Request \cup {Idle}] /\ busy' \subseteq Sids
  BY <1>7 DEF Respond, TypeOK
<1>8. ASSUME NEW h \in Handlers, VerifyFails(h) PROVE TypeOK'
  BY <1>7, <1>8 DEF VerifyFails, TypeOK
<1>9. ASSUME NEW r \in Request, UpdateCounter(r) PROVE counter' \in [Creds -> Nat]
  BY <1>9 DEF UpdateCounter, TypeOK, Request
<1>10. ASSUME NEW h \in Handlers, Verified(h) PROVE TypeOK'
  <2>1. req[h] \in Request /\ Attested(req[h]) \in Attestation
    BY <1>10, InFlightType DEF Verified
  <2>2. [req[h] EXCEPT !.pc = "delivering"] \in Request
    BY <2>1 DEF Request
  <2>3. req' \in [Handlers -> Request \cup {Idle}]
    BY <1>10, <2>2 DEF Verified, TypeOK
  <2> QED
    BY <1>9, <1>10, <2>1, <2>3 DEF Verified, TypeOK
<1>11. ASSUME NEW h \in Handlers, VerifiedRefused(h) PROVE TypeOK'
  <2>1. req[h] \in Request
    BY <1>11, InFlightType DEF VerifiedRefused
  <2> QED
    BY <1>7, <1>9, <1>11, <2>1 DEF VerifiedRefused, TypeOK
<1>12. ASSUME NEW a \in Attestation, Issue(a)
       PROVE  /\ sess' \in [Sids -> SessStates] /\ sessExp' \in [Sids -> Nat]
              /\ closed' \subseteq Attestation /\ reopened' \subseteq Sids
  BY <1>12 DEF Issue, TypeOK, SessStates
<1>13. ASSUME NEW h \in Handlers, Recorded(h) PROVE TypeOK'
  <2>1. Attested(req[h]) \in Attestation
    BY <1>13, InFlightType DEF Recorded
  <2> QED
    BY <1>7, <1>12, <1>13, <2>1 DEF Recorded, TypeOK
<1>14. ASSUME NEW h \in Handlers, DeliveryFailed(h) PROVE TypeOK'
  <2>1. Attested(req[h]) \in Attestation
    BY <1>14, InFlightType DEF DeliveryFailed
  <2> QED
    BY <1>7, <1>14, <2>1 DEF DeliveryFailed, TypeOK
<1>15. ASSUME NEW s \in Sids, FrameStart(s) PROVE TypeOK'
  BY <1>15 DEF FrameStart, TypeOK
<1>19. ASSUME NEW s \in Sids, FrameMoves(s) PROVE TypeOK'
  <2>1. sess' \in [Sids -> SessStates] /\ sessExp' \in [Sids -> Nat] /\ reopened' \subseteq Sids
    BY <1>19 DEF FrameMoves, TypeOK, SessStates
  <2> QED
    BY <1>19, <2>1 DEF FrameMoves, FrameEnds, TypeOK
<1>20. ASSUME NEW s \in Sids, FrameIssues(s) PROVE TypeOK'
  <2>1. [nonce |-> None, sub |-> None, sid |-> s, svc |-> "face"] \in Attestation
    BY DEF Attestation
  <2> QED
    BY <1>12, <1>20, <2>1 DEF FrameIssues, FrameEnds, TypeOK
<1>16. CASE Tick
  BY <1>16 DEF Tick, TypeOK
<1>17. CASE Restart
  BY <1>17 DEF Restart, TypeOK
<1>18. CASE UNCHANGED vars
  BY <1>18 DEF vars, TypeOK
<1> QED
  BY <1>1, <1>3, <1>4, <1>5, <1>6, <1>8, <1>10, <1>11, <1>13, <1>14, <1>15, <1>16, <1>17, <1>18,
     <1>19, <1>20 DEF Next

\* The types of PasskeyCheckin's variables (PasskeyCheckin!TypeOK).
THEOREM TypeCorrect == Spec => []TypeOK
  BY TypeInit, TypeNext, PTL DEF Spec

-----------------------------------------------------------------------------
\* A challenge in flight or signed for has been taken out of its store.
TakenOnce ==
    /\ \A h \in Handlers : InFlight(h) =>
          /\ ch[req[h].nonce] = "used"
          /\ req[h].pc = "verifying" => \A a \in signed : a.nonce # req[h].nonce
          /\ req[h].pc = "delivering" =>
                \A a \in signed : a.nonce = req[h].nonce => a = Attested(req[h])
    /\ \A a \in signed : a.nonce # None => ch[a.nonce] = "used"

OncePerChallenge == TakenOnce /\ OneAttestationPerChallenge

LEMMA OncePerChallengeNext == TypeOK /\ OncePerChallenge /\ [Next]_vars => OncePerChallenge'
<1> SUFFICES ASSUME TypeOK, OncePerChallenge, [Next]_vars PROVE OncePerChallenge'
  OBVIOUS
<1> USE PasskeyAssumption DEF OncePerChallenge, TakenOnce, OneAttestationPerChallenge, InFlight
<1>a. \A h \in Handlers : InFlight(h) =>
         req[h] \in Request /\ req[h].nonce \in Challenges /\ req[h].nonce # None
  BY DEF TypeOK, Request
<1>b. \A a \in signed : a.nonce \in Challenges \cup {None}
  BY DEF TypeOK, Attestation
<1>1. CASE UNCHANGED <<req, signed>> /\ \A c \in Challenges : ch[c] = "used" => ch'[c] = "used"
  BY <1>a, <1>b, <1>1 DEF Attested
<1>2. ASSUME NEW svc \in Services, NEW s \in Sids \cup {None}, PutChallenge(svc, s)
      PROVE  \A c \in Challenges : ch[c] = "used" => ch'[c] = "used"
  BY <1>2 DEF PutChallenge, TypeOK
<1>3. CASE (\E s \in Sids : CreateSession(s) \/ BeginProximity(s) \/ FrameStart(s) \/ FrameMoves(s))
           \/ BeginCheckin \/ (\E s \in Sids \cup {None} : BeginIdentity(s)) \/ Tick
  BY <1>1, <1>2, <1>3 DEF CreateSession, BeginProximity, BeginCheckin, BeginIdentity, Tick,
     FrameStart, FrameMoves, FrameEnds, chVars, histVars, Services
<1>4. ASSUME NEW h \in Handlers, NEW svc \in Services, NEW c \in Challenges, NEW k \in Creds,
             NEW s \in Sids \cup {None}, Finish(h, svc, c, k, s)
      PROVE  OncePerChallenge'
  <2>1. /\ req[h] = Idle /\ ch[c] = "live" /\ UNCHANGED signed
        /\ req'[h] # Idle /\ req'[h].nonce = c /\ req'[h].pc = "verifying"
        /\ \A g \in Handlers \ {h} : req'[g] = req[g]
        /\ ch' = [ch EXCEPT ![c] = "used"]
    BY <1>4 DEF Finish, Consumable, TypeOK, histVars, Idle
  <2> QED
    BY <1>a, <1>b, <2>1 DEF TypeOK, Attested
<1>5. ASSUME NEW h \in Handlers, Respond(h), UNCHANGED <<ch, signed>> PROVE OncePerChallenge'
  BY <1>a, <1>b, <1>5 DEF Respond, TypeOK, Attested
<1>6. ASSUME NEW h \in Handlers,
             VerifyFails(h) \/ VerifiedRefused(h) \/ Recorded(h) \/ DeliveryFailed(h)
      PROVE  OncePerChallenge'
  BY <1>5, <1>6 DEF VerifyFails, VerifiedRefused, Recorded, DeliveryFailed, chVars, histVars
<1>7. ASSUME NEW h \in Handlers, Verified(h) PROVE OncePerChallenge'
  <2>1. req[h] \in Request /\ InFlight(h)
    BY <1>7, InFlightType DEF Verified
  <2>2. /\ req[h].pc = "verifying" /\ UNCHANGED ch
        /\ req'[h].pc = "delivering" /\ req'[h].nonce = req[h].nonce
        /\ Attested(req[h])' = Attested(req[h]) /\ Attested(req[h]).nonce = req[h].nonce
        /\ \A g \in Handlers \ {h} : req'[g] = req[g]
        /\ signed' = signed \cup {Attested(req[h])}
    BY <1>7, <2>1 DEF Verified, Attested, TypeOK, Request, chVars
  <2> QED
    BY <1>a, <1>b, <2>1, <2>2 DEF Attested
<1>8. ASSUME NEW s \in Sids, FrameIssues(s) PROVE OncePerChallenge'
  <2>1. UNCHANGED <<req, ch>>
        /\ signed' = signed \cup {[nonce |-> None, sub |-> None, sid |-> s, svc |-> "face"]}
    BY <1>8 DEF FrameIssues, FrameEnds, chVars
  <2> QED
    BY <1>a, <1>b, <2>1 DEF Attested
<1>9. CASE Restart
  BY <1>a, <1>b, <1>9 DEF Restart, histVars, TypeOK
<1>10. CASE UNCHANGED vars
  BY <1>1, <1>10 DEF vars, chVars, histVars
<1> QED
  BY <1>3, <1>4, <1>6, <1>7, <1>8, <1>9, <1>10 DEF Next

\* PasskeyCheckin!OneAttestationPerChallenge for any number of finishes in
\* flight: the challenge leaves its store before the signature is looked at.
THEOREM ChallengesAreSpentOnce == Spec => []OneAttestationPerChallenge
<1>1. Init => OncePerChallenge
  BY DEF Init, OncePerChallenge, TakenOnce, OneAttestationPerChallenge, InFlight
<1>2. OncePerChallenge => OneAttestationPerChallenge
  BY DEF OncePerChallenge
<1> QED
  BY <1>1, <1>2, TypeInit, TypeNext, OncePerChallengeNext, PTL DEF Spec

-----------------------------------------------------------------------------
\* A session a request is about to complete is the one its challenge was bound
\* to by the same service, and bindings of taken challenges stay.
OwnSession ==
    /\ \A h \in Handlers : InFlight(h) /\ req[h].sid # None =>
          chSid[req[h].nonce] = req[h].sid /\ chSvc[req[h].nonce] = req[h].svc
    /\ \A a \in closed : a.svc # "face" => a.nonce # None /\ ch[a.nonce] = "used"
    /\ CompletesOwnSession

LEMMA OwnSessionNext == TypeOK /\ TakenOnce /\ OwnSession /\ [Next]_vars => OwnSession'
<1> SUFFICES ASSUME TypeOK, TakenOnce, OwnSession, [Next]_vars PROVE OwnSession'
  OBVIOUS
<1> USE PasskeyAssumption DEF OwnSession, CompletesOwnSession, InFlight
<1>a. \A h \in Handlers : InFlight(h) =>
         req[h] \in Request /\ req[h].nonce \in Challenges /\ ch[req[h].nonce] = "used"
  BY DEF TypeOK, Request, TakenOnce
<1>b. \A a \in closed : a.svc # "face" => a.nonce \in Challenges
  BY DEF TypeOK, Attestation
<1> DEFINE Kept == \A c \in Challenges : ch[c] = "used" =>
                      ch'[c] = "used" /\ chSid'[c] = chSid[c] /\ chSvc'[c] = chSvc[c]
<1>1. CASE UNCHANGED <<req, closed>> /\ Kept
  BY <1>a, <1>b, <1>1
<1>2. ASSUME NEW svc \in Services, NEW s \in Sids \cup {None}, PutChallenge(svc, s) PROVE Kept
  BY <1>2 DEF PutChallenge, TypeOK
<1>3. CASE (\E s \in Sids : CreateSession(s) \/ BeginProximity(s) \/ FrameStart(s) \/ FrameMoves(s))
           \/ BeginCheckin \/ (\E s \in Sids \cup {None} : BeginIdentity(s)) \/ Tick
  BY <1>1, <1>2, <1>3 DEF CreateSession, BeginProximity, BeginCheckin, BeginIdentity, Tick,
     FrameStart, FrameMoves, FrameEnds, chVars, histVars, Services
<1>4. ASSUME NEW h \in Handlers, NEW svc \in Services, NEW c \in Challenges, NEW k \in Creds,
             NEW s \in Sids \cup {None}, Finish(h, svc, c, k, s)
      PROVE  OwnSession'
  <2>1. /\ UNCHANGED <<closed, chSid, chSvc>> /\ ch' = [ch EXCEPT ![c] = "used"]
        /\ req'[h].nonce = c /\ req'[h].svc = svc /\ req'[h].sid = TakeSession(svc, c)
        /\ \A g \in Handlers \ {h} : req'[g] = req[g]
    BY <1>4 DEF Finish, TypeOK, histVars
  <2>2. TakeSession(svc, c) # None => chSid[c] = TakeSession(svc, c) /\ chSvc[c] = svc
    BY DEF TakeSession
  <2> QED
    BY <1>a, <1>b, <2>1, <2>2 DEF TypeOK
<1>5. ASSUME NEW h \in Handlers, Respond(h), UNCHANGED <<chVars, closed>> PROVE OwnSession'
  BY <1>a, <1>b, <1>5 DEF Respond, TypeOK, chVars
<1>6. ASSUME NEW h \in Handlers, VerifyFails(h) \/ VerifiedRefused(h) \/ DeliveryFailed(h)
      PROVE  OwnSession'
  BY <1>5, <1>6 DEF VerifyFails, VerifiedRefused, DeliveryFailed, chVars, histVars
<1>7. ASSUME NEW h \in Handlers, Verified(h) PROVE OwnSession'
  <2>1. req[h] \in Request /\ InFlight(h)
    BY <1>7, InFlightType DEF Verified
  <2>2. /\ UNCHANGED <<chVars, closed>>
        /\ req'[h].nonce = req[h].nonce /\ req'[h].sid = req[h].sid /\ req'[h].svc = req[h].svc
        /\ \A g \in Handlers \ {h} : req'[g] = req[g]
    BY <1>7, <2>1 DEF Verified, TypeOK, Request, chVars
  <2> QED
    BY <1>a, <1>b, <2>1, <2>2 DEF chVars
<1>8. ASSUME NEW h \in Handlers, Recorded(h) PROVE OwnSession'
  <2>1. req[h] \in Request /\ InFlight(h)
    BY <1>8, InFlightType DEF Recorded
  <2>2. /\ Attested(req[h]).nonce = req[h].nonce /\ Attested(req[h]).sid = req[h].sid
        /\ Attested(req[h]).svc = req[h].svc
    BY DEF Attested
  <2>3. UNCHANGED chVars /\ req' = [req EXCEPT ![h] = Idle]
    BY <1>8 DEF Recorded, Respond
  <2>4. \/ closed' = closed
        \/ req[h].sid # None /\ closed' = closed \cup {Attested(req[h])}
    BY <1>8, <2>2 DEF Recorded, Issue
  <2> QED
    BY <1>a, <1>b, <2>1, <2>2, <2>3, <2>4 DEF chVars, TypeOK, Request
<1>9. ASSUME NEW s \in Sids, FrameIssues(s) PROVE OwnSession'
  <2>1. /\ UNCHANGED <<req, chVars>>
        /\ \A a \in closed' \ closed : a.svc = "face"
    BY <1>9 DEF FrameIssues, FrameEnds, Issue
  <2> QED
    BY <1>a, <1>b, <2>1 DEF chVars
<1>10. CASE Restart
  BY <1>a, <1>b, <1>10 DEF Restart, histVars, TypeOK
<1>11. CASE UNCHANGED vars
  BY <1>1, <1>11 DEF vars, chVars, histVars
<1> QED
  BY <1>3, <1>4, <1>6, <1>7, <1>8, <1>9, <1>10, <1>11 DEF Next

\* PasskeyCheckin!CompletesOwnSession: a passkey completes only the session its
\* challenge was begun for, although three services consume from two stores.
THEOREM OwnSessionIsCompleted == Spec => []CompletesOwnSession
<1>1. Init => OncePerChallenge /\ OwnSession
  BY DEF Init, OncePerChallenge, TakenOnce, OneAttestationPerChallenge, InFlight, OwnSession,
     CompletesOwnSession
<1>2. TypeOK /\ OncePerChallenge /\ OwnSession /\ [Next]_vars => OwnSession'
  BY OwnSessionNext DEF OncePerChallenge
<1>3. OwnSession => CompletesOwnSession
  BY DEF OwnSession
<1> QED
  BY <1>1, <1>2, <1>3, TypeInit, TypeNext, OncePerChallengeNext, PTL DEF Spec

-----------------------------------------------------------------------------
\* PasskeyCheckin!IssuedIsRecorded: sessions are only marked by Issue, which the
\* passkey path runs after Aedilis's answer, whatever face frames do meanwhile.
THEOREM IssuedSessionsAreRecorded == Spec => []IssuedIsRecorded
<1>1. Init => IssuedIsRecorded
  BY DEF Init, IssuedIsRecorded
<1>2. TypeOK /\ IssuedIsRecorded /\ [Next]_vars => IssuedIsRecorded'
  <2> SUFFICES ASSUME TypeOK, IssuedIsRecorded, [Next]_vars PROVE IssuedIsRecorded'
    OBVIOUS
  <2> USE DEF IssuedIsRecorded
  <2>1. ASSUME \A s \in Sids : sess'[s] = "issued" => sess[s] = "issued",
               closed' = closed, recorded \subseteq recorded'
        PROVE  IssuedIsRecorded'
    BY <2>1
  <2>2. ASSUME NEW a, a.sid \in Sids \cup {None}, Issue(a),
               recorded \subseteq recorded', a.svc = "face" \/ a \in recorded'
        PROVE  IssuedIsRecorded'
    BY <2>2 DEF Issue, sessVars, TypeOK
  <2>3. ASSUME NEW s \in Sids,
               CreateSession(s) \/ BeginProximity(s) \/ FrameStart(s) \/ FrameMoves(s)
        PROVE  IssuedIsRecorded'
    BY <2>1, <2>3 DEF CreateSession, BeginProximity, FrameStart, FrameMoves, FrameEnds,
       histVars, sessVars, TypeOK
  <2>4. CASE BeginCheckin \/ Tick \/ Restart \/ \E s \in Sids \cup {None} : BeginIdentity(s)
    BY <2>1, <2>4 DEF BeginCheckin, BeginIdentity, Tick, Restart, histVars, sessVars
  <2>5. ASSUME NEW h \in Handlers,
               VerifyFails(h) \/ Verified(h) \/ VerifiedRefused(h) \/ DeliveryFailed(h)
        PROVE  IssuedIsRecorded'
    BY <2>1, <2>5 DEF VerifyFails, Verified, VerifiedRefused, DeliveryFailed, histVars, sessVars
  <2>6. ASSUME NEW h \in Handlers, Recorded(h) PROVE IssuedIsRecorded'
    <3>1. Attested(req[h]).sid \in Sids \cup {None}
      BY <2>6, InFlightType DEF Recorded, Attestation
    <3> QED
      BY <2>2, <2>6, <3>1 DEF Recorded
  <2>7. ASSUME NEW s \in Sids, FrameIssues(s) PROVE IssuedIsRecorded'
    BY <2>2, <2>7 DEF FrameIssues, FrameEnds
  <2>8. ASSUME NEW h \in Handlers, NEW svc \in Services, NEW c \in Challenges, NEW k \in Creds,
               NEW s \in Sids \cup {None}, Finish(h, svc, c, k, s)
        PROVE  IssuedIsRecorded'
    BY <2>1, <2>8 DEF Finish, histVars, sessVars
  <2>9. CASE UNCHANGED vars
    BY <2>1, <2>9 DEF vars, histVars, sessVars
  <2> QED
    BY <2>3, <2>4, <2>5, <2>6, <2>7, <2>8, <2>9 DEF Next
<1> QED
  BY <1>1, <1>2, TypeInit, TypeNext, PTL DEF Spec

-----------------------------------------------------------------------------
\* A proximity request holds its session in `busy` alone; when one has passed
\* the checks, or the session is not issued any more, a frame has reopened it
\* since the last completion by the route.
Proximity(h) == InFlight(h) /\ req[h].svc = "proximity"

OneProximity ==
    /\ \A h \in Handlers : Proximity(h) => req[h].path \in busy
    /\ \A h \in Handlers : InFlight(h) /\ ~ Proximity(h) => req[h].path = None
    /\ \A g, h \in Handlers :
          Proximity(g) /\ Proximity(h) /\ req[g].path = req[h].path => g = h
    /\ \A h \in Handlers : Proximity(h) /\ req[h].pc = "delivering" =>
          /\ req[h].sid = req[h].path
          /\ \A a \in closed :
                a.svc = "proximity" /\ a.sid = req[h].sid => a.sid \in reopened
    /\ \A a \in closed : a.svc = "proximity" =>
          a.sid \in Sids /\ (sess[a.sid] = "issued" \/ a.sid \in reopened)

LEMMA OneProximityNext == TypeOK /\ OneProximity /\ [Next]_vars => OneProximity'
<1> SUFFICES ASSUME TypeOK, OneProximity, [Next]_vars PROVE OneProximity'
  OBVIOUS
<1> USE PasskeyAssumption DEF OneProximity, Proximity, InFlight
<1>a. None \notin busy
  BY DEF TypeOK
<1>1. CASE /\ UNCHANGED <<req, busy>> /\ reopened \subseteq reopened'
           /\ \A a \in closed' : a.svc = "proximity" => a \in closed
           /\ \A s \in Sids : sess[s] = "issued" => sess'[s] = "issued" \/ s \in reopened'
  BY <1>1
<1>2. ASSUME NEW s \in Sids, CreateSession(s) \/ FrameStart(s) PROVE OneProximity'
  BY <1>1, <1>2 DEF CreateSession, FrameStart, histVars, TypeOK
<1>3. CASE (\E s \in Sids : BeginProximity(s)) \/ BeginCheckin \/ Tick
           \/ (\E s \in Sids \cup {None} : BeginIdentity(s))
  BY <1>1, <1>3 DEF BeginProximity, BeginCheckin, BeginIdentity, Tick, sessVars, histVars
<1>4. ASSUME NEW h \in Handlers, NEW svc \in Services, NEW c \in Challenges, NEW k \in Creds,
             NEW s \in Sids \cup {None}, Finish(h, svc, c, k, s)
      PROVE  OneProximity'
  <2>1. /\ UNCHANGED <<closed, sess, reopened>>
        /\ req'[h].pc = "verifying" /\ req'[h].svc = svc /\ req'[h].path = s
        /\ \A g \in Handlers \ {h} : req'[g] = req[g]
        /\ busy \subseteq busy'
        /\ IF svc = "proximity" THEN s \notin busy /\ s \in busy' ELSE s = None
    BY <1>4 DEF Finish, NotBusy, TypeOK, histVars, sessVars
  <2> QED
    BY <2>1
<1>5. ASSUME NEW h \in Handlers, Respond(h), UNCHANGED <<sess, closed, reopened>>
      PROVE  OneProximity'
  <2>1. /\ req'[h] = Idle /\ \A g \in Handlers \ {h} : req'[g] = req[g]
        /\ busy' = busy \ {req[h].path}
    BY <1>5 DEF Respond, TypeOK
  <2> QED
    BY <1>a, <1>5, <2>1 DEF Idle
<1>6. ASSUME NEW h \in Handlers, VerifyFails(h) \/ VerifiedRefused(h) \/ DeliveryFailed(h)
      PROVE  OneProximity'
  BY <1>5, <1>6 DEF VerifyFails, VerifiedRefused, DeliveryFailed, sessVars, histVars
<1>7. ASSUME NEW h \in Handlers, Verified(h) PROVE OneProximity'
  <2>1. req[h] \in Request /\ InFlight(h)
    BY <1>7, InFlightType DEF Verified
  <2>2. /\ UNCHANGED <<closed, sess, busy, reopened>>
        /\ req'[h] # Idle /\ req'[h].svc = req[h].svc /\ req'[h].path = req[h].path
        /\ req'[h].sid = req[h].sid
        /\ \A g \in Handlers \ {h} : req'[g] = req[g]
    BY <1>7, <2>1 DEF Verified, TypeOK, Request, Idle, sessVars
  <2>3. Proximity(h) => req[h].sid = req[h].path /\ sess[req[h].path] # "issued"
    BY <1>7 DEF Verified, MayIssue, Unissued
  <2> QED
    BY <2>1, <2>2, <2>3
<1>8. ASSUME NEW h \in Handlers, Recorded(h) PROVE OneProximity'
  <2>1. req[h] \in Request /\ InFlight(h) /\ req[h].pc = "delivering"
    BY <1>8, InFlightType DEF Recorded
  <2>2. Attested(req[h]).sid = req[h].sid /\ Attested(req[h]).svc = req[h].svc
    BY DEF Attested
  <2>3. /\ req'[h] = Idle /\ \A g \in Handlers \ {h} : req'[g] = req[g]
        /\ busy' = busy \ {req[h].path}
        /\ \A s \in Sids : sess[s] = "issued" => sess'[s] = "issued"
    BY <1>8, <2>1, <2>2 DEF Recorded, Respond, Issue, TypeOK, Request, sessVars
  <2>4. \A g \in Handlers : InFlight(g)' => g # h /\ InFlight(g) /\ req'[g] = req[g]
    BY <2>3
  <2>5. CASE UNCHANGED <<closed, reopened>>
    BY <1>a, <2>1, <2>3, <2>4, <2>5
  <2>6. CASE /\ closed' = closed \cup {Attested(req[h])}
             /\ req[h].sid \in Sids /\ sess'[req[h].sid] = "issued"
             /\ reopened' = IF req[h].svc = "proximity" THEN reopened \ {req[h].sid} ELSE reopened
    <3>1. CASE ~ Proximity(h)
      BY <1>a, <2>1, <2>2, <2>3, <2>4, <2>6, <3>1
    <3>2. CASE Proximity(h)
      <4>1. \A g \in Handlers : InFlight(g)' /\ Proximity(g) /\ req[g].pc = "delivering" =>
               req[g].sid # req[h].sid
        BY <2>4, <2>1, <3>2
      <4>2. \A a \in closed' : a.svc = "proximity" =>
               a.sid \in Sids /\ (sess'[a.sid] = "issued" \/ a.sid \in reopened')
        BY <2>2, <2>3, <2>6, <3>2
      <4>3. \A g \in Handlers : Proximity(g)' /\ req'[g].pc = "delivering" =>
               /\ req'[g].sid = req'[g].path
               /\ \A a \in closed' :
                     a.svc = "proximity" /\ a.sid = req'[g].sid => a.sid \in reopened'
        BY <2>2, <2>4, <2>6, <3>2, <4>1
      <4> QED
        BY <1>a, <2>1, <2>3, <2>4, <3>2, <4>2, <4>3
    <3> QED
      BY <3>1, <3>2
  <2> QED
    BY <1>8, <2>1, <2>2, <2>5, <2>6 DEF Recorded, Issue, Request, TypeOK
<1>9. ASSUME NEW s \in Sids, FrameMoves(s) PROVE OneProximity'
  <2>1. \A t \in Sids : sess[t] = "issued" => sess'[t] = "issued" \/ t \in reopened'
    BY <1>9 DEF FrameMoves, TypeOK, sessVars
  <2> QED
    BY <1>1, <1>9, <2>1 DEF FrameMoves, FrameEnds
<1>12. ASSUME NEW s \in Sids, FrameIssues(s) PROVE OneProximity'
  <2>1. /\ \A t \in Sids : sess[t] = "issued" => sess'[t] = "issued"
        /\ \A a \in closed' : a.svc = "proximity" => a \in closed
        /\ reopened' = reopened
    BY <1>12 DEF FrameIssues, Issue, TypeOK, sessVars
  <2> QED
    BY <1>1, <1>12, <2>1 DEF FrameIssues, FrameEnds
<1>10. CASE Restart
  BY <1>10 DEF Restart, histVars
<1>11. CASE UNCHANGED vars
  BY <1>1, <1>11 DEF vars, sessVars, histVars
<1> QED
  BY <1>2, <1>3, <1>4, <1>6, <1>7, <1>8, <1>9, <1>10, <1>11, <1>12 DEF Next

\* PasskeyCheckin!CompletesAgainOnlyReopened: the check before the await is
\* enough against the route itself, since a second request finds the session in
\* `busy` as long as the first one lasts and issued afterwards, unless a face
\* frame has moved it back.
THEOREM ProximityCompletesAgainOnlyReopened == Spec => CompletesAgainOnlyReopened
<1> DEFINE Claim == \A a \in closed' \ closed :
       (a.svc = "proximity" /\ \E b \in closed : b.svc = "proximity" /\ b.sid = a.sid)
       => a.sid \in reopened
<1>1. Init => OneProximity
  BY DEF Init, OneProximity, Proximity, InFlight
<1>2. TypeOK /\ OneProximity /\ [Next]_vars => [Claim]_vars
  <2> SUFFICES ASSUME TypeOK, OneProximity, [Next]_vars PROVE Claim
    OBVIOUS
  <2>1. CASE closed' = closed
    BY <2>1
  <2>2. ASSUME NEW h \in Handlers, Recorded(h) PROVE Claim
    <3>1. req[h] \in Request /\ InFlight(h) /\ req[h].pc = "delivering"
      BY <2>2, InFlightType DEF Recorded
    <3>2. Attested(req[h]).sid = req[h].sid /\ Attested(req[h]).svc = req[h].svc
      BY DEF Attested
    <3>3. \A a \in closed' \ closed : a = Attested(req[h])
      BY <2>2 DEF Recorded, Issue
    <3> QED
      BY <3>1, <3>2, <3>3 DEF OneProximity, Proximity
  <2>3. ASSUME NEW s \in Sids, FrameIssues(s) PROVE Claim
    BY <2>3 DEF FrameIssues, Issue
  <2> QED
    BY <2>1, <2>2, <2>3 DEF Next, vars, histVars, CreateSession, BeginProximity, BeginCheckin,
       BeginIdentity, FrameStart, FrameMoves, Finish, VerifyFails, Verified, VerifiedRefused,
       DeliveryFailed, Tick, Restart
<1> QED
  BY <1>1, <1>2, TypeInit, TypeNext, OneProximityNext, PTL DEF Spec, CompletesAgainOnlyReopened
=============================================================================
