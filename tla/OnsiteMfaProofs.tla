--------------------------- MODULE OnsiteMfaProofs ---------------------------
(***************************************************************************)
(* Proofs about OnsiteMfa, for any number of sessions, nonces, users and   *)
(* kiosk requests and any durations that satisfy MfaAssumption.            *)
(***************************************************************************)
EXTENDS OnsiteMfa, TLAPS

\* A request that is not idle names its session, and a session has a nonce
\* from the moment it is opened.
TypeInv ==
    /\ TypeOK
    /\ \A h \in Handlers : pc[h] # "idle" => target[h] \in Sids /\ bound[h] \in Sids
    /\ \A s \in Sids : state[s] # "unborn" => nonce[s] \in Nonces

\* What a sweep does to a session: nothing, or it is dropped after its
\* retention.
LEMMA SweptFacts ==
    ASSUME NEW st \in [Sids -> States]
    PROVE  /\ Swept(st) \in [Sids -> States]
           /\ \A s \in Sids :
                 \/ Swept(st)[s] = st[s]
                 \/ /\ Swept(st)[s] = "gone"
                    /\ st[s] \notin {"unborn", "gone", "submitting"}
                    /\ expiresAt[s] + Retention <= now
  BY DEF Swept, Present, States

LEMMA TypeInit == Init => TypeInv
  BY MfaAssumption DEF Init, TypeInv, TypeOK, States

LEMMA TypeNext == TypeInv /\ [Next]_vars => TypeInv'
<1> SUFFICES ASSUME TypeInv, [Next]_vars PROVE TypeInv'
  OBVIOUS
<1> USE MfaAssumption DEF TypeInv, TypeOK
<1>s. /\ Swept(state) \in [Sids -> States]
      /\ \A s \in Sids : Swept(state)[s] # state[s] =>
            /\ Swept(state)[s] = "gone" /\ state[s] # "unborn"
  BY SweptFacts
<1>1. ASSUME NEW n \in Nonces, Open(n) PROVE TypeInv'
  <2>1. PICK s \in Sids : state[s] = "unborn" /\ Create(s, n)
    BY <1>1 DEF Open
  <2>2. /\ state' \in [Sids -> States] /\ nonce' \in [Sids -> Nonces \cup {NoNonce}]
        /\ expiresAt' \in [Sids -> Nat]
    BY <1>s, <2>1 DEF Create, States
  <2>3. opened' \subseteq [sid : Sids, nonce : Nonces, at : Nat]
    BY <2>1 DEF Create
  <2>4. \A t \in Sids : state'[t] # "unborn" => nonce'[t] \in Nonces
    BY <1>s, <2>1 DEF Create
  <2> QED
    BY <1>1, <2>2, <2>3, <2>4 DEF Open, handlerVars, cernereVars
<1>2. ASSUME NEW n \in Nonces, IssueTicket(n) PROVE TypeInv'
  BY <1>2 DEF IssueTicket, storeVars, handlerVars, historyVars
<1>3. ASSUME Poll PROVE TypeInv'
  BY <1>3, <1>s DEF Poll, handlerVars, cernereVars, historyVars
<1>4. ASSUME NEW s \in Sids, PasskeyBegin(s) PROVE TypeInv'
  <2>1. ceremonies' \in [Sids -> 0..MaxCeremonies]
    BY <1>4 DEF PasskeyBegin
  <2> QED
    BY <1>4, <1>s, <2>1 DEF PasskeyBegin, handlerVars, cernereVars, historyVars
<1>5. ASSUME NEW h \in Handlers, NEW s \in Sids, FaceFrame(h, s) PROVE TypeInv'
  BY <1>5, <1>s DEF FaceFrame, Await, cernereVars, historyVars
<1>6. ASSUME NEW h \in Handlers, NEW s \in Sids, NEW b \in Sids, PasskeyFinish(h, s, b)
      PROVE TypeInv'
  <2>1. ceremonies' \in [Sids -> 0..MaxCeremonies]
    BY <1>6 DEF PasskeyFinish
  <2> QED
    BY <1>6, <2>1 DEF PasskeyFinish, Await, storeVars, cernereVars, historyVars
<1>7. ASSUME NEW h \in Handlers, NotVerified(h) PROVE TypeInv'
  BY <1>7 DEF NotVerified, Done, storeVars, cernereVars, historyVars
<1>8. ASSUME NEW h \in Handlers, NEW u \in Users, Verified(h, u) PROVE TypeInv'
  <2> DEFINE s == target[h]
             a == [sid |-> s, nonce |-> nonce[s], sub |-> u]
  <2>1. s \in Sids /\ state[s] = "waiting"
    BY <1>8 DEF Verified, Claimable
  <2>2. a \in Attestation
    BY <2>1 DEF Attestation
  <2>3. signed' \subseteq Attestation /\ net' \subseteq Attestation
    BY <1>8, <2>2 DEF Verified
  <2>4. state' \in [Sids -> States] /\ \A t \in Sids : state'[t] # "unborn" => nonce[t] \in Nonces
    BY <1>8, <2>1 DEF Verified, States
  <2>5. /\ pc' \in [Handlers -> {"idle", "verifying", "submitting"}]
        /\ \A g \in Handlers : pc'[g] # "idle" => pc[g] # "idle"
    BY <1>8 DEF Verified
  <2> QED
    BY <1>8, <2>3, <2>4, <2>5 DEF Verified
<1>9. ASSUME NEW h \in Handlers, VerifiedTooLate(h) PROVE TypeInv'
  BY <1>9, <1>s DEF VerifiedTooLate, Done, cernereVars, historyVars
<1>10. ASSUME NEW h \in Handlers, NEW o \in {"submitted", "rejected"}, Settle(h, o)
       PROVE /\ state' \in [Sids -> States]
             /\ \A t \in Sids : state'[t] # "unborn" => nonce'[t] \in Nonces
             /\ pc' \in [Handlers -> {"idle", "verifying", "submitting"}]
             /\ target' \in [Handlers -> Sids \cup {NoSid}]
             /\ bound' \in [Handlers -> Sids \cup {NoSid}]
             /\ \A g \in Handlers : pc'[g] # "idle" => target'[g] \in Sids /\ bound'[g] \in Sids
  <2> DEFINE s == target[h]
             settled == IF state[s] = "submitting" THEN [state EXCEPT ![s] = o] ELSE state
  <2>1. /\ settled \in [Sids -> States]
        /\ \A t \in Sids : settled[t] # "unborn" => state[t] # "unborn"
    BY <1>10 DEF Settle, States
  <2> HIDE DEF settled
  <2>2. /\ Swept(settled) \in [Sids -> States]
        /\ \A t \in Sids : Swept(settled)[t] # "unborn" => settled[t] # "unborn"
    BY <2>1, SweptFacts
  <2>3. state' = Swept(settled)
    BY <1>10 DEF Settle, settled
  <2> QED
    BY <1>10, <2>1, <2>2, <2>3 DEF Settle, Done
<1>11. ASSUME NEW h \in Handlers, SubmitAnswered(h) PROVE TypeInv'
  <2>1. PICK r \in replies : Settle(h, Outcome(r)) /\ replies' = replies \ {r}
    BY <1>11 DEF SubmitAnswered
  <2>2. Outcome(r) \in {"submitted", "rejected"}
    BY DEF Outcome
  <2> QED
    BY <1>10, <1>11, <2>1, <2>2 DEF SubmitAnswered, Settle, historyVars
<1>12. ASSUME NEW h \in Handlers, SubmitFailed(h) PROVE TypeInv'
  BY <1>10, <1>12 DEF SubmitFailed, Settle, historyVars
<1>13. ASSUME NEW a \in net, CernereReceives(a) PROVE TypeInv'
  <2>1. a \in Attestation
    OBVIOUS
  <2>2. a.sid \in Sids /\ a.nonce \in Nonces /\ Accepts(a) \in BOOLEAN
    BY <2>1 DEF Attestation, Accepts
  <2>3. usedBy' \in [Nonces -> Sids \cup {NoSid}]
    BY <1>13, <2>2 DEF CernereReceives
  <2>4. replies' \subseteq [sid : Sids, ok : BOOLEAN]
    BY <1>13, <2>2 DEF CernereReceives
  <2> QED
    BY <1>13, <2>3, <2>4 DEF CernereReceives, storeVars, handlerVars, historyVars
<1>14. ASSUME NEW a \in net, LoseRequest(a) PROVE TypeInv'
  BY <1>14 DEF LoseRequest, storeVars, handlerVars, historyVars
<1>15. CASE Tick
  BY <1>15 DEF Tick, storeVars, handlerVars, cernereVars, historyVars
<1>16. CASE Restart
  BY <1>16 DEF Restart, States
<1>17. CASE UNCHANGED vars
  BY <1>17 DEF vars, storeVars, handlerVars, cernereVars, historyVars
<1> QED
  BY <1>1, <1>2, <1>3, <1>4, <1>5, <1>6, <1>7, <1>8, <1>9, <1>11, <1>12, <1>13,
     <1>14, <1>15, <1>16, <1>17 DEF Next

LEMMA TypeInvariant == Spec => []TypeInv
  BY TypeInit, TypeNext, PTL DEF Spec

\* The store, the requests and Cernere's books keep their types in every
\* reachable state.
THEOREM TypeCorrect == Spec => []TypeOK
<1>1. TypeInv => TypeOK
  BY DEF TypeInv
<1> QED
  BY <1>1, TypeInvariant, PTL

-----------------------------------------------------------------------------
(* One session is served at a time.                                         *)

\* Only opening makes a session served that was not.
LEMMA ServedShrinks ==
    ASSUME TypeInv, [Next]_vars, \A n \in Nonces : ~ Open(n), NEW s \in Sids, Served(s)'
    PROVE  Served(s)
<1> USE MfaAssumption DEF TypeInv, TypeOK, Served
<1>s. \A t \in Sids : Swept(state)[t] \in {state[t], "gone"}
  BY SweptFacts
<1>1. CASE UNCHANGED <<now, storeVars>>
  BY <1>1 DEF storeVars
<1>2. CASE state' = Swept(state) /\ UNCHANGED <<now, expiresAt>>
  BY <1>s, <1>2
<1>3. ASSUME NEW h \in Handlers, NEW u \in Users, Verified(h, u) PROVE Served(s)
  BY <1>3 DEF Verified, Claimable
<1>4. ASSUME NEW h \in Handlers, NEW o \in {"submitted", "rejected"}, Settle(h, o)
      PROVE Served(s)
  <2> DEFINE settled == IF state[target[h]] = "submitting"
                        THEN [state EXCEPT ![target[h]] = o] ELSE state
  <2>1. settled \in [Sids -> States] /\ settled[s] \in {state[s], o}
    BY DEF States
  <2> HIDE DEF settled
  <2>2. Swept(settled)[s] \in {settled[s], "gone"}
    BY <2>1, SweptFacts
  <2>3. state' = Swept(settled) /\ UNCHANGED <<now, expiresAt>>
    BY <1>4 DEF Settle, settled
  <2> QED
    BY <2>1, <2>2, <2>3
<1>5. CASE Tick
  BY <1>5 DEF Tick, storeVars
<1>6. CASE Restart
  BY <1>6 DEF Restart
<1>7. ASSUME NEW h \in Handlers, SubmitAnswered(h) PROVE Served(s)
  BY <1>4, <1>7 DEF SubmitAnswered, Outcome
<1>8. ASSUME NEW h \in Handlers, SubmitFailed(h) PROVE Served(s)
  BY <1>4, <1>8 DEF SubmitFailed
<1>9. ASSUME NEW n \in Nonces, IssueTicket(n) PROVE Served(s)
  BY <1>1, <1>9 DEF IssueTicket
<1>10. CASE Poll
  BY <1>2, <1>10 DEF Poll
<1>11. ASSUME NEW t \in Sids, PasskeyBegin(t) PROVE Served(s)
  BY <1>2, <1>11 DEF PasskeyBegin
<1>12. ASSUME NEW h \in Handlers, NEW t \in Sids, FaceFrame(h, t) PROVE Served(s)
  BY <1>2, <1>12 DEF FaceFrame
<1>13. ASSUME NEW h \in Handlers, NEW t \in Sids, NEW b \in Sids, PasskeyFinish(h, t, b)
       PROVE Served(s)
  BY <1>1, <1>13 DEF PasskeyFinish
<1>14. ASSUME NEW h \in Handlers, NotVerified(h) PROVE Served(s)
  BY <1>1, <1>14 DEF NotVerified
<1>15. ASSUME NEW h \in Handlers, VerifiedTooLate(h) PROVE Served(s)
  BY <1>1, <1>2, <1>15 DEF VerifiedTooLate, storeVars
<1>16. ASSUME NEW a \in net, CernereReceives(a) \/ LoseRequest(a) PROVE Served(s)
  BY <1>1, <1>16 DEF CernereReceives, LoseRequest
<1>17. CASE UNCHANGED vars
  BY <1>1, <1>17 DEF vars
<1> QED
  BY <1>3, <1>5, <1>6, <1>7, <1>8, <1>9, <1>10, <1>11, <1>12, <1>13, <1>14, <1>15,
     <1>16, <1>17 DEF Next

\* Opening needs the slot to be free: afterwards the new session alone is served.
LEMMA OpenServesOne ==
    ASSUME TypeInv, NEW n \in Nonces, Open(n)
    PROVE  OneServed'
<1> USE MfaAssumption DEF TypeInv, TypeOK
<1>1. PICK s \in Sids : state[s] = "unborn" /\ Create(s, n)
  BY DEF Open
<1>2. \A t \in Sids : ~ Active(Swept(state), t)
  BY DEF Open
<1>3. Swept(state) \in [Sids -> States]
  BY SweptFacts
<1>4. ASSUME NEW t \in Sids, t # s PROVE ~ Served(t)'
  BY <1>1, <1>2, <1>3, <1>4 DEF Open, Create, Active, Served
<1> QED
  BY <1>4 DEF OneServed

\* At any time at most one session can produce, or is producing, an attestation
\* (openOnsiteMfaSession, OnsiteMfaSessionStore.active).
THEOREM OneServedHolds == Spec => []OneServed
<1>1. Init => OneServed
  BY DEF Init, OneServed, Served
<1>2. TypeInv /\ OneServed /\ [Next]_vars => OneServed'
  <2> SUFFICES ASSUME TypeInv, OneServed, [Next]_vars PROVE OneServed'
    OBVIOUS
  <2>1. CASE \E n \in Nonces : Open(n)
    BY <2>1, OpenServesOne
  <2>2. CASE \A n \in Nonces : ~ Open(n)
    BY <2>2, ServedShrinks DEF OneServed
  <2> QED
    BY <2>1, <2>2
<1> QED
  BY <1>1, <1>2, TypeInvariant, PTL DEF Spec

-----------------------------------------------------------------------------
(* A session is claimed once.                                               *)

\* What a sweep leaves alone: sessions not opened yet and those being submitted.
LEMMA SweptKeeps ==
    ASSUME NEW st \in [Sids -> States], NEW s \in Sids
    PROVE  /\ Swept(st)[s] \in {st[s], "gone"}
           /\ st[s] \in {"unborn", "submitting"} => Swept(st)[s] = st[s]
           /\ Swept(st)[s] # st[s] => expiresAt[s] + Retention <= now
  BY SweptFacts

\* A session moves forward only, keeps the nonce and the deadline it was opened
\* with, and is dropped after its retention or by a restart.
Forward(s) ==
    /\ \/ state'[s] = state[s]
       \/ state[s] = "unborn" /\ state'[s] = "waiting" /\ \E n \in Nonces : Open(n)
       \/ state[s] = "waiting" /\ state'[s] = "submitting"
       \/ state[s] = "submitting" /\ state'[s] \in {"submitted", "rejected"}
       \/ /\ state[s] # "unborn" /\ state'[s] = "gone"
          /\ expiresAt[s] + Retention <= now \/ opened' = {}
    /\ state[s] # "unborn" => nonce'[s] = nonce[s] /\ expiresAt'[s] = expiresAt[s]

LEMMA SettleForward ==
    ASSUME TypeInv, NEW h \in Handlers, NEW o \in {"submitted", "rejected"}, Settle(h, o),
           NEW s \in Sids
    PROVE  /\ Forward(s)
           /\ s # target[h] /\ state[s] = "submitting" => state'[s] = "submitting"
           /\ state'[s] = "submitted" =>
                 \/ state[s] = "submitted"
                 \/ s = target[h] /\ o = "submitted"
<1> USE DEF TypeInv, TypeOK
<1> DEFINE settled == IF state[target[h]] = "submitting"
                      THEN [state EXCEPT ![target[h]] = o] ELSE state
<1>1. settled \in [Sids -> States]
  BY DEF States
<1>2. \/ settled[s] = state[s]
      \/ s = target[h] /\ state[s] = "submitting" /\ settled[s] = o
  OBVIOUS
<1>4. state' = Swept(settled) /\ UNCHANGED <<nonce, expiresAt>>
  BY DEF Settle
<1> HIDE DEF settled
<1>3. Swept(settled)[s] \in {settled[s], "gone"}
      /\ (settled[s] \in {"unborn", "submitting"} => Swept(settled)[s] = settled[s])
      /\ (Swept(settled)[s] # settled[s] => expiresAt[s] + Retention <= now)
  BY <1>1, SweptKeeps
<1>5. s # target[h] => settled[s] = state[s]
  BY DEF settled
<1> QED
  BY <1>2, <1>3, <1>4, <1>5 DEF Forward

LEMMA SessionsMoveForward ==
    ASSUME TypeInv, [Next]_vars, NEW s \in Sids
    PROVE  Forward(s)
<1> USE DEF TypeInv, TypeOK, Forward
<1>s. /\ Swept(state)[s] \in {state[s], "gone"}
      /\ state[s] \in {"unborn", "submitting"} => Swept(state)[s] = state[s]
      /\ Swept(state)[s] # state[s] => expiresAt[s] + Retention <= now
  BY SweptKeeps
<1>1. CASE UNCHANGED storeVars
  BY <1>1 DEF storeVars
<1>2. CASE state' = Swept(state) /\ UNCHANGED <<nonce, expiresAt>>
  BY <1>s, <1>2
<1>3. ASSUME NEW n \in Nonces, Open(n) PROVE Forward(s)
  <2>1. PICK t \in Sids : state[t] = "unborn" /\ Create(t, n)
    BY <1>3 DEF Open
  <2>2. Swept(state) \in [Sids -> States]
    BY SweptFacts
  <2> QED
    BY <1>3, <1>s, <2>1, <2>2 DEF Create
<1>4. ASSUME NEW h \in Handlers, NEW u \in Users, Verified(h, u) PROVE Forward(s)
  BY <1>4 DEF Verified, Claimable
<1>5. ASSUME NEW h \in Handlers, SubmitAnswered(h) PROVE Forward(s)
  BY <1>5, SettleForward DEF SubmitAnswered, Outcome
<1>6. ASSUME NEW h \in Handlers, SubmitFailed(h) PROVE Forward(s)
  BY <1>6, SettleForward DEF SubmitFailed
<1>7. CASE Restart
  BY <1>7 DEF Restart
<1>8. ASSUME NEW n \in Nonces, IssueTicket(n) PROVE Forward(s)
  BY <1>1, <1>8 DEF IssueTicket
<1>9. CASE Poll
  BY <1>2, <1>9 DEF Poll
<1>10. ASSUME NEW t \in Sids, PasskeyBegin(t) PROVE Forward(s)
  BY <1>2, <1>10 DEF PasskeyBegin
<1>11. ASSUME NEW h \in Handlers, NEW t \in Sids, FaceFrame(h, t) PROVE Forward(s)
  BY <1>2, <1>11 DEF FaceFrame
<1>12. ASSUME NEW h \in Handlers, NEW t \in Sids, NEW b \in Sids, PasskeyFinish(h, t, b)
       PROVE Forward(s)
  BY <1>1, <1>12 DEF PasskeyFinish
<1>13. ASSUME NEW h \in Handlers, NotVerified(h) PROVE Forward(s)
  BY <1>1, <1>13 DEF NotVerified
<1>14. ASSUME NEW h \in Handlers, VerifiedTooLate(h) PROVE Forward(s)
  BY <1>s, <1>14 DEF VerifiedTooLate
<1>15. ASSUME NEW a \in net, CernereReceives(a) \/ LoseRequest(a) PROVE Forward(s)
  BY <1>1, <1>15 DEF CernereReceives, LoseRequest
<1>16. CASE Tick
  BY <1>1, <1>16 DEF Tick
<1>17. CASE UNCHANGED vars
  BY <1>1, <1>17 DEF vars
<1> QED
  BY <1>3, <1>4, <1>5, <1>6, <1>7, <1>8, <1>9, <1>10, <1>11, <1>12, <1>13, <1>14,
     <1>15, <1>16, <1>17 DEF Next

\* A request that submits holds its session in "submitting" alone, and a session
\* that an attestation was signed for cannot be claimed again.
Claimed ==
    /\ \A h \in Handlers : pc[h] = "submitting" => state[target[h]] = "submitting"
    /\ \A g, h \in Handlers :
          pc[g] = "submitting" /\ pc[h] = "submitting" /\ target[g] = target[h] => g = h

SignedOnce ==
    /\ \A a \in signed :
          state[a.sid] \notin {"unborn", "waiting"} /\ nonce[a.sid] = a.nonce
    /\ \A a, b \in signed : a.sid = b.sid => a = b

\* Every step but these three leaves a submission where it is: a claim, the end of
\* a submission, a restart.
LEMMA ClaimedNext == TypeInv /\ Claimed /\ [Next]_vars => Claimed'
<1> SUFFICES ASSUME TypeInv, Claimed, [Next]_vars PROVE Claimed'
  OBVIOUS
<1> USE DEF TypeInv, TypeOK, Claimed
<1>s. \A s \in Sids : state[s] = "submitting" => Swept(state)[s] = "submitting"
  BY SweptKeeps
<1>1. ASSUME \A h \in Handlers :
               pc'[h] = "submitting" => pc[h] = "submitting" /\ target'[h] = target[h],
             \A s \in Sids : state[s] = "submitting" => state'[s] = "submitting"
      PROVE  Claimed'
  BY <1>1
<1>2. ASSUME NEW h \in Handlers, NEW u \in Users, Verified(h, u) PROVE Claimed'
  <2>1. state[target[h]] = "waiting" /\ target[h] \in Sids
    BY <1>2 DEF Verified, Claimable
  <2>2. \A g \in Handlers : pc[g] = "submitting" => target[g] # target[h]
    BY <2>1
  <2>3. /\ state' = [state EXCEPT ![target[h]] = "submitting"]
        /\ pc' = [pc EXCEPT ![h] = "submitting"]
        /\ target' = target
    BY <1>2 DEF Verified
  <2>4. \A g \in Handlers : pc'[g] = "submitting" => state'[target'[g]] = "submitting"
    BY <2>1, <2>2, <2>3
  <2>5. \A f, g \in Handlers :
          pc'[f] = "submitting" /\ pc'[g] = "submitting" /\ target'[f] = target'[g] => f = g
    BY <2>2, <2>3
  <2> QED
    BY <2>4, <2>5
<1>3. ASSUME NEW h \in Handlers, NEW o \in {"submitted", "rejected"}, Settle(h, o)
      PROVE Claimed'
  <2>1. /\ pc[h] = "submitting"
        /\ \A g \in Handlers : pc'[g] = "submitting" =>
              g # h /\ pc[g] = "submitting" /\ target'[g] = target[g]
    BY <1>3 DEF Settle, Done
  <2>2. \A g \in Handlers : pc'[g] = "submitting" =>
          target[g] # target[h] /\ target[g] \in Sids /\ state[target[g]] = "submitting"
    BY <2>1
  <2>3. \A s \in Sids :
          s # target[h] /\ state[s] = "submitting" => state'[s] = "submitting"
    BY <1>3, SettleForward
  <2> QED
    BY <2>1, <2>2, <2>3
<1>4. CASE Restart
  BY <1>4 DEF Restart
<1>5. ASSUME NEW n \in Nonces, Open(n) PROVE Claimed'
  <2>1. PICK t \in Sids : state[t] = "unborn" /\ Create(t, n)
    BY <1>5 DEF Open
  <2>2. Swept(state) \in [Sids -> States]
    BY SweptFacts
  <2>3. \A s \in Sids : state[s] = "submitting" => state'[s] = "submitting"
    BY <1>s, <2>1, <2>2 DEF Create
  <2> QED
    BY <1>1, <1>5, <2>3 DEF Open, handlerVars
<1>6. ASSUME NEW n \in Nonces, IssueTicket(n) PROVE Claimed'
  BY <1>1, <1>6 DEF IssueTicket, handlerVars, storeVars
<1>7. CASE Poll
  BY <1>1, <1>7, <1>s DEF Poll, handlerVars
<1>8. ASSUME NEW t \in Sids, PasskeyBegin(t) PROVE Claimed'
  BY <1>1, <1>8, <1>s DEF PasskeyBegin, handlerVars
<1>9. ASSUME NEW h \in Handlers, NEW t \in Sids, FaceFrame(h, t) PROVE Claimed'
  BY <1>1, <1>9, <1>s DEF FaceFrame, Await
<1>10. ASSUME NEW h \in Handlers, NEW t \in Sids, NEW b \in Sids, PasskeyFinish(h, t, b)
       PROVE Claimed'
  BY <1>1, <1>10 DEF PasskeyFinish, Await, storeVars
<1>11. ASSUME NEW h \in Handlers, NotVerified(h) PROVE Claimed'
  BY <1>1, <1>11 DEF NotVerified, Done, storeVars
<1>12. ASSUME NEW h \in Handlers, VerifiedTooLate(h) PROVE Claimed'
  BY <1>1, <1>12, <1>s DEF VerifiedTooLate, Done
<1>13. ASSUME NEW h \in Handlers, SubmitAnswered(h) PROVE Claimed'
  BY <1>3, <1>13 DEF SubmitAnswered, Outcome
<1>14. ASSUME NEW h \in Handlers, SubmitFailed(h) PROVE Claimed'
  BY <1>3, <1>14 DEF SubmitFailed
<1>15. ASSUME NEW a \in net, CernereReceives(a) \/ LoseRequest(a) PROVE Claimed'
  BY <1>1, <1>15 DEF CernereReceives, LoseRequest, handlerVars, storeVars
<1>16. CASE Tick
  BY <1>1, <1>16 DEF Tick, handlerVars, storeVars
<1>17. CASE UNCHANGED vars
  BY <1>1, <1>17 DEF vars, handlerVars, storeVars
<1> QED
  BY <1>2, <1>4, <1>5, <1>6, <1>7, <1>8, <1>9, <1>10, <1>11, <1>12, <1>13, <1>14,
     <1>15, <1>16, <1>17 DEF Next

\* Only a claim signs.
LEMMA SignedSteps ==
    ASSUME [Next]_vars
    PROVE  \/ signed' = signed
           \/ \E h \in Handlers, u \in Users : Verified(h, u)
  BY DEF Next, Open, Create, IssueTicket, Poll, PasskeyBegin, FaceFrame, PasskeyFinish,
         NotVerified, VerifiedTooLate, SubmitAnswered, SubmitFailed, Settle,
         CernereReceives, LoseRequest, Tick, Restart, vars, historyVars

LEMMA SignedOnceNext == TypeInv /\ SignedOnce /\ [Next]_vars => SignedOnce'
<1> SUFFICES ASSUME TypeInv, SignedOnce, [Next]_vars PROVE SignedOnce'
  OBVIOUS
<1> USE DEF TypeInv, TypeOK
<1>1. \A a \in signed : a.sid \in Sids
  BY DEF Attestation
<1>2. \A a \in signed :
        state'[a.sid] \notin {"unborn", "waiting"} /\ nonce'[a.sid] = a.nonce
  BY <1>1, SessionsMoveForward DEF Forward, SignedOnce
<1>3. CASE signed' = signed
  BY <1>2, <1>3 DEF SignedOnce
<1>4. ASSUME NEW h \in Handlers, NEW u \in Users, Verified(h, u) PROVE SignedOnce'
  <2> DEFINE s == target[h]
             a == [sid |-> s, nonce |-> nonce[s], sub |-> u]
  <2>1. state[s] = "waiting" /\ s \in Sids
    BY <1>4 DEF Verified, Claimable
  <2>2. signed' = signed \cup {a} /\ nonce' = nonce /\ state'[s] = "submitting"
    BY <1>4, <2>1 DEF Verified
  <2>3. \A b \in signed : b.sid # s
    BY <2>1 DEF SignedOnce
  <2> QED
    BY <1>2, <2>2, <2>3 DEF SignedOnce
<1> QED
  BY <1>3, <1>4, SignedSteps

\* However many frames and assertions are in flight for a session, one attestation
\* is signed for it and one request submits it (completeOnsiteMfa, claim).
THEOREM OneAttestationPerSessionHolds == Spec => []OneAttestationPerSession
<1>1. Init => Claimed /\ SignedOnce
  BY DEF Init, Claimed, SignedOnce
<1>2. Claimed /\ SignedOnce => OneAttestationPerSession
  BY DEF Claimed, SignedOnce, OneAttestationPerSession
<1> QED
  BY <1>1, <1>2, ClaimedNext, SignedOnceNext, TypeInvariant, PTL DEF Spec

-----------------------------------------------------------------------------
(* A nonce is not opened twice within the life of its ticket.               *)

\* A session opened since the last start is remembered until its retention has
\* passed, and the ticket of its nonce was issued before it was opened.
Retained ==
    /\ \A a \in opened :
          /\ state[a.sid] # "unborn" /\ nonce[a.sid] = a.nonce
          /\ expiresAt[a.sid] = a.at + TTL /\ a.at <= now
          /\ state[a.sid] = "gone" => a.at + TTL + Retention <= now
          /\ ticketExp[a.nonce] # 0 /\ ticketExp[a.nonce] <= a.at + TicketTTL
    /\ \A n \in Nonces : ticketExp[n] <= now + TicketTTL

\* Opening a nonce needs every earlier session of it to be forgotten.
LEMMA OpenForgotten ==
    ASSUME TypeInv, Retained, NEW n \in Nonces, Open(n), NEW a \in opened, a.nonce = n
    PROVE  a.at + TTL + Retention <= now
<1> USE DEF TypeInv, TypeOK
<1>1. /\ a.sid \in Sids /\ a.at \in Nat
      /\ nonce[a.sid] = n /\ expiresAt[a.sid] = a.at + TTL
      /\ state[a.sid] # "unborn"
      /\ state[a.sid] = "gone" => a.at + TTL + Retention <= now
  BY DEF Retained
<1>2. Swept(state)[a.sid] \in {"unborn", "gone"}
  BY <1>1 DEF Open, HasNonce, Present
<1>3. /\ Swept(state)[a.sid] \in {state[a.sid], "gone"}
      /\ Swept(state)[a.sid] # state[a.sid] => expiresAt[a.sid] + Retention <= now
  BY <1>1, SweptKeeps
<1> QED
  BY <1>1, <1>2, <1>3

\* Only opening and issuing a ticket add to what Retained is about.
LEMMA OpenedSteps ==
    ASSUME [Next]_vars
    PROVE  /\ opened' \in {opened, {}} \/ \E n \in Nonces : Open(n)
           /\ ticketExp' = ticketExp \/ \E n \in Nonces : IssueTicket(n)
           /\ now' = now \/ Tick
  BY DEF Next, Open, Create, IssueTicket, Poll, PasskeyBegin, FaceFrame, PasskeyFinish,
         NotVerified, Verified, VerifiedTooLate, SubmitAnswered, SubmitFailed, Settle,
         CernereReceives, LoseRequest, Tick, Restart, vars, historyVars, cernereVars,
         storeVars

\* The sessions opened before keep their place, whatever the step.
LEMMA RetainedKept ==
    ASSUME TypeInv, Retained, [Next]_vars, NEW a \in opened, opened' # {}
    PROVE  /\ state'[a.sid] # "unborn" /\ nonce'[a.sid] = a.nonce
           /\ expiresAt'[a.sid] = a.at + TTL /\ a.at <= now'
           /\ state'[a.sid] = "gone" => a.at + TTL + Retention <= now'
           /\ ticketExp'[a.nonce] # 0 /\ ticketExp'[a.nonce] <= a.at + TicketTTL
<1> USE MfaAssumption DEF TypeInv, TypeOK
<1>1. a.sid \in Sids /\ a.nonce \in Nonces /\ a.at \in Nat
  OBVIOUS
<1>2. /\ state[a.sid] # "unborn" /\ nonce[a.sid] = a.nonce
      /\ expiresAt[a.sid] = a.at + TTL /\ a.at <= now
      /\ state[a.sid] = "gone" => a.at + TTL + Retention <= now
      /\ ticketExp[a.nonce] # 0 /\ ticketExp[a.nonce] <= a.at + TicketTTL
  BY DEF Retained
<1>3. now' \in Nat /\ now <= now'
  BY OpenedSteps DEF Tick
<1>4. Forward(a.sid)
  BY <1>1, SessionsMoveForward
<1>5. ticketExp'[a.nonce] = ticketExp[a.nonce]
  BY <1>1, <1>2, OpenedSteps DEF IssueTicket
<1>6. state'[a.sid] = "gone" => a.at + TTL + Retention <= now'
  BY <1>1, <1>2, <1>3, <1>4 DEF Forward
<1> QED
  BY <1>1, <1>2, <1>3, <1>4, <1>5, <1>6 DEF Forward

LEMMA RetainedNext ==
    TypeInv /\ Retained /\ ReplayRefused /\ [Next]_vars => Retained' /\ ReplayRefused'
<1> SUFFICES ASSUME TypeInv, Retained, ReplayRefused, [Next]_vars
             PROVE Retained' /\ ReplayRefused'
  OBVIOUS
<1> USE MfaAssumption DEF TypeInv, TypeOK
<1>1. \A n \in Nonces : ticketExp'[n] <= now' + TicketTTL
  <2>1. now' \in Nat /\ now <= now'
    BY OpenedSteps DEF Tick
  <2>2. CASE ticketExp' = ticketExp
    BY <2>1, <2>2 DEF Retained
  <2>3. ASSUME NEW n \in Nonces, IssueTicket(n)
        PROVE  \A m \in Nonces : ticketExp'[m] <= now' + TicketTTL
    BY <2>3 DEF IssueTicket, Retained
  <2> QED
    BY <2>2, <2>3, OpenedSteps
<1>2. CASE opened' = {}
  BY <1>1, <1>2 DEF Retained, ReplayRefused
<1>3. CASE opened' = opened /\ opened' # {}
  <2>1. Retained'
    BY <1>1, <1>3, RetainedKept DEF Retained
  <2>2. \A a \in opened : a.nonce \in Nonces /\ ticketExp'[a.nonce] = ticketExp[a.nonce]
    BY OpenedSteps DEF IssueTicket, Retained
  <2> QED
    BY <1>3, <2>1, <2>2 DEF ReplayRefused
<1>4. ASSUME NEW n \in Nonces, Open(n) PROVE Retained' /\ ReplayRefused'
  <2>1. PICK s \in Sids : state[s] = "unborn" /\ Create(s, n)
    BY <1>4 DEF Open
  <2> DEFINE c == [sid |-> s, nonce |-> n, at |-> now]
  <2>2. /\ opened' = opened \cup {c} /\ c \in opened'
        /\ now' = now /\ ticketExp' = ticketExp /\ ticketExp[n] # 0
    BY <1>4, <2>1 DEF Open, Create, cernereVars
  <2>3. /\ state'[s] = "waiting" /\ nonce'[s] = n /\ expiresAt'[s] = now + TTL
    BY <2>1, SweptFacts DEF Create
  <2>4. ticketExp[n] <= now + TicketTTL
    BY DEF Retained
  <2>5. Retained'
    <3>1. ASSUME NEW a \in opened'
          PROVE  /\ state'[a.sid] # "unborn" /\ nonce'[a.sid] = a.nonce
                 /\ expiresAt'[a.sid] = a.at + TTL /\ a.at <= now'
                 /\ state'[a.sid] = "gone" => a.at + TTL + Retention <= now'
                 /\ ticketExp'[a.nonce] # 0 /\ ticketExp'[a.nonce] <= a.at + TicketTTL
      <4>1. CASE a = c
        BY <2>2, <2>3, <2>4, <4>1
      <4>2. CASE a \in opened
        BY <2>2, <4>2, RetainedKept
      <4> QED
        BY <2>2, <4>1, <4>2
    <3> QED
      BY <1>1, <3>1 DEF Retained
  <2>6. ASSUME NEW a \in opened, a.nonce = n
        PROVE  ticketExp[n] <= now /\ a.at < now /\ a.at \in Nat
    <3>1. a.at + TTL + Retention <= now
      BY <1>4, <2>6, OpenForgotten
    <3>2. ticketExp[n] <= a.at + TicketTTL /\ a.at \in Nat /\ ticketExp[n] \in Nat
      BY <2>6 DEF Retained
    <3> QED
      BY <3>1, <3>2
  <2>7. ReplayRefused'
    <3> SUFFICES ASSUME NEW a \in opened', NEW b \in opened',
                        a.nonce = b.nonce, a # b, a.at <= b.at
                 PROVE  ticketExp[a.nonce] <= b.at
      BY <2>2 DEF ReplayRefused
    <3>1. CASE a \in opened /\ b \in opened
      BY <3>1 DEF ReplayRefused
    <3>2. CASE a \in opened /\ b = c
      BY <2>6, <3>2
    <3>3. CASE a = c /\ b \in opened
      BY <2>6, <3>3
    <3> QED
      BY <2>2, <3>1, <3>2, <3>3
  <2> QED
    BY <2>5, <2>7
<1> QED
  BY <1>2, <1>3, <1>4, OpenedSteps

\* While the process runs, a nonce is not opened twice within the life of its
\* Cernere ticket, whatever became of its first session: the retention of the
\* session store covers the ticket (session-store.ts, hasNonce and sweep).
THEOREM ReplayRefusedHolds == Spec => []ReplayRefused
<1>1. Init => Retained /\ ReplayRefused
  BY MfaAssumption DEF Init, Retained, ReplayRefused
<1> QED
  BY <1>1, RetainedNext, TypeInvariant, PTL DEF Spec

-----------------------------------------------------------------------------
(* A session shown as submitted consumed the ticket.                        *)

\* The attestation of session s consumed the ticket of the user it names.
Consumed(s) ==
    \E a \in signed : a.sid = s /\ a.sub = Owner[a.nonce] /\ usedBy[a.nonce] = s

\* Cernere receives what was signed, says yes for what it consumed, and nothing else
\* makes a session submitted.
Confirmed ==
    /\ net \subseteq signed
    /\ \A r \in replies : r.ok => Consumed(r.sid)
    /\ \A s \in Sids : state[s] = "submitted" => Consumed(s)

\* Only an answer "yes" turns a session into a submitted one.
LEMMA SubmittedSteps ==
    ASSUME TypeInv, [Next]_vars, NEW s \in Sids, state[s] # "submitted", state'[s] = "submitted"
    PROVE  \E r \in replies : r.sid = s /\ r.ok
<1> USE DEF TypeInv, TypeOK
<1>s. state' # state /\ state' # Swept(state)
  BY SweptKeeps
<1>1. ASSUME NEW h \in Handlers, SubmitAnswered(h)
      PROVE  \E r \in replies : r.sid = s /\ r.ok
  <2>1. PICK r \in replies : r.sid = target[h] /\ Settle(h, Outcome(r))
    BY <1>1 DEF SubmitAnswered
  <2>2. s = target[h] /\ Outcome(r) = "submitted"
    BY <2>1, SettleForward DEF Outcome
  <2> QED
    BY <2>1, <2>2 DEF Outcome
<1>2. ASSUME NEW h \in Handlers, SubmitFailed(h) PROVE FALSE
  BY <1>2, SettleForward DEF SubmitFailed
<1>3. ASSUME NEW n \in Nonces, Open(n) PROVE FALSE
  <2>1. PICK t \in Sids : Create(t, n)
    BY <1>3 DEF Open
  <2>2. state'[s] \in {"waiting", Swept(state)[s]}
    BY <2>1, SweptFacts DEF Create
  <2> QED
    BY <2>2, SweptKeeps
<1>4. ASSUME NEW h \in Handlers, NEW u \in Users, Verified(h, u) PROVE FALSE
  BY <1>4 DEF Verified
<1>5. ~ Restart
  BY DEF Restart
<1> QED
  BY <1>s, <1>1, <1>2, <1>3, <1>4, <1>5
     DEF Next, IssueTicket, Poll, PasskeyBegin, FaceFrame, PasskeyFinish, NotVerified,
         VerifiedTooLate, CernereReceives, LoseRequest, Tick, vars, storeVars

LEMMA SignedGrows ==
    ASSUME [Next]_vars
    PROVE  signed \subseteq signed'
  BY SignedSteps DEF Verified

\* A ticket is consumed once.
LEMMA ConsumedStays ==
    ASSUME TypeInv, [Next]_vars, NEW s \in Sids, Consumed(s)
    PROVE  Consumed(s)'
<1> USE MfaAssumption DEF TypeInv, TypeOK
<1>1. PICK a \in signed : a.sid = s /\ a.sub = Owner[a.nonce] /\ usedBy[a.nonce] = s
  BY DEF Consumed
<1>2. a \in signed' /\ a.nonce \in Nonces
  BY SignedGrows DEF Attestation
<1>3. CASE usedBy' = usedBy
  BY <1>1, <1>2, <1>3 DEF Consumed
<1>4. ASSUME NEW b \in net, CernereReceives(b) PROVE usedBy'[a.nonce] = s
  <2>1. b.nonce \in Nonces
    BY DEF Attestation
  <2> QED
    BY <1>1, <1>2, <1>4, <2>1 DEF CernereReceives, Accepts
<1> QED
  BY <1>1, <1>2, <1>3, <1>4
     DEF Next, Open, IssueTicket, Poll, PasskeyBegin, FaceFrame, PasskeyFinish, NotVerified,
         Verified, VerifiedTooLate, SubmitAnswered, SubmitFailed, LoseRequest, Tick,
         Restart, vars, cernereVars, Consumed

LEMMA ConfirmedNext == TypeInv /\ Confirmed /\ [Next]_vars => Confirmed'
<1> SUFFICES ASSUME TypeInv, Confirmed, [Next]_vars PROVE Confirmed'
  OBVIOUS
<1> USE MfaAssumption DEF TypeInv, TypeOK
<1>1. net' \subseteq signed'
  <2>1. net' \subseteq net \/ \E h \in Handlers, u \in Users : Verified(h, u)
    BY DEF Next, Open, IssueTicket, Poll, PasskeyBegin, FaceFrame, PasskeyFinish, NotVerified,
           VerifiedTooLate, SubmitAnswered, SubmitFailed, CernereReceives, LoseRequest, Tick,
           Restart, vars, cernereVars
  <2>2. CASE net' \subseteq net
    BY <2>2, SignedGrows DEF Confirmed
  <2>3. ASSUME NEW h \in Handlers, NEW u \in Users, Verified(h, u)
        PROVE  net' \subseteq signed'
    BY <2>3 DEF Verified, Confirmed
  <2> QED
    BY <2>1, <2>2, <2>3
<1>2. ASSUME NEW s \in Sids, state'[s] = "submitted" PROVE Consumed(s)'
  <2>1. Consumed(s)
    BY <1>2, SubmittedSteps DEF Confirmed
  <2> QED
    BY <2>1, ConsumedStays
<1>3. ASSUME NEW r \in replies', r.ok PROVE Consumed(r.sid)'
  <2>1. CASE r \in replies
    <3>1. Consumed(r.sid) /\ r.sid \in Sids
      BY <1>3, <2>1 DEF Confirmed
    <3> QED
      BY <3>1, ConsumedStays
  <2>2. ASSUME NEW a \in net, CernereReceives(a), r \notin replies
        PROVE  Consumed(r.sid)'
    <3>1. /\ r = [sid |-> a.sid, ok |-> Accepts(a)]
          /\ usedBy' = IF Accepts(a) THEN [usedBy EXCEPT ![a.nonce] = a.sid] ELSE usedBy
      BY <2>2 DEF CernereReceives
    <3>2. a \in signed' /\ a.nonce \in Nonces
      BY SignedGrows DEF Attestation, Confirmed
    <3>3. Accepts(a) /\ r.sid = a.sid
      BY <1>3, <3>1
    <3>4. a.sub = Owner[a.nonce] /\ usedBy'[a.nonce] = a.sid
      BY <3>1, <3>2, <3>3 DEF Accepts
    <3> QED
      BY <3>2, <3>3, <3>4 DEF Consumed
  <2>3. replies' \subseteq replies \/ \E a \in net : CernereReceives(a)
    BY DEF Next, Open, IssueTicket, Poll, PasskeyBegin, FaceFrame, PasskeyFinish, NotVerified,
           Verified, VerifiedTooLate, SubmitAnswered, SubmitFailed, LoseRequest, Tick,
           Restart, vars, cernereVars
  <2> QED
    BY <2>1, <2>2, <2>3
<1> QED
  BY <1>1, <1>2, <1>3 DEF Confirmed

\* A session a device sees as submitted is the one whose attestation consumed the
\* ticket at Cernere, for the user the ticket was issued to (onsite-mfa-kiosk.ts,
\* completion.ts, settle).
THEOREM SubmittedIsConfirmedHolds == Spec => []SubmittedIsConfirmed
<1>1. Init => Confirmed /\ SignedOnce
  BY DEF Init, Confirmed, SignedOnce
<1>2. Confirmed /\ SignedOnce => SubmittedIsConfirmed
  BY DEF Confirmed, SignedOnce, Consumed, SubmittedIsConfirmed
<1> QED
  BY <1>1, <1>2, ConfirmedNext, SignedOnceNext, TypeInvariant, PTL DEF Spec

-----------------------------------------------------------------------------
(* The store implements the single slot.                                    *)

LEMMA SlotOfServed ==
    ASSUME OneServed, NEW s \in Sids, Served(s)
    PROVE  SlotNow = [sid |-> s, phase |-> state[s]]
<1>1. (CHOOSE t \in Sids : Served(t)) = s
  BY DEF OneServed
<1> QED
  BY <1>1 DEF SlotNow

\* The same of the state after a step.
LEMMA SlotOfServedNext ==
    ASSUME OneServed', NEW s \in Sids, Served(s)'
    PROVE  SlotNow' = [sid |-> s, phase |-> state'[s]]
<1>1. (CHOOSE t \in Sids : Served(t)') = s
  BY DEF OneServed
<1> QED
  BY <1>1 DEF SlotNow

LEMMA OpenTakes ==
    ASSUME TypeInv, OneServed', NEW n \in Nonces, Open(n)
    PROVE  Slot!Next
<1> USE MfaAssumption DEF TypeInv, TypeOK
<1>1. PICK s \in Sids : state[s] = "unborn" /\ Create(s, n)
  BY DEF Open
<1>2. ASSUME NEW t \in Sids PROVE ~ Served(t)
  <2>1. ~ Active(Swept(state), t)
    BY DEF Open
  <2>2. /\ state[t] = "submitting" => Swept(state)[t] = "submitting"
        /\ Swept(state)[t] # state[t] => expiresAt[t] + Retention <= now
    BY SweptKeeps
  <2> QED
    BY <2>1, <2>2 DEF Served, Active
<1>3. state'[s] = "waiting" /\ expiresAt'[s] = now + TTL /\ now' = now
  BY <1>1, SweptFacts DEF Create, Open
<1>4. Served(s)'
  BY <1>3 DEF Served
<1>5. SlotNow = NoSid
  BY <1>2 DEF SlotNow
<1>6. SlotNow' = [sid |-> s, phase |-> "waiting"]
  BY <1>3, <1>4, SlotOfServedNext
<1>7. \A t \in Sids : t # s => (state'[t] = "unborn" <=> state[t] = "unborn")
  <2>1. ASSUME NEW t \in Sids, t # s PROVE state'[t] = Swept(state)[t]
    BY <1>1, <2>1, SweptFacts DEF Create
  <2> QED
    BY <2>1, SweptFacts
<1>8. \A t \in Sids : t # s => ~ Served(t)'
  BY <1>4 DEF OneServed
<1>9. LeftSlot' = LeftSlot /\ s \notin LeftSlot
  BY <1>1, <1>2, <1>4, <1>7, <1>8 DEF LeftSlot
<1> QED
  BY <1>5, <1>6, <1>9 DEF Slot!Next, Slot!Take

LEMMA SlotNext ==
    TypeInv /\ OneServed /\ OneServed' /\ [Next]_vars => [Slot!Next]_(Slot!vars)
<1> SUFFICES ASSUME TypeInv, OneServed, OneServed', [Next]_vars
             PROVE  Slot!Next \/ UNCHANGED Slot!vars
  OBVIOUS
<1>1. CASE \E n \in Nonces : Open(n)
  BY <1>1, OpenTakes
<1>2. CASE \A n \in Nonces : ~ Open(n)
  <2>1. \A s \in Sids : Served(s)' => Served(s)
    BY <1>2, ServedShrinks
  <2>2. \A s \in Sids : state'[s] = "unborn" <=> state[s] = "unborn"
    BY <1>2, SessionsMoveForward DEF Forward
  <2>3. CASE \A s \in Sids : ~ Served(s)
    <3>1. SlotNow = NoSid /\ SlotNow' = NoSid
      BY <2>1, <2>3 DEF SlotNow
    <3>2. LeftSlot' = LeftSlot
      BY <2>1, <2>2, <2>3 DEF LeftSlot
    <3> QED
      BY <3>1, <3>2 DEF Slot!vars
  <2>4. ASSUME NEW s \in Sids, Served(s) PROVE Slot!Next \/ UNCHANGED Slot!vars
    <3>1. SlotNow = [sid |-> s, phase |-> state[s]]
      BY <2>4, SlotOfServed
    <3>2. \A t \in Sids : t # s => ~ Served(t) /\ ~ Served(t)'
      BY <2>1, <2>4 DEF OneServed
    <3>3. state[s] \in {"waiting", "submitting"}
      BY <2>4 DEF Served
    <3>4. CASE Served(s)'
      <4>1. SlotNow' = [sid |-> s, phase |-> state'[s]]
        BY <3>4, SlotOfServedNext
      <4>2. LeftSlot' = LeftSlot
        BY <2>2, <2>4, <3>2, <3>4 DEF LeftSlot
      <4>3. \/ state'[s] = state[s]
            \/ state[s] = "waiting" /\ state'[s] = "submitting"
        BY <3>3, <3>4, SessionsMoveForward DEF Forward, Served
      <4>4. CASE state'[s] = state[s]
        BY <3>1, <4>1, <4>2, <4>4 DEF Slot!vars
      <4>5. CASE state[s] = "waiting" /\ state'[s] = "submitting"
        BY <3>1, <4>1, <4>2, <4>5 DEF Slot!Next, Slot!Claim
      <4> QED
        BY <4>3, <4>4, <4>5
    <3>5. CASE ~ Served(s)'
      <4>1. SlotNow' = NoSid
        BY <3>2, <3>5 DEF SlotNow
      <4>2. LeftSlot' = LeftSlot \cup {s}
        BY <2>2, <2>4, <3>2, <3>3, <3>5 DEF LeftSlot
      <4> QED
        BY <3>1, <3>3, <4>1, <4>2 DEF Slot!Next, Slot!Release
    <3> QED
      BY <3>4, <3>5
  <2> QED
    BY <2>3, <2>4
<1> QED
  BY <1>1, <1>2

\* The session store implements one slot that is taken when it is free, claimed at
\* most once and left for good, although the code notices expiry lazily and keeps
\* sessions it no longer serves (session-store.ts).
THEOREM ImplementsSlot == Spec => SlotSpec
<1>1. Init => Slot!Init
  <2> SUFFICES ASSUME Init PROVE Slot!Init
    OBVIOUS
  <2>1. \A s \in Sids : state[s] = "unborn" /\ ~ Served(s)
    BY DEF Init, Served
  <2> QED
    BY <2>1 DEF SlotNow, LeftSlot, Slot!Init
<1> QED
  BY <1>1, SlotNext, TypeInvariant, OneServedHolds, PTL DEF Spec, SlotSpec, Slot!Spec
=============================================================================
