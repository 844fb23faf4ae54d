---------------------------- MODULE PanelsProofs ----------------------------
(***************************************************************************)
(* Proofs about the panels of the kiosk's page in Services, for any values *)
(* of the constants that satisfy their assumptions, and that every part of *)
(* Services keeps to its types.                                            *)
(***************************************************************************)
EXTENDS ServicesProofs

(* The panel of the staff's decisions.                                      *)

\* The reason and the code on display were typed for the candidate who is open.
ReviewInv ==
    /\ ReviewPanelTypeOK
    /\ code \in {NoCandidate, user} /\ reason \in {NoCandidate, user}
    /\ ReasonIsAboutSubject

LEMMA ReviewStart == ServicesInit => ReviewInv
  BY ReviewPanelAssumption DEF ServicesInit, ReviewPanelInit, ReviewInv, ReviewPanelTypeOK,
     ReasonIsAboutSubject, Somebody, Requests

\* What is sent is a request, and one about its subject if it has to be.
LEMMA SendKeeps ==
    ASSUME out \subseteq Requests, ReasonIsAboutSubject,
           NEW op \in {"photo", "start", "consent", "frame", "approve", "reject"},
           NEW of \in Somebody, NEW about \in Somebody,
           op \in {"reject", "start"} => about = of,
           Send(op, of, about)
    PROVE  out' \subseteq Requests /\ ReasonIsAboutSubject'
  BY DEF Send, Requests, ReasonIsAboutSubject

LEMMA AnswerKeeps ==
    ASSUME out \subseteq Requests, ReasonIsAboutSubject, NEW r, out' = out \ {r}
    PROVE  out' \subseteq Requests /\ ReasonIsAboutSubject'
  BY DEF ReasonIsAboutSubject

LEMMA ReviewStep == ReviewInv /\ (ReviewPanelNext \/ UNCHANGED reviewVars) => ReviewInv'
<1> SUFFICES ASSUME ReviewInv, ReviewPanelNext \/ UNCHANGED reviewVars PROVE ReviewInv'
  OBVIOUS
<1> USE ReviewPanelAssumption DEF ReviewInv, ReviewPanelTypeOK, Somebody
<1>1. ASSUME NEW u \in Candidates, OpenReviewCandidate(u) PROVE ReviewInv'
  <2>1. out' \subseteq Requests /\ ReasonIsAboutSubject'
    <3>1. CASE Send("photo", u, u)
      BY <3>1, SendKeeps
    <3>2. CASE UNCHANGED out
      BY <3>2 DEF ReasonIsAboutSubject
    <3> QED
      BY <1>1, <3>1, <3>2 DEF OpenReviewCandidate
  <2>2. detail' \in BOOLEAN /\ capture' \in BOOLEAN
    BY <1>1, Zenon DEF OpenReviewCandidate
  <2> QED
    BY <1>1, <2>1, <2>2 DEF OpenReviewCandidate, ReasonAfterOpen
<1>2. ASSUME NEW m \in {"reenroll", "promote-photo"}, ChooseMode(m) PROVE ReviewInv'
  BY <1>2 DEF ChooseMode, ReasonIsAboutSubject
<1>3. CASE TypeCode \/ TypeReason
  BY <1>3 DEF TypeCode, TypeReason, ReasonIsAboutSubject
<1>4. CASE ApproveReview
  <2>1. \/ code # NoCandidate /\ Send("start", user, code)
        \/ Send("approve", user, enrol)
    BY <1>4 DEF ApproveReview, SubmitReviewApproval
  <2>2. out' \subseteq Requests /\ ReasonIsAboutSubject'
    <3>1. CASE code # NoCandidate /\ Send("start", user, code)
      BY <3>1, SendKeeps
    <3>2. CASE Send("approve", user, enrol)
      BY <3>2, SendKeeps
    <3> QED
      BY <2>1, <3>1, <3>2
  <2> QED
    BY <1>4, <2>2 DEF ApproveReview
<1>5. CASE BeginReviewCapture
  <2>1. out' \subseteq Requests /\ ReasonIsAboutSubject'
    BY <1>5, SendKeeps DEF BeginReviewCapture
  <2> QED
    BY <1>5, <2>1 DEF BeginReviewCapture
<1>6. CASE CaptureReviewShot
  <2>1. out' \subseteq Requests /\ ReasonIsAboutSubject'
    BY <1>6, SendKeeps DEF CaptureReviewShot
  <2>2. capture' \in BOOLEAN
    BY <1>6, Zenon DEF CaptureReviewShot
  <2> QED
    BY <1>6, <2>1, <2>2 DEF CaptureReviewShot
<1>7. CASE RejectReview
  <2>1. out' \subseteq Requests /\ ReasonIsAboutSubject'
    BY <1>7, SendKeeps DEF RejectReview
  <2> QED
    BY <1>7, <2>1 DEF RejectReview
<1>8. ASSUME NEW r \in out,
             \/ PhotoAnswered(r) \/ StartAnswered(r) \/ ApproveAnswered(r)
             \/ ConsentAnswered(r) \/ RejectAnswered(r)
      PROVE  ReviewInv'
  <2>1. r \in Requests /\ out' = out \ {r}
    BY <1>8 DEF PhotoAnswered, StartAnswered, ApproveAnswered, ConsentAnswered, RejectAnswered,
       Answers
  <2>2. r.of \in Somebody
    BY <2>1 DEF Requests
  <2>3. out' \subseteq Requests /\ ReasonIsAboutSubject'
    BY <2>1, AnswerKeeps
  <2>4. CASE PhotoAnswered(r)
    BY <2>2, <2>3, <2>4 DEF PhotoAnswered
  <2>5. CASE StartAnswered(r)
    BY <2>2, <2>3, <2>5 DEF StartAnswered
  <2>6. CASE ApproveAnswered(r)
    <3>1. detail' \in BOOLEAN /\ capture' \in BOOLEAN
      BY <2>6, Zenon DEF ApproveAnswered
    <3> QED
      BY <2>3, <2>6, <3>1 DEF ApproveAnswered
  <2>7. CASE ConsentAnswered(r)
    <3>1. capture' \in BOOLEAN
      BY <2>7, Zenon DEF ConsentAnswered
    <3> QED
      BY <2>3, <2>7, <3>1 DEF ConsentAnswered
  <2>8. CASE RejectAnswered(r)
    <3>1. detail' \in BOOLEAN /\ capture' \in BOOLEAN
      BY <2>8, Zenon DEF RejectAnswered
    <3> QED
      BY <2>3, <2>8, <3>1 DEF RejectAnswered
  <2> QED
    BY <1>8, <2>4, <2>5, <2>6, <2>7, <2>8
<1>9. ASSUME NEW r \in out, FrameAnswered(r) PROVE ReviewInv'
  <2>1. out' \subseteq Requests /\ ReasonIsAboutSubject'
    <3>1. CASE out' = out \ {r}
      BY <3>1, AnswerKeeps
    <3>2. CASE out' = (out \ {r}) \cup {[op |-> "approve", of |-> user, about |-> enrol]}
      BY <3>2 DEF Requests, ReasonIsAboutSubject
    <3> QED
      BY <1>9, <3>1, <3>2 DEF FrameAnswered, Answers
  <2>2. capture' \in BOOLEAN
    BY <1>9, Zenon DEF FrameAnswered
  <2> QED
    BY <1>9, <2>1, <2>2 DEF FrameAnswered
<1>10. CASE UNCHANGED reviewVars
  BY <1>10 DEF reviewVars, ReasonIsAboutSubject
<1> QED
  BY <1>1, <1>2, <1>3, <1>4, <1>5, <1>6, <1>7, <1>8, <1>9, <1>10 DEF ReviewPanelNext

\* Whatever answers come late, a rejection and the start of an enrolment carry
\* what the staff typed for that very candidate (kiosk-review-panel.ts).
THEOREM ReasonsAreAboutTheirSubject == Spec => []ReasonIsAboutSubject
<1>1. ReviewInv /\ [ServicesNext]_vars => ReviewInv'
  BY OneMoves, ReviewStep
<1>2. ReviewInv => ReasonIsAboutSubject
  BY DEF ReviewInv
<1> QED
  BY ReviewStart, <1>1, <1>2, PTL DEF Spec

-----------------------------------------------------------------------------
(* The panel of the login with the phone's passkey.                         *)

\* Before the last request is sent the server knows nothing of a flow, and it
\* knows nothing of one that was told to try again.
Unknown(f) == f \notin proxPending /\ f \notin proxConfirmed

ProximityInv ==
    /\ ProximityPanelTypeOK
    /\ \A f \in ProximityFlows :
         /\ prox[f].at \notin {"finish", "over"} => Unknown(f) /\ prox[f].told = "nothing"
         /\ prox[f].told = "again" => prox[f].at = "over" /\ Unknown(f)

LEMMA ProximityStart == ServicesInit => ProximityInv
<1> SUFFICES ASSUME ProximityPanelInit PROVE ProximityInv
  BY DEF ServicesInit
<1>1. proxTimer \in BOOLEAN /\ proxAborted \in BOOLEAN
  BY Zenon DEF ProximityPanelInit
<1> QED
  BY <1>1 DEF ProximityPanelInit, ProximityInv, ProximityPanelTypeOK, Unknown, Abortable, Awaiting

\* A flow that moves on to `to`, or ends, keeps the invariant for all the others.
LEMMA FlowMoves ==
    ASSUME ProximityInv, NEW f \in ProximityFlows,
           NEW flow \in [at : Awaiting \cup {"idle", "over"},
                         told : {"nothing", "confirmed", "again", "staff", "unsure"}],
           prox' = [prox EXCEPT ![f] = flow],
           proxTimer' \in BOOLEAN, proxAborted' \in BOOLEAN,
           proxPending' \subseteq proxPending \cup {f}, proxConfirmed' \subseteq proxConfirmed,
           flow.at \notin {"finish", "over"} =>
               Unknown(f) /\ f \notin proxPending' /\ flow.told = "nothing",
           flow.told = "again" => flow.at = "over" /\ Unknown(f) /\ f \notin proxPending'
    PROVE  ProximityInv'
<1> USE DEF ProximityInv, ProximityPanelTypeOK, Unknown
<1>1. ProximityPanelTypeOK'
  OBVIOUS
<1>2. prox'[f] = flow /\ \A g \in ProximityFlows \ {f} : prox'[g] = prox[g]
  OBVIOUS
<1>3. ASSUME NEW g \in ProximityFlows
      PROVE  /\ prox'[g].at \notin {"finish", "over"} => Unknown(g)' /\ prox'[g].told = "nothing"
             /\ prox'[g].told = "again" => prox'[g].at = "over" /\ Unknown(g)'
  BY <1>2
<1> QED
  BY <1>1, <1>3

\* The flow after a change of where it waits.
LEMMA MovedFlow ==
    ASSUME ProximityPanelTypeOK, NEW f \in ProximityFlows, prox[f].told = "nothing", NEW to
    PROVE  [prox EXCEPT ![f].at = to] = [prox EXCEPT ![f] = [at |-> to, told |-> "nothing"]]
<1>1. prox[f] = [at |-> prox[f].at, told |-> "nothing"]
  BY DEF ProximityPanelTypeOK
<1>2. [prox[f] EXCEPT !.at = to] = [at |-> to, told |-> "nothing"]
  BY <1>1
<1> QED
  BY <1>2, Zenon

LEMMA ProximityStep == ProximityInv /\ (ProximityPanelNext \/ UNCHANGED proxVars) => ProximityInv'
<1> SUFFICES ASSUME ProximityInv, ProximityPanelNext \/ UNCHANGED proxVars PROVE ProximityInv'
  OBVIOUS
<1> USE DEF ProximityInv, ProximityPanelTypeOK
<1>1. CASE AbortProximity \/ ProximityTimerFires
  <2>1. proxTimer' \in BOOLEAN /\ proxAborted' \in BOOLEAN
    <3>1. CASE AbortProximity
      BY <3>1, Zenon DEF AbortProximity
    <3>2. CASE ProximityTimerFires
      BY <3>2, Zenon DEF ProximityTimerFires
    <3> QED
      BY <1>1, <3>1, <3>2
  <2>2. UNCHANGED <<prox, serverPart>>
    BY <1>1 DEF AbortProximity, ProximityTimerFires
  <2> QED
    BY <2>1, <2>2 DEF serverPart, Unknown
<1>2. ASSUME NEW f \in ProximityFlows,
             \/ StartProximity(f) \/ CapabilitiesAnswered(f)
             \/ SessionCreated(f) \/ OptionsAnswered(f)
      PROVE  ProximityInv'
  <2>1. PICK to \in Awaiting \ {"finish"} :
          /\ prox' = [prox EXCEPT ![f].at = to]
          /\ prox[f].at \notin {"finish", "over"}
    BY <1>2 DEF StartProximity, CapabilitiesAnswered, SessionCreated, OptionsAnswered, Proceeds,
       Awaiting, Abortable
  <2>2. proxTimer' \in BOOLEAN /\ proxAborted' \in BOOLEAN
    <3>1. CASE StartProximity(f)
      BY <3>1, Zenon DEF StartProximity
    <3>2. CASE CapabilitiesAnswered(f) \/ SessionCreated(f) \/ OptionsAnswered(f)
      BY <3>2, Zenon DEF CapabilitiesAnswered, SessionCreated, OptionsAnswered, Proceeds
    <3> QED
      BY <1>2, <3>1, <3>2
  <2>3. UNCHANGED serverPart
    BY <1>2 DEF StartProximity, CapabilitiesAnswered, SessionCreated, OptionsAnswered, Proceeds
  <2>4. prox' = [prox EXCEPT ![f] = [at |-> to, told |-> "nothing"]]
    BY <2>1, MovedFlow
  <2> DEFINE flow == [at |-> to, told |-> "nothing"]
  <2>5. flow \in [at : Awaiting \cup {"idle", "over"},
                  told : {"nothing", "confirmed", "again", "staff", "unsure"}]
    OBVIOUS
  <2>6. Unknown(f) /\ to \notin {"finish", "over"}
    BY <2>1 DEF Awaiting, Abortable
  <2> HIDE DEF flow
  <2>7. flow.at = to /\ flow.told = "nothing"
    BY DEF flow
  <2>8. prox' = [prox EXCEPT ![f] = flow]
    BY <2>4 DEF flow
  <2> QED
    BY <2>2, <2>3, <2>5, <2>6, <2>7, <2>8, FlowMoves DEF serverPart, Unknown
<1>3. ASSUME NEW f \in ProximityFlows, AssertionGiven(f) PROVE ProximityInv'
  <2> DEFINE flow == [at |-> "finish", told |-> "nothing"]
  <2>1. /\ prox[f].at = "passkey" /\ prox[f].told = "nothing"
        /\ prox' = [prox EXCEPT ![f].at = "finish"]
        /\ proxPending' = proxPending \cup {f} /\ proxConfirmed' = proxConfirmed
    BY <1>3 DEF AssertionGiven
  <2>2. proxTimer' \in BOOLEAN /\ proxAborted' \in BOOLEAN
    BY <1>3, Zenon DEF AssertionGiven
  <2>3. prox' = [prox EXCEPT ![f] = flow]
    BY <2>1, MovedFlow
  <2>4. flow \in [at : Awaiting \cup {"idle", "over"},
                  told : {"nothing", "confirmed", "again", "staff", "unsure"}]
    BY DEF Awaiting
  <2>5. flow.at = "finish" /\ flow.told = "nothing"
    OBVIOUS
  <2> HIDE DEF flow
  <2> QED
    BY <2>1, <2>2, <2>3, <2>4, <2>5, FlowMoves
<1>4. ASSUME NEW f \in ProximityFlows, NEW told \in {"confirmed", "again", "staff", "unsure"},
             Ends(f, told), UNCHANGED serverPart, told = "again" => Unknown(f)
      PROVE  ProximityInv'
  <2> DEFINE flow == [at |-> "over", told |-> told]
  <2>1. proxTimer' \in BOOLEAN /\ proxAborted' \in BOOLEAN
    BY <1>4, Zenon DEF Ends
  <2>2. flow \in [at : Awaiting \cup {"idle", "over"},
                  told : {"nothing", "confirmed", "again", "staff", "unsure"}]
    OBVIOUS
  <2>3. flow.at = "over" /\ flow.told = told /\ prox' = [prox EXCEPT ![f] = flow]
    BY <1>4 DEF Ends
  <2> HIDE DEF flow
  <2> QED
    BY <1>4, <2>1, <2>2, <2>3, FlowMoves DEF serverPart, Unknown
<1>5. ASSUME NEW f \in ProximityFlows, ProximityRefused(f) \/ ProximityFails(f) \/ FinishAnswered(f)
      PROVE  ProximityInv'
  <2>1. CASE ProximityRefused(f)
    BY <1>4, <2>1 DEF ProximityRefused
  <2>2. CASE ProximityFails(f) /\ prox[f].at \in Sending
    BY <1>4, <2>2 DEF ProximityFails
  <2>3. CASE ProximityFails(f) /\ prox[f].at \notin Sending
    <3>1. prox[f].at \notin {"finish", "over"}
      BY <2>3 DEF ProximityFails, Running, Awaiting, Abortable, Sending
    <3> QED
      BY <1>4, <2>3, <3>1 DEF ProximityFails
  <2>4. CASE FinishAnswered(f)
    BY <1>4, <2>4 DEF FinishAnswered
  <2> QED
    BY <1>5, <2>1, <2>2, <2>3, <2>4
<1>6. ASSUME NEW f \in ProximityFlows, FinishHandled(f) PROVE ProximityInv'
  <2>1. UNCHANGED <<prox, proxTimer, proxAborted>> /\ f \in proxPending
        /\ proxPending' \subseteq proxPending /\ proxConfirmed' \subseteq proxConfirmed \cup {f}
    BY <1>6 DEF FinishHandled, pagePart
  <2>2. \A g \in ProximityFlows : Unknown(g) => Unknown(g)'
    BY <2>1 DEF Unknown
  <2> QED
    BY <2>1, <2>2
<1>7. CASE UNCHANGED proxVars
  BY <1>7 DEF proxVars, pagePart, serverPart, Unknown
<1> QED
  BY <1>1, <1>2, <1>3, <1>5, <1>6, <1>7 DEF ProximityPanelNext

-----------------------------------------------------------------------------
(* The panel of enrolment.                                                  *)

\* What is stored is stored for good, complete.  A commit is answered with ok
\* only for what is stored, and only such an answer lets the page declare.
Whole(enr) == enr.state = "stored" => enr.consented /\ enr.done = EnrollShots
OnlyStored(enrolments, r) ==
    r.op = "commit" /\ r.answer = "ok" => r.about # 0 /\ enrolments[r.about].state = "stored"

EnrollInv ==
    /\ EnrollPanelTypeOK
    /\ \A e \in EnrollIds : Whole(enrollment[e])
    /\ \A r \in requests : OnlyStored(enrollment, r)
    /\ \A e \in declared : enrollment[e].state = "stored"

Enrolment == [state : {"unborn", "open", "stored", "gone"},
              consented : BOOLEAN, done : 0..EnrollShots]
EnrollRequest == [op : {"staff", "start", "consent", "frame", "commit", "cancel"},
                  about : 0..MaxEnrolled, answer : {"none", "ok", "more", "refused"}]

LEMMA EnrollStart == ServicesInit => EnrollInv
<1> SUFFICES ASSUME EnrollPanelInit PROVE EnrollInv
  BY DEF ServicesInit
<1>1. stream \in BOOLEAN
  BY Zenon DEF EnrollPanelInit
<1>2. enrollment \in [EnrollIds -> Enrolment]
  BY EnrollPanelAssumption DEF EnrollPanelInit, Enrolment
<1>3. \A e \in EnrollIds : enrollment[e].state = "unborn"
  BY DEF EnrollPanelInit
<1> QED
  BY <1>1, <1>2, <1>3, EnrollPanelAssumption DEF EnrollPanelInit, EnrollInv, EnrollPanelTypeOK,
     Enrolment, Whole, OnlyStored

\* Steps that leave the enrolments as they are, the page's all of them: no commit
\* is answered ok, and only what one was answered ok for is declared.
LEMMA PageActs ==
    ASSUME EnrollInv, UNCHANGED enrollment,
           requests' \subseteq EnrollRequest,
           \A r \in requests' \ requests : ~(r.op = "commit" /\ r.answer = "ok"),
           on' \subseteq {"staff", "start", "accept", "capture", "cancel"},
           enrollId' \in 0..MaxEnrolled, stream' \in BOOLEAN,
           \A e \in declared' \ declared :
               \E r \in requests : r.op = "commit" /\ r.answer = "ok" /\ r.about = e
    PROVE  EnrollInv'
<1> USE DEF EnrollInv, EnrollPanelTypeOK, EnrollRequest, Whole, OnlyStored
<1>1. \A e \in declared' : e \in EnrollIds /\ enrollment[e].state = "stored"
  <2> SUFFICES ASSUME NEW e \in declared' \ declared
               PROVE  e \in EnrollIds /\ enrollment[e].state = "stored"
    OBVIOUS
  <2>1. PICK r \in requests : r.op = "commit" /\ r.answer = "ok" /\ r.about = e
    OBVIOUS
  <2> QED
    BY <2>1, EnrollPanelAssumption DEF EnrollIds
<1> QED
  BY <1>1

\* The server's other steps: it answers a request, and changes an enrolment that is
\* not stored yet.
LEMMA ServerActs ==
    ASSUME EnrollInv, UNCHANGED ofPage,
           NEW e \in EnrollIds, NEW enr \in Enrolment,
           enrollment' = [enrollment EXCEPT ![e] = enr], Whole(enr),
           enrollment[e].state = "stored" => enr.state = "stored",
           NEW r \in requests, NEW q \in EnrollRequest,
           requests' = (requests \ {r}) \cup {q},
           q.op = "commit" /\ q.answer = "ok" => q.about = e /\ enr.state = "stored"
    PROVE  EnrollInv'
<1> USE DEF EnrollInv, EnrollPanelTypeOK, EnrollRequest, Enrolment, ofPage
<1>1. EnrollPanelTypeOK'
  OBVIOUS
<1>2. enrollment'[e] = enr /\ \A d \in EnrollIds \ {e} : enrollment'[d] = enrollment[d]
  OBVIOUS
<1>3. \A d \in EnrollIds : enrollment[d].state = "stored" => enrollment'[d].state = "stored"
  BY <1>2
<1>4. \A d \in EnrollIds : Whole(enrollment'[d])
  BY <1>2
<1>5. \A p \in requests' : OnlyStored(enrollment', p)
  <2>1. ASSUME NEW p \in requests PROVE OnlyStored(enrollment', p)
    <3>1. p.about # 0 => p.about \in EnrollIds
      BY EnrollPanelAssumption DEF EnrollIds
    <3> QED
      BY <1>3, <3>1 DEF OnlyStored
  <2>2. OnlyStored(enrollment', q)
    BY <1>2, EnrollPanelAssumption DEF OnlyStored, EnrollIds
  <2> QED
    BY <2>1, <2>2
<1>6. \A d \in declared' : enrollment'[d].state = "stored"
  BY <1>3
<1> QED
  BY <1>1, <1>4, <1>5, <1>6 DEF Whole, OnlyStored

\* A request with its answer.
LEMMA AnsweredRequest ==
    ASSUME EnrollPanelTypeOK, NEW r \in requests, NEW answer \in {"none", "ok", "more", "refused"}
    PROVE  /\ [r EXCEPT !.answer = answer] \in EnrollRequest
           /\ [r EXCEPT !.answer = answer].op = r.op
           /\ [r EXCEPT !.answer = answer].about = r.about
           /\ [r EXCEPT !.answer = answer].answer = answer
<1>1. r = [op |-> r.op, about |-> r.about, answer |-> r.answer]
  BY DEF EnrollPanelTypeOK
<1>2. [r EXCEPT !.answer = answer] = [op |-> r.op, about |-> r.about, answer |-> answer]
  BY <1>1
<1> QED
  BY <1>2 DEF EnrollPanelTypeOK, EnrollRequest

\* The enrolment after a change of one field.
LEMMA ChangedEnrolment ==
    ASSUME EnrollPanelTypeOK, NEW e \in EnrollIds, NEW x
    PROVE  /\ [enrollment EXCEPT ![e].state = x] = [enrollment EXCEPT ![e] =
                [state |-> x, consented |-> enrollment[e].consented, done |-> enrollment[e].done]]
           /\ [enrollment EXCEPT ![e].consented = x] = [enrollment EXCEPT ![e] =
                [state |-> enrollment[e].state, consented |-> x, done |-> enrollment[e].done]]
           /\ [enrollment EXCEPT ![e].done = x] = [enrollment EXCEPT ![e] =
                [state |-> enrollment[e].state, consented |-> enrollment[e].consented, done |-> x]]
<1> DEFINE enr == enrollment[e]
<1>1. enr = [state |-> enr.state, consented |-> enr.consented, done |-> enr.done]
  BY DEF EnrollPanelTypeOK
<1>2. /\ [enr EXCEPT !.state = x] = [state |-> x, consented |-> enr.consented, done |-> enr.done]
      /\ [enr EXCEPT !.consented = x] = [state |-> enr.state, consented |-> x, done |-> enr.done]
      /\ [enr EXCEPT !.done = x] = [state |-> enr.state, consented |-> enr.consented, done |-> x]
  BY <1>1
<1> QED
  BY <1>2, Zenon

LEMMA EnrollServerStep ==
    ASSUME EnrollInv, NEW r \in requests,
           \/ StaffVerified(r) \/ EnrollmentStarted(r) \/ ConsentRecorded(r) \/ FrameTaken(r)
           \/ EnrollmentCommitted(r) \/ EnrollmentCancelled(r) \/ Refused(r)
    PROVE  EnrollInv'
<1> USE EnrollPanelAssumption
<1>t. EnrollPanelTypeOK
  BY DEF EnrollInv
<1>1. CASE StaffVerified(r) \/ Refused(r)
  <2>1. PICK answer \in {"ok", "refused"} :
          /\ requests' = (requests \ {r}) \cup {[r EXCEPT !.answer = answer]}
          /\ ~(r.op = "commit" /\ answer = "ok")
          /\ UNCHANGED <<enrollment, ofPage>>
    BY <1>1 DEF StaffVerified, Refused, Serves
  <2> DEFINE q == [r EXCEPT !.answer = answer]
  <2>2. q \in EnrollRequest /\ q.op = r.op /\ q.answer = answer
    BY <1>t, AnsweredRequest
  <2>3. requests' = (requests \ {r}) \cup {q}
    BY <2>1
  <2> HIDE DEF q
  <2>4. requests' \subseteq EnrollRequest
    BY <1>t, <2>2, <2>3 DEF EnrollPanelTypeOK, EnrollRequest
  <2>5. \A p \in requests' \ requests : ~(p.op = "commit" /\ p.answer = "ok")
    BY <2>1, <2>2, <2>3
  <2> QED
    BY <1>t, <2>1, <2>4, <2>5, PageActs DEF ofPage, EnrollPanelTypeOK
<1>2. CASE EnrollmentStarted(r)
  <2>1. PICK e \in EnrollIds :
          /\ r.op = "start" /\ enrollment[e].state = "unborn"
          /\ enrollment' = [enrollment EXCEPT ![e].state = "open"]
          /\ requests' = (requests \ {r}) \cup {[op |-> "start", about |-> e, answer |-> "ok"]}
          /\ UNCHANGED ofPage
    BY <1>2 DEF EnrollmentStarted
  <2> DEFINE q == [op |-> "start", about |-> e, answer |-> "ok"]
             enr == [state |-> "open", consented |-> enrollment[e].consented,
                     done |-> enrollment[e].done]
  <2>4. q \in EnrollRequest /\ q.op = "start"
    BY DEF EnrollRequest, EnrollIds
  <2>5. enr \in Enrolment /\ enr.state = "open"
    BY <1>t DEF EnrollPanelTypeOK, Enrolment
  <2>6. enrollment' = [enrollment EXCEPT ![e] = enr] /\ requests' = (requests \ {r}) \cup {q}
    BY <1>t, <2>1, ChangedEnrolment
  <2>7. UNCHANGED ofPage /\ enrollment[e].state = "unborn"
    BY <2>1
  <2> HIDE DEF q, enr
  <2> QED
    BY <2>7, <2>4, <2>5, <2>6, ServerActs DEF Whole
<1>3. ASSUME NEW e \in EnrollIds, e = r.about, enrollment[e].state = "open",
             NEW answer \in {"ok", "more"}, Serves(r, r.op, answer),
             NEW enr \in Enrolment, enrollment' = [enrollment EXCEPT ![e] = enr],
             Whole(enr), r.op = "commit" => enr.state = "stored"
      PROVE  EnrollInv'
  <2> DEFINE q == [r EXCEPT !.answer = answer]
  <2>1. q \in EnrollRequest /\ q.op = r.op /\ q.about = r.about
    BY <1>t, AnsweredRequest
  <2>2. requests' = (requests \ {r}) \cup {q} /\ UNCHANGED ofPage
    BY <1>3 DEF Serves
  <2> HIDE DEF q
  <2> QED
    BY <1>3, <2>1, <2>2, ServerActs
<1>4. ASSUME IsOpen(r.about) PROVE r.about \in EnrollIds /\ enrollment[r.about].state = "open"
  BY <1>t, <1>4 DEF IsOpen, EnrollPanelTypeOK, EnrollIds
<1> DEFINE e == r.about
           old == enrollment[e]
<1>5. IsOpen(e) => old \in Enrolment
  BY <1>t, <1>4 DEF EnrollPanelTypeOK, Enrolment
<1>6. CASE ConsentRecorded(r)
  <2> DEFINE enr == [state |-> old.state, consented |-> TRUE, done |-> old.done]
  <2>1. Serves(r, r.op, "ok") /\ r.op = "consent" /\ IsOpen(e)
    BY <1>6 DEF ConsentRecorded, Serves
  <2>2. enrollment' = [enrollment EXCEPT ![e] = enr]
    BY <1>t, <1>4, <1>6, <2>1, ChangedEnrolment DEF ConsentRecorded
  <2>3. enr \in Enrolment /\ enr.state = "open"
    BY <1>4, <1>5, <2>1 DEF Enrolment
  <2> HIDE DEF enr
  <2> QED
    BY <1>3, <1>4, <2>1, <2>2, <2>3 DEF Whole
<1>7. CASE FrameTaken(r)
  <2> DEFINE n == IF old.done < EnrollShots THEN old.done + 1 ELSE EnrollShots
  <2>1. /\ IsOpen(e)
        /\ \/ Serves(r, "frame", "more") /\ UNCHANGED enrollment
           \/ /\ Serves(r, "frame", IF n < EnrollShots THEN "more" ELSE "ok")
              /\ enrollment' = [enrollment EXCEPT ![e].done = n]
    BY <1>7 DEF FrameTaken
  <2>2. n \in 0..EnrollShots
    BY <1>5, <2>1 DEF Enrolment
  <2>3. PICK answer \in {"ok", "more"} : Serves(r, "frame", answer)
    BY <2>1
  <2>4. Serves(r, r.op, answer) /\ r.op = "frame"
    BY <2>3 DEF Serves
  <2> HIDE DEF n
  <2>5. CASE UNCHANGED enrollment
    <3>1. enrollment' = [enrollment EXCEPT ![e] = old]
      BY <1>t, <1>4, <2>1, <2>5 DEF EnrollPanelTypeOK
    <3>2. Whole(old)
      BY <1>4, <2>1 DEF Whole
    <3> QED
      BY <1>3, <1>4, <1>5, <2>1, <2>4, <3>1, <3>2
  <2>6. CASE enrollment' = [enrollment EXCEPT ![e].done = n]
    <3> DEFINE enr == [state |-> old.state, consented |-> old.consented, done |-> n]
    <3>1. enrollment' = [enrollment EXCEPT ![e] = enr]
      BY <1>t, <1>4, <2>1, <2>6, ChangedEnrolment
    <3>2. enr \in Enrolment /\ enr.state = "open"
      BY <1>4, <1>5, <2>1, <2>2 DEF Enrolment
    <3> HIDE DEF enr
    <3> QED
      BY <1>3, <1>4, <2>1, <2>4, <3>1, <3>2 DEF Whole
  <2> QED
    BY <2>1, <2>5, <2>6
<1>8. CASE EnrollmentCommitted(r)
  <2> DEFINE enr == [state |-> "stored", consented |-> old.consented, done |-> old.done]
  <2>1. Serves(r, r.op, "ok") /\ IsOpen(e) /\ old.consented /\ old.done >= EnrollShots
    BY <1>8 DEF EnrollmentCommitted, Serves
  <2>2. enrollment' = [enrollment EXCEPT ![e] = enr]
    BY <1>t, <1>4, <1>8, <2>1, ChangedEnrolment DEF EnrollmentCommitted
  <2>3. enr \in Enrolment /\ enr.state = "stored"
    BY <1>5, <2>1 DEF Enrolment
  <2>4. Whole(enr)
    BY <1>5, <2>1 DEF Enrolment, Whole
  <2> HIDE DEF enr
  <2> QED
    BY <1>3, <1>4, <2>1, <2>2, <2>3, <2>4
<1>9. CASE EnrollmentCancelled(r)
  <2> DEFINE enr == [state |-> "gone", consented |-> old.consented, done |-> old.done]
  <2>1. Serves(r, r.op, "ok") /\ r.op = "cancel" /\ IsOpen(e)
    BY <1>9 DEF EnrollmentCancelled, Serves
  <2>2. enrollment' = [enrollment EXCEPT ![e] = enr]
    BY <1>t, <1>4, <1>9, <2>1, ChangedEnrolment DEF EnrollmentCancelled
  <2>3. enr \in Enrolment /\ enr.state = "gone"
    BY <1>5, <2>1 DEF Enrolment
  <2> HIDE DEF enr
  <2> QED
    BY <1>3, <1>4, <2>1, <2>2, <2>3 DEF Whole
<1> QED
  BY <1>1, <1>2, <1>6, <1>7, <1>8, <1>9

LEMMA EnrollPageStep ==
    ASSUME EnrollInv,
           \/ AuthenticateStaff \/ StartEnrollment \/ TickConsent
           \/ BeginCapture \/ CaptureEnrollmentShot \/ CancelEnrollment
           \/ \E r \in requests :
                \/ StaffAnswered(r) \/ StartEnrollmentAnswered(r) \/ BeginCaptureAnswered(r)
                \/ AnotherShot(r) \/ LastShot(r) \/ CommitAnswered(r) \/ CancelAnswered(r)
                \/ RequestFails(r)
           \/ UNCHANGED enrolVars
    PROVE  EnrollInv'
<1> USE EnrollPanelAssumption
<1>t. /\ enrollId \in 0..MaxEnrolled /\ stream \in BOOLEAN
      /\ on \subseteq {"staff", "start", "accept", "capture", "cancel"}
      /\ requests \subseteq EnrollRequest
  BY DEF EnrollInv, EnrollPanelTypeOK, EnrollRequest
<1>1. ASSUME NEW op \in {"staff", "start", "consent", "frame", "cancel"}, SendEnroll(op),
             on' \subseteq on
      PROVE  EnrollInv'
  <2> DEFINE q == [op |-> op, about |-> enrollId, answer |-> "none"]
  <2>1. q \in EnrollRequest /\ q.answer = "none"
    BY <1>t DEF EnrollRequest
  <2>2. requests' = requests \cup {q} /\ UNCHANGED <<enrollment, enrollId, stream, declared>>
    BY <1>1 DEF SendEnroll
  <2> HIDE DEF q
  <2> QED
    BY <1>1, <1>t, <2>1, <2>2, PageActs
<1>2. ASSUME requests' \subseteq requests, UNCHANGED enrollment,
             on' \subseteq {"staff", "start", "accept", "capture", "cancel"},
             enrollId' \in 0..MaxEnrolled, stream' \in BOOLEAN, UNCHANGED declared
      PROVE  EnrollInv'
  BY <1>2, <1>t, PageActs
<1>3. CASE AuthenticateStaff \/ StartEnrollment \/ BeginCapture \/ CaptureEnrollmentShot
  BY <1>1, <1>3 DEF AuthenticateStaff, StartEnrollment, BeginCapture, CaptureEnrollmentShot
<1>4. CASE TickConsent
  BY <1>2, <1>4, <1>t DEF TickConsent
<1>5. ASSUME Cancelled, requests' \subseteq requests PROVE EnrollInv'
  <2>1. stream' \in BOOLEAN
    BY <1>5, Zenon DEF Cancelled
  <2> QED
    BY <1>2, <1>5, <1>t, <2>1 DEF Cancelled
<1>6. CASE CancelEnrollment
  BY <1>1, <1>5, <1>6 DEF CancelEnrollment
<1>7. ASSUME NEW r \in requests, StaffAnswered(r) \/ AnotherShot(r) \/ RequestFails(r)
      PROVE  EnrollInv'
  BY <1>2, <1>7, <1>t DEF StaffAnswered, AnotherShot, RequestFails, Takes
<1>8. ASSUME NEW r \in requests, StartEnrollmentAnswered(r) PROVE EnrollInv'
  <2>1. r.about \in 0..MaxEnrolled
    BY <1>t DEF EnrollRequest
  <2> QED
    BY <1>2, <1>8, <1>t, <2>1 DEF StartEnrollmentAnswered, Takes
<1>9. ASSUME NEW r \in requests, BeginCaptureAnswered(r) PROVE EnrollInv'
  <2>1. stream' \in BOOLEAN
    BY <1>9, <1>t, Zenon DEF BeginCaptureAnswered
  <2> QED
    BY <1>2, <1>9, <1>t, <2>1 DEF BeginCaptureAnswered, Takes
<1>10. ASSUME NEW r \in requests, LastShot(r) PROVE EnrollInv'
  <2> DEFINE q == [op |-> "commit", about |-> enrollId, answer |-> "none"]
  <2>1. q \in EnrollRequest /\ q.answer = "none"
    BY <1>t DEF EnrollRequest
  <2>2. requests' = (requests \ {r}) \cup {q} /\ UNCHANGED <<enrollment, on, enrollId, stream, declared>>
    BY <1>10 DEF LastShot, ofPage
  <2> HIDE DEF q
  <2> QED
    BY <1>t, <2>1, <2>2, PageActs
<1>11. ASSUME NEW r \in requests, CommitAnswered(r) PROVE EnrollInv'
  <2>1. CASE ~Committed(r)
    BY <1>2, <1>11, <1>t, <2>1 DEF CommitAnswered, Takes
  <2>2. CASE Committed(r)
    <3>1. stream' \in BOOLEAN
      BY <1>11, <2>2, Zenon DEF CommitAnswered
    <3>2. /\ r.op = "commit" /\ r.answer = "ok" /\ requests' = requests \ {r}
          /\ declared' = declared \cup {r.about} /\ enrollId' = 0 /\ UNCHANGED enrollment
          /\ on' \subseteq on
      BY <1>11, <2>2 DEF CommitAnswered, Takes, Committed
    <3> QED
      BY <1>t, <3>1, <3>2, PageActs
  <2> QED
    BY <2>1, <2>2
<1>12. ASSUME NEW r \in requests, CancelAnswered(r) PROVE EnrollInv'
  BY <1>5, <1>12 DEF CancelAnswered, Takes
<1>13. CASE UNCHANGED enrolVars
  BY <1>2, <1>13, <1>t DEF enrolVars, ofPage
<1> QED
  BY <1>3, <1>4, <1>6, <1>7, <1>8, <1>9, <1>10, <1>11, <1>12, <1>13

LEMMA EnrollStep == EnrollInv /\ (EnrollPanelNext \/ UNCHANGED enrolVars) => EnrollInv'
  BY EnrollServerStep, EnrollPageStep DEF EnrollPanelNext

\* Whatever is lost, late, pressed twice or overtaken, the page never sends a
\* person to try again whose login was or will be confirmed, and it never calls
\* an enrolment complete that is not stored (kiosk-proximity-panel.ts, kiosk.ts).
THEOREM PanelsAreTruthful == Spec => []PanelsTellTheTruth
<1>1. ProximityInv /\ [ServicesNext]_vars => ProximityInv'
  BY OneMoves, ProximityStep
<1>2. EnrollInv /\ [ServicesNext]_vars => EnrollInv'
  BY OneMoves, EnrollStep
<1>3. ProximityInv /\ EnrollInv => PanelsTellTheTruth
  BY DEF ProximityInv, EnrollInv, EnrollPanelTypeOK, Unknown, Whole, PanelsTellTheTruth,
     TryAgainIsSafe, CompleteIsStored
<1> QED
  BY ProximityStart, EnrollStart, <1>1, <1>2, <1>3, PTL DEF Spec

-----------------------------------------------------------------------------
(* The panel of on-site MFA and the main part of the page.                  *)

LEMMA MfaStart == ServicesInit => MfaPanelTypeOK
<1> SUFFICES ASSUME MfaPanelInit PROVE MfaPanelTypeOK
  BY DEF ServicesInit
<1>1. panel \in BOOLEAN /\ enabled \in BOOLEAN /\ camera \in BOOLEAN
  BY Zenon DEF MfaPanelInit
<1> QED
  BY <1>1, MfaPanelAssumption DEF MfaPanelInit, MfaPanelTypeOK

FlowStages == {"idle", "begin", "camera", "first", "frame", "pause", "over"}

\* A flow that waits elsewhere is still a flow.
LEMMA MovedConfirm ==
    ASSUME MfaPanelTypeOK, NEW c \in Flows, NEW at \in FlowStages, MoveTo(c, at), UNCHANGED opened
    PROVE  confirm' \in [Flows -> [method : {"none", "face", "passkey"}, target : 0..opened',
                                   at : FlowStages]]
<1>1. confirm[c] = [method |-> confirm[c].method, target |-> confirm[c].target,
                    at |-> confirm[c].at]
  BY DEF MfaPanelTypeOK
<1>2. [confirm[c] EXCEPT !.at = at] = [method |-> confirm[c].method,
                                       target |-> confirm[c].target, at |-> at]
  BY <1>1
<1>3. confirm' = [confirm EXCEPT ![c] = [method |-> confirm[c].method,
                                         target |-> confirm[c].target, at |-> at]]
  BY <1>2, Zenon DEF MoveTo
<1> QED
  BY <1>3 DEF MfaPanelTypeOK, FlowStages

LEMMA MfaStep == MfaPanelTypeOK /\ (MfaPanelNext \/ UNCHANGED mfaVars) => MfaPanelTypeOK'
<1> SUFFICES ASSUME MfaPanelTypeOK, MfaPanelNext \/ UNCHANGED mfaVars PROVE MfaPanelTypeOK'
  OBVIOUS
<1> USE MfaPanelAssumption
<1>t. /\ opened \in 0..MaxMfaSessions /\ served \in {0, opened} /\ shown \in 0..opened
      /\ panel \in BOOLEAN /\ enabled \in BOOLEAN /\ camera \in BOOLEAN
      /\ poll \in {"timer", "request", "ended"}
  BY DEF MfaPanelTypeOK
<1>1. CASE SessionIsOpened \/ SessionIsOver \/ UNCHANGED mfaVars
  <2>1. UNCHANGED panelVars /\ opened' \in opened..MaxMfaSessions /\ served' \in {0, opened'}
    BY <1>1, <1>t DEF SessionIsOpened, SessionIsOver, mfaVars
  <2> QED
    BY <1>t, <2>1 DEF MfaPanelTypeOK, panelVars
<1>2. ASSUME NEW told \in {0, served}, Shows(told)
      PROVE  shown' \in 0..opened /\ panel' \in BOOLEAN /\ enabled' \in BOOLEAN
  <2>1. shown' \in 0..opened
    BY <1>2, <1>t DEF Shows
  <2>2. CASE told \notin {0, shown}
    BY <1>2, <2>1, <2>2, Zenon DEF Shows
  <2>3. CASE ~(told \notin {0, shown}) /\ told = 0 /\ shown # 0 /\ ~camera /\ enabled
    BY <1>2, <1>t, <2>1, <2>3, Zenon DEF Shows
  <2>4. CASE /\ ~(told \notin {0, shown})
             /\ ~(told = 0 /\ shown # 0 /\ ~camera /\ enabled)
    BY <1>2, <1>t, <2>1, <2>4, Zenon DEF Shows
  <2> QED
    BY <2>2, <2>3, <2>4
<1>3. CASE PollAnswered \/ PollRefused
  <2>1. /\ shown' \in 0..opened /\ panel' \in BOOLEAN /\ enabled' \in BOOLEAN
        /\ UNCHANGED <<opened, served, camera, confirm>> /\ poll' = "timer"
    BY <1>2, <1>3 DEF PollAnswered, PollRefused
  <2> QED
    BY <1>t, <2>1 DEF MfaPanelTypeOK
<1>4. CASE PollTimerFires \/ PollLost
  BY <1>4 DEF PollTimerFires, PollLost, PollAfterFailure, MfaPanelTypeOK
<1>5. ASSUME NEW c \in Flows, NEW method \in {"face", "passkey"}, Press(c, method)
      PROVE  MfaPanelTypeOK'
  <2>1. enabled' \in BOOLEAN
    BY <1>5, Zenon DEF Press
  <2> QED
    BY <1>5, <2>1 DEF Press, PageStays, MfaPanelTypeOK
<1>6. ASSUME NEW c \in Flows, NEW at \in FlowStages, MoveTo(c, at), PageStays,
             enabled' \in BOOLEAN, camera' \in BOOLEAN
      PROVE  MfaPanelTypeOK'
  BY <1>6, <1>t, MovedConfirm DEF PageStays, MfaPanelTypeOK, FlowStages
<1>7. ASSUME NEW c \in Flows, BeginAnswered(c) \/ PauseEnds(c) \/ FrameGoesOn(c)
      PROVE  MfaPanelTypeOK'
  BY <1>6, <1>7, <1>t DEF BeginAnswered, PauseEnds, FrameGoesOn, SendsFrame, FlowStages
<1>8. ASSUME NEW c \in Flows, CameraOpens(c) \/ ResultArrives(c) \/ FrameFallsBack(c)
      PROVE  MfaPanelTypeOK'
  <2>1. enabled' \in BOOLEAN /\ camera' \in BOOLEAN
    BY <1>8, <1>t, Zenon DEF CameraOpens, ResultArrives, FrameFallsBack
  <2>2. PageStays /\ \E at \in FlowStages : MoveTo(c, at)
    BY <1>8 DEF CameraOpens, ResultArrives, FrameFallsBack, SendsFrame, FlowStages
  <2> QED
    BY <1>6, <2>1, <2>2
<1>9. ASSUME NEW c \in Flows, ConfirmFails(c) PROVE MfaPanelTypeOK'
  <2>1. enabled' \in BOOLEAN /\ camera' \in BOOLEAN
    <3>1. CASE confirm[c].at = "frame"
      BY <1>9, <1>t, <3>1 DEF ConfirmFails
    <3>2. CASE confirm[c].at # "frame"
      BY <1>9, <3>2, Zenon DEF ConfirmFails
    <3> QED
      BY <3>1, <3>2
  <2> QED
    BY <1>6, <1>9, <2>1 DEF ConfirmFails, FlowStages
<1> QED
  BY <1>1, <1>3, <1>4, <1>5, <1>7, <1>8, <1>9 DEF MfaPanelNext, PanelStep

\* No more sessions are under way than the bound leaves room for.
PageInv ==
    /\ KioskPageTypeOK
    /\ born + creating["passkey"] + creating["face"] <= MaxPageSessions

LEMMA PageStart == ServicesInit => PageInv
<1> SUFFICES ASSUME KioskPageInit PROVE PageInv
  BY DEF ServicesInit
<1>1. kioskCamera \in BOOLEAN
  BY Zenon DEF KioskPageInit
<1> QED
  BY <1>1, KioskPageAssumption DEF KioskPageInit, PageInv, KioskPageTypeOK, ChainStates, Free

LEMMA StoppedChains ==
    ASSUME NEW chains \in [Chains -> ChainStates], pollTimer \in Chains \cup {0}
    PROVE  Stopped(chains) \in [Chains -> ChainStates]
<1>1. Free \in ChainStates
  BY KioskPageAssumption DEF Free, ChainStates
<1> QED
  BY <1>1 DEF Stopped

LEMMA PageStep == PageInv /\ (KioskPageNext \/ UNCHANGED pageVars) => PageInv'
<1> SUFFICES ASSUME PageInv, KioskPageNext \/ UNCHANGED pageVars PROVE PageInv'
  OBVIOUS
<1> USE KioskPageAssumption
<1> DEFINE Room == creating \in [{"passkey", "face"} -> Nat] /\
                   born + creating["passkey"] + creating["face"] <= MaxPageSessions
<1>t. /\ born \in 0..MaxPageSessions
      /\ issuedPage \subseteq 1..born /\ gone \subseteq 1..born
      /\ current \in 0..born /\ pollTimer \in Chains \cup {0} /\ kioskCamera \in BOOLEAN
      /\ pollChain \in [Chains -> ChainStates] /\ frameChain \in [Chains -> ChainStates]
      /\ Room
  BY DEF PageInv, KioskPageTypeOK
<1>0. /\ Free \in ChainStates /\ Timer \in ChainStates
      /\ \A s \in 0..MaxPageSessions : RequestFor(s) \in ChainStates
  BY DEF Free, Timer, RequestFor, ChainStates
<1>s. /\ Stopped(pollChain) \in [Chains -> ChainStates]
      /\ \A c \in Chains : Stopped([pollChain EXCEPT ![c] = Free]) \in [Chains -> ChainStates]
  BY <1>t, <1>0, StoppedChains
\* What one step changes of the page's side, once a session may have been made.
<1>1. ASSUME born' \in born..MaxPageSessions, current' \in 0..born',
             UNCHANGED <<issuedPage, gone>>, Room', kioskCamera' \in BOOLEAN,
             pollChain' \in [Chains -> ChainStates], frameChain' \in [Chains -> ChainStates],
             pollTimer' \in Chains \cup {0}
      PROVE  PageInv'
  BY <1>1, <1>t DEF PageInv, KioskPageTypeOK
<1>2. ASSUME NEW kind \in {"passkey", "face"}, PressBegin(kind) PROVE PageInv'
  <2>1. Room'
    BY <1>2, <1>t DEF PressBegin, serverSide
  <2> QED
    BY <1>1, <1>2, <1>t, <1>s, <2>1 DEF PressBegin, serverSide
<1>3. ASSUME NEW kind \in {"passkey", "face"}, CreationFails(kind) PROVE PageInv'
  <2>1. Room'
    BY <1>3, <1>t DEF CreationFails, serverSide
  <2> QED
    BY <1>1, <1>3, <1>t, <2>1 DEF CreationFails, serverSide
<1>4. CASE PressOther
  BY <1>1, <1>4, <1>t, <1>s DEF PressOther, serverSide
<1>5. ASSUME NEW c \in Chains, PasskeySessionMade(c) PROVE PageInv'
  <2>1. Room' /\ born' \in born..MaxPageSessions
    BY <1>5, <1>t DEF PasskeySessionMade
  <2> QED
    BY <1>0, <1>1, <1>5, <1>t, <2>1 DEF PasskeySessionMade
<1>6. ASSUME NEW c \in Chains, FaceSessionMade(c) PROVE PageInv'
  <2>1. Room' /\ born' \in born..MaxPageSessions /\ born' = born + 1
    BY <1>6, <1>t DEF FaceSessionMade
  <2>2. RequestFor(born + 1) \in ChainStates
    BY <1>0, <1>t, <2>1
  <2>3. kioskCamera' \in BOOLEAN
    BY <1>6, <1>t, Zenon DEF FaceSessionMade
  <2>4. frameChain' \in [Chains -> ChainStates]
    BY <1>6, <1>t, <2>2 DEF FaceSessionMade
  <2> QED
    BY <1>1, <1>6, <1>t, <2>1, <2>3, <2>4 DEF FaceSessionMade
<1>7. ASSUME NEW c \in Chains, PollFires(c) \/ PollSessionAnswered(c) \/ PollSessionLost(c)
      PROVE  PageInv'
  <2>1. RequestFor(current) \in ChainStates
    BY <1>0, <1>t
  <2>2. pollChain' \in [Chains -> ChainStates] /\ pollTimer' \in Chains \cup {0}
    BY <1>7, <1>0, <1>t, <1>s, <2>1 DEF PollFires, PollSessionAnswered, PollSessionLost
  <2>3. UNCHANGED <<serverSide, current, creating, frameChain, kioskCamera>>
    BY <1>7 DEF PollFires, PollSessionAnswered, PollSessionLost
  <2> QED
    BY <1>1, <1>t, <2>2, <2>3 DEF serverSide
<1>8. ASSUME NEW c \in Chains, FrameFires(c) \/ FrameAnswer(c) PROVE PageInv'
  <2>1. RequestFor(current) \in ChainStates
    BY <1>0, <1>t
  <2>2. frameChain' \in [Chains -> ChainStates]
    BY <1>8, <1>0, <1>t, <2>1 DEF FrameFires, FrameAnswer
  <2>3. UNCHANGED <<serverSide, current, creating, pollChain, pollTimer, kioskCamera>>
    BY <1>8 DEF FrameFires, FrameAnswer
  <2> QED
    BY <1>1, <1>t, <2>2, <2>3 DEF serverSide
<1>9. ASSUME NEW s \in PageSessions, PageSessionIssued(s) \/ PageSessionExpires(s) PROVE PageInv'
  <2>1. s \in 1..born
    BY <1>9, <1>t DEF PageSessions, PageSessionIssued, PageSessionExpires
  <2>2. /\ UNCHANGED <<born, pageSide>>
        /\ issuedPage' \subseteq issuedPage \cup {s} /\ gone' \subseteq gone \cup {s}
    BY <1>9 DEF PageSessionIssued, PageSessionExpires
  <2> QED
    BY <1>t, <2>1, <2>2 DEF pageSide, PageInv, KioskPageTypeOK
<1>10. CASE UNCHANGED pageVars
  BY <1>10, <1>t DEF pageVars, serverSide, pageSide, PageInv, KioskPageTypeOK
<1> QED
  BY <1>2, <1>3, <1>4, <1>5, <1>6, <1>7, <1>8, <1>9, <1>10 DEF KioskPageNext

\* Every part of Services keeps to its types, whichever of them moves.
THEOREM TypeCorrect == Spec => []ServicesTypeOK
<1> DEFINE Inv == /\ RetriesInv /\ GatesInv /\ ShortInv /\ CacheInv /\ CertInv /\ StorageInv
                  /\ MfaPanelTypeOK /\ ReviewInv /\ PageInv /\ ProximityInv /\ EnrollInv
<1>1. ServicesInit => Inv
  BY RetriesStart, GatesStart, ShortStart, CacheStart, CertStart, StorageStart, MfaStart,
     ReviewStart, PageStart, ProximityStart, EnrollStart
<1>2. Inv /\ [ServicesNext]_vars => Inv'
  BY OneMoves, RetriesStep, GatesStep, ShortStep, CacheStep, CertStep, StorageStep, MfaStep,
     ReviewStep, PageStep, ProximityStep, EnrollStep
<1>3. Inv => ServicesTypeOK
  BY DEF ServicesTypeOK, RetriesInv, GatesInv, ShortInv, CacheInv, CertInv, StorageInv,
     ReviewInv, PageInv, ProximityInv, EnrollInv
<1> QED
  BY <1>1, <1>2, <1>3, PTL DEF Spec
=============================================================================
