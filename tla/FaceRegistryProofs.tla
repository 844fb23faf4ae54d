-------------------------- MODULE FaceRegistryProofs --------------------------
(***************************************************************************)
(* Proofs about FaceRegistry, for any number of people, enrolments,        *)
(* consents, pulls that overlap and restarts that satisfy                  *)
(* RegistryAssumption.                                                     *)
(***************************************************************************)
EXTENDS FaceRegistry, TLAPS

\* An enrolment knows its student from the start, and every consent it holds or
\* waits for was given by that student.
Held ==
    \A e \in Enrollments :
        /\ enr[e] = "unborn" => consent[e] = None /\ ask[e] = None /\ upload[e] = None
        /\ enr[e] # "unborn" => student[e] \in Users
        /\ \A c \in {consent[e], ask[e], upload[e]} : c \in Consents => given[c] = student[e]

TypeInv == TypeOK /\ Held

LEMMA TypeInit == Init => TypeInv
  BY RegistryAssumption DEF Init, TypeInv, TypeOK, Held, ClockType, CernereType, FaceType,
     OutboxType, EnrType, Pull, NoPull, Request, Consents

\* A consent recorded is added after those there are.
LEMMA GivenGrows ==
    ASSUME CernereType, NEW u \in Users, Len(given) < MaxConsents, given' = Append(given, u),
           UNCHANGED <<revoked, revs, left, now>>
    PROVE  /\ CernereType'
           /\ Consents \subseteq Consents' /\ Consents \subseteq Nat \ {0}
           /\ Len(given') \in Consents' /\ Len(given') \notin Consents
           /\ given'[Len(given')] = u
           /\ \A c \in Consents : given'[c] = given[c]
<1>1. Len(given) \in Nat /\ given \in [1..Len(given) -> Users]
  BY DEF CernereType
<1>2. /\ given' \in Seq(Users) /\ Len(given') = Len(given) + 1
      /\ \A c \in 1..Len(given) + 1 : given'[c] = IF c = Len(given) + 1 THEN u ELSE given[c]
      /\ DOMAIN given' = 1..Len(given) + 1 /\ DOMAIN given = 1..Len(given)
  BY <1>1 DEF CernereType
<1>3. Len(given') <= MaxConsents
  BY <1>1, <1>2, RegistryAssumption
<1> QED
  BY <1>1, <1>2, <1>3 DEF CernereType, Consents

LEMMA TypeNext == TypeInv /\ [Next]_vars => TypeInv'
<1> SUFFICES ASSUME TypeInv, [Next]_vars PROVE TypeInv'
  OBVIOUS
<1> USE RegistryAssumption DEF TypeInv, TypeOK, ClockType, CernereType, FaceType, OutboxType,
        EnrType, Held, Template, Consents, cernereVars, faceVars, outboxVars, enrVars
<1>a. Consents \subseteq Nat \ {0}
  BY DEF CernereType, Consents
<1>b. [state : {"pending", "active"}, consent : Consents] = Template /\ None \notin Template
  BY <1>a DEF Template
<1>c. ASSUME NEW k \in Pulls, AskConsents(k) PROVE pull' \in [Pulls -> Pull]
  <2>1. Request("cons?") \in Pull
    BY DEF Request, Pull
  <2> QED
    BY <1>c, <2>1 DEF AskConsents
<1>1. ASSUME NEW e \in Enrollments, NEW u \in Users, Start(e, u) PROVE TypeInv'
  BY <1>1, <1>a DEF Start
<1>2. ASSUME NEW e \in Enrollments, Cancel(e) PROVE TypeInv'
  BY <1>2, <1>a DEF Cancel, End
<1>3. ASSUME NEW e \in Enrollments, AskConsent(e) PROVE TypeInv'
  BY <1>3, <1>a DEF AskConsent
<1>4. ASSUME NEW e \in Enrollments, CernereRecordsConsent(e) PROVE TypeInv'
  <2> DEFINE c == Len(given')
  <2>1. student[e] \in Users /\ ask' = [ask EXCEPT ![e] = c]
    BY <1>4, <1>a DEF CernereRecordsConsent
  <2>2. /\ CernereType' /\ Consents \subseteq Consents' /\ c \in Consents'
        /\ given'[c] = student[e] /\ \A d \in Consents : d # c /\ given'[d] = given[d]
    BY <1>4, <2>1, GivenGrows DEF CernereRecordsConsent
  <2> HIDE DEF c, CernereType, Consents
  <2>3. EnrType'
    BY <1>4, <2>1, <2>2 DEF CernereRecordsConsent
  <2>4. Held'
    <3>1. UNCHANGED <<enr, student, consent, upload>> /\ enr[e] # "unborn"
      BY <1>4, <1>a DEF CernereRecordsConsent
    <3>2. \A f \in Enrollments :
             /\ enr'[f] = "unborn" => consent'[f] = None /\ ask'[f] = None /\ upload'[f] = None
             /\ enr'[f] # "unborn" => student'[f] \in Users
      BY <2>1, <3>1
    <3> SUFFICES ASSUME NEW f \in Enrollments, NEW d \in {consent'[f], ask'[f], upload'[f]},
                        d \in Consents'
                 PROVE  given'[d] = student'[f]
      BY <3>2
    <3>3. c # 0 /\ c # None /\ 0 \notin Consents' /\ None \notin Consents'
      BY <2>2 DEF c, CernereType, Consents
    <3>4. c \notin {consent[f], ask[f], upload[f]}
      BY <2>2, <3>3
    <3>5. CASE d \in {consent[f], ask[f], upload[f]} /\ d \in Consents
      BY <2>2, <3>1, <3>5
    <3>6. CASE d = c
      BY <2>1, <2>2, <3>1, <3>6, <3>3, <3>4
    <3>7. d # c => d \in {consent[f], ask[f], upload[f]}
      BY <2>1, <3>1
    <3> QED
      BY <2>2, <3>5, <3>6, <3>7, <3>3
  <2>5. FaceType'
    BY <1>4, <2>2 DEF CernereRecordsConsent
  <2>6. ClockType' /\ OutboxType' /\ pull' \in [Pulls -> Pull]
    BY <1>4 DEF CernereRecordsConsent
  <2> QED
    BY <2>2, <2>3, <2>4, <2>5, <2>6
<1>5. ASSUME NEW e \in Enrollments, ConsentFails(e) PROVE TypeInv'
  BY <1>5, <1>a DEF ConsentFails
<1>6. ASSUME NEW e \in Enrollments, ConsentRecorded(e) PROVE TypeInv'
  <2>1. ask[e] \in Consents /\ given[ask[e]] = student[e]
    BY <1>6 DEF ConsentRecorded, Answered
  <2>2. CASE enr[e] = "open"
    <3>1. /\ ask' = [ask EXCEPT ![e] = None] /\ consent' = [consent EXCEPT ![e] = ask[e]]
          /\ copy' = copy \cup {student[e]} /\ student[e] \in Users
      BY <1>6, <2>2 DEF ConsentRecorded
    <3>2. EnrType'
      BY <1>6, <2>1, <3>1 DEF ConsentRecorded
    <3>3. Held'
      BY <1>6, <1>a, <2>1, <2>2, <3>1 DEF ConsentRecorded
    <3> QED
      BY <1>6, <3>1, <3>2, <3>3 DEF ConsentRecorded
  <2>3. CASE enr[e] # "open"
    BY <1>6, <1>a, <2>3 DEF ConsentRecorded
  <2> QED
    BY <2>2, <2>3
<1>7. ASSUME NEW e \in Enrollments, Frame(e) PROVE TypeInv'
  BY <1>7, <1>a DEF Frame
<1>8. ASSUME NEW e \in Enrollments, UploadPhoto(e) PROVE TypeInv'
  BY <1>8, <1>a DEF UploadPhoto
<1>9. ASSUME NEW e \in Enrollments, PhotoStored(e) PROVE TypeInv'
  BY <1>9, <1>a, <1>b DEF PhotoStored, StoreTemplate
<1>10. ASSUME NEW e \in Enrollments, PhotoFails(e) PROVE TypeInv'
  BY <1>10, <1>a DEF PhotoFails
<1>11. ASSUME NEW e \in Enrollments, NEW u \in Users, Commit(e, u) PROVE TypeInv'
  BY <1>11, <1>a, <1>b DEF Commit, MayCommitFor, Complete, StoreTemplate, End
<1>12. ASSUME NEW u \in Users, Promote(u) PROVE TypeInv'
  <2>1. tmpl[u] \in Template
    BY <1>12 DEF Promote
  <2>2. [tmpl[u] EXCEPT !.state = "active"] \in Template
    BY <2>1
  <2>3. tmpl' \in [Users -> Template \cup {None}]
    BY <1>12, <2>2 DEF Promote
  <2> QED
    BY <1>12, <1>a, <2>3 DEF Promote
<1>13. ASSUME NEW u \in Users, Reject(u) PROVE TypeInv'
  BY <1>13, <1>a DEF Reject, Purge, PurgeAndCopy
<1>14. ASSUME NEW d \in Deletions, NEW u \in Users, DeleteAtKiosk(d, u) PROVE TypeInv'
  BY <1>14, <1>a DEF DeleteAtKiosk, Purge, PurgeAndCopy
<1>15. ASSUME Restart PROVE TypeInv'
  BY <1>15, <1>a DEF Restart, Forget, Pull, NoPull, Request
<1>16. ASSUME NEW u \in Users, DeleteAndCrash(u) PROVE TypeInv'
  BY <1>16, <1>a DEF DeleteAndCrash, Purge, PurgeAndCopy, Forget, Pull, NoPull, Request
<1>17. ASSUME NEW e \in Enrollments, PhotoAndCrash(e) PROVE TypeInv'
  BY <1>17, <1>a, <1>b DEF PhotoAndCrash, FirstWrite, StoreTemplate, Forget, Pull, NoPull, Request
<1>18. ASSUME NEW p \in Passes, NEW due \in SUBSET Deletions, RetryStart(p, due) PROVE TypeInv'
  BY <1>18, <1>a DEF RetryStart
<1>19. ASSUME NEW p \in Passes, NEW d \in Deletions, RetryOk(p, d) PROVE TypeInv'
  BY <1>19, <1>a DEF RetryOk, Sent, Revoke, Given, Revocation
<1>20. ASSUME NEW p \in Passes, NEW d \in Deletions, RetryFails(p, d) PROVE TypeInv'
  BY <1>20, <1>a DEF RetryFails, Sent, Revoke, Given, Revocation
<1>21. ASSUME NEW k \in Pulls, PullStart(k) PROVE TypeInv'
  BY <1>21, <1>a DEF PullStart, Pull, NoPull, Request
<1>22. ASSUME NEW k \in Pulls, CernereListsRevs(k) PROVE TypeInv'
  <2>1. pull' \in [Pulls -> Pull]
    <3>1. pull[k] \in Pull
      OBVIOUS
    <3>2. [pull[k] EXCEPT !.pc = "revs!", !.rows = {r \in revs : r.at >= pull[k].since}] \in Pull
      BY <1>22, <3>1 DEF CernereListsRevs, Pull, Revocation
    <3> QED
      BY <1>22, <3>2 DEF CernereListsRevs
  <2> QED
    BY <1>22, <1>a, <2>1 DEF CernereListsRevs
<1>23. ASSUME NEW k \in Pulls, ApplyRevs(k) PROVE TypeInv'
  <2>1. pull' \in [Pulls -> Pull]
    BY <1>23, <1>c DEF ApplyRevs
  <2>2. since' \in Nat
    <3>1. pull[k].at \in Nat
      BY DEF Pull
    <3> QED
      BY <1>23, <3>1 DEF ApplyRevs, Watermark, Before
  <2>3. FaceType'
    BY <1>23, <2>2 DEF ApplyRevs, Purge, PurgeAndCopy
  <2> QED
    BY <1>23, <1>a, <2>1, <2>3 DEF ApplyRevs
<1>24. ASSUME NEW k \in Pulls, RevsFail(k) PROVE TypeInv'
  <2>1. pull' \in [Pulls -> Pull]
    BY <1>24, <1>c DEF RevsFail
  <2> QED
    BY <1>24, <1>a, <2>1 DEF RevsFail, AskConsents
<1>25. ASSUME NEW k \in Pulls, CernereListsConsents(k) PROVE TypeInv'
  <2> DEFINE rows == {[user |-> u, revoked |-> Latest(u) \in revoked] :
                         u \in {v \in Users \ left : Given(v) # {}}}
  <2>1. ASSUME NEW u \in Users
        PROVE  [user |-> u, revoked |-> Latest(u) \in revoked] \in ConsentRow
    <3> DEFINE b == Latest(u) \in revoked
    <3>1. b \in BOOLEAN
      OBVIOUS
    <3> HIDE DEF b
    <3> QED
      BY <3>1 DEF ConsentRow
  <2>2. rows \subseteq ConsentRow
    BY <2>1
  <2>3. pull' = [pull EXCEPT ![k].pc = "cons!", ![k].rows = rows]
    BY <1>25 DEF CernereListsConsents
  <2> HIDE DEF rows
  <2>4. pull' \in [Pulls -> Pull]
    <3>1. pull[k] \in Pull
      OBVIOUS
    <3>2. [pull[k] EXCEPT !.pc = "cons!", !.rows = rows] \in Pull
      BY <2>2, <3>1 DEF Pull
    <3> QED
      BY <2>3, <3>2
  <2> QED
    BY <1>25, <1>a, <2>4 DEF CernereListsConsents
<1>26. ASSUME NEW k \in Pulls, ApplyConsents(k) PROVE TypeInv'
  <2>1. pull' \in [Pulls -> Pull]
    BY <1>26 DEF ApplyConsents, Pull, NoPull, Request
  <2>2. {r.user : r \in {s \in pull[k].rows : ~ s.revoked}} \subseteq Users
    <3>1. pull[k].rows \subseteq Revocation \cup ConsentRow
      BY DEF Pull
    <3> QED
      BY <3>1 DEF Revocation, ConsentRow
  <2>3. FaceType'
    BY <1>26, <2>2 DEF ApplyConsents, PurgeAndCopy
  <2> QED
    BY <1>26, <1>a, <2>1, <2>3 DEF ApplyConsents
<1>27. ASSUME NEW k \in Pulls, ConsentsFail(k) PROVE TypeInv'
  BY <1>27, <1>a DEF ConsentsFail, Pull, NoPull, Request
<1>28. ASSUME NEW u \in Users, Withdraw(u) PROVE TypeInv'
  BY <1>28, <1>a DEF Withdraw, Revoke, Given, Revocation
<1>31. ASSUME NEW u \in Users, Leave(u) PROVE TypeInv'
  BY <1>31, <1>a DEF Leave, Given, Revocation
<1>29. ASSUME Tick PROVE TypeInv'
  BY <1>29, <1>a DEF Tick, Pull, Revocation, ConsentRow
<1>30. CASE UNCHANGED vars
  BY <1>30 DEF vars
<1> QED
  BY <1>1, <1>2, <1>3, <1>4, <1>5, <1>6, <1>7, <1>8, <1>9, <1>10, <1>11, <1>12, <1>13, <1>14,
     <1>15, <1>16, <1>17, <1>18, <1>19, <1>20, <1>21, <1>22, <1>23, <1>24, <1>25, <1>26, <1>27,
     <1>28, <1>29, <1>30, <1>31 DEF Next, Enrolling, Deleting, Retrying, Pulling

\* The types of FaceRegistry's variables (FaceRegistry!TypeOK): in particular
\* every template and every request holds a consent that was given.
THEOREM TypeCorrect == Spec => []TypeOK
<1>1. Init => TypeInv
  BY TypeInit
<1>2. TypeInv /\ [Next]_vars => TypeInv'
  BY TypeNext
<1>3. TypeInv => TypeOK
  BY DEF TypeInv
<1> QED
  BY <1>1, <1>2, <1>3, PTL DEF Spec

\* A step leaves a photo only where a template is, unless the photo was alone
\* before, and a template only with the consent it had or with one the person
\* has given.
FaceStep ==
    \A u \in Users :
        /\ u \in photo' => tmpl'[u] # None \/ (u \in photo /\ tmpl[u] = None)
        /\ tmpl'[u] # None =>
              \/ tmpl'[u].consent \in Given(u)
              \/ tmpl[u] # None /\ tmpl'[u].consent = tmpl[u].consent

LEMMA FaceSteps == TypeInv /\ [Next]_vars => FaceStep
<1> SUFFICES ASSUME TypeInv, [Next]_vars PROVE FaceStep
  OBVIOUS
<1>1. CASE UNCHANGED <<tmpl, photo>>
  BY <1>1 DEF FaceStep
<1>2. ASSUME NEW us, NEW vs, PurgeAndCopy(us, vs) PROVE FaceStep
  BY <1>2 DEF PurgeAndCopy, FaceStep, TypeInv, TypeOK, FaceType
<1>3. ASSUME NEW u \in Users, NEW s \in {"pending", "active"}, NEW c \in Given(u),
             StoreTemplate(u, s, c), photo' \subseteq photo \cup {u}
      PROVE  FaceStep
  <2>1. c \in Nat /\ [state |-> s, consent |-> c] # None
    BY RegistryAssumption DEF Given, Consents, TypeInv, TypeOK, CernereType
  <2>2. tmpl'[u] = [state |-> s, consent |-> c] /\ \A v \in Users \ {u} : tmpl'[v] = tmpl[v]
    BY <1>3 DEF StoreTemplate, TypeInv, TypeOK, FaceType
  <2>3. tmpl'[u].consent = c /\ tmpl'[u] # None
    BY <2>1, <2>2
  <2>4. \A v \in Users \ {u} : v \in photo' => v \in photo
    BY <1>3
  <2>5. ASSUME NEW v \in Users, v # u
        PROVE  tmpl'[v] = tmpl[v] /\ (v \in photo' => v \in photo)
    BY <2>2, <2>4, <2>5
  <2> QED
    BY <2>3, <2>5 DEF FaceStep
<1>4. ASSUME NEW e \in Enrollments, NEW c \in {consent[e], upload[e]}, c # None
      PROVE  student[e] \in Users /\ c \in Given(student[e])
  BY <1>4 DEF Held, Given, TypeInv, TypeOK, EnrType
<1>5. ASSUME NEW e \in Enrollments, PhotoStored(e) \/ PhotoAndCrash(e) PROVE FaceStep
  BY <1>3, <1>4, <1>5 DEF PhotoStored, PhotoAndCrash, FirstWrite
<1>6. ASSUME NEW e \in Enrollments, NEW u \in Users, Commit(e, u) PROVE FaceStep
  BY <1>3, <1>4, <1>6 DEF Commit, MayCommitFor, Complete
<1>7. ASSUME NEW u \in Users, Promote(u) PROVE FaceStep
  <2>1. tmpl[u] \in Template
    BY <1>7 DEF Promote, TypeInv, TypeOK, FaceType
  <2>2. [tmpl[u] EXCEPT !.state = "active"].consent = tmpl[u].consent
    BY <2>1 DEF Template
  <2>3. /\ tmpl'[u].consent = tmpl[u].consent /\ photo' = photo
        /\ \A v \in Users \ {u} : tmpl'[v] = tmpl[v]
    BY <1>7, <2>2 DEF Promote, TypeInv, TypeOK, FaceType
  <2>4. tmpl[u] # None /\ tmpl'[u] # None
    BY <1>7, <2>1, RegistryAssumption
       DEF Promote, Template, TypeInv, TypeOK, FaceType, CernereType, Consents
  <2> QED
    BY <2>3, <2>4 DEF FaceStep
<1>8. ASSUME NEW u \in Users, Reject(u) \/ DeleteAndCrash(u) PROVE FaceStep
  BY <1>2, <1>8 DEF Reject, DeleteAndCrash, Purge
<1>9. ASSUME NEW u \in Users, NEW d \in Deletions, DeleteAtKiosk(d, u) PROVE FaceStep
  BY <1>2, <1>9 DEF DeleteAtKiosk, Purge
<1>10. ASSUME NEW k \in Pulls, ApplyRevs(k) \/ ApplyConsents(k) PROVE FaceStep
  BY <1>2, <1>10 DEF ApplyRevs, ApplyConsents, Purge
<1>11. CASE \E e \in Enrollments :
               \/ \E u \in Users : Start(e, u)
               \/ Cancel(e) \/ AskConsent(e) \/ ConsentFails(e) \/ ConsentRecorded(e)
               \/ CernereRecordsConsent(e) \/ Frame(e) \/ UploadPhoto(e) \/ PhotoFails(e)
  BY <1>1, <1>11 DEF Start, Cancel, AskConsent, ConsentFails, ConsentRecorded,
     CernereRecordsConsent, Frame, UploadPhoto, PhotoFails, faceVars
<1>12. CASE Restart \/ Tick \/ (\E u \in Users : Withdraw(u) \/ Leave(u)) \/ Retrying
  BY <1>1, <1>12 DEF Restart, Tick, Withdraw, Leave, Retrying, RetryStart, RetryOk, RetryFails,
     Sent, faceVars
<1>13. CASE \E k \in Pulls : \/ PullStart(k) \/ CernereListsRevs(k) \/ RevsFail(k)
                            \/ CernereListsConsents(k) \/ ConsentsFail(k)
  BY <1>1, <1>13 DEF PullStart, CernereListsRevs, RevsFail, CernereListsConsents,
     ConsentsFail, faceVars
<1>14. CASE UNCHANGED vars
  BY <1>1, <1>14 DEF vars, faceVars
<1> QED
  BY <1>5, <1>6, <1>7, <1>8, <1>9, <1>10, <1>11, <1>12, <1>13, <1>14
     DEF Next, Enrolling, Deleting, Pulling

\* A photo is stored after the template, and whatever deletes the template
\* deletes the photo in the same transaction (purgeFaceSubject), also when the
\* process dies between the two writes or an upload ends late.
THEOREM PhotoNeverAlone == Spec => []PhotoHasTemplate
<1>1. Init => PhotoHasTemplate
  BY DEF Init, PhotoHasTemplate
<1>2. TypeInv /\ TypeInv' /\ PhotoHasTemplate /\ [Next]_vars => PhotoHasTemplate'
  BY FaceSteps DEF FaceStep, PhotoHasTemplate, TypeInv, TypeOK, FaceType
<1> QED
  BY <1>1, <1>2, TypeInit, TypeNext, PTL DEF Spec

\* Every template stands under a consent of the person it recognises: the
\* review's check of whose enrolment it is (storeReenrolledTemplate) and the
\* session's own student are enough.
THEOREM TemplatesAreConsented == Spec => []TemplateIsConsented
<1>1. Init => TemplateIsConsented
  BY DEF Init, TemplateIsConsented
<1>2. TypeInv /\ [Next]_vars => \A u \in Users : Given(u) \subseteq Given(u)'
  <2> SUFFICES ASSUME TypeInv, [Next]_vars, NEW u \in Users PROVE Given(u) \subseteq Given(u)'
    OBVIOUS
  <2>1. CASE UNCHANGED given
    BY <2>1 DEF Given, Consents
  <2>2. ASSUME NEW e \in Enrollments, CernereRecordsConsent(e) PROVE Given(u) \subseteq Given(u)'
    <3>1. student[e] \in Users
      BY <2>2, RegistryAssumption DEF CernereRecordsConsent, TypeInv, TypeOK, EnrType, Held
    <3>2. Consents \subseteq Consents' /\ \A c \in Consents : given'[c] = given[c]
      BY <2>2, <3>1, GivenGrows DEF CernereRecordsConsent, TypeInv, TypeOK
    <3> QED
      BY <3>2 DEF Given
  <2>3. CASE Deleting \/ Restart \/ Tick
    BY <2>1, <2>3 DEF Deleting, Restart, Tick, Promote, Reject, Withdraw, Leave, DeleteAndCrash,
       DeleteAtKiosk, Forget, cernereVars
  <2>4. CASE Retrying
    BY <2>1, <2>4 DEF Retrying, RetryStart, RetryOk, RetryFails, Sent, cernereVars
  <2>5. CASE Pulling
    BY <2>1, <2>5 DEF Pulling, PullStart, CernereListsRevs, ApplyRevs, RevsFail,
       CernereListsConsents, ApplyConsents, ConsentsFail, cernereVars
  <2>6. CASE Enrolling
    BY <2>1, <2>2, <2>6 DEF Enrolling, Start, Commit, Cancel, AskConsent, ConsentFails,
       ConsentRecorded, Frame, UploadPhoto, PhotoStored, PhotoFails, PhotoAndCrash, Forget,
       cernereVars
  <2>7. CASE UNCHANGED vars
    BY <2>1, <2>7 DEF vars, cernereVars
  <2> QED
    BY <2>3, <2>4, <2>5, <2>6, <2>7 DEF Next
<1>3. TypeInv /\ TemplateIsConsented /\ [Next]_vars => TemplateIsConsented'
  BY <1>2, FaceSteps DEF FaceStep, TemplateIsConsented
<1> QED
  BY <1>1, <1>3, TypeInit, TypeNext, PTL DEF Spec

\* Once Cernere has answered a pull, the answer holds every revocation from its
\* watermark up to the time of its request: what is revoked later is later.
PullsKnow ==
    \A k \in Pulls :
        /\ pull[k].at <= now
        /\ pull[k].pc = "revs!" => \A r \in revs :
              pull[k].since <= r.at /\ r.at < pull[k].at => r \in pull[k].rows

LEMMA PullsKnowInit == Init => PullsKnow
  BY DEF Init, PullsKnow, NoPull, Request

\* A step of pull k leaves the other pulls, the clock and the revocations alone.
OnlyPull(k, p) == pull' = [pull EXCEPT ![k] = p] /\ UNCHANGED <<now, revs>>

LEMMA PullsKnowNext == TypeInv /\ PullsKnow /\ [Next]_vars => PullsKnow'
<1> SUFFICES ASSUME TypeInv, PullsKnow, [Next]_vars PROVE PullsKnow'
  OBVIOUS
<1> USE RegistryAssumption DEF PullsKnow
<1>a. /\ pull \in [Pulls -> Pull] /\ now \in Nat
      /\ \A r \in revs : r.at \in Nat
      /\ \A k \in Pulls : pull[k].at \in Nat /\ pull[k].since \in Nat
  BY DEF TypeInv, TypeOK, ClockType, CernereType, Revocation, Pull
<1>1. CASE UNCHANGED <<pull, now, revs>>
  BY <1>1
<1>2. CASE UNCHANGED <<now, revs>> /\ pull' = [k \in Pulls |-> NoPull]
  BY <1>2, <1>a DEF NoPull, Request
<1>3. ASSUME NEW u, Revoke(u), UNCHANGED <<pull, now>> PROVE PullsKnow'
  BY <1>3, <1>a DEF Revoke
<1>16. ASSUME NEW u \in Users, Leave(u) PROVE PullsKnow'
  BY <1>16, <1>a DEF Leave
<1>4. CASE Tick
  BY <1>4, <1>a DEF Tick, cernereVars
<1>5. ASSUME NEW k \in Pulls, NEW p, OnlyPull(k, p), p.at <= now, p.pc # "revs!" PROVE PullsKnow'
  BY <1>5, <1>a DEF OnlyPull
<1>6. ASSUME NEW k \in Pulls, PullStart(k) PROVE PullsKnow'
  BY <1>5, <1>6, <1>a DEF PullStart, OnlyPull, cernereVars
<1>7. ASSUME NEW k \in Pulls, CernereListsRevs(k) PROVE PullsKnow'
  BY <1>7, <1>a DEF CernereListsRevs, Pull, cernereVars
<1>8. ASSUME NEW k \in Pulls, AskConsents(k), UNCHANGED <<now, revs>> PROVE PullsKnow'
  BY <1>5, <1>8, <1>a DEF AskConsents, Request, OnlyPull
<1>9. ASSUME NEW k \in Pulls, CernereListsConsents(k) PROVE PullsKnow'
  BY <1>9, <1>a DEF CernereListsConsents, Pull, cernereVars
<1>10. ASSUME NEW k \in Pulls, ApplyConsents(k) \/ ConsentsFail(k) PROVE PullsKnow'
  BY <1>5, <1>10, <1>a DEF ApplyConsents, ConsentsFail, NoPull, Request, OnlyPull, cernereVars
<1>11. CASE Pulling
  BY <1>6, <1>7, <1>8, <1>9, <1>10, <1>11 DEF Pulling, ApplyRevs, RevsFail, cernereVars
<1>12. CASE Retrying
  BY <1>1, <1>3, <1>12 DEF Retrying, RetryStart, RetryOk, RetryFails, Sent, cernereVars
<1>13. CASE Deleting \/ Restart
  BY <1>1, <1>2, <1>3, <1>13, <1>16 DEF Deleting, Restart, Promote, Reject, Withdraw, DeleteAndCrash,
     DeleteAtKiosk, Forget, cernereVars
<1>14. CASE Enrolling
  BY <1>1, <1>2, <1>14 DEF Enrolling, Start, Commit, Cancel, AskConsent, ConsentFails,
     ConsentRecorded, CernereRecordsConsent, Frame, UploadPhoto, PhotoStored, PhotoFails,
     PhotoAndCrash, Forget, cernereVars
<1>15. CASE UNCHANGED vars
  BY <1>1, <1>15 DEF vars, cernereVars
<1> QED
  BY <1>4, <1>11, <1>12, <1>13, <1>14, <1>15 DEF Next

\* Only the end of a pull moves the watermark, and it moves it no further than
\* the time of the pull's own request: no revocation is passed over unseen,
\* however many pulls overlap and however late their answers come.
THEOREM NoRevocationIsMissed == Spec => NoRevocationMissed
<1> DEFINE Kept == \A r \in revs : since <= r.at /\ r.at < since' =>
                      \E k \in Pulls : /\ pull'[k] # pull[k]
                                       /\ r \in pull[k].rows \/ r.at < pull[k].since
<1>1. TypeInv /\ PullsKnow /\ [Next]_vars => [Kept]_vars
  <2> SUFFICES ASSUME TypeInv, PullsKnow, Next PROVE Kept
    BY DEF vars
  <2>1. CASE UNCHANGED since
    <3>1. since \in Nat /\ \A r \in revs : r.at \in Nat
      BY RegistryAssumption DEF TypeInv, TypeOK, FaceType, CernereType, Revocation
    <3> QED
      BY <2>1, <3>1
  <2>2. ASSUME NEW k \in Pulls, ApplyRevs(k) PROVE Kept
    <3>1. pull[k].pc = "revs!" /\ since' = Before(pull[k].at)
      BY <2>2 DEF ApplyRevs, Watermark
    <3>2. pull'[k].pc = "cons?"
      BY <2>2 DEF ApplyRevs, AskConsents, Request, TypeInv, TypeOK
    <3>3. /\ pull[k].at \in Nat /\ pull[k].since \in Nat
          /\ \A r \in revs : r.at \in Nat
      BY RegistryAssumption DEF TypeInv, TypeOK, CernereType, Revocation, Pull
    <3>4. Before(pull[k].at) <= pull[k].at /\ Before(pull[k].at) \in Nat
      BY <3>3, RegistryAssumption DEF Before
    <3>5. ASSUME NEW r \in revs, r.at < since'
          PROVE  r \in pull[k].rows \/ r.at < pull[k].since
      BY <3>1, <3>3, <3>4, <3>5 DEF PullsKnow
    <3> QED
      BY <3>1, <3>2, <3>5
  <2>3. CASE Pulling
    BY <2>1, <2>2, <2>3 DEF Pulling, PullStart, CernereListsRevs, RevsFail,
       CernereListsConsents, ApplyConsents, ConsentsFail
  <2>4. CASE Retrying
    BY <2>1, <2>4 DEF Retrying, RetryStart, RetryOk, RetryFails, Sent
  <2>5. CASE Deleting \/ Restart \/ Tick
    BY <2>1, <2>5 DEF Deleting, Restart, Tick, Promote, Reject, Withdraw, Leave, DeleteAndCrash,
       DeleteAtKiosk, Forget
  <2>6. CASE Enrolling
    BY <2>1, <2>6 DEF Enrolling, Start, Commit, Cancel, AskConsent, ConsentFails,
       ConsentRecorded, CernereRecordsConsent, Frame, UploadPhoto, PhotoStored, PhotoFails,
       PhotoAndCrash, Forget
  <2> QED
    BY <2>3, <2>4, <2>5, <2>6 DEF Next
<1> QED
  BY <1>1, TypeInit, TypeNext, PullsKnowInit, PullsKnowNext, PTL DEF Spec, NoRevocationMissed
===============================================================================
