----------------------------- MODULE FaceRegistry -----------------------------
(***************************************************************************)
(* Who has a face template and a photo here, from enrolment under a        *)
(* recorded consent, through review, to deletion: at the kiosk, by the     *)
(* revocations and consents pulled from Cernere, by rejection              *)
(* (server/routes/identity-enroll.ts, routes/identity-review.ts,           *)
(* face/enrollment-session.ts, face/review-service.ts, face/local-store.ts,*)
(* face/revocation-sync.ts, face/consent-outbox.ts, db.ts).                *)
(*                                                                         *)
(* An enrolment awaits Cernere for the consent and the sidecar for a       *)
(* photo; a pull awaits Cernere twice; the 15 min timer and the staff's    *)
(* sync button may run two pulls at once.  Rows are in SQLite, everything  *)
(* else is lost by a restart.  Cernere and this host share one clock.      *)
(***************************************************************************)
EXTENDS Naturals, Sequences

CONSTANTS Users,
          Applicants,  \* bound: the people who begin an enrolment or leave
          Enrollments, \* enrolment ids (randomUUID)
          ConsentsListed, \* Cernere has the endpoint that lists consents
          MaxConsents, \* bound: consents Cernere records
          Deletions,   \* bound: deletions at the kiosk, one outbox row each
          Pulls,       \* bound: pulls that overlap
          Passes,      \* bound: passes of the revocation outbox that overlap
          Shots,       \* SHOTS_REQUIRED
          Overlap,     \* SINCE_OVERLAP_MS
          MaxTime,     \* bound on the clock
          MaxCrashes,  \* bound: restarts of the process
          None

ASSUME RegistryAssumption ==
    /\ Shots \in Nat \ {0} /\ Overlap \in Nat
    /\ ConsentsListed \in BOOLEAN /\ Applicants \subseteq Users
    /\ MaxTime \in Nat /\ MaxCrashes \in Nat /\ MaxConsents \in Nat
    /\ None \notin Users \cup Deletions \cup Nat
    /\ None \notin [state : {"pending", "active"}, consent : Nat]

VARIABLES
    now, crashes,
    \* Cernere (external): given[c] is the person who gave consent number c;
    \* consents withdrawn or expired; the revocations it hands out; who has left
    \* the facility
    given, revoked, revs, left,
    \* SQLite: face_templates, face_photos, who has a row in
    \* face_consents_copy, face_revocations_since (0: not recorded), rows of the
    \* outbox
    tmpl, photo, copy, since, row, whose,
    \* EnrollmentSessionStore, and the requests of an enrolment that await
    \* Cernere (ask: None, 0 until Cernere has recorded it, then the consent)
    \* or the sidecar (upload: the consent of the session it still holds)
    enr, student, consent, shots, ask, upload,
    pull,   \* pulls under way
    pass    \* outbox rows a pass has still to send

cernereVars == <<given, revoked, revs, left>>
faceVars == <<tmpl, photo, copy>>
outboxVars == <<row, whose, pass>>
enrVars == <<enr, student, consent, shots, ask, upload>>
vars == <<now, crashes, cernereVars, faceVars, since, outboxVars, enrVars, pull>>

Consents == DOMAIN given

\* The consents of a person, and the latest of them.
Given(u) == {c \in Consents : given[c] = u}

Latest(u) ==
    IF Given(u) = {} THEN None
    ELSE CHOOSE c \in Given(u) : \A d \in Given(u) : d <= c

Template == [state : {"pending", "active"}, consent : Consents]
Revocation == [user : Users, at : 0..MaxTime]
ConsentRow == [user : Users, revoked : BOOLEAN]
Request(pc) == [pc |-> pc, at |-> 0, since |-> 0, rows |-> {}]
NoPull == Request("idle")

Pull == [pc : {"idle", "revs?", "revs!", "cons?", "cons!"},
         at : 0..MaxTime, since : Nat, rows : SUBSET (Revocation \cup ConsentRow)]

ClockType == now \in 0..MaxTime /\ crashes \in 0..MaxCrashes

CernereType ==
    /\ given \in Seq(Users) /\ Len(given) <= MaxConsents
    /\ revoked \subseteq Consents
    /\ revs \subseteq Revocation /\ left \subseteq Users

FaceType ==
    /\ tmpl \in [Users -> Template \cup {None}]
    /\ photo \subseteq Users /\ copy \subseteq Users
    /\ since \in Nat

OutboxType ==
    /\ row \in [Deletions -> {"unborn", "queued", "gone"}]
    /\ whose \in [Deletions -> Users \cup {None}]
    /\ \A d \in Deletions : whose[d] = None => row[d] = "unborn"
    /\ pass \in [Passes -> SUBSET {d \in Deletions : row[d] # "unborn"}]

EnrType ==
    /\ enr \in [Enrollments -> {"unborn", "open", "gone"}]
    /\ student \in [Enrollments -> Users \cup {None}]
    /\ consent \in [Enrollments -> Consents \cup {None}]
    /\ shots \in [Enrollments -> 0..Shots]
    /\ ask \in [Enrollments -> Consents \cup {None, 0}]
    /\ upload \in [Enrollments -> Consents \cup {None}]

TypeOK ==
    /\ ClockType /\ CernereType /\ FaceType /\ OutboxType /\ EnrType
    /\ pull \in [Pulls -> Pull]

Init ==
    /\ now = 0 /\ crashes = 0
    /\ given = <<>> /\ revoked = {} /\ revs = {} /\ left = {}
    /\ tmpl = [u \in Users |-> None] /\ photo = {} /\ copy = {}
    /\ since = 0
    /\ row = [d \in Deletions |-> "unborn"] /\ whose = [d \in Deletions |-> None]
    /\ pass = [p \in Passes |-> {}]
    /\ enr = [e \in Enrollments |-> "unborn"] /\ student = [e \in Enrollments |-> None]
    /\ consent = [e \in Enrollments |-> None] /\ shots = [e \in Enrollments |-> 0]
    /\ ask = [e \in Enrollments |-> None] /\ upload = [e \in Enrollments |-> None]
    /\ pull = [k \in Pulls |-> NoPull]

-----------------------------------------------------------------------------
(* Enrolment.                                                               *)

\* POST /identity/enroll/start and /identity/review/reenroll/start.
Start(e, u) ==
    /\ enr[e] = "unborn" /\ u \in Applicants
    /\ enr' = [enr EXCEPT ![e] = "open"]
    /\ student' = [student EXCEPT ![e] = u]
    /\ UNCHANGED <<now, crashes, cernereVars, faceVars, since, outboxVars,
                   consent, shots, ask, upload, pull>>

End(e) ==
    /\ enr' = [enr EXCEPT ![e] = "gone"]
    /\ consent' = [consent EXCEPT ![e] = None]
    /\ shots' = [shots EXCEPT ![e] = 0]

\* cancel(), by the staff or by the timer after 10 minutes.
Cancel(e) ==
    /\ enr[e] = "open"
    /\ End(e)
    /\ UNCHANGED <<now, crashes, cernereVars, faceVars, since, outboxVars,
                   student, ask, upload, pull>>

\* POST .../consent up to the await of recordConsent.  The student's token is
\* dropped with the first consent recorded, so no second one can be asked for.
AskConsent(e) ==
    /\ enr[e] = "open" /\ consent[e] = None /\ ask[e] = None
    /\ ask' = [ask EXCEPT ![e] = 0]
    /\ UNCHANGED <<now, crashes, cernereVars, faceVars, since, outboxVars,
                   enr, student, consent, shots, upload, pull>>

\* External: Cernere records the consent of the token's subject.
CernereRecordsConsent(e) ==
    /\ ask[e] = 0 /\ Len(given) < MaxConsents
    /\ given' = Append(given, student[e])
    /\ ask' = [ask EXCEPT ![e] = Len(given')]
    /\ UNCHANGED <<now, crashes, revoked, revs, left, faceVars, since, outboxVars,
                   enr, student, consent, shots, upload, pull>>

\* Refused, no answer, or the answer lost after Cernere recorded it: 503.
ConsentFails(e) ==
    /\ ask[e] # None
    /\ ask' = [ask EXCEPT ![e] = None]
    /\ UNCHANGED <<now, crashes, cernereVars, faceVars, since, outboxVars,
                   enr, student, consent, shots, upload, pull>>

\* Cernere's answer names the consent it recorded.
Answered(e) == ask[e] \in Consents

\* The answer: the session keeps the consent and a copy is stored, unless the
\* session has ended.
ConsentRecorded(e) ==
    /\ Answered(e)
    /\ ask' = [ask EXCEPT ![e] = None]
    /\ IF enr[e] = "open"
       THEN consent' = [consent EXCEPT ![e] = ask[e]] /\ copy' = copy \cup {student[e]}
       ELSE UNCHANGED <<consent, copy>>
    /\ UNCHANGED <<now, crashes, cernereVars, tmpl, photo, since, outboxVars,
                   enr, student, shots, upload, pull>>

\* POST .../frame after its await; add() looks at the session itself.  Frames
\* after the last one required are left out.
Frame(e) ==
    /\ enr[e] = "open" /\ consent[e] # None /\ shots[e] < Shots
    /\ shots' = [shots EXCEPT ![e] = @ + 1]
    /\ UNCHANGED <<now, crashes, cernereVars, faceVars, since, outboxVars,
                   enr, student, consent, ask, upload, pull>>

\* storeFaceTemplate(): one row per person, whatever was there.
StoreTemplate(u, state, c) ==
    tmpl' = [tmpl EXCEPT ![u] = [state |-> state, consent |-> c]]

\* POST .../photo up to the await of the sidecar.
UploadPhoto(e) ==
    /\ enr[e] = "open" /\ consent[e] # None /\ upload[e] = None
    /\ upload' = [upload EXCEPT ![e] = consent[e]]
    /\ UNCHANGED <<now, crashes, cernereVars, faceVars, since, outboxVars,
                   enr, student, consent, shots, ask, pull>>

\* Of the two writes of a photo upload, the template is the first.
FirstWrite(e) ==
    /\ StoreTemplate(student[e], "pending", upload[e])
    /\ UNCHANGED photo

\* A face was found: template and photo are stored.  The session is not looked
\* at again.
PhotoStored(e) ==
    /\ upload[e] # None
    /\ upload' = [upload EXCEPT ![e] = None]
    /\ StoreTemplate(student[e], "pending", upload[e])
    /\ photo' = photo \cup {student[e]}
    /\ UNCHANGED <<now, crashes, cernereVars, copy, since, outboxVars,
                   enr, student, consent, shots, ask, pull>>

\* No face in the photo (422) or the sidecar fails: nothing is stored.
PhotoFails(e) ==
    /\ upload[e] # None
    /\ upload' = [upload EXCEPT ![e] = None]
    /\ UNCHANGED <<now, crashes, cernereVars, faceVars, since, outboxVars,
                   enr, student, consent, shots, ask, pull>>

Complete(e) == enr[e] = "open" /\ consent[e] # None /\ shots[e] = Shots

MutMayCommitFor(e, u) == Complete(e)

\* storeReenrolledTemplate() asks whose enrolment it is; commit takes the
\* enrolment's own student.
MayCommitFor(e, u) == Complete(e) /\ student[e] = u

\* POST .../commit, and POST /identity/review/approve in mode "reenroll".
Commit(e, u) ==
    /\ MayCommitFor(e, u)
    /\ StoreTemplate(u, "active", consent[e])
    /\ End(e)
    /\ UNCHANGED <<now, crashes, cernereVars, photo, copy, since, outboxVars,
                   student, ask, upload, pull>>

\* POST /identity/review/approve in mode "promote-photo".
Promote(u) ==
    /\ tmpl[u] # None
    /\ tmpl' = [tmpl EXCEPT ![u].state = "active"]
    /\ UNCHANGED <<now, crashes, cernereVars, photo, copy, since, outboxVars,
                   enrVars, pull>>

-----------------------------------------------------------------------------
(* Deletion.                                                                *)

MutPurgeAndCopy(us, vs) ==
    /\ tmpl' = [u \in Users |-> IF u \in us THEN None ELSE tmpl[u]]
    /\ UNCHANGED photo
    /\ copy' = (copy \ us) \cup vs

\* Deletes every row of the people us; stores a copy of the consents of vs.
PurgeAndCopy(us, vs) ==
    /\ tmpl' = [u \in Users |-> IF u \in us THEN None ELSE tmpl[u]]
    /\ photo' = photo \ us
    /\ copy' = (copy \ us) \cup vs

\* purgeFaceSubject(): one transaction for each person.
Purge(us) == PurgeAndCopy(us, {})

Registered(u) == tmpl[u] # None \/ u \in photo \/ u \in copy

\* POST /identity/review/reject.  What is deleted is not looked at before.
Reject(u) ==
    /\ Purge({u})
    /\ UNCHANGED <<now, crashes, cernereVars, since, outboxVars, enrVars, pull>>

\* DELETE /identity/enroll/registration/:userId: delete, then enqueue that the
\* person's consent, whichever it is by then, be revoked.
DeleteAtKiosk(d, u) ==
    /\ row[d] = "unborn"
    /\ Registered(u)
    /\ Purge({u})
    /\ row' = [row EXCEPT ![d] = "queued"]
    /\ whose' = [whose EXCEPT ![d] = u]
    /\ UNCHANGED <<now, crashes, cernereVars, since, pass, enrVars, pull>>

\* What a restart forgets.
Forget ==
    /\ crashes < MaxCrashes
    /\ crashes' = crashes + 1
    /\ enr' = [e \in Enrollments |-> IF enr[e] = "unborn" THEN "unborn" ELSE "gone"]
    /\ ask' = [e \in Enrollments |-> None] /\ upload' = [e \in Enrollments |-> None]
    /\ consent' = [e \in Enrollments |-> None] /\ shots' = [e \in Enrollments |-> 0]
    /\ pull' = [k \in Pulls |-> NoPull] /\ pass' = [p \in Passes |-> {}]
    /\ UNCHANGED <<now, cernereVars, since, row, whose, student>>

Restart == Forget /\ UNCHANGED faceVars

\* The process dies after the deletion and before the row is written: Cernere
\* is never told.
DeleteAndCrash(u) ==
    /\ Registered(u)
    /\ Purge({u})
    /\ Forget

\* It dies between the writes of the template and of the photo.
PhotoAndCrash(e) ==
    /\ upload[e] # None
    /\ FirstWrite(e)
    /\ UNCHANGED copy
    /\ Forget

-----------------------------------------------------------------------------
(* The outbox of revocations.                                               *)

\* External: every consent the person has is revoked, and a revocation listed.
Revoke(u) ==
    /\ revoked' = revoked \cup Given(u)
    /\ revs' = IF Given(u) \subseteq revoked THEN revs
               ELSE revs \cup {[user |-> u, at |-> now]}

\* retryConsentRevocations(): the rows due, read once per pass.
RetryStart(p, due) ==
    /\ pass[p] = {} /\ due # {}
    /\ due \subseteq {d \in Deletions : row[d] = "queued"}
    /\ pass' = [pass EXCEPT ![p] = due]
    /\ UNCHANGED <<now, crashes, cernereVars, faceVars, since, row, whose, enrVars,
                   pull>>

Sent(p, d) ==
    /\ d \in pass[p]
    /\ pass' = [pass EXCEPT ![p] = @ \ {d}]
    /\ UNCHANGED <<now, crashes, given, left, faceVars, since, whose, enrVars, pull>>

RetryOk(p, d) ==
    /\ Sent(p, d)
    /\ Revoke(whose[d])
    /\ row' = [row EXCEPT ![d] = "gone"]

MutRetryFails(p, d) ==
    /\ Sent(p, d)
    /\ UNCHANGED <<revoked, revs>>
    /\ row' = [row EXCEPT ![d] = "gone"]

\* Deferred; Cernere may have revoked it although nobody heard.
RetryFails(p, d) ==
    /\ Sent(p, d)
    /\ Revoke(whose[d]) \/ UNCHANGED <<revoked, revs>>
    /\ UNCHANGED row

-----------------------------------------------------------------------------
(* The pulls.                                                               *)

\* pullFaceRevocations() up to its request: the time and the watermark are
\* read before it.
PullStart(k) ==
    /\ pull[k] = NoPull
    /\ pull' = [pull EXCEPT ![k] =
          [pc |-> "revs?", at |-> now, since |-> since, rows |-> {}]]
    /\ UNCHANGED <<now, crashes, cernereVars, faceVars, since, outboxVars, enrVars>>

\* External: the revocations from the watermark on.
CernereListsRevs(k) ==
    /\ pull[k].pc = "revs?"
    /\ pull' = [pull EXCEPT ![k].pc = "revs!",
          ![k].rows = {r \in revs : r.at >= pull[k].since}]
    /\ UNCHANGED <<now, crashes, cernereVars, faceVars, since, outboxVars, enrVars>>

\* The consents are asked for next, whatever became of the revocations.
AskConsents(k) == pull' = [pull EXCEPT ![k] = Request("cons?")]

Before(t) == IF t > Overlap THEN t - Overlap ELSE 0

MutWatermark(k) == Before(now)

\* The watermark goes back a little from the time of the request.
Watermark(k) == Before(pull[k].at)

\* applyFaceRevocations(): everything of each person named, however old the
\* revocation is.
ApplyRevs(k) ==
    LET us == {r.user : r \in pull[k].rows} IN
    /\ pull[k].pc = "revs!"
    /\ Purge(us)
    /\ since' = Watermark(k)
    /\ AskConsents(k)
    /\ UNCHANGED <<now, crashes, cernereVars, outboxVars, enrVars>>

RevsFail(k) ==
    /\ pull[k].pc \in {"revs?", "revs!"}
    /\ AskConsents(k)
    /\ UNCHANGED <<now, crashes, cernereVars, faceVars, since, outboxVars, enrVars>>

\* External: the latest consent, revoked or not, of everybody who is at the
\* facility; the endpoint may be missing (404).
CernereListsConsents(k) ==
    /\ ConsentsListed
    /\ pull[k].pc = "cons?"
    /\ pull' = [pull EXCEPT ![k].pc = "cons!",
          ![k].rows = {[user |-> u, revoked |-> Latest(u) \in revoked] :
                         u \in {v \in Users \ left : Given(v) # {}}}]
    /\ UNCHANGED <<now, crashes, cernereVars, faceVars, since, outboxVars, enrVars>>

MutWithdrawn(k) == {}

\* A revoked consent deletes the registration: revocations may be missed.
Withdrawn(k) == {r.user : r \in {s \in pull[k].rows : s.revoked}}

ApplyConsents(k) ==
    /\ pull[k].pc = "cons!"
    /\ PurgeAndCopy(Withdrawn(k), {r.user : r \in {s \in pull[k].rows : ~ s.revoked}})
    /\ pull' = [pull EXCEPT ![k] = NoPull]
    /\ UNCHANGED <<now, crashes, cernereVars, since, outboxVars, enrVars>>

ConsentsFail(k) ==
    /\ pull[k].pc \in {"cons?", "cons!"}
    /\ pull' = [pull EXCEPT ![k] = NoPull]
    /\ UNCHANGED <<now, crashes, cernereVars, faceVars, since, outboxVars, enrVars>>

-----------------------------------------------------------------------------
(* People, the clock.                                                       *)

\* External: withdrawn in the profile, or not renewed.
Withdraw(u) ==
    /\ ~ Given(u) \subseteq revoked
    /\ Revoke(u)
    /\ UNCHANGED <<now, crashes, given, left, faceVars, since, outboxVars, enrVars, pull>>

\* External: left the facility, graduated, account deleted; a revocation is
\* listed each time.
Leave(u) ==
    /\ u \in Applicants \ left
    /\ left' = left \cup {u}
    /\ revoked' = revoked \cup Given(u)
    /\ revs' = revs \cup {[user |-> u, at |-> now]}
    /\ UNCHANGED <<now, crashes, given, faceVars, since, outboxVars, enrVars, pull>>

Tick ==
    /\ now < MaxTime
    /\ now' = now + 1
    /\ UNCHANGED <<crashes, cernereVars, faceVars, since, outboxVars, enrVars, pull>>

Enrolling ==
    \E e \in Enrollments :
        \/ \E u \in Users : Start(e, u) \/ Commit(e, u)
        \/ Cancel(e) \/ AskConsent(e) \/ ConsentFails(e) \/ ConsentRecorded(e)
        \/ CernereRecordsConsent(e)
        \/ Frame(e) \/ UploadPhoto(e) \/ PhotoStored(e) \/ PhotoFails(e)
        \/ PhotoAndCrash(e)

Deleting ==
    \E u \in Users :
        \/ Promote(u) \/ Reject(u) \/ Withdraw(u) \/ Leave(u) \/ DeleteAndCrash(u)
        \/ \E d \in Deletions : DeleteAtKiosk(d, u)

Retrying ==
    \E p \in Passes :
        \/ \E due \in SUBSET Deletions : RetryStart(p, due)
        \/ \E d \in Deletions : RetryOk(p, d) \/ RetryFails(p, d)

Pulling ==
    \E k \in Pulls :
        \/ PullStart(k) \/ CernereListsRevs(k) \/ ApplyRevs(k) \/ RevsFail(k)
        \/ CernereListsConsents(k) \/ ApplyConsents(k) \/ ConsentsFail(k)

Next == Enrolling \/ Deleting \/ Retrying \/ Pulling \/ Restart \/ Tick

\* The timers fire, every request ends in an answer or an error, and one that
\* is repeated for ever is answered in the end.
Fairness ==
    /\ WF_vars(\E k \in Pulls : PullStart(k))
    /\ WF_vars(\E k \in Pulls : CernereListsRevs(k) \/ ApplyRevs(k) \/ RevsFail(k))
    /\ WF_vars(\E k \in Pulls :
          CernereListsConsents(k) \/ ApplyConsents(k) \/ ConsentsFail(k))
    /\ SF_vars(\E k \in Pulls : CernereListsRevs(k))
    /\ SF_vars(\E k \in Pulls : ApplyRevs(k))
    /\ SF_vars(\E k \in Pulls : CernereListsConsents(k))
    /\ SF_vars(\E k \in Pulls : ApplyConsents(k))
    /\ \A d \in Deletions :
          /\ WF_vars(\E p \in Passes, due \in SUBSET Deletions : d \in due /\ RetryStart(p, due))
          /\ WF_vars(\E p \in Passes : RetryOk(p, d) \/ RetryFails(p, d))
          /\ SF_vars(\E p \in Passes : RetryOk(p, d))

Spec == Init /\ [][Next]_vars /\ Fairness

-----------------------------------------------------------------------------
(* Properties.                                                              *)

\* No photo without a template, through every deletion, a crash between the
\* two writes and an upload that ends late (biometric-data-policy.md 3).
PhotoHasTemplate == \A u \in photo : tmpl[u] # None

\* A template stands under a consent of that very person, also when a review
\* uses an enrolment begun for a re-take.
TemplateIsConsented ==
    \A u \in Users : tmpl[u] # None => tmpl[u].consent \in Given(u)

\* The watermark never passes a revocation that the pull which moves it did not
\* get, or had below the watermark it began from (SINCE_OVERLAP_MS; pulls that
\* overlap, answers that come late).
NoRevocationMissed ==
    [][\A r \in revs : since <= r.at /\ r.at < since' =>
          \E k \in Pulls : /\ pull'[k] # pull[k]
                           /\ r \in pull[k].rows \/ r.at < pull[k].since]_vars

\* A withdrawal is carried out in the end.  A revocation not yet pulled takes
\* the person's template away, for those who have left as for those who stay
\* and without the list of consents.  Who has withdrawn, given no new consent
\* and is still at the facility also loses a template that a late upload or
\* commit stored after the revocation was applied: the list of consents finds
\* it.  (Nothing here finds that of a person who has left.)
WithdrawalIsEnforced ==
    \A u \in Users :
        /\ (\E r \in revs : r.user = u /\ r.at >= since) ~> tmpl[u] = None
        /\ Latest(u) \in revoked ~>
              tmpl[u] = None \/ Latest(u) \notin revoked \/ u \in left

\* A deletion at the kiosk reaches Cernere in the end, for the consent it was
\* meant for.
DeletionReachesCernere ==
    \A d \in Deletions, c \in 1..MaxConsents :
        row[d] = "queued" /\ c = Latest(whose[d]) ~> c \in revoked

\* "Only templates with a valid consent (not withdrawn) are matched"
\* (template-roster.ts:3): none whose withdrawal this host has already pulled.
MatchedIsNotWithdrawn ==
    \A u \in Users :
        tmpl[u] # None /\ tmpl[u].state = "active" /\ tmpl[u].consent \in revoked =>
            \E r \in revs : r.user = u /\ r.at >= since
=============================================================================
