----------------------------- MODULE EnrollPanel -----------------------------
(***************************************************************************)
(* The kiosk page's panel for enrolling a face (server/routes/kiosk.ts,    *)
(* authenticateStaff to cancelEnrollment): the staff's passkey, the        *)
(* student's code, the consent, the shots and the commit.                  *)
(*                                                                         *)
(* The server takes a request in one step and the page its answer in a     *)
(* later one, so that whatever button is enabled can be pressed meanwhile, *)
(* and answers are overtaken or lost.  The server's side is FaceRegistry;  *)
(* here only what an enrolment needs to be stored.  The photo is left out. *)
(***************************************************************************)
EXTENDS Naturals, FiniteSets

CONSTANTS EnrollShots,  \* SHOTS_REQUIRED
          MaxEnrolled,  \* bound: enrolments the server starts
          MaxOut        \* bound: requests of the panel under way

ASSUME EnrollPanelAssumption ==
    /\ EnrollShots \in Nat \ {0}
    /\ {MaxEnrolled, MaxOut} \subseteq Nat

VARIABLES
    enrollment,  \* the server: its enrolments, numbered
    requests,    \* requests sent, and answers under way; equal ones count as one
    \* the page
    on,          \* buttons that are enabled
    enrollId,    \* or 0
    stream,      \* enrollmentStream is set
    declared     \* history: enrolments the page called complete

ofPage == <<on, enrollId, stream, declared>>
enrolVars == <<enrollment, requests, ofPage>>

EnrollIds == 1..MaxEnrolled

EnrollPanelTypeOK ==
    /\ enrollment \in [EnrollIds -> [state : {"unborn", "open", "stored", "gone"},
                                     consented : BOOLEAN, done : 0..EnrollShots]]
    /\ requests \subseteq [op : {"staff", "start", "consent", "frame", "commit", "cancel"},
                           about : 0..MaxEnrolled, answer : {"none", "ok", "more", "refused"}]
    /\ on \subseteq {"staff", "start", "accept", "capture", "cancel"}
    /\ enrollId \in 0..MaxEnrolled
    /\ stream \in BOOLEAN /\ declared \subseteq EnrollIds

EnrollPanelInit ==
    /\ enrollment = [e \in EnrollIds |-> [state |-> "unborn", consented |-> FALSE, done |-> 0]]
    /\ requests = {}
    /\ on = {"staff"} /\ enrollId = 0 /\ stream = FALSE /\ declared = {}

-----------------------------------------------------------------------------
(* The buttons.                                                             *)

SendEnroll(op) ==
    /\ Cardinality(requests) < MaxOut
    /\ requests' = requests \cup {[op |-> op, about |-> enrollId, answer |-> "none"]}
    /\ UNCHANGED <<enrollment, enrollId, stream, declared>>

AuthenticateStaff ==
    /\ "staff" \in on
    /\ SendEnroll("staff")
    /\ UNCHANGED on

\* The button stays enabled until the answer.
StartEnrollment ==
    /\ "start" \in on
    /\ SendEnroll("start")
    /\ UNCHANGED on

\* consentAccepted.onchange: ticking the box, also once more, enables the button.
TickConsent ==
    /\ enrollId # 0
    /\ on' = on \cup {"accept"}
    /\ UNCHANGED <<enrollment, requests, enrollId, stream, declared>>

\* beginCapture.
BeginCapture ==
    /\ "accept" \in on /\ enrollId # 0
    /\ SendEnroll("consent")
    /\ UNCHANGED on

CaptureEnrollmentShot ==
    /\ "capture" \in on /\ enrollId # 0
    /\ SendEnroll("frame")
    /\ on' = on \ {"capture"}

\* What cancelEnrollment does in the end.
Cancelled ==
    /\ stream' = FALSE /\ enrollId' = 0
    /\ on' = on \ {"capture", "cancel"}
    /\ UNCHANGED <<enrollment, declared>>

CancelEnrollment ==
    /\ "cancel" \in on
    /\ IF enrollId # 0
       THEN SendEnroll("cancel") /\ UNCHANGED on
       ELSE Cancelled /\ UNCHANGED requests

-----------------------------------------------------------------------------
(* The server.                                                              *)

Serves(r, op, answer) ==
    /\ r.op = op /\ r.answer = "none"
    /\ requests' = (requests \ {r}) \cup {[r EXCEPT !.answer = answer]}
    /\ UNCHANGED ofPage

IsOpen(e) == e # 0 /\ enrollment[e].state = "open"

StaffVerified(r) == Serves(r, "staff", "ok") /\ UNCHANGED enrollment

EnrollmentStarted(r) ==
    /\ r.op = "start" /\ r.answer = "none"
    /\ \E e \in EnrollIds :
         /\ enrollment[e].state = "unborn" /\ \A d \in 1..(e - 1) : enrollment[d].state # "unborn"
         /\ enrollment' = [enrollment EXCEPT ![e].state = "open"]
         /\ requests' = (requests \ {r}) \cup {[op |-> "start", about |-> e, answer |-> "ok"]}
    /\ UNCHANGED ofPage

ConsentRecorded(r) ==
    /\ Serves(r, "consent", "ok")
    /\ IsOpen(r.about)
    /\ enrollment' = [enrollment EXCEPT ![r.about].consented = TRUE]

\* A shot counts once the student has consented, if a face is found; further
\* ones than required are not counted here.
FrameTaken(r) ==
    LET e == r.about
        n == IF enrollment[e].done < EnrollShots THEN enrollment[e].done + 1 ELSE EnrollShots
    IN  /\ IsOpen(e)
        /\ \/ Serves(r, "frame", "more") /\ UNCHANGED enrollment
           \/ /\ Serves(r, "frame", IF n < EnrollShots THEN "more" ELSE "ok")
              /\ enrollment[e].consented
              /\ enrollment' = [enrollment EXCEPT ![e].done = n]

EnrollmentCommitted(r) ==
    LET e == r.about
    IN  /\ Serves(r, "commit", "ok")
        /\ IsOpen(e) /\ enrollment[e].consented /\ enrollment[e].done >= EnrollShots
        /\ enrollment' = [enrollment EXCEPT ![e].state = "stored"]

EnrollmentCancelled(r) ==
    /\ Serves(r, "cancel", "ok")
    /\ IsOpen(r.about)
    /\ enrollment' = [enrollment EXCEPT ![r.about].state = "gone"]

\* The staff session or the enrolment has expired, or shots are missing.  To the
\* page the refusal of any other request is the same as no answer.
Refused(r) == r.op \in {"commit", "cancel"} /\ Serves(r, r.op, "refused") /\ UNCHANGED enrollment

-----------------------------------------------------------------------------
(* The answers.                                                             *)

Takes(r, op, answer) ==
    /\ r.op = op /\ r.answer = answer
    /\ requests' = requests \ {r}
    /\ UNCHANGED enrollment

StaffAnswered(r) ==
    /\ Takes(r, "staff", "ok")
    /\ on' = (on \ {"staff"}) \cup {"start"}
    /\ UNCHANGED <<enrollId, stream, declared>>

StartEnrollmentAnswered(r) ==
    /\ Takes(r, "start", "ok")
    /\ enrollId' = r.about /\ on' = on \ {"start"}
    /\ UNCHANGED <<stream, declared>>

\* The camera opens, or there is none.
BeginCaptureAnswered(r) ==
    /\ Takes(r, "consent", "ok")
    /\ \/ stream' = TRUE /\ on' = (on \ {"accept"}) \cup {"capture", "cancel"}
       \/ UNCHANGED <<stream, on>>
    /\ UNCHANGED <<enrollId, declared>>

AnotherShot(r) ==
    /\ Takes(r, "frame", "more")
    /\ on' = on \cup {"capture"}
    /\ UNCHANGED <<enrollId, stream, declared>>

\* The last shot: the commit is sent, for the enrolment known by now.
LastShot(r) ==
    /\ r.op = "frame" /\ r.answer = "ok"
    /\ requests' = (requests \ {r}) \cup
                   {[op |-> "commit", about |-> enrollId, answer |-> "none"]}
    /\ UNCHANGED <<enrollment, ofPage>>

MutCommitted(r) == stream

\* commit.ok; without a stream the next line throws.
Committed(r) == r.answer = "ok" /\ stream

CommitAnswered(r) ==
    /\ Takes(r, "commit", r.answer) /\ r.answer # "none"
    /\ IF Committed(r)
       THEN /\ on' = on \ {"capture", "cancel"}
            /\ enrollId' = 0 /\ stream' = FALSE
            /\ declared' = declared \cup {r.about}
       ELSE /\ on' = on \cup {"capture"}
            /\ UNCHANGED <<enrollId, stream, declared>>

\* cancelEnrollment looks at no answer.
CancelAnswered(r) ==
    /\ Takes(r, "cancel", r.answer) /\ r.answer # "none"
    /\ Cancelled

\* Refused, or no answer: the catch of captureShot enables its button again;
\* the other buttons were never disabled.
RequestFails(r) ==
    /\ Takes(r, r.op, r.answer)
    /\ IF r.op \in {"frame", "commit"}
       THEN on' = on \cup {"capture"}
       ELSE UNCHANGED on
    /\ UNCHANGED <<enrollId, stream, declared>>

EnrollPanelNext ==
    \/ AuthenticateStaff \/ StartEnrollment \/ TickConsent
    \/ BeginCapture \/ CaptureEnrollmentShot \/ CancelEnrollment
    \/ \E r \in requests :
         \/ StaffVerified(r) \/ EnrollmentStarted(r) \/ ConsentRecorded(r) \/ FrameTaken(r)
         \/ EnrollmentCommitted(r) \/ EnrollmentCancelled(r) \/ Refused(r)
         \/ StaffAnswered(r) \/ StartEnrollmentAnswered(r) \/ BeginCaptureAnswered(r)
         \/ AnotherShot(r) \/ LastShot(r) \/ CommitAnswered(r) \/ CancelAnswered(r) \/ RequestFails(r)

-----------------------------------------------------------------------------
(* Properties.                                                              *)

\* What the page calls complete is stored, with the student's consent and all
\* the shots of that very enrolment, whatever button was pressed meanwhile and
\* whatever was cancelled, refused, lost or overtaken on the way
\* (captureEnrollmentShot, kiosk.ts:315).
CompleteIsStored ==
    \A e \in declared :
        /\ enrollment[e].state = "stored" /\ enrollment[e].consented
        /\ enrollment[e].done = EnrollShots
=============================================================================
