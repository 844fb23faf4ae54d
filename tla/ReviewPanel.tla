---------------------------- MODULE ReviewPanel ----------------------------
(***************************************************************************)
(* The panel where staff decide on photos sent in for enrolment            *)
(* (server/routes/kiosk-review-panel.ts): a candidate is opened and then   *)
(* approved, by the photo or by taking new pictures, or rejected with a    *)
(* reason.                                                                 *)
(*                                                                         *)
(* Every handler is split at its request; its answer finds the panel as it *)
(* is by then.  The server's side is the module FaceRegistry.  A button    *)
(* may be pressed again while its request is out.                          *)
(***************************************************************************)
EXTENDS FiniteSets, Naturals

CONSTANTS Candidates, NoCandidate,
          MaxRequests  \* bound: requests out at a time

ASSUME ReviewPanelAssumption ==
    /\ NoCandidate \notin Candidates
    /\ MaxRequests \in Nat

VARIABLES
    user,      \* reviewUserId
    detail,    \* the details are visible
    mode,      \* the radio button
    code, reason,  \* the candidate a text was typed for, NoCandidate if empty
    enrol,     \* reviewEnrollId: the candidate it was started for
    photo,     \* the candidate whose photo is on display
    capture,   \* the button for the next picture is enabled
    out        \* requests whose answer is to come

reviewVars == <<user, detail, mode, code, reason, enrol, photo, capture, out>>

Somebody == Candidates \cup {NoCandidate}
Requests == [op : {"photo", "start", "consent", "frame", "approve", "reject"},
             of : Somebody, about : Somebody]

ReviewPanelTypeOK ==
    /\ {user, code, reason, enrol, photo} \subseteq Somebody
    /\ detail \in BOOLEAN /\ capture \in BOOLEAN
    /\ mode \in {"reenroll", "promote-photo"}
    /\ out \subseteq Requests

ReviewPanelInit ==
    /\ user = NoCandidate /\ enrol = NoCandidate /\ photo = NoCandidate
    /\ code = NoCandidate /\ reason = NoCandidate
    /\ mode = "reenroll"
    /\ detail = FALSE /\ capture = FALSE
    /\ out = {}

-----------------------------------------------------------------------------
Send(op, of, about) ==
    /\ Cardinality(out) < MaxRequests
    /\ out' = out \cup {[op |-> op, of |-> of, about |-> about]}

Answers(r, op) == r.op = op /\ out' = out \ {r}

MutReasonAfterOpen == reason

\* Opening a candidate empties what was typed for the one before.
ReasonAfterOpen == NoCandidate

\* openReviewCandidate; a candidate without a photo needs no request.
OpenReviewCandidate(u) ==
    /\ user' = u /\ detail' = TRUE
    /\ photo' = NoCandidate /\ enrol' = NoCandidate
    /\ code' = NoCandidate /\ reason' = ReasonAfterOpen
    /\ capture' = FALSE
    /\ Send("photo", u, u) \/ UNCHANGED out
    /\ UNCHANGED mode

\* The photo that comes is put up, whoever is open by now; or it does not come.
PhotoAnswered(r) ==
    /\ Answers(r, "photo")
    /\ photo' \in {r.of, photo}
    /\ UNCHANGED <<user, detail, mode, code, reason, enrol, capture>>

ChooseMode(m) ==
    /\ detail /\ mode' = m
    /\ UNCHANGED <<user, detail, code, reason, enrol, photo, capture, out>>

TypeCode ==
    /\ detail /\ code' = user
    /\ UNCHANGED <<user, detail, mode, reason, enrol, photo, capture, out>>

TypeReason ==
    /\ detail /\ reason' = user
    /\ UNCHANGED <<user, detail, mode, code, enrol, photo, capture, out>>

SubmitReviewApproval == Send("approve", user, enrol)

\* approveReview: new pictures need an enrolment first.
ApproveReview ==
    /\ detail /\ user # NoCandidate
    /\ IF mode = "reenroll" /\ enrol = NoCandidate
       THEN code # NoCandidate /\ Send("start", user, code)
       ELSE SubmitReviewApproval
    /\ UNCHANGED <<user, detail, mode, code, reason, enrol, photo, capture>>

StartAnswered(r) ==
    /\ Answers(r, "start")
    /\ \/ enrol' = r.of /\ code' = NoCandidate
       \/ UNCHANGED <<enrol, code>>
    /\ UNCHANGED <<user, detail, mode, reason, photo, capture>>

\* submitReviewApproval's answer; the list is loaded anew.
ApproveAnswered(r) ==
    /\ Answers(r, "approve")
    /\ \/ /\ detail' = FALSE /\ enrol' = NoCandidate
          /\ photo' = NoCandidate /\ capture' = FALSE
       \/ UNCHANGED <<detail, enrol, photo, capture>>
    /\ UNCHANGED <<user, mode, code, reason>>

\* beginReviewCapture: consent to the server, then the camera.
BeginReviewCapture ==
    /\ detail /\ enrol # NoCandidate
    /\ Send("consent", user, enrol)
    /\ UNCHANGED <<user, detail, mode, code, reason, enrol, photo, capture>>

ConsentAnswered(r) ==
    /\ Answers(r, "consent")
    /\ \/ capture' = TRUE
       \/ UNCHANGED capture
    /\ UNCHANGED <<user, detail, mode, code, reason, enrol, photo>>

CaptureReviewShot ==
    /\ detail /\ capture /\ enrol # NoCandidate
    /\ capture' = FALSE
    /\ Send("frame", user, enrol)
    /\ UNCHANGED <<user, detail, mode, code, reason, enrol, photo>>

\* The picture failed, was refused or was not the last: another may follow.
\* After the last one the approval is sent for whoever is open by now.
FrameAnswered(r) ==
    /\ \/ Answers(r, "frame") /\ capture' \in {capture, TRUE}
       \/ /\ r.op = "frame"
          /\ out' = (out \ {r}) \cup {[op |-> "approve", of |-> user, about |-> enrol]}
          /\ UNCHANGED capture
    /\ UNCHANGED <<user, detail, mode, code, reason, enrol, photo>>

\* rejectReview: the reason is required.
RejectReview ==
    /\ detail /\ user # NoCandidate /\ reason # NoCandidate
    /\ Send("reject", user, reason)
    /\ UNCHANGED <<user, detail, mode, code, reason, enrol, photo, capture>>

RejectAnswered(r) ==
    /\ Answers(r, "reject")
    /\ \/ detail' = FALSE /\ photo' = NoCandidate /\ capture' = FALSE
       \/ UNCHANGED <<detail, photo, capture>>
    /\ UNCHANGED <<user, mode, code, reason, enrol>>

ReviewPanelNext ==
    \/ \E u \in Candidates : OpenReviewCandidate(u)
    \/ \E m \in {"reenroll", "promote-photo"} : ChooseMode(m)
    \/ TypeCode \/ TypeReason \/ ApproveReview \/ BeginReviewCapture
    \/ CaptureReviewShot \/ RejectReview
    \/ \E r \in out :
         \/ PhotoAnswered(r) \/ StartAnswered(r) \/ ApproveAnswered(r)
         \/ ConsentAnswered(r) \/ FrameAnswered(r) \/ RejectAnswered(r)

-----------------------------------------------------------------------------
(* Properties.                                                              *)

\* A rejection is sent with the reason typed for that very candidate, and an
\* enrolment is begun with the code typed for the candidate it is for, however
\* late the answers about earlier candidates come (openReviewCandidate,
\* kiosk-review-panel.ts:99).
ReasonIsAboutSubject ==
    \A r \in out : r.op \in {"reject", "start"} => r.about = r.of
=============================================================================
