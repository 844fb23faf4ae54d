--------------------------- MODULE MobileCheckin ---------------------------
(***************************************************************************)
(* The fallback check-in with a Cernere password or session                *)
(* (server/mobile-checkin.ts, server/routes/mobile-checkin.ts), composed   *)
(* with the profile client it asks on the way: log in at Cernere, sign,    *)
(* read the profile, deliver to Aedilis, answer.                           *)
(*                                                                         *)
(* Each login is split at its awaits: Cernere, the profile, the delivery.  *)
(* Cernere and Aedilis are external.                                       *)
(***************************************************************************)
EXTENDS VantanClient, FiniteSets

Logins == Calls  \* each login makes at most one profile request

VARIABLES
    step,      \* where the login's request waits
    reply,     \* what it was answered
    issued,    \* logins with an attestation signed and recorded in face_events
    recorded,  \* logins Aedilis has recorded
    page       \* what the browser form of the login shows

mobileVars == <<step, reply, issued, recorded, page>>
mobileAllVars == <<vantanVars, mobileVars>>

Replies == {"none", "refused", "recorded", "undelivered"}

MobileTypeOK ==
    /\ step \in [Logins -> {"idle", "login", "profile", "delivery", "answered"}]
    /\ reply \in [Logins -> Replies]
    /\ issued \subseteq Logins /\ recorded \subseteq Logins
    /\ page \in [Logins -> {"form", "waiting", "error", "success"}]

MobileInit ==
    /\ step = [l \in Logins |-> "idle"]
    /\ reply = [l \in Logins |-> "none"]
    /\ issued = {} /\ recorded = {}
    /\ page = [l \in Logins |-> "form"]

\* The form is submitted with a fresh request nonce; the button is disabled.
Submit(l) ==
    /\ step[l] = "idle"
    /\ step' = [step EXCEPT ![l] = "login"]
    /\ page' = [page EXCEPT ![l] = "waiting"]
    /\ UNCHANGED <<vantanVars, reply, issued, recorded>>

\* Cernere is unreachable, refuses, asks for a second factor or answers
\* something else: 401, and nothing is signed.
LoginRefused(l) ==
    /\ step[l] = "login"
    /\ step' = [step EXCEPT ![l] = "answered"]
    /\ reply' = [reply EXCEPT ![l] = "refused"]
    /\ UNCHANGED <<vantanVars, issued, recorded, page>>

\* loginAndAttest / tokenAndAttest: the nonce goes to the challenge store,
\* the attestation is signed and recorded, then the profile is asked for.
LoginAccepted(l) ==
    /\ step[l] = "login"
    /\ issued' = issued \cup {l}
    /\ step' = [step EXCEPT ![l] = "profile"]
    /\ Ask(l)
    /\ UNCHANGED <<started, closedByCaller, reconnectTimer, connecting, ws, sock, reply, recorded, page>>

MutProfileSettled(l) == call[l] = "answered"

\* The profile is best effort: a failed request counts as no profile.
ProfileSettled(l) == call[l] \in {"answered", "failed"}

\* sendAttendance: the request to Aedilis leaves.
BeginDelivery(l) ==
    /\ step[l] = "profile" /\ ProfileSettled(l)
    /\ step' = [step EXCEPT ![l] = "delivery"]
    /\ UNCHANGED <<vantanVars, reply, issued, recorded, page>>

\* Recorded only with Aedilis's own word for it.
DeliveryReply(recordedNow, answerRead) ==
    IF recordedNow /\ answerRead THEN "recorded" ELSE "undelivered"

\* The delivery ends within 10 s: Aedilis recorded it or not, and the answer
\* was read or lost.
DeliveryEnds(l) ==
    /\ step[l] = "delivery"
    /\ \E recordedNow, answerRead \in BOOLEAN :
         /\ recorded' = IF recordedNow THEN recorded \cup {l} ELSE recorded
         /\ reply' = [reply EXCEPT ![l] = DeliveryReply(recordedNow, answerRead)]
    /\ step' = [step EXCEPT ![l] = "answered"]
    /\ UNCHANGED <<vantanVars, issued, page>>

\* The form takes the answer, or loses it.
FormShows(l) ==
    /\ page[l] = "waiting"
    /\ \/ /\ step[l] = "answered"
          /\ page' = [page EXCEPT ![l] = IF reply[l] = "recorded" THEN "success" ELSE "error"]
       \/ page' = [page EXCEPT ![l] = "error"]
    /\ UNCHANGED <<vantanVars, step, reply, issued, recorded>>

MobileStep(l) ==
    LoginRefused(l) \/ LoginAccepted(l) \/ BeginDelivery(l) \/ DeliveryEnds(l)

MobileNext ==
    \/ VantanNext /\ UNCHANGED mobileVars
    \/ \E l \in Logins : Submit(l) \/ MobileStep(l) \/ FormShows(l)

-----------------------------------------------------------------------------
(* Properties.                                                              *)

\* Every login is answered in the end, even if the profile connection never
\* answers, breaks or is closed while the login waits for it
\* (mobile-checkin.ts:150, the request timer of vantan-user-client.ts:282).
LoginsAreAnswered == \A l \in Logins : step[l] = "login" ~> step[l] = "answered"
=============================================================================
