--------------------------- MODULE ProximityPanel ---------------------------
(***************************************************************************)
(* The kiosk page's panel for a login with the phone's passkey             *)
(* (server/routes/kiosk-proximity-panel.ts): one flow at a time, under one *)
(* AbortController, through five requests.                                 *)
(*                                                                         *)
(* All of them carry the signal of the controller, except the creation of  *)
(* the session, which nothing can end early, and the last one, which has a *)
(* deadline of its own.  The server's side is in PasskeyCheckin; here it   *)
(* only takes or does not take the last request, early or late.            *)
(***************************************************************************)
EXTENDS Naturals

CONSTANT MaxProximityFlows  \* bound: presses of the start button, in order

ASSUME ProximityPanelAssumption == MaxProximityFlows \in Nat

VARIABLES
    prox,          \* flows: the request each waits for, and what it told
    proxTimer,     \* the 55 s timer is running
    proxAborted,   \* the controller of the running flow is aborted
    proxPending,   \* the server: finish requests on their way
    proxConfirmed  \* the server: flows whose login was confirmed

pagePart == <<prox, proxTimer, proxAborted>>
serverPart == <<proxPending, proxConfirmed>>
proxVars == <<pagePart, serverPart>>

ProximityFlows == 1..MaxProximityFlows
Abortable == {"capabilities", "begin", "passkey"}
Awaiting == Abortable \cup {"session", "finish"}

ProximityPanelTypeOK ==
    /\ prox \in [ProximityFlows -> [at : Awaiting \cup {"idle", "over"},
                                    told : {"nothing", "confirmed", "again", "staff", "unsure"}]]
    /\ proxTimer \in BOOLEAN /\ proxAborted \in BOOLEAN
    /\ proxPending \subseteq ProximityFlows /\ proxConfirmed \subseteq ProximityFlows

ProximityPanelInit ==
    /\ prox = [f \in ProximityFlows |-> [at |-> "idle", told |-> "nothing"]]
    /\ proxTimer = FALSE /\ proxAborted = FALSE
    /\ proxPending = {} /\ proxConfirmed = {}

-----------------------------------------------------------------------------
\* proximityController is set; the button is disabled as long.
Running(f) == prox[f].at \in Awaiting

\* A press: an AbortController and its timer.
StartProximity(f) ==
    /\ prox[f].at = "idle" /\ \A g \in 1..(f - 1) : prox[g].at = "over"
    /\ prox' = [prox EXCEPT ![f].at = "capabilities"]
    /\ proxTimer' = TRUE /\ proxAborted' = FALSE
    /\ UNCHANGED serverPart

\* The cancel button, hidden once the last request is sent, or pagehide.
AbortProximity ==
    /\ \E f \in ProximityFlows : Running(f)
    /\ proxAborted' = TRUE
    /\ UNCHANGED <<prox, proxTimer, serverPart>>

ProximityTimerFires ==
    /\ proxTimer
    /\ proxTimer' = FALSE /\ proxAborted' = TRUE
    /\ UNCHANGED <<prox, serverPart>>

\* The finally block.
Ends(f, told) ==
    /\ prox' = [prox EXCEPT ![f] = [at |-> "over", told |-> told]]
    /\ proxTimer' = FALSE
    /\ UNCHANGED proxAborted

Proceeds(f, from, to) ==
    /\ prox[f].at = from
    /\ prox' = [prox EXCEPT ![f].at = to]
    /\ UNCHANGED <<proxTimer, proxAborted, serverPart>>

\* Capabilities and options were granted, or not: `configuration`,
\* `unregistered`.
CapabilitiesAnswered(f) == ~proxAborted /\ Proceeds(f, "capabilities", "session")
OptionsAnswered(f) == ~proxAborted /\ Proceeds(f, "begin", "passkey")

ProximityRefused(f) ==
    /\ prox[f].at \in {"capabilities", "begin"}
    /\ Ends(f, "staff")
    /\ UNCHANGED serverPart

\* createSession: the signal is looked at afterwards.
SessionCreated(f) == ~proxAborted /\ Proceeds(f, "session", "begin")

\* The phone has approved: from here on the flow is `sending`.
AssertionGiven(f) ==
    /\ prox[f].at = "passkey" /\ ~proxAborted
    /\ prox' = [prox EXCEPT ![f].at = "finish"]
    /\ proxTimer' = FALSE
    /\ proxPending' = proxPending \cup {f}
    /\ UNCHANGED <<proxAborted, proxConfirmed>>

MutSending == {}

\* Where a failure leaves the outcome open.
Sending == {"finish"}

\* An exception: the signal, a failed request, the 15 s of the last request, an
\* assertion not given, or no secure context.
ProximityFails(f) ==
    /\ Running(f)
    /\ Ends(f, IF prox[f].at \in Sending THEN "unsure" ELSE "again")
    /\ UNCHANGED serverPart

\* The server takes the last request or it is lost, whether or not the page
\* still waits.
FinishHandled(f) ==
    /\ f \in proxPending
    /\ proxPending' = proxPending \ {f}
    /\ proxConfirmed' \in {proxConfirmed, proxConfirmed \cup {f}}
    /\ UNCHANGED pagePart

\* ok, or anything else: 'confirmation'.
FinishAnswered(f) ==
    /\ prox[f].at = "finish" /\ f \notin proxPending
    /\ Ends(f, IF f \in proxConfirmed THEN "confirmed" ELSE "unsure")
    /\ UNCHANGED serverPart

ProximityPanelNext ==
    \/ AbortProximity \/ ProximityTimerFires
    \/ \E f \in ProximityFlows :
         \/ StartProximity(f)
         \/ CapabilitiesAnswered(f) \/ SessionCreated(f) \/ OptionsAnswered(f)
         \/ AssertionGiven(f) \/ FinishAnswered(f)
         \/ ProximityRefused(f) \/ ProximityFails(f) \/ FinishHandled(f)

-----------------------------------------------------------------------------
(* Properties.                                                              *)

\* "Try again" is told only of a flow that confirms nobody, now or later; where
\* the outcome is open the page sends the person to the staff instead (the
\* flag `sending`, kiosk-proximity-panel.ts:46).
TryAgainIsSafe ==
    \A f \in ProximityFlows :
        prox[f].told = "again" => f \notin proxPending \cup proxConfirmed

\* The button comes back after every press: each request ends by an answer, the
\* signal's timer or its own deadline (the finally block,
\* kiosk-proximity-panel.ts:50).
ProximityPanelReturns ==
    \A f \in ProximityFlows : prox[f].at # "idle" ~> prox[f].at = "over"
=============================================================================
