------------------------------ MODULE MfaPanel ------------------------------
(***************************************************************************)
(* The panel of the kiosk page for on-site MFA                             *)
(* (server/routes/kiosk-mfa-panel.ts): it asks every two seconds which     *)
(* session the kiosk serves, and confirms that session by face or passkey. *)
(*                                                                         *)
(* The page is one thread; every await and timer splits a flow.  The       *)
(* server's side is the module OnsiteMfa, here only the session it serves. *)
(***************************************************************************)
EXTENDS Naturals

CONSTANTS MaxMfaSessions,  \* bound: sessions the kiosk serves, in order
          MaxConfirms      \* bound: presses of the two buttons, in order

ASSUME MfaPanelAssumption == {MaxMfaSessions, MaxConfirms} \subseteq Nat

VARIABLES
    opened, served,  \* the server: sessions opened; the one it serves, or 0
    shown,           \* mfaSessionId, or 0
    panel,           \* whether the panel is visible
    enabled,         \* both buttons; the code always sets them together
    camera,          \* mfaStream is set
    poll,            \* the chain of pollMfa: its timer, or its request
    confirm          \* flows: method, target, and where the flow waits

panelVars == <<shown, panel, enabled, camera, poll, confirm>>
mfaVars == <<opened, served, panelVars>>

MfaSessions == 1..MaxMfaSessions
Flows == 1..MaxConfirms

MfaPanelTypeOK ==
    /\ opened \in 0..MaxMfaSessions /\ served \in {0, opened}
    /\ shown \in 0..opened
    /\ panel \in BOOLEAN /\ enabled \in BOOLEAN /\ camera \in BOOLEAN
    /\ poll \in {"timer", "request", "ended"}
    /\ confirm \in [Flows -> [method : {"none", "face", "passkey"}, target : 0..opened,
                              at : {"idle", "begin", "camera", "first", "frame", "pause", "over"}]]

MfaPanelInit ==
    /\ opened = 0 /\ served = 0
    /\ shown = 0 /\ panel = FALSE /\ enabled = TRUE /\ camera = FALSE
    /\ poll = "request"
    /\ confirm = [c \in Flows |-> [method |-> "none", target |-> 0, at |-> "idle"]]

-----------------------------------------------------------------------------
(* The server, and the poll.                                                *)

SessionIsOpened ==
    /\ served = 0 /\ opened < MaxMfaSessions
    /\ opened' = opened + 1 /\ served' = opened + 1
    /\ UNCHANGED panelVars

SessionIsOver ==
    /\ served # 0
    /\ served' = 0
    /\ UNCHANGED <<opened, panelVars>>

PollTimerFires ==
    /\ poll = "timer"
    /\ poll' = "request"
    /\ UNCHANGED <<opened, served, shown, panel, enabled, camera, confirm>>

\* What pollMfa does with the session it was told of, 0 for none: a new one
\* takes the panel over, whatever goes on; without one the panel closes only
\* if nobody is being confirmed.
Shows(current) ==
    IF current \notin {0, shown}
    THEN shown' = current /\ enabled' = TRUE /\ panel' = TRUE
    ELSE IF current = 0 /\ shown # 0 /\ ~camera /\ enabled
         THEN shown' = 0 /\ panel' = FALSE /\ UNCHANGED enabled
         ELSE UNCHANGED <<shown, panel, enabled>>

PollAnswered ==
    /\ poll = "request"
    /\ Shows(served)
    /\ poll' = "timer"
    /\ UNCHANGED <<opened, served, camera, confirm>>

\* A refusal counts as no session.
PollRefused ==
    /\ poll = "request"
    /\ Shows(0)
    /\ poll' = "timer"
    /\ UNCHANGED <<opened, served, camera, confirm>>

MutPollAfterFailure == "ended"

\* The next poll is set behind the try block.
PollAfterFailure == "timer"

PollLost ==
    /\ poll = "request"
    /\ poll' = PollAfterFailure
    /\ UNCHANGED <<opened, served, shown, panel, enabled, camera, confirm>>

-----------------------------------------------------------------------------
(* Confirming.                                                              *)

MoveTo(c, at) == confirm' = [confirm EXCEPT ![c].at = at]
PageStays == UNCHANGED <<opened, served, shown, panel, poll>>

Press(c, method) ==
    /\ panel /\ enabled /\ shown # 0
    /\ confirm[c].at = "idle" /\ \A b \in 1..(c - 1) : confirm[b].at # "idle"
    /\ enabled' = FALSE
    /\ confirm' = [confirm EXCEPT ![c] = [method |-> method, target |-> shown, at |-> "begin"]]
    /\ PageStays /\ UNCHANGED camera

\* The identity session, or the passkey's challenge, was made.
BeginAnswered(c) ==
    /\ confirm[c].at = "begin"
    /\ MoveTo(c, IF confirm[c].method = "face" THEN "camera" ELSE "first")
    /\ PageStays /\ UNCHANGED <<enabled, camera>>

\* sendFrame looks at the camera and at the target before each frame; it ends
\* as silently when the canvas gives no picture.
SendsFrame(c, on, at) ==
    \/ on /\ confirm[c].target = shown /\ MoveTo(c, at)
    \/ MoveTo(c, "over")

CameraOpens(c) ==
    /\ confirm[c].at = "camera"
    /\ camera' = TRUE
    /\ SendsFrame(c, TRUE, "first")
    /\ PageStays /\ UNCHANGED enabled

PauseEnds(c) ==
    /\ confirm[c].at = "pause"
    /\ SendsFrame(c, camera, "frame")
    /\ PageStays /\ UNCHANGED <<enabled, camera>>

\* A result of the server: showMfaResult, whatever the panel shows by now.
ResultArrives(c) ==
    /\ \/ confirm[c].at \in {"first", "frame"}
       \/ confirm[c].at = "begin" /\ confirm[c].method = "passkey"
    /\ camera' = FALSE /\ enabled' = FALSE
    /\ MoveTo(c, "over")
    /\ PageStays

FrameGoesOn(c) ==
    /\ confirm[c].method = "face" /\ confirm[c].at \in {"first", "frame"}
    /\ MoveTo(c, "pause")
    /\ PageStays /\ UNCHANGED <<enabled, camera>>

FrameFallsBack(c) ==
    /\ confirm[c].method = "face" /\ confirm[c].at \in {"first", "frame"}
    /\ camera' = FALSE /\ enabled' = TRUE
    /\ MoveTo(c, "over")
    /\ PageStays

\* An exception up to the first frame reaches the button's catch, which stops
\* the camera of a face flow; a later one has no handler.
ConfirmFails(c) ==
    /\ confirm[c].at \in {"begin", "camera", "first", "frame"}
    /\ IF confirm[c].at = "frame" THEN UNCHANGED <<enabled, camera>>
       ELSE enabled' = TRUE /\ camera' = (camera /\ confirm[c].method # "face")
    /\ MoveTo(c, "over")
    /\ PageStays

PanelStep ==
    \/ PollTimerFires \/ PollAnswered \/ PollRefused \/ PollLost
    \/ \E c \in Flows :
         \/ \E method \in {"face", "passkey"} : Press(c, method)
         \/ BeginAnswered(c) \/ CameraOpens(c) \/ PauseEnds(c)
         \/ ResultArrives(c) \/ FrameGoesOn(c) \/ FrameFallsBack(c) \/ ConfirmFails(c)

MfaPanelNext == SessionIsOpened \/ SessionIsOver \/ PanelStep

-----------------------------------------------------------------------------
(* Properties.                                                              *)

\* A session the kiosk serves gets the panel, unless it is over before,
\* whatever polls were lost and whatever an earlier confirmation left behind
\* (pollMfa, kiosk-mfa-panel.ts:62-77).
EveryServedSessionIsShown ==
    \A s \in MfaSessions : served = s ~> (shown = s /\ panel) \/ served # s
=============================================================================
