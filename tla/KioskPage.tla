----------------------------- MODULE KioskPage -----------------------------
(***************************************************************************)
(* The main part of the kiosk page (server/routes/kiosk.ts): a session of  *)
(* identity is begun by passkey or face; the page polls the session, or    *)
(* sends frames for it, until it is over.                                  *)
(*                                                                         *)
(* stopPolling clears only the timer it knows: a poll that waits for its   *)
(* answer sets the next timer afterwards, and chains of polls and frames   *)
(* started for one session go on for the next.  The server's side is in    *)
(* the modules PasskeyCheckin and FaceFlow.                                *)
(***************************************************************************)
EXTENDS Naturals

CONSTANTS MaxPageSessions,  \* bound: sessions begun, in order
          MaxChains         \* bound: chains of polls, and of frames

ASSUME KioskPageAssumption == {MaxPageSessions, MaxChains} \subseteq Nat

VARIABLES
    born, issuedPage, gone,  \* the server: sessions made, issued, expired
    current,      \* sessionId, or 0
    creating,     \* buttons pressed that wait for their session, by kind
    pollChain,    \* chains: free, "timer", or the session asked about
    pollTimer,    \* the chain whose timer pollTimer names, or 0
    frameChain,   \* chains: free, "timer", or the session of the frame
    kioskCamera   \* video.srcObject is set

serverSide == <<born, issuedPage, gone>>
pageSide == <<current, creating, pollChain, pollTimer, frameChain, kioskCamera>>
pageVars == <<serverSide, pageSide>>

PageSessions == 1..MaxPageSessions
Chains == 1..MaxChains
ChainStates == [at : {"free", "timer", "request"}, of : 0..MaxPageSessions]
Free == [at |-> "free", of |-> 0]
Timer == [at |-> "timer", of |-> 0]
RequestFor(s) == [at |-> "request", of |-> s]

KioskPageTypeOK ==
    /\ born \in 0..MaxPageSessions
    /\ issuedPage \subseteq 1..born /\ gone \subseteq 1..born
    /\ current \in 0..born
    /\ creating \in [{"passkey", "face"} -> Nat]
    /\ pollChain \in [Chains -> ChainStates] /\ frameChain \in [Chains -> ChainStates]
    /\ pollTimer \in Chains \cup {0}
    /\ kioskCamera \in BOOLEAN

KioskPageInit ==
    /\ born = 0 /\ issuedPage = {} /\ gone = {} /\ current = 0
    /\ creating = [kind \in {"passkey", "face"} |-> 0]
    /\ pollChain = [c \in Chains |-> Free] /\ frameChain = [c \in Chains |-> Free]
    /\ pollTimer = 0 /\ kioskCamera = FALSE

-----------------------------------------------------------------------------
\* stopPolling: the timer that is known is cleared; it may have fired already.
Stopped(chains) ==
    IF pollTimer # 0 /\ chains[pollTimer].at = "timer"
    THEN [chains EXCEPT ![pollTimer] = Free] ELSE chains

FirstFree(chains, c) == chains[c].at = "free" /\ \A b \in 1..(c - 1) : chains[b].at # "free"

\* showPasskey and showFace up to the answer to createSession.
PressBegin(kind) ==
    /\ born + creating["passkey"] + creating["face"] < MaxPageSessions
    /\ creating' = [creating EXCEPT ![kind] = @ + 1]
    /\ pollChain' = Stopped(pollChain) /\ pollTimer' = 0
    /\ UNCHANGED <<serverSide, current, frameChain, kioskCamera>>

\* showRegister, the enrolment and the review panel stop the polling too.
PressOther ==
    /\ pollChain' = Stopped(pollChain) /\ pollTimer' = 0
    /\ UNCHANGED <<serverSide, current, creating, frameChain, kioskCamera>>

\* The session is made; the passkey's QR code is shown, and polled in 1 s.
PasskeySessionMade(c) ==
    /\ creating["passkey"] > 0 /\ FirstFree(pollChain, c)
    /\ creating' = [creating EXCEPT !["passkey"] = @ - 1]
    /\ born' = born + 1 /\ current' = born + 1
    /\ pollChain' = [pollChain EXCEPT ![c] = Timer] /\ pollTimer' = c
    /\ UNCHANGED <<issuedPage, gone, frameChain, kioskCamera>>

\* The session is made and the camera opened: the first frame leaves at once.
FaceSessionMade(c) ==
    /\ creating["face"] > 0 /\ FirstFree(frameChain, c)
    /\ creating' = [creating EXCEPT !["face"] = @ - 1]
    /\ born' = born + 1 /\ current' = born + 1
    /\ \/ kioskCamera' = TRUE /\ frameChain' = [frameChain EXCEPT ![c] = RequestFor(born + 1)]
       \/ UNCHANGED <<kioskCamera, frameChain>>  \* no camera
    /\ UNCHANGED <<issuedPage, gone, pollChain, pollTimer>>

CreationFails(kind) ==
    /\ creating[kind] > 0
    /\ creating' = [creating EXCEPT ![kind] = @ - 1]
    /\ UNCHANGED <<serverSide, current, pollChain, pollTimer, frameChain, kioskCamera>>

-----------------------------------------------------------------------------
(* Polls.                                                                   *)

PollFires(c) ==
    /\ pollChain[c].at = "timer"
    /\ pollChain' = [pollChain EXCEPT ![c] = RequestFor(current)]
    /\ UNCHANGED <<serverSide, current, creating, pollTimer, frameChain, kioskCamera>>

MutEndsPolling(s) == s \in issuedPage \ gone

\* Anything but a session still open ends the chain: 410, or issued.
EndsPolling(s) == s \in issuedPage \cup gone

\* pollSession's answer.  When the chain ends it also clears the timer that is
\* known by then, be it another chain's.
PollSessionAnswered(c) ==
    /\ pollChain[c].at = "request"
    /\ IF EndsPolling(pollChain[c].of)
       THEN pollChain' = Stopped([pollChain EXCEPT ![c] = Free]) /\ pollTimer' = 0
       ELSE pollChain' = [pollChain EXCEPT ![c] = Timer] /\ pollTimer' = c
    /\ UNCHANGED <<serverSide, current, creating, frameChain, kioskCamera>>

\* The catch block: the next poll tries again.
PollSessionLost(c) ==
    /\ pollChain[c].at = "request"
    /\ pollChain' = [pollChain EXCEPT ![c] = Timer] /\ pollTimer' = c
    /\ UNCHANGED <<serverSide, current, creating, frameChain, kioskCamera>>

-----------------------------------------------------------------------------
(* Frames.                                                                  *)

\* A frame is sent for the session that is current, whoever began the chain.
FrameFires(c) ==
    /\ frameChain[c].at = "timer"
    /\ frameChain' = [frameChain EXCEPT ![c] = IF current # 0 /\ kioskCamera
                                               THEN RequestFor(current) ELSE Free]
    /\ UNCHANGED <<serverSide, current, creating, pollChain, pollTimer, kioskCamera>>

\* issued and fallback end the chain, and so do a failed request and a canvas
\* without a picture; the video element keeps its stopped stream.  A refusal
\* (410 of a session that is over) has no state: the chain goes on.
FrameAnswer(c) ==
    /\ frameChain[c].at = "request"
    /\ \E next \in {Timer, Free} : frameChain' = [frameChain EXCEPT ![c] = next]
    /\ UNCHANGED <<serverSide, current, creating, pollChain, pollTimer, kioskCamera>>

\* No chain of frames is running: an accepted frame touches its session
\* (FaceVerificationFlow.process), which then lives on for its whole TTL.
NoFrames == \A c \in Chains : frameChain[c].at = "free"

PageSessionIssued(s) ==
    /\ s <= born /\ s \notin issuedPage \cup gone
    /\ issuedPage' = issuedPage \cup {s}
    /\ UNCHANGED <<born, gone, pageSide>>

PageSessionExpires(s) ==
    /\ s <= born /\ s \notin gone
    /\ gone' = gone \cup {s}
    /\ UNCHANGED <<born, issuedPage, pageSide>>

KioskPageNext ==
    \/ \E kind \in {"passkey", "face"} : PressBegin(kind) \/ CreationFails(kind)
    \/ PressOther
    \/ \E s \in PageSessions : PageSessionIssued(s) \/ PageSessionExpires(s)
    \/ \E c \in Chains :
         \/ PasskeySessionMade(c) \/ FaceSessionMade(c)
         \/ PollFires(c) \/ PollSessionAnswered(c) \/ PollSessionLost(c)
         \/ FrameFires(c) \/ FrameAnswer(c)

-----------------------------------------------------------------------------
(* Properties.                                                              *)

\* Chains of polls that outlived stopPolling multiply, but not for ever: once
\* the camera sends no more frames, which keep a session alive, and nobody
\* begins another, every chain comes to its end, whichever session it was
\* started for and however many answers were lost (pollSession,
\* kiosk.ts:145-163).
PollingEnds == <>[]NoFrames => <>[](\A c \in Chains : pollChain[c].at = "free")
=============================================================================
