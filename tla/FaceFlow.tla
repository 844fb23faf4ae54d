------------------------------ MODULE FaceFlow ------------------------------
(***************************************************************************)
(* The kiosk's face path: frames are analysed one await at a time, matches *)
(* are voted on, an active challenge follows, and the session is issued or *)
(* sent to the fallback (server/face/verification-flow.ts, matcher.ts,     *)
(* challenge.ts, routes/identity-face.ts).                                 *)
(*                                                                         *)
(* process() looks at the session before it awaits the sidecar and not     *)
(* again afterwards, so frames of one session that overlap are applied to  *)
(* a session that has moved on.  The kiosk page sends one frame at a time, *)
(* but a second tap on its button starts a second sender on the same       *)
(* session, and the passkey path may complete the session meanwhile.       *)
(***************************************************************************)
EXTENDS Naturals, FiniteSets

CONSTANTS Users,             \* people with a face template
          Sids,              \* identity session ids
          Handlers,          \* frame requests in flight at once
          VotesNeeded,       \* 3 in the code
          SpoofMax,          \* 3
          AmbiguousMax,      \* 10
          ChallengeRequired, \* OSTIARIUS_FACE_CHALLENGE = required
          ChallengeTTL,      \* 8 s
          SessionTTL,        \* 60 s
          MaxTime,           \* bound on the clock
          None

\* FlowState.challenge.
Challenge == [user : Users, deadline : Nat, moved : BOOLEAN]

ASSUME FaceAssumption ==
    /\ VotesNeeded \in Nat \ {0} /\ SpoofMax \in Nat \ {0} /\ AmbiguousMax \in Nat \ {0}
    /\ ChallengeRequired \in BOOLEAN
    /\ ChallengeTTL \in Nat /\ SessionTTL \in Nat /\ MaxTime \in Nat
    /\ None \notin Users \cup Sids \cup Challenge

VARIABLES
    now,
    roster,                            \* active templates (template-roster.ts)
    sess, sessExp,                     \* identity sessions
    voteUser, vote, spoof, ambiguous,  \* FlowState of a session
    chal,                              \* FlowState.challenge or None
    inflight,                          \* session of the frame being analysed
    issued,                            \* history: attestations signed
    matched,                           \* history: clear matches per user, saturating
    moved,                             \* history: users seen making the gesture
    gap,                               \* history: other frames came between the votes
    weak,                              \* history: challenge frames below the threshold
    overlap                            \* history: a frame met a session in use

flowVars == <<voteUser, vote, spoof, ambiguous, chal>>
histVars == <<issued, matched, moved, gap, weak, overlap>>
vars == <<now, roster, sess, sessExp, flowVars, inflight, histVars>>

SessStates == {"unborn", "idle", "scanning", "challenging", "issued", "fallback"}
Terminal == {"issued", "fallback"}

\* What the sidecar and findFaceMatch make of a frame: "no_face" also stands
\* for a frame that fails the quality gate or has no readable embedding; a
\* face has a nearest roster entry (None on an empty roster), how clearly it
\* matches it, and the gesture it shows.
Frames ==
    [kind : {"no_face", "spoof"}, top : {None}, level : {"below"}, gesture : {"none"}]
    \cup [kind : {"face"}, top : {None}, level : {"below"}, gesture : {"none", "move", "rest"}]
    \cup [kind : {"face"}, top : Users, level : {"below", "ambiguous", "clear"},
          gesture : {"none", "move", "rest"}]

SeenNow(f) == IF roster = {} THEN f.top = None ELSE f.kind = "face" => f.top \in roster

TypeOK ==
    /\ now \in Nat
    /\ roster \subseteq Users
    /\ sess \in [Sids -> SessStates] /\ sessExp \in [Sids -> Nat]
    /\ voteUser \in [Sids -> Users \cup {None}]
    /\ vote \in [Sids -> 0..VotesNeeded]
    /\ spoof \in [Sids -> 0..SpoofMax]
    /\ ambiguous \in [Sids -> 0..AmbiguousMax]
    /\ chal \in [Sids -> Challenge \cup {None}]
    /\ inflight \in [Handlers -> Sids \cup {None}]
    /\ issued \subseteq [sid : Sids, sub : Users]
    /\ matched \in [Sids -> [Users -> 0..VotesNeeded]]
    /\ moved \in [Sids -> SUBSET Users]
    /\ gap \in [Sids -> BOOLEAN] /\ weak \in [Sids -> BOOLEAN]
    /\ overlap \in [Sids -> BOOLEAN]

Init ==
    /\ now = 0
    /\ roster \in SUBSET Users
    /\ sess = [s \in Sids |-> "unborn"] /\ sessExp = [s \in Sids |-> 0]
    /\ voteUser = [s \in Sids |-> None] /\ vote = [s \in Sids |-> 0]
    /\ spoof = [s \in Sids |-> 0] /\ ambiguous = [s \in Sids |-> 0]
    /\ chal = [s \in Sids |-> None]
    /\ inflight = [h \in Handlers |-> None]
    /\ issued = {}
    /\ matched = [s \in Sids |-> [u \in Users |-> 0]]
    /\ moved = [s \in Sids |-> {}]
    /\ gap = [s \in Sids |-> FALSE] /\ weak = [s \in Sids |-> FALSE]
    /\ overlap = [s \in Sids |-> FALSE]

Upto(n, max) == IF n < max THEN n ELSE max

-----------------------------------------------------------------------------
(* Sessions and the start of a frame.                                       *)

Alive(s) == sess[s] # "unborn" /\ sessExp[s] > now

\* IdentitySessionStore.transition(): any state, if the session is alive.
Transition(s, st) ==
    IF Alive(s)
    THEN /\ sess' = [sess EXCEPT ![s] = st]
         /\ sessExp' = [sessExp EXCEPT ![s] = now + SessionTTL]
    ELSE UNCHANGED <<sess, sessExp>>

CreateSession(s) ==
    /\ sess[s] = "unborn"
    /\ sess' = [sess EXCEPT ![s] = "idle"]
    /\ sessExp' = [sessExp EXCEPT ![s] = now + SessionTTL]
    /\ UNCHANGED <<now, roster, flowVars, inflight, histVars>>

MutAcceptsFrame(s) == Alive(s) /\ sess[s] # "issued"

AcceptsFrame(s) == Alive(s) /\ sess[s] \notin Terminal

\* process() up to the await of sidecar.analyze; touch() extends the session.
FrameStart(h, s) ==
    /\ inflight[h] = None
    /\ AcceptsFrame(s)
    /\ inflight' = [inflight EXCEPT ![h] = s]
    /\ sessExp' = [sessExp EXCEPT ![s] = now + SessionTTL]
    /\ overlap' = [overlap EXCEPT ![s] = @ \/ \E g \in Handlers : inflight[g] = s]
    /\ UNCHANGED <<now, roster, sess, flowVars, issued, matched, moved, gap, weak>>

-----------------------------------------------------------------------------
(* After the await.  Every outcome ends the request.                        *)

Analysed(h, s, f) ==
    /\ inflight[h] = s /\ SeenNow(f)
    /\ inflight' = [inflight EXCEPT ![h] = None]
    /\ UNCHANGED <<now, roster, overlap>>

MutInChallenge(s) == sess[s] = "challenging"

\* Once there is a challenge, every later face is taken for an answer to it,
\* whatever the session's state.
InChallenge(s) == chal[s] # None

\* A frame that is no vote leaves the votes as they are.
NoVote(s) ==
    /\ gap' = [gap EXCEPT ![s] = @ \/ (vote[s] > 0 /\ chal[s] = None)]
    /\ UNCHANGED <<voteUser, vote, chal, issued, matched, moved, weak>>

NoFace(h, s, f) ==
    /\ Analysed(h, s, f) /\ f.kind = "no_face"
    /\ NoVote(s)
    /\ Transition(s, "scanning")
    /\ UNCHANGED <<spoof, ambiguous>>

AfterSpoof(n) == IF n >= SpoofMax THEN "fallback" ELSE "scanning"

Spoof(h, s, f) ==
    /\ Analysed(h, s, f) /\ f.kind = "spoof"
    /\ NoVote(s)
    /\ spoof' = [spoof EXCEPT ![s] = Upto(@ + 1, SpoofMax)]
    /\ Transition(s, AfterSpoof(spoof'[s]))
    /\ UNCHANGED ambiguous

NoMatch(h, s, f) ==
    /\ Analysed(h, s, f) /\ f.kind = "face" /\ ~ InChallenge(s) /\ f.level = "below"
    /\ NoVote(s)
    /\ Transition(s, "scanning")
    /\ UNCHANGED <<spoof, ambiguous>>

Ambiguous(h, s, f) ==
    /\ Analysed(h, s, f) /\ f.kind = "face" /\ ~ InChallenge(s) /\ f.level = "ambiguous"
    /\ NoVote(s)
    /\ ambiguous' = [ambiguous EXCEPT ![s] = Upto(@ + 1, AmbiguousMax)]
    /\ Transition(s, IF ambiguous'[s] >= AmbiguousMax THEN "fallback" ELSE "scanning")
    /\ UNCHANGED spoof

\* issued(): the session is marked and the route signs an attestation, also
\* when the session has expired meanwhile.
Issue(s, u) ==
    /\ Transition(s, "issued")
    /\ issued' = issued \cup {[sid |-> s, sub |-> u]}

MutVoteCount(s, u) == Upto(vote[s] + 1, VotesNeeded)

\* ConsecutiveFaceVote.add() for a clear match.
VoteCount(s, u) == IF voteUser[s] = u THEN Upto(vote[s] + 1, VotesNeeded) ELSE 1

Vote(h, s, f) ==
    /\ Analysed(h, s, f) /\ f.kind = "face" /\ ~ InChallenge(s) /\ f.level = "clear"
    /\ voteUser' = [voteUser EXCEPT ![s] = f.top]
    /\ vote' = [vote EXCEPT ![s] = VoteCount(s, f.top)]
    /\ matched' = [matched EXCEPT ![s][f.top] = Upto(@ + 1, VotesNeeded)]
    /\ gap' = [gap EXCEPT ![s] = voteUser[s] = f.top /\ @]
    /\ IF vote'[s] < VotesNeeded
       THEN Transition(s, "scanning") /\ UNCHANGED <<chal, issued>>
       ELSE IF ChallengeRequired
       THEN /\ chal' = [chal EXCEPT ![s] =
                  [user |-> f.top, deadline |-> now + ChallengeTTL, moved |-> FALSE]]
            /\ Transition(s, "challenging")
            /\ UNCHANGED issued
       ELSE Issue(s, f.top) /\ UNCHANGED chal
    /\ UNCHANGED <<spoof, ambiguous, moved, weak>>

MutChallengeHolds(s, f) == now <= chal[s].deadline

\* In time, and the nearest roster entry is still the challenged user; how
\* near is not asked.
ChallengeHolds(s, f) == now <= chal[s].deadline /\ f.top = chal[s].user

ChallengeFailed(h, s, f) ==
    /\ Analysed(h, s, f) /\ f.kind = "face" /\ InChallenge(s)
    /\ ~ ChallengeHolds(s, f)
    /\ Transition(s, "fallback")
    /\ UNCHANGED <<flowVars, issued, matched, moved, gap, weak>>

\* advanceChallenge() then isChallengeComplete(): the gesture was made, in this
\* or an earlier frame, and this frame shows it undone.
Complete(s, f) == (chal[s].moved \/ f.gesture = "move") /\ f.gesture = "rest"

ChallengeFrame(h, s, f) ==
    /\ Analysed(h, s, f) /\ f.kind = "face" /\ InChallenge(s)
    /\ ChallengeHolds(s, f)
    /\ chal' = [chal EXCEPT ![s].moved = @ \/ f.gesture = "move"]
    /\ moved' = [moved EXCEPT ![s] = IF f.gesture = "move" THEN @ \cup {f.top} ELSE @]
    /\ weak' = [weak EXCEPT ![s] = @ \/ f.level # "clear"]
    /\ IF Complete(s, f) THEN Issue(s, chal[s].user)
       ELSE UNCHANGED <<sess, sessExp, issued>>
    /\ UNCHANGED <<voteUser, vote, spoof, ambiguous, matched, gap>>

\* The sidecar throws: 409 face_disabled and nothing else.
SidecarFails(h) ==
    /\ inflight[h] # None
    /\ inflight' = [inflight EXCEPT ![h] = None]
    /\ UNCHANGED <<now, roster, sess, sessExp, flowVars, histVars>>

-----------------------------------------------------------------------------
(* Environment.                                                             *)

\* A passkey completes the session (module PasskeyCheckin).
PasskeyIssues(s) ==
    /\ Alive(s)
    /\ Transition(s, "issued")
    /\ overlap' = [overlap EXCEPT ![s] =
          @ \/ sess[s] \in Terminal \/ \E g \in Handlers : inflight[g] = s]
    /\ UNCHANGED <<now, roster, flowVars, inflight, issued, matched, moved, gap, weak>>

\* A template is activated, revoked, or passes its consent period.
RosterChanges(u) ==
    /\ roster' \in {roster \cup {u}, roster \ {u}} \ {roster}
    /\ UNCHANGED <<now, sess, sessExp, flowVars, inflight, histVars>>

Tick ==
    /\ now < MaxTime
    /\ now' = now + 1
    /\ UNCHANGED <<roster, sess, sessExp, flowVars, inflight, histVars>>

Next ==
    \/ \E s \in Sids : CreateSession(s) \/ PasskeyIssues(s)
    \/ \E h \in Handlers, s \in Sids : FrameStart(h, s)
    \/ \E h \in Handlers, s \in Sids, f \in Frames :
          \/ NoFace(h, s, f) \/ Spoof(h, s, f) \/ NoMatch(h, s, f)
          \/ Ambiguous(h, s, f) \/ Vote(h, s, f)
          \/ ChallengeFailed(h, s, f) \/ ChallengeFrame(h, s, f)
    \/ \E h \in Handlers : SidecarFails(h)
    \/ \E u \in Users : RosterChanges(u)
    \/ Tick

Spec == Init /\ [][Next]_vars

-----------------------------------------------------------------------------
(* Properties.                                                              *)

\* An attestation rests on enough clear matches of that very person in that
\* session and, where the challenge is required, on the gesture being made by
\* the person the roster recognises, whatever frames overlap.
IssueHasEvidence ==
    \A a \in issued :
        /\ matched[a.sid][a.sub] = VotesNeeded
        /\ ChallengeRequired => a.sub \in moved[a.sid]

\* With the challenge required, a session never attests two people, even when
\* late frames reopen it after it was issued.
OneSubjectPerSession ==
    ChallengeRequired =>
        \A a, b \in issued : a.sid = b.sid => a.sub = b.sub

\* A person dropped from the roster between the votes and the last frame of
\* the challenge is not attested any more.
RevokedIsNotIssued ==
    [][\A a \in issued' \ issued : a.sub \in roster]_vars

\* As long as the frames of a session do not overlap and nobody else completes
\* it, "issued" and "fallback" are final (face-verification.md 4).
SequentialTerminalIsFinal ==
    [][\A s \in Sids : ~ overlap'[s] /\ sess[s] \in Terminal => sess'[s] = sess[s]]_vars

\* Two sentences about the match an attestation rests on: "3 consecutive frames
\* of the same user" come before the challenge (face-verification.md:36), and
\* "the match of the same user is kept up during the challenge"
\* (face-verification.md:53), so that no frame below the thresholds counts
\* towards it.  At the least, one of them is true of every attestation.
MatchIsHeld == \A a \in issued : ~ gap[a.sid] \/ ~ weak[a.sid]
=============================================================================
