---------------------------- MODULE FaceFlowProofs ----------------------------
(***************************************************************************)
(* Proofs about FaceFlow, for any people, sessions, frames in flight,      *)
(* numbers of votes and lifetimes that satisfy FaceAssumption.             *)
(***************************************************************************)
EXTENDS FaceFlow, TLAPS

\* A frame with a clear or ambiguous face is nearest to a person of the roster.
LEMMA FrameFacts ==
    ASSUME NEW f \in Frames, SeenNow(f)
    PROVE  /\ f.level \in {"ambiguous", "clear"} => f.top \in Users
           /\ f.kind = "face" /\ f.top \in Users => f.top \in roster
           /\ f.top \in Users \cup {None}
  BY FaceAssumption DEF Frames, SeenNow

LEMMA UptoType ==
    ASSUME NEW max \in Nat, NEW n \in Nat
    PROVE  Upto(n, max) \in 0..max /\ (Upto(n, max) = n \/ Upto(n, max) = max)
  BY DEF Upto

LEMMA TypeInit == Init => TypeOK
  BY FaceAssumption DEF Init, TypeOK, SessStates, Challenge

\* Where the session goes after a frame, if it is alive.
LEMMA TransitionType ==
    ASSUME TypeOK, NEW s \in Sids, NEW st \in SessStates, Transition(s, st)
    PROVE  /\ sess' \in [Sids -> SessStates] /\ sessExp' \in [Sids -> Nat]
           /\ \A t \in Sids \ {s} : sess'[t] = sess[t]
<1>1. CASE Alive(s)
  <2>1. /\ sess' = [sess EXCEPT ![s] = st]
        /\ sessExp' = [sessExp EXCEPT ![s] = now + SessionTTL]
    BY <1>1 DEF Transition
  <2>2. now + SessionTTL \in Nat
    BY FaceAssumption DEF TypeOK
  <2> QED
    BY <2>1, <2>2 DEF TypeOK
<1>2. CASE ~ Alive(s)
  BY <1>2 DEF Transition, TypeOK
<1> QED
  BY <1>1, <1>2

LEMMA TypeNext == TypeOK /\ [Next]_vars => TypeOK'
<1> SUFFICES ASSUME TypeOK, [Next]_vars PROVE TypeOK'
  OBVIOUS
<1> USE FaceAssumption DEF flowVars, histVars
<1>1. ASSUME NEW s \in Sids, CreateSession(s) PROVE TypeOK'
  BY <1>1 DEF CreateSession, TypeOK, SessStates
<1>2. ASSUME NEW s \in Sids, PasskeyIssues(s) PROVE TypeOK'
  <2>1. overlap' \in [Sids -> BOOLEAN]
    BY <1>2 DEF PasskeyIssues, TypeOK
  <2> QED
    BY <1>2, <2>1, TransitionType DEF PasskeyIssues, TypeOK, SessStates
<1>3. ASSUME NEW h \in Handlers, NEW s \in Sids, FrameStart(h, s) PROVE TypeOK'
  <2>1. overlap' \in [Sids -> BOOLEAN]
    BY <1>3 DEF FrameStart, TypeOK
  <2> QED
    BY <1>3, <2>1 DEF FrameStart, TypeOK
<1>4. ASSUME NEW h \in Handlers, NEW s \in Sids, NEW f, Analysed(h, s, f)
      PROVE  inflight' \in [Handlers -> Sids \cup {None}]
  BY <1>4 DEF Analysed, TypeOK
<1>5. ASSUME NEW s \in Sids, NoVote(s) PROVE gap' \in [Sids -> BOOLEAN]
  BY <1>5 DEF NoVote, TypeOK
<1>6. ASSUME NEW h \in Handlers, NEW s \in Sids, NEW f \in Frames,
             NoFace(h, s, f) \/ NoMatch(h, s, f)
      PROVE  TypeOK'
  BY <1>4, <1>5, <1>6, TransitionType DEF NoFace, NoMatch, NoVote, Analysed, TypeOK, SessStates
<1>7. ASSUME NEW h \in Handlers, NEW s \in Sids, NEW f \in Frames, Spoof(h, s, f) PROVE TypeOK'
  <2>1. spoof' \in [Sids -> 0..SpoofMax]
    BY <1>7, UptoType DEF Spoof, TypeOK
  <2> QED
    BY <1>4, <1>5, <1>7, <2>1, TransitionType
       DEF Spoof, AfterSpoof, NoVote, Analysed, TypeOK, SessStates
<1>8. ASSUME NEW h \in Handlers, NEW s \in Sids, NEW f \in Frames, Ambiguous(h, s, f)
      PROVE  TypeOK'
  <2>1. ambiguous' \in [Sids -> 0..AmbiguousMax]
    BY <1>8, UptoType DEF Ambiguous, TypeOK
  <2> QED
    BY <1>4, <1>5, <1>8, <2>1, TransitionType DEF Ambiguous, NoVote, Analysed, TypeOK, SessStates
<1>9. ASSUME NEW s \in Sids, NEW u \in Users, Issue(s, u)
      PROVE  /\ sess' \in [Sids -> SessStates] /\ sessExp' \in [Sids -> Nat]
             /\ issued' \subseteq [sid : Sids, sub : Users]
  BY <1>9, TransitionType DEF Issue, TypeOK, SessStates
<1>10. ASSUME NEW h \in Handlers, NEW s \in Sids, NEW f \in Frames, Vote(h, s, f) PROVE TypeOK'
  <2>1. f.top \in Users /\ inflight' \in [Handlers -> Sids \cup {None}]
    BY <1>4, <1>10, FrameFacts DEF Vote, Analysed
  <2>2. voteUser' \in [Sids -> Users \cup {None}] /\ gap' \in [Sids -> BOOLEAN]
    BY <1>10, <2>1 DEF Vote, TypeOK
  <2>3. vote' \in [Sids -> 0..VotesNeeded]
    <3>1. VoteCount(s, f.top) \in 0..VotesNeeded
      <4>1. vote[s] + 1 \in Nat
        BY DEF TypeOK
      <4>2. Upto(vote[s] + 1, VotesNeeded) \in 0..VotesNeeded
        BY <4>1, UptoType
      <4> QED
        BY <4>2 DEF VoteCount
    <3> QED
      BY <1>10, <3>1 DEF Vote, TypeOK
  <2>4. matched' \in [Sids -> [Users -> 0..VotesNeeded]]
    <3>1. Upto(matched[s][f.top] + 1, VotesNeeded) \in 0..VotesNeeded
      <4>1. matched[s][f.top] \in 0..VotesNeeded
        BY <2>1 DEF TypeOK
      <4> QED
        BY <4>1, UptoType
    <3> QED
      BY <1>10, <2>1, <3>1 DEF Vote, TypeOK
  <2>5. /\ chal' \in [Sids -> Challenge \cup {None}]
        /\ sess' \in [Sids -> SessStates] /\ sessExp' \in [Sids -> Nat]
        /\ issued' \subseteq [sid : Sids, sub : Users]
    <3>1. [user |-> f.top, deadline |-> now + ChallengeTTL, moved |-> FALSE] \in Challenge
      BY <2>1 DEF Challenge, TypeOK
    <3>2. CASE vote'[s] < VotesNeeded
      BY <1>10, <3>2, TransitionType DEF Vote, TypeOK, SessStates
    <3>3. CASE ~ (vote'[s] < VotesNeeded) /\ ChallengeRequired
      <4>1. Transition(s, "challenging") /\ UNCHANGED issued
            /\ chal' = [chal EXCEPT ![s] =
                  [user |-> f.top, deadline |-> now + ChallengeTTL, moved |-> FALSE]]
        BY <1>10, <3>3 DEF Vote
      <4> QED
        BY <3>1, <4>1, TransitionType DEF TypeOK, SessStates
    <3>4. CASE ~ (vote'[s] < VotesNeeded) /\ ~ ChallengeRequired
      BY <1>9, <1>10, <2>1, <3>4 DEF Vote, TypeOK
    <3> QED
      BY <3>2, <3>3, <3>4
  <2> QED
    BY <1>10, <2>1, <2>2, <2>3, <2>4, <2>5 DEF Vote, Analysed, TypeOK
<1>11. ASSUME NEW h \in Handlers, NEW s \in Sids, NEW f \in Frames, ChallengeFailed(h, s, f)
       PROVE  TypeOK'
  BY <1>4, <1>11, TransitionType DEF ChallengeFailed, Analysed, TypeOK, SessStates
<1>12. ASSUME NEW h \in Handlers, NEW s \in Sids, NEW f \in Frames, ChallengeFrame(h, s, f)
       PROVE  TypeOK'
  <2>1. chal[s] \in Challenge /\ f.top \in Users
    BY <1>12 DEF ChallengeFrame, InChallenge, ChallengeHolds, TypeOK, Challenge
  <2>2. chal' \in [Sids -> Challenge \cup {None}]
    <3>1. [chal[s] EXCEPT !.moved = @ \/ f.gesture = "move"] \in Challenge
      BY <2>1 DEF Challenge
    <3>2. chal' = [chal EXCEPT ![s] = [chal[s] EXCEPT !.moved = @ \/ f.gesture = "move"]]
      BY <1>12 DEF ChallengeFrame
    <3> QED
      BY <3>1, <3>2 DEF TypeOK
  <2>3. moved' \in [Sids -> SUBSET Users] /\ weak' \in [Sids -> BOOLEAN]
    BY <1>12, <2>1 DEF ChallengeFrame, TypeOK
  <2>4. /\ sess' \in [Sids -> SessStates] /\ sessExp' \in [Sids -> Nat]
        /\ issued' \subseteq [sid : Sids, sub : Users]
    BY <1>9, <1>12, <2>1 DEF ChallengeFrame, TypeOK, Challenge
  <2> QED
    BY <1>4, <1>12, <2>2, <2>3, <2>4 DEF ChallengeFrame, Analysed, TypeOK
<1>13. ASSUME NEW h \in Handlers, SidecarFails(h) PROVE TypeOK'
  BY <1>13 DEF SidecarFails, TypeOK
<1>14. ASSUME NEW u \in Users, RosterChanges(u) PROVE TypeOK'
  BY <1>14 DEF RosterChanges, TypeOK
<1>15. CASE Tick
  BY <1>15 DEF Tick, TypeOK
<1>16. CASE UNCHANGED vars
  BY <1>16 DEF vars, TypeOK
<1> QED
  BY <1>1, <1>2, <1>3, <1>6, <1>7, <1>8, <1>10, <1>11, <1>12, <1>13, <1>14, <1>15, <1>16 DEF Next

\* The types of FaceFlow's variables (FaceFlow!TypeOK).
THEOREM TypeCorrect == Spec => []TypeOK
  BY TypeInit, TypeNext, PTL DEF Spec

-----------------------------------------------------------------------------
(* What an attestation rests on.                                            *)

\* The votes of a session were clear matches of the person voted for, a
\* challenge was reached by enough of them, and its gesture was seen.
VotesAreMatches ==
    \A s \in Sids : voteUser[s] # None => matched[s][voteUser[s]] >= vote[s]

ChallengeIsEarned ==
    \A s \in Sids : chal[s] # None =>
        /\ matched[s][chal[s].user] = VotesNeeded
        /\ chal[s].moved => chal[s].user \in moved[s]

\* A session that attested somebody has, where the challenge is required, the
\* challenge of that person.
IssuedWasChallenged ==
    ChallengeRequired =>
        \A a \in issued : chal[a.sid] # None /\ chal[a.sid].user = a.sub

Evidence ==
    /\ TypeOK
    /\ VotesAreMatches /\ ChallengeIsEarned
    /\ IssueHasEvidence /\ IssuedWasChallenged

LEMMA EvidenceInit == Init => Evidence
<1> SUFFICES ASSUME Init PROVE Evidence
  OBVIOUS
<1> QED
  BY TypeInit DEF Init, Evidence, VotesAreMatches, ChallengeIsEarned,
     IssueHasEvidence, IssuedWasChallenged

\* Steps that touch none of the evidence keep it.
LEMMA EvidenceFrame ==
    ASSUME Evidence, [Next]_vars,
           UNCHANGED <<voteUser, vote, chal, issued, matched, moved>>
    PROVE  Evidence'
  BY TypeNext DEF Evidence, VotesAreMatches, ChallengeIsEarned,
     IssueHasEvidence, IssuedWasChallenged

\* A clear match: the vote, the challenge it may start, the attestation it may
\* bring where no challenge is required.
LEMMA EvidenceVote ==
    ASSUME Evidence, [Next]_vars,
           NEW h \in Handlers, NEW s \in Sids, NEW f \in Frames, Vote(h, s, f)
    PROVE  Evidence'
<1> DEFINE u == f.top
           m == Upto(matched[s][u] + 1, VotesNeeded)
<1>t. TypeOK /\ TypeOK'
  BY TypeNext DEF Evidence
<1>1. u \in Users /\ chal[s] = None
  BY FrameFacts DEF Vote, Analysed, InChallenge
<1>2. /\ matched' = [matched EXCEPT ![s][u] = m]
      /\ voteUser' = [voteUser EXCEPT ![s] = u]
      /\ vote' = [vote EXCEPT ![s] = VoteCount(s, u)]
      /\ UNCHANGED moved
  BY DEF Vote
<1>3. /\ matched[s][u] \in 0..VotesNeeded /\ vote[s] \in 0..VotesNeeded
      /\ VotesNeeded \in Nat \ {0}
  BY <1>t, <1>1, FaceAssumption DEF TypeOK
<1>4. m \in 0..VotesNeeded /\ m >= matched[s][u] /\ m >= 1
  BY <1>3 DEF Upto
<1>5. m >= VoteCount(s, u)
  <2>1. CASE voteUser[s] = u
    <3>1. u # None
      BY <1>1, FaceAssumption
    <3>2. matched[s][u] >= vote[s]
      BY <2>1, <3>1 DEF Evidence, VotesAreMatches
    <3> QED
      BY <1>3, <2>1, <3>2 DEF VoteCount, Upto
  <2>2. CASE voteUser[s] # u
    BY <1>4, <2>2 DEF VoteCount
  <2> QED
    BY <2>1, <2>2
<1>6. /\ matched'[s][u] = m /\ vote'[s] = VoteCount(s, u) /\ voteUser'[s] = u
      /\ \A t \in Sids, v \in Users :
            (t # s \/ v # u) => matched'[t][v] = matched[t][v]
      /\ \A t \in Sids \ {s} : vote'[t] = vote[t] /\ voteUser'[t] = voteUser[t]
  BY <1>t, <1>1, <1>2 DEF TypeOK
<1>7. VotesAreMatches'
  <2> SUFFICES ASSUME NEW t \in Sids, voteUser'[t] # None
               PROVE  matched'[t][voteUser'[t]] >= vote'[t]
    BY DEF VotesAreMatches
  <2>1. CASE t = s
    BY <1>5, <1>6, <2>1
  <2>2. CASE t # s
    <3>1. voteUser'[t] = voteUser[t] /\ vote'[t] = vote[t] /\ voteUser[t] \in Users
      BY <1>t, <1>6, <2>2 DEF TypeOK
    <3>2. matched'[t][voteUser[t]] = matched[t][voteUser[t]]
      BY <1>6, <2>2, <3>1
    <3>3. matched[t][voteUser[t]] >= vote[t]
      BY <3>1 DEF Evidence, VotesAreMatches
    <3> QED
      BY <3>1, <3>2, <3>3
  <2> QED
    BY <2>1, <2>2
<1>8. \A t \in Sids, v \in Users :
          matched[t][v] = VotesNeeded => matched'[t][v] = VotesNeeded
  BY <1>3, <1>4, <1>6
<1>9. \A t \in Sids \ {s} : chal'[t] = chal[t]
  BY <1>t DEF Vote, TypeOK
<1>10. CASE vote'[s] < VotesNeeded
  <2>1. UNCHANGED <<chal, issued>>
    BY <1>10 DEF Vote
  <2>2. ChallengeIsEarned'
    BY <1>t, <1>2, <1>8, <2>1 DEF Evidence, ChallengeIsEarned, TypeOK, Challenge
  <2>3. IssueHasEvidence' /\ IssuedWasChallenged'
    BY <1>t, <1>2, <1>8, <2>1 DEF Evidence, IssueHasEvidence, IssuedWasChallenged, TypeOK
  <2> QED
    BY <1>t, <1>7, <2>2, <2>3 DEF Evidence
<1>11. CASE ~ (vote'[s] < VotesNeeded)
  <2>1. m = VotesNeeded
    <3>1. VoteCount(s, u) \in 0..VotesNeeded
      BY <1>3 DEF VoteCount, Upto
    <3> QED
      BY <1>3, <1>4, <1>5, <1>6, <1>11, <3>1
  <2>2. CASE ChallengeRequired
    <3>1. /\ chal' = [chal EXCEPT ![s] =
                [user |-> u, deadline |-> now + ChallengeTTL, moved |-> FALSE]]
          /\ UNCHANGED issued
      BY <1>11, <2>2 DEF Vote
    <3>2. chal'[s] = [user |-> u, deadline |-> now + ChallengeTTL, moved |-> FALSE]
      BY <1>t, <3>1 DEF TypeOK
    <3>3. ChallengeIsEarned'
      <4> SUFFICES ASSUME NEW t \in Sids, chal'[t] # None
                   PROVE  /\ matched'[t][chal'[t].user] = VotesNeeded
                          /\ chal'[t].moved => chal'[t].user \in moved'[t]
        BY DEF ChallengeIsEarned
      <4>1. CASE t = s
        BY <1>6, <2>1, <3>2, <4>1
      <4>2. CASE t # s
        BY <1>t, <1>2, <1>8, <1>9, <4>2 DEF Evidence, ChallengeIsEarned, TypeOK, Challenge
      <4> QED
        BY <4>1, <4>2
    <3>4. IssueHasEvidence'
      BY <1>t, <1>2, <1>8, <3>1 DEF Evidence, IssueHasEvidence, TypeOK
    <3>5. IssuedWasChallenged'
      BY <1>t, <1>1, <1>9, <3>1 DEF Evidence, IssuedWasChallenged, TypeOK
    <3> QED
      BY <1>t, <1>7, <3>3, <3>4, <3>5 DEF Evidence
  <2>3. CASE ~ ChallengeRequired
    <3>1. UNCHANGED chal /\ issued' = issued \cup {[sid |-> s, sub |-> u]}
      BY <1>11, <2>3 DEF Vote, Issue
    <3>2. ChallengeIsEarned'
      BY <1>t, <1>2, <1>8, <3>1 DEF Evidence, ChallengeIsEarned, TypeOK, Challenge
    <3>3. IssueHasEvidence'
      BY <1>t, <1>2, <1>6, <1>8, <2>1, <2>3, <3>1 DEF Evidence, IssueHasEvidence, TypeOK
    <3> QED
      BY <1>t, <1>7, <2>3, <3>2, <3>3 DEF Evidence, IssuedWasChallenged
  <2> QED
    BY <2>2, <2>3
<1> QED
  BY <1>10, <1>11

\* A frame of the challenge: the gesture, and the attestation that ends it.
LEMMA EvidenceChallenge ==
    ASSUME Evidence, [Next]_vars,
           NEW h \in Handlers, NEW s \in Sids, NEW f \in Frames, ChallengeFrame(h, s, f)
    PROVE  Evidence'
<1> DEFINE c == chal[s]
<1>t. TypeOK /\ TypeOK'
  BY TypeNext DEF Evidence
<1>1. c \in Challenge /\ c # None /\ f.top = c.user
  BY <1>t DEF ChallengeFrame, InChallenge, ChallengeHolds, TypeOK
<1>2. UNCHANGED <<voteUser, vote, matched>>
  BY DEF ChallengeFrame
<1>3. chal' = [chal EXCEPT ![s] = [c EXCEPT !.moved = @ \/ f.gesture = "move"]]
  BY DEF ChallengeFrame
<1>4. /\ chal'[s].user = c.user
      /\ chal'[s].moved = (c.moved \/ f.gesture = "move")
      /\ \A t \in Sids \ {s} : chal'[t] = chal[t]
  BY <1>t, <1>1, <1>3 DEF TypeOK, Challenge
<1>5. /\ \A t \in Sids : moved[t] \subseteq moved'[t]
      /\ f.gesture = "move" => c.user \in moved'[s]
  BY <1>t, <1>1 DEF ChallengeFrame, TypeOK
<1>6. c.moved => c.user \in moved[s]
  BY <1>1 DEF Evidence, ChallengeIsEarned
<1>7. matched[s][c.user] = VotesNeeded
  BY <1>1 DEF Evidence, ChallengeIsEarned
<1>8. VotesAreMatches'
  BY <1>2 DEF Evidence, VotesAreMatches
<1>9. ChallengeIsEarned'
  <2> SUFFICES ASSUME NEW t \in Sids, chal'[t] # None
               PROVE  /\ matched'[t][chal'[t].user] = VotesNeeded
                      /\ chal'[t].moved => chal'[t].user \in moved'[t]
    BY DEF ChallengeIsEarned
  <2>1. CASE t = s
    BY <1>2, <1>4, <1>5, <1>6, <1>7, <2>1
  <2>2. CASE t # s
    BY <1>2, <1>4, <1>5, <2>2 DEF Evidence, ChallengeIsEarned
  <2> QED
    BY <2>1, <2>2
<1>10. issued' \subseteq issued \cup {[sid |-> s, sub |-> c.user]}
  BY DEF ChallengeFrame, Issue
<1>11. [sid |-> s, sub |-> c.user] \in issued' \ issued => c.user \in moved[s]
  BY <1>6 DEF ChallengeFrame, Complete
<1>12. IssueHasEvidence'
  <2> SUFFICES ASSUME NEW a \in issued'
               PROVE  /\ matched'[a.sid][a.sub] = VotesNeeded
                      /\ ChallengeRequired => a.sub \in moved'[a.sid]
    BY DEF IssueHasEvidence
  <2>1. CASE a \in issued
    BY <1>t, <1>2, <1>5, <2>1 DEF Evidence, IssueHasEvidence, TypeOK
  <2>2. CASE a \notin issued
    BY <1>2, <1>5, <1>7, <1>10, <1>11, <2>2
  <2> QED
    BY <2>1, <2>2
<1>13. chal'[s] # None
  <2>1. [c EXCEPT !.moved = @ \/ f.gesture = "move"] \in Challenge
    BY <1>1 DEF Challenge
  <2>2. None \notin Challenge
    BY FaceAssumption
  <2>3. chal'[s] = [c EXCEPT !.moved = @ \/ f.gesture = "move"]
    BY <1>t, <1>3 DEF TypeOK
  <2> QED
    BY <2>1, <2>2, <2>3
<1>14. IssuedWasChallenged'
  <2> SUFFICES ASSUME ChallengeRequired, NEW a \in issued'
               PROVE  chal'[a.sid] # None /\ chal'[a.sid].user = a.sub
    BY DEF IssuedWasChallenged
  <2>1. CASE a \in issued
    <3>1. a.sid \in Sids /\ chal[a.sid] # None /\ chal[a.sid].user = a.sub
      BY <1>t, <2>1 DEF Evidence, IssuedWasChallenged, TypeOK
    <3> QED
      BY <1>4, <1>13, <3>1
  <2>2. CASE a \notin issued
    BY <1>4, <1>10, <1>13, <2>2
  <2> QED
    BY <2>1, <2>2
<1> QED
  BY <1>t, <1>8, <1>9, <1>12, <1>14 DEF Evidence

LEMMA EvidenceNext == Evidence /\ [Next]_vars => Evidence'
<1> SUFFICES ASSUME Evidence, [Next]_vars PROVE Evidence'
  OBVIOUS
<1> USE DEF flowVars, histVars
<1>1. ASSUME NEW s \in Sids, CreateSession(s) \/ PasskeyIssues(s) PROVE Evidence'
  BY <1>1, EvidenceFrame DEF CreateSession, PasskeyIssues
<1>2. ASSUME NEW h \in Handlers, NEW s \in Sids, FrameStart(h, s) PROVE Evidence'
  BY <1>2, EvidenceFrame DEF FrameStart
<1>3. ASSUME NEW h \in Handlers, NEW s \in Sids, NEW f \in Frames,
             \/ NoFace(h, s, f) \/ Spoof(h, s, f) \/ NoMatch(h, s, f)
             \/ Ambiguous(h, s, f) \/ ChallengeFailed(h, s, f)
      PROVE  Evidence'
  BY <1>3, EvidenceFrame DEF NoFace, Spoof, NoMatch, Ambiguous, ChallengeFailed, NoVote
<1>4. ASSUME NEW h \in Handlers, SidecarFails(h) PROVE Evidence'
  BY <1>4, EvidenceFrame DEF SidecarFails
<1>5. ASSUME NEW u \in Users, RosterChanges(u) PROVE Evidence'
  BY <1>5, EvidenceFrame DEF RosterChanges
<1>6. CASE Tick
  BY <1>6, EvidenceFrame DEF Tick
<1>7. CASE UNCHANGED vars
  BY <1>7, EvidenceFrame DEF vars
<1> QED
  BY <1>1, <1>2, <1>3, <1>4, <1>5, <1>6, <1>7, EvidenceVote, EvidenceChallenge DEF Next

LEMMA EvidenceHolds == Spec => []Evidence
  BY EvidenceInit, EvidenceNext, PTL DEF Spec

\* An attestation rests on enough clear matches of that person in that session
\* and, where the challenge is required, on the gesture of that person, however
\* the frames overlap (FaceFlow!IssueHasEvidence).
THEOREM AttestationsHaveEvidence == Spec => []IssueHasEvidence
  BY EvidenceHolds, PTL DEF Evidence

\* With the challenge required, a session never attests two people
\* (FaceFlow!OneSubjectPerSession).
THEOREM SessionsAttestOnePerson == Spec => []OneSubjectPerSession
<1>1. Evidence => OneSubjectPerSession
  BY DEF Evidence, IssuedWasChallenged, OneSubjectPerSession
<1> QED
  BY <1>1, EvidenceHolds, PTL

-----------------------------------------------------------------------------
(* What a step may never do.                                                *)

\* The person attested by a step is on the roster at that very step, whatever
\* has been revoked since the votes (FaceFlow!RevokedIsNotIssued).
THEOREM AttestedIsOnTheRoster == Spec => RevokedIsNotIssued
<1>1. ASSUME TypeOK, Next PROVE \A a \in issued' \ issued : a.sub \in roster
  <2> USE DEF flowVars, histVars
  <2>1. ASSUME NEW h \in Handlers, NEW s \in Sids, NEW f \in Frames, Vote(h, s, f)
        PROVE  \A a \in issued' \ issued : a.sub \in roster
    <3>1. f.top \in roster
      BY <2>1, FrameFacts DEF Vote, Analysed
    <3>2. issued' \subseteq issued \cup {[sid |-> s, sub |-> f.top]}
      BY <2>1 DEF Vote, Issue
    <3> QED
      BY <3>1, <3>2
  <2>2. ASSUME NEW h \in Handlers, NEW s \in Sids, NEW f \in Frames, ChallengeFrame(h, s, f)
        PROVE  \A a \in issued' \ issued : a.sub \in roster
    <3>1. chal[s].user \in Users
      BY <1>1, <2>2 DEF ChallengeFrame, InChallenge, TypeOK, Challenge
    <3>2. chal[s].user \in roster
      BY <2>2, <3>1, FrameFacts DEF ChallengeFrame, ChallengeHolds, Analysed
    <3>3. issued' \subseteq issued \cup {[sid |-> s, sub |-> chal[s].user]}
      BY <2>2 DEF ChallengeFrame, Issue
    <3> QED
      BY <3>2, <3>3
  <2>3. ASSUME NEW h \in Handlers, NEW s \in Sids, NEW f \in Frames,
               \/ NoFace(h, s, f) \/ Spoof(h, s, f) \/ NoMatch(h, s, f)
               \/ Ambiguous(h, s, f) \/ ChallengeFailed(h, s, f)
        PROVE  issued' = issued
    BY <2>3 DEF NoFace, Spoof, NoMatch, Ambiguous, ChallengeFailed, NoVote
  <2>4. ASSUME \/ \E s \in Sids : CreateSession(s) \/ PasskeyIssues(s)
               \/ \E h \in Handlers, s \in Sids : FrameStart(h, s)
               \/ \E h \in Handlers : SidecarFails(h)
               \/ \E u \in Users : RosterChanges(u)
               \/ Tick
        PROVE  issued' = issued
    BY <2>4 DEF CreateSession, PasskeyIssues, FrameStart, SidecarFails, RosterChanges, Tick
  <2> QED
    BY <1>1, <2>1, <2>2, <2>3, <2>4 DEF Next
<1>2. TypeOK /\ [Next]_vars => [\A a \in issued' \ issued : a.sub \in roster]_vars
  BY <1>1
<1> QED
  BY <1>2, TypeCorrect, PTL DEF Spec, RevokedIsNotIssued

\* In a session whose frames have not overlapped at most one is being analysed,
\* and none once the session is issued or sent to the fallback.
Sequential ==
    \A s \in Sids : ~ overlap[s] =>
        /\ \A g, h \in Handlers : inflight[g] = s /\ inflight[h] = s => g = h
        /\ sess[s] \in Terminal => \A h \in Handlers : inflight[h] # s

SeqInv == TypeOK /\ Sequential

LEMMA SeqInit == Init => SeqInv
<1> SUFFICES ASSUME Init PROVE SeqInv
  OBVIOUS
<1> QED
  BY TypeInit, FaceAssumption DEF Init, SeqInv, Sequential, Terminal

\* What the end of a frame leaves: its session has no other frame.
LEMMA FrameEnds ==
    ASSUME SeqInv, NEW h \in Handlers, NEW s \in Sids, NEW f \in Frames,
           \/ NoFace(h, s, f) \/ Spoof(h, s, f) \/ NoMatch(h, s, f)
           \/ Ambiguous(h, s, f) \/ Vote(h, s, f)
           \/ ChallengeFailed(h, s, f) \/ ChallengeFrame(h, s, f)
    PROVE  /\ inflight[h] = s /\ inflight' = [inflight EXCEPT ![h] = None]
           /\ UNCHANGED overlap
           /\ \A t \in Sids \ {s} : sess'[t] = sess[t]
<1>1. /\ Analysed(h, s, f)
      /\ sess' = sess \/ \E st \in SessStates : Transition(s, st)
  BY DEF NoFace, Spoof, NoMatch, Ambiguous, Vote, ChallengeFailed, ChallengeFrame, Issue,
         AfterSpoof, SessStates
<1> QED
  BY <1>1, TransitionType DEF Analysed, SeqInv

LEMMA SeqNext == SeqInv /\ [Next]_vars => SeqInv'
<1> SUFFICES ASSUME SeqInv, [Next]_vars PROVE SeqInv'
  OBVIOUS
<1> USE DEF flowVars, histVars
<1>t. TypeOK /\ TypeOK'
  BY TypeNext DEF SeqInv
<1>1. ASSUME NEW s \in Sids, CreateSession(s) PROVE SeqInv'
  BY <1>t, <1>1 DEF CreateSession, SeqInv, Sequential, Terminal, TypeOK
<1>2. ASSUME NEW s \in Sids, PasskeyIssues(s) PROVE SeqInv'
  <2>1. \A t \in Sids \ {s} : sess'[t] = sess[t] /\ overlap'[t] = overlap[t]
    BY <1>t, <1>2, TransitionType DEF PasskeyIssues, TypeOK, SessStates
  <2>2. /\ UNCHANGED inflight
        /\ ~ overlap'[s] => ~ overlap[s] /\ \A g \in Handlers : inflight[g] # s
    BY <1>t, <1>2 DEF PasskeyIssues, TypeOK
  <2> QED
    BY <1>t, <2>1, <2>2 DEF SeqInv, Sequential
<1>3. ASSUME NEW h \in Handlers, NEW s \in Sids, FrameStart(h, s) PROVE SeqInv'
  <2>1. /\ UNCHANGED sess /\ sess[s] \notin Terminal
        /\ inflight' = [inflight EXCEPT ![h] = s]
        /\ ~ overlap'[s] => ~ overlap[s] /\ \A g \in Handlers : inflight[g] # s
        /\ \A t \in Sids \ {s} : overlap'[t] = overlap[t]
    BY <1>t, <1>3 DEF FrameStart, AcceptsFrame, TypeOK
  <2> QED
    BY <1>t, <2>1 DEF SeqInv, Sequential, TypeOK
<1>4. ASSUME NEW h \in Handlers, NEW s \in Sids, NEW f \in Frames,
             \/ NoFace(h, s, f) \/ Spoof(h, s, f) \/ NoMatch(h, s, f)
             \/ Ambiguous(h, s, f) \/ Vote(h, s, f)
             \/ ChallengeFailed(h, s, f) \/ ChallengeFrame(h, s, f)
      PROVE  SeqInv'
  <2>1. /\ inflight[h] = s /\ inflight' = [inflight EXCEPT ![h] = None]
        /\ UNCHANGED overlap
        /\ \A t \in Sids \ {s} : sess'[t] = sess[t]
    BY <1>4, FrameEnds
  <2>2. /\ inflight'[h] = None
        /\ \A g \in Handlers \ {h} : inflight'[g] = inflight[g]
    BY <1>t, <2>1 DEF TypeOK
  <2>3. None \notin Sids
    BY FaceAssumption
  <2> QED
    BY <1>t, <2>1, <2>2, <2>3 DEF SeqInv, Sequential
<1>5. ASSUME NEW h \in Handlers, SidecarFails(h) PROVE SeqInv'
  BY <1>t, <1>5, FaceAssumption DEF SidecarFails, SeqInv, Sequential, TypeOK
<1>6. ASSUME NEW u \in Users, RosterChanges(u) PROVE SeqInv'
  BY <1>t, <1>6 DEF RosterChanges, SeqInv, Sequential
<1>7. CASE Tick
  BY <1>t, <1>7 DEF Tick, SeqInv, Sequential
<1>8. CASE UNCHANGED vars
  BY <1>t, <1>8 DEF vars, SeqInv, Sequential
<1> QED
  BY <1>1, <1>2, <1>3, <1>4, <1>5, <1>6, <1>7, <1>8 DEF Next

\* While the frames of a session do not overlap and nobody else completes it,
\* its end is final (FaceFlow!SequentialTerminalIsFinal).
THEOREM SequentialSessionsEnd == Spec => SequentialTerminalIsFinal
<1>1. ASSUME SeqInv, Next, NEW s \in Sids, ~ overlap'[s], sess[s] \in Terminal
      PROVE  sess'[s] = sess[s]
  <2> USE DEF flowVars, histVars
  <2>t. TypeOK
    BY <1>1 DEF SeqInv
  <2>1. ASSUME NEW t \in Sids, CreateSession(t) PROVE sess'[s] = sess[s]
    BY <1>1, <2>t, <2>1 DEF CreateSession, Terminal, TypeOK
  <2>2. ASSUME NEW t \in Sids, PasskeyIssues(t) PROVE sess'[s] = sess[s]
    <3>1. t # s
      BY <1>1, <2>t, <2>2 DEF PasskeyIssues, TypeOK
    <3> QED
      BY <2>t, <2>2, <3>1, TransitionType DEF PasskeyIssues, SessStates
  <2>3. ASSUME NEW h \in Handlers, NEW t \in Sids, NEW f \in Frames,
               \/ NoFace(h, t, f) \/ Spoof(h, t, f) \/ NoMatch(h, t, f)
               \/ Ambiguous(h, t, f) \/ Vote(h, t, f)
               \/ ChallengeFailed(h, t, f) \/ ChallengeFrame(h, t, f)
        PROVE  sess'[s] = sess[s]
    <3>1. /\ inflight[h] = t /\ UNCHANGED overlap
          /\ \A v \in Sids \ {t} : sess'[v] = sess[v]
      BY <1>1, <2>3, FrameEnds
    <3>2. t # s
      BY <1>1, <3>1 DEF SeqInv, Sequential
    <3> QED
      BY <3>1, <3>2
  <2>4. ASSUME \/ \E h \in Handlers, t \in Sids : FrameStart(h, t)
               \/ \E h \in Handlers : SidecarFails(h)
               \/ \E u \in Users : RosterChanges(u)
               \/ Tick
        PROVE  sess'[s] = sess[s]
    BY <2>4 DEF FrameStart, SidecarFails, RosterChanges, Tick
  <2> QED
    BY <1>1, <2>1, <2>2, <2>3, <2>4 DEF Next
<1>2. SeqInv /\ [Next]_vars =>
        [\A s \in Sids : ~ overlap'[s] /\ sess[s] \in Terminal => sess'[s] = sess[s]]_vars
  BY <1>1
<1>3. Spec => []SeqInv
  BY SeqInit, SeqNext, PTL DEF Spec
<1> QED
  BY <1>2, <1>3, PTL DEF Spec, SequentialTerminalIsFinal
===============================================================================
