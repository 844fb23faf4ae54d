------------------------------ MODULE Services ------------------------------
(***************************************************************************)
(* The gateway's smaller services side by side: each is a module with its  *)
(* own state, and they share none of it.  What one does therefore neither  *)
(* enables nor disables another, and a property over the state of one      *)
(* holds of all of them together if it holds while the others stand still. *)
(* `part` names the service that moves in a behaviour; the check-in with a *)
(* password moves together with the profile client it calls.               *)
(***************************************************************************)
EXTENDS MobileCheckin, LanGates, ShortLived, CachedAnswers, Certificates,
        FaceStorage, MfaPanel, ReviewPanel, KioskPage, ProximityPanel, EnrollPanel

VARIABLE part

Parts == {"mobile", "gates", "venue", "automatic", "sessions", "addresses", "tokens",
          "certificates", "keys", "backups", "mfa_panel", "review_panel", "page",
          "proximity", "enroll_panel"}

vars == <<part, mobileAllVars, gateVars, shortVars, cacheVars, certVars,
          storageVars, mfaVars, reviewVars, pageVars, proxVars, enrolVars>>

ServicesInit ==
    /\ part \in Parts
    /\ VantanInit /\ MobileInit /\ GatesInit /\ ShortLivedInit
    /\ CachedAnswersInit /\ CertificatesInit
    /\ FaceStorageInit /\ (part # "keys" => made = 0)
    /\ MfaPanelInit /\ ReviewPanelInit /\ KioskPageInit
    /\ ProximityPanelInit /\ EnrollPanelInit

\* One part moves; its own variables are the only ones that change.
Mobile(A) ==
    /\ part = "mobile" /\ A
    /\ UNCHANGED <<gateVars, shortVars, cacheVars, certVars, storageVars, mfaVars, reviewVars, pageVars, proxVars, enrolVars>>
Page(A) ==
    /\ part = "page" /\ A
    /\ UNCHANGED <<mobileAllVars, gateVars, shortVars, cacheVars, certVars, storageVars, mfaVars, reviewVars, proxVars, enrolVars>>
Mfa(A) ==
    /\ part = "mfa_panel" /\ A
    /\ UNCHANGED <<mobileAllVars, gateVars, shortVars, cacheVars, certVars, storageVars, reviewVars, pageVars, proxVars, enrolVars>>
Cached(p, A) ==
    /\ part = p /\ A
    /\ UNCHANGED <<mobileAllVars, gateVars, shortVars, certVars, storageVars, mfaVars, reviewVars, pageVars, proxVars, enrolVars>>

ServicesNext ==
    /\ \/ Mobile(MobileNext) \/ Mfa(MfaPanelNext) \/ Page(KioskPageNext)
       \/ Cached("addresses", AddressesNext) \/ Cached("tokens", TokensNext)
       \/ /\ part = "gates" /\ GatesNext
          /\ UNCHANGED <<mobileAllVars, shortVars, cacheVars, certVars, storageVars, mfaVars, reviewVars, pageVars, proxVars, enrolVars>>
       \/ /\ \/ part = "venue" /\ VenueNext
             \/ part = "automatic" /\ AutomaticNext
             \/ part = "sessions" /\ SessionsNext
          /\ UNCHANGED <<mobileAllVars, gateVars, cacheVars, certVars, storageVars, mfaVars, reviewVars, pageVars, proxVars, enrolVars>>
       \/ /\ part = "certificates" /\ CertificatesNext
          /\ UNCHANGED <<mobileAllVars, gateVars, shortVars, cacheVars, storageVars, mfaVars, reviewVars, pageVars, proxVars, enrolVars>>
       \/ /\ \/ part = "keys" /\ KeysNext
             \/ part = "backups" /\ BackupsNext
          /\ UNCHANGED <<mobileAllVars, gateVars, shortVars, cacheVars, certVars, mfaVars, reviewVars, pageVars, proxVars, enrolVars>>
       \/ /\ part = "review_panel" /\ ReviewPanelNext
          /\ UNCHANGED <<mobileAllVars, gateVars, shortVars, cacheVars, certVars, storageVars, mfaVars, pageVars, proxVars, enrolVars>>
       \/ /\ part = "proximity" /\ ProximityPanelNext
          /\ UNCHANGED <<mobileAllVars, gateVars, shortVars, cacheVars, certVars, storageVars, mfaVars, reviewVars, pageVars, enrolVars>>
       \/ /\ part = "enroll_panel" /\ EnrollPanelNext
          /\ UNCHANGED <<mobileAllVars, gateVars, shortVars, cacheVars, certVars, storageVars, mfaVars, reviewVars, pageVars, proxVars>>
    /\ UNCHANGED part

-----------------------------------------------------------------------------
(* Fairness.                                                                *)

\* Timers of a page fire, and requests of a page are not lost for ever.
PageTimersFire ==
    \/ part = "mfa_panel" /\ PollTimerFires /\ UNCHANGED pageVars
    \/ part = "page" /\ (\E c \in Chains : PollFires(c)) /\ UNCHANGED mfaVars
PagePollsAnswered ==
    \/ part = "mfa_panel" /\ PollAnswered /\ UNCHANGED pageVars
    \/ part = "page" /\ (\E c \in Chains : PollSessionAnswered(c)) /\ UNCHANGED mfaVars

\* An identity session ends at its deadline, unless frames put the deadline off.
ServerSessionsExpire ==
    part = "page" /\ NoFrames /\ \E s \in PageSessions : PageSessionExpires(s)

\* What the proximity panel waits for ends: by its timer and signal, by the
\* deadline of the last request, or by an answer of the gateway.
ProximitySettles(f) ==
    /\ part = "proximity"
    /\ \/ ProximityTimerFires
       \/ SessionCreated(f) \/ FinishAnswered(f)
       \/ (proxAborted \/ prox[f].at \in {"session", "finish"}) /\ ProximityFails(f)

\* What the gateway waits for ends: a request to Cernere or Aedilis by an
\* answer or a failure, a profile request at the latest by its timer.
LoginProceeds(l) == part = "mobile" /\ MobileStep(l)
ProfileTimerFires(l) == part = "mobile" /\ RequestTimesOut(l)

ServicesFairness ==
    /\ WF_<<mfaVars, pageVars>>(PageTimersFire)
    /\ SF_<<mfaVars, pageVars>>(PagePollsAnswered)
    /\ WF_pageVars(ServerSessionsExpire)
    /\ \A f \in ProximityFlows : WF_proxVars(ProximitySettles(f))
    /\ \A l \in Logins : WF_mobileAllVars(LoginProceeds(l)) /\ WF_vantanVars(ProfileTimerFires(l))

Spec == ServicesInit /\ [][ServicesNext]_vars /\ ServicesFairness

\* Every part keeps to its types.
ServicesTypeOK ==
    /\ VantanTypeOK /\ MobileTypeOK /\ GatesTypeOK /\ ShortLivedTypeOK
    /\ CachedAnswersTypeOK /\ CertificatesTypeOK /\ FaceStorageTypeOK
    /\ MfaPanelTypeOK /\ ReviewPanelTypeOK /\ KioskPageTypeOK
    /\ ProximityPanelTypeOK /\ EnrollPanelTypeOK

\* The two panels that tell a person how a login or an enrolment ended tell
\* what is so: nobody is sent to try again who has been confirmed, and nothing
\* is called complete that is not stored.
PanelsTellTheTruth == TryAgainIsSafe /\ CompleteIsStored

\* No lost answer leaves a panel dead: the panel of on-site MFA takes up the
\* next session, and the button of the proximity login comes back.
PanelsComeBack == EveryServedSessionIsShown /\ ProximityPanelReturns
=============================================================================
