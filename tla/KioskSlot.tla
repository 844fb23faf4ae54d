------------------------------ MODULE KioskSlot ------------------------------
(***************************************************************************)
(* What the on-site MFA session store promises, without clocks, retention  *)
(* or lazy sweeping: the kiosk is one slot.  A request takes the slot when *)
(* it is free, may be claimed once by the person standing at the kiosk,    *)
(* and leaves the slot for good.  spec/feature/onsite-mfa-factor.md 2.1    *)
(* (one valid session per kiosk, no queue).                                *)
(***************************************************************************)
CONSTANTS Sids,   \* session identifiers
          Free    \* the value of slot when nobody is served

VARIABLES slot,     \* Free, or the session served and how far it got
          released  \* sessions that had the slot once

vars == <<slot, released>>

Held == [sid : Sids, phase : {"waiting", "submitting"}]

TypeOK == slot \in Held \cup {Free} /\ released \subseteq Sids

Init == slot = Free /\ released = {}

Take(s) ==
    /\ slot = Free
    /\ s \notin released
    /\ slot' = [sid |-> s, phase |-> "waiting"]
    /\ UNCHANGED released

Claim(s) ==
    /\ slot = [sid |-> s, phase |-> "waiting"]
    /\ slot' = [sid |-> s, phase |-> "submitting"]
    /\ UNCHANGED released

\* A claimed request is settled, a waiting one lapses, a restart drops both.
Release(s) ==
    /\ \E p \in {"waiting", "submitting"} : slot = [sid |-> s, phase |-> p]
    /\ slot' = Free
    /\ released' = released \cup {s}

Next == \E s \in Sids : Take(s) \/ Claim(s) \/ Release(s)

Spec == Init /\ [][Next]_vars
==============================================================================
