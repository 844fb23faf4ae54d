--------------------------- MODULE AttendanceOutbox ---------------------------
(***************************************************************************)
(* Delivery of attendance attestations to Aedilis by the face path and by  *)
(* the staff override, and the SQLite outbox that retries what did not     *)
(* arrive (server/face/aedilis-outbox.ts, db.ts, routes/identity-face.ts,  *)
(* routes/identity-staff.ts).                                              *)
(*                                                                         *)
(* The retry timer starts a pass every 30 s whether or not the one before  *)
(* has ended: passes overlap, each on the due rows it read at its start.   *)
(* Of a row's backoff the model keeps only whether the row is due; a row's *)
(* id is never used again (AUTOINCREMENT) and stands for the row.          *)
(***************************************************************************)
EXTENDS Naturals, FiniteSets

CONSTANTS Deliveries, \* attestations, each with a nonce of its own
          Refused,    \* those Aedilis never accepts
          Staff,      \* members of staff
          DailyLimit, \* OSTIARIUS_STAFF_OVERRIDE_DAILY_LIMIT
          Passes,     \* bound: retry passes that overlap
          MaxCrashes, \* bound: restarts of the process
          None

ASSUME OutboxAssumption ==
    /\ Refused \subseteq Deliveries
    /\ DailyLimit \in Nat /\ MaxCrashes \in Nat
    /\ None \notin Staff

VARIABLES
    status,    \* what became of the request that signed it
    by,        \* the member of staff who overrode; None for the face path
    rows,      \* outbox: the attestations it holds
    id, nextId, \* the ids their rows were given, 0 for none
    due,       \* rows whose next_at has passed
    pass,      \* rows a retry pass has still to send; it awaits the first
    recorded,  \* attestations Aedilis holds
    audited,   \* today's staff_override events
    crashes,
    dropped,   \* history: rows acknowledged
    overlapped \* history: overrides made while another of the same person was
               \* being sent

vars == <<status, by, rows, id, nextId, due, pass, recorded, audited, crashes, dropped, overlapped>>

TypeOK ==
    /\ status \in [Deliveries -> {"unborn", "sending", "recorded", "pending", "lost"}]
    /\ by \in [Deliveries -> Staff \cup {None}]
    /\ rows \subseteq Deliveries /\ due \subseteq rows
    /\ id \in [Deliveries -> Nat] /\ nextId \in Nat \ {0}
    /\ pass \in [Passes -> SUBSET Deliveries]
    /\ recorded \subseteq Deliveries \ Refused
    /\ audited \subseteq {d \in Deliveries : by[d] # None}
    /\ crashes \in 0..MaxCrashes
    /\ dropped \subseteq Deliveries /\ overlapped \subseteq Deliveries

Init ==
    /\ status = [d \in Deliveries |-> "unborn"]
    /\ by = [d \in Deliveries |-> None]
    /\ rows = {} /\ due = {}
    /\ id = [d \in Deliveries |-> 0] /\ nextId = 1
    /\ pass = [p \in Passes |-> {}]
    /\ recorded = {} /\ audited = {} /\ crashes = 0
    /\ dropped = {} /\ overlapped = {}

-----------------------------------------------------------------------------
(* Requests at the kiosk.                                                   *)

Sign(d, who) ==
    /\ status[d] = "unborn"
    /\ status' = [status EXCEPT ![d] = "sending"]
    /\ by' = [by EXCEPT ![d] = who]
    /\ UNCHANGED <<rows, id, nextId, due, pass, recorded, audited, crashes, dropped>>

FaceIssued(d) == Sign(d, None) /\ UNCHANGED overlapped

OverridesToday(a) == Cardinality({d \in audited : by[d] = a})

MutMayOverride(a) == OverridesToday(a) <= DailyLimit

MayOverride(a) == OverridesToday(a) < DailyLimit

Override(d, a) ==
    /\ MayOverride(a)
    /\ Sign(d, a)
    /\ overlapped' = IF \E e \in Deliveries : status[e] = "sending" /\ by[e] = a
                     THEN overlapped \cup {d} ELSE overlapped

\* The end of the override route: the event is written after the delivery.
Audit(d) == audited' = IF by[d] = None THEN audited ELSE audited \cup {d}

Delivered(d) ==
    /\ status[d] = "sending" /\ d \notin Refused
    /\ recorded' = recorded \cup {d}
    /\ status' = [status EXCEPT ![d] = "recorded"]
    /\ Audit(d)
    /\ UNCHANGED <<by, rows, id, nextId, due, pass, crashes, dropped, overlapped>>

\* Aedilis may hold the record although its answer did not come or was no good.
MayHaveArrived(d) == recorded' \in {recorded, recorded \cup ({d} \ Refused)}

\* enqueueOutbox(): due at once.
Enqueue(d) ==
    /\ rows' = rows \cup {d}
    /\ id' = [id EXCEPT ![d] = nextId] /\ nextId' = nextId + 1
    /\ due' = due \cup {d}

NotDelivered(d) ==
    /\ status[d] = "sending"
    /\ MayHaveArrived(d)
    /\ status' = [status EXCEPT ![d] = "pending"]
    /\ Enqueue(d)
    /\ Audit(d)
    /\ UNCHANGED <<by, pass, crashes, dropped, overlapped>>

-----------------------------------------------------------------------------
(* The retry timer.                                                         *)

\* listDueOutbox(), read once per pass.
RetryStart(p) ==
    /\ pass[p] = {} /\ due # {}
    /\ pass' = [pass EXCEPT ![p] = due]
    /\ UNCHANGED <<status, by, rows, id, nextId, due, recorded, audited, crashes, dropped,
                   overlapped>>

\* A pass sends its rows in the order of their ids.
First(p, d) == d \in pass[p] /\ \A e \in pass[p] : id[d] <= id[e]

MutAfterFailure(p, d) == {}

\* The rows still to send after the first one failed.
AfterFailure(p, d) == pass[p] \ {d}

\* acknowledgeOutbox(): DELETE, of a row another pass may have deleted.
Acknowledge(d) ==
    /\ rows' = rows \ {d} /\ due' = due \ {d}
    /\ UNCHANGED <<id, nextId>>
    /\ dropped' = dropped \cup {d}

MutRetryAnswered(p, d) ==
    /\ First(p, d)
    /\ MayHaveArrived(d)
    /\ Acknowledge(d)
    /\ pass' = [pass EXCEPT ![p] = @ \ {d}]
    /\ UNCHANGED <<status, by, audited, crashes, overlapped>>

RetryOk(p, d) ==
    /\ First(p, d) /\ d \notin Refused
    /\ recorded' = recorded \cup {d}
    /\ Acknowledge(d)
    /\ pass' = [pass EXCEPT ![p] = @ \ {d}]
    /\ UNCHANGED <<status, by, audited, crashes, overlapped>>

MutDeferByEnqueue(d) == Enqueue(d) /\ UNCHANGED dropped

\* deferOutbox(): UPDATE, which does nothing when another pass has deleted the
\* row meanwhile.
Defer(d) ==
    /\ due' = due \ {d}
    /\ UNCHANGED <<rows, id, nextId, dropped>>

RetryFailed(p, d) ==
    /\ First(p, d)
    /\ MayHaveArrived(d)
    /\ Defer(d)
    /\ pass' = [pass EXCEPT ![p] = AfterFailure(p, d)]
    /\ UNCHANGED <<status, by, audited, crashes, overlapped>>

-----------------------------------------------------------------------------
(* The clock and the process.                                               *)

\* next_at passes; the delay is capped at 15 minutes.
BecomesDue(d) ==
    /\ d \in rows \ due
    /\ due' = due \cup {d}
    /\ UNCHANGED <<status, by, rows, id, nextId, pass, recorded, audited, crashes, dropped,
                   overlapped>>

\* The UTC day of the daily limit ends.
NewDay ==
    /\ audited # {}
    /\ audited' = {}
    /\ UNCHANGED <<status, by, rows, id, nextId, due, pass, recorded, crashes, dropped, overlapped>>

\* The outbox and the events are in SQLite; requests and passes are not.
Crash ==
    /\ crashes < MaxCrashes
    /\ crashes' = crashes + 1
    /\ status' = [d \in Deliveries |-> IF status[d] = "sending" THEN "lost" ELSE status[d]]
    /\ \E arrived \in SUBSET ({d \in Deliveries : status[d] = "sending"} \ Refused) :
          recorded' = recorded \cup arrived
    /\ pass' = [p \in Passes |-> {}]
    /\ UNCHANGED <<by, rows, id, nextId, due, audited, dropped, overlapped>>

Next ==
    \/ \E d \in Deliveries :
          \/ FaceIssued(d) \/ \E a \in Staff : Override(d, a)
          \/ Delivered(d) \/ NotDelivered(d) \/ BecomesDue(d)
    \/ \E p \in Passes : RetryStart(p)
    \/ \E p \in Passes, d \in Deliveries : RetryOk(p, d) \/ RetryFailed(p, d)
    \/ NewDay
    \/ Crash

\* The timer fires, a delay ends and a request is answered or times out; a
\* delivery that is tried over and over is accepted at some point.
Fairness ==
    /\ \A p \in Passes :
          /\ WF_vars(RetryStart(p))
          /\ WF_vars(\E d \in Deliveries : RetryOk(p, d) \/ RetryFailed(p, d))
    /\ \A d \in Deliveries :
          /\ WF_vars(BecomesDue(d))
          /\ SF_vars(\E p \in Passes : RetryOk(p, d))

Spec == Init /\ [][Next]_vars /\ Fairness

-----------------------------------------------------------------------------
(* Properties.                                                              *)

\* What the kiosk was told is "pending" stays in the outbox until Aedilis has
\* it, through refusals, overlapping passes and restarts.
PendingIsKept ==
    \A d \in Deliveries : status[d] = "pending" => d \in rows \cup recorded

\* A row one pass acknowledged does not come back when another pass, which had
\* read it before, fails to send it.
AcknowledgedStaysGone ==
    [][\A d \in dropped : d \notin rows']_vars

\* A pending attestation is recorded and its row removed in the end, also
\* behind rows that Aedilis refuses for ever.
PendingIsRecorded ==
    \A d \in Deliveries \ Refused :
        status[d] = "pending" ~> d \in recorded \ rows

\* Overrides that a member of staff makes one after the other stay within the
\* limit of the day, whatever others are in flight, fail or wait in the outbox.
SequentialOverridesWithinLimit ==
    \A a \in Staff :
        Cardinality({d \in audited \ overlapped : by[d] = a}) <= DailyLimit

\* "A daily limit per member of staff" (passkey-fallback.md:47,
\* http-identity.md:99): no more overrides are issued than that.
DailyLimitHolds == \A a \in Staff : OverridesToday(a) <= DailyLimit
=============================================================================
