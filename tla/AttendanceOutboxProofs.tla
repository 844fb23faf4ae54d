----------------------- MODULE AttendanceOutboxProofs -----------------------
(***************************************************************************)
(* Proofs about AttendanceOutbox, for any attestations, staff, limits,     *)
(* numbers of overlapping passes and restarts that satisfy                 *)
(* OutboxAssumption.                                                       *)
(***************************************************************************)
EXTENDS AttendanceOutbox, FiniteSetTheorems, TLAPS

\* An attestation enters the outbox once, when its delivery ends, and what is in
\* the outbox, being sent from it or acknowledged, is one that was left pending.
\* What was acknowledged is out, and only an override whose request is over is in
\* the log.
OutboxInv ==
    /\ TypeOK
    /\ \A d \in rows \cup dropped : status[d] = "pending"
    /\ \A p \in Passes : \A d \in pass[p] : status[d] = "pending"
    /\ dropped \cap rows = {}
    /\ \A d \in audited : status[d] \notin {"unborn", "sending"}

LEMMA OutboxInit == Init => OutboxInv
<1> SUFFICES ASSUME Init PROVE OutboxInv
  OBVIOUS
<1> QED
  BY OutboxAssumption DEF Init, OutboxInv, TypeOK

LEMMA OutboxNext == OutboxInv /\ [Next]_vars => OutboxInv'
<1> SUFFICES ASSUME OutboxInv, [Next]_vars PROVE OutboxInv'
  OBVIOUS
<1> USE OutboxAssumption
<1>1. ASSUME NEW d \in Deliveries, NEW a \in Staff \cup {None}, Sign(d, a),
             overlapped' \subseteq overlapped \cup {d}
      PROVE  OutboxInv'
  <2>1. TypeOK'
    BY <1>1 DEF Sign, OutboxInv, TypeOK
  <2>2. /\ d \notin rows \cup dropped \cup audited
        /\ \A p \in Passes : d \notin pass[p]
        /\ \A e \in Deliveries \ {d} : status'[e] = status[e]
    BY <1>1 DEF Sign, OutboxInv, TypeOK
  <2> QED
    BY <1>1, <2>1, <2>2 DEF Sign, OutboxInv, TypeOK
<1>2. ASSUME NEW d \in Deliveries, Delivered(d) PROVE OutboxInv'
  <2>1. TypeOK'
    BY <1>2 DEF Delivered, Audit, OutboxInv, TypeOK
  <2>2. /\ d \notin rows \cup dropped \cup audited
        /\ \A p \in Passes : d \notin pass[p]
        /\ status'[d] = "recorded"
        /\ \A e \in Deliveries \ {d} : status'[e] = status[e]
    BY <1>2 DEF Delivered, OutboxInv, TypeOK
  <2> QED
    BY <1>2, <2>1, <2>2 DEF Delivered, Audit, OutboxInv, TypeOK
<1>3. ASSUME NEW d \in Deliveries, NotDelivered(d) PROVE OutboxInv'
  <2>1. TypeOK'
    BY <1>3 DEF NotDelivered, Enqueue, MayHaveArrived, Audit, OutboxInv, TypeOK
  <2>2. /\ d \notin dropped
        /\ status'[d] = "pending"
        /\ \A e \in Deliveries \ {d} : status'[e] = status[e]
    BY <1>3 DEF NotDelivered, OutboxInv, TypeOK
  <2> QED
    BY <1>3, <2>1, <2>2 DEF NotDelivered, Enqueue, Audit, OutboxInv, TypeOK
<1>4. ASSUME NEW d \in Deliveries, BecomesDue(d) PROVE OutboxInv'
  BY <1>4 DEF BecomesDue, OutboxInv, TypeOK
<1>5. ASSUME NEW p \in Passes, RetryStart(p) PROVE OutboxInv'
  BY <1>5 DEF RetryStart, OutboxInv, TypeOK
<1>6. ASSUME NEW p \in Passes, NEW d \in Deliveries, RetryOk(p, d) PROVE OutboxInv'
  BY <1>6 DEF RetryOk, Acknowledge, First, OutboxInv, TypeOK
<1>7. ASSUME NEW p \in Passes, NEW d \in Deliveries, RetryFailed(p, d) PROVE OutboxInv'
  BY <1>7 DEF RetryFailed, Defer, AfterFailure, MayHaveArrived, First, OutboxInv, TypeOK
<1>8. CASE NewDay
  BY <1>8 DEF NewDay, OutboxInv, TypeOK
<1>9. CASE Crash
  <2>1. TypeOK'
    BY <1>9 DEF Crash, OutboxInv, TypeOK
  <2>2. \A d \in Deliveries : /\ status[d] = "pending" => status'[d] = "pending"
                             /\ status[d] # "sending" => status'[d] = status[d]
    BY <1>9 DEF Crash
  <2> QED
    BY <1>9, <2>1, <2>2 DEF Crash, OutboxInv, TypeOK
<1>10. CASE UNCHANGED vars
  BY <1>10 DEF vars, OutboxInv, TypeOK
<1>11. ASSUME NEW d \in Deliveries, FaceIssued(d) PROVE OutboxInv'
  BY <1>1, <1>11 DEF FaceIssued
<1>12. ASSUME NEW d \in Deliveries, NEW a \in Staff, Override(d, a) PROVE OutboxInv'
  BY <1>1, <1>12 DEF Override
<1> QED
  BY <1>2, <1>3, <1>4, <1>5, <1>6, <1>7, <1>8, <1>9, <1>10, <1>11, <1>12 DEF Next

LEMMA OutboxHolds == Spec => []OutboxInv
  BY OutboxInit, OutboxNext, PTL DEF Spec

\* The types of AttendanceOutbox's variables (AttendanceOutbox!TypeOK).
THEOREM TypeCorrect == Spec => []TypeOK
  BY OutboxHolds, PTL DEF OutboxInv

-----------------------------------------------------------------------------
(* The outbox.                                                              *)

\* What the kiosk was told is pending stays in the outbox until Aedilis has it,
\* through refusals, overlapping passes and restarts
\* (AttendanceOutbox!PendingIsKept).
THEOREM PendingAttestationsAreKept == Spec => []PendingIsKept
<1>1. Init => PendingIsKept
  BY DEF Init, PendingIsKept
<1>2. OutboxInv /\ PendingIsKept /\ [Next]_vars => PendingIsKept'
  <2> SUFFICES ASSUME OutboxInv, PendingIsKept, [Next]_vars,
                      NEW d \in Deliveries, status'[d] = "pending"
               PROVE  d \in rows' \cup recorded'
    BY DEF PendingIsKept
  <2> USE DEF PendingIsKept
  <2>1. ASSUME NEW e \in Deliveries,
               FaceIssued(e) \/ Delivered(e) \/ BecomesDue(e) \/ \E a \in Staff : Override(e, a)
        PROVE  d \in rows' \cup recorded'
    BY <2>1 DEF FaceIssued, Override, Sign, Delivered, BecomesDue, OutboxInv, TypeOK
  <2>2. ASSUME NEW e \in Deliveries, NotDelivered(e) PROVE d \in rows' \cup recorded'
    BY <2>2 DEF NotDelivered, Enqueue, MayHaveArrived, OutboxInv, TypeOK
  <2>3. ASSUME NEW p \in Passes, RetryStart(p) PROVE d \in rows' \cup recorded'
    BY <2>3 DEF RetryStart
  <2>4. ASSUME NEW p \in Passes, NEW e \in Deliveries, RetryOk(p, e) PROVE d \in rows' \cup recorded'
    BY <2>4 DEF RetryOk, Acknowledge
  <2>5. ASSUME NEW p \in Passes, NEW e \in Deliveries, RetryFailed(p, e)
        PROVE  d \in rows' \cup recorded'
    BY <2>5 DEF RetryFailed, Defer, MayHaveArrived
  <2>6. CASE NewDay \/ Crash \/ UNCHANGED vars
    BY <2>6 DEF NewDay, Crash, vars
  <2> QED
    BY <2>1, <2>2, <2>3, <2>4, <2>5, <2>6 DEF Next
<1> QED
  BY <1>1, <1>2, OutboxHolds, PTL DEF Spec

\* A row that one pass acknowledged does not come back, although others had read
\* it before (AttendanceOutbox!AcknowledgedStaysGone).
THEOREM AcknowledgedRowsStayGone == Spec => AcknowledgedStaysGone
<1>1. ASSUME OutboxInv, Next PROVE \A d \in dropped : d \notin rows'
  <2>1. dropped \subseteq dropped'
    BY <1>1 DEF Next, FaceIssued, Override, Sign, Delivered, NotDelivered, BecomesDue, RetryStart,
       RetryOk, Acknowledge, RetryFailed, Defer, NewDay, Crash
  <2> QED
    BY <1>1, <2>1, OutboxNext DEF OutboxInv
<1>2. OutboxInv /\ [Next]_vars => [\A d \in dropped : d \notin rows']_vars
  BY <1>1
<1> QED
  BY <1>2, OutboxHolds, PTL DEF Spec, AcknowledgedStaysGone

-----------------------------------------------------------------------------
(* The daily limit.                                                         *)

\* Overrides of `a` that count, and those on their way that were made while no
\* other of the same person was.
Counted(a) == {d \in audited \ overlapped : by[d] = a}
Coming(a) == {d \in Deliveries \ overlapped : status[d] = "sending" /\ by[d] = a}

\* At most one override that will count is on its way, and there is room for it.
LimitInv ==
    /\ IsFiniteSet(audited)
    /\ \A a \in Staff : /\ Cardinality(Counted(a)) <= DailyLimit
                        /\ Coming(a) # {} => Cardinality(Counted(a)) < DailyLimit
                        /\ \A d, e \in Coming(a) : d = e

LEMMA CountedFacts ==
    ASSUME LimitInv, NEW a \in Staff
    PROVE  /\ IsFiniteSet(Counted(a)) /\ Cardinality(Counted(a)) \in Nat
           /\ Cardinality(Counted(a)) <= OverridesToday(a) /\ OverridesToday(a) \in Nat
<1> DEFINE T == {d \in audited : by[d] = a}
<1>1. IsFiniteSet(T)
  BY FS_Subset DEF LimitInv
<1>2. Counted(a) \subseteq T
  BY DEF Counted
<1> QED
  BY <1>1, <1>2, FS_Subset, FS_CardinalityType DEF OverridesToday

\* Steps after which nothing more counts, or is on its way, than before.
LEMMA LimitShrinks ==
    ASSUME LimitInv, IsFiniteSet(audited'),
           \A a \in Staff : Counted(a)' \subseteq Counted(a) /\ Coming(a)' \subseteq Coming(a)
    PROVE  LimitInv'
<1> SUFFICES ASSUME NEW a \in Staff
             PROVE  /\ Cardinality(Counted(a)') <= DailyLimit
                    /\ Coming(a)' # {} => Cardinality(Counted(a)') < DailyLimit
                    /\ \A d, e \in Coming(a)' : d = e
  BY DEF LimitInv
<1>1. IsFiniteSet(Counted(a)) /\ Cardinality(Counted(a)) \in Nat
  BY CountedFacts
<1>2. /\ Cardinality(Counted(a)') <= Cardinality(Counted(a))
      /\ Cardinality(Counted(a)') \in Nat
  BY <1>1, FS_Subset, FS_CardinalityType
<1> QED
  BY <1>1, <1>2, OutboxAssumption DEF LimitInv

\* An override is admitted below the limit and is the only one on its way that
\* will count, or will not count itself.
LEMMA LimitOverride ==
    ASSUME OutboxInv, LimitInv, NEW d \in Deliveries, NEW b \in Staff, Override(d, b)
    PROVE  LimitInv'
<1>1. /\ status[d] = "unborn" /\ UNCHANGED audited
      /\ status'[d] = "sending" /\ by'[d] = b
      /\ \A e \in Deliveries \ {d} : status'[e] = status[e] /\ by'[e] = by[e]
      /\ d \notin audited /\ audited \subseteq Deliveries
      /\ overlapped \subseteq overlapped'
  BY DEF Override, Sign, OutboxInv, TypeOK
<1> SUFFICES ASSUME NEW a \in Staff
             PROVE  /\ Cardinality(Counted(a)') <= DailyLimit
                    /\ Coming(a)' # {} => Cardinality(Counted(a)') < DailyLimit
                    /\ \A f, e \in Coming(a)' : f = e
  BY <1>1 DEF LimitInv
<1>2. IsFiniteSet(Counted(a)) /\ Cardinality(Counted(a)) \in Nat
  BY CountedFacts
<1>3. Counted(a)' \subseteq Counted(a)
  BY <1>1 DEF Counted
<1>4. /\ Cardinality(Counted(a)') <= Cardinality(Counted(a))
      /\ Cardinality(Counted(a)') \in Nat
  BY <1>2, <1>3, FS_Subset, FS_CardinalityType
<1>5. CASE Coming(a)' \subseteq Coming(a)
  BY <1>2, <1>4, <1>5, OutboxAssumption DEF LimitInv
<1>6. CASE ~ (Coming(a)' \subseteq Coming(a))
  <2>1. a = b /\ d \notin overlapped'
    BY <1>1, <1>6 DEF Coming
  <2>2. ~ \E e \in Deliveries : status[e] = "sending" /\ by[e] = a
    BY <2>1 DEF Override
  <2>3. Coming(a)' \subseteq {d}
    BY <1>1, <2>2 DEF Coming
  <2>4. Cardinality(Counted(a)) < DailyLimit
    <3>1. OverridesToday(a) < DailyLimit
      BY <2>1 DEF Override, MayOverride
    <3> QED
      BY <3>1, CountedFacts, OutboxAssumption
  <2> QED
    BY <1>2, <1>4, <2>3, <2>4, OutboxAssumption
<1> QED
  BY <1>5, <1>6

\* The end of a request: its override counts now and is not on its way.
LEMMA LimitAnswered ==
    ASSUME OutboxInv, LimitInv, NEW d \in Deliveries, Delivered(d) \/ NotDelivered(d)
    PROVE  LimitInv'
<1>1. /\ status[d] = "sending" /\ status'[d] # "sending" /\ UNCHANGED <<by, overlapped>>
      /\ \A e \in Deliveries \ {d} : status'[e] = status[e]
      /\ audited' = audited \/ audited' = audited \cup {d}
  BY DEF Delivered, NotDelivered, Audit, OutboxInv, TypeOK
<1>2. IsFiniteSet(audited')
  BY <1>1, FS_AddElement DEF LimitInv
<1> SUFFICES ASSUME NEW a \in Staff
             PROVE  /\ Cardinality(Counted(a)') <= DailyLimit
                    /\ Coming(a)' # {} => Cardinality(Counted(a)') < DailyLimit
                    /\ \A f, e \in Coming(a)' : f = e
  BY <1>2 DEF LimitInv
<1>3. IsFiniteSet(Counted(a)) /\ Cardinality(Counted(a)) \in Nat
  BY CountedFacts
<1>4. Coming(a)' = Coming(a) \ {d}
  BY <1>1 DEF Coming
<1>5. CASE d \in Coming(a)
  <2>1. Coming(a)' = {}
    BY <1>4, <1>5 DEF LimitInv
  <2>2. Counted(a)' \subseteq Counted(a) \cup {d}
    BY <1>1 DEF Counted
  <2>3. /\ IsFiniteSet(Counted(a) \cup {d})
        /\ Cardinality(Counted(a) \cup {d}) <= Cardinality(Counted(a)) + 1
        /\ Cardinality(Counted(a) \cup {d}) \in Nat
    <3>1. Cardinality(Counted(a) \cup {d}) =
             IF d \in Counted(a) THEN Cardinality(Counted(a)) ELSE Cardinality(Counted(a)) + 1
      BY <1>3, FS_AddElement
    <3> QED
      BY <1>3, <3>1, FS_AddElement
  <2>4. Cardinality(Counted(a)') <= Cardinality(Counted(a) \cup {d})
        /\ Cardinality(Counted(a)') \in Nat
    BY <2>2, <2>3, FS_Subset, FS_CardinalityType
  <2>5. Cardinality(Counted(a)) < DailyLimit
    BY <1>5 DEF LimitInv
  <2> QED
    BY <1>3, <2>1, <2>3, <2>4, <2>5, OutboxAssumption
<1>6. CASE d \notin Coming(a)
  <2>1. Counted(a)' = Counted(a)
    BY <1>1, <1>6 DEF Counted, Coming
  <2> QED
    BY <1>4, <2>1 DEF LimitInv
<1> QED
  BY <1>5, <1>6

LEMMA LimitNext == OutboxInv /\ LimitInv /\ [Next]_vars => LimitInv'
<1> SUFFICES ASSUME OutboxInv, LimitInv, [Next]_vars PROVE LimitInv'
  OBVIOUS
<1>1. ASSUME NEW d \in Deliveries, FaceIssued(d) PROVE LimitInv'
  <2>1. /\ status'[d] = "sending" /\ by'[d] = None /\ d \notin audited
        /\ \A e \in Deliveries \ {d} : status'[e] = status[e] /\ by'[e] = by[e]
        /\ UNCHANGED <<audited, overlapped>> /\ audited \subseteq Deliveries
    BY <1>1 DEF FaceIssued, Sign, OutboxInv, TypeOK
  <2>2. None \notin Staff
    BY OutboxAssumption
  <2>3. \A a \in Staff : Counted(a)' \subseteq Counted(a) /\ Coming(a)' \subseteq Coming(a)
    BY <2>1, <2>2 DEF Counted, Coming
  <2> QED
    BY <2>1, <2>3, LimitShrinks DEF LimitInv
<1>2. CASE \/ NewDay \/ UNCHANGED vars
           \/ \E d \in Deliveries : BecomesDue(d)
           \/ \E p \in Passes : RetryStart(p)
           \/ \E p \in Passes, d \in Deliveries : RetryOk(p, d) \/ RetryFailed(p, d)
  <2>1. UNCHANGED <<status, by, overlapped>> /\ audited' \in {audited, {}}
    BY <1>2 DEF NewDay, vars, BecomesDue, RetryStart, RetryOk, RetryFailed
  <2>2. \A a \in Staff : Counted(a)' \subseteq Counted(a) /\ Coming(a)' \subseteq Coming(a)
    BY <2>1 DEF Counted, Coming
  <2> QED
    BY <2>1, <2>2, LimitShrinks, FS_EmptySet DEF LimitInv
<1>3. CASE Crash
  <2>1. UNCHANGED <<by, overlapped, audited>>
        /\ \A d \in Deliveries : status'[d] = "sending" => status[d] = "sending"
    BY <1>3 DEF Crash
  <2>2. \A a \in Staff : Counted(a)' \subseteq Counted(a) /\ Coming(a)' \subseteq Coming(a)
    BY <2>1 DEF Counted, Coming
  <2> QED
    BY <2>1, <2>2, LimitShrinks DEF LimitInv
<1> QED
  BY <1>1, <1>2, <1>3, LimitOverride, LimitAnswered DEF Next

\* Overrides that a member of staff makes one after the other stay within the
\* limit of the day (AttendanceOutbox!SequentialOverridesWithinLimit).
THEOREM SequentialOverridesKeepTheLimit == Spec => []SequentialOverridesWithinLimit
<1>1. Init => LimitInv
  <2> SUFFICES ASSUME Init PROVE LimitInv
    OBVIOUS
  <2>1. \A a \in Staff : Counted(a) = {} /\ Coming(a) = {}
    BY DEF Init, Counted, Coming
  <2>2. IsFiniteSet(audited)
    BY FS_EmptySet DEF Init
  <2> QED
    BY <2>1, <2>2, FS_EmptySet, OutboxAssumption DEF LimitInv
<1>2. Spec => []LimitInv
  BY <1>1, LimitNext, OutboxHolds, PTL DEF Spec
<1>3. LimitInv => SequentialOverridesWithinLimit
  BY DEF LimitInv, SequentialOverridesWithinLimit, Counted
<1> QED
  BY <1>2, <1>3, PTL
=============================================================================
