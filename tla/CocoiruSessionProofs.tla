------------------------ MODULE CocoiruSessionProofs ------------------------
(***************************************************************************)
(* Proofs about CocoiruSession, for any tokens, requests in flight,        *)
(* capacities and lifetimes that satisfy CocoiruAssumption.                *)
(***************************************************************************)
EXTENDS CocoiruSession, FiniteSetTheorems, TLAPS

\* A request that awaits an answer about a session names it; the others name
\* none.
Named(r) == r.tok \in IF r.pc \in {"idle", "exchanging"} THEN {None} ELSE Tokens

TypeInv == TypeOK /\ \A h \in Handlers : Named(req[h])

Waiting == Creating \cup Running \cup {"revoking", "cleaning"}

LEMMA TypeInit == Init => TypeInv
<1> SUFFICES ASSUME Init PROVE TypeInv
  OBVIOUS
<1>1. TypeOK
  <2>1. req \in [Handlers -> Request \cup {Idle}]
    BY DEF Init
  <2>2. proofs \in [Tokens -> 0..MaxProofs]
    BY CocoiruAssumption DEF Init
  <2> QED
    BY <2>1, <2>2 DEF Init, TypeOK
<1>2. Named(Idle)
  BY DEF Named, Idle
<1> QED
  BY <1>1, <1>2 DEF Init, TypeInv

\* The next await of a request, or its end.
LEMMA AwaitFacts ==
    ASSUME TypeInv, NEW h \in Handlers, NEW st \in Waiting,
           NEW t \in IF st = "exchanging" THEN {None} ELSE Tokens, Await(h, st, t)
    PROVE  /\ req' = [req EXCEPT ![h] =
                 [pc |-> st, tok |-> t, cut |-> req[h].cut, away |-> req[h].away]]
           /\ req'[h].pc = st /\ req'[h].tok = t
           /\ \A g \in Handlers \ {h} : req'[g] = req[g]
           /\ req' \in [Handlers -> Request \cup {Idle}]
           /\ \A g \in Handlers : Named(req'[g])
<1> DEFINE r == [pc |-> st, tok |-> t, cut |-> req[h].cut, away |-> req[h].away]
<1>1. req[h] \in Request \cup {Idle} /\ Idle.cut = FALSE /\ Idle.away = FALSE
  BY DEF TypeInv, TypeOK, Idle
<1>2. req' = [req EXCEPT ![h] = r]
  BY DEF Await
<1>3. r \in Request /\ Named(r)
  <2>1. req[h].cut \in BOOLEAN /\ req[h].away \in BOOLEAN /\ t \in Tokens \cup {None}
    BY <1>1 DEF Request
  <2>2. st # "idle"
    BY DEF Waiting, Creating, Running
  <2> QED
    BY <2>1, <2>2 DEF Request, Named, Waiting
<1> QED
  BY <1>2, <1>3 DEF TypeInv, TypeOK

LEMMA RespondFacts ==
    ASSUME TypeInv, NEW h \in Handlers, Respond(h)
    PROVE  /\ req'[h].pc = "idle" /\ req'[h].tok = None
           /\ \A g \in Handlers \ {h} : req'[g] = req[g]
           /\ req' \in [Handlers -> Request \cup {Idle}]
           /\ \A g \in Handlers : Named(req'[g])
  BY DEF Respond, TypeInv, TypeOK, Named, Idle

\* A client that goes away, or leaves the venue, changes no more than that.
LEMMA FlagFacts ==
    ASSUME TypeInv, NEW h \in Handlers, Disconnect(h) \/ LeaveVenue(h)
    PROVE  /\ \A g \in Handlers : req'[g].pc = req[g].pc /\ req'[g].tok = req[g].tok
           /\ req' \in [Handlers -> Request \cup {Idle}]
           /\ \A g \in Handlers : Named(req'[g])
<1>1. req[h] \in Request
  BY DEF Disconnect, LeaveVenue, TypeInv, TypeOK
<1>2. CASE Disconnect(h)
  <2>1. /\ [req[h] EXCEPT !.cut = TRUE] \in Request
        /\ [req[h] EXCEPT !.cut = TRUE].pc = req[h].pc
        /\ [req[h] EXCEPT !.cut = TRUE].tok = req[h].tok
    BY <1>1 DEF Request
  <2>2. req' = [req EXCEPT ![h] = [req[h] EXCEPT !.cut = TRUE]]
    BY <1>2 DEF Disconnect
  <2> QED
    BY <2>1, <2>2 DEF TypeInv, TypeOK, Named
<1>3. CASE LeaveVenue(h)
  <2>1. /\ [req[h] EXCEPT !.away = TRUE] \in Request
        /\ [req[h] EXCEPT !.away = TRUE].pc = req[h].pc
        /\ [req[h] EXCEPT !.away = TRUE].tok = req[h].tok
    BY <1>1 DEF Request
  <2>2. req' = [req EXCEPT ![h] = [req[h] EXCEPT !.away = TRUE]]
    BY <1>3 DEF LeaveVenue
  <2> QED
    BY <2>1, <2>2 DEF TypeInv, TypeOK, Named
<1> QED
  BY <1>2, <1>3

\* A request that awaits an answer about a session is a request of that session.
LEMMA WaitingFacts ==
    ASSUME TypeInv, NEW h \in Handlers, req[h].pc \in Waiting
    PROVE  /\ req[h] \in Request
           /\ req[h].pc # "exchanging" => req[h].tok \in Tokens
  BY DEF TypeInv, TypeOK, Named, Idle, Waiting, Creating, Running

LEMMA SweptType ==
    ASSUME TypeOK
    PROVE  /\ Swept \in [Tokens -> {"unborn", "drawn", "live", "gone"}]
           /\ \A t \in Tokens :
                 \/ Swept[t] = local[t]
                 \/ local[t] = "live" /\ Swept[t] = "gone" /\ exp[t] <= now
  BY DEF Swept, TypeOK

\* What ending a session here does to the map.
LEMMA EndsFacts ==
    ASSUME NEW st \in [Tokens -> {"unborn", "drawn", "live", "gone"}], NEW t \in Tokens
    PROVE  /\ EndsLocally(st, t) \in [Tokens -> {"unborn", "drawn", "live", "gone"}]
           /\ EndsLocally(st, t)[t] = IF st[t] = "live" THEN "gone" ELSE st[t]
           /\ \A u \in Tokens \ {t} : EndsLocally(st, t)[u] = st[u]
  BY DEF EndsLocally

LEMMA TypeNext == TypeInv /\ [Next]_vars => TypeInv'
<1> SUFFICES ASSUME TypeInv, [Next]_vars PROVE TypeInv'
  OBVIOUS
<1> USE CocoiruAssumption
<1>t. TypeOK
  BY DEF TypeInv
<1>1. ASSUME NEW h \in Handlers, NEW prev \in Tokens \cup {None}, CreateStart(h, prev)
      PROVE  TypeInv'
  <2>1. /\ local' \in [Tokens -> {"unborn", "drawn", "live", "gone"}] /\ ended' \subseteq Tokens
    BY <1>t, <1>1, SweptType, EndsFacts DEF CreateStart, TypeOK
  <2>2. req' \in [Handlers -> Request \cup {Idle}] /\ \A g \in Handlers : Named(req'[g])
    BY <1>1, AwaitFacts DEF CreateStart, Waiting, Creating
  <2> QED
    BY <1>t, <1>1, <2>1, <2>2 DEF CreateStart, TypeInv, TypeOK
<1>2. ASSUME NEW h \in Handlers, CreateRefused(h) PROVE TypeInv'
  BY <1>t, <1>2, SweptType DEF CreateRefused, TypeInv, TypeOK
<1>3. ASSUME NEW h \in Handlers, Replaced(h) PROVE TypeInv'
  <2>1. req' \in [Handlers -> Request \cup {Idle}] /\ \A g \in Handlers : Named(req'[g])
    BY <1>3, AwaitFacts, RespondFacts DEF Replaced, Waiting, Creating
  <2> QED
    BY <1>t, <1>3, <2>1 DEF Replaced, TypeInv, TypeOK
<1>4. ASSUME NEW h \in Handlers, Exchanged(h) PROVE TypeInv'
  <2>1. CASE Open(h)
    <3>1. PICK t \in Tokens : local' = [local EXCEPT ![t] = "drawn"] /\ Await(h, "binding", t)
      BY <1>4, <2>1 DEF Exchanged
    <3>2. req' \in [Handlers -> Request \cup {Idle}] /\ \A g \in Handlers : Named(req'[g])
      BY <3>1, AwaitFacts DEF Waiting, Creating
    <3> QED
      BY <1>t, <1>4, <3>1, <3>2 DEF Exchanged, TypeInv, TypeOK
  <2>2. CASE ~ Open(h)
    BY <1>t, <1>4, <2>2, RespondFacts DEF Exchanged, TypeInv, TypeOK
  <2> QED
    BY <2>1, <2>2
<1>5. ASSUME NEW h \in Handlers, ExchangeFails(h) \/ RunFails(h) PROVE TypeInv'
  BY <1>t, <1>5, RespondFacts DEF ExchangeFails, RunFails, TypeInv, TypeOK
<1>6. ASSUME NEW h \in Handlers, NEW e \in 0..MaxTime + MaxLife, Bound(h, e) PROVE TypeInv'
  <2>1. req[h].tok \in Tokens /\ e \in Nat
    BY <1>6, WaitingFacts DEF Bound, Waiting, Creating
  <2>2. req' \in [Handlers -> Request \cup {Idle}] /\ \A g \in Handlers : Named(req'[g])
    BY <1>6, <2>1, AwaitFacts, RespondFacts DEF Bound, Publish, TakeBack, Waiting
  <2>3. /\ local' \in [Tokens -> {"unborn", "drawn", "live", "gone"}]
        /\ exp' \in [Tokens -> Nat] /\ ended' \subseteq Tokens
    BY <1>t, <1>6, <2>1 DEF Bound, Publish, TypeOK
  <2> QED
    BY <1>t, <1>6, <2>2, <2>3 DEF Bound, TypeInv, TypeOK
<1>7. ASSUME NEW h \in Handlers, BindFails(h) PROVE TypeInv'
  <2>1. req[h].tok \in Tokens
    BY <1>7, WaitingFacts DEF BindFails, Waiting, Creating
  <2> QED
    BY <1>t, <1>7, <2>1, RespondFacts DEF BindFails, TypeInv, TypeOK
<1>8. ASSUME NEW h \in Handlers, NEW t \in Tokens, Logout(h, t) PROVE TypeInv'
  <2>1. req' \in [Handlers -> Request \cup {Idle}] /\ \A g \in Handlers : Named(req'[g])
    BY <1>8, AwaitFacts DEF Logout, Waiting, TypeInv, TypeOK
  <2> QED
    BY <1>t, <1>8, <2>1, EndsFacts DEF Logout, TypeInv, TypeOK
<1>9. ASSUME NEW h \in Handlers, Revoked(h) PROVE TypeInv'
  BY <1>t, <1>9, RespondFacts DEF Revoked, TypeInv, TypeOK
<1>10. ASSUME NEW h \in Handlers, RevocationFails(h) PROVE TypeInv'
  <2>1. req[h].tok \in Tokens
    BY <1>10, WaitingFacts DEF RevocationFails, Waiting, Creating
  <2> QED
    BY <1>t, <1>10, <2>1, RespondFacts DEF RevocationFails, TypeInv, TypeOK
<1>11. ASSUME NEW h \in Handlers, NEW t \in Tokens, RunStart(h, t) PROVE TypeInv'
  <2>1. req' \in [Handlers -> Request \cup {Idle}] /\ \A g \in Handlers : Named(req'[g])
    BY <1>11, AwaitFacts DEF RunStart, Waiting, Running
  <2> QED
    BY <1>t, <1>11, <2>1 DEF RunStart, TypeInv, TypeOK
<1>12. ASSUME NEW t \in Tokens, Drop(t)
       PROVE  /\ local' \in [Tokens -> {"unborn", "drawn", "live", "gone"}]
              /\ ended' \subseteq Tokens /\ loose' \subseteq Tokens
  BY <1>t, <1>12, EndsFacts DEF Drop, TypeOK
<1>13. ASSUME NEW h \in Handlers, NEW e \in 0..MaxTime + MaxLife, Checked(h, e)
       PROVE  TypeInv'
  <2>1. req[h].tok \in Tokens /\ e \in Nat
    BY <1>13, WaitingFacts DEF Checked, Waiting, Running
  <2>2. req' \in [Handlers -> Request \cup {Idle}] /\ \A g \in Handlers : Named(req'[g])
    BY <1>13, <2>1, AwaitFacts, RespondFacts DEF Checked, Waiting, Running
  <2>3. /\ local' \in [Tokens -> {"unborn", "drawn", "live", "gone"}]
        /\ exp' \in [Tokens -> Nat] /\ ended' \subseteq Tokens /\ loose' \subseteq Tokens
    BY <1>t, <1>12, <1>13, <2>1 DEF Checked, TypeOK
  <2> QED
    BY <1>t, <1>13, <2>2, <2>3 DEF Checked, TypeInv, TypeOK
<1>14. ASSUME NEW h \in Handlers, Permitted(h) PROVE TypeInv'
  <2>1. req[h].tok \in Tokens
    BY <1>14, WaitingFacts DEF Permitted, Waiting, Running
  <2>2. req' \in [Handlers -> Request \cup {Idle}] /\ \A g \in Handlers : Named(req'[g])
    BY <1>14, <2>1, AwaitFacts, RespondFacts DEF Permitted, Waiting, Running
  <2> QED
    BY <1>t, <1>14, <2>2 DEF Permitted, TypeInv, TypeOK
<1>15. ASSUME NEW h \in Handlers, Execute(h) PROVE TypeInv'
  <2>1. req[h].tok \in Tokens
    BY <1>15, WaitingFacts DEF Execute, Waiting, Running
  <2>2. proofs' \in [Tokens -> 0..MaxProofs]
    <3>1. proofs[req[h].tok] \in 0..MaxProofs
      BY <1>t, <2>1 DEF TypeOK
    <3> QED
      BY <1>t, <1>15, <2>1, <3>1 DEF Execute, TypeOK
  <2> QED
    BY <1>t, <1>15, <2>2, RespondFacts DEF Execute, TypeInv, TypeOK
<1>16. ASSUME NEW h \in Handlers, Denied(h) PROVE TypeInv'
  <2>1. req[h].tok \in Tokens
    BY <1>16, WaitingFacts DEF Denied, Waiting, Running
  <2> QED
    BY <1>t, <1>12, <1>16, <2>1, RespondFacts DEF Denied, TypeInv, TypeOK
<1>17. ASSUME NEW h \in Handlers, Disconnect(h) \/ LeaveVenue(h) PROVE TypeInv'
  BY <1>t, <1>17, FlagFacts DEF Disconnect, LeaveVenue, TypeInv, TypeOK
<1>18. CASE Tick
  BY <1>t, <1>18 DEF Tick, TypeInv, TypeOK
<1>19. CASE Close
  BY <1>t, <1>19 DEF Close, Live, TypeInv, TypeOK
<1>20. CASE UNCHANGED vars
  BY <1>t, <1>20 DEF vars, TypeInv, TypeOK
<1> QED
  BY <1>1, <1>2, <1>3, <1>4, <1>5, <1>6, <1>7, <1>8, <1>9, <1>10, <1>11, <1>13, <1>14,
     <1>15, <1>16, <1>17, <1>18, <1>19, <1>20 DEF Next

\* The types of CocoiruSession's variables, and the session each request in
\* flight is about (CocoiruSession!TypeOK).
THEOREM TypeCorrect == Spec => []TypeOK
<1>1. Spec => []TypeInv
  BY TypeInit, TypeNext, PTL DEF Spec
<1> QED
  BY <1>1, PTL DEF TypeInv

-----------------------------------------------------------------------------
(* The life of a token.                                                     *)

\* A token being bound was drawn for one creation, and Cr has not bound it yet.
BindInv ==
    \A h \in Handlers : req[h].pc = "binding" =>
        /\ local[req[h].tok] = "drawn" /\ grant[req[h].tok] # "bound"
        /\ \A g \in Handlers :
              req[g].pc = "binding" /\ req[g].tok = req[h].tok => g = h

\* A request that runs was admitted to a session, which may be over by now.
RunInv == \A h \in Handlers : req[h].pc \in Running => local[req[h].tok] \in {"live", "gone"}

FreshInv == \A t \in Tokens : local[t] = "unborn" => grant[t] # "bound"

\* What has ended stays away.
EndInv == \A t \in ended : local[t] = "gone"

SessInv == TypeInv /\ BindInv /\ RunInv /\ FreshInv /\ EndInv

\* What any step may do to a token, to a request, to a grant and to the sessions
\* that have ended.
BoundBy(h, t) == req[h].pc = "binding" /\ req[h].tok = t /\ req'[h].pc # "binding"

LocalMoves ==
    \A t \in Tokens :
        \/ local'[t] = local[t]
        \/ local[t] = "live" /\ local'[t] = "gone"
        \/ local[t] = "unborn" /\ local'[t] = "drawn"
        \/ /\ local[t] = "drawn" /\ local'[t] \in {"live", "gone"}
           /\ \E h \in Handlers : BoundBy(h, t)
           /\ local'[t] = "live" => exp'[t] > now /\ ~ closed /\ ~ closed'

ReqMoves ==
    \A h \in Handlers :
        \/ req'[h].tok = req[h].tok /\ req'[h].pc = req[h].pc
        \/ /\ req'[h].pc = "binding" /\ req'[h].tok \in Tokens
           /\ local[req'[h].tok] = "unborn" /\ local'[req'[h].tok] = "drawn"
           /\ \A g \in Handlers \ {h} : req'[g] = req[g]
        \/ /\ req'[h].pc \in Running /\ req[h].pc \in Running
           /\ req'[h].tok = req[h].tok
        \/ /\ req'[h].pc \in Running /\ req'[h].tok \in Tokens
           /\ local[req'[h].tok] = "live"
        \/ req'[h].pc \notin Running \cup {"binding"}

GrantMoves ==
    \A t \in Tokens : grant'[t] = "bound" =>
        grant[t] = "bound" \/ \E h \in Handlers : BoundBy(h, t)

EndedMoves ==
    \A t \in ended' :
        \/ t \in ended
        \/ t \in Tokens /\ local'[t] = "gone"

Moves == LocalMoves /\ ReqMoves /\ GrantMoves /\ EndedMoves

\* A step that only ends a request, or changes nothing of these.
LEMMA QuietMoves ==
    ASSUME SessInv, UNCHANGED <<local, grant, ended>>,
           UNCHANGED req \/ \E h \in Handlers : Respond(h) \/ Disconnect(h) \/ LeaveVenue(h)
    PROVE  Moves
<1>1. ReqMoves
  BY RespondFacts, FlagFacts DEF SessInv, ReqMoves, Idle, Running
<1> QED
  BY <1>1 DEF Moves, LocalMoves, GrantMoves, EndedMoves

LEMMA CreateMoves ==
    ASSUME SessInv, NEW h \in Handlers, NEW prev \in Tokens \cup {None}, CreateStart(h, prev)
    PROVE  Moves
<1>t. TypeInv /\ TypeOK
  BY DEF SessInv, TypeInv
<1>1. LocalMoves
  <2>1. CASE prev = None
    BY <1>t, <2>1, SweptType DEF CreateStart, LocalMoves
  <2>2. CASE prev # None
    <3>1. /\ local' = EndsLocally(Swept, prev) /\ prev \in Tokens
          /\ local[prev] \in {"live", "gone"}
      BY <2>2 DEF CreateStart
    <3>2. \A u \in Tokens : \/ local'[u] = local[u]
                            \/ local[u] = "live" /\ local'[u] = "gone"
      BY <1>t, <3>1, SweptType, EndsFacts
    <3> QED
      BY <3>2 DEF LocalMoves
  <2> QED
    BY <2>1, <2>2
<1>2. ReqMoves
  <2>1. /\ req'[h].pc \in {"replacing", "exchanging"}
        /\ \A g \in Handlers \ {h} : req'[g] = req[g]
    BY <1>t, AwaitFacts DEF CreateStart, Waiting, Creating
  <2> QED
    BY <2>1 DEF ReqMoves, Running
<1>3. EndedMoves
  <2> SUFFICES ASSUME NEW t \in ended', t \notin ended
               PROVE  t \in Tokens /\ local'[t] = "gone"
    BY DEF EndedMoves
  <2>1. /\ t = prev /\ prev \in Tokens /\ local[prev] \in {"live", "gone"}
        /\ local' = EndsLocally(Swept, prev)
    BY DEF CreateStart
  <2>2. Swept[prev] \in {"live", "gone"}
    BY <1>t, <2>1, SweptType
  <2> QED
    BY <1>t, <2>1, <2>2, SweptType, EndsFacts
<1> QED
  BY <1>1, <1>2, <1>3 DEF Moves, GrantMoves, CreateStart

LEMMA ExchangeMoves ==
    ASSUME SessInv, NEW h \in Handlers, Replaced(h) \/ Exchanged(h)
    PROVE  Moves
<1>t. TypeInv /\ TypeOK
  BY DEF SessInv, TypeInv
<1>1. CASE Replaced(h)
  <2>1. /\ req'[h].pc \in {"exchanging", "idle"}
        /\ \A g \in Handlers \ {h} : req'[g] = req[g]
    BY <1>t, <1>1, AwaitFacts, RespondFacts DEF Replaced, Waiting, Creating, Idle
  <2>2. ReqMoves
    BY <2>1 DEF ReqMoves, Running
  <2>3. GrantMoves
    BY <1>t, <1>1 DEF Replaced, GrantMoves, TypeOK
  <2> QED
    BY <1>1, <2>2, <2>3 DEF Replaced, Moves, LocalMoves, EndedMoves
<1>2. CASE Exchanged(h) /\ Open(h)
  <2>1. PICK t \in Tokens :
            /\ local[t] = "unborn" /\ local' = [local EXCEPT ![t] = "drawn"]
            /\ Await(h, "binding", t)
    BY <1>2 DEF Exchanged
  <2>2. LocalMoves /\ local'[t] = "drawn"
    BY <1>t, <2>1 DEF LocalMoves, TypeOK
  <2>3. /\ req'[h].pc = "binding" /\ req'[h].tok = t
        /\ \A g \in Handlers \ {h} : req'[g] = req[g]
    BY <1>t, <2>1, AwaitFacts DEF Waiting, Creating
  <2>4. ReqMoves
    BY <2>1, <2>2, <2>3 DEF ReqMoves
  <2> QED
    BY <1>2, <2>2, <2>4 DEF Exchanged, Moves, GrantMoves, EndedMoves
<1>3. CASE Exchanged(h) /\ ~ Open(h)
  BY <1>3, QuietMoves DEF Exchanged
<1> QED
  BY <1>1, <1>2, <1>3

LEMMA BoundMoves ==
    ASSUME SessInv, NEW h \in Handlers,
           BindFails(h) \/ \E e \in 0..MaxTime + MaxLife : Bound(h, e)
    PROVE  Moves
<1> DEFINE t == req[h].tok
<1>t. TypeInv /\ TypeOK
  BY DEF SessInv, TypeInv
<1>1. req[h].pc = "binding" /\ t \in Tokens /\ local[t] = "drawn"
  BY <1>t, WaitingFacts DEF BindFails, Bound, Waiting, Creating, SessInv, BindInv
<1>2. /\ req'[h].pc \in {"idle", "revoking", "cleaning"}
      /\ \A g \in Handlers \ {h} : req'[g] = req[g]
  BY <1>t, <1>1, AwaitFacts, RespondFacts
     DEF BindFails, Bound, Publish, TakeBack, Waiting, Idle
<1>3. BoundBy(h, t)
  BY <1>1, <1>2 DEF BoundBy
<1>4. ReqMoves
  BY <1>2 DEF ReqMoves, Running
<1>5. LocalMoves
  <2>1. CASE UNCHANGED local
    BY <2>1 DEF LocalMoves
  <2>2. ASSUME NEW e \in 0..MaxTime + MaxLife, Bound(h, e), Open(h), Publish(h, e), e > now
        PROVE  LocalMoves
    <3>1. /\ exp'[t] = e /\ local'[t] \in {"live", "gone"} /\ ~ closed /\ ~ closed'
          /\ \A u \in Tokens \ {t} : local'[u] = local[u]
      BY <1>t, <1>1, <2>2 DEF Bound, Publish, Open, TypeOK
    <3> QED
      BY <1>1, <1>3, <2>2, <3>1 DEF LocalMoves
  <2> QED
    BY <2>1, <2>2 DEF BindFails, Bound
<1>6. GrantMoves
  BY <1>t, <1>1, <1>3 DEF BindFails, Bound, GrantMoves, TypeOK
<1>7. EndedMoves
  BY <1>t, <1>1 DEF BindFails, Bound, Publish, EndedMoves, TypeOK
<1> QED
  BY <1>4, <1>5, <1>6, <1>7 DEF Moves

LEMMA LogoutMoves ==
    ASSUME SessInv, NEW h \in Handlers, NEW t \in Tokens, Logout(h, t)
    PROVE  Moves
<1>t. TypeInv /\ TypeOK
  BY DEF SessInv, TypeInv
<1>1. /\ req'[h].pc \in {"idle", "revoking"}
      /\ \A g \in Handlers \ {h} : req'[g] = req[g]
  BY <1>t, AwaitFacts DEF Logout, Waiting, Idle
<1>2. ReqMoves
  BY <1>1 DEF ReqMoves, Running
<1>3. /\ local'[t] = "gone" /\ local[t] \in {"live", "gone"}
      /\ \A u \in Tokens \ {t} : local'[u] = local[u]
  BY <1>t, EndsFacts DEF Logout, TypeOK
<1>4. LocalMoves /\ EndedMoves
  BY <1>3 DEF Logout, LocalMoves, EndedMoves
<1> QED
  BY <1>2, <1>4 DEF Logout, Moves, GrantMoves

LEMMA RevokeMoves ==
    ASSUME SessInv, NEW h \in Handlers, Revoked(h) \/ RevocationFails(h)
    PROVE  Moves
<1>t. TypeInv /\ TypeOK
  BY DEF SessInv, TypeInv
<1>1. ReqMoves
  BY <1>t, RespondFacts DEF Revoked, RevocationFails, ReqMoves, Idle, Running
<1>2. GrantMoves
  BY <1>t DEF Revoked, RevocationFails, GrantMoves, TypeOK
<1> QED
  BY <1>1, <1>2 DEF Revoked, RevocationFails, Moves, LocalMoves, EndedMoves

\* A session is dropped while the request that learns of it runs.
LEMMA DropMoves ==
    ASSUME SessInv, NEW t \in Tokens, local[t] \in {"live", "gone"}, Drop(t)
    PROVE  LocalMoves /\ EndedMoves
<1>t. TypeOK
  BY DEF SessInv, TypeInv
<1> QED
  <2>1. /\ local'[t] = "gone" /\ \A u \in Tokens \ {t} : local'[u] = local[u]
        /\ ended' = ended \cup {t}
    BY <1>t, EndsFacts DEF Drop, TypeOK
  <2> QED
    BY <2>1 DEF LocalMoves, EndedMoves

LEMMA RunMoves ==
    ASSUME SessInv, NEW h \in Handlers,
           \/ \E t \in Tokens : RunStart(h, t)
           \/ \E e \in 0..MaxTime + MaxLife : Checked(h, e)
           \/ Permitted(h) \/ Denied(h)
    PROVE  Moves
<1>t. TypeInv /\ TypeOK
  BY DEF SessInv, TypeInv
<1>1. ASSUME NEW t \in Tokens, RunStart(h, t) PROVE Moves
  <2>1. /\ req'[h].pc = "checking" /\ req'[h].tok = t
        /\ \A g \in Handlers \ {h} : req'[g] = req[g]
    BY <1>t, <1>1, AwaitFacts DEF RunStart, Waiting, Running
  <2>2. ReqMoves
    BY <1>1, <2>1 DEF RunStart, ReqMoves, Running
  <2> QED
    BY <1>1, <2>2 DEF RunStart, Moves, LocalMoves, GrantMoves, EndedMoves
<1>2. ASSUME req[h].pc \in Running
      PROVE  req[h].tok \in Tokens /\ local[req[h].tok] \in {"live", "gone"}
  BY <1>t, <1>2, WaitingFacts DEF Waiting, Running, SessInv, RunInv
<1>3. ASSUME NEW e \in 0..MaxTime + MaxLife, Checked(h, e) PROVE Moves
  <2>1. req[h].pc \in Running
    BY <1>3 DEF Checked, Running
  <2>2. /\ \/ req'[h].pc = "idle"
           \/ req'[h].pc \in Running /\ req'[h].tok = req[h].tok
        /\ \A g \in Handlers \ {h} : req'[g] = req[g]
    BY <1>t, <1>2, <1>3, <2>1, AwaitFacts, RespondFacts DEF Checked, Waiting, Running, Idle
  <2>3. ReqMoves
    BY <2>1, <2>2 DEF ReqMoves, Running
  <2>4. LocalMoves /\ EndedMoves
    <3>1. CASE UNCHANGED <<local, ended>>
      BY <3>1 DEF LocalMoves, EndedMoves
    <3>2. CASE Drop(req[h].tok)
      BY <1>2, <2>1, <3>2, DropMoves
    <3> QED
      BY <1>3, <3>1, <3>2 DEF Checked
  <2> QED
    BY <1>3, <2>3, <2>4 DEF Checked, Moves, GrantMoves
<1>4. CASE Permitted(h)
  <2>1. req[h].pc \in Running
    BY <1>4 DEF Permitted, Running
  <2>2. /\ \/ req'[h].pc = "idle"
           \/ req'[h].pc \in Running /\ req'[h].tok = req[h].tok
        /\ \A g \in Handlers \ {h} : req'[g] = req[g]
    BY <1>t, <1>2, <1>4, <2>1, AwaitFacts, RespondFacts DEF Permitted, Waiting, Running, Idle
  <2>3. ReqMoves
    BY <2>1, <2>2 DEF ReqMoves, Running
  <2> QED
    BY <1>4, <2>3 DEF Permitted, Moves, LocalMoves, GrantMoves, EndedMoves
<1>5. CASE Denied(h)
  <2>1. req[h].pc \in Running
    BY <1>5 DEF Denied, Running
  <2>2. ReqMoves
    BY <1>t, <1>5, RespondFacts DEF Denied, ReqMoves, Idle, Running
  <2> QED
    BY <1>2, <1>5, <2>1, <2>2, DropMoves DEF Denied, Moves, GrantMoves
<1> QED
  BY <1>1, <1>3, <1>4, <1>5

LEMMA StepMoves == SessInv /\ [Next]_vars => Moves
<1> SUFFICES ASSUME SessInv, [Next]_vars PROVE Moves
  OBVIOUS
<1>t. TypeInv /\ TypeOK
  BY DEF SessInv, TypeInv
<1>1. ASSUME NEW h \in Handlers,
             ExchangeFails(h) \/ Execute(h) \/ RunFails(h) \/ Disconnect(h) \/ LeaveVenue(h)
      PROVE  Moves
  BY <1>1, QuietMoves DEF ExchangeFails, Execute, RunFails, Disconnect, LeaveVenue
<1>2. ASSUME NEW h \in Handlers, CreateRefused(h) PROVE Moves
  BY <1>t, <1>2, SweptType
     DEF CreateRefused, Moves, LocalMoves, ReqMoves, GrantMoves, EndedMoves
<1>3. CASE Tick \/ UNCHANGED vars
  BY <1>3, QuietMoves DEF Tick, vars
<1>4. CASE Close
  BY <1>t, <1>4 DEF Close, Live, TypeOK, Moves, LocalMoves, ReqMoves, GrantMoves, EndedMoves
<1> QED
  BY <1>1, <1>2, <1>3, <1>4, CreateMoves, ExchangeMoves, BoundMoves, LogoutMoves, RevokeMoves,
     RunMoves DEF Next

LEMMA SessInit == Init => SessInv
<1> SUFFICES ASSUME Init PROVE SessInv
  OBVIOUS
<1> QED
  BY TypeInit DEF Init, SessInv, BindInv, RunInv, FreshInv, EndInv, Idle, Running

LEMMA SessNext == SessInv /\ [Next]_vars => SessInv'
<1> SUFFICES ASSUME SessInv, [Next]_vars PROVE SessInv'
  OBVIOUS
<1>t. /\ TypeInv /\ TypeInv' /\ TypeOK /\ TypeOK'
      /\ LocalMoves /\ ReqMoves /\ GrantMoves /\ EndedMoves
  BY TypeNext, StepMoves DEF SessInv, TypeInv, Moves
<1>r. \A h \in Handlers :
         /\ req[h].pc \in Running \cup {"binding"} => req[h].tok \in Tokens
         /\ req'[h].pc \in Running \cup {"binding"} => req'[h].tok \in Tokens
  BY <1>t DEF TypeInv, Named, Running
<1>1. BindInv'
  <2> SUFFICES ASSUME NEW h \in Handlers, req'[h].pc = "binding"
               PROVE  /\ local'[req'[h].tok] = "drawn" /\ grant'[req'[h].tok] # "bound"
                      /\ \A g \in Handlers :
                            req'[g].pc = "binding" /\ req'[g].tok = req'[h].tok => g = h
    BY DEF BindInv
  <2> DEFINE t == req'[h].tok
  <2>1. t \in Tokens
    BY <1>r
  <2>2. \A g \in Handlers :
           \/ req'[g].pc # "binding"
           \/ req[g].pc = "binding" /\ req'[g].tok = req[g].tok
           \/ g = h /\ local[t] = "unborn"
           \/ req[h].pc = "binding" /\ req[h].tok = t /\ local[req'[g].tok] = "unborn"
    BY <1>t DEF ReqMoves, Running
  <2>3. CASE req[h].pc = "binding" /\ req[h].tok = t
    <3>1. /\ local[t] = "drawn" /\ grant[t] # "bound"
          /\ \A g \in Handlers : req[g].pc = "binding" /\ req[g].tok = t => g = h
      BY <2>3 DEF SessInv, BindInv
    <3>2. \A g \in Handlers : ~ BoundBy(g, t)
      BY <3>1 DEF BoundBy
    <3>3. local'[t] = "drawn" /\ grant'[t] # "bound"
      BY <1>t, <2>1, <3>1, <3>2 DEF LocalMoves, GrantMoves
    <3> QED
      BY <2>2, <3>1, <3>3
  <2>4. CASE ~ (req[h].pc = "binding" /\ req[h].tok = t)
    <3>1. local[t] = "unborn" /\ local'[t] = "drawn" /\ \A g \in Handlers \ {h} : req'[g] = req[g]
      BY <1>t, <2>4 DEF ReqMoves, Running
    <3>2. \A g \in Handlers : ~ (req[g].pc = "binding" /\ req[g].tok = t)
      BY <3>1 DEF SessInv, BindInv
    <3>3. grant'[t] # "bound"
      BY <1>t, <2>1, <3>1, <3>2 DEF GrantMoves, BoundBy, SessInv, FreshInv
    <3> QED
      BY <3>1, <3>2, <3>3
  <2> QED
    BY <2>3, <2>4
<1>2. RunInv'
  <2> SUFFICES ASSUME NEW h \in Handlers, req'[h].pc \in Running
               PROVE  local'[req'[h].tok] \in {"live", "gone"}
    BY DEF RunInv
  <2>1. req'[h].tok \in Tokens /\ local[req'[h].tok] \in {"live", "gone"}
    BY <1>t, <1>r DEF ReqMoves, Running, SessInv, RunInv
  <2> QED
    BY <1>t, <2>1 DEF LocalMoves
<1>3. FreshInv'
  <2> SUFFICES ASSUME NEW t \in Tokens, local'[t] = "unborn" PROVE grant'[t] # "bound"
    BY DEF FreshInv
  <2>1. CASE local[t] = "unborn"
    BY <1>t, <2>1 DEF GrantMoves, BoundBy, SessInv, FreshInv, BindInv
  <2>2. CASE local[t] # "unborn"
    BY <1>t, <2>2 DEF LocalMoves
  <2> QED
    BY <2>1, <2>2
<1>4. EndInv'
  BY <1>t DEF EndedMoves, LocalMoves, SessInv, EndInv, TypeOK
<1> QED
  BY <1>t, <1>1, <1>2, <1>3, <1>4 DEF SessInv

LEMMA SessHolds == Spec => []SessInv
  BY SessInit, SessNext, PTL DEF Spec

\* A session that was logged out, replaced, denied or shut down issues no proof,
\* although its request had its permit before (CocoiruSession!NoProofAfterEnd).
THEOREM EndIsFinal == Spec => NoProofAfterEnd
<1>1. ASSUME SessInv, Next, NEW t \in Tokens, proofs'[t] > proofs[t] PROVE t \notin ended
  <2>t. TypeInv /\ TypeOK
    BY <1>1 DEF SessInv, TypeInv
  <2>1. proofs' # proofs
    BY <1>1, <2>t DEF TypeOK
  <2>2. PICK h \in Handlers : Execute(h)
    BY <1>1, <2>1 DEF Next, CreateStart, CreateRefused, Replaced, Exchanged, ExchangeFails, Bound,
       BindFails, Logout, Revoked, RevocationFails, RunStart, Checked, Permitted, Denied,
       RunFails, Disconnect, LeaveVenue, Tick, Close
  <2>3. req[h].tok \in Tokens
    BY <2>t, <2>2, WaitingFacts DEF Execute, Waiting, Running
  <2>4. MayExecute(h) /\ proofs' = [proofs EXCEPT ![req[h].tok] = @ + 1]
    BY <2>1, <2>2 DEF Execute
  <2>5. t = req[h].tok
    BY <1>1, <2>t, <2>3, <2>4 DEF TypeOK
  <2> QED
    BY <1>1, <2>4, <2>5 DEF MayExecute, Current, SessInv, EndInv
<1>2. SessInv /\ [Next]_vars => [\A t \in Tokens : proofs'[t] > proofs[t] => t \notin ended]_vars
  BY <1>1
<1> QED
  BY <1>2, SessHolds, PTL DEF Spec, NoProofAfterEnd

\* Shutdown ends every session, and a creation it overtakes publishes none
\* (CocoiruSession!ClosedIsEmpty).
THEOREM ShutdownEndsEverySession == Spec => []ClosedIsEmpty
<1>1. Init => ClosedIsEmpty
  BY DEF Init, ClosedIsEmpty
<1>2. SessInv /\ ClosedIsEmpty /\ [Next]_vars => ClosedIsEmpty'
  <2> SUFFICES ASSUME SessInv, ClosedIsEmpty, [Next]_vars, closed', NEW t \in Tokens
               PROVE  local'[t] # "live"
    BY DEF ClosedIsEmpty, Live
  <2>1. CASE closed
    BY <2>1, StepMoves DEF Moves, LocalMoves, ClosedIsEmpty, Live
  <2>2. CASE ~ closed
    <3>1. Close
      BY <2>2 DEF Next, vars, CreateStart, CreateRefused, Replaced, Exchanged, ExchangeFails, Bound,
         BindFails, Logout, Revoked, RevocationFails, RunStart, Checked, Permitted, Execute,
         Denied, RunFails, Disconnect, LeaveVenue, Tick
    <3> QED
      BY <3>1 DEF Close
  <2> QED
    BY <2>1, <2>2
<1> QED
  BY <1>1, <1>2, SessHolds, PTL DEF Spec

-----------------------------------------------------------------------------
(* The capacity.                                                            *)

\* Only finitely many sessions are kept and creations in flight, whatever the
\* number of tokens and of clients.
CapInv ==
    /\ IsFiniteSet(Live(local)) /\ IsFiniteSet(Pending)
    /\ CapacityHolds

PendingPc == Creating \cup {"cleaning"}

LEMMA CapShrinks ==
    ASSUME CapInv, Live(local)' \subseteq Live(local), Pending' \subseteq Pending
    PROVE  CapInv'
<1>1. /\ IsFiniteSet(Live(local)') /\ Cardinality(Live(local)') <= Cardinality(Live(local))
      /\ IsFiniteSet(Pending') /\ Cardinality(Pending') <= Cardinality(Pending)
  BY FS_Subset DEF CapInv
<1>2. /\ Cardinality(Live(local)) \in Nat /\ Cardinality(Pending) \in Nat
      /\ Cardinality(Live(local)') \in Nat /\ Cardinality(Pending') \in Nat
  BY <1>1, FS_CardinalityType DEF CapInv
<1>3. CapacityHolds'
  BY <1>1, <1>2, CocoiruAssumption DEF CapInv, CapacityHolds
<1> QED
  BY <1>1, <1>3 DEF CapInv

LEMMA CapInit == Init => CapInv
<1> SUFFICES ASSUME Init PROVE CapInv
  OBVIOUS
<1>1. Live(local) = {} /\ Pending = {}
  BY DEF Init, Live, Pending, Idle, Creating
<1> QED
  BY <1>1, FS_EmptySet, CocoiruAssumption DEF CapInv, CapacityHolds

\* A creation is admitted when there is room for its session.
LEMMA CapCreate ==
    ASSUME SessInv, CapInv, NEW h \in Handlers, NEW prev \in Tokens \cup {None},
           CreateStart(h, prev)
    PROVE  CapInv'
<1> DEFINE L == Live(Swept)
<1>t. TypeInv /\ TypeOK
  BY DEF SessInv, TypeInv
<1>1. L \subseteq Live(local)
  BY <1>t, SweptType DEF Live
<1>2. Live(local)' \subseteq L
  <2>1. \A t \in Tokens : local'[t] = "live" => Swept[t] = "live"
    BY <1>t, SweptType, EndsFacts DEF CreateStart
  <2> QED
    BY <2>1 DEF Live
<1>3. Pending' \subseteq Pending \cup {h}
  <2>1. \A g \in Handlers \ {h} : req'[g] = req[g]
    BY <1>t, AwaitFacts DEF CreateStart, Waiting, Creating
  <2> QED
    BY <2>1 DEF Pending
<1>4. /\ IsFiniteSet(L) /\ IsFiniteSet(Live(local)')
      /\ Cardinality(Live(local)') <= Cardinality(L)
  <2>1. IsFiniteSet(L)
    BY <1>1, FS_Subset DEF CapInv
  <2> QED
    BY <1>2, <2>1, FS_Subset
<1>5. /\ IsFiniteSet(Pending \cup {h}) /\ Cardinality(Pending \cup {h}) <= Cardinality(Pending) + 1
  <2>1. Cardinality(Pending) \in Nat
    BY FS_CardinalityType DEF CapInv
  <2> QED
    <3>1. IsFiniteSet(Pending)
      BY DEF CapInv
    <3>2. /\ IsFiniteSet(Pending \cup {h})
          /\ Cardinality(Pending \cup {h}) =
                IF h \in Pending THEN Cardinality(Pending) ELSE Cardinality(Pending) + 1
      BY <3>1, FS_AddElement
    <3> QED
      BY <2>1, <3>2
<1>6. IsFiniteSet(Pending') /\ Cardinality(Pending') <= Cardinality(Pending \cup {h})
  BY <1>3, <1>5, FS_Subset
<1>7. /\ Cardinality(L) \in Nat /\ Cardinality(Live(local)') \in Nat
      /\ Cardinality(Pending) \in Nat /\ Cardinality(Pending') \in Nat
      /\ Cardinality(Pending \cup {h}) \in Nat
  BY <1>4, <1>5, <1>6, FS_CardinalityType DEF CapInv
<1>8. Cardinality(L) + Cardinality(Pending) < Capacity /\ Cardinality(Pending) < MaxPending
  BY DEF CreateStart, HasRoom
<1>9. CapacityHolds'
  BY <1>4, <1>5, <1>6, <1>7, <1>8, CocoiruAssumption DEF CapacityHolds
<1> QED
  BY <1>4, <1>6, <1>9 DEF CapInv

\* A creation that publishes its session makes way for it.
LEMMA CapBound ==
    ASSUME SessInv, CapInv, NEW h \in Handlers, NEW e \in 0..MaxTime + MaxLife, Bound(h, e)
    PROVE  CapInv'
<1> DEFINE t == req[h].tok
<1>t. TypeInv /\ TypeOK
  BY DEF SessInv, TypeInv
<1>1. req[h].pc = "binding" /\ t \in Tokens
  BY <1>t, WaitingFacts DEF Bound, Waiting, Creating
<1>2. CASE local'[t] # "live"
  <2>1. Live(local)' \subseteq Live(local)
    BY <1>t, <1>1, <1>2 DEF Bound, Publish, Live, TypeOK
  <2>2. Pending' \subseteq Pending
    <3>1. \A g \in Handlers \ {h} : req'[g] = req[g]
      BY <1>t, <1>1, AwaitFacts, RespondFacts DEF Bound, Publish, TakeBack, Waiting
    <3> QED
      BY <1>1, <3>1 DEF Pending, Creating
  <2> QED
    BY <2>1, <2>2, CapShrinks
<1>3. CASE local'[t] = "live"
  <2>1. local' = [local EXCEPT ![t] = "live"] /\ Respond(h)
    <3>1. local[t] # "live"
      BY <1>1 DEF SessInv, BindInv
    <3> QED
      BY <1>t, <1>1, <1>3, <3>1 DEF Bound, Publish, TypeOK
  <2>2. Live(local)' \subseteq Live(local) \cup {t}
    BY <1>t, <2>1 DEF Live, TypeOK
  <2>3. Pending' \subseteq Pending \ {h} /\ h \in Pending
    BY <1>t, <1>1, <2>1, RespondFacts DEF Pending, Creating
  <2>4. /\ IsFiniteSet(Live(local) \cup {t}) /\ IsFiniteSet(Pending \ {h})
        /\ Cardinality(Live(local) \cup {t}) <= Cardinality(Live(local)) + 1
        /\ Cardinality(Pending \ {h}) = Cardinality(Pending) - 1
        /\ Cardinality(Live(local)) \in Nat /\ Cardinality(Pending) \in Nat
    <3>1. Cardinality(Live(local)) \in Nat /\ Cardinality(Pending) \in Nat
      BY FS_CardinalityType DEF CapInv
    <3>2. IsFiniteSet(Live(local)) /\ IsFiniteSet(Pending)
      BY DEF CapInv
    <3>3. /\ IsFiniteSet(Live(local) \cup {t})
          /\ Cardinality(Live(local) \cup {t}) =
                IF t \in Live(local) THEN Cardinality(Live(local))
                ELSE Cardinality(Live(local)) + 1
      BY <3>2, FS_AddElement
    <3>4. /\ IsFiniteSet(Pending \ {h})
          /\ Cardinality(Pending \ {h}) =
                IF h \in Pending THEN Cardinality(Pending) - 1 ELSE Cardinality(Pending)
      BY <3>2, FS_RemoveElement
    <3> QED
      BY <2>3, <3>1, <3>3, <3>4
  <2>5. /\ IsFiniteSet(Live(local)') /\ IsFiniteSet(Pending')
        /\ Cardinality(Live(local)') <= Cardinality(Live(local) \cup {t})
        /\ Cardinality(Pending') <= Cardinality(Pending \ {h})
    BY <2>2, <2>3, <2>4, FS_Subset
  <2>6. /\ Cardinality(Live(local)') \in Nat /\ Cardinality(Pending') \in Nat
        /\ Cardinality(Live(local) \cup {t}) \in Nat /\ Cardinality(Pending \ {h}) \in Nat
    BY <2>4, <2>5, FS_CardinalityType
  <2>7. CapacityHolds'
    BY <2>4, <2>5, <2>6, CocoiruAssumption DEF CapInv, CapacityHolds
  <2> QED
    BY <2>5, <2>7 DEF CapInv
<1> QED
  BY <1>2, <1>3

LEMMA CapNext == SessInv /\ CapInv /\ [Next]_vars => CapInv'
<1> SUFFICES ASSUME SessInv, CapInv, [Next]_vars PROVE CapInv'
  OBVIOUS
<1>t. TypeInv /\ TypeOK
  BY DEF SessInv, TypeInv
<1> DEFINE LiveLess == \A t \in Tokens : local'[t] = "live" => local[t] = "live"
           PendLess == \A g \in Handlers : req'[g].pc \in PendingPc => req[g].pc \in PendingPc
<1>1. ASSUME LiveLess, PendLess PROVE CapInv'
  BY <1>1, CapShrinks DEF Live, Pending, PendingPc
<1>2. ASSUME NEW h \in Handlers,
             \/ Exchanged(h) \/ Replaced(h) \/ ExchangeFails(h) \/ BindFails(h)
             \/ Revoked(h) \/ RevocationFails(h)
      PROVE  CapInv'
  <2>1. LiveLess
    BY <1>t, <1>2 DEF Exchanged, Replaced, ExchangeFails, BindFails, Revoked, RevocationFails, TypeOK
  <2>2. PendLess
    <3>1. CASE Respond(h)
      BY <1>t, <3>1, RespondFacts DEF PendingPc, Creating
    <3>2. CASE Replaced(h) /\ Await(h, "exchanging", None)
      BY <1>t, <3>2, AwaitFacts DEF Replaced, PendingPc, Creating, Waiting
    <3>3. ASSUME NEW t \in Tokens, Exchanged(h), Await(h, "binding", t) PROVE PendLess
      BY <1>t, <3>3, AwaitFacts DEF Exchanged, PendingPc, Creating, Waiting
    <3> QED
      BY <1>2, <3>1, <3>2, <3>3
         DEF Exchanged, Replaced, ExchangeFails, BindFails, Revoked, RevocationFails
  <2> QED
    BY <1>1, <2>1, <2>2
<1>3. ASSUME NEW h \in Handlers, NEW t \in Tokens, Logout(h, t) PROVE CapInv'
  <2>1. LiveLess
    <3>1. local' = EndsLocally(local, t) /\ local \in [Tokens -> {"unborn", "drawn", "live", "gone"}]
      BY <1>t, <1>3 DEF Logout, TypeOK
    <3> QED
      BY <3>1, EndsFacts
  <2>2. PendLess
    BY <1>t, <1>3, AwaitFacts DEF Logout, PendingPc, Creating, Waiting
  <2> QED
    BY <1>1, <2>1, <2>2
<1>4. ASSUME NEW h \in Handlers, NEW t \in Tokens, RunStart(h, t) PROVE CapInv'
  <2>1. PendLess
    BY <1>t, <1>4, AwaitFacts DEF RunStart, PendingPc, Creating, Waiting, Running
  <2> QED
    BY <1>1, <1>4, <2>1 DEF RunStart
<1>5. ASSUME NEW h \in Handlers, Execute(h) \/ RunFails(h) \/ Permitted(h) \/ Denied(h)
                               \/ \E e \in 0..MaxTime + MaxLife : Checked(h, e)
      PROVE  CapInv'
  <2>1. req[h].tok \in Tokens
    BY <1>t, <1>5, WaitingFacts
       DEF Execute, RunFails, Permitted, Denied, Checked, Waiting, Running
  <2>2. LiveLess
    <3>1. /\ UNCHANGED local \/ local' = EndsLocally(local, req[h].tok)
          /\ local \in [Tokens -> {"unborn", "drawn", "live", "gone"}]
      BY <1>t, <1>5 DEF Execute, RunFails, Permitted, Denied, Checked, Drop, TypeOK
    <3> QED
      BY <2>1, <3>1, EndsFacts
  <2>3. PendLess
    BY <1>t, <1>5, <2>1, AwaitFacts, RespondFacts
       DEF Execute, RunFails, Permitted, Denied, Checked, PendingPc, Creating, Waiting, Running
  <2> QED
    BY <1>1, <2>2, <2>3
<1>6. ASSUME NEW h \in Handlers, Disconnect(h) \/ LeaveVenue(h) PROVE CapInv'
  <2>1. PendLess
    BY <1>t, <1>6, FlagFacts
  <2> QED
    BY <1>1, <1>6, <2>1 DEF Disconnect, LeaveVenue
<1>7. CASE Tick \/ Close \/ UNCHANGED vars \/ \E h \in Handlers : CreateRefused(h)
  BY <1>t, <1>1, <1>7, SweptType DEF Tick, Close, vars, CreateRefused
<1> QED
  BY <1>2, <1>3, <1>4, <1>5, <1>6, <1>7, CapCreate, CapBound DEF Next

\* The sessions kept and the creations in flight never exceed the capacity, nor
\* the creations their own limit (CocoiruSession!CapacityHolds).
THEOREM CapacityIsKept == Spec => []CapacityHolds
<1>1. Spec => []CapInv
  BY CapInit, CapNext, SessHolds, PTL DEF Spec
<1> QED
  BY <1>1, PTL DEF CapInv

-----------------------------------------------------------------------------
(* The grants at Cr.                                                        *)

\* What any step may do to the deadline of a session, what it leaves to a session
\* it ends, to a revocation in flight and to a binding that is answered.
ExpMoves ==
    \A t \in Tokens :
        \/ exp'[t] = exp[t]
        \/ exp'[t] > now /\ (exp[t] > now \/ \E h \in Handlers : BoundBy(h, t))

CaredFor(t) == t \in loose' \/ \E h \in Handlers : req'[h].tok = t /\ req'[h].pc \notin Running

EndCares ==
    \A t \in Tokens : local[t] = "live" /\ local'[t] = "gone" => CaredFor(t) \/ exp[t] <= now

RevokeCares ==
    \A h \in Handlers : req[h].pc \in {"replacing", "revoking", "cleaning"} =>
        CaredFor(req[h].tok) \/ grant'[req[h].tok] = "revoked"

BindCares ==
    \A h \in Handlers, t \in Tokens : BoundBy(h, t) /\ grant'[t] = "bound" =>
        CaredFor(t) \/ local'[t] = "live"

Cares == ExpMoves /\ EndCares /\ RevokeCares /\ BindCares /\ loose \subseteq loose' /\ now' >= now

\* A step that ends no session, and no request in flight but perhaps one that
\* held no grant.
LEMMA QuietCares ==
    ASSUME SessInv, UNCHANGED <<exp, local, grant, loose>>, now' >= now,
           \A g \in Handlers :
              \/ req'[g].pc = req[g].pc /\ req'[g].tok = req[g].tok
              \/ req[g].pc \notin {"replacing", "revoking", "cleaning", "binding"}
    PROVE  Cares
  BY DEF Cares, ExpMoves, EndCares, RevokeCares, BindCares, CaredFor, BoundBy, Running

LEMMA CreateCares ==
    ASSUME SessInv, NEW h \in Handlers, NEW prev \in Tokens \cup {None}, CreateStart(h, prev)
    PROVE  Cares
<1>t. TypeInv /\ TypeOK
  BY DEF SessInv, TypeInv
<1>1. /\ \A g \in Handlers \ {h} : req'[g] = req[g]
      /\ req[h].pc = "idle"
  BY <1>t, AwaitFacts DEF CreateStart, Waiting, Creating, Idle
<1>2. ASSUME NEW t \in Tokens, local[t] = "live", local'[t] = "gone"
      PROVE  CaredFor(t) \/ exp[t] <= now
  <2>1. CASE Swept[t] # "live"
    BY <1>t, <1>2, <2>1, SweptType
  <2>2. CASE Swept[t] = "live"
    <3>1. prev = t
      BY <1>t, <1>2, <2>2, SweptType, EndsFacts DEF CreateStart
    <3>2. Await(h, "replacing", t)
      BY <2>2, <3>1, CocoiruAssumption DEF CreateStart
    <3>3. req'[h].tok = t /\ req'[h].pc = "replacing"
      BY <1>t, <3>2, AwaitFacts DEF Waiting, Creating
    <3> QED
      BY <3>3 DEF CaredFor, Running
  <2> QED
    BY <2>1, <2>2
<1>3. EndCares
  BY <1>2 DEF EndCares
<1>4. RevokeCares /\ BindCares
  BY <1>1 DEF RevokeCares, BindCares, CaredFor, BoundBy, Running
<1> QED
  BY <1>t, <1>3, <1>4 DEF CreateStart, Cares, ExpMoves, TypeOK

LEMMA BoundCares ==
    ASSUME SessInv, NEW h \in Handlers,
           BindFails(h) \/ \E e \in 0..MaxTime + MaxLife : Bound(h, e)
    PROVE  Cares
<1> DEFINE t == req[h].tok
<1>t. TypeInv /\ TypeOK
  BY DEF SessInv, TypeInv
<1>1. req[h].pc = "binding" /\ t \in Tokens /\ local[t] = "drawn" /\ grant[t] # "bound"
  BY <1>t, WaitingFacts DEF BindFails, Bound, Waiting, Creating, SessInv, BindInv
<1>2. /\ req'[h].pc \in {"idle", "revoking", "cleaning"}
      /\ \A g \in Handlers \ {h} : req'[g] = req[g]
      /\ req'[h].pc # "idle" => req'[h].tok = t
      /\ req'[h].pc = "idle" => t \in loose' \/ local'[t] = "live" \/ grant'[t] = grant[t]
  <2>1. CASE BindFails(h)
    BY <1>t, <2>1, RespondFacts DEF BindFails
  <2>2. ASSUME NEW e \in 0..MaxTime + MaxLife, Bound(h, e), Publish(h, e), ~ req[h].away
        PROVE  req'[h].pc = "idle" /\ local'[t] = "live"
               /\ \A g \in Handlers \ {h} : req'[g] = req[g]
    BY <1>t, <1>1, <2>2, RespondFacts DEF Publish, TypeOK
  <2>3. CASE Await(h, "revoking", t) \/ Await(h, "cleaning", t)
    BY <1>t, <1>1, <2>3, AwaitFacts DEF Waiting
  <2> QED
    BY <2>1, <2>2, <2>3 DEF Bound, Publish, TakeBack
<1>3. BoundBy(h, t)
  BY <1>1, <1>2 DEF BoundBy
<1>4. ExpMoves
  <2>1. CASE UNCHANGED exp
    BY <2>1 DEF ExpMoves
  <2>2. ASSUME NEW e \in 0..MaxTime + MaxLife, Bound(h, e), Publish(h, e), e > now
        PROVE  ExpMoves
    <3>1. exp'[t] = e /\ \A u \in Tokens \ {t} : exp'[u] = exp[u]
      BY <1>t, <1>1, <2>2 DEF Publish, TypeOK
    <3> QED
      BY <1>1, <1>3, <2>2, <3>1 DEF ExpMoves
  <2> QED
    BY <2>1, <2>2 DEF BindFails, Bound
<1>5. EndCares
  <2>1. \A u \in Tokens \ {t} : local'[u] = local[u]
    BY <1>t, <1>1 DEF BindFails, Bound, Publish, TypeOK
  <2> QED
    BY <1>1, <2>1 DEF EndCares
<1>6. RevokeCares
  BY <1>1, <1>2 DEF RevokeCares, CaredFor, Running
<1>7. BindCares
  <2> SUFFICES ASSUME NEW g \in Handlers, NEW u \in Tokens, BoundBy(g, u), grant'[u] = "bound"
               PROVE  CaredFor(u) \/ local'[u] = "live"
    BY DEF BindCares
  <2>1. g = h /\ u = t
    BY <1>2 DEF BoundBy
  <2> QED
    BY <1>1, <1>2, <2>1 DEF CaredFor, Running
<1>8. loose \subseteq loose' /\ now' >= now
  BY <1>t DEF BindFails, Bound, TypeOK
<1> QED
  BY <1>4, <1>5, <1>6, <1>7, <1>8 DEF Cares

LEMMA RevocationCares ==
    ASSUME SessInv, NEW h \in Handlers,
           Replaced(h) \/ Revoked(h) \/ RevocationFails(h)
    PROVE  Cares
<1> DEFINE t == req[h].tok
<1>t. TypeInv /\ TypeOK
  BY DEF SessInv, TypeInv
<1>1. t \in Tokens /\ req[h].pc \in {"replacing", "revoking", "cleaning"}
  BY <1>t, WaitingFacts DEF Replaced, Revoked, RevocationFails, Waiting, Creating
<1>2. \A g \in Handlers \ {h} : req'[g] = req[g]
  BY <1>t, AwaitFacts, RespondFacts DEF Replaced, Revoked, RevocationFails, Waiting, Creating
<1>3. t \in loose' \/ grant'[t] = "revoked"
  BY <1>t, <1>1 DEF Replaced, Revoked, RevocationFails, TypeOK
<1>4. RevokeCares
  BY <1>2, <1>3 DEF RevokeCares, CaredFor, Running
<1>5. BindCares
  BY <1>1, <1>2 DEF BindCares, BoundBy
<1>6. UNCHANGED <<exp, local, now>> /\ loose \subseteq loose'
  BY DEF Replaced, Revoked, RevocationFails
<1> QED
  BY <1>t, <1>4, <1>5, <1>6 DEF Cares, ExpMoves, EndCares, TypeOK

LEMMA LogoutCares ==
    ASSUME SessInv, NEW h \in Handlers, NEW t \in Tokens, Logout(h, t)
    PROVE  Cares
<1>t. TypeInv /\ TypeOK
  BY DEF SessInv, TypeInv
<1>1. /\ \A g \in Handlers \ {h} : req'[g] = req[g]
      /\ req[h].pc = "idle"
  BY <1>t, AwaitFacts DEF Logout, Waiting, Idle
<1>2. \A u \in Tokens \ {t} : local'[u] = local[u]
  BY <1>t, EndsFacts DEF Logout, TypeOK
<1>3. local[t] = "live" => CaredFor(t) \/ exp[t] <= now
  <2>1. CASE local[t] = "live" /\ exp[t] > now
    <3>1. req'[h].tok = t /\ req'[h].pc = "revoking"
      BY <1>t, <2>1, AwaitFacts DEF Logout, Waiting
    <3> QED
      BY <3>1 DEF CaredFor, Running
  <2> QED
    BY <1>t, <2>1 DEF TypeOK
<1>4. EndCares
  BY <1>2, <1>3 DEF EndCares
<1>5. RevokeCares /\ BindCares
  BY <1>1 DEF RevokeCares, BindCares, CaredFor, BoundBy, Running
<1> QED
  BY <1>t, <1>4, <1>5 DEF Logout, Cares, ExpMoves, TypeOK

\* A request that runs drops its session with its grant, or renews its deadline.
LEMMA RunCares ==
    ASSUME SessInv, NEW h \in Handlers, NEW t \in Tokens, t = req[h].tok,
           Denied(h) \/ \E e \in 0..MaxTime + MaxLife : Checked(h, e)
    PROVE  Cares
<1>t. TypeInv /\ TypeOK
  BY DEF SessInv, TypeInv
<1>1. /\ req[h].pc \in {"checking", "permitting"}
      /\ \A g \in Handlers \ {h} : req'[g] = req[g]
      /\ UNCHANGED <<now, grant>>
  BY <1>t, AwaitFacts, RespondFacts DEF Denied, Checked, Waiting, Running
<1>2. RevokeCares /\ BindCares
  BY <1>1 DEF RevokeCares, BindCares, CaredFor, BoundBy, Running
<1>3. CASE Drop(t) /\ UNCHANGED exp
  <2>1. \A u \in Tokens \ {t} : local'[u] = local[u]
    BY <1>t, <1>3, EndsFacts DEF Drop, TypeOK
  <2>2. loose' = loose \cup {t}
    BY <1>3 DEF Drop
  <2> QED
    BY <1>t, <1>1, <1>2, <1>3, <2>1, <2>2
       DEF Cares, ExpMoves, EndCares, CaredFor, TypeOK
<1>4. CASE UNCHANGED <<local, exp, loose>>
  BY <1>t, <1>1, <1>2, <1>4 DEF Cares, ExpMoves, EndCares, TypeOK
<1>5. ASSUME NEW e \in 0..MaxTime + MaxLife, exp' = [exp EXCEPT ![t] = e],
             Current(h), ~ (e > exp[t] \/ e <= now), UNCHANGED <<local, loose>>
      PROVE  Cares
  <2>1. /\ \A u \in Tokens \ {t} : exp'[u] = exp[u]
        /\ exp'[t] > now /\ exp[t] > now
    BY <1>t, <1>5, CocoiruAssumption DEF Current, TypeOK
  <2>2. ExpMoves
    BY <2>1 DEF ExpMoves
  <2> QED
    BY <1>t, <1>1, <1>2, <1>5, <2>2 DEF Cares, EndCares, TypeOK
<1> QED
  BY <1>3, <1>4, <1>5 DEF Denied, Checked

LEMMA StepCares == SessInv /\ [Next]_vars => Cares
<1> SUFFICES ASSUME SessInv, [Next]_vars PROVE Cares
  OBVIOUS
<1>t. TypeInv /\ TypeOK /\ now' >= now
  BY DEF SessInv, TypeInv, TypeOK, Next, vars, CreateStart, CreateRefused, Replaced, Exchanged,
     ExchangeFails, Bound, BindFails, Logout, Revoked, RevocationFails, RunStart, Checked,
     Permitted, Execute, Denied, RunFails, Disconnect, LeaveVenue, Tick, Close
<1>1. ASSUME NEW h \in Handlers, CreateRefused(h) PROVE Cares
  BY <1>t, <1>1, SweptType
     DEF CreateRefused, Cares, ExpMoves, EndCares, RevokeCares, BindCares, CaredFor, BoundBy,
         TypeOK, Running
<1>2. ASSUME NEW h \in Handlers, Exchanged(h) PROVE Cares
  <2>1. \A g \in Handlers \ {h} : req'[g] = req[g]
    BY <1>t, <1>2, AwaitFacts, RespondFacts DEF Exchanged, Waiting, Creating
  <2>2. RevokeCares /\ BindCares
    BY <1>2, <2>1 DEF Exchanged, RevokeCares, BindCares, CaredFor, BoundBy, Running
  <2>3. EndCares
    BY <1>t, <1>2 DEF Exchanged, EndCares, TypeOK
  <2> QED
    BY <1>t, <1>2, <2>2, <2>3 DEF Exchanged, Cares, ExpMoves, TypeOK
<1>3. ASSUME NEW h \in Handlers,
             \/ ExchangeFails(h) \/ Permitted(h) \/ Execute(h) \/ RunFails(h)
             \/ \E t \in Tokens : RunStart(h, t)
      PROVE  Cares
  <2>1. /\ \A g \in Handlers \ {h} : req'[g] = req[g]
        /\ req[h].pc \in Running \cup {"idle", "exchanging"}
    <3>1. req[h].pc \in Running => req[h].tok \in Tokens
      BY <1>t DEF TypeInv, Named, Running
    <3> QED
      BY <1>t, <1>3, <3>1, AwaitFacts, RespondFacts
         DEF ExchangeFails, Permitted, Execute, RunFails, RunStart, Waiting, Running, Idle
  <2> QED
    BY <1>t, <1>3, <2>1, QuietCares
       DEF ExchangeFails, Permitted, Execute, RunFails, RunStart, Running
<1>4. ASSUME NEW h \in Handlers, Disconnect(h) \/ LeaveVenue(h) PROVE Cares
  BY <1>t, <1>4, FlagFacts, QuietCares DEF Disconnect, LeaveVenue
<1>5. CASE Tick \/ UNCHANGED vars
  BY <1>t, <1>5, QuietCares DEF Tick, vars
<1>6. CASE Close
  BY <1>t, <1>6 DEF Close, Live, Cares, ExpMoves, EndCares, RevokeCares, BindCares, CaredFor,
     BoundBy, TypeOK, Running
<1>7. ASSUME NEW h \in Handlers,
             Denied(h) \/ \E e \in 0..MaxTime + MaxLife : Checked(h, e)
      PROVE  Cares
  <2>1. req[h].tok \in Tokens
    BY <1>t, <1>7, WaitingFacts DEF Denied, Checked, Waiting, Running
  <2> QED
    BY <1>7, <2>1, RunCares
<1> QED
  BY <1>1, <1>2, <1>3, <1>4, <1>5, <1>6, <1>7, CreateCares, BoundCares, RevocationCares,
     LogoutCares DEF Next

\* With a deadline that every live session has, the property is inductive.
GrantInv == NoGrantLeftBehind /\ \A t \in Tokens : local[t] = "live" => exp[t] # 0

LEMMA GrantNext == SessInv /\ GrantInv /\ [Next]_vars => GrantInv'
<1> SUFFICES ASSUME SessInv, GrantInv, [Next]_vars PROVE GrantInv'
  OBVIOUS
<1>t. /\ TypeInv /\ TypeOK /\ TypeOK'
      /\ LocalMoves /\ GrantMoves /\ Cares
  BY TypeNext, StepMoves, StepCares DEF SessInv, TypeInv, Moves
<1>n. \A t \in Tokens : /\ now \in Nat /\ now' \in Nat /\ now' >= now
                       /\ exp[t] \in Nat /\ exp'[t] \in Nat
  BY <1>t DEF TypeOK, Cares
<1>1. ASSUME NEW t \in Tokens, local'[t] = "live" PROVE exp'[t] # 0
  BY <1>t, <1>n, <1>1 DEF LocalMoves, Cares, ExpMoves, GrantInv
<1>2. ASSUME NEW t \in Tokens, grant'[t] = "bound",
             ~ CaredFor(t), local'[t] # "live"
      PROVE  exp'[t] # 0 /\ exp'[t] <= now'
  <2>1. \A h \in Handlers : ~ BoundBy(h, t)
    BY <1>t, <1>2 DEF Cares, BindCares
  <2>2. grant[t] = "bound"
    BY <1>t, <1>2, <2>1 DEF GrantMoves
  <2>3. t \notin loose
    BY <1>t, <1>2 DEF Cares, CaredFor
  <2>4. \A h \in Handlers : req[h].tok = t => req[h].pc \in Running
    <3> SUFFICES ASSUME NEW h \in Handlers, req[h].tok = t, req[h].pc \notin Running PROVE FALSE
      OBVIOUS
    <3>1. req[h].pc \in {"replacing", "binding", "revoking", "cleaning"}
      <4>1. req[h] # Idle /\ req[h].pc # "exchanging"
        BY <1>t, CocoiruAssumption DEF TypeInv, Named, Idle
      <4> QED
        BY <1>t, <4>1 DEF TypeOK, Request, Creating
    <3>2. req[h].pc # "binding"
      BY <2>2 DEF SessInv, BindInv
    <3> QED
      BY <1>t, <1>2, <3>1, <3>2 DEF Cares, RevokeCares
  <2>5. exp[t] # 0 /\ exp[t] <= now
    <3>1. CASE local[t] = "live"
      <4>1. local'[t] = "gone"
        BY <1>t, <1>2, <3>1 DEF LocalMoves
      <4> QED
        BY <1>t, <1>2, <3>1, <4>1 DEF Cares, EndCares, GrantInv
    <3>2. CASE local[t] # "live"
      BY <2>2, <2>3, <2>4, <3>2 DEF GrantInv, NoGrantLeftBehind
    <3> QED
      BY <3>1, <3>2
  <2>6. exp'[t] = exp[t]
    BY <1>t, <1>n, <2>1, <2>5 DEF Cares, ExpMoves
  <2> QED
    BY <1>n, <2>5, <2>6
<1>3. NoGrantLeftBehind'
  BY <1>2 DEF NoGrantLeftBehind, CaredFor
<1> QED
  BY <1>1, <1>3 DEF GrantInv

\* A grant that Cr bound and said so belongs to a session, is being revoked, or
\* was given up in a known way (CocoiruSession!NoGrantLeftBehind).
THEOREM GrantsAreAccountedFor == Spec => []NoGrantLeftBehind
<1>1. Init => GrantInv
  <2> SUFFICES ASSUME Init PROVE GrantInv
    OBVIOUS
  <2> QED
    BY DEF Init, GrantInv, NoGrantLeftBehind
<1>2. Spec => []GrantInv
  BY <1>1, GrantNext, SessHolds, PTL DEF Spec
<1> QED
  BY <1>2, PTL DEF GrantInv
============================================================================
