---------------------------- MODULE CocoiruSession ----------------------------
(***************************************************************************)
(* Cocoiru's native sessions: a bounded map of opaque tokens, each bound   *)
(* to a grant at Cernere ("Cr"), and the one-permit operation that issues  *)
(* an attendance proof (server/cocoiru-session-store.ts,                   *)
(* routes/cocoiru-native-session.ts, routes/cocoiru-checkin.ts,            *)
(* vendor/cernere-composite/service-session.ts as the store uses it).      *)
(*                                                                         *)
(* Every call to Cr is an await: logout, disconnection, leaving the venue, *)
(* another request's denial, expiry and shutdown fall in between.          *)
(***************************************************************************)
EXTENDS Naturals, FiniteSets

CONSTANTS Tokens,     \* random session tokens, never drawn twice
          Handlers,   \* requests in flight at once
          Capacity,   \* 10,000 sessions
          MaxPending, \* 32 creations
          MaxLife,    \* 900 s
          MaxProofs,  \* bound: proofs issued per session
          MaxTime,    \* bound on the clock
          None

ASSUME CocoiruAssumption ==
    /\ Capacity \in Nat \ {0} /\ MaxPending \in Nat /\ MaxLife \in Nat
    /\ MaxProofs \in Nat /\ MaxTime \in Nat
    /\ None \notin Tokens

VARIABLES
    now, closed,
    local, exp,  \* CocoiruSessionStore.entries: presence and deadline
    grant,       \* Cr's side of a session (external)
    req,         \* requests in flight
    proofs,      \* history: proofs issued per session
    ended,       \* history: sessions logged out, denied, changed or shut down
    loose        \* history: grants whose revocation nobody confirmed or asked for

vars == <<now, closed, local, exp, grant, req, proofs, ended, loose>>

\* What a request awaits: in create() the revocation of the previous session,
\* the exchange, the binding; in run() the check, the permit and its own
\* authorization; the revocation of a session that is over.
Creating == {"replacing", "exchanging", "binding"}
Running == {"checking", "permitting", "executing"}

Idle == [pc |-> "idle", tok |-> None, cut |-> FALSE, away |-> FALSE]

\* cut: the client disconnected; away: its socket is off the venue LAN.
Request ==
    [pc : Creating \cup Running \cup {"revoking", "cleaning"},
     tok : Tokens \cup {None}, cut : BOOLEAN, away : BOOLEAN]

TypeOK ==
    /\ now \in Nat /\ closed \in BOOLEAN
    /\ local \in [Tokens -> {"unborn", "drawn", "live", "gone"}]
    /\ exp \in [Tokens -> Nat]
    /\ grant \in [Tokens -> {"none", "bound", "revoked"}]
    /\ req \in [Handlers -> Request \cup {Idle}]
    /\ proofs \in [Tokens -> 0..MaxProofs]
    /\ ended \subseteq Tokens /\ loose \subseteq Tokens

Init ==
    /\ now = 0 /\ closed = FALSE
    /\ local = [t \in Tokens |-> "unborn"] /\ exp = [t \in Tokens |-> 0]
    /\ grant = [t \in Tokens |-> "none"]
    /\ req = [h \in Handlers |-> Idle]
    /\ proofs = [t \in Tokens |-> 0]
    /\ ended = {} /\ loose = {}

-----------------------------------------------------------------------------
(* The store.                                                               *)

Live(st) == {t \in Tokens : st[t] = "live"}

\* sweep(); the grant of an expired session has expired at Cr as well.
Swept == [t \in Tokens |-> IF local[t] = "live" /\ exp[t] <= now THEN "gone" ELSE local[t]]

\* create() until its finally, the revocation of an unpublished grant included.
Pending == {h \in Handlers : req[h].pc \in Creating \cup {"cleaning"}}

MutHasRoom == Cardinality(Live(Swept)) < Capacity /\ Cardinality(Pending) < MaxPending

HasRoom ==
    /\ Cardinality(Live(Swept)) + Cardinality(Pending) < Capacity
    /\ Cardinality(Pending) < MaxPending

MutOpen(h) == ~ req[h].cut

\* assertOpen().
Open(h) == ~ closed /\ ~ req[h].cut

\* assertEntry().
Current(h) == Open(h) /\ local[req[h].tok] = "live" /\ exp[req[h].tok] > now

MutMayExecute(h) == Open(h) /\ ~ req[h].away /\ exp[req[h].tok] > now

\* What authorizeResource and execute ask each on their own.
MayExecute(h) == Current(h) /\ ~ req[h].away

Await(h, state, t) ==
    req' = [req EXCEPT ![h] = [pc |-> state, tok |-> t, cut |-> @.cut, away |-> @.away]]

Respond(h) == req' = [req EXCEPT ![h] = Idle]

-----------------------------------------------------------------------------
(* POST /api/auth/native/exchange: create().                                *)

\* revoke() up to its await: the session ends here, whatever Cr answers.
EndsLocally(st, t) == [st EXCEPT ![t] = IF @ = "live" THEN "gone" ELSE @]

CreateStart(h, prev) ==
    /\ req[h] = Idle /\ ~ closed
    /\ HasRoom
    /\ IF prev = None THEN local' = Swept /\ UNCHANGED ended
       ELSE /\ local[prev] \in {"live", "gone"}
            /\ local' = EndsLocally(Swept, prev)
            /\ ended' = ended \cup {prev}
    /\ IF prev # None /\ Swept[prev] = "live"
       THEN Await(h, "replacing", prev) ELSE Await(h, "exchanging", None)
    /\ UNCHANGED <<now, closed, exp, grant, proofs, loose>>

\* A refusal for want of room has swept.
CreateRefused(h) ==
    /\ req[h] = Idle /\ ~ closed
    /\ ~ HasRoom
    /\ local' = Swept
    /\ UNCHANGED <<now, closed, exp, grant, req, proofs, ended, loose>>

Replaced(h) ==
    /\ req[h].pc = "replacing"
    /\ grant' = [grant EXCEPT ![req[h].tok] = "revoked"]
    /\ IF Open(h) THEN Await(h, "exchanging", None) ELSE Respond(h)
    /\ UNCHANGED <<now, closed, local, exp, proofs, ended, loose>>

Exchanged(h) ==
    /\ req[h].pc = "exchanging"
    /\ IF Open(h)
       THEN \E t \in Tokens :
               /\ local[t] = "unborn"
               /\ local' = [local EXCEPT ![t] = "drawn"]
               /\ Await(h, "binding", t)
       ELSE Respond(h) /\ UNCHANGED local
    /\ UNCHANGED <<now, closed, exp, grant, proofs, ended, loose>>

ExchangeFails(h) ==
    /\ req[h].pc = "exchanging"
    /\ Respond(h)
    /\ UNCHANGED <<now, closed, local, exp, grant, proofs, ended, loose>>

\* Cr bound the session until e and said so.  A valid one is published; the
\* route then looks at the LAN again and hands an outsider's session back.
Publish(h, e) ==
    LET t == req[h].tok IN
    /\ exp' = [exp EXCEPT ![t] = e]
    /\ IF req[h].away
       THEN /\ local' = [local EXCEPT ![t] = "gone"] /\ ended' = ended \cup {t}
            /\ Await(h, "revoking", t)
       ELSE local' = [local EXCEPT ![t] = "live"] /\ Respond(h) /\ UNCHANGED ended

MutTakeBack(h) == Respond(h)

\* The catch of create(): the grant is revoked before the error is passed on.
TakeBack(h) == Await(h, "cleaning", req[h].tok)

Bound(h, e) ==
    /\ req[h].pc = "binding"
    /\ grant' = [grant EXCEPT ![req[h].tok] = "bound"]
    /\ IF Open(h) /\ e > now /\ e <= now + MaxLife
       THEN Publish(h, e)
       ELSE TakeBack(h) /\ UNCHANGED <<local, exp, ended>>
    /\ UNCHANGED <<now, closed, proofs, loose>>

\* No answer, or one the SDK rejects: nobody knows whether Cr bound it.
BindFails(h) ==
    LET t == req[h].tok IN
    /\ req[h].pc = "binding"
    /\ \/ UNCHANGED <<grant, loose>>
       \/ grant' = [grant EXCEPT ![t] = "bound"] /\ loose' = loose \cup {t}
    /\ Respond(h)
    /\ UNCHANGED <<now, closed, local, exp, proofs, ended>>

-----------------------------------------------------------------------------
(* Logout, and every other revocation that is awaited last.                 *)

Logout(h, t) ==
    /\ req[h] = Idle
    /\ local[t] \in {"live", "gone"}
    /\ local' = EndsLocally(local, t)
    /\ ended' = ended \cup {t}
    /\ IF local[t] = "live" /\ exp[t] > now THEN Await(h, "revoking", t) ELSE UNCHANGED req
    /\ UNCHANGED <<now, closed, exp, grant, proofs, loose>>

Revoked(h) ==
    /\ req[h].pc \in {"revoking", "cleaning"}
    /\ grant' = [grant EXCEPT ![req[h].tok] = "revoked"]
    /\ Respond(h)
    /\ UNCHANGED <<now, closed, local, exp, proofs, ended, loose>>

\* Cr refuses or does not answer: the caller is told the result is unconfirmed.
RevocationFails(h) ==
    LET t == req[h].tok IN
    /\ req[h].pc \in {"revoking", "cleaning", "replacing"}
    /\ \/ UNCHANGED grant
       \/ grant' = [grant EXCEPT ![t] = "revoked"]
    /\ loose' = loose \cup {t}
    /\ Respond(h)
    /\ UNCHANGED <<now, closed, local, exp, proofs, ended>>

-----------------------------------------------------------------------------
(* POST /checkin/cocoiru: run().                                            *)

RunStart(h, t) ==
    /\ req[h] = Idle /\ ~ closed
    /\ local[t] = "live" /\ exp[t] > now
    /\ Await(h, "checking", t)
    /\ UNCHANGED <<now, closed, local, exp, grant, proofs, ended, loose>>

\* The session is dropped and its grant left to expire at Cr.
Drop(t) ==
    /\ local' = EndsLocally(local, t)
    /\ ended' = ended \cup {t}
    /\ loose' = loose \cup {t}

\* Cr vouches for the session until e; later than known means it has changed.
Checked(h, e) ==
    LET t == req[h].tok IN
    /\ req[h].pc = "checking" /\ grant[t] = "bound"
    /\ IF ~ Current(h)
       THEN Respond(h) /\ UNCHANGED <<local, exp, ended, loose>>
       ELSE IF e > exp[t] \/ e <= now
       THEN Drop(t) /\ Respond(h) /\ UNCHANGED exp
       ELSE /\ exp' = [exp EXCEPT ![t] = e]
            /\ Await(h, "permitting", t)
            /\ UNCHANGED <<local, ended, loose>>
    /\ UNCHANGED <<now, closed, grant, proofs>>

\* Permit issued and consumed; authorizeResource is asked and awaited.
Permitted(h) ==
    /\ req[h].pc = "permitting" /\ grant[req[h].tok] = "bound"
    /\ IF MayExecute(h) THEN Await(h, "executing", req[h].tok) ELSE Respond(h)
    /\ UNCHANGED <<now, closed, local, exp, grant, proofs, ended, loose>>

\* The proof and its event; its nonce also enters the challenge store of the
\* passkey services (module PasskeyCheckin), which this flow does not read.
Execute(h) ==
    LET t == req[h].tok IN
    /\ req[h].pc = "executing"
    /\ IF MayExecute(h)
       THEN proofs[t] < MaxProofs /\ proofs' = [proofs EXCEPT ![t] = @ + 1]
       ELSE UNCHANGED proofs
    /\ Respond(h)
    /\ UNCHANGED <<now, closed, local, exp, grant, ended, loose>>

\* Cr answers 401 or 403.
Denied(h) ==
    /\ req[h].pc \in {"checking", "permitting"}
    /\ Drop(req[h].tok)
    /\ Respond(h)
    /\ UNCHANGED <<now, closed, exp, grant, proofs>>

\* Any other error leaves the session as it is.
RunFails(h) ==
    /\ req[h].pc \in {"checking", "permitting"}
    /\ Respond(h)
    /\ UNCHANGED <<now, closed, local, exp, grant, proofs, ended, loose>>

-----------------------------------------------------------------------------
(* Clients, Cr, the clock and shutdown.                                     *)

Disconnect(h) ==
    /\ req[h] # Idle /\ ~ req[h].cut
    /\ req' = [req EXCEPT ![h].cut = TRUE]
    /\ UNCHANGED <<now, closed, local, exp, grant, proofs, ended, loose>>

LeaveVenue(h) ==
    /\ req[h] # Idle /\ ~ req[h].away
    /\ req' = [req EXCEPT ![h].away = TRUE]
    /\ UNCHANGED <<now, closed, local, exp, grant, proofs, ended, loose>>

Tick ==
    /\ now < MaxTime
    /\ now' = now + 1
    /\ UNCHANGED <<closed, local, exp, grant, req, proofs, ended, loose>>

\* shutdown(): requests in flight go on until the process is gone.
Close ==
    /\ ~ closed
    /\ closed' = TRUE
    /\ local' = [t \in Tokens |-> IF local[t] = "live" THEN "gone" ELSE local[t]]
    /\ ended' = ended \cup Live(local) /\ loose' = loose \cup Live(local)
    /\ UNCHANGED <<now, exp, grant, req, proofs>>

Next ==
    \/ \E h \in Handlers :
          \/ \E prev \in Tokens \cup {None} : CreateStart(h, prev)
          \/ CreateRefused(h) \/ Replaced(h) \/ Exchanged(h) \/ ExchangeFails(h)
          \/ BindFails(h) \/ Revoked(h) \/ RevocationFails(h)
          \/ \E e \in 0..MaxTime + MaxLife : Bound(h, e) \/ Checked(h, e)
          \/ \E t \in Tokens : Logout(h, t) \/ RunStart(h, t)
          \/ Permitted(h) \/ Execute(h) \/ Denied(h) \/ RunFails(h)
          \/ Disconnect(h) \/ LeaveVenue(h)
    \/ Tick
    \/ Close

Spec == Init /\ [][Next]_vars

-----------------------------------------------------------------------------
(* Properties.                                                              *)

\* The sessions kept and the creations in flight never exceed the capacity,
\* with creations that overlap, replace a session or have to be undone.
CapacityHolds ==
    /\ Cardinality(Live(local)) + Cardinality(Pending) <= Capacity
    /\ Cardinality(Pending) <= MaxPending

\* A session that was logged out, replaced, or denied to another request issues
\* no proof, although the request had its permit before
\* (cocoiru-scoped-native-session.md: logout is final locally).
NoProofAfterEnd ==
    [][\A t \in Tokens : proofs'[t] > proofs[t] => t \notin ended]_vars

\* Shutdown ends every session, and a creation it overtakes publishes none.
ClosedIsEmpty == closed => Live(local) = {}

\* A grant that Cr bound and said so belongs to a session, is being revoked, or
\* was given up in a known way (expiry, no answer, denial, shutdown): a creation
\* that fails after the binding does not leave it behind in silence.
NoGrantLeftBehind ==
    \A t \in Tokens : grant[t] = "bound" =>
        \/ local[t] = "live" \/ t \in loose
        \/ exp[t] # 0 /\ exp[t] <= now
        \/ \E h \in Handlers : req[h].tok = t /\ req[h].pc \notin Running
=============================================================================
