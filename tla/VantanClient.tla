---------------------------- MODULE VantanClient ----------------------------
(***************************************************************************)
(* The WebSocket client that reads vantan_user profiles from Cernere       *)
(* (server/vantan-user-client.ts): one connection, retried at a fixed      *)
(* interval, and requests that wait for an answer with their id.           *)
(*                                                                         *)
(* connect() is split at the fetch of the project token; afterwards the    *)
(* events of a socket arrive one by one.  A socket whose handshake failed  *)
(* reports an error at once and its close event any time later, also after *)
(* the next socket was made.                                               *)
(***************************************************************************)
EXTENDS Naturals

CONSTANTS Calls,      \* profile requests; each is made once
          MaxSockets  \* bound: sockets made, in order

ASSUME VantanAssumption == MaxSockets \in Nat

VARIABLES
    started, closedByCaller, reconnectTimer,
    connecting,  \* connect() calls that await their token
    ws,          \* this.ws: a socket or NoSocket
    sock,        \* sockets; "failed" and "closing" still owe a close event
    call         \* requests; "pending" is in the map with its timer running

vantanVars == <<started, closedByCaller, reconnectTimer, connecting, ws, sock, call>>

NoSocket == 0
Sockets == 1..MaxSockets

VantanTypeOK ==
    /\ started \in BOOLEAN /\ closedByCaller \in BOOLEAN /\ reconnectTimer \in BOOLEAN
    /\ connecting \in Nat
    /\ ws \in Sockets \cup {NoSocket}
    /\ sock \in [Sockets -> {"unborn", "connecting", "open", "failed", "closing", "closed"}]
    /\ call \in [Calls -> {"idle", "pending", "answered", "failed"}]

VantanInit ==
    /\ started = FALSE /\ closedByCaller = FALSE /\ reconnectTimer = FALSE
    /\ connecting = 0 /\ ws = NoSocket
    /\ sock = [s \in Sockets |-> "unborn"]
    /\ call = [c \in Calls |-> "idle"]

-----------------------------------------------------------------------------
(* Connecting.                                                              *)

MutScheduleUnlessConnected == reconnectTimer' = (reconnectTimer \/ (~closedByCaller /\ ws = NoSocket))

\* scheduleReconnect(): nothing once closed, and one timer at a time.
ScheduleReconnect == reconnectTimer' = (reconnectTimer \/ ~closedByCaller)

Start ==
    /\ ~started
    /\ started' = TRUE
    /\ connecting' = connecting + 1
    /\ UNCHANGED <<closedByCaller, reconnectTimer, ws, sock, call>>

ReconnectTimerFires ==
    /\ reconnectTimer
    /\ reconnectTimer' = FALSE
    /\ connecting' = connecting + 1
    /\ UNCHANGED <<started, closedByCaller, ws, sock, call>>

\* The login is refused, answers nonsense or is unreachable, or no socket can
\* be made; after close() the token is dropped and connect() fails as well.
ConnectFails ==
    /\ connecting > 0
    /\ connecting' = connecting - 1
    /\ ScheduleReconnect
    /\ UNCHANGED <<started, closedByCaller, ws, sock, call>>

TokenArrives ==
    /\ connecting > 0 /\ ~closedByCaller
    /\ \E s \in Sockets :
         /\ sock[s] = "unborn" /\ \A r \in 1..(s - 1) : sock[r] # "unborn"
         /\ sock' = [sock EXCEPT ![s] = "connecting"]
         /\ ws' = s
    /\ connecting' = connecting - 1
    /\ UNCHANGED <<started, closedByCaller, reconnectTimer, call>>

-----------------------------------------------------------------------------
(* Events of a socket.                                                      *)

SocketOpens(s) ==
    /\ sock[s] = "connecting"
    /\ sock' = [sock EXCEPT ![s] = IF closedByCaller THEN "closing" ELSE "open"]
    /\ ws' = IF closedByCaller THEN ws ELSE s
    /\ UNCHANGED <<started, closedByCaller, reconnectTimer, connecting, call>>

\* onerror counts only before the socket is settled.
SocketErrors(s) ==
    /\ sock[s] = "connecting"
    /\ sock' = [sock EXCEPT ![s] = "failed"]
    /\ ScheduleReconnect
    /\ UNCHANGED <<started, closedByCaller, connecting, ws, call>>

\* A late close of an old socket does not erase the new connection.
WsAfterClose(s) == IF ws = s THEN NoSocket ELSE ws

PendingFailed == [c \in Calls |-> IF call[c] = "pending" THEN "failed" ELSE call[c]]

\* onclose: before the socket was settled only the attempt fails; afterwards
\* every pending request does, whichever socket it was sent on.
SocketCloses(s) ==
    /\ sock[s] \in {"connecting", "open", "failed", "closing"}
    /\ sock' = [sock EXCEPT ![s] = "closed"]
    /\ ws' = WsAfterClose(s)
    /\ call' = IF sock[s] = "connecting" THEN call ELSE PendingFailed
    /\ ScheduleReconnect
    /\ UNCHANGED <<started, closedByCaller, connecting>>

-----------------------------------------------------------------------------
(* Requests and shutdown.                                                   *)

Connected == ws # NoSocket /\ sock[ws] = "open"

\* request(): without an open connection it fails at once; send() may throw.
Ask(c) ==
    /\ call[c] = "idle"
    /\ \/ Connected /\ call' = [call EXCEPT ![c] = "pending"]
       \/ call' = [call EXCEPT ![c] = "failed"]

Settle(c, outcome) == call' = [call EXCEPT ![c] = outcome]

\* A message with the id of a pending request: module_response, or error and
\* anything else.  It comes over some open socket.
Answered(c) ==
    /\ call[c] = "pending"
    /\ \E s \in Sockets : sock[s] = "open"
    /\ \E outcome \in {"answered", "failed"} : Settle(c, outcome)
    /\ UNCHANGED <<started, closedByCaller, reconnectTimer, connecting, ws, sock>>

RequestTimesOut(c) ==
    /\ call[c] = "pending"
    /\ Settle(c, "failed")
    /\ UNCHANGED <<started, closedByCaller, reconnectTimer, connecting, ws, sock>>

MutTimerAfterClose == reconnectTimer

TimerAfterClose == FALSE

\* close(), at shutdown: the connection being set up is closed as well.
CloseClient ==
    /\ started /\ ~closedByCaller
    /\ closedByCaller' = TRUE
    /\ reconnectTimer' = TimerAfterClose
    /\ call' = PendingFailed
    /\ sock' = [s \in Sockets |-> IF s = ws /\ sock[s] \in {"connecting", "open"}
                                  THEN "closing" ELSE sock[s]]
    /\ ws' = NoSocket
    /\ UNCHANGED <<started, connecting>>

VantanNext ==
    \/ Start \/ ReconnectTimerFires \/ ConnectFails \/ TokenArrives \/ CloseClient
    \/ \E s \in Sockets : SocketOpens(s) \/ SocketErrors(s) \/ SocketCloses(s)
    \/ \E c \in Calls : Answered(c) \/ RequestTimesOut(c)

-----------------------------------------------------------------------------
(* Properties.                                                              *)

\* Started and not closed, the client without a connection that is open or
\* being set up has a retry ahead: whatever the order of errors, close events
\* of old sockets, timers and token answers, it never stops trying
\* (scheduleReconnect, vantan-user-client.ts:213).
NeverGivesUp ==
    (started /\ ~closedByCaller) =>
        \/ ws # NoSocket /\ sock[ws] \in {"connecting", "open"}
        \/ reconnectTimer \/ connecting > 0

\* After close() nothing comes back: no timer, no connection and no request in
\* the map, although tokens, open and close events of before still arrive
\* (close, vantan-user-client.ts:147).
ClosedStaysClosed ==
    closedByCaller => /\ ~reconnectTimer /\ ws = NoSocket
                      /\ \A c \in Calls : call[c] # "pending"

\* The client tries until it is closed, and then no more.
RetriesUntilClosed == NeverGivesUp /\ ClosedStaysClosed
=============================================================================
