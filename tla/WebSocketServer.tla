-------------------------- MODULE WebSocketServer --------------------------
(***************************************************************************)
(* WebSocketServer and WebSocketSession: the accept loop, and one session  *)
(* per client, which writes the sensor data once a second.  All handlers   *)
(* run on the thread of the io_context; stop() and io_context::stop() are  *)
(* called by another thread.  A session lives as long as a handler keeps   *)
(* it: it is freed when it has no operation outstanding.                   *)
(*                                                                         *)
(* A client is named by the session it gets.  The text of a message is     *)
(* sampled under sonar_mutex and then gps_mutex, as a logger does it in    *)
(* SensorGlobals.  read_messages is called by nobody.                      *)
(***************************************************************************)
EXTENDS Naturals

CONSTANTS
  Sessions,
  Strangers,  \* the sessions whose client does not speak WebSocket
  MaxErrors,  \* bounds the accepts that fail while the acceptor is open
  None        \* no session

ASSUME SessionAssumption ==
  /\ Strangers \subseteq Sessions
  /\ None \notin Sessions
  /\ MaxErrors \in Nat

VARIABLES
  acceptor_,  \* "open" or "closed"
  backlog,    \* the connections the system has made and the acceptor not yet taken
  accept,     \* the async_accept: "waiting", or "ok" or "error": its handler is due;
              \* "none" when start() failed
  socket_,    \* the session whose connection it has taken
  ioc,        \* "run", "stopped", or "aborted": a handler threw
  pending,    \* pending[s]: the operations s has outstanding
  is_open_,
  first_message_received_,
  client,     \* client[s]: "away", "connected", "stalled": it neither sends nor
              \* reads, "left": it closed its connection, "reset": a write to it fails
  errors

acceptVars == <<acceptor_, accept, socket_, errors>>
sessionVars == <<pending, is_open_, first_message_received_>>
vars == <<acceptVars, backlog, ioc, sessionVars, client>>

\* After the first start().
Init ==
  /\ acceptor_ = "open" /\ backlog = {} /\ accept = "waiting" /\ socket_ = None
  /\ ioc = "run"
  /\ pending = [s \in Sessions |-> {}]
  /\ is_open_ = [s \in Sessions |-> TRUE]
  /\ first_message_received_ = [s \in Sessions |-> FALSE]
  /\ client = [s \in Sessions |-> "away"]
  /\ errors = 0

Gone == {"left", "reset"}
-----------------------------------------------------------------------------
(* The clients.  Leaving with data unread resets the connection. *)

Becomes(s, from, to) ==
  /\ client[s] \in from
  /\ client' = [client EXCEPT ![s] = to]
  /\ UNCHANGED <<acceptVars, ioc, sessionVars>>

Connect(s) ==
  /\ acceptor_ = "open"
  /\ Becomes(s, {"away"}, "connected")
  /\ backlog' = backlog \cup {s}

Client(s) ==
  /\ \/ Becomes(s, {"connected"}, "stalled")
     \/ Becomes(s, {"connected"}, "left")
     \/ Becomes(s, {"connected", "stalled"}, "reset")
  /\ UNCHANGED backlog
-----------------------------------------------------------------------------
(* The accept loop. *)

AcceptCompletes ==
  /\ ioc = "run" /\ accept = "waiting"
  /\ \E s \in backlog : socket_' = s /\ backlog' = backlog \ {s}
  /\ accept' = "ok"
  /\ UNCHANGED <<acceptor_, errors, ioc, sessionVars, client>>

AcceptFails ==
  /\ ioc = "run" /\ accept = "waiting"
  /\ errors < MaxErrors
  /\ errors' = errors + 1
  /\ accept' = "error"
  /\ UNCHANGED <<acceptor_, backlog, socket_, ioc, sessionVars, client>>

\* start(): local_endpoint() throws for a closed acceptor.
Start ==
  \/ acceptor_ = "open" /\ accept' = "waiting" /\ UNCHANGED ioc
  \/ acceptor_ = "closed" /\ accept' = "none" /\ ioc' = "aborted"

\* An accept loop that ends at the first error.
OnAcceptUntilError ==
  /\ ioc = "run"
  /\ \/ accept = "ok" /\ pending' = [pending EXCEPT ![socket_] = {"handshake"}] /\ Start
     \/ accept = "error" /\ accept' = "none" /\ UNCHANGED <<ioc, pending>>
  /\ socket_' = None
  /\ UNCHANGED <<acceptor_, errors, backlog, is_open_, first_message_received_, client>>

\* The handler makes a session and starts it, or reports the error; then start().
OnAccept ==
  /\ ioc = "run"
  /\ accept \in {"ok", "error"}
  /\ pending' = IF accept = "ok" THEN [pending EXCEPT ![socket_] = {"handshake"}] ELSE pending
  /\ socket_' = None
  /\ Start
  /\ UNCHANGED <<acceptor_, errors, backlog, is_open_, first_message_received_, client>>

\* A stop() that takes back an accept that is done.
StopAbortsAccept ==
  /\ acceptor_ = "open"
  /\ acceptor_' = "closed"
  /\ accept' = "error"
  /\ backlog' = {}
  /\ UNCHANGED <<socket_, errors, ioc, sessionVars, client>>

\* stop() aborts an accept that is waiting, and resets the backlog's connections.
Stop ==
  /\ acceptor_ = "open"
  /\ acceptor_' = "closed"
  /\ accept' = IF accept = "waiting" THEN "error" ELSE accept
  /\ backlog' = {}
  /\ UNCHANGED <<socket_, errors, ioc, sessionVars, client>>

IocStop ==
  /\ ioc = "run"
  /\ ioc' = "stopped"
  /\ UNCHANGED <<acceptVars, backlog, sessionVars, client>>
-----------------------------------------------------------------------------
(* A session. *)

\* The handler of one of its operations runs, and leaves it with the next ones.
Handler(s, op, next) ==
  /\ ioc = "run"
  /\ op \in pending[s]
  /\ pending' = [pending EXCEPT ![s] = (@ \ {op}) \cup next]
  /\ UNCHANGED <<acceptVars, backlog, ioc>>

\* start_sending.
start_sending(s) == IF is_open_[s] THEN {"timer"} ELSE {}

\* What the client is after something was sent to it.
Sent(s) == [client EXCEPT ![s] = IF @ = "left" THEN "reset" ELSE @]

\* A client may have left after its request: it is answered all the same.
Handshake(s) ==
  /\ Handler(s, "handshake", start_sending(s))
  /\ s \notin Strangers /\ client[s] \in {"connected", "left"}
  /\ first_message_received_' = [first_message_received_ EXCEPT ![s] = TRUE]
  /\ client' = Sent(s)
  /\ UNCHANGED is_open_

HandshakeFails(s) ==
  /\ Handler(s, "handshake", {})
  /\ client[s] \in Gone \cup (IF s \in Strangers THEN {"connected"} ELSE {})
  /\ UNCHANGED <<is_open_, first_message_received_, client>>

\* A timer that is set again before its message is written.
OnTimerPeriodic(s) ==
  /\ Handler(s, "timer", {"write", "timer"})
  /\ UNCHANGED <<is_open_, first_message_received_, client>>

OnTimer(s) ==
  /\ Handler(s, "timer",
             IF is_open_[s] /\ first_message_received_[s] THEN {"write"} ELSE {})
  /\ UNCHANGED <<is_open_, first_message_received_, client>>

OnWrite(s) ==
  /\ Handler(s, "write", start_sending(s))
  /\ client[s] \in {"connected", "left"}
  /\ client' = Sent(s)
  /\ UNCHANGED <<is_open_, first_message_received_>>

\* A handler that tries again after an error.
OnWriteErrorGoesOn(s) ==
  /\ Handler(s, "write", start_sending(s))
  /\ client[s] = "reset"
  /\ UNCHANGED <<is_open_, first_message_received_, client>>

OnWriteError(s) ==
  /\ Handler(s, "write", {})
  /\ client[s] = "reset"
  /\ is_open_' = [is_open_ EXCEPT ![s] = FALSE]
  /\ UNCHANGED <<first_message_received_, client>>

Session(s) ==
  Handshake(s) \/ HandshakeFails(s) \/ OnTimer(s) \/ OnWrite(s) \/ OnWriteError(s)
-----------------------------------------------------------------------------
Next ==
  \/ \E s \in Sessions : Connect(s) \/ Client(s) \/ Session(s)
  \/ AcceptCompletes \/ AcceptFails \/ OnAccept \/ Stop \/ IocStop

Spec == Init /\ [][Next]_vars

(***************************************************************************)
(* The io_context runs every handler that is due, the system hands over    *)
(* the connections it has made, and a handshake or a write ends unless the *)
(* client stalls.  No client has to come or to leave, and nobody to stop.  *)
(***************************************************************************)
Fairness ==
  /\ WF_vars(AcceptCompletes) /\ WF_vars(OnAccept)
  /\ \A s \in Sessions : WF_vars(Session(s))

FairSpec == Spec /\ Fairness
-----------------------------------------------------------------------------
(* The values the variables can have; socket_ is there for its handler.    *)
TypeOK ==
  /\ acceptor_ \in {"open", "closed"}
  /\ backlog \subseteq Sessions
  /\ accept \in {"waiting", "ok", "error", "none"}
  /\ socket_ \in Sessions \cup {None}
  /\ socket_ # None <=> accept = "ok"
  /\ ioc \in {"run", "stopped", "aborted"}
  /\ pending \in [Sessions -> SUBSET {"handshake", "timer", "write"}]
  /\ is_open_ \in [Sessions -> BOOLEAN]
  /\ first_message_received_ \in [Sessions -> BOOLEAN]
  /\ client \in [Sessions -> {"away", "connected", "stalled"} \cup Gone]
  /\ errors \in 0..MaxErrors

(* A session has one operation under way: its stream, which may not be     *)
(* given a second async_write, is never written by a timer that comes      *)
(* before the last message is out, however slow the client.                *)
OneOperation == \A s \in Sessions : \A a, b \in pending[s] : a = b

(* The session of a client that is gone ends and is freed, whenever the    *)
(* client went, although nothing reads from it: a write fails at last.     *)
GoneClientIsFreed ==
  \A s \in Sessions :
    <>[](client[s] \in Gone /\ ioc = "run") => <>[](pending[s] = {})

(* A client that stays and reads is sent a message again and again,        *)
(* whatever errors the acceptor meets and however the other clients stall, *)
(* leave or fail their handshakes.                                         *)
ClientsAreServed ==
  \A s \in Sessions \ Strangers :
    <>[](client[s] = "connected" /\ acceptor_ = "open" /\ ioc = "run")
      => []<>("write" \in pending[s])
=============================================================================
