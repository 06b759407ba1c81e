----------------------- MODULE WebSocketServerProofs -----------------------
(***************************************************************************)
(* For any number of clients, of either kind, and of accept errors: types  *)
(* and one operation per session.                                          *)
(***************************************************************************)
EXTENDS WebSocketServer, TLAPS

\* The invariant of the theorems: its parts are inductive together.
Inv == TypeOK /\ OneOperation

LEMMA InitInv == Init => Inv
BY SessionAssumption
DEF Init, Inv, TypeOK, OneOperation, Gone

\* A handler that leaves its session with at most one operation more keeps the types
\* of what it changes, and the operations at one.
LEMMA HandlerStep ==
  ASSUME Inv, NEW s \in Sessions, NEW op,
         NEW next \in SUBSET {"handshake", "timer", "write"},
         \A a, b \in next : a = b,
         Handler(s, op, next)
  PROVE  /\ pending' \in [Sessions -> SUBSET {"handshake", "timer", "write"}]
         /\ OneOperation'
         /\ ioc = "run" /\ UNCHANGED <<acceptVars, backlog, ioc>>
<1>1. pending \in [Sessions -> SUBSET {"handshake", "timer", "write"}]
  BY DEF Inv, TypeOK
<1>2. pending' = [pending EXCEPT ![s] = (@ \ {op}) \cup next] /\ op \in pending[s]
  BY DEF Handler
<1>3. pending[s] \ {op} = {}
  BY <1>2 DEF Inv, OneOperation
<1>4. pending' = [pending EXCEPT ![s] = next]
  BY <1>2, <1>3
<1>5. OneOperation'
  BY <1>1, <1>4 DEF Inv, OneOperation
<1> QED
  BY <1>1, <1>4, <1>5 DEF Handler

\* What a client does changes no session.
LEMMA ClientStep ==
  ASSUME Inv, NEW s \in Sessions, Connect(s) \/ Client(s)
  PROVE  Inv'
<1>1. CASE Connect(s)
  BY <1>1 DEF Connect, Becomes, Inv, TypeOK, OneOperation, Gone,
              acceptVars, sessionVars
<1>2. CASE Client(s)
  BY <1>2 DEF Client, Becomes, Inv, TypeOK, OneOperation, Gone,
              acceptVars, sessionVars
<1> QED
  BY <1>1, <1>2

\* A handler of a session leaves the accept loop alone.
LEMMA SessionStep ==
  ASSUME Inv, NEW s \in Sessions, Session(s)
  PROVE  Inv'
<1>1. /\ pending' \in [Sessions -> SUBSET {"handshake", "timer", "write"}]
      /\ OneOperation'
      /\ ioc = "run" /\ UNCHANGED <<acceptVars, backlog, ioc>>
      /\ is_open_' \in [Sessions -> BOOLEAN]
      /\ first_message_received_' \in [Sessions -> BOOLEAN]
      /\ client' \in [Sessions -> {"away", "connected", "stalled"} \cup Gone]
  <2>1. CASE Handshake(s)
    <3>1. Handler(s, "handshake", start_sending(s))
      BY <2>1 DEF Handshake
    <3> QED
      BY <2>1, <3>1, HandlerStep DEF Handshake, start_sending, Sent, Inv, TypeOK, Gone
  <2>2. CASE HandshakeFails(s)
    <3>1. Handler(s, "handshake", {})
      BY <2>2 DEF HandshakeFails
    <3> QED
      BY <2>2, <3>1, HandlerStep DEF HandshakeFails, Inv, TypeOK
  <2>3. CASE OnTimer(s)
    <3>1. Handler(s, "timer", IF is_open_[s] /\ first_message_received_[s] THEN {"write"} ELSE {})
      BY <2>3 DEF OnTimer
    <3> QED
      BY <2>3, <3>1, HandlerStep DEF OnTimer, Inv, TypeOK
  <2>4. CASE OnWrite(s)
    <3>1. Handler(s, "write", start_sending(s))
      BY <2>4 DEF OnWrite
    <3> QED
      BY <2>4, <3>1, HandlerStep DEF OnWrite, start_sending, Sent, Inv, TypeOK, Gone
  <2>5. CASE OnWriteError(s)
    <3>1. Handler(s, "write", {})
      BY <2>5 DEF OnWriteError
    <3> QED
      BY <2>5, <3>1, HandlerStep DEF OnWriteError, Inv, TypeOK
  <2> QED
    BY <2>1, <2>2, <2>3, <2>4, <2>5 DEF Session
<1> QED
  BY <1>1 DEF Inv, TypeOK, acceptVars

\* The accept loop starts sessions, one operation each.
LEMMA AcceptStep ==
  ASSUME Inv, AcceptCompletes \/ AcceptFails \/ OnAccept \/ Stop \/ IocStop
  PROVE  Inv'
<1> USE SessionAssumption DEF Inv, TypeOK, OneOperation
<1>1. CASE AcceptCompletes
  BY <1>1 DEF AcceptCompletes, sessionVars
<1>2. CASE AcceptFails
  BY <1>2 DEF AcceptFails, sessionVars
<1>3. CASE OnAccept
  <2>1. /\ pending' \in [Sessions -> SUBSET {"handshake", "timer", "write"}]
        /\ OneOperation'
    BY <1>3 DEF OnAccept
  <2>2. CASE acceptor_ = "open"
    BY <1>3, <2>1, <2>2 DEF OnAccept, Start
  <2>3. CASE acceptor_ = "closed"
    BY <1>3, <2>1, <2>3 DEF OnAccept, Start
  <2> QED
    BY <2>2, <2>3
<1>4. CASE Stop
  BY <1>4 DEF Stop, sessionVars
<1>5. CASE IocStop
  BY <1>5 DEF IocStop, sessionVars, acceptVars
<1> QED
  BY <1>1, <1>2, <1>3, <1>4, <1>5

LEMMA Invariant == Spec => []Inv
<1>1. Inv /\ [Next]_vars => Inv'
  <2> SUFFICES ASSUME Inv, [Next]_vars PROVE Inv'
    OBVIOUS
  <2>1. CASE UNCHANGED vars
    BY <2>1 DEF vars, acceptVars, sessionVars, Inv, TypeOK, OneOperation
  <2>2. CASE Next
    BY <2>2, ClientStep, SessionStep, AcceptStep DEF Next
  <2> QED
    BY <2>1, <2>2
<1> QED
  BY InitInv, <1>1, PTL DEF Spec

(* Every variable keeps its type, and socket_ is there when its handler is due. *)
THEOREM TypeCorrect == Spec => []TypeOK
BY Invariant, PTL DEF Inv

(* No session ever has two operations under way on its stream.             *)
THEOREM OneAtATime == Spec => []OneOperation
BY Invariant, PTL DEF Inv
=============================================================================
