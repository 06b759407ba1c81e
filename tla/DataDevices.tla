----------------------------- MODULE DataDevices -----------------------------
(***************************************************************************)
(* The /data/devices branch of HttpSession::handle_get, composed with the  *)
(* threads of SensorGlobals.  The HTTP thread reads the sensor globals     *)
(* under no mutex, and the operands of its chain of + are evaluated in     *)
(* whatever order the compiler chose.                                      *)
(***************************************************************************)
EXTENDS SensorGlobals

VARIABLES
  toRead,  \* the globals the handler has still to read
  body     \* the response body it is building

httpVars == <<toRead, body>>

HttpInit ==
  /\ Init
  /\ toRead = {}
  /\ body = [f \in Fields |-> NoReading]

HttpRequest ==
  /\ toRead = {}
  /\ toRead' = Fields
  /\ UNCHANGED <<body, vars>>

HttpRead(field) ==
  /\ field \in toRead
  /\ toRead' = toRead \ {field}
  /\ body' = [body EXCEPT ![field] = data[field]]
  /\ UNCHANGED vars

HttpNext ==
  \/ HttpRequest
  \/ \E field \in Fields : HttpRead(field)
  \/ Next /\ UNCHANGED httpVars

HttpSpec == HttpInit /\ [][HttpNext]_<<vars, httpVars>>
-----------------------------------------------------------------------------
(* The body of /data/devices shows one sonar frame and one GPS sentence.    *)
(* The handler takes neither mutex, so it need not.                         *)
BodyIsOneReading ==
  toRead = {} =>
    /\ OneReading(body)
    /\ body["gpsDateTimeHead"] = body["gpsLatitude"]
    /\ body["gpsDateTimeTail"] = body["gpsLatitude"]
=============================================================================
