---------------------------- MODULE HttpSession ----------------------------
(***************************************************************************)
(* One HttpSession: the requests of a kept-alive connection, which the     *)
(* client may send ahead, are answered one after the other from one        *)
(* response object, res_, that is never cleared.  What the targets do to   *)
(* LogManager is in LogDevicesData; whether a log file exists is chosen    *)
(* here.                                                                   *)
(***************************************************************************)
EXTENDS Integers, Sequences

CONSTANT MaxRequests  \* bounds the requests of the connection

ASSUME SessionAssumption == MaxRequests \in Nat

VARIABLES
  sent,      \* the client's requests
  pc,        \* "read", "write", "closed": the pending operation
  req_,      \* the request read last, by its number
  res_,
  answered   \* the responses written

vars == <<sent, pc, req_, res_, answered>>
-----------------------------------------------------------------------------
\* What handle_request tells apart: methods, paths, and a clientId that is not there.
Targets == {"/", "/data/devices", "/startLogging", "/startLogging?", "/stopLogging",
            "/stopLogging?", "/download", "/other", "POST", "PUT"}

WithoutClientId == {"/startLogging?", "/stopLogging?"}

NewResponse == [result |-> 200, content_type |-> "none", disposition |-> FALSE,
                body |-> "", keep_alive |-> TRUE]

Answer(res, status, type, body) ==
  [res EXCEPT !.result = status, !.content_type = type, !.body = body]

\* An answer by the status alone.
MissingClientIdNoBody(res) == [res EXCEPT !.result = 400]

\* It leaves the content type.
MissingClientId(res) == [res EXCEPT !.result = 400, !.body = "missing clientId"]

\* handle_get, handle_post and other methods: what they can make of res_.
Handle(target, res) ==
  CASE target = "/"             -> {Answer(res, 200, "text/plain", "welcome")}
    [] target = "/data/devices" -> {Answer(res, 200, "application/json", "readings")}
    [] target = "/startLogging" -> {Answer(res, 200, "application/json", "started")}
    [] target = "/stopLogging"  -> {Answer(res, 200, "application/json", "stopped")}
    [] target \in WithoutClientId -> {MissingClientId(res)}
    [] target = "/download"     ->
         {Answer(res, 404, "text/plain", "no file"),
          [Answer(res, 200, "text/csv", "file") EXCEPT !.disposition = TRUE]}
    [] target \in {"/other", "POST"} -> {Answer(res, 404, "text/plain", "not found")}
    [] target = "PUT"           -> {Answer(res, 400, "text/plain", "unsupported")}
-----------------------------------------------------------------------------
Init ==
  /\ sent = <<>>
  /\ pc = "read"
  /\ req_ = 0
  /\ res_ = NewResponse
  /\ answered = <<>>

SendRequest(target, keep_alive) ==
  /\ Len(sent) < MaxRequests
  /\ sent' = Append(sent, [target |-> target, keep_alive |-> keep_alive])
  /\ UNCHANGED <<pc, req_, res_, answered>>

\* on_read and handle_request, up to async_write.
OnRead ==
  /\ pc = "read"
  /\ req_ < Len(sent)
  /\ req_' = req_ + 1
  /\ LET request == sent[req_ + 1]
     IN  res_' \in Handle(request.target, [res_ EXCEPT !.keep_alive = request.keep_alive])
  /\ pc' = "write"
  /\ UNCHANGED <<sent, answered>>

\* on_read with end_of_stream or another error: nothing is pending any more.
OnReadError ==
  /\ pc = "read"
  /\ pc' = "closed"
  /\ UNCHANGED <<sent, req_, res_, answered>>

\* An on_write that always reads on.
OnWriteAlwaysReads ==
  /\ pc = "write"
  /\ answered' = Append(answered, res_)
  /\ pc' = "read"
  /\ UNCHANGED <<sent, req_, res_>>

\* on_write: shut the connection down, or clear req_ and read again.
OnWrite ==
  /\ pc = "write"
  /\ answered' = Append(answered, res_)
  /\ pc' = IF res_.keep_alive THEN "read" ELSE "closed"
  /\ UNCHANGED <<sent, req_, res_>>

OnWriteError ==
  /\ pc = "write"
  /\ pc' = "closed"
  /\ UNCHANGED <<sent, req_, res_, answered>>

Next ==
  \/ \E target \in Targets, keep_alive \in BOOLEAN : SendRequest(target, keep_alive)
  \/ OnRead \/ OnReadError \/ OnWrite \/ OnWriteError

Spec == Init /\ [][Next]_vars
-----------------------------------------------------------------------------
\* Whether a file was served among the first i answers.
Downloaded(i) == \E j \in 1 .. i : sent[j].target = "/download" /\ answered[j].result = 200

(* Every response answers the request of its number, as a new connection    *)
(* would answer it, but for two headers of earlier answers: a 400 for want  *)
(* of a clientId has the content type of the answer before, and from the    *)
(* first file served on, every answer of the connection, of whatever        *)
(* target, has a Content-Disposition.  No status or body is left over.      *)
AnswersFit ==
  /\ Len(answered) <= Len(sent)
  /\ \A i \in DOMAIN answered :
       /\ \E fresh \in Handle(sent[i].target, NewResponse) :
            /\ answered[i].result = fresh.result
            /\ answered[i].body = fresh.body
            /\ answered[i].keep_alive = sent[i].keep_alive
            /\ sent[i].target \notin WithoutClientId =>
                 answered[i].content_type = fresh.content_type
       /\ answered[i].disposition <=> Downloaded(i)

(* A request that asks to close the connection is the last one answered.    *)
NothingAfterClose == \A i \in DOMAIN answered : sent[i].keep_alive \/ i = Len(answered)
=============================================================================
