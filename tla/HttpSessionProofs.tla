------------------------- MODULE HttpSessionProofs -------------------------
(***************************************************************************)
(* For any number of requests on a connection: each is answered as on a    *)
(* new one, up to the two headers that stay, and a closing one is the last. *)
(***************************************************************************)
EXTENDS HttpSession, TLAPS

\* Left unexpanded in most steps, as the values of the fields do not matter.
Flags == BOOLEAN
Statuses == {200, 400, 404}
Types == {"none", "text/plain", "application/json", "text/csv"}
Bodies == {"", "welcome", "readings", "started", "stopped", "missing clientId", "no file", "file",
           "not found", "unsupported"}

Responses ==
  [result : Statuses, content_type : Types, disposition : Flags,
   body : Bodies, keep_alive : Flags]

Requests == [target : Targets, keep_alive : Flags]

\* A response answers the request as a new connection would, up to the content type of a 400.
Fits(response, request) ==
  /\ response.keep_alive = request.keep_alive
  /\ \E fresh \in Handle(request.target, NewResponse) :
       /\ response.result = fresh.result
       /\ response.body = fresh.body
       /\ request.target \notin WithoutClientId => response.content_type = fresh.content_type

TypeInv ==
  /\ sent \in Seq(Requests)
  /\ pc \in {"read", "write", "closed"}
  /\ req_ \in 0 .. Len(sent)
  /\ res_ \in Responses
  /\ answered \in Seq(Responses)

\* The request is answered with a file.
File(response, request) == request.target = "/download" /\ response.result = 200

\* Content-Disposition is kept from res, or set with a file.
Keeps(response, res, request) ==
  response.disposition <=> res.disposition \/ File(response, request)

\* res_ and the answers have the header from the first file on.
HeaderInv ==
  /\ pc = "read" => (res_.disposition <=> Downloaded(Len(answered)))
  /\ pc = "write" =>
       (res_.disposition <=> Downloaded(Len(answered)) \/ File(res_, sent[req_]))
  /\ \A i \in 1 .. Len(answered) : answered[i].disposition <=> Downloaded(i)

\* The requests read are the answered ones, and the one whose response is being written.
OrderInv ==
  /\ Len(answered) <= req_
  /\ pc = "read" => req_ = Len(answered)
  /\ pc = "write" => req_ = Len(answered) + 1 /\ Fits(res_, sent[req_])
  /\ \A i \in 1 .. Len(answered) : Fits(answered[i], sent[i])
  /\ \A i \in 1 .. Len(answered) :
       sent[i].keep_alive \/ (i = Len(answered) /\ pc = "closed")

Inv == TypeInv /\ OrderInv /\ HeaderInv

LEMMA NewResponseIs == NewResponse \in Responses
<1>1. TRUE \in Flags /\ FALSE \in Flags
  BY DEF Flags
<1> QED
  BY <1>1 DEF NewResponse, Responses, Statuses, Types, Bodies

LEMMA AnswerIs ==
  ASSUME NEW res \in Responses, NEW status \in Statuses, NEW type \in Types, NEW body \in Bodies
  PROVE  /\ Answer(res, status, type, body) \in Responses
         /\ Answer(res, status, type, body).keep_alive = res.keep_alive
         /\ Answer(res, status, type, body).result = status
         /\ Answer(res, status, type, body).body = body
         /\ Answer(res, status, type, body).content_type = type
         /\ Answer(res, status, type, body).disposition = res.disposition
<1>1. Answer(res, status, type, body) \in Responses
  BY DEF Answer, Responses
<1>2. /\ Answer(res, status, type, body).keep_alive = res.keep_alive
      /\ Answer(res, status, type, body).result = status
  BY DEF Answer, Responses
<1>3. /\ Answer(res, status, type, body).body = body
      /\ Answer(res, status, type, body).content_type = type
  BY DEF Answer, Responses
<1>4. Answer(res, status, type, body).disposition = res.disposition
  BY DEF Answer, Responses
<1> QED
  BY <1>1, <1>2, <1>3, <1>4

\* The header that a download adds leaves the other fields.
LEMMA DispositionIs ==
  ASSUME NEW res \in Responses
  PROVE  /\ [res EXCEPT !.disposition = TRUE] \in Responses
         /\ [res EXCEPT !.disposition = TRUE].keep_alive = res.keep_alive
         /\ [res EXCEPT !.disposition = TRUE].result = res.result
         /\ [res EXCEPT !.disposition = TRUE].body = res.body
         /\ [res EXCEPT !.disposition = TRUE].content_type = res.content_type
<1>1. TRUE \in Flags
  BY DEF Flags
<1>2. [res EXCEPT !.disposition = TRUE] \in Responses
  BY <1>1 DEF Responses
<1>3. /\ [res EXCEPT !.disposition = TRUE].keep_alive = res.keep_alive
      /\ [res EXCEPT !.disposition = TRUE].result = res.result
  BY DEF Responses
<1>4. /\ [res EXCEPT !.disposition = TRUE].body = res.body
      /\ [res EXCEPT !.disposition = TRUE].content_type = res.content_type
  BY DEF Responses
<1> QED
  BY <1>2, <1>3, <1>4

\* What handle_request makes of a response that an earlier request has left.
LEMMA HandleFits ==
  ASSUME NEW request \in Requests, NEW res \in Responses, res.keep_alive = request.keep_alive,
         NEW response \in Handle(request.target, res)
  PROVE  response \in Responses /\ Fits(response, request)
<1>0. response \in Handle(request.target, res)
  OBVIOUS
<1>1. NewResponse \in Responses
  BY NewResponseIs
<1>2. ASSUME NEW status \in Statuses, NEW type \in Types, NEW body \in Bodies,
             response = Answer(res, status, type, body),
             Answer(NewResponse, status, type, body) \in Handle(request.target, NewResponse)
      PROVE  response \in Responses /\ Fits(response, request)
  BY <1>1, <1>2, AnswerIs DEF Fits
<1>3. CASE request.target = "/"
  <2>1. response = Answer(res, 200, "text/plain", "welcome")
    BY <1>0, <1>3 DEF Handle, WithoutClientId
  <2>2. Answer(NewResponse, 200, "text/plain", "welcome") \in Handle(request.target, NewResponse)
    BY <1>3 DEF Handle, WithoutClientId
  <2>3. 200 \in Statuses /\ "text/plain" \in Types /\ "welcome" \in Bodies
    BY DEF Statuses, Types, Bodies
  <2> QED
    BY <1>2, <2>1, <2>2, <2>3
<1>4. CASE request.target = "/data/devices"
  <2>1. response = Answer(res, 200, "application/json", "readings")
    BY <1>0, <1>4 DEF Handle, WithoutClientId
  <2>2. Answer(NewResponse, 200, "application/json", "readings")
          \in Handle(request.target, NewResponse)
    BY <1>4 DEF Handle, WithoutClientId
  <2>3. 200 \in Statuses /\ "application/json" \in Types /\ "readings" \in Bodies
    BY DEF Statuses, Types, Bodies
  <2> QED
    BY <1>2, <2>1, <2>2, <2>3
<1>5. CASE request.target = "/startLogging"
  <2>1. response = Answer(res, 200, "application/json", "started")
    BY <1>0, <1>5 DEF Handle, WithoutClientId
  <2>2. Answer(NewResponse, 200, "application/json", "started")
          \in Handle(request.target, NewResponse)
    BY <1>5 DEF Handle, WithoutClientId
  <2>3. 200 \in Statuses /\ "application/json" \in Types /\ "started" \in Bodies
    BY DEF Statuses, Types, Bodies
  <2> QED
    BY <1>2, <2>1, <2>2, <2>3
<1>6. CASE request.target = "/stopLogging"
  <2>1. response = Answer(res, 200, "application/json", "stopped")
    BY <1>0, <1>6 DEF Handle, WithoutClientId
  <2>2. Answer(NewResponse, 200, "application/json", "stopped")
          \in Handle(request.target, NewResponse)
    BY <1>6 DEF Handle, WithoutClientId
  <2>3. 200 \in Statuses /\ "application/json" \in Types /\ "stopped" \in Bodies
    BY DEF Statuses, Types, Bodies
  <2> QED
    BY <1>2, <2>1, <2>2, <2>3
<1>7. CASE request.target \in {"/other", "POST"}
  <2>1. response = Answer(res, 404, "text/plain", "not found")
    BY <1>0, <1>7, ZenonT(30) DEF Handle, WithoutClientId
  <2>2. Answer(NewResponse, 404, "text/plain", "not found") \in Handle(request.target, NewResponse)
    <3>1. CASE request.target = "/other"
      BY <3>1, ZenonT(30) DEF Handle, WithoutClientId
    <3>2. CASE request.target = "POST"
      BY <3>2, ZenonT(30) DEF Handle, WithoutClientId
    <3> QED
      BY <1>7, <3>1, <3>2
  <2>3. 404 \in Statuses /\ "text/plain" \in Types /\ "not found" \in Bodies
    BY DEF Statuses, Types, Bodies
  <2> QED
    BY <1>2, <2>1, <2>2, <2>3, ZenonT(30)
<1>8. CASE request.target = "PUT"
  <2>1. response = Answer(res, 400, "text/plain", "unsupported")
    BY <1>0, <1>8 DEF Handle, WithoutClientId
  <2>2. Answer(NewResponse, 400, "text/plain", "unsupported")
          \in Handle(request.target, NewResponse)
    BY <1>8 DEF Handle, WithoutClientId
  <2>3. 400 \in Statuses /\ "text/plain" \in Types /\ "unsupported" \in Bodies
    BY DEF Statuses, Types, Bodies
  <2> QED
    BY <1>2, <2>1, <2>2, <2>3
<1>9. CASE request.target \in WithoutClientId
  <2>1. /\ response = MissingClientId(res)
        /\ MissingClientId(NewResponse) \in Handle(request.target, NewResponse)
    BY <1>0, <1>9, ZenonT(30) DEF Handle, WithoutClientId
  <2>2. 400 \in Statuses /\ "missing clientId" \in Bodies
    BY DEF Statuses, Bodies
  <2>3. MissingClientId(res) \in Responses
    BY <2>2, ZenonT(30) DEF MissingClientId, Responses
  <2>5. response.keep_alive = res.keep_alive
    BY <2>1 DEF MissingClientId, Responses
  <2>4. /\ response.result = MissingClientId(NewResponse).result
        /\ response.body = MissingClientId(NewResponse).body
    BY <1>1, <2>1 DEF MissingClientId, Responses
  <2> QED
    BY <1>9, <2>1, <2>3, <2>4, <2>5 DEF Fits
<1>10. CASE request.target = "/download"
  <2> DEFINE file(r) == [Answer(r, 200, "text/csv", "file") EXCEPT !.disposition = TRUE]
  <2>1. Handle(request.target, NewResponse) =
          {Answer(NewResponse, 404, "text/plain", "no file"), file(NewResponse)}
    BY <1>10, ZenonT(30) DEF Handle, WithoutClientId
  <2>2. response = Answer(res, 404, "text/plain", "no file") \/ response = file(res)
    BY <1>0, <1>10 DEF Handle, WithoutClientId
  <2>3. /\ 404 \in Statuses /\ "text/plain" \in Types /\ "no file" \in Bodies
        /\ 200 \in Statuses /\ "text/csv" \in Types /\ "file" \in Bodies
    BY DEF Statuses, Types, Bodies
  <2>4. \A r \in Responses :
          /\ file(r) \in Responses
          /\ file(r).keep_alive = r.keep_alive
          /\ file(r).result = 200
          /\ file(r).body = "file"
          /\ file(r).content_type = "text/csv"
    <3> TAKE r \in Responses
    <3> DEFINE answer == Answer(r, 200, "text/csv", "file")
    <3>0. r \in Responses
      OBVIOUS
    <3>1. /\ answer \in Responses /\ answer.keep_alive = r.keep_alive
          /\ answer.result = 200 /\ answer.body = "file"
          /\ answer.content_type = "text/csv"
      <4> DEFINE status == 200
      <4> DEFINE type == "text/csv"
      <4> DEFINE body == "file"
      <4>1. status \in Statuses /\ type \in Types /\ body \in Bodies
        BY <2>3
      <4>2. answer = Answer(r, status, type, body)
        OBVIOUS
      <4> HIDE DEF status, type, body, answer
      <4>3. /\ answer \in Responses /\ answer.keep_alive = r.keep_alive
            /\ answer.result = status /\ answer.body = body
            /\ answer.content_type = type
        BY <3>0, <4>1, <4>2, AnswerIs
      <4> QED
        BY <4>3 DEF status, type, body
    <3> HIDE DEF answer
    <3>2. /\ [answer EXCEPT !.disposition = TRUE] \in Responses
          /\ [answer EXCEPT !.disposition = TRUE].keep_alive = r.keep_alive
          /\ [answer EXCEPT !.disposition = TRUE].result = 200
          /\ [answer EXCEPT !.disposition = TRUE].body = "file"
          /\ [answer EXCEPT !.disposition = TRUE].content_type = "text/csv"
      BY <3>1, DispositionIs
    <3> QED
      BY <3>2 DEF answer
  <2> HIDE DEF file
  <2>5. CASE response = Answer(res, 404, "text/plain", "no file")
    <3>1. Answer(NewResponse, 404, "text/plain", "no file")
            \in Handle(request.target, NewResponse)
      BY <2>1
    <3> QED
      BY <1>2, <2>3, <2>5, <3>1, ZenonT(30)
  <2>6. CASE response = file(res)
    <3>1. file(NewResponse) \in Handle(request.target, NewResponse)
      BY <2>1
    <3> QED
      BY <1>1, <2>4, <2>6, <3>1 DEF Fits
  <2> QED
    BY <2>2, <2>5, <2>6
<1> QED
  BY <1>3, <1>4, <1>5, <1>6, <1>7, <1>8, <1>9, <1>10 DEF Requests, Targets, WithoutClientId

\* Of all targets only a file's sets Content-Disposition, and none erases it.
LEMMA HandleKeeps ==
  ASSUME NEW request \in Requests, NEW res \in Responses,
         NEW response \in Handle(request.target, res)
  PROVE  Keeps(response, res, request)
<1>0. response \in Handle(request.target, res)
  OBVIOUS
<1>1. 200 \in Statuses /\ 400 \in Statuses /\ 404 \in Statuses
  BY DEF Statuses
<1>2. CASE request.target # "/download"
  <2>1. \A status, type, body :
          Answer(res, status, type, body).disposition = res.disposition
    BY DEF Answer, Responses
  <2>2. MissingClientId(res).disposition = res.disposition
    BY DEF MissingClientId, Responses
  <2>3. \/ \E status, type, body : response = Answer(res, status, type, body)
        \/ response = MissingClientId(res)
    <3>1. CASE request.target = "/"
      BY <1>0, <3>1 DEF Handle, WithoutClientId
    <3>2. CASE request.target = "/data/devices"
      BY <1>0, <3>2 DEF Handle, WithoutClientId
    <3>3. CASE request.target = "/startLogging"
      BY <1>0, <3>3 DEF Handle, WithoutClientId
    <3>4. CASE request.target = "/stopLogging"
      BY <1>0, <3>4 DEF Handle, WithoutClientId
    <3>5. CASE request.target \in WithoutClientId
      BY <1>0, <3>5, ZenonT(30) DEF Handle, WithoutClientId
    <3>6. CASE request.target \in {"/other", "POST"}
      BY <1>0, <3>6, ZenonT(30) DEF Handle, WithoutClientId
    <3>7. CASE request.target = "PUT"
      BY <1>0, <3>7 DEF Handle, WithoutClientId
    <3> QED
      BY <1>2, <3>1, <3>2, <3>3, <3>4, <3>5, <3>6, <3>7 DEF Requests, Targets, WithoutClientId
  <2>4. response.disposition = res.disposition
    BY <2>1, <2>2, <2>3
  <2> QED
    BY <1>2, <2>4 DEF Keeps, File
<1>3. CASE request.target = "/download"
  <2>1. \/ response = Answer(res, 404, "text/plain", "no file")
        \/ response = [Answer(res, 200, "text/csv", "file") EXCEPT !.disposition = TRUE]
    BY <1>0, <1>3 DEF Handle, WithoutClientId
  <2>2. CASE response = Answer(res, 404, "text/plain", "no file")
    <3>1. response.disposition = res.disposition /\ response.result # 200
      BY <2>2 DEF Answer, Responses
    <3> QED
      BY <3>1 DEF Keeps, File
  <2>3. CASE response = [Answer(res, 200, "text/csv", "file") EXCEPT !.disposition = TRUE]
    <3>1. response.disposition = TRUE /\ response.result = 200
      BY <2>3 DEF Answer, Responses
    <3> QED
      BY <1>3, <3>1 DEF Keeps, File
  <2> QED
    BY <2>1, <2>2, <2>3
<1> QED
  BY <1>2, <1>3

LEMMA InitInv == Init => Inv
<1> SUFFICES ASSUME Init PROVE Inv
  OBVIOUS
<1>1. TypeInv /\ OrderInv
  BY NewResponseIs DEF Init, TypeInv, OrderInv
<1>2. ~ res_.disposition /\ Len(answered) = 0 /\ pc = "read"
  BY DEF Init, NewResponse
<1>4. ~ Downloaded(0)
  BY DEF Downloaded
<1>3. HeaderInv
  BY <1>2, <1>4 DEF HeaderInv
<1> QED
  BY <1>1, <1>3 DEF Inv

LEMMA SendStep ==
  ASSUME Inv, NEW target \in Targets, NEW keep_alive \in BOOLEAN, SendRequest(target, keep_alive)
  PROVE  Inv'
<1>0. [target |-> target, keep_alive |-> keep_alive] \in Requests
  BY DEF Requests, Flags
<1>1. sent' \in Seq(Requests) /\ Len(sent') = Len(sent) + 1
  BY <1>0 DEF SendRequest, Inv, TypeInv
<1>2. \A i \in 1 .. Len(sent) : sent'[i] = sent[i]
  BY DEF SendRequest, Inv, TypeInv
<1>3. TypeInv'
  BY <1>1 DEF SendRequest, Inv, TypeInv
<1>4. OrderInv'
  BY <1>1, <1>2 DEF SendRequest, Inv, TypeInv, OrderInv
<1>5. HeaderInv'
  <2>1. \A i \in 0 .. Len(answered) : Downloaded(i)' <=> Downloaded(i)
    <3>1. \A i \in 0 .. Len(answered) : \A j \in 1 .. i : sent'[j] = sent[j]
      BY <1>2 DEF Inv, TypeInv, OrderInv
    <3>2. answered' = answered
      BY DEF SendRequest
    <3> QED
      BY <3>1, <3>2 DEF Downloaded
  <2>2. pc = "write" => sent'[req_] = sent[req_]
    BY <1>2 DEF Inv, TypeInv, OrderInv
  <2>3. /\ pc' = pc /\ res_' = res_ /\ answered' = answered /\ req_' = req_
        /\ Len(answered) \in 0 .. Len(answered)
    BY DEF SendRequest, Inv, TypeInv
  <2>4. \A i \in 1 .. Len(answered) : i \in 0 .. Len(answered)
    BY DEF Inv, TypeInv
  <2>5. HeaderInv
    BY DEF Inv
  <2> HIDE DEF Inv
  <2> QED
    BY <2>1, <2>2, <2>3, <2>4, <2>5 DEF HeaderInv, File
<1> QED
  BY <1>3, <1>4, <1>5 DEF Inv

LEMMA ReadStep == Inv /\ OnRead => Inv'
<1> SUFFICES ASSUME Inv, OnRead PROVE Inv'
  OBVIOUS
<1>1. req_ + 1 \in 1 .. Len(sent) /\ sent[req_ + 1] \in Requests
  BY DEF OnRead, Inv, TypeInv
<1>2. res_' \in Responses /\ Fits(res_', sent[req_ + 1])
  <2> DEFINE res == [res_ EXCEPT !.keep_alive = sent[req_ + 1].keep_alive]
  <2>1. res \in Responses /\ res.keep_alive = sent[req_ + 1].keep_alive
    BY <1>1 DEF Inv, TypeInv, Responses, Requests
  <2>2. res_' \in Handle(sent[req_ + 1].target, res)
    BY DEF OnRead
  <2> QED
    BY <1>1, <2>1, <2>2, HandleFits
<1>3. TypeInv'
  BY <1>1, <1>2 DEF OnRead, Inv, TypeInv
<1>4. OrderInv'
  BY <1>1, <1>2 DEF OnRead, Inv, TypeInv, OrderInv
<1>5. HeaderInv'
  <2>1. pc = "read" /\ pc' = "write" /\ answered' = answered /\ sent' = sent /\ req_' = req_ + 1
    BY DEF OnRead
  <2>2. \A i : Downloaded(i)' <=> Downloaded(i)
    BY <2>1 DEF Downloaded
  <2>3. Keeps(res_', [res_ EXCEPT !.keep_alive = sent[req_ + 1].keep_alive], sent[req_ + 1])
    <3> DEFINE res == [res_ EXCEPT !.keep_alive = sent[req_ + 1].keep_alive]
    <3>1. res \in Responses
      BY <1>1 DEF Inv, TypeInv, Responses, Requests
    <3>2. res_' \in Handle(sent[req_ + 1].target, res)
      BY DEF OnRead
    <3> HIDE DEF res
    <3>3. Keeps(res_', res, sent[req_ + 1])
      BY <1>1, <3>1, <3>2, HandleKeeps
    <3> QED
      BY <3>3 DEF res
  <2>4. [res_ EXCEPT !.keep_alive = sent[req_ + 1].keep_alive].disposition = res_.disposition
    BY DEF Inv, TypeInv, Responses
  <2>5. res_'.disposition <=> Downloaded(Len(answered)) \/ File(res_', sent[req_ + 1])
    BY <2>1, <2>3, <2>4 DEF Inv, HeaderInv, Keeps
  <2>6. HeaderInv
    BY DEF Inv
  <2> QED
    BY <2>1, <2>2, <2>5, <2>6 DEF HeaderInv
<1> QED
  BY <1>3, <1>4, <1>5 DEF Inv

LEMMA WriteStep == Inv /\ OnWrite => Inv'
<1> SUFFICES ASSUME Inv, OnWrite PROVE Inv'
  OBVIOUS
<1>1. /\ answered' \in Seq(Responses) /\ Len(answered') = Len(answered) + 1
      /\ answered'[Len(answered) + 1] = res_
      /\ \A i \in 1 .. Len(answered) : answered'[i] = answered[i]
  BY DEF OnWrite, Inv, TypeInv
<1>2. res_.keep_alive = sent[Len(answered) + 1].keep_alive
  BY DEF OnWrite, Inv, OrderInv, Fits
<1>3. TypeInv'
  BY <1>1 DEF OnWrite, Inv, TypeInv
<1>4. OrderInv'
  BY <1>1, <1>2 DEF OnWrite, Inv, TypeInv, OrderInv
<1>5. HeaderInv'
  <2>0. PICK n \in Nat : n = Len(answered)
    BY DEF Inv, TypeInv
  <2>1. /\ n \in Nat /\ req_ = n + 1 /\ pc = "write" /\ pc' # "write" /\ sent' = sent
        /\ res_' = res_
    BY <2>0 DEF OnWrite, Inv, TypeInv, OrderInv
  <2>2. \A i \in 0 .. n : Downloaded(i)' <=> Downloaded(i)
    BY <1>1, <2>0, <2>1 DEF Downloaded
  <2>3. Downloaded(n + 1)' <=> Downloaded(n) \/ File(res_, sent[n + 1])
    <3>1. ASSUME Downloaded(n) PROVE Downloaded(n + 1)'
      BY <1>1, <2>0, <2>1, <3>1 DEF Downloaded
    <3>2. ASSUME File(res_, sent[n + 1]) PROVE Downloaded(n + 1)'
      BY <1>1, <2>0, <2>1, <3>2 DEF Downloaded, File
    <3>3. ASSUME Downloaded(n + 1)', ~ File(res_, sent[n + 1]) PROVE Downloaded(n)
      <4>1. PICK j \in 1 .. n + 1 :
              sent'[j].target = "/download" /\ answered'[j].result = 200
        BY <3>3 DEF Downloaded
      <4>2. j # n + 1
        BY <1>1, <2>0, <2>1, <3>3, <4>1 DEF File
      <4>3. j \in 1 .. n
        BY <2>1, <4>2
      <4> QED
        BY <1>1, <2>0, <2>1, <4>1, <4>3 DEF Downloaded
    <3> QED
      BY <3>1, <3>2, <3>3
  <2>4. res_.disposition <=> Downloaded(n + 1)'
    BY <2>0, <2>1, <2>3 DEF Inv, HeaderInv
  <2>5. Len(answered)' = n + 1
    BY <1>1, <2>0
  <2>6. \A i \in 1 .. n + 1 : answered'[i].disposition <=> Downloaded(i)'
    <3> TAKE i \in 1 .. n + 1
    <3>1. CASE i = n + 1
      <4>1. answered'[n + 1] = res_
        BY <1>1, <2>0
      <4>2. answered'[n + 1].disposition <=> Downloaded(n + 1)'
        BY <2>4, <4>1
      <4> QED
        BY <3>1, <4>2
    <3>2. CASE i # n + 1
      <4>1. i \in 1 .. n /\ i \in 0 .. n
        BY <2>1, <3>2
      <4>2. answered'[i] = answered[i]
        BY <1>1, <2>0, <4>1
      <4>3. answered[i].disposition <=> Downloaded(i)
        BY <2>0, <4>1 DEF Inv, HeaderInv
      <4> QED
        BY <2>2, <4>1, <4>2, <4>3
    <3> QED
      BY <3>1, <3>2
  <2> QED
    <3>1. /\ pc' # "write"
          /\ res_'.disposition <=> Downloaded(n + 1)'
          /\ \A i \in 1 .. Len(answered)' : answered'[i].disposition <=> Downloaded(i)'
      BY <2>1, <2>4, <2>5, <2>6
    <3> QED
      BY <2>5, <3>1 DEF HeaderInv
<1> QED
  BY <1>3, <1>4, <1>5 DEF Inv

LEMMA Invariant == Spec => []Inv
<1>1. Inv /\ [Next]_vars => Inv'
  <2> SUFFICES ASSUME Inv, [Next]_vars PROVE Inv'
    OBVIOUS
  <2>1. CASE UNCHANGED vars
    BY <2>1 DEF vars, Inv, TypeInv, OrderInv, HeaderInv, Downloaded
  <2>2. CASE OnReadError \/ OnWriteError
    <3>1. TypeInv' /\ OrderInv'
      BY <2>2 DEF OnReadError, OnWriteError, Inv, TypeInv, OrderInv
    <3>2. pc' = "closed" /\ sent' = sent /\ answered' = answered
      BY <2>2 DEF OnReadError, OnWriteError
    <3>3. \A i : Downloaded(i)' <=> Downloaded(i)
      BY <3>2 DEF Downloaded
    <3>4. HeaderInv'
      BY <3>2, <3>3 DEF Inv, HeaderInv
    <3> QED
      BY <3>1, <3>4 DEF Inv
  <2> QED
    BY <2>1, <2>2, SendStep, ReadStep, WriteStep DEF Next
<1> QED
  BY InitInv, <1>1, PTL DEF Spec

(* Two headers are all that stays of an earlier answer on the connection:  *)
(* the content type in a 400 for want of a clientId, and the                *)
(* Content-Disposition of the first file served in all that follow it.      *)
THEOREM AnswersAreFresh == Spec => []AnswersFit
<1>1. Inv => AnswersFit
  <2> SUFFICES ASSUME Inv PROVE AnswersFit
    OBVIOUS
  <2>1. Len(answered) <= Len(sent) /\ DOMAIN answered = 1 .. Len(answered)
    BY DEF Inv, TypeInv, OrderInv
  <2>2. \A i \in 1 .. Len(answered) : Fits(answered[i], sent[i])
    BY DEF Inv, OrderInv
  <2>3. \A i \in 1 .. Len(answered) : answered[i].disposition <=> Downloaded(i)
    BY DEF Inv, HeaderInv
  <2> QED
    BY <2>1, <2>2, <2>3 DEF AnswersFit, Fits
<1> QED
  BY <1>1, Invariant, PTL

(* A connection that was to be closed is not read again.                    *)
THEOREM CloseIsLast == Spec => []NothingAfterClose
<1>1. Inv => NothingAfterClose
  BY DEF Inv, TypeInv, OrderInv, NothingAfterClose
<1> QED
  BY <1>1, Invariant, PTL
=============================================================================
