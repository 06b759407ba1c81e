-------------------------- MODULE GPSDeviceProofs --------------------------
(***************************************************************************)
(* Proofs about GPSDevice, for any sentences, chunk size and stream: type  *)
(* correctness, that on_receive has the port for itself, that nothing is   *)
(* published once Stop has set its flag, and that what is published is the *)
(* position of the last complete fix that was read.                        *)
(***************************************************************************)
EXTENDS GPSDevice, SequenceTheorems, TLAPS

LEMMA CharactersType ==
  ASSUME NEW s \in Sentences
  PROVE  /\ Characters(s) \in Seq(CharacterSet) /\ Len(Characters(s)) = 4
         /\ Characters(s)[1] = <<s, 1>> /\ Characters(s)[2] = <<s, 2>>
         /\ Characters(s)[3] = EOL /\ Characters(s)[4] = EOL
         /\ <<s, 1>> # EOL /\ <<s, 2>> # EOL
<1>1. <<s, 1>> \in CharacterSet /\ <<s, 2>> \in CharacterSet /\ EOL \in CharacterSet
  BY DEF CharacterSet
<1>2. Line(s) \in Seq(CharacterSet) /\ Len(Line(s)) = 2
      /\ Line(s)[1] = <<s, 1>> /\ Line(s)[2] = <<s, 2>>
  BY <1>1 DEF Line
<1>3. <<EOL, EOL>> \in Seq(CharacterSet) /\ Len(<<EOL, EOL>>) = 2
      /\ <<EOL, EOL>>[1] = EOL /\ <<EOL, EOL>>[2] = EOL
  BY <1>1
<1>4. <<s, 1>> # EOL /\ <<s, 2>> # EOL
  BY EolAssumption
<1>5. <<EOL, EOL>> \in Seq(CharacterSet) /\ Line(s) \o <<EOL, EOL>> \in Seq(CharacterSet)
  BY <1>2, <1>3, ConcatProperties
<1>. DEFINE line == Line(s)
            end == <<EOL, EOL>>
<1>6. /\ Len(line \o end) = Len(line) + Len(end)
      /\ \A i \in 1 .. Len(line) + Len(end) :
           (line \o end)[i] = IF i <= Len(line) THEN line[i] ELSE end[i - Len(line)]
  BY <1>2, <1>3, ConcatProperties
<1>7. Characters(s) = line \o end /\ Characters(s) \in Seq(CharacterSet)
  BY <1>5 DEF Characters
<1>. HIDE DEF line, end
<1>8. Len(line) = 2 /\ Len(end) = 2 /\ end[1] = EOL /\ end[2] = EOL
      /\ line[1] = <<s, 1>> /\ line[2] = <<s, 2>>
  BY <1>2, <1>3 DEF line, end
<1>. QED  BY <1>4, <1>6, <1>7, <1>8

\* A sequence cut in two.
LEMMA CutInTwo ==
  ASSUME NEW S, NEW w \in Seq(S), NEW n \in 0 .. Len(w)
  PROVE  /\ SubSeq(w, 1, n) \in Seq(S) /\ Len(SubSeq(w, 1, n)) = n
         /\ SubSeq(w, n + 1, Len(w)) \in Seq(S) /\ Len(SubSeq(w, n + 1, Len(w))) = Len(w) - n
         /\ SubSeq(w, 1, n) \o SubSeq(w, n + 1, Len(w)) = w
<1>. DEFINE a == SubSeq(w, 1, n)
            b == SubSeq(w, n + 1, Len(w))
<1>1. a \in Seq(S) /\ Len(a) = n /\ \A i \in 1 .. n : a[i] = w[i]
  BY SubSeqProperties
<1>2. b \in Seq(S) /\ Len(b) = Len(w) - n /\ \A i \in 1 .. Len(w) - n : b[i] = w[n + i]
  BY SubSeqProperties
<1>. HIDE DEF a, b
<1>3. /\ a \o b \in Seq(S) /\ Len(a \o b) = Len(w)
      /\ \A i \in 1 .. Len(w) : (a \o b)[i] = w[i]
  <2>1. /\ a \o b \in Seq(S) /\ Len(a \o b) = Len(a) + Len(b)
        /\ \A i \in 1 .. Len(a) + Len(b) :
             (a \o b)[i] = IF i <= Len(a) THEN a[i] ELSE b[i - Len(a)]
    BY <1>1, <1>2, ConcatProperties
  <2>2. Len(w) \in Nat /\ n \in Nat /\ n <= Len(w) /\ Len(a) + Len(b) = Len(w)
    BY <1>1, <1>2
  <2>3. ASSUME NEW i \in 1 .. Len(w)
        PROVE  (a \o b)[i] = w[i]
    <3>1. CASE i <= n
      BY <1>1, <2>1, <2>2, <3>1
    <3>2. CASE i > n
      <4>1. i - n \in 1 .. Len(w) - n /\ n + (i - n) = i
        BY <2>2, <3>2
      <4>2. (a \o b)[i] = b[i - n]
        BY <1>1, <2>1, <2>2, <3>2
      <4>. QED  BY <1>2, <4>1, <4>2
    <3>. QED  BY <2>2, <3>1, <3>2
  <2>. QED  BY <2>1, <2>2, <2>3
<1>4. a \o b = w
  BY <1>3, SeqEqual
<1>. QED  BY <1>1, <1>2, <1>4 DEF a, b

LEMMA ConcatFour ==
  ASSUME NEW S, NEW u \in Seq(S), NEW v \in Seq(S), Len(v) = 4
  PROVE  /\ u \o v \in Seq(S) /\ Len(u \o v) = Len(u) + 4
         /\ \A i \in 1 .. Len(u) : (u \o v)[i] = u[i]
         /\ \A j \in 1 .. 4 : (u \o v)[Len(u) + j] = v[j]
<1>1. /\ u \o v \in Seq(S) /\ Len(u \o v) = Len(u) + 4 /\ Len(u) \in Nat
      /\ \A i \in 1 .. Len(u) + 4 : (u \o v)[i] = IF i <= Len(u) THEN u[i] ELSE v[i - Len(u)]
  <2>1. /\ u \o v \in Seq(S) /\ Len(u \o v) = Len(u) + Len(v)
        /\ \A i \in 1 .. Len(u) + Len(v) :
             (u \o v)[i] = IF i <= Len(u) THEN u[i] ELSE v[i - Len(u)]
    BY ConcatProperties
  <2>. QED  BY <2>1
<1>2. ASSUME NEW j \in 1 .. 4
      PROVE  (u \o v)[Len(u) + j] = v[j]
  <2>1. Len(u) + j \in 1 .. Len(u) + 4 /\ ~(Len(u) + j <= Len(u)) /\ Len(u) + j - Len(u) = j
    BY <1>1
  <2>. QED  BY <1>1, <2>1
<1>3. \A i \in 1 .. Len(u) : (u \o v)[i] = u[i]
  BY <1>1
<1>. QED  BY <1>1, <1>2, <1>3

LEMMA AppendSecond ==
  ASSUME NEW x, NEW y
  PROVE  Append(<<x>>, y) = <<x, y>>
<1>. DEFINE a == Append(<<x>>, y)
            b == <<x, y>>
            S == {x, y}
<1>1. <<x>> \in Seq(S) /\ Len(<<x>>) = 1 /\ <<x>>[1] = x /\ y \in S
  OBVIOUS
<1>2. a \in Seq(S) /\ Len(a) = 2 /\ a[1] = x /\ a[2] = y
  BY <1>1, AppendProperties
<1>3. b \in Seq(S) /\ Len(b) = 2 /\ b[1] = x /\ b[2] = y
  OBVIOUS
<1>. HIDE DEF a, b
<1>4. \A i \in 1 .. Len(a) : a[i] = b[i]
  BY <1>2, <1>3
<1>5. a = b
  BY <1>2, <1>3, <1>4, SeqEqual
<1>. QED  BY <1>5 DEF a, b

LEMMA TailConcat ==
  ASSUME NEW S, NEW u \in Seq(S), NEW v \in Seq(S), u # <<>>
  PROVE  /\ Len(u \o v) \in Nat /\ Len(u \o v) >= 1 /\ (u \o v)[1] = Head(u)
         /\ Len(Tail(u) \o v) = Len(u \o v) - 1
         /\ \A i \in 1 .. Len(u \o v) - 1 : (Tail(u) \o v)[i] = (u \o v)[i + 1]
<1>1. /\ Tail(u) \in Seq(S) /\ Len(Tail(u)) = Len(u) - 1 /\ Head(u) = u[1]
      /\ Len(u) \in Nat /\ Len(u) >= 1 /\ Len(v) \in Nat
      /\ \A i \in 1 .. Len(u) - 1 : Tail(u)[i] = u[i + 1]
  OBVIOUS
<1>2. /\ Len(u \o v) = Len(u) + Len(v)
      /\ \A i \in 1 .. Len(u) + Len(v) :
           (u \o v)[i] = IF i <= Len(u) THEN u[i] ELSE v[i - Len(u)]
  BY ConcatProperties
<1>. DEFINE t == Tail(u)
<1>3. t \in Seq(S)
  BY <1>1
<1>. HIDE DEF t
<1>4. /\ Len(t \o v) = Len(t) + Len(v)
      /\ \A i \in 1 .. Len(t) + Len(v) :
           (t \o v)[i] = IF i <= Len(t) THEN t[i] ELSE v[i - Len(t)]
  BY <1>3, ConcatProperties
<1>5. Len(t) = Len(u) - 1 /\ \A i \in 1 .. Len(u) - 1 : t[i] = u[i + 1]
  BY <1>1 DEF t
<1>6. ASSUME NEW i \in 1 .. Len(u) + Len(v) - 1
      PROVE  (t \o v)[i] = (u \o v)[i + 1]
  <2>1. i \in 1 .. Len(t) + Len(v) /\ i + 1 \in 1 .. Len(u) + Len(v)
    BY <1>1, <1>5
  <2>2. (t \o v)[i] = (IF i <= Len(t) THEN t[i] ELSE v[i - Len(t)])
        /\ (u \o v)[i + 1] = (IF i + 1 <= Len(u) THEN u[i + 1] ELSE v[i + 1 - Len(u)])
    BY <1>2, <1>4, <2>1
  <2>3. CASE i <= Len(t)
    BY <1>1, <1>5, <2>2, <2>3
  <2>4. CASE i > Len(t)
    <3>1. i - Len(t) = i + 1 - Len(u) /\ ~(i <= Len(t)) /\ ~(i + 1 <= Len(u))
      BY <1>1, <1>5, <2>4
    <3>. QED  BY <2>2, <3>1
  <2>. QED  BY <1>1, <1>5, <2>3, <2>4
<1>. QED  BY <1>1, <1>2, <1>4, <1>5, <1>6 DEF t

(* Every variable keeps its type.                                           *)
THEOREM TypeCorrect == Spec => []TypeOK
<1>1. Init => TypeOK
  <2>. SUFFICES ASSUME Init
                PROVE  TypeOK
    OBVIOUS
  <2>1. PICK s \in Sentences : wire = SubSeq(Characters(s), 5 - cut, 4)
    BY DEF Init
  <2>2. wire \in Seq(CharacterSet)
    BY <2>1, CharactersType, SubSeqProperties DEF Init
  <2>3. <<>> \in Seq(Sentences) /\ <<>> \in Seq(CharacterSet)
    OBVIOUS
  <2>4. StreamTypeOK
    BY <2>2, <2>3 DEF Init, StreamTypeOK
  <2>. QED  BY <2>4 DEF Init, TypeOK
<1>2. TypeOK /\ [Next]_vars => TypeOK'
  <2>. SUFFICES ASSUME TypeOK, [Next]_vars
                PROVE  TypeOK'
    OBVIOUS
  <2>. USE DEF TypeOK, lineVars, readVars, stopVars, IoAt, ReadEnds, Byte, StopAt
  <2>0. ASSUME UNCHANGED <<lineVars, read_buf_raw_, read_buf_str>>
        PROVE  StreamTypeOK'
    BY <2>0 DEF StreamTypeOK
  <2>1. CASE \E s \in Sentences : Send(s)
    <3>1. PICK s \in Sentences : Send(s)
      BY <2>1
    <3>2. sent' = Append(sent, s) /\ wire' = wire \o Characters(s)
          /\ UNCHANGED <<cut, read_buf_raw_, read_buf_str>>
      BY <3>1 DEF Send
    <3>3. sent' \in Seq(Sentences) /\ wire' \in Seq(CharacterSet)
      BY <3>2, CharactersType, ConcatProperties DEF StreamTypeOK
    <3>4. StreamTypeOK'
      BY <3>2, <3>3 DEF StreamTypeOK
    <3>. QED  BY <3>1, <3>4 DEF Send
  <2>2. CASE \E n \in 1 .. SERIAL_PORT_READ_BUF_SIZE : ReadSome(n)
    <3>1. PICK n \in 1 .. SERIAL_PORT_READ_BUF_SIZE : ReadSome(n)
      BY <2>2
    <3>2. /\ wire' = SubSeq(wire, n + 1, Len(wire)) /\ read_buf_raw_' = SubSeq(wire, 1, n)
          /\ n \in 0 .. Len(wire) /\ UNCHANGED <<sent, cut, read_buf_str>>
      BY <3>1, GpsAssumption DEF ReadSome, StreamTypeOK
    <3>3. wire' \in Seq(CharacterSet) /\ read_buf_raw_' \in Seq(CharacterSet)
      BY <3>2, CutInTwo DEF StreamTypeOK
    <3>4. StreamTypeOK'
      BY <3>2, <3>3 DEF StreamTypeOK
    <3>. QED  BY <3>1, <3>4 DEF ReadSome
  <2>3. CASE ReadFails
    <3>1. StreamTypeOK'
      BY <2>3 DEF ReadFails, StreamTypeOK
    <3>. QED  BY <2>3, <3>1 DEF ReadFails
  <2>4. CASE HandlerLock \/ HandlerReturns \/ HandlerGoesOn
    BY <2>0, <2>4 DEF HandlerLock, HandlerReturns, HandlerGoesOn
  <2>5. CASE EndOfLine
    <3>1. published' \in Fixes \cup {NoFix}
      BY <2>5 DEF EndOfLine, parseGPSLine
    <3>2. StreamTypeOK'
      BY <2>5 DEF EndOfLine, StreamTypeOK
    <3>. QED  BY <2>5, <3>1, <3>2 DEF EndOfLine
  <2>6. CASE Character
    <3>1. StreamTypeOK'
      BY <2>6 DEF Character, StreamTypeOK
    <3>2. UNCHANGED <<published, pending, ec, mutex_, stopVars, mainPc>> /\ ioPc' = "bytes"
      BY <2>6 DEF Character
    <3>. QED  BY <3>1, <3>2
  <2>7. CASE ReadAgain \/ RunReturns
    BY <2>0, <2>7 DEF ReadAgain, RunReturns
  <2>8. CASE Start \/ Stop \/ StopFlag \/ StopClose \/ StopContext \/ StopJoin
    BY <2>0, <2>8, ZenonT(30) DEF Start, Stop, StopFlag, StopClose, StopContext, StopJoin
  <2>9. CASE UNCHANGED vars
    BY <2>0, <2>9 DEF vars
  <2>. QED  BY <2>1, <2>2, <2>3, <2>4, <2>5, <2>6, <2>7, <2>8, <2>9 DEF Next, Handler
<1>. QED  BY <1>1, <1>2, PTL DEF Spec

-----------------------------------------------------------------------------
(***************************************************************************)
(* The mutex, Stop's progress and the port's state determine each other:   *)
(* whoever gets as far as the bytes of a chunk has the port.               *)
(***************************************************************************)
THEOREM PortInvariant == Spec => []PortInv
<1>. USE DEF PortInv, MutexInv, StopInv, HandlerOwnsPort
<1>1. Init => PortInv
  BY DEF Init
<1>2. TypeOK /\ PortInv /\ [Next]_vars => PortInv'
  <2>. SUFFICES ASSUME TypeOK, PortInv, [Next]_vars
                PROVE  PortInv'
    OBVIOUS
  <2>. USE DEF lineVars, readVars, stopVars, IoAt, ReadEnds, Byte, StopAt
  <2>1. CASE \E s \in Sentences : Send(s)
    BY <2>1 DEF Send
  <2>2. CASE (\E n \in 1 .. SERIAL_PORT_READ_BUF_SIZE : ReadSome(n)) \/ ReadFails
    BY <2>2 DEF ReadSome, ReadFails
  <2>3. CASE HandlerLock \/ HandlerReturns \/ HandlerGoesOn
    BY <2>3 DEF HandlerLock, HandlerReturns, HandlerGoesOn
  <2>4. CASE EndOfLine \/ Character \/ ReadAgain \/ RunReturns
    BY <2>4 DEF EndOfLine, Character, ReadAgain, RunReturns
  \* Stop gets mutex_ only while on_receive is not at the bytes of a chunk.
  <2>5. CASE StopFlag
    <3>1. ioPc # "bytes"
      BY <2>5 DEF StopFlag
    <3>. QED  BY <2>5, <3>1 DEF StopFlag
  \* The port is closed only after the flag was set.
  <2>6. CASE StopClose
    <3>1. stop_flag_ /\ ioPc # "bytes"
      BY <2>6 DEF StopClose
    <3>. QED  BY <2>6, <3>1 DEF StopClose
  <2>7. CASE Start \/ Stop \/ StopContext \/ StopJoin
    BY <2>7 DEF Start, Stop, StopContext, StopJoin, TypeOK
  <2>8. CASE UNCHANGED vars
    BY <2>8 DEF vars
  <2>. QED  BY <2>1, <2>2, <2>3, <2>4, <2>5, <2>6, <2>7, <2>8 DEF Next, Handler
<1>. QED  BY <1>1, <1>2, TypeCorrect, PTL DEF Spec

(* Once Stop has set its flag, no position is published.                    *)
THEOREM Quiet == Spec => QuietAfterStop
<1>1. PortInv /\ [Next]_vars => [stop_flag_ => UNCHANGED <<published, read_buf_str>>]_vars
  <2>. SUFFICES ASSUME PortInv, Next, stop_flag_
                PROVE  UNCHANGED <<published, read_buf_str>>
    OBVIOUS
  <2>1. ioPc # "bytes"
    BY DEF PortInv, HandlerOwnsPort
  <2>2. ~EndOfLine /\ ~Character /\ ~ReadAgain
    BY <2>1 DEF EndOfLine, Character, ReadAgain, Byte, IoAt
  <2>. QED
    BY <2>2 DEF Next, Handler, Send, ReadSome, ReadFails, HandlerLock, HandlerReturns,
                HandlerGoesOn, RunReturns, Start, Stop, StopFlag, StopClose, StopContext,
                StopJoin, readVars, IoAt, ReadEnds, StopAt
<1>. QED  BY <1>1, PortInvariant, PTL DEF Spec, QuietAfterStop
-----------------------------------------------------------------------------
(***************************************************************************)
(* The published position.  How far on_receive is in the stream says what  *)
(* read_buf_str holds, wherever the chunks were cut: a line is complete at *)
(* its '\r' whole, and the '\n' after it ends an empty line.               *)
(***************************************************************************)

\* What on_receive has not gone through yet.
Unread == read_buf_raw_ \o wire

\* The place in the stream of the character j of the sentence i, after c characters.
Place(c, i, j) == c + 4 * (i - 1) + j

\* What is still to be read of the sentences sent is their characters.
UnreadInv ==
  \A i \in 1 .. Len(sent) : \A j \in 1 .. 4 :
    Place(cut, i, j) > Consumed => Unread[Place(cut, i, j) - Consumed] = Characters(sent[i])[j]

\* What read_buf_str holds when j characters of the sentence s have been read.
Collected(s, j) ==
  IF j = 1 THEN << <<s, 1>> >> ELSE IF j = 2 THEN Line(s) ELSE <<>>

\* The sentence 0 was under way when the port was opened: no line of it is complete.
CutInv ==
  \E s \in Sentences :
    /\ \A j \in 1 .. 4 : Place(cut, 0, j) > Consumed =>
         Unread[Place(cut, 0, j) - Consumed] = Characters(s)[j]
    /\ Consumed <= cut =>
         read_buf_str = IF cut = 3 /\ Consumed = 1 THEN << <<s, 2>> >> ELSE <<>>

CollectedInv ==
  \A i \in 1 .. Len(sent) : \A j \in 1 .. 4 :
    Consumed = Place(cut, i, j) => read_buf_str = Collected(sent[i], j)

\* The chunk is empty when the next read starts.
ChunkInv ==
  /\ pending => read_buf_raw_ = <<>>
  /\ mainPc = "start" => read_buf_raw_ = <<>>

PublishedInv ==
  \/ Complete = {} /\ published = NoFix
  \/ \E m \in Complete : published = sent[m] /\ \A i \in Complete : i <= m

StreamInv ==
  /\ Consumed \in Nat
  /\ UnreadInv /\ CutInv /\ CollectedInv /\ ChunkInv /\ PublishedInv

LEMMA UnreadType ==
  ASSUME TypeOK
  PROVE  /\ Unread \in Seq(CharacterSet) /\ Len(Unread) \in Nat
         /\ Consumed = cut + 4 * Len(sent) - Len(Unread)
         /\ cut \in 0 .. 3 /\ Len(sent) \in Nat
         /\ \A i \in 1 .. Len(sent) : sent[i] \in Sentences
<1>1. /\ read_buf_raw_ \in Seq(CharacterSet) /\ wire \in Seq(CharacterSet)
      /\ sent \in Seq(Sentences) /\ cut \in 0 .. 3
  BY DEF TypeOK, StreamTypeOK
<1>2. /\ Unread \in Seq(CharacterSet)
      /\ Len(Unread) = Len(read_buf_raw_) + Len(wire)
  BY <1>1, ConcatProperties DEF Unread
<1>. QED  BY <1>1, <1>2 DEF Consumed

\* A step that moves no character through on_receive.
LEMMA StreamSame ==
  ASSUME TypeOK, TypeOK', StreamInv, UNCHANGED <<sent, cut, read_buf_str, published>>,
         Unread' = Unread, ChunkInv'
  PROVE  StreamInv'
<1>1. Consumed' = Consumed
  <2>1. Len(Unread') = Len(read_buf_raw_') + Len(wire')
    BY ConcatProperties DEF TypeOK, StreamTypeOK, Unread
  <2>2. Len(read_buf_raw_') \in Nat /\ Len(wire') \in Nat
    BY DEF TypeOK, StreamTypeOK
  <2>. QED  BY <2>1, <2>2, UnreadType DEF Consumed
<1>2. Complete' = Complete
  BY <1>1 DEF Complete
<1>3. UnreadInv' /\ CutInv' /\ CollectedInv'
  BY <1>1 DEF StreamInv, UnreadInv, CutInv, CollectedInv
<1>4. PublishedInv'
  BY <1>2 DEF StreamInv, PublishedInv
<1>. QED  BY <1>1, <1>3, <1>4 DEF StreamInv

\* A new sentence: its characters come after all that is unread.
LEMMA StreamSend ==
  ASSUME TypeOK, TypeOK', StreamInv, NEW s \in Sentences, Send(s)
  PROVE  StreamInv'
<1>. DEFINE n == Consumed
            len == Len(sent)
<1>1. /\ sent' = Append(sent, s) /\ Len(sent)' = len + 1 /\ sent'[len + 1] = s
      /\ \A i \in 1 .. len : sent'[i] = sent[i] /\ i \in Int
      /\ UNCHANGED <<cut, read_buf_str, published, read_buf_raw_, pending, mainPc>>
      /\ len \in Nat
  BY DEF Send, readVars, TypeOK, StreamTypeOK
<1>2. /\ Unread' = Unread \o Characters(s)
      /\ Len(Unread') = Len(Unread) + 4
      /\ \A i \in 1 .. Len(Unread) : Unread'[i] = Unread[i]
      /\ \A j \in 1 .. 4 : Unread'[Len(Unread) + j] = Characters(s)[j]
  <2>1. wire' = wire \o Characters(s) /\ read_buf_raw_' = read_buf_raw_
    BY DEF Send, readVars
  <2>2. read_buf_raw_ \in Seq(CharacterSet) /\ wire \in Seq(CharacterSet)
    BY DEF TypeOK, StreamTypeOK
  <2>3. Unread' = Unread \o Characters(s)
    <3>1. Characters(s) \in Seq(CharacterSet)
      BY CharactersType
    <3>2. (read_buf_raw_ \o wire) \o Characters(s) = read_buf_raw_ \o (wire \o Characters(s))
      BY <2>2, <3>1, ConcatAssociative
    <3>. QED  BY <2>1, <3>2 DEF Unread
  <2>4. Unread \in Seq(CharacterSet) /\ Characters(s) \in Seq(CharacterSet)
        /\ Len(Characters(s)) = 4
    BY UnreadType, CharactersType
  <2>. QED  BY <2>3, <2>4, ConcatFour
<1>3. /\ Consumed' = n /\ n \in Nat /\ Len(Unread) = cut + 4 * len - n /\ Len(Unread) \in Nat
      /\ cut \in 0 .. 3
  <2>1. wire' = wire \o Characters(s) /\ wire \in Seq(CharacterSet)
        /\ Len(read_buf_raw_) \in Nat
    BY DEF Send, TypeOK, StreamTypeOK
  <2>2. Characters(s) \in Seq(CharacterSet) /\ Len(Characters(s)) = 4
    BY CharactersType
  <2>3. Len(wire') = Len(wire) + 4 /\ Len(wire) \in Nat
    BY <2>1, <2>2, ConcatFour
  <2>4. Consumed' = Consumed
    BY <1>1, <2>1, <2>3, UnreadType DEF Consumed
  <2>5. Consumed \in Nat
    BY DEF StreamInv
  <2>6. /\ Consumed = cut + 4 * len - Len(Unread) /\ Len(Unread) \in Nat
        /\ cut \in 0 .. 3 /\ len \in Nat
    BY UnreadType
  <2>7. Len(Unread) = cut + 4 * len - Consumed
    BY <2>6
  <2>. QED  BY <2>4, <2>5, <2>6, <2>7
<1>. HIDE DEF n, len
<1>4. UnreadInv'
  <2>. SUFFICES ASSUME NEW i \in 1 .. len + 1, NEW j \in 1 .. 4, Place(cut, i, j) > n
                PROVE  Unread'[Place(cut, i, j) - n] = Characters(sent'[i])[j]
    BY <1>1, <1>3 DEF UnreadInv, n, len
  <2>1. CASE i = len + 1
    <3>1. Place(cut, i, j) = cut + 4 * len + j
      BY <1>1, <2>1 DEF Place
    <3>2. Place(cut, i, j) - n = Len(Unread) + j
      BY <1>1, <1>3, <3>1
    <3>. QED  BY <1>1, <1>2, <2>1, <3>2
  <2>2. CASE i \in 1 .. len
    <3>1. Place(cut, i, j) - n \in 1 .. Len(Unread)
      BY <1>1, <1>3, <2>2 DEF Place
    <3>2. Unread[Place(cut, i, j) - n] = Characters(sent[i])[j]
      BY <2>2 DEF StreamInv, UnreadInv, n, len
    <3>. QED  BY <1>1, <1>2, <2>2, <3>1, <3>2
  <2>. QED  BY <1>1, <2>1, <2>2
<1>5. CutInv'
  <2>1. PICK s0 \in Sentences :
          /\ \A j \in 1 .. 4 : Place(cut, 0, j) > n =>
               Unread[Place(cut, 0, j) - n] = Characters(s0)[j]
          /\ n <= cut => read_buf_str = IF cut = 3 /\ n = 1 THEN << <<s0, 2>> >> ELSE <<>>
    BY DEF StreamInv, CutInv, n
  <2>2. ASSUME NEW j \in 1 .. 4, Place(cut, 0, j) > n
        PROVE  Unread'[Place(cut, 0, j) - n] = Characters(s0)[j]
    <3>1. Place(cut, 0, j) - n \in 1 .. Len(Unread)
      BY <1>1, <1>3, <2>2 DEF Place
    <3>. QED  BY <1>2, <2>1, <2>2, <3>1
  <2>. QED  BY <1>1, <1>3, <2>1, <2>2 DEF CutInv, n
<1>6. CollectedInv'
  <2>. SUFFICES ASSUME NEW i \in 1 .. len + 1, NEW j \in 1 .. 4, n = Place(cut, i, j)
                PROVE  read_buf_str = Collected(sent'[i], j)
    BY <1>1, <1>3 DEF CollectedInv, n, len
  <2>1. i \in 1 .. len
    BY <1>1, <1>3 DEF Place
  <2>. QED  BY <1>1, <2>1 DEF StreamInv, CollectedInv, n, len
<1>7. PublishedInv'
  <2>1. \A i \in 1 .. len + 1 : cut + 4 * (i - 1) + 3 <= n => i \in 1 .. len
    BY <1>1, <1>3
  <2>2. Complete' = {i \in 1 .. len + 1 : sent'[i] \in Fixes /\ cut + 4 * (i - 1) + 3 <= n}
    BY <1>1, <1>3 DEF Complete, n, len
  <2>3. Complete = {i \in 1 .. len : sent[i] \in Fixes /\ cut + 4 * (i - 1) + 3 <= n}
    BY DEF Complete, n, len
  <2>4. Complete' = Complete /\ \A i \in Complete : sent'[i] = sent[i]
    BY <1>1, <2>1, <2>2, <2>3
  <2>. QED  BY <1>1, <2>4 DEF StreamInv, PublishedInv
<1>8. ChunkInv'
  BY <1>1 DEF StreamInv, ChunkInv
<1>. QED  BY <1>3, <1>4, <1>5, <1>6, <1>7, <1>8 DEF StreamInv

\* What parseGPSLine does with the lines it is given.
LEMMA LineParsed ==
  ASSUME NEW line, parseGPSLine(line)
  PROVE  /\ line = <<>> \/ (\E c : line = <<c>>) => published' = published
         /\ \A s \in Sentences : line = Line(s) =>
              published' = IF s \in Fixes THEN s ELSE published
<1>1. \A s, t \in Sentences : Line(s) = Line(t) => s = t
  BY DEF Line
<1>2. \A s \in Sentences : Line(s) # <<>> /\ \A c : Line(s) # <<c>>
  BY DEF Line
<1>3. Fixes \subseteq Sentences
  BY GpsAssumption
<1>4. ASSUME line = <<>> \/ \E c : line = <<c>>
      PROVE  published' = published
  BY <1>2, <1>3, <1>4 DEF parseGPSLine
<1>5. ASSUME NEW s \in Sentences, line = Line(s)
      PROVE  published' = IF s \in Fixes THEN s ELSE published
  <2>1. CASE s \in Fixes
    <3>1. (CHOOSE t \in Fixes : line = Line(t)) = s
      BY <1>1, <1>3, <1>5, <2>1
    <3>. QED  BY <1>5, <2>1, <3>1 DEF parseGPSLine
  <2>2. CASE s \notin Fixes
    <3>1. ~\E t \in Fixes : line = Line(t)
      BY <1>1, <1>3, <1>5, <2>2
    <3>. QED  BY <2>2, <3>1 DEF parseGPSLine
  <2>. QED  BY <2>1, <2>2
<1>. QED  BY <1>4, <1>5

LEMMA ByteUnread ==
  ASSUME TypeOK, StreamInv, Byte
  PROVE  /\ UNCHANGED <<sent, cut, wire>> /\ ChunkInv'
         /\ Consumed' = Consumed + 1 /\ Consumed \in Nat /\ Len(Unread) \in Nat
         /\ Consumed < cut + 4 * Len(sent) /\ Len(Unread) = cut + 4 * Len(sent) - Consumed
         /\ Unread[1] = Head(read_buf_raw_)
         /\ \A i \in 1 .. Len(Unread) - 1 : Unread'[i] = Unread[i + 1]
<1>1. /\ UNCHANGED <<sent, cut, wire, pending, mainPc>>
      /\ read_buf_raw_ # <<>> /\ read_buf_raw_' = Tail(read_buf_raw_)
  BY DEF Byte, IoAt
<1>2. read_buf_raw_ \in Seq(CharacterSet) /\ wire \in Seq(CharacterSet)
  BY DEF TypeOK, StreamTypeOK
<1>3. /\ Unread = read_buf_raw_ \o wire /\ Unread' = Tail(read_buf_raw_) \o wire
  BY <1>1 DEF Unread
<1>4. /\ Len(Unread) \in Nat /\ Len(Unread) >= 1 /\ Unread[1] = Head(read_buf_raw_)
      /\ \A i \in 1 .. Len(Unread) - 1 : Unread'[i] = Unread[i + 1]
  BY <1>1, <1>2, <1>3, TailConcat
<1>5. /\ Consumed = cut + 4 * Len(sent) - Len(Unread) /\ cut \in 0 .. 3 /\ Len(sent) \in Nat
  BY UnreadType
<1>6. Consumed' = Consumed + 1
  <2>1. Len(Tail(read_buf_raw_)) = Len(read_buf_raw_) - 1 /\ Len(read_buf_raw_) \in Nat
        /\ Len(wire) \in Nat
    BY <1>1, <1>2
  <2>. QED  BY <1>1, <1>5, <2>1 DEF Consumed
<1>7. ChunkInv' /\ Consumed \in Nat
  BY <1>1 DEF StreamInv, ChunkInv
<1>8. Len(Unread) = cut + 4 * Len(sent) - Consumed /\ Consumed < cut + 4 * Len(sent)
  BY <1>4, <1>5
<1>. QED  BY <1>1, <1>4, <1>6, <1>7, <1>8

\* Every place in the stream is before the first sentence or in one of them.
LEMMA PlaceExists ==
  ASSUME NEW c \in 0 .. 3, NEW len \in Nat, NEW n \in Nat, n < c + 4 * len
  PROVE  n < c \/ \E i \in 1 .. len : \E j \in 1 .. 4 : n + 1 = Place(c, i, j)
<1>. SUFFICES ASSUME n >= c
              PROVE  \E i \in 1 .. len : \E j \in 1 .. 4 : n + 1 = Place(c, i, j)
  OBVIOUS
<1>. DEFINE q == (n - c) \div 4
            m == (n - c) % 4
<1>1. q \in Int /\ m \in 0 .. 3 /\ n - c = 4 * q + m
  OBVIOUS
<1>. HIDE DEF q, m
<1>2. q + 1 \in 1 .. len /\ m + 1 \in 1 .. 4 /\ n + 1 = Place(c, q + 1, m + 1)
  BY <1>1 DEF Place
<1>. QED  BY <1>2

\* on_receive takes a character of the sentence under way at first.
LEMMA CutByte ==
  ASSUME TypeOK, StreamInv, EndOfLine \/ Character, NEW s \in Sentences, Consumed < cut,
         \A j \in 1 .. 4 : Place(cut, 0, j) > Consumed =>
           Unread[Place(cut, 0, j) - Consumed] = Characters(s)[j],
         read_buf_str = IF cut = 3 /\ Consumed = 1 THEN << <<s, 2>> >> ELSE <<>>
  PROVE  /\ read_buf_str' = IF cut = 3 /\ Consumed + 1 = 1 THEN << <<s, 2>> >> ELSE <<>>
         /\ published' = published
<1>. DEFINE n == Consumed
            c == Head(read_buf_raw_)
<1>1. n \in Nat /\ Unread[1] = c /\ cut \in 0 .. 3
  BY ByteUnread, UnreadType DEF EndOfLine, Character
<1>. DEFINE j == n + 5 - cut
<1>2. j \in 2 .. 4 /\ Place(cut, 0, j) = n + 1
  BY <1>1 DEF Place
<1>3. c = Characters(s)[j]
  <2>1. Place(cut, 0, j) > n /\ Place(cut, 0, j) - n = 1 /\ j \in 1 .. 4
    BY <1>1, <1>2
  <2>2. Unread[Place(cut, 0, j) - n] = Characters(s)[j]
    BY <2>1
  <2>. QED  BY <1>1, <2>1, <2>2
<1>4. CASE j = 2
  <2>0. n = 0 /\ cut = 3
    BY <1>1, <1>4
  <2>1. c = <<s, 2>> /\ c # EOL
    BY <1>3, <1>4, CharactersType
  <2>2. read_buf_str = <<>> /\ read_buf_str' = Append(read_buf_str, c) /\ published' = published
    BY <2>0, <2>1 DEF EndOfLine, Character
  <2>3. Append(<<>>, c) = <<c>>
    OBVIOUS
  <2>. QED  BY <2>0, <2>1, <2>2, <2>3
<1>5. CASE j # 2
  <2>1. c = EOL /\ ~(cut = 3 /\ n + 1 = 1)
    BY <1>1, <1>2, <1>3, <1>5, CharactersType
  <2>2. read_buf_str' = <<>> /\ parseGPSLine(read_buf_str)
    BY <2>1 DEF EndOfLine, Character
  <2>3. read_buf_str = <<>> \/ \E x : read_buf_str = <<x>>
    OBVIOUS
  <2>4. published' = published
    BY <2>2, <2>3, LineParsed
  <2>. QED  BY <2>1, <2>2, <2>4
<1>. QED  BY <1>4, <1>5

\* on_receive takes the character j of the sentence s.
LEMMA SentenceByte ==
  ASSUME EndOfLine \/ Character, NEW s \in Sentences, NEW j \in 1 .. 4,
         Head(read_buf_raw_) = Characters(s)[j], read_buf_str = Collected(s, j - 1)
  PROVE  /\ read_buf_str' = Collected(s, j)
         /\ published' = IF j = 3 /\ s \in Fixes THEN s ELSE published
<1>. DEFINE c == Head(read_buf_raw_)
<1>1. CASE j \in {1, 2}
  <2>1. c = <<s, j>> /\ c # EOL
    BY <1>1, CharactersType
  <2>2. read_buf_str' = Append(read_buf_str, c) /\ published' = published
    BY <2>1 DEF EndOfLine, Character
  <2>3. Append(<<>>, c) = <<c>> /\ \A x : Append(<<x>>, c) = <<x, c>>
    BY AppendSecond
  <2>4. CASE j = 1
    <3>1. read_buf_str = <<>> /\ read_buf_str' = <<c>>
      BY <2>2, <2>3, <2>4 DEF Collected
    <3>. QED  BY <2>1, <2>2, <2>4, <3>1 DEF Collected
  <2>5. CASE j = 2
    <3>1. read_buf_str = << <<s, 1>> >>
      BY <2>5 DEF Collected
    <3>2. read_buf_str' = << <<s, 1>>, c >>
      BY <2>2, <2>3, <3>1
    <3>3. read_buf_str' = Line(s)
      BY <2>1, <2>5, <3>2 DEF Line
    <3>. QED  BY <2>2, <2>5, <3>3 DEF Collected
  <2>. QED  BY <1>1, <2>4, <2>5
<1>2. CASE j \in {3, 4}
  <2>1. c = EOL
    BY <1>2, CharactersType
  <2>2. read_buf_str' = <<>> /\ parseGPSLine(read_buf_str)
    BY <2>1 DEF EndOfLine, Character
  <2>3. read_buf_str = IF j = 3 THEN Line(s) ELSE <<>>
    BY <1>2 DEF Collected
  <2>4. published' = IF j = 3 /\ s \in Fixes THEN s ELSE published
    BY <1>2, <2>2, <2>3, LineParsed
  <2>. QED  BY <1>2, <2>2, <2>4 DEF Collected
<1>. QED  BY <1>1, <1>2

\* The unread characters of a sentence move up by one.
LEMMA UnreadMoves ==
  ASSUME TypeOK, StreamInv, Byte, NEW s \in Sentences, NEW i \in 0 .. Len(sent), NEW j \in 1 .. 4,
         Place(cut, i, j) > Consumed + 1,
         Unread[Place(cut, i, j) - Consumed] = Characters(s)[j]
  PROVE  Unread'[Place(cut, i, j) - (Consumed + 1)] = Characters(s)[j]
<1>. DEFINE len == Len(sent)
            p == Place(cut, i, j)
            n == Consumed
<1>1. cut \in 0 .. 3 /\ len \in Nat /\ i \in 0 .. len
  BY UnreadType
<1>2. p \in Int /\ p <= cut + 4 * len
  <2>. HIDE DEF len
  <2>. QED  BY <1>1 DEF Place
<1>3. n \in Nat /\ Len(Unread) \in Nat /\ Len(Unread) = cut + 4 * len - n
  BY ByteUnread
<1>4. p > n + 1 /\ Unread[p - n] = Characters(s)[j]
  OBVIOUS
<1>5. \A k \in 1 .. Len(Unread) - 1 : Unread'[k] = Unread[k + 1]
  BY ByteUnread
<1>. HIDE DEF len, p, n
<1>6. p - (n + 1) \in 1 .. Len(Unread) - 1 /\ p - (n + 1) + 1 = p - n
  BY <1>1, <1>2, <1>3, <1>4
<1>7. Unread'[p - (n + 1)] = Unread[p - n]
  BY <1>5, <1>6
<1>. QED  BY <1>4, <1>7 DEF p, n

\* Where read_buf_str stands before the character j of the sentence i is taken.
LEMMA CollectedBefore ==
  ASSUME TypeOK, StreamInv, NEW i \in 1 .. Len(sent), NEW j \in 1 .. 4,
         Consumed + 1 = Place(cut, i, j)
  PROVE  read_buf_str = Collected(sent[i], j - 1)
<1>1. cut \in 0 .. 3 /\ Len(sent) \in Nat /\ Consumed \in Nat
  BY UnreadType DEF StreamInv
<1>2. CASE j > 1
  <2>1. Consumed = Place(cut, i, j - 1) /\ j - 1 \in 1 .. 4
    BY <1>1, <1>2 DEF Place
  <2>. QED  BY <2>1 DEF StreamInv, CollectedInv
<1>3. CASE j = 1 /\ i > 1
  <2>1. Consumed = Place(cut, i - 1, 4) /\ i - 1 \in 1 .. Len(sent)
    BY <1>1, <1>3 DEF Place
  <2>2. read_buf_str = Collected(sent[i - 1], 4)
    BY <2>1 DEF StreamInv, CollectedInv
  <2>. QED  BY <1>3, <2>2 DEF Collected
<1>4. CASE j = 1 /\ i = 1
  <2>1. Consumed = cut
    BY <1>1, <1>4 DEF Place
  <2>2. read_buf_str = <<>>
    BY <1>1, <2>1 DEF StreamInv, CutInv
  <2>. QED  BY <1>4, <2>2 DEF Collected
<1>. QED  BY <1>2, <1>3, <1>4

\* on_receive takes a character: a line of it is complete at the character 3.
LEMMA StreamByte ==
  ASSUME TypeOK, TypeOK', StreamInv, EndOfLine \/ Character
  PROVE  StreamInv'
<1>. DEFINE n == Consumed
            len == Len(sent)
<1>0. Byte
  BY DEF EndOfLine, Character
<1>1. /\ UNCHANGED <<sent, cut>> /\ ChunkInv' /\ Consumed' = n + 1 /\ n \in Nat
      /\ n < cut + 4 * len /\ Unread[1] = Head(read_buf_raw_)
  BY <1>0, ByteUnread
<1>2. cut \in 0 .. 3 /\ len \in Nat /\ \A i \in 1 .. len : sent[i] \in Sentences
  BY UnreadType
<1>3. UnreadInv'
  <2>. SUFFICES ASSUME NEW i \in 1 .. len, NEW j \in 1 .. 4, Place(cut, i, j) > n + 1
                PROVE  Unread'[Place(cut, i, j) - (n + 1)] = Characters(sent[i])[j]
    BY <1>1 DEF UnreadInv
  <2>1. Place(cut, i, j) > n /\ i \in 0 .. len
    BY <1>1, <1>2 DEF Place
  <2>2. Unread[Place(cut, i, j) - n] = Characters(sent[i])[j]
    BY <2>1 DEF StreamInv, UnreadInv
  <2>. QED  BY <1>0, <1>2, <2>1, <2>2, UnreadMoves
<1>4. PICK s \in Sentences :
        /\ \A j \in 1 .. 4 : Place(cut, 0, j) > n => Unread[Place(cut, 0, j) - n] = Characters(s)[j]
        /\ n <= cut => read_buf_str = IF cut = 3 /\ n = 1 THEN << <<s, 2>> >> ELSE <<>>
  BY DEF StreamInv, CutInv
<1>5. \A j \in 1 .. 4 : Place(cut, 0, j) > n + 1 =>
        Unread'[Place(cut, 0, j) - (n + 1)] = Characters(s)[j]
  <2>. SUFFICES ASSUME NEW j \in 1 .. 4, Place(cut, 0, j) > n + 1
                PROVE  Unread'[Place(cut, 0, j) - (n + 1)] = Characters(s)[j]
    OBVIOUS
  <2>1. Place(cut, 0, j) > n /\ 0 \in 0 .. len
    BY <1>1, <1>2 DEF Place
  <2>. QED  BY <1>0, <1>4, <2>1, UnreadMoves
<1>6. Complete = {k \in 1 .. len : sent[k] \in Fixes /\ Place(cut, k, 3) <= n}
      /\ Complete' = {k \in 1 .. len : sent[k] \in Fixes /\ Place(cut, k, 3) <= n + 1}
  BY <1>1 DEF Complete, Place
<1>7. CASE n < cut
  <2>1. /\ read_buf_str' = IF cut = 3 /\ n + 1 = 1 THEN << <<s, 2>> >> ELSE <<>>
        /\ published' = published
    <3>1. n <= cut
      BY <1>1, <1>2, <1>7
    <3>. QED  BY <1>4, <1>7, <3>1, CutByte
  <2>2. CutInv'
    BY <1>1, <1>5, <2>1 DEF CutInv
  <2>3. \A k \in 1 .. len : \A l \in 1 .. 4 : Place(cut, k, l) > n + 1
    BY <1>1, <1>2, <1>7 DEF Place
  <2>4. CollectedInv'
    BY <1>1, <1>2, <2>3 DEF CollectedInv, Place
  <2>5. Complete = {} /\ Complete' = {}
    <3>1. \A k \in 1 .. len : ~(Place(cut, k, 3) <= n) /\ ~(Place(cut, k, 3) <= n + 1)
      BY <1>1, <1>2, <1>7 DEF Place
    <3>. QED  BY <1>6, <3>1
  <2>6. PublishedInv'
    BY <2>1, <2>5 DEF StreamInv, PublishedInv
  <2>. QED  BY <1>1, <1>3, <2>2, <2>4, <2>6 DEF StreamInv
<1>8. ASSUME NEW i \in 1 .. len, NEW j \in 1 .. 4, n + 1 = Place(cut, i, j)
      PROVE  StreamInv'
  <2>1. Head(read_buf_raw_) = Characters(sent[i])[j]
    <3>1. Place(cut, i, j) > n /\ Place(cut, i, j) - n = 1
      BY <1>1, <1>8
    <3>2. Unread[Place(cut, i, j) - n] = Characters(sent[i])[j]
      BY <3>1 DEF StreamInv, UnreadInv
    <3>. QED  BY <1>1, <3>1, <3>2
  <2>2. read_buf_str = Collected(sent[i], j - 1)
    BY <1>8, CollectedBefore
  <2>3. /\ read_buf_str' = Collected(sent[i], j)
        /\ published' = IF j = 3 /\ sent[i] \in Fixes THEN sent[i] ELSE published
    BY <1>2, <2>1, <2>2, SentenceByte
  <2>4. n + 1 > cut
    BY <1>2, <1>8 DEF Place
  <2>5. CutInv'
    BY <1>1, <1>2, <1>5, <2>4 DEF CutInv
  <2>6. CollectedInv'
    <3>. SUFFICES ASSUME NEW k \in 1 .. len, NEW l \in 1 .. 4, n + 1 = Place(cut, k, l)
                  PROVE  read_buf_str' = Collected(sent[k], l)
      BY <1>1 DEF CollectedInv
    <3>1. k = i /\ l = j
      <4>1. Place(cut, k, l) = Place(cut, i, j)
        BY <1>8
      <4>2. cut \in Int /\ i \in Int /\ k \in Int
        BY <1>2
      <4>. HIDE DEF n, len
      <4>. QED  BY <4>1, <4>2 DEF Place
    <3>. QED  BY <2>3, <3>1
  <2>7. PublishedInv'
    <3>1. \A k \in 1 .. len : Place(cut, k, 3) <= n + 1 <=>
            Place(cut, k, 3) <= n \/ (k = i /\ j = 3)
      BY <1>1, <1>2, <1>8 DEF Place
    <3>2. \A k \in Complete : k <= i
      BY <1>1, <1>2, <1>6, <1>8 DEF Place
    <3>3. CASE j = 3 /\ sent[i] \in Fixes
      <4>1. i \in Complete' /\ \A k \in Complete' : k <= i
        BY <1>6, <3>1, <3>2, <3>3
      <4>. QED  BY <1>1, <2>3, <3>3, <4>1 DEF PublishedInv
    <3>4. CASE ~(j = 3 /\ sent[i] \in Fixes)
      <4>1. Complete' = Complete
        BY <1>6, <3>1, <3>4
      <4>. QED  BY <1>1, <2>3, <3>4, <4>1 DEF StreamInv, PublishedInv
    <3>. QED  BY <3>3, <3>4
  <2>. QED  BY <1>1, <1>3, <2>5, <2>6, <2>7 DEF StreamInv
<1>. QED  BY <1>1, <1>2, <1>7, <1>8, PlaceExists

\* A chunk is read: characters go from the wire to read_buf_raw_, which was empty.
LEMMA StreamRead ==
  ASSUME TypeOK, TypeOK', PortInv, StreamInv,
         ReadFails \/ \E n \in 1 .. SERIAL_PORT_READ_BUF_SIZE : ReadSome(n)
  PROVE  StreamInv'
<1>. USE DEF ReadEnds, IoAt
<1>1. /\ UNCHANGED <<sent, cut, read_buf_str, published, mainPc>>
      /\ pending /\ pending' = FALSE /\ ioPc = "wait"
  BY DEF ReadFails, ReadSome
<1>2. wire \in Seq(CharacterSet) /\ read_buf_raw_ = <<>> /\ mainPc # "start"
  BY <1>1 DEF TypeOK, StreamTypeOK, StreamInv, ChunkInv, PortInv, StopInv
<1>3. Unread = wire
  BY <1>2, ConcatEmptySeq DEF Unread
<1>4. Unread' = wire
  <2>1. CASE ReadFails
    <3>1. wire' = wire /\ read_buf_raw_' = <<>>
      BY <2>1 DEF ReadFails
    <3>. QED  BY <1>2, <3>1, ConcatEmptySeq DEF Unread
  <2>2. ASSUME NEW n \in 1 .. SERIAL_PORT_READ_BUF_SIZE, ReadSome(n)
        PROVE  Unread' = wire
    <3>1. /\ wire' = SubSeq(wire, n + 1, Len(wire)) /\ read_buf_raw_' = SubSeq(wire, 1, n)
          /\ n \in 0 .. Len(wire)
      BY <1>2, <2>2, GpsAssumption DEF ReadSome
    <3>. QED  BY <1>2, <3>1, CutInTwo DEF Unread
  <2>. QED  BY <2>1, <2>2
<1>5. ChunkInv'
  BY <1>1, <1>2 DEF ChunkInv
<1>. QED  BY <1>1, <1>3, <1>4, <1>5, StreamSame

(* Wherever on_receive is in the stream, read_buf_str is the line so far,   *)
(* and the published position that of the last complete fix.                *)
THEOREM StreamInvariant == Spec => [](TypeOK /\ StreamInv)
<1>1. Init => StreamInv
  <2>. SUFFICES ASSUME Init
                PROVE  StreamInv
    OBVIOUS
  <2>1. PICK s \in Sentences : wire = SubSeq(Characters(s), 5 - cut, 4)
    BY DEF Init
  <2>2. /\ cut \in 0 .. 3 /\ sent = <<>> /\ Len(sent) = 0 /\ read_buf_raw_ = <<>>
        /\ Len(read_buf_raw_) = 0 /\ read_buf_str = <<>> /\ published = NoFix
    BY DEF Init
  <2>3. /\ wire \in Seq(CharacterSet) /\ Len(wire) = cut
        /\ \A i \in 1 .. cut : wire[i] = Characters(s)[i + 4 - cut]
    <3>1. Characters(s) \in Seq(CharacterSet) /\ Len(Characters(s)) = 4
      BY CharactersType
    <3>2. /\ wire \in Seq(CharacterSet)
          /\ Len(wire) = IF 5 - cut <= 4 THEN 4 - (5 - cut) + 1 ELSE 0
          /\ \A i \in 1 .. 4 - (5 - cut) + 1 : wire[i] = Characters(s)[5 - cut + i - 1]
      <4>. DEFINE w == Characters(s)
                  m == 5 - cut
      <4>1. w \in Seq(CharacterSet) /\ m \in 1 .. Len(w) + 1 /\ 4 \in m - 1 .. Len(w)
        BY <2>2, <3>1
      <4>. HIDE DEF w, m
      <4>2. /\ SubSeq(w, m, 4) \in Seq(CharacterSet)
            /\ Len(SubSeq(w, m, 4)) = IF m <= 4 THEN 4 - m + 1 ELSE 0
            /\ \A i \in 1 .. 4 - m + 1 : SubSeq(w, m, 4)[i] = w[m + i - 1]
        BY <4>1, SubSeqProperties
      <4>. QED  BY <2>1, <4>2 DEF w, m
    <3>. QED  BY <2>2, <3>2
  <2>4. Unread = wire /\ Consumed = 0
    BY <2>2, <2>3, ConcatEmptySeq DEF Unread, Consumed
  <2>5. CutInv
    <3>. SUFFICES ASSUME NEW j \in 1 .. 4, Place(cut, 0, j) > 0
                  PROVE  wire[Place(cut, 0, j) - 0] = Characters(s)[j]
      BY <2>2, <2>4 DEF CutInv
    <3>1. Place(cut, 0, j) - 0 \in 1 .. cut /\ Place(cut, 0, j) - 0 + 4 - cut = j
      BY <2>2 DEF Place
    <3>. QED  BY <2>3, <3>1
  <2>6. UnreadInv /\ CollectedInv /\ ChunkInv
    BY <2>2 DEF UnreadInv, CollectedInv, ChunkInv
  <2>7. PublishedInv
    BY <2>2 DEF PublishedInv, Complete
  <2>. QED  BY <2>4, <2>5, <2>6, <2>7 DEF StreamInv
<1>2. TypeOK /\ TypeOK' /\ PortInv /\ StreamInv /\ [Next]_vars => StreamInv'
  <2>. SUFFICES ASSUME TypeOK, TypeOK', PortInv, StreamInv, [Next]_vars
                PROVE  StreamInv'
    OBVIOUS
  <2>1. CASE \E s \in Sentences : Send(s)
    BY <2>1, StreamSend
  <2>2. CASE ReadFails \/ \E n \in 1 .. SERIAL_PORT_READ_BUF_SIZE : ReadSome(n)
    BY <2>2, StreamRead
  <2>3. CASE EndOfLine \/ Character
    BY <2>3, StreamByte
  \* The other steps leave the stream alone, and start a read only after a whole chunk.
  <2>4. ASSUME UNCHANGED <<lineVars, read_buf_raw_, read_buf_str, published>>, ChunkInv'
        PROVE  StreamInv'
    BY <2>4, StreamSame DEF lineVars, Unread
  <2>. USE DEF lineVars, readVars, stopVars, IoAt, StopAt
  <2>5. CASE HandlerLock \/ HandlerReturns \/ HandlerGoesOn \/ RunReturns
    BY <2>4, <2>5 DEF HandlerLock, HandlerReturns, HandlerGoesOn, RunReturns, StreamInv, ChunkInv
  <2>6. CASE ReadAgain \/ Start
    BY <2>4, <2>6 DEF ReadAgain, Start, StreamInv, ChunkInv
  <2>7. CASE Stop \/ StopFlag \/ StopClose \/ StopContext \/ StopJoin
    BY <2>4, <2>7 DEF Stop, StopFlag, StopClose, StopContext, StopJoin, StreamInv, ChunkInv
  <2>8. CASE UNCHANGED vars
    BY <2>4, <2>8 DEF vars, StreamInv, ChunkInv
  <2>. QED  BY <2>1, <2>2, <2>3, <2>5, <2>6, <2>7, <2>8 DEF Next, Handler
<1>. QED  BY <1>1, <1>2, TypeCorrect, PortInvariant, PTL DEF Spec

(* The published position is the last complete fix that was read, for any   *)
(* sentences and any cutting of the stream into chunks: no line is lost,    *)
(* joined to another or parsed before its end.                              *)
THEOREM LastFixPublished == Spec => []PublishedIsLastFix
<1>1. TypeOK /\ StreamInv => PublishedIsLastFix
  <2>. SUFFICES ASSUME TypeOK, StreamInv, NEW m \in Complete,
                       published = sent[m], \A i \in Complete : i <= m
                PROVE  PublishedIsLastFix
    BY DEF StreamInv, PublishedInv, PublishedIsLastFix
  <2>1. \A i \in Complete : i \in Int
    BY DEF Complete
  <2>2. Max(Complete) = m
    BY <2>1 DEF Max
  <2>. QED  BY <2>2 DEF PublishedIsLastFix
<1>. QED  BY <1>1, StreamInvariant, PTL
=============================================================================
