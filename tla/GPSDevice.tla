----------------------------- MODULE GPSDevice -----------------------------
(***************************************************************************)
(* GPSDevice: its io thread reads the serial port in chunks of any length, *)
(* puts lines together in read_buf_str, and publishes the fix of a         *)
(* complete $GPGGA line.  The main thread calls Start and Stop; mutex_ is  *)
(* between Stop and on_receive.  A sentence is on the line as two pieces   *)
(* and an end of line, "\r\n", of two characters.                          *)
(***************************************************************************)
EXTENDS Integers, Sequences, FiniteSetsExt

CONSTANTS
  Sentences,     \* the lines the receiver sends
  Fixes,         \* those of them that parseGPSLine can parse to a position
  NoFix,         \* nothing published yet
  EOL,           \* '\r' or '\n'
  MaxSentences,  \* bounds the sentences sent
  SERIAL_PORT_READ_BUF_SIZE

ASSUME GpsAssumption ==
  /\ Fixes \subseteq Sentences
  /\ NoFix \notin Sentences
  /\ MaxSentences \in Nat
  /\ SERIAL_PORT_READ_BUF_SIZE \in Nat \ {0}

\* The end of a line is not a piece of a sentence.
ASSUME EolAssumption == EOL \notin Sentences \X {1, 2}

VARIABLES
  sent,          \* the sentences sent since the port was opened
  cut,           \* the characters left of the sentence under way at that time
  wire,          \* the characters not read yet
  read_buf_raw_,
  read_buf_str,
  published,     \* the sentence whose position gpsLatitude and the others hold
  pending,       \* an async_read_some is pending
  ec,            \* the error the handler was called with
  ioPc,          \* "new", "wait", "handler", "check", "bytes", "done"
  mutex_,        \* "free", or the thread that holds it
  stop_flag_,
  is_open,       \* serial_port.is_open()
  stopped,       \* io_context.stop() was called
  mainPc         \* "start", "run", "flag", "close", "context", "join", "done"

lineVars == <<sent, cut, wire>>
readVars == <<read_buf_raw_, read_buf_str, published, pending, ec>>
stopVars == <<stop_flag_, is_open, stopped>>
vars == <<lineVars, readVars, stopVars, ioPc, mutex_, mainPc>>
-----------------------------------------------------------------------------
Line(s) == << <<s, 1>>, <<s, 2>> >>
Characters(s) == Line(s) \o <<EOL, EOL>>

\* The port is opened while a sentence is under way.
Init ==
  /\ sent = <<>>
  /\ cut \in 0 .. 3
  /\ \E s \in Sentences : wire = SubSeq(Characters(s), 5 - cut, 4)
  /\ read_buf_raw_ = <<>>
  /\ read_buf_str = <<>>
  /\ published = NoFix
  /\ pending = FALSE
  /\ ec = FALSE
  /\ ioPc = "new"
  /\ mutex_ = "free"
  /\ stop_flag_ = FALSE
  /\ is_open = FALSE
  /\ stopped = FALSE
  /\ mainPc = "start"

Send(s) ==
  /\ is_open
  /\ Len(sent) < MaxSentences
  /\ sent' = Append(sent, s)
  /\ wire' = wire \o Characters(s)
  /\ UNCHANGED <<cut, readVars, stopVars, ioPc, mutex_, mainPc>>

Start ==
  /\ mainPc = "start"
  /\ is_open' = TRUE
  /\ pending' = TRUE
  /\ ioPc' = "wait"
  /\ mainPc' = "run"
  /\ UNCHANGED <<lineVars, read_buf_raw_, read_buf_str, published, ec, stop_flag_, stopped, mutex_>>
-----------------------------------------------------------------------------
(* The io thread.  IoAt(pc, next): it is at pc and goes on to next. *)

IoAt(pc, next) ==
  /\ ioPc = pc
  /\ ioPc' = next
  /\ UNCHANGED <<sent, cut, stopVars, mainPc>>

\* The read that is pending completes, or fails, and on_receive is called.
ReadEnds(characters, error) ==
  /\ pending /\ ~stopped
  /\ IoAt("wait", "handler")
  /\ read_buf_raw_' = characters
  /\ pending' = FALSE
  /\ ec' = error
  /\ UNCHANGED <<read_buf_str, published, mutex_>>

ReadSome(n) ==
  /\ n <= Len(wire)
  /\ ReadEnds(SubSeq(wire, 1, n), FALSE)
  /\ wire' = SubSeq(wire, n + 1, Len(wire))

\* The line breaks, or Stop has cancelled the read.
ReadFails == ReadEnds(<<>>, TRUE) /\ UNCHANGED wire

HandlerLock ==
  /\ IoAt("handler", "check")
  /\ mutex_ = "free"
  /\ mutex_' = "io"
  /\ UNCHANGED <<wire, readVars>>

\* Nobody reads again.
HandlerReturns ==
  /\ IoAt("check", "wait")
  /\ ~is_open \/ stop_flag_ \/ ec
  /\ mutex_' = "free"
  /\ UNCHANGED <<wire, readVars>>

HandlerGoesOn ==
  /\ IoAt("check", "bytes")
  /\ is_open /\ ~stop_flag_ /\ ~ec
  /\ UNCHANGED <<wire, readVars, mutex_>>

\* A parser that takes any complete line for a position.
parseAnyLine(line) ==
  IF \E s \in Sentences : line = Line(s)
  THEN published' = CHOOSE s \in Sentences : line = Line(s)
  ELSE UNCHANGED published

\* Any other line returns early or throws, and the position stays.
parseGPSLine(line) ==
  IF \E s \in Fixes : line = Line(s)
  THEN published' = CHOOSE s \in Fixes : line = Line(s)
  ELSE UNCHANGED published

\* on_receive takes the next character of its chunk.
Byte ==
  /\ IoAt("bytes", "bytes")
  /\ read_buf_raw_ # <<>>
  /\ read_buf_raw_' = Tail(read_buf_raw_)
  /\ UNCHANGED <<wire, pending, ec, mutex_>>

\* A parser of whole chunks, which forgets the start of a line.
EndOfLineForgotten ==
  /\ Byte /\ Head(read_buf_raw_) = EOL
  /\ parseGPSLine(read_buf_str)
  /\ UNCHANGED read_buf_str

EndOfLine ==
  /\ Byte /\ Head(read_buf_raw_) = EOL
  /\ parseGPSLine(read_buf_str)
  /\ read_buf_str' = <<>>

Character ==
  /\ Byte /\ Head(read_buf_raw_) # EOL
  /\ read_buf_str' = Append(read_buf_str, Head(read_buf_raw_))
  /\ UNCHANGED published

\* async_read_some at the end of on_receive.
ReadAgain ==
  /\ IoAt("bytes", "wait")
  /\ read_buf_raw_ = <<>>
  /\ pending' = is_open
  /\ mutex_' = "free"
  /\ UNCHANGED <<wire, read_buf_raw_, read_buf_str, published, ec>>

\* io_context.run() returns and the io thread ends.
RunReturns ==
  /\ stopped
  /\ IoAt("wait", "done")
  /\ UNCHANGED <<wire, readVars, mutex_>>

Handler ==
  \/ HandlerLock \/ HandlerReturns \/ HandlerGoesOn
  \/ EndOfLine \/ Character \/ ReadAgain \/ RunReturns
-----------------------------------------------------------------------------
(* Stop, on the main thread. *)

StopAt(pc, next) ==
  /\ mainPc = pc
  /\ mainPc' = next
  /\ UNCHANGED <<lineVars, readVars, ioPc, mutex_>>

Stop == StopAt("run", "flag") /\ UNCHANGED stopVars

\* A Stop that sets the flag without mutex_.
StopFlagNoMutex ==
  /\ StopAt("flag", "close")
  /\ stop_flag_' = TRUE
  /\ UNCHANGED <<is_open, stopped>>

\* It has mutex_ for one assignment.
StopFlag ==
  /\ StopAt("flag", "close")
  /\ mutex_ = "free"
  /\ stop_flag_' = TRUE
  /\ UNCHANGED <<is_open, stopped>>

\* cancel() and close(): the pending read fails.
StopClose ==
  /\ StopAt("close", "context")
  /\ is_open' = FALSE
  /\ UNCHANGED <<stop_flag_, stopped>>

\* A Stop that leaves the io_context running.
StopContextForgotten == StopAt("context", "join") /\ UNCHANGED stopVars

\* work_guard_.reset() and io_context.stop().
StopContext ==
  /\ StopAt("context", "join")
  /\ stopped' = TRUE
  /\ UNCHANGED <<stop_flag_, is_open>>

StopJoin == ioPc = "done" /\ StopAt("join", "done") /\ UNCHANGED stopVars

Next ==
  \/ \E s \in Sentences : Send(s)
  \/ \E n \in 1 .. SERIAL_PORT_READ_BUF_SIZE : ReadSome(n)
  \/ ReadFails
  \/ Handler
  \/ Start \/ Stop \/ StopFlag \/ StopClose \/ StopContext \/ StopJoin

Spec == Init /\ [][Next]_vars

(***************************************************************************)
(* Both threads are scheduled.  mutex_ is not fair by itself, but the io   *)
(* thread gives it back and sleeps between two chunks, so a Stop that      *)
(* waits for it finds it free again and again: strong fairness.            *)
(***************************************************************************)
FairSpec ==
  /\ Spec
  /\ WF_vars(Handler)
  /\ SF_vars(StopFlag) /\ WF_vars(StopClose) /\ WF_vars(StopContext) /\ WF_vars(StopJoin)
-----------------------------------------------------------------------------
CharacterSet == (Sentences \X {1, 2}) \cup {EOL}

StreamTypeOK ==
  /\ sent \in Seq(Sentences)
  /\ cut \in 0 .. 3
  /\ wire \in Seq(CharacterSet)
  /\ read_buf_raw_ \in Seq(CharacterSet)
  /\ read_buf_str \in Seq(CharacterSet)

TypeOK ==
  /\ StreamTypeOK
  /\ published \in Fixes \cup {NoFix}
  /\ pending \in BOOLEAN
  /\ ec \in BOOLEAN
  /\ ioPc \in {"new", "wait", "handler", "check", "bytes", "done"}
  /\ mutex_ \in {"free", "io"}
  /\ stop_flag_ \in BOOLEAN
  /\ is_open \in BOOLEAN
  /\ stopped \in BOOLEAN
  /\ mainPc \in {"start", "run", "flag", "close", "context", "join", "done"}

\* on_receive has mutex_.
MutexInv == mutex_ = "io" <=> ioPc \in {"check", "bytes"}

\* Stop's flag, port and io_context, by where Stop is.
StopInv ==
  /\ stop_flag_ <=> mainPc \in {"close", "context", "join", "done"}
  /\ is_open <=> mainPc \in {"run", "flag", "close"}
  /\ ioPc = "new" <=> mainPc = "start"

(* While on_receive puts lines together and starts the next read, the port  *)
(* is open and Stop has not set its flag: Stop's cancel and close never run *)
(* beside the read that on_receive starts.                                  *)
HandlerOwnsPort == ioPc = "bytes" => is_open /\ ~stop_flag_

PortInv == MutexInv /\ StopInv /\ HandlerOwnsPort

\* The number of characters on_receive has gone through.
Consumed == cut + 4 * Len(sent) - Len(wire) - Len(read_buf_raw_)

\* The fixes sent whose line is complete at its '\r'.
Complete ==
  {i \in 1 .. Len(sent) : sent[i] \in Fixes /\ cut + 4 * (i - 1) + 3 <= Consumed}

(* The published position is the last complete fix that was read, however   *)
(* the lines were cut into chunks, and whatever lines came between.         *)
PublishedIsLastFix ==
  published = IF Complete = {} THEN NoFix ELSE sent[Max(Complete)]

(* Once Stop has set its flag, no position is published.                    *)
QuietAfterStop == [][stop_flag_ => UNCHANGED <<published, read_buf_str>>]_vars

(* Stop returns.                                                            *)
StopReturns == mainPc = "flag" ~> mainPc = "done"
=============================================================================
