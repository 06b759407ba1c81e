-------------------------- MODULE PingSonarDevice --------------------------
(***************************************************************************)
(* PingSonarDevice: the read loop of its io thread over a serial line, and *)
(* Stop in another thread.  The loop reads TOTAL_SIZE bytes, whatever they *)
(* are, checks that they are a distance message, publishes its distance    *)
(* and confidence, and reads again.  The sonar sends messages one after    *)
(* the other, and the port may be opened inside of one; the line may lose  *)
(* or change a byte.  Bytes are numbers, so that the checks are the        *)
(* code's.  A port that does not open, and Stop without a Start, are in    *)
(* MainProcess.                                                            *)
(***************************************************************************)
EXTENDS Integers, Sequences

CONSTANTS
  Measurements,  \* the <<distance, confidence>> pairs the sonar measures
  Noise,         \* the bytes a disturbed byte can turn into
  MaxFaults,     \* bounds the bytes lost or changed
  Openings,      \* the bytes of a message at which the port may be opened
  NoMeasurement  \* nothing published yet

ASSUME SonarAssumption ==
  /\ Measurements \subseteq Nat \X Nat
  /\ \A m \in Measurements : m[1] \div 65536 <= 65535 /\ m[2] <= 100  \* uint32_t, percent
  /\ Noise \subseteq 0 .. 255
  /\ MaxFaults \in Nat
  /\ Openings \subseteq Nat \ {0}

VARIABLES
  gainSize,   \* the bytes of gain_setting in the sonar's messages
  aligned,    \* history: the port was opened at the start of a message
  measured,   \* the measurement whose message is on the line
  position,   \* the byte of it that comes next
  faults,
  buffer_,    \* the bytes the async_read has received
  published,  \* what sonarDistance and sonarConfidence hold
  ioPc,       \* where the io thread is: "none", "run", "read", "wait": in io_context_.run
              \* with an async_read pending, "done"
  stopPc,     \* the statement of Stop, "idle" before and "stopped" after it
  stop_flag_,
  isOpen,     \* serial_port_ is open
  ioStopped   \* io_context_.stop was called

sonarVars == <<gainSize, aligned>>
lineVars == <<sonarVars, measured, position, faults>>
stopVars == <<stopPc, stop_flag_, isOpen, ioStopped>>
vars == <<lineVars, buffer_, published, ioPc, stopVars>>
-----------------------------------------------------------------------------
START_BYTE_1 == 66
START_BYTE_2 == 82
MESSAGE_ID_DISTANCE == 1212
HEADER_SIZE == 8
PAYLOAD_SIZE == 22
TOTAL_SIZE == HEADER_SIZE + PAYLOAD_SIZE + 2

U16(n) == <<n % 256, n \div 256>>
U32(n) == U16(n % 65536) \o U16(n \div 65536)

\* The sum of n bytes, in a uint16_t.
Checksum(bytes, n) ==
  LET sum[i \in 0 .. n] == IF i = 0 THEN 0 ELSE (sum[i - 1] + bytes[i]) % 65536
  IN  sum[n]

\* What the mock sends, and what it quotes the protocol's documentation with.
GainSizes == {2, 4}

\* The message of a measurement; the fields nobody reads have fixed values.
PayloadSize(gain) == 20 + gain
MessageSize(gain) == HEADER_SIZE + PayloadSize(gain) + 2

Body(m, gain) ==
  <<START_BYTE_1, START_BYTE_2>> \o U16(PayloadSize(gain)) \o U16(MESSAGE_ID_DISTANCE) \o <<0, 0>>
    \o U32(m[1]) \o U16(m[2])
    \o U16(300) \o U32(1) \o U32(300) \o U32(50000)
    \o [i \in 1 .. gain |-> 0]

Message(m, gain) == Body(m, gain) \o U16(Checksum(Body(m, gain), Len(Body(m, gain))))

Messages == [gain \in GainSizes |-> [m \in Measurements |-> Message(m, gain)]]

\* The little-endian number at offset i of a buffer, as C counts.
At16(bytes, i) == bytes[i + 1] + 256 * bytes[i + 2]
At32(bytes, i) == At16(bytes, i) + 65536 * At16(bytes, i + 2)

\* A handler that does not check the sum.
IsDistanceNoChecksum(bytes) ==
  /\ bytes[1] = START_BYTE_1 /\ bytes[2] = START_BYTE_2
  /\ At16(bytes, 4) = MESSAGE_ID_DISTANCE
  /\ At16(bytes, 2) = PAYLOAD_SIZE

\* An id read in the wrong byte order.
IsDistanceWrongId(bytes) ==
  /\ bytes[1] = START_BYTE_1 /\ bytes[2] = START_BYTE_2
  /\ 256 * bytes[5] + bytes[6] = MESSAGE_ID_DISTANCE
  /\ At16(bytes, 2) = PAYLOAD_SIZE
  /\ At16(bytes, HEADER_SIZE + PAYLOAD_SIZE) = Checksum(bytes, HEADER_SIZE + PAYLOAD_SIZE)

IsDistance(bytes) ==
  /\ bytes[1] = START_BYTE_1 /\ bytes[2] = START_BYTE_2
  /\ At16(bytes, 4) = MESSAGE_ID_DISTANCE
  /\ At16(bytes, 2) = PAYLOAD_SIZE
  /\ At16(bytes, HEADER_SIZE + PAYLOAD_SIZE) = Checksum(bytes, HEADER_SIZE + PAYLOAD_SIZE)
-----------------------------------------------------------------------------
Init ==
  /\ gainSize \in GainSizes
  /\ position \in {p \in Openings : p <= MessageSize(gainSize)}
  /\ aligned = (position = 1)
  /\ measured \in Measurements /\ faults = 0
  /\ buffer_ = <<>>
  /\ published = NoMeasurement
  /\ ioPc = "none" /\ stopPc = "idle"
  /\ stop_flag_ = FALSE /\ isOpen = FALSE /\ ioStopped = FALSE

\* The line moves on to the next byte, or to the next message.
NextByte ==
  \/ /\ position < MessageSize(gainSize)
     /\ position' = position + 1
     /\ UNCHANGED measured
  \/ /\ position = MessageSize(gainSize)
     /\ position' = 1
     /\ measured' \in Measurements

\* The line gives the async_read these bytes for its next one.
Give(bytes) ==
  /\ ioPc = "wait" /\ isOpen
  /\ Len(buffer_) < TOTAL_SIZE
  /\ buffer_' = buffer_ \o bytes
  /\ NextByte
  /\ UNCHANGED <<sonarVars, published, ioPc, stopVars>>

\* The next byte of the line.
Sent == Messages[gainSize][measured][position]

Disturbed == faults < MaxFaults /\ faults' = faults + 1

ReceiveByte == Give(<<Sent>>) /\ UNCHANGED faults

ReceiveNoise(byte) == byte # Sent /\ Disturbed /\ Give(<<byte>>)

LoseByte == Disturbed /\ Give(<<>>)
-----------------------------------------------------------------------------
(* Start, and the io thread: run() and the read handler. *)

Io(pc, next) ==
  /\ ioPc = pc
  /\ ioPc' = next
  /\ UNCHANGED lineVars

Start ==
  /\ stopPc = "idle"
  /\ isOpen' = TRUE
  /\ stop_flag_' = FALSE
  /\ Io("none", "run")
  /\ UNCHANGED <<buffer_, published, stopPc, ioStopped>>

\* With stop_flag_ set nothing is read, and io_context_.run() has no work left.
Run ==
  /\ Io("run", IF stop_flag_ THEN "done" ELSE "read")
  /\ UNCHANGED <<buffer_, published, stopVars>>

\* async_read: on a port that was closed meanwhile its handler gets an error.
Read ==
  /\ Io("read", IF isOpen THEN "wait" ELSE "done")
  /\ buffer_' = <<>>
  /\ UNCHANGED <<published, stopVars>>

\* The read handler, without an error: publish if the checks pass, and run again.
Handle ==
  /\ Len(buffer_) = TOTAL_SIZE
  /\ Io("wait", "run")
  /\ published' = IF IsDistance(buffer_)
                  THEN <<At32(buffer_, HEADER_SIZE), At16(buffer_, HEADER_SIZE + 4)>>
                  ELSE published
  /\ UNCHANGED <<buffer_, stopVars>>

\* The read handler, with an error, which a port that is closed gives it: it returns,
\* and nobody reads again.
HandleError ==
  /\ Len(buffer_) < TOTAL_SIZE
  /\ Io("wait", "done")
  /\ UNCHANGED <<buffer_, published, stopVars>>

Aborted == ~isOpen /\ HandleError

\* io_context_.run() returns when it was stopped.
RunReturns ==
  /\ ioStopped
  /\ Io("wait", "done")
  /\ UNCHANGED <<buffer_, published, stopVars>>
-----------------------------------------------------------------------------
(* Stop, after Start. *)

At(pc, next) ==
  /\ stopPc = pc
  /\ stopPc' = next
  /\ UNCHANGED <<lineVars, buffer_, published, ioPc>>

StopFlag ==
  /\ ioPc # "none"
  /\ At("idle", "close")
  /\ stop_flag_' = TRUE
  /\ UNCHANGED <<isOpen, ioStopped>>

\* A Stop that sets its flag and joins.
StopCloseSkipped == At("close", "join") /\ UNCHANGED <<stop_flag_, isOpen, ioStopped>>

\* cancel() and close().
StopClose ==
  /\ At("close", "context")
  /\ isOpen' = FALSE
  /\ UNCHANGED <<stop_flag_, ioStopped>>

StopContext ==
  /\ At("context", "join")
  /\ ioStopped' = TRUE
  /\ UNCHANGED <<stop_flag_, isOpen>>

StopJoin ==
  /\ ioPc = "done"
  /\ At("join", "stopped")
  /\ UNCHANGED <<stop_flag_, isOpen, ioStopped>>

Stop == StopFlag \/ StopClose \/ StopContext \/ StopJoin
-----------------------------------------------------------------------------
Next ==
  \/ ReceiveByte \/ LoseByte
  \/ \E byte \in Noise : ReceiveNoise(byte)
  \/ Start \/ Run \/ Read \/ Handle \/ HandleError \/ RunReturns
  \/ Stop

Spec == Init /\ [][Next]_vars

(* Both threads are scheduled, and a Stop that was begun goes on.  Nothing  *)
(* makes the sonar send: a read may be pending for ever.                    *)
FairSpec ==
  /\ Spec
  /\ WF_vars(Run \/ Read \/ Handle \/ Aborted \/ RunReturns)
  /\ WF_vars(StopClose \/ StopContext \/ StopJoin)
-----------------------------------------------------------------------------
(* A published pair was measured, wherever in a message the port was opened *)
(* and also when a byte was lost or changed: of the buffers that hold the   *)
(* end of one message and the start of another none passes the checks.      *)
PublishedWasMeasured == published \in Measurements \cup {NoMeasurement}

(* On a line without faults a full buffer is accepted if and only if the    *)
(* port was opened at the start of a message and gain_setting has the size  *)
(* that the code expects.  The reads never find the start of a message by   *)
(* themselves: opened elsewhere, or with the documented four bytes, the     *)
(* device publishes nothing for ever.                                       *)
CleanLineAccepted ==
  faults = 0 /\ Len(buffer_) = TOTAL_SIZE
    => (IsDistance(buffer_) <=> aligned /\ gainSize = 2)

(* Stop returns, wherever it finds the io thread and also when the sonar is *)
(* silent: between two reads, where cancel() and close() find nothing to    *)
(* abort, the flag or the closed port keeps the thread from reading for     *)
(* ever.                                                                    *)
StopReturns == stopPc = "close" ~> stopPc = "stopped"
=============================================================================
