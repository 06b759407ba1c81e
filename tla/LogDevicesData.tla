--------------------------- MODULE LogDevicesData ---------------------------
(***************************************************************************)
(* LogManager and the LogData threads (LogDevicesData.cpp), driven by the  *)
(* /startLogging, /stopLogging and /download requests of HttpServer.cpp.   *)
(*                                                                         *)
(* One thread runs all the requests (the io_context has one), so one call  *)
(* of LogManager is in progress at a time and loggerMutex_ is never        *)
(* contended: callPc = "idle" says that it is free.  Each LogData object   *)
(* has a thread of its own.  All of them call std::localtime, which        *)
(* returns the one struct tm of the process.                               *)
(*                                                                         *)
(* Time is the clock's reading in seconds, within one minute, so that two  *)
(* values of that struct differ in tm_sec only and no store to it is torn. *)
(* The process can be killed and started again; disk is what survives.     *)
(***************************************************************************)
EXTENDS Naturals, Sequences

CONSTANTS
  Clients,     \* the clientIds
  LogDatas,    \* the LogData objects: bounds the number of starts
  MaxTime,     \* bounds the clock
  BufRows,     \* the lines the stdio buffer of a log file has room for
  MaxCrashes,  \* bounds the crashes
  None,        \* no object, no path, nobody
  Header       \* the first line of a CSV file

ASSUME LogAssumption ==
  /\ MaxTime \in Nat
  /\ BufRows \in Nat \ {0}
  /\ MaxCrashes \in Nat

ASSUME NoneAssumption ==
  /\ None \notin Clients
  /\ None \notin LogDatas
  /\ None \notin Clients \X (0 .. MaxTime)

\* The line of column names is not a time stamp.
ASSUME HeaderAssumption == Header \notin 0 .. MaxTime

VARIABLES
  now,                 \* the clock
  tm,                  \* the struct std::localtime returns a pointer to
  activeLoggers,       \* activeLoggers[c]: the LogData object of c, or None
  lastLogFilePathMap,  \* lastLogFilePathMap[c]: a path, or None
  callPc,              \* where the call of LogManager or the download is
  caller,              \* the client it is for (the last one, when idle)
  callClock,           \* now_c in createNewLogFilePath
  reply,               \* how the last download was answered
  filePath,            \* filePath[d]: logFilePath_ of the object d
  terminateThread,     \* terminateThread[d]: its terminateThread_
  threadPc,            \* threadPc[d]: where its thread is in run
  clock,               \* clock[d]: when the thread fell asleep, then now_c
  buffer,              \* buffer[d]: the lines its stdio buffer holds
  registry,            \* the names registered with spdlog
  created,             \* the paths a file exists at
  disk,                \* disk[p]: the whole lines the file p has on disk
  crashes,
  disturbed            \* history: the files with a stamp or a row that bears the time
                       \* somebody else has put into tm

callVars == <<callPc, caller, callClock, reply>>
mapVars == <<activeLoggers, lastLogFilePathMap>>
objectVars == <<filePath, terminateThread>>
fileVars == <<buffer, registry, created, disk>>
vars ==
  <<now, tm, mapVars, callVars, objectVars, threadPc, clock, fileVars, crashes, disturbed>>

Times == 0 .. MaxTime
Paths == Clients \X Times      \* the file of a client, by its time stamp
Lines == Times \cup {Header}   \* a data row is the time it bears

Init ==
  /\ now = 0
  /\ tm = 0
  /\ activeLoggers = [c \in Clients |-> None]
  /\ lastLogFilePathMap = [c \in Clients |-> None]
  /\ callPc = "idle" /\ caller = None /\ callClock = 0 /\ reply = "none"
  /\ filePath = [d \in LogDatas |-> None]
  /\ terminateThread = [d \in LogDatas |-> FALSE]
  /\ threadPc = [d \in LogDatas |-> "new"]
  /\ clock = [d \in LogDatas |-> 0]
  /\ buffer = [d \in LogDatas |-> <<>>]
  /\ registry = {}
  /\ created = {}
  /\ disk = [p \in Paths |-> <<>>]
  /\ crashes = 0
  /\ disturbed = {}

Tick ==
  /\ now < MaxTime
  /\ now' = now + 1
  /\ UNCHANGED <<tm, disturbed, mapVars, callVars, objectVars, threadPc, clock, fileVars, crashes>>
-----------------------------------------------------------------------------
(* A request arrives when no other is being handled (Ask).  Start and stop  *)
(* begin while the clock can still move, or the bound on it would keep the  *)
(* thread they join asleep.                                                 *)

\* startLogging(c), to the join of the logger that c already has.
StartLogging(c) ==
  /\ now < MaxTime
  /\ \E d \in LogDatas : threadPc[d] = "new"
  /\ \/ /\ activeLoggers[c] = None
        /\ callPc' = "clock"
        /\ UNCHANGED terminateThread
     \/ /\ activeLoggers[c] # None
        /\ callPc' = "startJoin"
        /\ terminateThread' = [terminateThread EXCEPT ![activeLoggers[c]] = TRUE]

\* A stop() that joins without setting terminateThread_.
StopLoggingNoFlag(c) ==
  /\ now < MaxTime
  /\ activeLoggers[c] # None
  /\ callPc' = "stopJoin"
  /\ UNCHANGED terminateThread

\* stopLogging(c), to the join; without a logger of c it does nothing.
StopLogging(c) ==
  /\ now < MaxTime
  /\ activeLoggers[c] # None
  /\ callPc' = "stopJoin"
  /\ terminateThread' = [terminateThread EXCEPT ![activeLoggers[c]] = TRUE]

\* The /download branch.
Download(c) == callPc' = "exists" /\ UNCHANGED terminateThread

Ask(c) ==
  /\ callPc = "idle"
  /\ caller' = c
  /\ reply' = "none"
  /\ StartLogging(c) \/ StopLogging(c) \/ Download(c)
  /\ UNCHANGED <<now, tm, mapVars, callClock, filePath, threadPc, clock, fileVars, crashes,
                 disturbed>>
-----------------------------------------------------------------------------
(* The request goes on.  CallAt(pc, next): the step at pc, next follows.    *)

CallAt(pc, next) == callPc = pc /\ callPc' = next /\ UNCHANGED caller

\* A stop() that does not wait for its thread.
JoinNoWait ==
  /\ activeLoggers' = [activeLoggers EXCEPT ![caller] = None]
  /\ UNCHANGED <<tm, disturbed, lastLogFilePathMap, callClock, reply, objectVars, threadPc>>

\* The join returns, and the object is erased from the map.
Join ==
  /\ threadPc[activeLoggers[caller]] = "done"
  /\ activeLoggers' = [activeLoggers EXCEPT ![caller] = None]
  /\ UNCHANGED <<tm, disturbed, lastLogFilePathMap, callClock, reply, objectVars, threadPc>>

StartJoin == CallAt("startJoin", "clock") /\ Join

StopJoin == CallAt("stopJoin", "idle") /\ Join

\* A createNewLogFilePath that is a second early.
ReadClockEarly ==
  /\ CallAt("clock", "localtime")
  /\ callClock' = now - 1
  /\ UNCHANGED <<tm, disturbed, mapVars, reply, objectVars, threadPc>>

\* strftime formats tm for the file p, where the time meant is t.
Formats(p, t) == disturbed' = IF tm = t THEN disturbed ELSE disturbed \cup {p}

\* createNewLogFilePath reads the clock ...
ReadClock ==
  /\ CallAt("clock", "localtime")
  /\ callClock' = now
  /\ UNCHANGED <<tm, disturbed, mapVars, reply, objectVars, threadPc>>

\* ... converts it into the shared struct ...
LocalTime ==
  /\ CallAt("localtime", "spawn")
  /\ tm' = callClock
  /\ UNCHANGED <<disturbed, mapVars, callClock, reply, objectVars, threadPc>>

\* ... and formats that struct; startLogging then starts the thread.
SpawnLogger(d) ==
  /\ CallAt("spawn", "idle")
  /\ threadPc[d] = "new"
  /\ filePath' = [filePath EXCEPT ![d] = <<caller, tm>>]
  /\ lastLogFilePathMap' = [lastLogFilePathMap EXCEPT ![caller] = <<caller, tm>>]
  /\ activeLoggers' = [activeLoggers EXCEPT ![caller] = d]
  /\ terminateThread' = [terminateThread EXCEPT ![d] = FALSE]
  /\ threadPc' = [threadPc EXCEPT ![d] = "open"]
  /\ Formats(<<caller, tm>>, callClock)
  /\ UNCHANGED <<tm, callClock, reply>>

\* getLastLogFilePath(c).
LastLogFilePath(c) ==
  IF activeLoggers[c] # None THEN filePath[activeLoggers[c]] ELSE lastLogFilePathMap[c]

\* No path, or no file there that opens: 404.
DownloadNotFound ==
  /\ CallAt("exists", "idle")
  /\ LastLogFilePath(caller) \notin created
  /\ reply' = "notFound"
  /\ UNCHANGED <<tm, disturbed, mapVars, callClock, objectVars, threadPc>>

DownloadExists ==
  /\ CallAt("exists", "read")
  /\ LastLogFilePath(caller) \in created
  /\ UNCHANGED <<tm, disturbed, mapVars, callClock, reply, objectVars, threadPc>>

\* The body is disk[LastLogFilePath(caller)].
DownloadRead ==
  /\ CallAt("read", "idle")
  /\ reply' = "file"
  /\ UNCHANGED <<tm, disturbed, mapVars, callClock, objectVars, threadPc>>

Call ==
  /\ \/ StartJoin \/ StopJoin \/ ReadClock \/ LocalTime
     \/ \E d \in LogDatas : SpawnLogger(d)
     \/ DownloadNotFound \/ DownloadExists \/ DownloadRead
  /\ UNCHANGED <<now, clock, fileVars, crashes>>
-----------------------------------------------------------------------------
(* The thread of a LogData object: LogData::run.                            *)

ThreadAt(d, pc, next) == threadPc[d] = pc /\ threadPc' = [threadPc EXCEPT ![d] = next]

\* A line goes to the stdio buffer.  When that is full, what it holds goes to the disk, and
\* the line may be cut: its end, by which it counts here, stays in the buffer.
Write(d, line) ==
  IF Len(buffer[d]) < BufRows
  THEN /\ buffer' = [buffer EXCEPT ![d] = Append(@, line)]
       /\ UNCHANGED disk
  ELSE /\ buffer' = [buffer EXCEPT ![d] = <<line>>]
       /\ disk' = [disk EXCEPT ![filePath[d]] = @ \o buffer[d]]

\* A basic_logger_mt that truncates.
OpenLogTruncate(d) ==
  /\ ThreadAt(d, "open", "check")
  /\ filePath[d] \notin registry
  /\ registry' = registry \cup {filePath[d]}
  /\ created' = created \cup {filePath[d]}
  /\ buffer' = [buffer EXCEPT ![d] = <<Header>>]
  /\ disk' = [disk EXCEPT ![filePath[d]] = <<>>]
  /\ UNCHANGED <<tm, disturbed, clock>>

\* basic_logger_mt opens the file for appending and registers the name.
OpenLog(d) ==
  /\ ThreadAt(d, "open", "check")
  /\ filePath[d] \notin registry
  /\ registry' = registry \cup {filePath[d]}
  /\ created' = created \cup {filePath[d]}
  /\ Write(d, Header)
  /\ UNCHANGED <<tm, disturbed, clock>>

\* It throws: the file does not open, or does and the name is taken.
OpenLogFails(d) ==
  /\ ThreadAt(d, "open", "done")
  /\ created' = IF filePath[d] \in registry THEN created \cup {filePath[d]} ELSE created
  /\ UNCHANGED <<tm, disturbed, clock, buffer, registry, disk>>

\* while (!terminateThread_), and the fall asleep (loggingActive_ is always true).
CheckTerminate(d) ==
  /\ \/ terminateThread[d] /\ ThreadAt(d, "check", "drop") /\ UNCHANGED clock
     \/ /\ ~terminateThread[d]
        /\ ThreadAt(d, "check", "sleep")
        /\ clock' = [clock EXCEPT ![d] = now]
  /\ UNCHANGED <<tm, disturbed, fileVars>>

\* A loop that does not sleep.
WakeNoSleep(d) ==
  /\ ThreadAt(d, "sleep", "localtime")
  /\ clock' = [clock EXCEPT ![d] = now]
  /\ UNCHANGED <<tm, disturbed, fileVars>>

\* A loop that reads the clock before it sleeps.
WakeStaleClock(d) ==
  /\ ThreadAt(d, "sleep", "localtime")
  /\ now > clock[d]
  /\ UNCHANGED <<tm, disturbed, clock, fileVars>>

\* Awake a second later: the sample (see SensorGlobals), then the clock.
Wake(d) ==
  /\ ThreadAt(d, "sleep", "localtime")
  /\ now > clock[d]
  /\ clock' = [clock EXCEPT ![d] = now]
  /\ UNCHANGED <<tm, disturbed, fileVars>>

LogLocalTime(d) ==
  /\ ThreadAt(d, "localtime", "log")
  /\ tm' = clock[d]
  /\ UNCHANGED <<disturbed, clock, fileVars>>

\* strftime formats the shared struct; the row is logged.
LogRow(d) ==
  /\ ThreadAt(d, "log", "check")
  /\ Write(d, tm)
  /\ Formats(filePath[d], clock[d])
  /\ UNCHANGED <<tm, clock, registry, created>>

\* A thread that ends without spdlog::drop.
DropLoggerForgotten(d) ==
  ThreadAt(d, "drop", "close") /\ UNCHANGED <<tm, disturbed, clock, fileVars>>

DropLogger(d) ==
  /\ ThreadAt(d, "drop", "close")
  /\ registry' = registry \ {filePath[d]}
  /\ UNCHANGED <<tm, disturbed, clock, buffer, created, disk>>

\* A thread that ends without the rows it has buffered.
CloseFileUnflushed(d) ==
  /\ ThreadAt(d, "close", "done")
  /\ buffer' = [buffer EXCEPT ![d] = <<>>]
  /\ UNCHANGED <<tm, disturbed, clock, registry, created, disk>>

\* The last reference to the logger goes: the file is flushed and closed.
CloseFile(d) ==
  /\ ThreadAt(d, "close", "done")
  /\ disk' = [disk EXCEPT ![filePath[d]] = @ \o buffer[d]]
  /\ buffer' = [buffer EXCEPT ![d] = <<>>]
  /\ UNCHANGED <<tm, disturbed, clock, registry, created>>

Thread(d) ==
  /\ \/ OpenLog(d) \/ OpenLogFails(d) \/ CheckTerminate(d) \/ Wake(d) \/ LogLocalTime(d)
     \/ LogRow(d) \/ DropLogger(d) \/ CloseFile(d)
  /\ UNCHANGED <<now, mapVars, callVars, objectVars, crashes>>
-----------------------------------------------------------------------------
(* The process is killed, or an exception leaves a handler (the directory   *)
(* of the logs cannot be created), and is started again.                    *)
Crash ==
  /\ crashes < MaxCrashes
  /\ crashes' = crashes + 1
  /\ tm' = 0
  /\ activeLoggers' = [c \in Clients |-> None]
  /\ lastLogFilePathMap' = [c \in Clients |-> None]
  /\ callPc' = "idle" /\ caller' = None /\ callClock' = 0 /\ reply' = "none"
  /\ terminateThread' = [d \in LogDatas |-> FALSE]
  /\ threadPc' = [d \in LogDatas |-> IF threadPc[d] = "new" THEN "new" ELSE "done"]
  /\ clock' = [d \in LogDatas |-> 0]
  /\ buffer' = [d \in LogDatas |-> <<>>]
  /\ registry' = {}
  /\ UNCHANGED <<now, filePath, created, disk, disturbed>>

Next ==
  \/ Tick
  \/ \E c \in Clients : Ask(c)
  \/ Call
  \/ \E d \in LogDatas : Thread(d)
  \/ Crash

Spec == Init /\ [][Next]_vars

(* Time passes, the io_context thread runs its handler and every logger     *)
(* thread is scheduled.  No client is obliged to ask for anything.          *)
Fairness ==
  /\ WF_vars(Tick)
  /\ WF_vars(Call)
  /\ \A d \in LogDatas : WF_vars(Thread(d))

FairSpec == Spec /\ Fairness
-----------------------------------------------------------------------------
CallPcs == {"idle", "startJoin", "stopJoin", "clock", "localtime", "spawn", "exists", "read"}
ThreadPcs == {"new", "open", "check", "sleep", "localtime", "log", "drop", "close", "done"}

TypeOK ==
  /\ now \in Times
  /\ tm \in Times
  /\ activeLoggers \in [Clients -> LogDatas \cup {None}]
  /\ lastLogFilePathMap \in [Clients -> Paths \cup {None}]
  /\ callPc \in CallPcs
  /\ caller \in Clients \cup {None}
  /\ callPc # "idle" => caller \in Clients
  /\ callClock \in Times
  /\ reply \in {"none", "notFound", "file"}
  /\ filePath \in [LogDatas -> Paths \cup {None}]
  /\ terminateThread \in [LogDatas -> BOOLEAN]
  /\ threadPc \in [LogDatas -> ThreadPcs]
  /\ \A d \in LogDatas : threadPc[d] # "new" => filePath[d] \in Paths
  /\ clock \in [LogDatas -> Times]
  /\ buffer \in [LogDatas -> Seq(Lines)]
  /\ registry \in SUBSET Paths
  /\ created \in SUBSET Paths
  /\ disk \in [Paths -> Seq(Lines)]
  /\ crashes \in Nat
  /\ disturbed \in SUBSET Paths

Running(d) == threadPc[d] \notin {"new", "done"}
FileOpen(d) == threadPc[d] \in {"check", "sleep", "localtime", "log", "drop", "close"}
Registered(d) == threadPc[d] \in {"check", "sleep", "localtime", "log", "drop"}

(* No logger thread outlives its place in activeLoggers_: whatever clients  *)
(* start and stop, and whenever, a running thread is the one the map holds, *)
(* so a later stopLogging can still reach it.                               *)
NoOrphanLogger ==
  \A d \in LogDatas : Running(d) => \E c \in Clients : activeLoggers[c] = d

(* A thread about to open its log finds its spdlog name free, even when a   *)
(* client stops and starts within one second and gets the same path again:  *)
(* so basic_logger_mt never throws for a name that exists.                  *)
NamesAreFree ==
  \A d \in LogDatas : threadPc[d] = "open" => filePath[d] \notin registry

(* A download by a client that is not logging returns everything its last   *)
(* session logged: no line of it is still in a stdio buffer.                *)
DownloadIsComplete ==
  callPc = "read" /\ activeLoggers[caller] = None
    => \A d \in LogDatas : filePath[d] = lastLogFilePathMap[caller] => buffer[d] = <<>>

Extends(new, old) ==
  Len(old) <= Len(new) /\ \A i \in 1 .. Len(old) : new[i] = old[i]

(* What a file has on disk stays its beginning, across sessions that reopen *)
(* the file and across crashes: two downloads agree as far as both go.      *)
DiskOnlyGrows == [][\A p \in Paths : Extends(disk'[p], disk[p])]_vars

(* A call of LogManager returns, although it joins a thread that may be in  *)
(* the middle of its one-second sleep.                                      *)
CallsReturn == callPc # "idle" ~> callPc = "idle"

\* The lines of the file p that are in the buffer of the thread that has it open.
Unsaved(p) ==
  LET writers == {d \in LogDatas : FileOpen(d) /\ filePath[d] = p}
  IN  IF writers = {} THEN <<>> ELSE buffer[CHOOSE d \in writers : TRUE]

Contents(p) == disk[p] \o Unsaved(p)

Row(p, i) == i \in 1 .. Len(Contents(p)) /\ Contents(p)[i] # Header

(* The headers of a file come before its rows: a client that starts twice   *)
(* in one second reopens a file that has no row yet.  Of the files whose    *)
(* own times were formatted: one that got the stamp of another call or      *)
(* thread may be an older file with rows.                                   *)
HeadersFirst ==
  \A p \in Paths \ disturbed : \A i \in 1 .. Len(Contents(p)) :
    Row(p, i) => \A j \in i .. Len(Contents(p)) : Row(p, j)

(* The rows of a file bear times later than the stamp in its name, each     *)
(* later than the one before, unless the struct of std::localtime was       *)
(* overwritten between a call for this very file and its strftime: that is  *)
(* the only damage concurrent loggers do, and it stays in the file it hit.  *)
RowsIncrease ==
  \A p \in Paths \ disturbed : \A i \in 1 .. Len(Contents(p)) :
    Row(p, i) => /\ Contents(p)[i] > p[2]
                 /\ Row(p, i - 1) => Contents(p)[i] > Contents(p)[i - 1]

(***************************************************************************)
(* Why NoOrphanLogger, NamesAreFree and DownloadIsComplete hold: a path    *)
(* names its client, a client has one logger at a time, and only the thread *)
(* of a logger in the map has lines in a buffer or a name in the registry.  *)
(***************************************************************************)
CallInv ==
  /\ callPc \in {"startJoin", "stopJoin"} => activeLoggers[caller] # None
  /\ callPc \in {"clock", "localtime", "spawn"} => activeLoggers[caller] = None

ActiveInv ==
  \A c \in Clients : activeLoggers[c] # None =>
    /\ threadPc[activeLoggers[c]] # "new"
    /\ filePath[activeLoggers[c]][1] = c
    /\ lastLogFilePathMap[c] = filePath[activeLoggers[c]]

OwnPathInv ==
  \A c \in Clients : lastLogFilePathMap[c] # None => lastLogFilePathMap[c][1] = c

FilesInv ==
  /\ \A d \in LogDatas : FileOpen(d) => filePath[d] \in created
  /\ \A d \in LogDatas : buffer[d] # <<>> => FileOpen(d)
  /\ \A p \in registry : \E d \in LogDatas : Registered(d) /\ filePath[d] = p

\* While a download is served, files stay where they are.
DownloadInv ==
  /\ callPc \in {"exists", "read"} => reply = "none"
  /\ callPc = "read" => LastLogFilePath(caller) \in created

LoggersInv ==
  CallInv /\ DownloadInv /\ ActiveInv /\ OwnPathInv /\ FilesInv /\ NoOrphanLogger

(***************************************************************************)
(* The service the clients see.  A session begins when its thread is       *)
(* started and ends when the call that joined the thread erases it.        *)
(***************************************************************************)
Service == INSTANCE LogService WITH
  session <- lastLogFilePathMap,
  logging <- {c \in Clients : activeLoggers[c] # None},
  asker <- caller,
  exists <- created,
  saved <- disk,
  unsaved <- [p \in Paths |-> Unsaved(p)]

(* Logger threads, joins, buffers and maps implement the service: lines go  *)
(* only to the file of a client that is logging, stop returns when all of   *)
(* them are saved, and a download finds the client's last session.          *)
ImplementsLogService == Service!Spec
=============================================================================
