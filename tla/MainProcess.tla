---------------------------- MODULE MainProcess ----------------------------
(***************************************************************************)
(* The life of the backend process: main (main.cpp), the SIGINT handler,   *)
(* the device threads, the io_context thread with the HTTP accept loop, a  *)
(* CSV logger, and the destructors that run at exit.                       *)
(*                                                                         *)
(* The handler runs on the main thread, which it interrupts between two    *)
(* statements.  A handler of ioc that is running when ioc is stopped goes  *)
(* on.  What a use of a destroyed object does is undefined: the process    *)
(* goes on, crashes, or the thread never comes back.                       *)
(*                                                                         *)
(* One client stands for all: it has a connection or not, and a logger or  *)
(* not.  The logger thread uses spdlog's registry, a static object it      *)
(* creates with the first log file and that is destroyed, like every       *)
(* static object, before those created earlier: logManager is one.         *)
(***************************************************************************)
EXTENDS Naturals

CONSTANTS
  Failures,   \* what can fail: see FailureAssumption
  MaxSignals  \* bounds the SIGINTs

\* config.json cannot be used; the sonar's port does not open, or not take its
\* options; the GPS's port does not open; the HTTP port is taken; a client is
\* gone before its connection is accepted; the directory of the logs cannot be made.
ASSUME FailureAssumption ==
  /\ Failures \subseteq {"config", "sonarPort", "sonarOptions", "gpsPort", "bind", "clientGone",
                      "logsDir"}
  /\ MaxSignals \in Nat

VARIABLES
  mainPc,       \* the statement main is at, then the phases of exit
  keepRunning,
  global_ioc,   \* "null", "live", or "dangling": ioc is gone
  signals,      \* the SIGINTs handled
  sonarThread,  \* "none", "closed" or "idle": Start failed, the port is closed or
                \* open; "run", "stop": its io_context is stopped, "done"
  gpsThread,
  iocStopped,   \* ioc.stop() was called
  iocPc,        \* where ioc_thread is: "run", in a handler ("onAccept", "onRead"), in its
                \* join of a logger ("startJoin", "stopJoin"), "done", or "threw"
  acceptor,     \* "none", "listening", "unbound" or "closed"
  accepting,    \* an async_accept is outstanding
  connected,    \* an HttpSession waits for a request
  active,       \* activeLoggers_ holds a logger
  terminate,    \* its terminateThread_
  loggerPc,     \* where its thread is: "open", "run", "ended", or "stuck"
  registry,     \* spdlog's registry: "unborn", "live" or "destroyed"
  misuse        \* history: the destroyed objects that were used

signalVars == <<keepRunning, signals, iocStopped>>
deviceVars == <<sonarThread, gpsThread>>
iocVars == <<iocPc, acceptor, accepting, connected>>
loggerVars == <<active, terminate, loggerPc>>
vars == <<mainPc, global_ioc, signalVars, deviceVars, iocVars, loggerVars, registry, misuse>>

Init ==
  /\ mainPc = "config"
  /\ keepRunning = TRUE
  /\ global_ioc = "null"
  /\ signals = 0
  /\ sonarThread = "none" /\ gpsThread = "none"
  /\ iocStopped = FALSE
  /\ iocPc = "none" /\ acceptor = "none" /\ accepting = FALSE /\ connected = FALSE
  /\ active = FALSE /\ terminate = FALSE /\ loggerPc = "none"
  /\ registry = "unborn"
  /\ misuse = {}

Alive == mainPc \notin {"exited", "aborted"}

\* signalHandler: global_ioc may be of an ioc that is gone.
Signal ==
  /\ Alive /\ mainPc # "stuck"
  /\ signals < MaxSignals
  /\ signals' = signals + 1
  /\ keepRunning' = FALSE
  /\ iocStopped' = (iocStopped \/ global_ioc = "live")
  /\ IF global_ioc = "dangling"
     THEN mainPc' \in {mainPc, "aborted", "stuck"} /\ misuse' = misuse \cup {"ioc"}
     ELSE UNCHANGED <<mainPc, misuse>>
  /\ UNCHANGED <<global_ioc, deviceVars, iocVars, loggerVars, registry>>
-----------------------------------------------------------------------------
(* main.  From(pc, next): the statement at pc is done, next follows.  Pass: *)
(* it changes nothing else.                                                 *)

From(pc, next) == mainPc = pc /\ mainPc' = next

Pass(pc, next) ==
  From(pc, next) /\ UNCHANGED <<global_ioc, deviceVars, iocVars, terminate, registry>>

\* JsonReader::setConfig sets config, or throws: no file, no JSON, no such key.
ReadConfig ==
  \/ Pass("config", "sonarStart")
  \/ "config" \in Failures /\ Pass("config", "aborted")

\* sonar.Start() catches what open and set_option throw; main ignores its result.
SonarStart ==
  /\ From("sonarStart", "gpsStart")
  /\ \/ sonarThread' = "run"
     \/ "sonarPort" \in Failures /\ sonarThread' = "closed"
     \/ "sonarOptions" \in Failures /\ sonarThread' = "idle"
  /\ UNCHANGED <<global_ioc, gpsThread, iocVars, terminate, registry>>

\* gps.Start() throws what open throws, and nothing catches it.
GpsStart ==
  \/ /\ From("gpsStart", "globalIoc")
     /\ gpsThread' = "run"
     /\ UNCHANGED <<global_ioc, sonarThread, iocVars, terminate, registry>>
  \/ "gpsPort" \in Failures /\ Pass("gpsStart", "aborted")

GlobalIoc ==
  /\ From("globalIoc", "http")
  /\ global_ioc' = "live"
  /\ UNCHANGED <<deviceVars, iocVars, terminate, registry>>

\* The HttpServer, which keeps an acceptor it could not bind, and its start().
HttpStart ==
  /\ From("http", "iocThread")
  /\ acceptor' \in {"listening"} \cup (IF "bind" \in Failures THEN {"unbound"} ELSE {})
  /\ accepting' = TRUE
  /\ UNCHANGED <<global_ioc, deviceVars, iocPc, connected, terminate, registry>>

IocThread ==
  /\ From("iocThread", "loop")
  /\ iocPc' = "run"
  /\ UNCHANGED <<global_ioc, deviceVars, acceptor, accepting, connected, terminate, registry>>

LeaveLoop == ~keepRunning /\ Pass("loop", "sonarStop")

\* serial_port_.cancel() throws for a port that is not open.
SonarStop ==
  \/ sonarThread = "closed" /\ Pass("sonarStop", "aborted")
  \/ /\ sonarThread # "closed"
     /\ From("sonarStop", "sonarJoin")
     /\ sonarThread' = IF sonarThread = "run" THEN "stop" ELSE sonarThread
     /\ UNCHANGED <<global_ioc, gpsThread, iocVars, terminate, registry>>

SonarJoin == sonarThread \in {"idle", "done"} /\ Pass("sonarJoin", "gpsStop")

GpsStop ==
  /\ From("gpsStop", "gpsJoin")
  /\ gpsThread' = "stop"
  /\ UNCHANGED <<global_ioc, sonarThread, iocVars, terminate, registry>>

GpsJoin == gpsThread = "done" /\ Pass("gpsJoin", "httpStop")

\* The accept in progress, if any, completes with an error.
HttpStop ==
  /\ From("httpStop", "iocJoin")
  /\ acceptor' = "closed"
  /\ UNCHANGED <<global_ioc, deviceVars, iocPc, accepting, connected, terminate, registry>>

\* A main that detaches ioc_thread.
IocDetach == Pass("iocJoin", "return")

IocJoin == iocPc = "done" /\ Pass("iocJoin", "return")

\* main returns: httpServer, ioc with its sessions, gps and sonar are destroyed.
Return ==
  /\ From("return", "exit")
  /\ global_ioc' = "dangling"
  /\ connected' = FALSE
  /\ accepting' = FALSE
  /\ UNCHANGED <<deviceVars, iocPc, acceptor, terminate, registry>>

\* The static objects: the registry, if it was created, before logManager.
DestroyRegistry ==
  /\ From("exit", "exit")
  /\ registry = "live"
  /\ registry' = "destroyed"
  /\ UNCHANGED <<global_ioc, deviceVars, iocVars, terminate>>

\* Without ~LogManager.
DestroyLogManagerNoStop == registry # "live" /\ Pass("exit", "exited")

\* ~LogManager stops the logger, and waits for it in JoinLogger.
DestroyLogManager ==
  /\ registry # "live"
  /\ From("exit", "exitJoin")
  /\ terminate' = (terminate \/ active)
  /\ UNCHANGED <<global_ioc, deviceVars, iocVars, registry>>

JoinLogger == (active => loggerPc = "ended") /\ Pass("exitJoin", "exited")

Main ==
  /\ \/ ReadConfig \/ SonarStart \/ GpsStart \/ GlobalIoc \/ HttpStart \/ IocThread \/ LeaveLoop
     \/ SonarStop \/ SonarJoin \/ GpsStop \/ GpsJoin \/ HttpStop \/ IocJoin
     \/ Return \/ DestroyRegistry \/ DestroyLogManager \/ JoinLogger
  /\ UNCHANGED <<signalVars, active, loggerPc, misuse>>
-----------------------------------------------------------------------------
(* The device threads.  The sonar's ends by itself when a read fails; the   *)
(* GPS's is kept by its work guard until Stop.                              *)

SonarEnds == sonarThread \in {"run", "stop"} /\ sonarThread' = "done" /\ UNCHANGED gpsThread

GpsEnds == gpsThread = "stop" /\ gpsThread' = "done" /\ UNCHANGED sonarThread

Device ==
  /\ Alive
  /\ SonarEnds \/ GpsEnds
  /\ UNCHANGED <<mainPc, global_ioc, signalVars, iocVars, loggerVars, registry, misuse>>
-----------------------------------------------------------------------------
(* ioc_thread: the handlers ioc.run() calls until ioc is stopped.  Clients  *)
(* make it call one; what it does then, and by itself, is in IocGoesOn.     *)

\* A connection is accepted, or a request has been read.
Serve ==
  /\ Alive /\ iocPc = "run" /\ ~iocStopped
  /\ \/ accepting /\ acceptor = "listening" /\ iocPc' = "onAccept"
     \/ connected /\ iocPc' = "onRead"
  /\ UNCHANGED <<mainPc, global_ioc, signalVars, deviceVars, acceptor, accepting, connected,
                 loggerVars, registry, misuse>>

Accept ==
  /\ iocPc = "onAccept"
  /\ iocPc' = "run"
  /\ connected' = TRUE
  /\ UNCHANGED <<mainPc, loggerVars>>

\* What a handler throws leaves ioc.run() and its thread: the process aborts.
Throws(failure) ==
  /\ failure \in Failures
  /\ iocPc' = "threw"
  /\ mainPc' = "aborted"

\* remote_endpoint() of a client that is gone.
AcceptThrows ==
  /\ iocPc = "onAccept"
  /\ Throws("clientGone")
  /\ UNCHANGED <<connected, loggerVars>>

\* on_read with an error: the session ends.
Disconnect ==
  /\ iocPc = "onRead"
  /\ iocPc' = "run"
  /\ connected' = FALSE
  /\ UNCHANGED <<mainPc, loggerVars>>

\* The rest of startLogging: create_directories, and a new logger.
StartLogger ==
  \/ /\ iocPc' = "run"
     /\ active' = TRUE /\ loggerPc' = "open" /\ terminate' = FALSE
     /\ UNCHANGED mainPc
  \/ /\ Throws("logsDir")
     /\ active' = FALSE
     /\ UNCHANGED <<loggerPc, terminate>>

\* /startLogging stops the logger there is first, and waits for it in LoggerJoined.
RequestStart ==
  /\ iocPc = "onRead"
  /\ IF active
     THEN terminate' = TRUE /\ iocPc' = "startJoin" /\ UNCHANGED <<mainPc, active, loggerPc>>
     ELSE StartLogger
  /\ UNCHANGED connected

\* A stopLogging that erases the logger before it stops it.
RequestStopErasesFirst ==
  /\ iocPc = "onRead"
  /\ IF active
     THEN terminate' = TRUE /\ iocPc' = "stopJoin" /\ active' = FALSE
     ELSE iocPc' = "run" /\ UNCHANGED <<active, terminate>>
  /\ UNCHANGED <<mainPc, connected, loggerPc>>

\* /stopLogging; without a logger, a request like any other.
RequestStop ==
  /\ iocPc = "onRead"
  /\ IF active
     THEN terminate' = TRUE /\ iocPc' = "stopJoin"
     ELSE iocPc' = "run" /\ UNCHANGED terminate
  /\ UNCHANGED <<mainPc, connected, active, loggerPc>>

\* on_accept with an error accepts again, on whatever acceptor there is.
AcceptError ==
  /\ iocPc = "run" /\ ~iocStopped
  /\ accepting /\ acceptor # "listening"
  /\ UNCHANGED <<mainPc, iocPc, connected, loggerVars>>

Stopped ==
  /\ iocPc = "stopJoin"
  /\ iocPc' = "run"
  /\ active' = FALSE /\ terminate' = FALSE
  /\ UNCHANGED <<mainPc, loggerPc>>

\* A LogData::stop that does not join.
LoggerNotJoined == (Stopped \/ (iocPc = "startJoin" /\ StartLogger)) /\ UNCHANGED connected

\* The join in LogData::stop returns.
LoggerJoined ==
  /\ loggerPc = "ended"
  /\ Stopped \/ (iocPc = "startJoin" /\ StartLogger)
  /\ UNCHANGED connected

\* A run() that drains its connections first.
IocDrains ==
  /\ iocPc = "run"
  /\ ~connected /\ (iocStopped \/ ~accepting)
  /\ iocPc' = "done"
  /\ UNCHANGED <<mainPc, connected, loggerVars>>

\* ioc.run() returns when ioc is stopped or has nothing left to wait for.
IocReturns ==
  /\ iocPc = "run"
  /\ iocStopped \/ (~accepting /\ ~connected)
  /\ iocPc' = "done"
  /\ UNCHANGED <<mainPc, connected, loggerVars>>

IocGoesOn ==
  /\ Alive
  /\ \/ Accept \/ AcceptThrows \/ AcceptError
     \/ Disconnect \/ RequestStart \/ RequestStop \/ LoggerJoined
     \/ IocReturns
  /\ UNCHANGED <<global_ioc, signalVars, deviceVars, acceptor, accepting, registry, misuse>>
-----------------------------------------------------------------------------
(* The logger thread.                                                       *)

\* The registry is not reached when the file cannot be opened.
LoggerOpen ==
  /\ loggerPc = "open"
  /\ \/ loggerPc' = "run" /\ registry' = IF registry = "unborn" THEN "live" ELSE registry
     \/ loggerPc' = "ended" /\ UNCHANGED registry

\* while (!terminateThread_) is over: spdlog::drop, and the file is closed.
LoggerDrop == loggerPc = "run" /\ terminate /\ loggerPc' = "ended" /\ UNCHANGED registry

\* The destroyed registry is used.
LoggerMisuse ==
  /\ registry = "destroyed"
  /\ loggerPc = "open" \/ (loggerPc = "run" /\ terminate)
  /\ misuse' = misuse \cup {"registry"}
  /\ \/ (LoggerOpen \/ LoggerDrop) /\ UNCHANGED mainPc
     \/ mainPc' = "aborted" /\ UNCHANGED <<loggerPc, registry>>
     \/ loggerPc' = "stuck" /\ UNCHANGED <<mainPc, registry>>

Logger ==
  /\ Alive
  /\ \/ registry # "destroyed" /\ (LoggerOpen \/ LoggerDrop) /\ UNCHANGED <<mainPc, misuse>>
     \/ LoggerMisuse
  /\ UNCHANGED <<global_ioc, signalVars, deviceVars, iocVars, active, terminate>>
-----------------------------------------------------------------------------
Next == Signal \/ Main \/ Device \/ Serve \/ IocGoesOn \/ Logger

Spec == Init /\ [][Next]_vars

(* Each thread is scheduled, the sonar's when it is stopped; nobody has to  *)
(* press Ctrl-C, connect or ask.                                            *)
Fairness ==
  /\ WF_vars(Main)
  /\ WF_vars(Device /\ (sonarThread = "stop" \/ gpsThread = "stop"))
  /\ WF_vars(IocGoesOn)
  /\ WF_vars(Logger)

FairSpec == Spec /\ Fairness
-----------------------------------------------------------------------------
MainPcs == {"config", "sonarStart", "gpsStart", "globalIoc", "http", "iocThread", "loop",
            "sonarStop", "sonarJoin", "gpsStop", "gpsJoin", "httpStop", "iocJoin", "return",
            "exit", "exitJoin", "exited", "aborted", "stuck"}
Joining == iocPc \in {"startJoin", "stopJoin"}

TypeOK ==
  /\ mainPc \in MainPcs
  /\ keepRunning \in BOOLEAN
  /\ global_ioc \in {"null", "live", "dangling"}
  /\ signals \in 0 .. MaxSignals
  /\ sonarThread \in {"none", "closed", "idle", "run", "stop", "done"}
  /\ gpsThread \in {"none", "run", "stop", "done"}
  /\ iocStopped \in BOOLEAN
  /\ iocPc \in {"none", "run", "onAccept", "onRead", "startJoin", "stopJoin", "done", "threw"}
  /\ acceptor \in {"none", "listening", "unbound", "closed"}
  /\ accepting \in BOOLEAN /\ connected \in BOOLEAN
  /\ active \in BOOLEAN /\ terminate \in BOOLEAN
  /\ Joining => active
  /\ loggerPc \in {"none", "open", "run", "ended", "stuck"}
  /\ registry \in {"unborn", "live", "destroyed"}
  /\ misuse \subseteq {"ioc", "registry"}

(* The objects main owns are destroyed after every thread that uses them    *)
(* has ended: ioc_thread and both device threads.                           *)
ThreadsEndBeforeObjects ==
  mainPc \in {"exit", "exitJoin", "exited", "stuck"}
    => iocPc = "done" /\ sonarThread \in {"idle", "done"} /\ gpsThread = "done"

(* A process that exits has stopped the logger that was running, so that    *)
(* its CSV file is complete.                                                *)
ExitSavesLog == mainPc = "exited" => loggerPc \in {"none", "ended"}

(* Only a logger still running when the process exits meets a destroyed     *)
(* registry: a client that stopped logging before Ctrl-C is safe.           *)
StoppedLoggerIsSafe == "registry" \in misuse => active

(* A SIGINT that stopped ioc makes the process exit, whatever requests,     *)
(* handlers and joins are in progress.  Only three things prevent it: the   *)
(* sonar's port did not open, a handler that was running throws, or an      *)
(* object that is gone is used: the registry by a logger that was left      *)
(* running, or ioc by one more SIGINT after main has returned.              *)
StopLeadsToExit ==
  iocStopped
    ~> \/ mainPc = "exited"
       \/ sonarThread = "closed" \/ iocPc = "threw" \/ misuse # {}

(* The process does not use an object that is gone, and a shutdown is not   *)
(* cut short: "Graceful termination using OS signal handling".              *)
GracefulTermination == misuse = {} /\ (mainPc = "aborted" => keepRunning)
=============================================================================
