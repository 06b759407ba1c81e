------------------------- MODULE MainProcessProofs -------------------------
(***************************************************************************)
(* For any set of failures and any number of signals: types, threads that  *)
(* end before the objects they use, and what a logger meets at exit.       *)
(***************************************************************************)
EXTENDS MainProcess, TLAPS

\* The statements of main from each join on, as far as main does not abort.
AfterIocJoin == {"return", "exit", "exitJoin", "exited", "stuck"}
AfterGpsJoin == {"httpStop", "iocJoin"} \cup AfterIocJoin
AfterSonarJoin == {"gpsStop", "gpsJoin"} \cup AfterGpsJoin
Exiting == {"exit", "exitJoin", "exited", "aborted", "stuck"}

\* A thread that was joined stays ended.
JoinedInv ==
  /\ mainPc \in AfterSonarJoin => sonarThread \in {"idle", "done"}
  /\ mainPc \in AfterGpsJoin => gpsThread = "done"
  /\ mainPc \in AfterIocJoin => iocPc = "done"

\* A logger thread is in activeLoggers_ until it was joined; the registry goes when
\* ioc_thread, which alone adds and erases loggers, has ended.
ExitInv ==
  /\ loggerPc \in {"open", "run", "stuck"} => active
  /\ loggerPc = "stuck" => registry = "destroyed"
  /\ registry = "destroyed" => iocPc = "done" /\ mainPc \in Exiting
  /\ global_ioc = "dangling" => iocPc = "done" /\ mainPc \in Exiting
  /\ "registry" \in misuse => registry = "destroyed"

Inv ==
  /\ TypeOK /\ JoinedInv /\ ExitInv
  /\ ExitSavesLog /\ StoppedLoggerIsSafe

LEMMA InitInv == Init => Inv
<1> SUFFICES ASSUME Init PROVE Inv
  OBVIOUS
<1>1. signals \in 0 .. MaxSignals
  BY FailureAssumption DEF Init
<1>2. TypeOK
  BY <1>1 DEF Init, TypeOK, MainPcs, Joining
<1> QED
  BY <1>2 DEF Init, Inv, JoinedInv, ExitInv, ExitSavesLog, StoppedLoggerIsSafe,
              AfterIocJoin, AfterGpsJoin, AfterSonarJoin, Exiting

\* The handler stops ioc and leaves every thread where it is, and main unless ioc is gone.
LEMMA SignalStep == Inv /\ Signal => Inv'
<1> SUFFICES ASSUME Inv, Signal PROVE Inv'
  OBVIOUS
<1> USE DEF deviceVars, iocVars, loggerVars
<1>1. /\ UNCHANGED <<global_ioc, deviceVars, iocVars, loggerVars, registry>>
      /\ keepRunning' \in BOOLEAN /\ iocStopped' \in BOOLEAN
      /\ signals' \in 0 .. MaxSignals
      /\ misuse' \subseteq misuse \cup {"ioc"}
  <2>1. UNCHANGED <<global_ioc, deviceVars, iocVars, loggerVars, registry>>
    BY DEF Signal
  <2>2. keepRunning' \in BOOLEAN /\ iocStopped' \in BOOLEAN
    BY DEF Signal
  <2>3. signals' \in 0 .. MaxSignals
    BY FailureAssumption DEF Inv, TypeOK, Signal
  <2>4. misuse' \subseteq misuse \cup {"ioc"}
    BY DEF Signal
  <2> QED
    BY <2>1, <2>2, <2>3, <2>4
<1>2. \/ mainPc' = mainPc
      \/ global_ioc = "dangling" /\ mainPc' \in {"aborted", "stuck"}
  BY DEF Signal
<1>3. TypeOK'
  <2>1. mainPc' \in MainPcs
    BY <1>2 DEF Inv, TypeOK, MainPcs
  <2> QED
    BY <1>1, <2>1 DEF Inv, TypeOK, Joining
<1>4. JoinedInv' /\ ExitInv' /\ ExitSavesLog' /\ StoppedLoggerIsSafe'
  <2> USE DEF Inv, JoinedInv, ExitInv, ExitSavesLog, StoppedLoggerIsSafe, AfterIocJoin,
              AfterGpsJoin, AfterSonarJoin, Exiting
  <2>1. CASE mainPc' = mainPc
    BY <1>1, <2>1
  <2>2. CASE global_ioc = "dangling" /\ mainPc' \in {"aborted", "stuck"}
    <3>1. /\ mainPc \in Exiting /\ mainPc # "aborted" /\ iocPc = "done"
          /\ sonarThread \in {"idle", "done"} /\ gpsThread = "done"
      BY <2>2 DEF Signal, Alive
    <3> QED
      BY <1>1, <2>2, <3>1
  <2> QED
    BY <1>2, <2>1, <2>2
<1> QED
  BY <1>3, <1>4 DEF Inv

\* main passes a join only when the thread has ended.
LEMMA MainStep == Inv /\ Main => Inv'
<1> SUFFICES ASSUME Inv, Main PROVE Inv'
  OBVIOUS
<1> USE DEF Inv, TypeOK, MainPcs, Joining, JoinedInv, ExitInv, ExitSavesLog, StoppedLoggerIsSafe,
            AfterIocJoin, AfterGpsJoin, AfterSonarJoin, Exiting,
            From, Pass, signalVars, deviceVars, iocVars
<1>0. UNCHANGED <<signalVars, active, loggerPc, misuse>>
  BY DEF Main
<1>1. CASE ReadConfig
  BY <1>0, <1>1 DEF ReadConfig
<1>2. CASE SonarStart
  BY <1>0, <1>2 DEF SonarStart
<1>3. CASE GpsStart
  BY <1>0, <1>3 DEF GpsStart
<1>4. CASE GlobalIoc
  BY <1>0, <1>4 DEF GlobalIoc
<1>5. CASE HttpStart
  BY <1>0, <1>5 DEF HttpStart
<1>6. CASE IocThread
  BY <1>0, <1>6 DEF IocThread
<1>7. CASE LeaveLoop
  BY <1>0, <1>7 DEF LeaveLoop
<1>8. CASE SonarStop
  BY <1>0, <1>8 DEF SonarStop
<1>9. CASE SonarJoin
  BY <1>0, <1>9 DEF SonarJoin
<1>10. CASE GpsStop
  BY <1>0, <1>10 DEF GpsStop
<1>11. CASE GpsJoin
  BY <1>0, <1>11 DEF GpsJoin
<1>12. CASE HttpStop
  BY <1>0, <1>12 DEF HttpStop
<1>13. CASE IocJoin
  BY <1>0, <1>13 DEF IocJoin
<1>14. CASE Return
  <2>1. TypeOK'
    BY <1>0, <1>14, ZenonT(30) DEF Return
  <2>2. JoinedInv' /\ ExitSavesLog' /\ StoppedLoggerIsSafe'
    BY <1>0, <1>14 DEF Return
  <2>3. ExitInv'
    BY <1>0, <1>14 DEF Return
  <2> QED
    BY <2>1, <2>2, <2>3
<1>15. CASE DestroyRegistry
  BY <1>0, <1>15 DEF DestroyRegistry
<1>16. CASE DestroyLogManager
  BY <1>0, <1>16 DEF DestroyLogManager
<1>17. CASE JoinLogger
  BY <1>0, <1>17 DEF JoinLogger
<1> QED
  BY <1>1, <1>2, <1>3, <1>4, <1>5, <1>6, <1>7, <1>8, <1>9, <1>10, <1>11, <1>12, <1>13, <1>14,
     <1>15, <1>16, <1>17
  DEF Main

\* A device thread that ended does not come back.
LEMMA DeviceStep == Inv /\ Device => Inv'
BY DEF Device, SonarEnds, GpsEnds, Inv, TypeOK, Joining, JoinedInv, ExitInv, ExitSavesLog,
       StoppedLoggerIsSafe, signalVars, iocVars, loggerVars

\* Only a running ioc_thread begins a handler.
LEMMA ServeStep == Inv /\ Serve => Inv'
BY DEF Serve, Alive, Inv, TypeOK, Joining, JoinedInv, ExitInv, ExitSavesLog,
       StoppedLoggerIsSafe, AfterIocJoin, AfterGpsJoin, AfterSonarJoin, Exiting,
       signalVars, deviceVars, loggerVars

\* A logger starts in activeLoggers_, or the handler throws.
LEMMA LoggerStarted ==
  ASSUME Inv, IocGoesOn, StartLogger, UNCHANGED connected,
         \/ iocPc = "onRead" /\ ~active
         \/ iocPc = "startJoin" /\ loggerPc = "ended"
  PROVE  Inv'
<1> USE DEF IocGoesOn, Alive, Inv, TypeOK, MainPcs, Joining, JoinedInv, ExitInv, ExitSavesLog,
            StoppedLoggerIsSafe, AfterIocJoin, AfterGpsJoin, AfterSonarJoin, Exiting,
            signalVars, deviceVars
<1>1. /\ active' \in BOOLEAN /\ terminate' \in BOOLEAN
      /\ \/ mainPc' = mainPc /\ iocPc' = "run" /\ active' /\ loggerPc' = "open"
         \/ mainPc' = "aborted" /\ iocPc' = "threw" /\ loggerPc' = loggerPc
  BY DEF StartLogger, Throws
<1>2. registry # "destroyed" /\ global_ioc # "dangling" /\ mainPc \notin AfterIocJoin
  OBVIOUS
<1>3. loggerPc' \notin {"run", "stuck"} /\ (loggerPc' = "open" => active')
  BY <1>1
<1>4. JoinedInv' /\ ExitInv' /\ ExitSavesLog' /\ StoppedLoggerIsSafe'
  BY <1>1, <1>2, <1>3
<1>5. TypeOK'
  BY <1>1
<1> QED
  BY <1>4, <1>5

\* What a handler starts is in activeLoggers_; a logger leaves it when its thread has ended.
LEMMA IocStep == Inv /\ IocGoesOn => Inv'
<1> SUFFICES ASSUME Inv, IocGoesOn PROVE Inv'
  OBVIOUS
<1> USE DEF IocGoesOn, Alive, Inv, TypeOK, MainPcs, Joining, JoinedInv, ExitInv, ExitSavesLog,
            StoppedLoggerIsSafe, AfterIocJoin, AfterGpsJoin, AfterSonarJoin, Exiting,
            signalVars, deviceVars, loggerVars
<1>1. CASE Accept
  BY <1>1 DEF Accept
<1>2. CASE AcceptThrows
  BY <1>2 DEF AcceptThrows, Throws
<1>3. CASE AcceptError
  BY <1>3 DEF AcceptError
<1>4. CASE Disconnect
  <2>1. connected' \in BOOLEAN /\ iocPc' = "run" /\ UNCHANGED <<mainPc, loggerVars>>
    BY <1>4 DEF Disconnect
  <2>2. iocPc = "onRead"
    BY <1>4 DEF Disconnect
  <2> QED
    BY <2>1, <2>2
<1>5. CASE RequestStart
  <2>1. CASE active
    <3>1. /\ iocPc = "onRead" /\ iocPc' = "startJoin" /\ terminate' \in BOOLEAN
          /\ UNCHANGED <<mainPc, connected, active, loggerPc>>
      BY <1>5, <2>1 DEF RequestStart
    <3> QED
      BY <2>1, <3>1
  <2>2. CASE ~active
    BY <1>5, <2>2, LoggerStarted DEF RequestStart
  <2> QED
    BY <2>1, <2>2
<1>6. CASE RequestStop
  <2>1. /\ iocPc = "onRead" /\ terminate' \in BOOLEAN
        /\ iocPc' = "run" \/ (iocPc' = "stopJoin" /\ active)
        /\ UNCHANGED <<mainPc, connected, active, loggerPc>>
    BY <1>6 DEF RequestStop
  <2> QED
    BY <2>1
<1>7. CASE LoggerJoined
  <2>1. CASE Stopped
    <3>1. /\ active' \in BOOLEAN /\ terminate' \in BOOLEAN
          /\ iocPc \in {"startJoin", "stopJoin"} /\ iocPc' = "run" /\ loggerPc = "ended"
          /\ UNCHANGED <<mainPc, connected, loggerPc>>
      BY <1>7, <2>1 DEF LoggerJoined, Stopped
    <3> QED
      BY <3>1
  <2>2. CASE iocPc = "startJoin" /\ StartLogger
    BY <1>7, <2>2, LoggerStarted DEF LoggerJoined
  <2> QED
    BY <1>7, <2>1, <2>2 DEF LoggerJoined
<1>8. CASE IocReturns
  BY <1>8 DEF IocReturns
<1> QED
  BY <1>1, <1>2, <1>3, <1>4, <1>5, <1>6, <1>7, <1>8

\* A logger that meets the destroyed registry is in activeLoggers_.
LEMMA LoggerStep == Inv /\ Logger => Inv'
<1> SUFFICES ASSUME Inv, Logger PROVE Inv'
  OBVIOUS
<1> USE DEF Logger, Alive, Inv, TypeOK, MainPcs, Joining, JoinedInv, ExitInv, ExitSavesLog,
            StoppedLoggerIsSafe, AfterIocJoin, AfterGpsJoin, AfterSonarJoin, Exiting,
            signalVars, deviceVars, iocVars
<1>1. CASE registry # "destroyed" /\ LoggerOpen /\ UNCHANGED <<mainPc, misuse>>
  BY <1>1 DEF LoggerOpen
<1>2. CASE registry # "destroyed" /\ LoggerDrop /\ UNCHANGED <<mainPc, misuse>>
  BY <1>2 DEF LoggerDrop
<1>3. CASE LoggerMisuse
  <2>1. active /\ registry = "destroyed" /\ mainPc \in Exiting /\ iocPc = "done"
    BY <1>3 DEF LoggerMisuse
  <2>2. CASE LoggerOpen /\ UNCHANGED mainPc
    BY <1>3, <2>1, <2>2 DEF LoggerMisuse, LoggerOpen
  <2>3. CASE LoggerDrop /\ UNCHANGED mainPc
    BY <1>3, <2>1, <2>3 DEF LoggerMisuse, LoggerDrop
  <2>4. CASE mainPc' = "aborted" /\ UNCHANGED <<loggerPc, registry>>
    BY <1>3, <2>1, <2>4 DEF LoggerMisuse
  <2>5. CASE loggerPc' = "stuck" /\ UNCHANGED <<mainPc, registry>>
    <3>1. mainPc # "exited"
      BY <1>3 DEF LoggerMisuse
    <3> QED
      BY <1>3, <2>1, <2>5, <3>1 DEF LoggerMisuse
  <2> QED
    BY <1>3, <2>2, <2>3, <2>4, <2>5 DEF LoggerMisuse
<1> QED
  BY <1>1, <1>2, <1>3

LEMMA Invariant == Spec => []Inv
<1>1. Inv /\ [Next]_vars => Inv'
  <2> SUFFICES ASSUME Inv, [Next]_vars PROVE Inv'
    OBVIOUS
  <2>1. CASE UNCHANGED vars
    BY <2>1 DEF vars, signalVars, deviceVars, iocVars, loggerVars, Inv, TypeOK, Joining,
                JoinedInv, ExitInv, ExitSavesLog, StoppedLoggerIsSafe
  <2>2. CASE Next
    BY <2>2, SignalStep, MainStep, DeviceStep, ServeStep, IocStep, LoggerStep DEF Next
  <2> QED
    BY <2>1, <2>2
<1> QED
  BY InitInv, <1>1, PTL DEF Spec

(* Every variable keeps its type; a handler that joins a logger has it in   *)
(* activeLoggers_.                                                          *)
THEOREM TypeCorrect == Spec => []TypeOK
BY Invariant, PTL DEF Inv

(* main's objects are destroyed after ioc_thread and both device threads.   *)
THEOREM ObjectsLast == Spec => []ThreadsEndBeforeObjects
<1>1. Inv => ThreadsEndBeforeObjects
  BY DEF Inv, JoinedInv, ThreadsEndBeforeObjects, AfterIocJoin, AfterGpsJoin, AfterSonarJoin
<1> QED
  BY <1>1, Invariant, PTL

(* A process that exits, rather than aborts, has ended its logger.          *)
THEOREM LogIsSaved == Spec => []ExitSavesLog
BY Invariant, PTL DEF Inv

(* Only a logger that nobody stopped meets spdlog's destroyed registry.     *)
THEOREM StoppedLoggersAreSafe == Spec => []StoppedLoggerIsSafe
BY Invariant, PTL DEF Inv
=============================================================================
