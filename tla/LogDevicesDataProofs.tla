------------------------ MODULE LogDevicesDataProofs ------------------------
(***************************************************************************)
(* Proofs about LogDevicesData, for any number of clients and of LogData   *)
(* objects and any bounds: type correctness, the inductive invariant       *)
(* LoggersInv and what follows from it.                                    *)
(***************************************************************************)
EXTENDS LogDevicesData, Integers, TLAPS

LEMMA WriteType ==
  ASSUME TypeOK, NEW d \in LogDatas, NEW line \in Lines, Write(d, line)
  PROVE  buffer' \in [LogDatas -> Seq(Lines)] /\ disk' \in [Paths -> Seq(Lines)]
<1>1. /\ Append(buffer[d], line) \in Seq(Lines) /\ <<line>> \in Seq(Lines)
      /\ \A p \in Paths : disk[p] \o buffer[d] \in Seq(Lines)
  BY DEF TypeOK
<1>2. buffer' \in [LogDatas -> Seq(Lines)]
  BY <1>1 DEF Write, TypeOK
<1>3. disk' \in [Paths -> Seq(Lines)]
  <2>1. CASE disk' = disk
    BY <2>1 DEF TypeOK
  <2>2. CASE disk' = [disk EXCEPT ![filePath[d]] = @ \o buffer[d]]
    BY <1>1, <2>2 DEF TypeOK
  <2>. QED  BY <2>1, <2>2 DEF Write
<1>. QED  BY <1>2, <1>3

(* Every variable keeps its type.                                           *)
THEOREM TypeCorrect == Spec => []TypeOK
<1>1. Init => TypeOK
  BY LogAssumption DEF Init, TypeOK, Times, CallPcs, ThreadPcs
<1>2. TypeOK /\ [Next]_vars => TypeOK'
  <2>. SUFFICES ASSUME TypeOK, [Next]_vars
                PROVE  TypeOK'
    OBVIOUS
  <2>. USE LogAssumption DEF callVars, mapVars, objectVars, fileVars, ThreadAt, CallAt
  <2>1. CASE Tick
    BY <2>1 DEF Tick, TypeOK, Times
  <2>2. ASSUME NEW c \in Clients, Ask(c)
        PROVE  TypeOK'
    BY <2>2 DEF Ask, StartLogging, StopLogging, Download, TypeOK, CallPcs
  <2>3. CASE Call
    <3>. UNCHANGED <<now, clock, fileVars, crashes>>
      BY <2>3 DEF Call
    <3>1. CASE StartJoin \/ StopJoin
      BY <2>3, <3>1 DEF StartJoin, StopJoin, Join, TypeOK, CallPcs
    <3>2. CASE ReadClock \/ LocalTime \/ DownloadNotFound \/ DownloadExists \/ DownloadRead
      BY <3>2 DEF ReadClock, LocalTime, DownloadNotFound, DownloadExists, DownloadRead, TypeOK,
                  CallPcs
    <3>3. ASSUME NEW d \in LogDatas, SpawnLogger(d)
          PROVE  TypeOK'
      <4>1. caller \in Clients /\ <<caller, tm>> \in Paths
        BY <3>3 DEF SpawnLogger, TypeOK, Paths
      <4>2. disturbed' \in SUBSET Paths
        BY <3>3, <4>1 DEF SpawnLogger, Formats, TypeOK
      <4>. QED  BY <3>3, <4>1, <4>2 DEF SpawnLogger, TypeOK, CallPcs, ThreadPcs
    <3>. QED  BY <2>3, <3>1, <3>2, <3>3 DEF Call
  <2>4. ASSUME NEW d \in LogDatas, Thread(d)
        PROVE  TypeOK'
    <3>. UNCHANGED <<now, mapVars, callVars, objectVars, crashes>>
      BY <2>4 DEF Thread
    <3>1. CASE OpenLog(d)
      <4>1. registry' \in SUBSET Paths /\ created' \in SUBSET Paths
        BY <3>1 DEF OpenLog, TypeOK
      <4>2. buffer' \in [LogDatas -> Seq(Lines)] /\ disk' \in [Paths -> Seq(Lines)]
        BY <3>1, WriteType DEF OpenLog, Lines
      <4>. QED  BY <3>1, <4>1, <4>2 DEF OpenLog, TypeOK, ThreadPcs
    <3>2. CASE LogRow(d)
      <4>1. buffer' \in [LogDatas -> Seq(Lines)] /\ disk' \in [Paths -> Seq(Lines)]
        BY <3>2, WriteType DEF LogRow, TypeOK, Lines
      <4>2. disturbed' \in SUBSET Paths
        BY <3>2 DEF LogRow, Formats, TypeOK
      <4>. QED  BY <3>2, <4>1, <4>2 DEF LogRow, TypeOK, ThreadPcs
    <3>3. CASE CloseFile(d)
      <4>1. \A p \in Paths : disk[p] \o buffer[d] \in Seq(Lines)
        BY DEF TypeOK
      <4>2. disk' \in [Paths -> Seq(Lines)]
        BY <3>3, <4>1 DEF CloseFile, TypeOK
      <4>3. buffer' \in [LogDatas -> Seq(Lines)]
        BY <3>3 DEF CloseFile, TypeOK
      <4>. QED  BY <3>3, <4>2, <4>3 DEF CloseFile, TypeOK, ThreadPcs
    <3>4. CASE \/ OpenLogFails(d) \/ CheckTerminate(d) \/ Wake(d) \/ LogLocalTime(d)
               \/ DropLogger(d)
      <4>1. registry' \in SUBSET Paths /\ created' \in SUBSET Paths
        BY <3>4 DEF OpenLogFails, CheckTerminate, Wake, LogLocalTime, DropLogger, TypeOK
      <4>2. clock' \in [LogDatas -> Times] /\ tm' \in Times
        <5>1. /\ clock' = clock \/ clock' = [clock EXCEPT ![d] = now]
              /\ tm' = tm \/ tm' = clock[d]
          BY <3>4 DEF OpenLogFails, CheckTerminate, Wake, LogLocalTime, DropLogger
        <5>2. now \in Times /\ tm \in Times /\ clock \in [LogDatas -> Times]
          BY DEF TypeOK
        <5>3. [clock EXCEPT ![d] = now] \in [LogDatas -> Times] /\ clock[d] \in Times
          BY <5>2
        <5>. QED  BY <5>1, <5>2, <5>3
      <4>3. /\ threadPc' \in [LogDatas -> ThreadPcs]
            /\ \A e \in LogDatas : threadPc'[e] # "new" => filePath'[e] \in Paths
        <5>1. PICK next \in ThreadPcs : threadPc' = [threadPc EXCEPT ![d] = next]
          BY <3>4 DEF OpenLogFails, CheckTerminate, Wake, LogLocalTime, DropLogger, ThreadPcs
        <5>2. threadPc[d] # "new" /\ filePath' = filePath
          BY <3>4 DEF OpenLogFails, CheckTerminate, Wake, LogLocalTime, DropLogger
        <5>. QED  BY <5>1, <5>2 DEF TypeOK
      <4>4. UNCHANGED <<buffer, disk, disturbed>>
        BY <3>4 DEF OpenLogFails, CheckTerminate, Wake, LogLocalTime, DropLogger
      <4>. QED  BY <4>1, <4>2, <4>3, <4>4 DEF TypeOK
    <3>. QED  BY <2>4, <3>1, <3>2, <3>3, <3>4 DEF Thread
  <2>5. CASE Crash
    BY <2>5 DEF Crash, TypeOK, Times, CallPcs, ThreadPcs
  <2>6. CASE UNCHANGED vars
    BY <2>6 DEF vars, TypeOK
  <2>. QED  BY <2>1, <2>2, <2>3, <2>4, <2>5, <2>6 DEF Next
<1>. QED  BY <1>1, <1>2, PTL DEF Spec
-----------------------------------------------------------------------------
(***************************************************************************)
(* LoggersInv.  The calls of LogManager change the maps and callPc, the    *)
(* threads everything about themselves.                                    *)
(***************************************************************************)

LEMMA DownloadStep ==
  ASSUME DownloadInv, [Next]_vars
  PROVE  DownloadInv'
<1>. USE DEF DownloadInv, callVars, mapVars, objectVars, fileVars, LastLogFilePath
<1>1. ASSUME NEW c \in Clients, Ask(c)
      PROVE  DownloadInv'
  BY <1>1 DEF Ask, StartLogging, StopLogging, Download
<1>2. CASE Call
  BY <1>2 DEF Call, StartJoin, StopJoin, Join, ReadClock, LocalTime, SpawnLogger, DownloadNotFound,
              DownloadExists, DownloadRead, CallAt
<1>3. ASSUME NEW d \in LogDatas, Thread(d)
      PROVE  DownloadInv'
  <2>1. created \subseteq created'
    BY <1>3 DEF Thread, OpenLog, OpenLogFails, CheckTerminate, Wake, LogLocalTime, LogRow,
                DropLogger, CloseFile
  <2>. QED  BY <1>3, <2>1 DEF Thread
<1>4. CASE Tick \/ Crash \/ UNCHANGED vars
  BY <1>4 DEF Tick, Crash, vars
<1>. QED  BY <1>1, <1>2, <1>3, <1>4 DEF Next

LEMMA CallStep ==
  ASSUME TypeOK, LoggersInv,
         Call \/ \E c \in Clients : Ask(c)
  PROVE  LoggersInv'
<1>. DownloadInv'
  BY DownloadStep DEF LoggersInv, Next
<1>. USE NoneAssumption DEF LoggersInv, callVars, mapVars, objectVars, fileVars, CallAt
<1>1. ASSUME NEW c \in Clients, Ask(c)
      PROVE  LoggersInv'
  <2>1. /\ UNCHANGED <<mapVars, filePath, threadPc, fileVars>>
        /\ caller' = c
        /\ callPc' \in {"startJoin", "stopJoin"} => activeLoggers[c] # None
        /\ callPc' \in {"clock", "localtime", "spawn"} => activeLoggers[c] = None
    BY <1>1 DEF Ask, StartLogging, StopLogging, Download
  <2>. QED  BY <2>1 DEF CallInv, ActiveInv, OwnPathInv, FilesInv, NoOrphanLogger, FileOpen,
                        Registered, Running
<1>2. CASE Call /\ (StartJoin \/ StopJoin)
  <2>1. /\ UNCHANGED <<lastLogFilePathMap, caller, filePath, threadPc, fileVars>>
        /\ activeLoggers' = [activeLoggers EXCEPT ![caller] = None]
        /\ threadPc[activeLoggers[caller]] = "done"
        /\ callPc # "idle" /\ callPc' \in {"clock", "idle"}
    BY <1>2 DEF Call, StartJoin, StopJoin, Join
  <2>2. caller \in Clients
    BY <2>1 DEF TypeOK
  <2>3. NoOrphanLogger'
    BY <2>1, <2>2 DEF NoOrphanLogger, Running, TypeOK
  <2>4. CallInv' /\ ActiveInv' /\ OwnPathInv'
    BY <2>1, <2>2 DEF CallInv, ActiveInv, OwnPathInv, TypeOK
  <2>. QED  BY <2>1, <2>3, <2>4 DEF FilesInv, FileOpen, Registered
<1>3. CASE /\ Call
           /\ ReadClock \/ LocalTime \/ DownloadNotFound \/ DownloadExists \/ DownloadRead
  <2>1. /\ UNCHANGED <<mapVars, caller, filePath, threadPc, fileVars>>
        /\ callPc' \notin {"startJoin", "stopJoin"}
        /\ callPc' \in {"clock", "localtime", "spawn"} => callPc \in {"clock", "localtime"}
    BY <1>3 DEF Call, ReadClock, LocalTime, DownloadNotFound, DownloadExists, DownloadRead
  <2>. QED  BY <2>1 DEF CallInv, ActiveInv, OwnPathInv, FilesInv, NoOrphanLogger, FileOpen,
                        Registered, Running
<1>4. ASSUME NEW d \in LogDatas, Call, SpawnLogger(d)
      PROVE  LoggersInv'
  <2>1. /\ caller \in Clients
        /\ activeLoggers[caller] = None
        /\ threadPc[d] = "new"
        /\ callPc' = "idle"
    BY <1>4 DEF SpawnLogger, TypeOK, CallInv
  <2>2. /\ filePath' = [filePath EXCEPT ![d] = <<caller, tm>>]
        /\ lastLogFilePathMap' = [lastLogFilePathMap EXCEPT ![caller] = <<caller, tm>>]
        /\ activeLoggers' = [activeLoggers EXCEPT ![caller] = d]
        /\ threadPc' = [threadPc EXCEPT ![d] = "open"]
        /\ UNCHANGED <<buffer, registry, created>>
    BY <1>4 DEF Call, SpawnLogger
  <2>3. NoOrphanLogger'
    BY <2>1, <2>2 DEF NoOrphanLogger, Running, TypeOK
  <2>4. \A c \in Clients : activeLoggers[c] # d
    BY <2>1 DEF ActiveInv
  <2>5. CallInv' /\ ActiveInv' /\ OwnPathInv'
    BY <2>1, <2>2, <2>4 DEF CallInv, ActiveInv, OwnPathInv, TypeOK
  <2>6. FilesInv'
    BY <2>1, <2>2 DEF FilesInv, FileOpen, Registered, TypeOK
  <2>. QED  BY <2>3, <2>5, <2>6
<1>. QED  BY <1>1, <1>2, <1>3, <1>4 DEF Call

(* No two threads have the same path: it would be the path of one client,   *)
(* and a client has one logger.                                             *)
LEMMA PathsDiffer ==
  ASSUME TypeOK, LoggersInv, NEW d \in LogDatas, NEW e \in LogDatas,
         Running(d), Running(e), filePath[d] = filePath[e]
  PROVE  d = e
<1>1. PICK c \in Clients : activeLoggers[c] = d
  BY DEF LoggersInv, NoOrphanLogger
<1>2. PICK k \in Clients : activeLoggers[k] = e
  BY DEF LoggersInv, NoOrphanLogger
<1>3. c = filePath[d][1] /\ k = filePath[e][1]
  BY <1>1, <1>2, NoneAssumption DEF LoggersInv, ActiveInv
<1>. QED  BY <1>1, <1>2, <1>3

LEMMA ThreadStep ==
  ASSUME TypeOK, LoggersInv, NEW d \in LogDatas, Thread(d)
  PROVE  LoggersInv'
<1>. DownloadInv'
  BY DownloadStep DEF LoggersInv, Next
<1>. USE DEF callVars, mapVars, objectVars, fileVars, ThreadAt
<1>1. /\ UNCHANGED <<mapVars, callVars, filePath>>
      /\ Running(d)
  BY DEF Thread, OpenLog, OpenLogFails, CheckTerminate, Wake, LogLocalTime, LogRow, DropLogger,
         CloseFile, Running
<1>2. PICK next \in ThreadPcs \ {"new"} : threadPc' = [threadPc EXCEPT ![d] = next]
  BY DEF Thread, OpenLog, OpenLogFails, CheckTerminate, Wake, LogLocalTime, LogRow, DropLogger,
         CloseFile, ThreadPcs
<1>3. \A e \in LogDatas \ {d} : threadPc'[e] = threadPc[e]
  BY <1>2 DEF TypeOK
<1>4. CallInv' /\ ActiveInv' /\ OwnPathInv' /\ NoOrphanLogger'
  BY <1>1, <1>2 DEF LoggersInv, CallInv, ActiveInv, OwnPathInv, NoOrphanLogger, Running, TypeOK
<1>5. \A e \in LogDatas : buffer'[e] # <<>> => FileOpen(e)'
  <2>1. \A e \in LogDatas \ {d} : buffer'[e] = buffer[e]
    BY DEF Thread, OpenLog, OpenLogFails, CheckTerminate, Wake, LogLocalTime, LogRow, DropLogger,
           CloseFile, Write, TypeOK
  <2>2. CASE OpenLog(d) \/ LogRow(d) \/ CheckTerminate(d) \/ Wake(d) \/ LogLocalTime(d)
             \/ DropLogger(d)
    <3>1. FileOpen(d)'
      BY <2>2 DEF OpenLog, LogRow, CheckTerminate, Wake, LogLocalTime, DropLogger, FileOpen, TypeOK
    <3>. QED  BY <1>3, <2>1, <3>1 DEF LoggersInv, FilesInv, FileOpen
  <2>3. CASE OpenLogFails(d) \/ CloseFile(d)
    <3>1. buffer'[d] = <<>>
      BY <2>3 DEF OpenLogFails, CloseFile, LoggersInv, FilesInv, FileOpen, TypeOK
    <3>. QED  BY <1>3, <2>1, <3>1 DEF LoggersInv, FilesInv, FileOpen
  <2>. QED  BY <2>2, <2>3 DEF Thread
<1>6. \A p \in registry' : \E e \in LogDatas : Registered(e)' /\ filePath'[e] = p
  <2>1. CASE OpenLog(d)
    <3>1. registry' = registry \cup {filePath[d]} /\ Registered(d)'
      BY <2>1 DEF OpenLog, Registered, TypeOK
    <3>. QED  BY <1>1, <1>3, <3>1 DEF LoggersInv, FilesInv, Registered
  <2>2. CASE DropLogger(d)
    <3>1. registry' = registry \ {filePath[d]}
      BY <2>2 DEF DropLogger
    <3>. QED  BY <1>1, <1>3, <3>1 DEF LoggersInv, FilesInv, Registered
  <2>3. CASE LogRow(d) \/ CheckTerminate(d) \/ Wake(d) \/ LogLocalTime(d)
    <3>1. registry' = registry /\ Registered(d)'
      BY <2>3 DEF LogRow, CheckTerminate, Wake, LogLocalTime, Registered, TypeOK
    <3>. QED  BY <1>1, <1>3, <3>1 DEF LoggersInv, FilesInv, Registered
  <2>4. CASE OpenLogFails(d) \/ CloseFile(d)
    <3>1. registry' = registry /\ ~Registered(d)
      BY <2>4 DEF OpenLogFails, CloseFile, Registered
    <3>. QED  BY <1>1, <1>3, <3>1 DEF LoggersInv, FilesInv, Registered
  <2>. QED  BY <2>1, <2>2, <2>3, <2>4 DEF Thread
<1>7. \A e \in LogDatas : FileOpen(e)' => filePath'[e] \in created'
  BY <1>1, <1>3 DEF Thread, OpenLog, OpenLogFails, CheckTerminate, Wake, LogLocalTime, LogRow,
     DropLogger, CloseFile, FileOpen, LoggersInv, FilesInv, TypeOK
<1>. QED  BY <1>4, <1>5, <1>6, <1>7 DEF LoggersInv, FilesInv

(* A path names its client, a client has one logger, and only the thread of *)
(* a logger in the map holds lines or a name, in every reachable state.     *)
THEOREM LoggersInvariant == Spec => []LoggersInv
<1>. USE DEF LoggersInv, CallInv, ActiveInv, OwnPathInv, FilesInv, NoOrphanLogger, Running,
             FileOpen, Registered
<1>1. Init => LoggersInv
  BY DEF Init, DownloadInv
<1>2. TypeOK /\ LoggersInv /\ [Next]_vars => LoggersInv'
  <2>. SUFFICES ASSUME TypeOK, LoggersInv, [Next]_vars
                PROVE  LoggersInv'
    OBVIOUS
  <2>. DownloadInv'
    BY DownloadStep
  <2>1. CASE Tick
    BY <2>1 DEF Tick, mapVars, callVars, objectVars, fileVars
  <2>2. CASE Crash
    BY <2>2 DEF Crash
  <2>3. CASE UNCHANGED vars
    BY <2>3 DEF vars, mapVars, callVars, objectVars, fileVars
  <2>. HIDE DEF LoggersInv
  <2>. QED  BY <2>1, <2>2, <2>3, CallStep, ThreadStep DEF Next
<1>. QED  BY <1>1, <1>2, TypeCorrect, PTL DEF Spec

(* Every running logger thread is the one activeLoggers_ holds for some     *)
(* client.                                                                  *)
THEOREM NoOrphans == Spec => []NoOrphanLogger
<1>1. LoggersInv => NoOrphanLogger
  BY DEF LoggersInv
<1>. QED  BY <1>1, LoggersInvariant, PTL

(* basic_logger_mt never finds its name taken.                              *)
THEOREM NamesFree == Spec => []NamesAreFree
<1>1. TypeOK /\ LoggersInv => NamesAreFree
  <2>. SUFFICES ASSUME TypeOK, LoggersInv, NEW d \in LogDatas, threadPc[d] = "open",
                       filePath[d] \in registry
                PROVE  FALSE
    BY DEF NamesAreFree
  <2>1. PICK e \in LogDatas : Registered(e) /\ filePath[e] = filePath[d]
    BY DEF LoggersInv, FilesInv
  <2>2. Running(d) /\ Running(e)
    BY <2>1 DEF Running, Registered
  <2>. QED  BY <2>1, <2>2, PathsDiffer DEF Registered
<1>. QED  BY <1>1, TypeCorrect, LoggersInvariant, PTL

(* A download by a client that is not logging misses no line.               *)
THEOREM DownloadsComplete == Spec => []DownloadIsComplete
<1>1. TypeOK /\ LoggersInv => DownloadIsComplete
  <2>. SUFFICES ASSUME TypeOK, LoggersInv, callPc = "read", activeLoggers[caller] = None,
                       NEW d \in LogDatas, filePath[d] = lastLogFilePathMap[caller],
                       buffer[d] # <<>>
                PROVE  FALSE
    BY DEF DownloadIsComplete
  <2>1. FileOpen(d) /\ Running(d)
    BY DEF LoggersInv, FilesInv, FileOpen, Running
  <2>2. PICK c \in Clients : activeLoggers[c] = d
    BY <2>1 DEF LoggersInv, NoOrphanLogger
  <2>3. filePath[d] \in Paths /\ filePath[d][1] = c
    BY <2>2, NoneAssumption DEF LoggersInv, ActiveInv, TypeOK
  <2>4. lastLogFilePathMap[caller] # None /\ caller \in Clients
    BY <2>3, NoneAssumption DEF Paths, Times, TypeOK
  <2>5. caller = c
    BY <2>3, <2>4 DEF LoggersInv, OwnPathInv
  <2>. QED  BY <2>2, <2>5, NoneAssumption
<1>. QED  BY <1>1, TypeCorrect, LoggersInvariant, PTL

(* No step, a crash included, takes a line of a file from the disk.         *)
THEOREM DiskGrows == Spec => DiskOnlyGrows
<1>1. TypeOK /\ [Next]_vars => [\A p \in Paths : Extends(disk'[p], disk[p])]_vars
  <2>. SUFFICES ASSUME TypeOK, [Next]_vars, NEW p \in Paths
                PROVE  Extends(disk'[p], disk[p])
    OBVIOUS
  <2>1. CASE disk' = disk
    BY <2>1 DEF Extends, TypeOK
  <2>2. ASSUME NEW d \in LogDatas, OpenLog(d) \/ LogRow(d) \/ CloseFile(d)
        PROVE  Extends(disk'[p], disk[p])
    <3>1. disk[p] \in Seq(Lines) /\ buffer[d] \in Seq(Lines) /\ tm \in Lines /\ Header \in Lines
      BY DEF TypeOK, Lines
    <3>2. PICK tail \in Seq(Lines) : disk'[p] = disk[p] \o tail \/ disk'[p] = disk[p]
      <4>1. CASE OpenLog(d) \/ LogRow(d)
        <5>1. PICK line \in Lines : Write(d, line)
          BY <3>1, <4>1 DEF OpenLog, LogRow
        <5>2. CASE disk' = disk
          BY <3>1, <5>2
        <5>3. CASE disk' = [disk EXCEPT ![filePath[d]] = @ \o buffer[d]]
          BY <3>1, <5>3 DEF TypeOK
        <5>. QED  BY <5>1, <5>2, <5>3 DEF Write
      <4>2. CASE CloseFile(d)
        BY <3>1, <4>2 DEF CloseFile, TypeOK
      <4>. QED  BY <2>2, <4>1, <4>2
    <3>. QED  BY <3>1, <3>2 DEF Extends
  <2>. QED
    BY <2>1, <2>2 DEF Next, Tick, Ask, Call, Thread, OpenLogFails, CheckTerminate, Wake,
       LogLocalTime, DropLogger, Crash, vars, fileVars
<1>. QED  BY <1>1, TypeCorrect, PTL DEF Spec, DiskOnlyGrows
-----------------------------------------------------------------------------
(***************************************************************************)
(* The refinement.  What the abstract unsaved is: the buffer of the one    *)
(* thread that has the file open.                                          *)
(***************************************************************************)

Writes(d, p) == FileOpen(d) /\ filePath[d] = p

UnsavedIsBuffer ==
  \A p \in Paths :
    /\ \A d \in LogDatas : Writes(d, p) => Unsaved(p) = buffer[d]
    /\ (\A d \in LogDatas : ~Writes(d, p)) => Unsaved(p) = <<>>

LEMMA UnsavedCorrect == TypeOK /\ LoggersInv => UnsavedIsBuffer
<1>. SUFFICES ASSUME TypeOK, LoggersInv, NEW p \in Paths
              PROVE  /\ \A d \in LogDatas : Writes(d, p) => Unsaved(p) = buffer[d]
                     /\ (\A d \in LogDatas : ~Writes(d, p)) => Unsaved(p) = <<>>
  BY DEF UnsavedIsBuffer
<1>. DEFINE writers == {d \in LogDatas : FileOpen(d) /\ filePath[d] = p}
<1>1. ASSUME NEW d \in LogDatas, Writes(d, p)
      PROVE  Unsaved(p) = buffer[d]
  <2>1. \A e \in writers : e = d
    BY <1>1, PathsDiffer DEF Writes, FileOpen, Running
  <2>2. d \in writers
    BY <1>1 DEF Writes
  <2>3. (CHOOSE e \in writers : TRUE) = d
    BY <2>1, <2>2
  <2>. QED  BY <2>2, <2>3 DEF Unsaved
<1>2. (\A d \in LogDatas : ~Writes(d, p)) => Unsaved(p) = <<>>
  BY DEF Unsaved, Writes
<1>. QED  BY <1>1, <1>2

LEMMA UnsavedSame ==
  ASSUME UnsavedIsBuffer, UnsavedIsBuffer', NEW p \in Paths,
         \A d \in LogDatas : /\ Writes(d, p)' <=> Writes(d, p)
                             /\ Writes(d, p) => buffer'[d] = buffer[d]
  PROVE  Unsaved(p)' = Unsaved(p)
<1>1. CASE \E d \in LogDatas : Writes(d, p)
  BY <1>1 DEF UnsavedIsBuffer
<1>2. CASE \A d \in LogDatas : ~Writes(d, p)
  BY <1>2 DEF UnsavedIsBuffer
<1>. QED  BY <1>1, <1>2

\* No request changes what the files contain.
LEMMA CallUnsaved ==
  ASSUME TypeOK, UnsavedIsBuffer, UnsavedIsBuffer',
         Call \/ \E c \in Clients : Ask(c)
  PROVE  /\ \A p \in Paths : Unsaved(p)' = Unsaved(p)
         /\ UNCHANGED <<created, disk>>
<1>. USE DEF callVars, mapVars, objectVars, fileVars, CallAt
<1>1. \A d \in LogDatas, p \in Paths :
        (Writes(d, p)' <=> Writes(d, p)) /\ buffer'[d] = buffer[d]
  <2>1. ASSUME NEW e \in LogDatas, Call, SpawnLogger(e)
        PROVE  \A d \in LogDatas, p \in Paths :
                 (Writes(d, p)' <=> Writes(d, p)) /\ buffer'[d] = buffer[d]
    BY <2>1 DEF Call, SpawnLogger, Writes, FileOpen, TypeOK
  <2>2. CASE UNCHANGED <<threadPc, filePath, buffer>>
    BY <2>2 DEF Writes, FileOpen
  <2>. QED
    BY <2>1, <2>2 DEF Call, Ask, StartJoin, StopJoin, Join, ReadClock, LocalTime, DownloadNotFound,
                      DownloadExists, DownloadRead
<1>. QED  BY <1>1, UnsavedSame DEF Call, Ask

LEMMA CallRefines ==
  ASSUME TypeOK, LoggersInv, UnsavedIsBuffer, UnsavedIsBuffer',
         Call \/ \E c \in Clients : Ask(c)
  PROVE  [Service!Next]_(Service!lvars)
<1>. USE NoneAssumption DEF callVars, mapVars, objectVars, fileVars, CallAt
<1>2. /\ \A p \in Paths : Unsaved(p)' = Unsaved(p)
      /\ UNCHANGED <<created, disk>>
  BY CallUnsaved
<1>3. ASSUME NEW c \in Clients, Ask(c)
      PROVE  Service!Ask(c)
  BY <1>2, <1>3 DEF Ask, StartLogging, StopLogging, Download, Service!Ask, Service!linesVars
<1>4. CASE Call /\ (StartJoin \/ StopJoin)
  <2>1. /\ caller \in Clients
        /\ activeLoggers[caller] # None
        /\ threadPc[activeLoggers[caller]] = "done"
        /\ activeLoggers' = [activeLoggers EXCEPT ![caller] = None]
        /\ UNCHANGED <<lastLogFilePathMap, caller, reply>>
    BY <1>4 DEF Call, StartJoin, StopJoin, Join, LoggersInv, CallInv, TypeOK
  <2>. DEFINE p == lastLogFilePathMap[caller]
  <2>2. p \in Paths /\ p[1] = caller
    BY <2>1 DEF LoggersInv, ActiveInv, TypeOK
  <2>3. \A d \in LogDatas : ~Writes(d, p)
    <3>. SUFFICES ASSUME NEW d \in LogDatas, Writes(d, p)
                  PROVE  FALSE
      OBVIOUS
    <3>1. PICK c \in Clients : activeLoggers[c] = d
      BY DEF LoggersInv, NoOrphanLogger, Writes, FileOpen, Running
    <3>2. c = caller
      BY <2>2, <3>1 DEF LoggersInv, ActiveInv, Writes
    <3>. QED  BY <2>1, <3>1, <3>2 DEF Writes, FileOpen
  <2>4. Unsaved(p) = <<>>
    BY <2>2, <2>3 DEF UnsavedIsBuffer
  <2>5. {c \in Clients : activeLoggers[c] # None}' =
          {c \in Clients : activeLoggers[c] # None} \ {caller}
    BY <2>1 DEF TypeOK
  <2>6. Service!Stop
    BY <1>2, <2>1, <2>2, <2>4, <2>5 DEF Service!Stop, Service!linesVars
  <2>. QED  BY <2>6 DEF Service!Next
<1>5. CASE Call /\ (ReadClock \/ LocalTime \/ DownloadExists)
  <2>1. UNCHANGED <<mapVars, caller, reply>>
    BY <1>5 DEF ReadClock, LocalTime, DownloadExists
  <2>. QED  BY <1>2, <2>1 DEF Service!lvars
<1>6. ASSUME NEW d \in LogDatas, Call, SpawnLogger(d)
      PROVE  Service!Next
  <2>1. /\ caller \in Clients
        /\ activeLoggers[caller] = None
        /\ <<caller, tm>> \in Paths
        /\ lastLogFilePathMap' = [lastLogFilePathMap EXCEPT ![caller] = <<caller, tm>>]
        /\ activeLoggers' = [activeLoggers EXCEPT ![caller] = d]
        /\ UNCHANGED <<caller, reply>>
    BY <1>6 DEF SpawnLogger, LoggersInv, CallInv, TypeOK, Paths
  <2>2. {c \in Clients : activeLoggers[c] # None}' =
          {c \in Clients : activeLoggers[c] # None} \cup {caller}
    BY <2>1 DEF TypeOK
  <2>3. PICK p \in Paths : p = <<caller, tm>>
    BY <2>1
  <2>4. Service!Start(p)
    BY <1>2, <2>1, <2>2, <2>3 DEF Service!Start, Service!linesVars
  <2>. QED  BY <2>4 DEF Service!Next
<1>7. CASE Call /\ (DownloadNotFound \/ DownloadRead)
  <2>1. /\ caller \in Clients
        /\ LastLogFilePath(caller) = lastLogFilePathMap[caller]
    BY <1>7 DEF DownloadNotFound, DownloadRead, LastLogFilePath, LoggersInv, ActiveInv, TypeOK
  <2>2. reply = "none" /\ (DownloadRead => LastLogFilePath(caller) \in created)
    BY <1>7 DEF DownloadNotFound, DownloadRead, LoggersInv, DownloadInv
  <2>3. Service!Download
    BY <1>2, <1>7, <2>1, <2>2
    DEF DownloadNotFound, DownloadRead, Service!Download, Service!linesVars
  <2>. QED  BY <2>3 DEF Service!Next
<1>8. (\E c \in Clients : Service!Ask(c)) => Service!Next
  BY DEF Service!Next
<1>. QED  BY <1>3, <1>4, <1>5, <1>6, <1>7, <1>8 DEF Call

LEMMA ThreadRefines ==
  ASSUME TypeOK, LoggersInv, UnsavedIsBuffer, UnsavedIsBuffer', NEW d \in LogDatas, Thread(d)
  PROVE  [Service!Next]_(Service!lvars)
<1>. USE DEF ThreadAt
<1>1. PICK c \in Clients : activeLoggers[c] = d
  BY DEF LoggersInv, NoOrphanLogger, Running, Thread, OpenLog, OpenLogFails, CheckTerminate, Wake,
         LogLocalTime, LogRow, DropLogger, CloseFile
<1>2. PICK p \in Paths :
        /\ p = filePath[d]
        /\ lastLogFilePathMap[c] = p
        /\ c \in {k \in Clients : activeLoggers[k] # None}
  BY <1>1, NoneAssumption DEF LoggersInv, ActiveInv, TypeOK
<1>3. UNCHANGED <<activeLoggers, lastLogFilePathMap, caller, reply, filePath>>
  BY DEF Thread, mapVars, callVars, objectVars
<1>4. PICK next \in ThreadPcs : threadPc' = [threadPc EXCEPT ![d] = next]
  BY DEF Thread, OpenLog, OpenLogFails, CheckTerminate, Wake, LogLocalTime, LogRow, DropLogger,
         CloseFile, ThreadPcs
<1>5. \A e \in LogDatas \ {d} : ~Writes(e, p)
  <2>1. Running(d)
    BY DEF Running, Thread, OpenLog, OpenLogFails, CheckTerminate, Wake, LogLocalTime, LogRow,
           DropLogger, CloseFile
  <2>. QED  BY <1>2, <2>1, PathsDiffer DEF Writes, FileOpen, Running
<1>6. \A e \in LogDatas \ {d} :
        buffer'[e] = buffer[e] /\ \A q \in Paths : Writes(e, q)' <=> Writes(e, q)
  BY <1>3, <1>4 DEF Thread, OpenLog, OpenLogFails, CheckTerminate, Wake, LogLocalTime, LogRow,
     DropLogger, CloseFile, Write, Writes, FileOpen, TypeOK, fileVars
<1>7. \A q \in Paths \ {p} : Unsaved(q)' = Unsaved(q)
  <2>. SUFFICES ASSUME NEW q \in Paths \ {p}
                PROVE  Unsaved(q)' = Unsaved(q)
    OBVIOUS
  <2>1. ~Writes(d, q) /\ ~Writes(d, q)'
    BY <1>2, <1>3 DEF Writes
  <2>. QED  BY <1>6, <2>1, UnsavedSame
<1>8. Unsaved(p) = IF FileOpen(d) THEN buffer[d] ELSE <<>>
  BY <1>2, <1>5 DEF UnsavedIsBuffer, Writes
<1>9. Unsaved(p)' = IF FileOpen(d)' THEN buffer'[d] ELSE <<>>
  BY <1>2, <1>3, <1>5, <1>6 DEF UnsavedIsBuffer, Writes
<1>10. ASSUME NEW line \in Lines, Write(d, line), created' = created \cup {p}, FileOpen(d)',
              Unsaved(p) = buffer[d]
       PROVE  Service!Log(c, line)
  <2>1. CASE Len(buffer[d]) < BufRows
    <3>1. disk' = disk /\ Unsaved(p)' = Append(Unsaved(p), line)
      BY <1>2, <1>9, <1>10, <2>1 DEF Write, TypeOK
    <3>2. \A q \in Paths : Unsaved(q)' = IF q = p THEN Append(Unsaved(p), line) ELSE Unsaved(q)
      BY <1>2, <1>7, <3>1
    <3>. QED  BY <1>2, <1>3, <1>10, <3>1, <3>2 DEF Service!Log
  <2>2. CASE ~(Len(buffer[d]) < BufRows)
    <3>1. /\ disk' = [disk EXCEPT ![p] = @ \o Unsaved(p)]
          /\ Unsaved(p)' = <<line>>
      BY <1>2, <1>9, <1>10, <2>2 DEF Write, TypeOK
    <3>2. \A q \in Paths : Unsaved(q)' = IF q = p THEN <<line>> ELSE Unsaved(q)
      BY <1>2, <1>7, <3>1
    <3>. QED  BY <1>2, <1>3, <1>10, <3>1, <3>2 DEF Service!Log
  <2>. QED  BY <2>1, <2>2
<1>11. CASE OpenLog(d)
  <2>1. buffer[d] = <<>> /\ FileOpen(d)' /\ ~FileOpen(d)
    BY <1>11 DEF OpenLog, FileOpen, LoggersInv, FilesInv, TypeOK
  <2>2. Service!Log(c, Header)
    BY <1>2, <1>8, <1>10, <1>11, <2>1 DEF OpenLog, Lines
  <2>. QED  BY <1>2, <2>2 DEF Service!Next, Lines
<1>12. CASE LogRow(d)
  <2>1. FileOpen(d)' /\ FileOpen(d) /\ tm \in Lines
    BY <1>12 DEF LogRow, FileOpen, TypeOK, Lines
  <2>2. created' = created \cup {p}
    BY <1>2, <1>12, <2>1 DEF LogRow, LoggersInv, FilesInv
  <2>3. PICK line \in Lines : line = tm
    BY <2>1
  <2>4. Service!Log(c, line)
    BY <1>8, <1>10, <1>12, <2>1, <2>2, <2>3 DEF LogRow
  <2>. QED  BY <1>2, <2>4 DEF Service!Next
<1>13. CASE CloseFile(d)
  <2>1. /\ disk' = [disk EXCEPT ![p] = @ \o Unsaved(p)]
        /\ Unsaved(p)' = <<>>
        /\ created' = created
    BY <1>2, <1>8, <1>9, <1>13 DEF CloseFile, FileOpen, TypeOK
  <2>2. \A q \in Paths : Unsaved(q)' = IF q = p THEN <<>> ELSE Unsaved(q)
    BY <1>2, <1>7, <2>1
  <2>3. Service!Save(c)
    BY <1>2, <1>3, <2>1, <2>2 DEF Service!Save
  <2>. QED  BY <1>2, <2>3 DEF Service!Next
<1>14. CASE OpenLogFails(d) \/ CheckTerminate(d) \/ Wake(d) \/ LogLocalTime(d) \/ DropLogger(d)
  <2>1. (FileOpen(d)' <=> FileOpen(d)) /\ UNCHANGED <<buffer, disk>>
    BY <1>14 DEF OpenLogFails, CheckTerminate, Wake, LogLocalTime, DropLogger, FileOpen, TypeOK,
                 fileVars
  <2>2. Unsaved(p)' = Unsaved(p)
    BY <1>8, <1>9, <2>1
  <2>3. created' = created
    <3>1. threadPc[d] = "open" => p \notin registry
      BY <1>5 DEF LoggersInv, FilesInv, Registered, Writes, FileOpen
    <3>. QED  BY <1>2, <1>14, <3>1
              DEF OpenLogFails, CheckTerminate, Wake, LogLocalTime, DropLogger, fileVars
  <2>. QED  BY <1>3, <1>7, <2>1, <2>2, <2>3 DEF Service!lvars
<1>. QED  BY <1>11, <1>12, <1>13, <1>14 DEF Thread

(* Threads, joins, buffers and maps implement LogService, for any number of *)
(* clients, sessions and crashes.                                           *)
THEOREM Refinement == Spec => ImplementsLogService
<1>1. TypeOK /\ LoggersInv => UnsavedIsBuffer
  BY UnsavedCorrect
<1>2. Init /\ UnsavedIsBuffer => Service!Init
  <2>. SUFFICES ASSUME Init, UnsavedIsBuffer
                PROVE  Service!Init
    OBVIOUS
  <2>1. \A p \in Paths : Unsaved(p) = <<>>
    BY DEF Init, UnsavedIsBuffer, Writes, FileOpen
  <2>. QED  BY <2>1 DEF Init, Service!Init
<1>3. /\ TypeOK /\ LoggersInv /\ UnsavedIsBuffer /\ UnsavedIsBuffer'
      /\ [Next]_vars
      => [Service!Next]_(Service!lvars)
  <2>. SUFFICES ASSUME TypeOK, LoggersInv, UnsavedIsBuffer, UnsavedIsBuffer', [Next]_vars
                PROVE  [Service!Next]_(Service!lvars)
    OBVIOUS
  <2>1. CASE Tick \/ UNCHANGED vars
    <3>1. UNCHANGED <<mapVars, callVars, objectVars, threadPc, fileVars>>
      BY <2>1 DEF Tick, vars
    <3>2. \A p \in Paths : Unsaved(p)' = Unsaved(p)
      BY <3>1, UnsavedSame DEF Writes, FileOpen, objectVars, fileVars
    <3>. QED  BY <3>1, <3>2 DEF Service!lvars, mapVars, callVars, fileVars
  <2>2. CASE Crash
    <3>1. \A p \in Paths : Unsaved(p)' = <<>>
      BY <2>2 DEF Crash, UnsavedIsBuffer, Writes, FileOpen
    <3>2. Service!Crash
      BY <2>2, <3>1 DEF Crash, Service!Crash
    <3>. QED  BY <3>2 DEF Service!Next
  <2>. QED  BY <2>1, <2>2, CallRefines, ThreadRefines DEF Next
<1>. QED  BY <1>1, <1>2, <1>3, TypeCorrect, LoggersInvariant, PTL
          DEF Spec, ImplementsLogService, Service!Spec
-----------------------------------------------------------------------------
(***************************************************************************)
(* The contents of the files.  A file that is not in disturbed has its own *)
(* stamp, and its rows bear the times they were logged at.                 *)
(***************************************************************************)

\* The headers first, then rows later than the stamp, up to the limit, in order.
Ordered(lines, stamp, limit) ==
  \A i \in 1 .. Len(lines) : lines[i] # Header =>
    /\ lines[i] > stamp /\ lines[i] <= limit
    /\ \A j \in i + 1 .. Len(lines) : lines[j] # Header /\ lines[j] > lines[i]

LEMMA RowAppended ==
  ASSUME NEW lines \in Seq(Lines), NEW stamp \in Times, NEW limit \in Int, NEW row \in Times,
         Ordered(lines, stamp, limit), limit < row, stamp < row
  PROVE  Ordered(Append(lines, row), stamp, row)
<1>. DEFINE new == Append(lines, row)
<1>1. /\ Len(new) = Len(lines) + 1 /\ Len(lines) \in Nat
      /\ new[Len(new)] = row /\ row # Header
      /\ \A i \in 1 .. Len(lines) : new[i] = lines[i] /\ new[i] \in Lines
  BY HeaderAssumption DEF Times
<1>2. \A i \in 1 .. Len(lines) : new[i] # Header => new[i] \in Times
  BY <1>1 DEF Lines
<1>. HIDE DEF new
<1>3. ASSUME NEW i \in 1 .. Len(new), new[i] # Header
      PROVE  /\ new[i] > stamp /\ new[i] <= row
             /\ \A j \in i + 1 .. Len(new) : new[j] # Header /\ new[j] > new[i]
  <2>1. CASE i = Len(new)
    BY <1>1, <2>1 DEF Times
  <2>2. CASE i \in 1 .. Len(lines)
    <3>1. /\ new[i] > stamp /\ new[i] <= limit
          /\ \A j \in i + 1 .. Len(lines) : new[j] # Header /\ new[j] > new[i]
      BY <1>1, <1>3, <2>2 DEF Ordered
    <3>2. new[i] < row /\ new[i] \in Int
      BY <1>2, <1>3, <2>2, <3>1 DEF Times
    <3>. QED  BY <1>1, <3>1, <3>2 DEF Times
  <2>. QED  BY <1>1, <2>1, <2>2
<1>. QED  BY <1>3 DEF Ordered, new

\* A file whose limit is its stamp has no row.
LEMMA HeaderAppended ==
  ASSUME NEW lines \in Seq(Lines), NEW stamp \in Times, Ordered(lines, stamp, stamp)
  PROVE  Ordered(Append(lines, Header), stamp, stamp)
<1>1. \A i \in 1 .. Len(lines) : lines[i] = Header
  <2>. SUFFICES ASSUME NEW i \in 1 .. Len(lines), lines[i] # Header
                PROVE  FALSE
    OBVIOUS
  <2>1. lines[i] \in Times /\ lines[i] > stamp /\ lines[i] <= stamp
    BY DEF Ordered, Lines
  <2>. QED  BY <2>1 DEF Times
<1>2. \A i \in 1 .. Len(Append(lines, Header)) : Append(lines, Header)[i] = Header
  BY <1>1 DEF Lines
<1>. QED  BY <1>2 DEF Ordered

LEMMA PrefixOrdered ==
  ASSUME NEW lines \in Seq(Lines), NEW tail \in Seq(Lines), NEW stamp, NEW limit,
         Ordered(lines \o tail, stamp, limit)
  PROVE  Ordered(lines, stamp, limit)
<1>1. /\ Len(lines) <= Len(lines \o tail)
      /\ \A i \in 1 .. Len(lines) : (lines \o tail)[i] = lines[i]
  OBVIOUS
<1>. QED  BY <1>1 DEF Ordered

LEMMA LimitGrows ==
  ASSUME NEW lines \in Seq(Lines), NEW stamp, NEW limit \in Int, NEW later \in Int,
         limit <= later, Ordered(lines, stamp, limit)
  PROVE  Ordered(lines, stamp, later)
<1>1. \A i \in 1 .. Len(lines) : lines[i] # Header => lines[i] \in Times
  BY DEF Lines
<1>. QED  BY <1>1 DEF Ordered, Times

\* What the file p contains, rows up to the limit, unless it was disturbed.
FileOrdered(p, limit) == p \in disturbed \/ Ordered(Contents(p), p[2], limit)

\* A call that has read the clock has a path without a row.
CallOrderInv ==
  /\ callClock <= now
  /\ callPc \in {"localtime", "spawn"} => FileOrdered(<<caller, callClock>>, callClock)

\* A thread samples a time later than its last row.
SamplesInv(d, p) ==
  /\ Running(d) => p[2] <= now
  /\ threadPc[d] = "open" => FileOrdered(p, p[2])
  /\ threadPc[d] = "sleep" => FileOrdered(p, clock[d]) /\ p[2] <= clock[d] /\ clock[d] <= now
  /\ threadPc[d] \in {"localtime", "log"} =>
       FileOrdered(p, clock[d] - 1) /\ p[2] < clock[d] /\ clock[d] <= now

ThreadOrder(d) == \A p \in Paths \ disturbed : filePath[d] = p => SamplesInv(d, p)

OrderInv ==
  /\ \A p \in Paths : FileOrdered(p, now)
  /\ CallOrderInv
  /\ \A d \in LogDatas : ThreadOrder(d)

LEMMA ConcatAppend ==
  ASSUME NEW lines \in Seq(Lines), NEW tail \in Seq(Lines), NEW line \in Lines
  PROVE  lines \o Append(tail, line) = Append(lines \o tail, line)
OBVIOUS

LEMMA ConcatOne ==
  ASSUME NEW lines \in Seq(Lines), NEW line \in Lines
  PROVE  lines \o <<line>> = Append(lines, line)
OBVIOUS

LEMMA ConcatEmpty ==
  ASSUME NEW lines \in Seq(Lines)
  PROVE  lines \o <<>> = lines /\ <<>> \o lines = lines
OBVIOUS

LEMMA ContentsType ==
  ASSUME TypeOK, UnsavedIsBuffer, NEW p \in Paths
  PROVE  Unsaved(p) \in Seq(Lines) /\ Contents(p) \in Seq(Lines)
<1>1. Unsaved(p) = <<>> \/ \E d \in LogDatas : Unsaved(p) = buffer[d]
  BY DEF UnsavedIsBuffer
<1>2. <<>> \in Seq(Lines) /\ disk[p] \in Seq(Lines) /\ \A d \in LogDatas : buffer[d] \in Seq(Lines)
  BY DEF TypeOK
<1>3. Unsaved(p) \in Seq(Lines)
  BY <1>1, <1>2
<1>. QED  BY <1>2, <1>3 DEF Contents

\* A thread changes the contents of its file only, by the line it writes.
LEMMA ThreadContents ==
  ASSUME TypeOK, LoggersInv, UnsavedIsBuffer, UnsavedIsBuffer', NEW d \in LogDatas, Thread(d),
         NEW p \in Paths, filePath[d] = p
  PROVE  /\ \A q \in Paths \ {p} : Contents(q)' = Contents(q)
         /\ OpenLog(d) => Contents(p)' = Append(Contents(p), Header)
         /\ LogRow(d) => Contents(p)' = Append(Contents(p), tm)
         /\ ~OpenLog(d) /\ ~LogRow(d) => Contents(p)' = Contents(p)
<1>. USE DEF ThreadAt
<1>1. UNCHANGED filePath /\ disk[p] \in Seq(Lines) /\ buffer[d] \in Seq(Lines)
  BY DEF Thread, OpenLog, OpenLogFails, CheckTerminate, Wake, LogLocalTime, LogRow, DropLogger,
         CloseFile, objectVars, TypeOK
<1>2. Running(d) /\ \A e \in LogDatas \ {d} : ~Writes(e, p)
  <2>1. Running(d)
    BY DEF Running, Thread, OpenLog, OpenLogFails, CheckTerminate, Wake, LogLocalTime, LogRow,
           DropLogger, CloseFile
  <2>. QED  BY <2>1, PathsDiffer DEF Writes, FileOpen, Running
<1>3. \A e \in LogDatas \ {d} :
        buffer'[e] = buffer[e] /\ \A q \in Paths : Writes(e, q)' <=> Writes(e, q)
  <2>1. PICK next \in ThreadPcs : threadPc' = [threadPc EXCEPT ![d] = next]
    BY DEF Thread, OpenLog, OpenLogFails, CheckTerminate, Wake, LogLocalTime, LogRow, DropLogger,
           CloseFile, ThreadPcs
  <2>2. \A e \in LogDatas \ {d} : buffer'[e] = buffer[e]
    BY DEF Thread, OpenLog, OpenLogFails, CheckTerminate, Wake, LogLocalTime, LogRow, DropLogger,
           CloseFile, Write, fileVars, TypeOK
  <2>. QED  BY <1>1, <2>1, <2>2 DEF Writes, FileOpen, TypeOK
<1>4. \A q \in Paths \ {p} : Contents(q)' = Contents(q)
  <2>. SUFFICES ASSUME NEW q \in Paths \ {p}
                PROVE  Contents(q)' = Contents(q)
    OBVIOUS
  <2>1. ~Writes(d, q) /\ ~Writes(d, q)'
    BY <1>1 DEF Writes
  <2>2. Unsaved(q)' = Unsaved(q)
    BY <1>3, <2>1, UnsavedSame
  <2>3. disk'[q] = disk[q]
    BY DEF Thread, OpenLog, OpenLogFails, CheckTerminate, Wake, LogLocalTime, LogRow, DropLogger,
           CloseFile, Write, fileVars, TypeOK
  <2>. QED  BY <2>2, <2>3 DEF Contents
<1>5. /\ Unsaved(p) = IF FileOpen(d) THEN buffer[d] ELSE <<>>
      /\ Unsaved(p)' = IF FileOpen(d)' THEN buffer'[d] ELSE <<>>
  BY <1>1, <1>2, <1>3 DEF UnsavedIsBuffer, Writes
<1>6. ASSUME NEW line \in Lines, Write(d, line), Unsaved(p) = buffer[d], FileOpen(d)'
      PROVE  Contents(p)' = Append(Contents(p), line)
  <2>1. Contents(p) = disk[p] \o buffer[d] /\ Contents(p)' = disk'[p] \o buffer'[d]
    BY <1>5, <1>6 DEF Contents
  <2>2. CASE Len(buffer[d]) < BufRows
    <3>1. disk'[p] = disk[p] /\ buffer'[d] = Append(buffer[d], line)
      BY <1>6, <2>2 DEF Write, TypeOK
    <3>. QED  BY <1>1, <1>6, <2>1, <3>1, ConcatAppend
  <2>3. CASE ~(Len(buffer[d]) < BufRows)
    <3>1. disk'[p] = disk[p] \o buffer[d] /\ buffer'[d] = <<line>>
      BY <1>1, <1>6, <2>3 DEF Write, TypeOK
    <3>2. disk[p] \o buffer[d] \in Seq(Lines)
      BY <1>1
    <3>. QED  BY <1>6, <2>1, <3>1, <3>2, ConcatOne
  <2>. QED  BY <2>2, <2>3
<1>7. CASE OpenLog(d)
  <2>1. buffer[d] = <<>> /\ FileOpen(d)' /\ ~FileOpen(d) /\ Write(d, Header) /\ ~LogRow(d)
    BY <1>7 DEF OpenLog, LogRow, FileOpen, LoggersInv, FilesInv, TypeOK
  <2>2. Contents(p)' = Append(Contents(p), Header)
    BY <1>5, <1>6, <2>1 DEF Lines
  <2>. QED  BY <1>4, <1>7, <2>1, <2>2
<1>8. CASE LogRow(d)
  <2>1. FileOpen(d)' /\ FileOpen(d) /\ Write(d, tm) /\ tm \in Lines /\ ~OpenLog(d)
    BY <1>8 DEF OpenLog, LogRow, FileOpen, TypeOK, Lines
  <2>2. Contents(p)' = Append(Contents(p), tm)
    BY <1>5, <1>6, <2>1
  <2>. QED  BY <1>4, <1>8, <2>1, <2>2
<1>9. CASE CloseFile(d)
  <2>1. /\ disk'[p] = disk[p] \o buffer[d]
        /\ FileOpen(d) /\ ~FileOpen(d)'
        /\ ~OpenLog(d) /\ ~LogRow(d)
    BY <1>1, <1>9 DEF CloseFile, OpenLog, LogRow, FileOpen, TypeOK
  <2>2. disk[p] \o buffer[d] \in Seq(Lines)
    BY <1>1
  <2>3. Contents(p)' = Contents(p)
    BY <1>5, <2>1, <2>2, ConcatEmpty DEF Contents
  <2>. QED  BY <1>4, <2>1, <2>3
<1>10. CASE OpenLogFails(d) \/ CheckTerminate(d) \/ Wake(d) \/ LogLocalTime(d) \/ DropLogger(d)
  <2>1. /\ (FileOpen(d)' <=> FileOpen(d)) /\ UNCHANGED <<buffer, disk>>
        /\ ~OpenLog(d) /\ ~LogRow(d)
    <3>1. (FileOpen(d)' <=> FileOpen(d)) /\ UNCHANGED <<buffer, disk>>
      BY <1>10 DEF OpenLogFails, CheckTerminate, Wake, LogLocalTime, DropLogger, FileOpen, TypeOK,
                   fileVars
    <3>2. ~OpenLog(d)
      BY <1>10, <3>1 DEF OpenLog, OpenLogFails, CheckTerminate, Wake, LogLocalTime, DropLogger,
                         FileOpen, TypeOK
    <3>3. ~LogRow(d)
      BY <1>10 DEF LogRow, OpenLogFails, CheckTerminate, Wake, LogLocalTime, DropLogger
    <3>. QED  BY <3>1, <3>2, <3>3
  <2>2. Contents(p)' = Contents(p)
    BY <1>5, <2>1 DEF Contents
  <2>. QED  BY <1>4, <2>1, <2>2
<1>. QED  BY <1>7, <1>8, <1>9, <1>10 DEF Thread

\* The files a start is under way for have no thread.
LEMMA CallerHasNoThread ==
  ASSUME TypeOK, LoggersInv, NEW d \in LogDatas, Running(d), NEW p \in Paths, filePath[d] = p,
         callPc \in {"clock", "localtime", "spawn"}
  PROVE  p[1] # caller
<1>1. PICK c \in Clients : activeLoggers[c] = d
  BY DEF LoggersInv, NoOrphanLogger
<1>2. activeLoggers[caller] = None /\ activeLoggers[c] # None
  BY <1>1, NoneAssumption DEF LoggersInv, CallInv
<1>3. p[1] = c
  BY <1>1, <1>2 DEF LoggersInv, ActiveInv
<1>. QED  BY <1>2, <1>3

LEMMA ThreadOrdered ==
  ASSUME TypeOK, LoggersInv, UnsavedIsBuffer, UnsavedIsBuffer', OrderInv, NEW d \in LogDatas,
         Thread(d)
  PROVE  OrderInv'
<1>. USE DEF ThreadAt
<1>1. Running(d) /\ UNCHANGED <<now, callPc, caller, callClock, filePath>>
  BY DEF Running, Thread, OpenLog, OpenLogFails, CheckTerminate, Wake, LogLocalTime, LogRow,
         DropLogger, CloseFile, callVars, objectVars
<1>2. PICK p \in Paths : filePath[d] = p
  BY <1>1 DEF Running, TypeOK
<1>3. /\ p[2] \in Times /\ now \in Times /\ clock[d] \in Times /\ tm \in Times
      /\ p[2] \in Int /\ now \in Int /\ clock[d] \in Int
  <2>1. p[2] \in Times /\ now \in Times /\ clock[d] \in Times /\ tm \in Times
    BY DEF Paths, TypeOK
  <2>. QED  BY <2>1 DEF Times
<1>. Contents(p) \in Seq(Lines)
  BY ContentsType
<1>4. \A q \in Paths \ {p} : Contents(q)' = Contents(q)
  BY <1>2, ThreadContents
<1>5. disturbed \subseteq disturbed' /\ disturbed' \subseteq disturbed \cup {p}
  BY <1>2 DEF Thread, OpenLog, OpenLogFails, CheckTerminate, Wake, LogLocalTime, LogRow,
              DropLogger, CloseFile, Formats
<1>6. CallOrderInv'
  <2>. SUFFICES ASSUME callPc \in {"localtime", "spawn"}
                PROVE  FileOrdered(<<caller, callClock>>, callClock)'
    BY <1>1 DEF OrderInv, CallOrderInv
  <2>1. PICK q \in Paths : q = <<caller, callClock>>
    BY DEF TypeOK, Paths
  <2>2. q # p
    BY <1>1, <1>2, <2>1, CallerHasNoThread
  <2>. QED  BY <1>1, <1>4, <1>5, <2>1, <2>2 DEF OrderInv, CallOrderInv, FileOrdered
<1>7. ASSUME NEW e \in LogDatas \ {d}
      PROVE  ThreadOrder(e)'
  <2>. SUFFICES ASSUME NEW q \in Paths \ disturbed', filePath[e] = q
                PROVE  SamplesInv(e, q)'
    BY <1>1 DEF ThreadOrder
  <2>1. threadPc'[e] = threadPc[e] /\ clock'[e] = clock[e]
    BY DEF Thread, OpenLog, OpenLogFails, CheckTerminate, Wake, LogLocalTime, LogRow, DropLogger,
           CloseFile, TypeOK
  <2>2. SamplesInv(e, q) /\ q \in Paths
    BY <1>5 DEF OrderInv, ThreadOrder
  <2>3. CASE Running(e)
    <3>1. q # p
      BY <1>1, <1>2, <2>3, PathsDiffer
    <3>. QED  BY <1>1, <1>4, <1>5, <2>1, <2>2, <3>1 DEF SamplesInv, FileOrdered, Running
  <2>4. CASE ~Running(e)
    BY <2>1, <2>4 DEF SamplesInv, Running
  <2>. QED  BY <2>3, <2>4
<1>8. \A q \in Paths \ {p} : FileOrdered(q, now)'
  BY <1>1, <1>4, <1>5 DEF OrderInv, FileOrdered
<1>9. SUFFICES ASSUME p \notin disturbed'
               PROVE  Ordered(Contents(p)', p[2], now) /\ SamplesInv(d, p)'
  BY <1>1, <1>2, <1>6, <1>7, <1>8 DEF OrderInv, FileOrdered, ThreadOrder
<1>10. SamplesInv(d, p) /\ Ordered(Contents(p), p[2], now) /\ p \notin disturbed /\ p[2] <= now
  BY <1>1, <1>2, <1>5, <1>9 DEF OrderInv, FileOrdered, ThreadOrder, SamplesInv
<1>11. CASE OpenLog(d)
  <2>1. /\ Contents(p)' = Append(Contents(p), Header)
        /\ Ordered(Contents(p), p[2], p[2]) /\ threadPc'[d] = "check"
    BY <1>2, <1>10, <1>11, ThreadContents DEF OpenLog, SamplesInv, FileOrdered, TypeOK
  <2>2. Append(Contents(p), Header) \in Seq(Lines)
    BY <1>3 DEF Lines
  <2>3. Ordered(Append(Contents(p), Header), p[2], p[2])
    BY <1>3, <2>1, HeaderAppended
  <2>4. Ordered(Append(Contents(p), Header), p[2], now)
    BY <1>3, <1>10, <2>2, <2>3, LimitGrows
  <2>. QED  BY <1>1, <1>10, <2>1, <2>4 DEF SamplesInv
<1>12. CASE LogRow(d)
  <2>0. tm = clock[d]
    BY <1>2, <1>9, <1>12 DEF LogRow, Formats
  <2>1. /\ Contents(p)' = Append(Contents(p), clock[d])
        /\ Ordered(Contents(p), p[2], clock[d] - 1)
        /\ p[2] < clock[d] /\ clock[d] <= now /\ threadPc'[d] = "check"
    BY <1>2, <1>10, <1>12, <2>0, ThreadContents DEF LogRow, SamplesInv, FileOrdered, TypeOK
  <2>2. Append(Contents(p), clock[d]) \in Seq(Lines)
    BY <1>3 DEF Lines
  <2>3. Ordered(Append(Contents(p), clock[d]), p[2], clock[d])
    <3>1. clock[d] - 1 \in Int /\ clock[d] - 1 < clock[d]
      BY <1>3
    <3>. QED  BY <1>3, <2>1, <3>1, RowAppended
  <2>4. Ordered(Append(Contents(p), clock[d]), p[2], now)
    BY <1>3, <2>1, <2>2, <2>3, LimitGrows
  <2>. QED  BY <1>1, <1>10, <2>1, <2>4 DEF SamplesInv
<1>13. ASSUME ~OpenLog(d), ~LogRow(d)
       PROVE  Ordered(Contents(p)', p[2], now) /\ SamplesInv(d, p)'
  <2>1. Contents(p)' = Contents(p)
    BY <1>2, <1>13, ThreadContents
  <2>2. CASE CheckTerminate(d)
    <3>1. \/ threadPc'[d] = "drop"
          \/ threadPc'[d] = "sleep" /\ clock'[d] = now
      BY <2>2 DEF CheckTerminate, TypeOK
    <3>. QED  BY <1>1, <1>3, <1>10, <2>1, <3>1 DEF FileOrdered, SamplesInv
  <2>3. CASE Wake(d)
    <3>1. /\ threadPc'[d] = "localtime" /\ clock'[d] = now /\ clock[d] < now
          /\ Ordered(Contents(p), p[2], clock[d]) /\ p[2] <= clock[d]
      BY <1>3, <1>10, <2>3 DEF Wake, TypeOK, SamplesInv, FileOrdered
    <3>2. Ordered(Contents(p), p[2], now - 1)
      BY <1>3, <3>1, LimitGrows
    <3>. QED  BY <1>1, <1>3, <1>10, <2>1, <3>1, <3>2 DEF FileOrdered, SamplesInv
  <2>4. CASE LogLocalTime(d)
    <3>1. threadPc[d] = "localtime" /\ threadPc'[d] = "log" /\ clock' = clock
      BY <2>4 DEF LogLocalTime, TypeOK
    <3>. QED  BY <1>1, <1>3, <1>9, <1>10, <2>1, <3>1 DEF FileOrdered, SamplesInv
  <2>5. CASE OpenLogFails(d) \/ DropLogger(d) \/ CloseFile(d)
    <3>1. threadPc'[d] \in {"done", "close"}
      BY <2>5 DEF OpenLogFails, DropLogger, CloseFile, TypeOK
    <3>. QED  BY <1>1, <1>10, <2>1, <3>1 DEF SamplesInv
  <2>. QED  BY <1>13, <2>2, <2>3, <2>4, <2>5 DEF Thread
<1>. QED  BY <1>1, <1>11, <1>12, <1>13

LEMMA CallOrdered ==
  ASSUME TypeOK, LoggersInv, UnsavedIsBuffer, UnsavedIsBuffer', OrderInv,
         Call \/ \E c \in Clients : Ask(c)
  PROVE  OrderInv'
<1>. USE DEF callVars, mapVars, objectVars, fileVars, CallAt
<1>1. UNCHANGED <<now, clock>> /\ \A p \in Paths : Contents(p)' = Contents(p)
  BY CallUnsaved DEF Call, Ask, Contents
<1>2. disturbed \subseteq disturbed'
  BY DEF Call, Ask, StartJoin, StopJoin, Join, ReadClock, LocalTime, SpawnLogger, Formats,
         DownloadNotFound, DownloadExists, DownloadRead
<1>3. \A p \in Paths : FileOrdered(p, now)'
  BY <1>1, <1>2 DEF OrderInv, FileOrdered
<1>4. now \in Times /\ callClock \in Times /\ (callPc # "idle" => caller \in Clients)
  BY DEF TypeOK
<1>5. ASSUME NEW d \in LogDatas, threadPc'[d] = threadPc[d], filePath'[d] = filePath[d]
      PROVE  ThreadOrder(d)'
  BY <1>1, <1>2, <1>5 DEF OrderInv, ThreadOrder, SamplesInv, FileOrdered, Running
<1>6. ASSUME UNCHANGED <<threadPc, filePath, callClock>>, callPc' \notin {"localtime", "spawn"}
      PROVE  OrderInv'
  BY <1>1, <1>3, <1>5, <1>6 DEF OrderInv, CallOrderInv
<1>7. ASSUME NEW c \in Clients, Ask(c)
      PROVE  OrderInv'
  BY <1>6, <1>7 DEF Ask, StartLogging, StopLogging, Download
<1>8. CASE StartJoin \/ StopJoin \/ DownloadNotFound \/ DownloadExists \/ DownloadRead
  BY <1>6, <1>8 DEF StartJoin, StopJoin, Join, DownloadNotFound, DownloadExists, DownloadRead
<1>9. CASE ReadClock
  <2>1. /\ callClock' = now /\ caller' = caller /\ callPc' = "localtime"
        /\ UNCHANGED <<threadPc, filePath>> /\ callPc # "idle"
    BY <1>9 DEF ReadClock
  <2>2. PICK p \in Paths : p = <<caller, now>>
    BY <1>4, <2>1 DEF Paths
  <2>3. FileOrdered(p, now)'
    BY <1>3
  <2>4. CallOrderInv'
    BY <1>1, <1>4, <2>1, <2>2, <2>3 DEF CallOrderInv, FileOrdered, Times
  <2>. QED  BY <1>3, <1>5, <2>1, <2>4 DEF OrderInv
<1>10. CASE LocalTime
  <2>1. /\ callPc = "localtime" /\ callPc' = "spawn"
        /\ UNCHANGED <<caller, callClock, threadPc, filePath>>
    BY <1>10 DEF LocalTime
  <2>2. PICK p \in Paths : p = <<caller, callClock>>
    BY <1>4, <2>1 DEF Paths
  <2>3. CallOrderInv'
    BY <1>1, <1>2, <2>1, <2>2 DEF OrderInv, CallOrderInv, FileOrdered
  <2>. QED  BY <1>3, <1>5, <2>1, <2>3 DEF OrderInv
<1>11. ASSUME NEW d \in LogDatas, SpawnLogger(d)
       PROVE  OrderInv'
  <2>1. /\ callPc = "spawn" /\ callPc' = "idle" /\ callClock' = callClock
        /\ callClock <= now
        /\ filePath' = [filePath EXCEPT ![d] = <<caller, tm>>]
        /\ threadPc' = [threadPc EXCEPT ![d] = "open"]
        /\ disturbed' = IF tm = callClock THEN disturbed ELSE disturbed \cup {<<caller, tm>>}
    BY <1>11 DEF SpawnLogger, Formats, OrderInv, CallOrderInv
  <2>2. filePath'[d] = <<caller, tm>> /\ threadPc'[d] = "open"
    BY <2>1 DEF TypeOK
  <2>3. ThreadOrder(d)'
    <3>. SUFFICES ASSUME NEW p \in Paths \ disturbed', <<caller, tm>> = p
                  PROVE  SamplesInv(d, p)'
      BY <2>2 DEF ThreadOrder
    <3>1. tm = callClock /\ p[2] = callClock
      BY <2>1
    <3>2. FileOrdered(p, p[2])'
      BY <1>1, <1>2, <2>1, <3>1 DEF OrderInv, CallOrderInv, FileOrdered
    <3>. QED  BY <1>1, <2>1, <2>2, <3>1, <3>2 DEF SamplesInv
  <2>4. \A e \in LogDatas \ {d} : ThreadOrder(e)'
    BY <1>5, <2>1 DEF TypeOK
  <2>5. CallOrderInv'
    BY <1>1, <2>1 DEF CallOrderInv
  <2>. QED  BY <1>3, <2>3, <2>4, <2>5 DEF OrderInv
<1>. QED  BY <1>7, <1>8, <1>9, <1>10, <1>11 DEF Call

\* Time passes: only upper limits grow.
LEMMA TickOrdered ==
  ASSUME TypeOK, UnsavedIsBuffer, UnsavedIsBuffer', OrderInv, Tick \/ UNCHANGED vars
  PROVE  OrderInv'
<1>1. /\ now \in Int /\ now' \in Int /\ now <= now'
      /\ UNCHANGED <<tm, callVars, objectVars, threadPc, clock, fileVars, disturbed>>
  BY DEF Tick, vars, TypeOK, Times
<1>2. \A p \in Paths : Unsaved(p)' = Unsaved(p)
  BY <1>1, UnsavedSame DEF Writes, FileOpen, objectVars, fileVars
<1>3. \A p \in Paths : Contents(p) \in Seq(Lines) /\ Contents(p)' = Contents(p)
  BY <1>1, <1>2, ContentsType DEF Contents, fileVars
<1>4. \A p \in Paths : FileOrdered(p, now)'
  BY <1>1, <1>3, LimitGrows DEF OrderInv, FileOrdered
<1>5. CallOrderInv'
  <2>1. callPc \in {"localtime", "spawn"} => <<caller, callClock>> \in Paths
    BY DEF TypeOK, Paths
  <2>2. callClock \in Int /\ UNCHANGED <<callPc, caller, callClock, disturbed>>
    BY <1>1 DEF TypeOK, Times, callVars
  <2>3. callClock <= now'
    BY <1>1, <2>2 DEF OrderInv, CallOrderInv
  <2>4. ASSUME callPc \in {"localtime", "spawn"}
        PROVE  FileOrdered(<<caller, callClock>>, callClock)'
    <3>1. PICK p \in Paths : p = <<caller, callClock>>
      BY <2>1, <2>4
    <3>. QED  BY <1>3, <2>2, <2>4, <3>1 DEF OrderInv, CallOrderInv, FileOrdered
  <2>. QED  BY <2>2, <2>3, <2>4 DEF OrderInv, CallOrderInv
<1>6. ASSUME NEW d \in LogDatas, NEW p \in Paths \ disturbed, filePath[d] = p
      PROVE  SamplesInv(d, p)'
  <2>1. SamplesInv(d, p) /\ p[2] \in Int /\ clock[d] \in Int
    BY <1>6 DEF OrderInv, ThreadOrder, TypeOK, Paths, Times
  <2>2. UNCHANGED <<threadPc, clock, filePath, disturbed>> /\ Contents(p)' = Contents(p)
    BY <1>1, <1>3 DEF objectVars
  <2>. QED  BY <1>1, <2>1, <2>2 DEF SamplesInv, FileOrdered, Running
<1>7. \A d \in LogDatas : ThreadOrder(d)'
  BY <1>1, <1>6 DEF ThreadOrder, objectVars
<1>. QED  BY <1>4, <1>5, <1>7 DEF OrderInv

\* A crash leaves of each file what is on the disk.
LEMMA CrashOrdered ==
  ASSUME TypeOK, UnsavedIsBuffer, UnsavedIsBuffer', OrderInv, Crash
  PROVE  OrderInv'
<1>1. \A p \in Paths : FileOrdered(p, now)'
  <2>. SUFFICES ASSUME NEW p \in Paths
                PROVE  FileOrdered(p, now)'
    OBVIOUS
  <2>1. Unsaved(p)' = <<>> /\ UNCHANGED <<disk, now, disturbed>>
    BY DEF Crash, UnsavedIsBuffer, Writes, FileOpen
  <2>2. disk[p] \in Seq(Lines) /\ Unsaved(p) \in Seq(Lines)
    BY ContentsType DEF TypeOK
  <2>3. Contents(p)' = disk[p]
    BY <2>1, <2>2, ConcatEmpty DEF Contents
  <2>4. p \in disturbed \/ Ordered(disk[p], p[2], now)
    BY <2>2, PrefixOrdered DEF OrderInv, FileOrdered, Contents
  <2>. QED  BY <2>1, <2>3, <2>4 DEF FileOrdered
<1>2. CallOrderInv' /\ \A d \in LogDatas : ThreadOrder(d)'
  BY DEF Crash, CallOrderInv, ThreadOrder, SamplesInv, Running, TypeOK, Times
<1>. QED  BY <1>1, <1>2 DEF OrderInv

\* The two properties are what Ordered says of every file.
LEMMA OrderedFiles ==
  ASSUME TypeOK, UnsavedIsBuffer, \A p \in Paths : FileOrdered(p, now)
  PROVE  HeadersFirst /\ RowsIncrease
<1>. SUFFICES ASSUME NEW p \in Paths \ disturbed, NEW i \in 1 .. Len(Contents(p)),
                     Row(p, i)
              PROVE  /\ \A j \in i .. Len(Contents(p)) : Row(p, j)
                     /\ Contents(p)[i] > p[2]
                     /\ Row(p, i - 1) => Contents(p)[i] > Contents(p)[i - 1]
  BY DEF HeadersFirst, RowsIncrease
<1>1. Len(Contents(p)) \in Nat
  BY ContentsType
<1>2. \A k \in 1 .. Len(Contents(p)) : Contents(p)[k] # Header =>
        /\ Contents(p)[k] > p[2]
        /\ \A j \in k + 1 .. Len(Contents(p)) :
             Contents(p)[j] # Header /\ Contents(p)[j] > Contents(p)[k]
  BY DEF FileOrdered, Ordered
<1>. HIDE DEF Contents
<1>3. Contents(p)[i] > p[2]
  BY <1>2 DEF Row
<1>4. ASSUME NEW j \in i .. Len(Contents(p))
      PROVE  Row(p, j)
  <2>1. j = i \/ j \in i + 1 .. Len(Contents(p))
    BY <1>1
  <2>. QED  BY <1>1, <1>2, <2>1 DEF Row
<1>5. ASSUME Row(p, i - 1)
      PROVE  Contents(p)[i] > Contents(p)[i - 1]
  <2>1. i \in (i - 1) + 1 .. Len(Contents(p))
    BY <1>1
  <2>. QED  BY <1>2, <1>5, <2>1 DEF Row
<1>. QED  BY <1>3, <1>4, <1>5

\* The files nobody disturbed are in order, in every reachable state.
LEMMA OrderInvariant == Spec => [](TypeOK /\ UnsavedIsBuffer /\ OrderInv)
<1>1. Init /\ TypeOK /\ UnsavedIsBuffer => OrderInv
  <2>. SUFFICES ASSUME Init, TypeOK, UnsavedIsBuffer
                PROVE  OrderInv
    OBVIOUS
  <2>1. ASSUME NEW p \in Paths
        PROVE  Contents(p) = <<>>
    <3>1. Unsaved(p) = <<>> /\ disk[p] = <<>>
      BY DEF Init, UnsavedIsBuffer, Writes, FileOpen
    <3>. QED  BY <3>1 DEF Contents
  <2>2. \A p \in Paths : FileOrdered(p, now)
    BY <2>1 DEF FileOrdered, Ordered
  <2>3. CallOrderInv /\ \A d \in LogDatas : ThreadOrder(d)
    BY DEF Init, CallOrderInv, ThreadOrder, SamplesInv, Running
  <2>. QED  BY <2>2, <2>3 DEF OrderInv
<1>2. TypeOK /\ LoggersInv => UnsavedIsBuffer
  BY UnsavedCorrect
<1>3. /\ TypeOK /\ LoggersInv /\ UnsavedIsBuffer /\ UnsavedIsBuffer' /\ OrderInv /\ [Next]_vars
      => OrderInv'
  BY ThreadOrdered, CallOrdered, TickOrdered, CrashOrdered DEF Next
<1>. QED  BY <1>1, <1>2, <1>3, TypeCorrect, LoggersInvariant, PTL DEF Spec

(* The headers of a file come before its rows, for any number of clients: a *)
(* client reopens a file only within the second of its stamp, before any    *)
(* row.  Excepted are files with a stamp or a row of somebody else's time.  *)
THEOREM HeadersComeFirst == Spec => []HeadersFirst
<1>1. TypeOK /\ UnsavedIsBuffer /\ OrderInv => HeadersFirst
  BY OrderedFiles DEF OrderInv
<1>. QED  BY <1>1, OrderInvariant, PTL

(* Rows are out of order only in a file whose own stamp or row was          *)
(* formatted from another's time: no client or thread disturbs a file in    *)
(* any other way, however many log at once.                                 *)
THEOREM RowsAreInOrder == Spec => []RowsIncrease
<1>1. TypeOK /\ UnsavedIsBuffer /\ OrderInv => RowsIncrease
  BY OrderedFiles DEF OrderInv
<1>. QED  BY <1>1, OrderInvariant, PTL
=============================================================================
