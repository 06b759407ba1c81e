---------------------------- MODULE SensorGlobals ----------------------------
(***************************************************************************)
(* The global sensor variables of the backend                              *)
(* (GlobalVariables/GlobalDevicesData.cpp) and the threads that use them    *)
(* under the mutexes: the sonar and the GPS io threads that write them and *)
(* the CSV logger threads that read them.  DataDevices adds the HTTP       *)
(* thread, which takes no mutex.                                           *)
(*                                                                         *)
(* A value is abstracted to the reading it comes from: an accepted sonar   *)
(* frame, an accepted GPS sentence, or the initial value.  A store or a    *)
(* load of one machine word is one step.  gpsDateTime is a std::string: it *)
(* has no single-word store, so it is kept as two parts, stored one after  *)
(* the other.                                                              *)
(***************************************************************************)

CONSTANTS
  Frames,     \* the sonar frames that pass the checks of PingSonarDevice::run
  Fixes,      \* the GPS sentences parseGPSLine accepts
  Loggers,    \* the logger threads (one LogData::run each)
  NoReading,  \* what the globals are initialised with
  Free        \* "owner" of a mutex nobody holds

ASSUME ThreadAssumption ==
  /\ Loggers \cap {"sonar", "gps"} = {}
  /\ Free \notin Loggers \cup {"sonar", "gps"}

VARIABLES
  data,         \* data[f]: the reading the global f was last stored from
  sonar_mutex,  \* the thread holding sonar_mutex, or Free
  gps_mutex,    \* the thread holding gps_mutex, or Free
  sonarPc,      \* where the sonar io thread is in its read handler
  frame,        \* the frame that handler is publishing
  gpsPc,        \* where the GPS io thread is in parseGPSLine
  fix,          \* the sentence it is publishing
  loggerPc,     \* where each logger thread is in one turn of LogData::run
  taken,        \* taken[l]: lat, lon, dist and conf, the locals of run
  row           \* row[l]: the values of the row l logged last

sonarVars == <<sonarPc, frame>>
gpsVars == <<gpsPc, fix>>
loggerVars == <<loggerPc, taken, row>>
vars == <<data, sonar_mutex, gps_mutex, sonarVars, gpsVars, loggerVars>>

Fields == {"sonarDistance", "sonarConfidence", "gpsLatitude", "gpsLongitude",
           "gpsDateTimeHead", "gpsDateTimeTail"}

SampleFields == {"gpsLatitude", "gpsLongitude", "sonarDistance", "sonarConfidence"}

Readings == Frames \cup Fixes \cup {NoReading}
Threads == Loggers \cup {"sonar", "gps"}

Init ==
  /\ data = [f \in Fields |-> NoReading]
  /\ sonar_mutex = Free
  /\ gps_mutex = Free
  /\ sonarPc = "wait"
  /\ frame = NoReading
  /\ gpsPc = "wait"
  /\ fix = NoReading
  /\ loggerPc = [l \in Loggers |-> "sleep"]
  /\ taken = [l \in Loggers |-> [f \in SampleFields |-> NoReading]]
  /\ row = [l \in Loggers |-> [f \in SampleFields |-> NoReading]]
-----------------------------------------------------------------------------
(* The sonar io thread: the async_read handler of PingSonarDevice::run.     *)
(* SonarAt(pc, next): it is at pc and goes on to next.                      *)

SonarAt(pc, next) ==
  /\ sonarPc = pc
  /\ sonarPc' = next
  /\ UNCHANGED <<gps_mutex, gpsVars, loggerVars>>

\* A handler that publishes a buffer it did not check.
SonarReceiveUnchecked(newFrame) ==
  /\ SonarAt("wait", "lock")
  /\ frame' = "unchecked"
  /\ UNCHANGED <<data, sonar_mutex>>

SonarReceive(newFrame) ==
  /\ SonarAt("wait", "lock")
  /\ frame' = newFrame
  /\ UNCHANGED <<data, sonar_mutex>>

\* A handler that publishes without sonar_mutex.
SonarLockNoMutex == SonarAt("lock", "distance") /\ UNCHANGED <<data, sonar_mutex, frame>>

SonarLock ==
  /\ SonarAt("lock", "distance")
  /\ sonar_mutex = Free
  /\ sonar_mutex' = "sonar"
  /\ UNCHANGED <<data, frame>>

SonarStoreDistance ==
  /\ SonarAt("distance", "confidence")
  /\ data' = [data EXCEPT !["sonarDistance"] = frame]
  /\ UNCHANGED <<sonar_mutex, frame>>

\* A handler that forgets the second store.
SonarStoreConfidenceForgotten ==
  SonarAt("confidence", "unlock") /\ UNCHANGED <<data, sonar_mutex, frame>>

SonarStoreConfidence ==
  /\ SonarAt("confidence", "unlock")
  /\ data' = [data EXCEPT !["sonarConfidence"] = frame]
  /\ UNCHANGED <<sonar_mutex, frame>>

SonarUnlock ==
  /\ SonarAt("unlock", "wait")
  /\ sonar_mutex' = Free
  /\ UNCHANGED <<data, frame>>

Sonar ==
  SonarLock \/ SonarStoreDistance \/ SonarStoreConfidence \/ SonarUnlock
-----------------------------------------------------------------------------
(* The GPS io thread: the end of GPSDevice::parseGPSLine. *)

GpsAt(pc, next) ==
  /\ gpsPc = pc
  /\ gpsPc' = next
  /\ UNCHANGED <<sonar_mutex, sonarVars, loggerVars>>

GpsReceive(newFix) ==
  /\ GpsAt("wait", "lock")
  /\ fix' = newFix
  /\ UNCHANGED <<data, gps_mutex>>

GpsLock ==
  /\ GpsAt("lock", "timeHead")
  /\ gps_mutex = Free
  /\ gps_mutex' = "gps"
  /\ UNCHANGED <<data, fix>>

GpsStore(pc, field, next) ==
  /\ GpsAt(pc, next)
  /\ data' = [data EXCEPT ![field] = fix]
  /\ UNCHANGED <<gps_mutex, fix>>

\* gpsDateTime, a string, is copied part by part.
GpsStoreDateTime ==
  \/ GpsStore("timeHead", "gpsDateTimeHead", "timeTail")
  \/ GpsStore("timeTail", "gpsDateTimeTail", "latitude")

GpsStoreLatitude == GpsStore("latitude", "gpsLatitude", "longitude")

GpsStoreLongitude == GpsStore("longitude", "gpsLongitude", "unlock")

GpsUnlock ==
  /\ GpsAt("unlock", "wait")
  /\ gps_mutex' = Free
  /\ UNCHANGED <<data, fix>>

Gps == GpsLock \/ GpsStoreDateTime \/ GpsStoreLatitude \/ GpsStoreLongitude \/ GpsUnlock
-----------------------------------------------------------------------------
(* A logger thread: one turn of the loop of LogData::run. *)

LoggerAt(l, pc, next) ==
  /\ loggerPc[l] = pc
  /\ loggerPc' = [loggerPc EXCEPT ![l] = next]
  /\ UNCHANGED <<data, sonarVars, gpsVars>>

LoggerWake(l) ==
  LoggerAt(l, "sleep", "lockSonar") /\ UNCHANGED <<sonar_mutex, gps_mutex, taken, row>>

LoggerLockSonar(l) ==
  /\ LoggerAt(l, "lockSonar", "lockGps")
  /\ sonar_mutex = Free
  /\ sonar_mutex' = l
  /\ UNCHANGED <<gps_mutex, taken, row>>

\* A logger that forgets the second lock.
LoggerLockGpsNoMutex(l) ==
  LoggerAt(l, "lockGps", "latitude") /\ UNCHANGED <<sonar_mutex, gps_mutex, taken, row>>

LoggerLockGps(l) ==
  /\ LoggerAt(l, "lockGps", "latitude")
  /\ gps_mutex = Free
  /\ gps_mutex' = l
  /\ UNCHANGED <<sonar_mutex, taken, row>>

LoggerLoad(l, pc, field, next) ==
  /\ LoggerAt(l, pc, next)
  /\ taken' = [taken EXCEPT ![l][field] = data[field]]
  /\ UNCHANGED <<sonar_mutex, gps_mutex, row>>

LoggerRead(l) ==
  \/ LoggerLoad(l, "latitude", "gpsLatitude", "longitude")
  \/ LoggerLoad(l, "longitude", "gpsLongitude", "distance")
  \/ LoggerLoad(l, "distance", "sonarDistance", "confidence")
  \/ LoggerLoad(l, "confidence", "sonarConfidence", "unlockGps")

\* lock2 is destroyed before lock1.
LoggerUnlockGps(l) ==
  /\ LoggerAt(l, "unlockGps", "unlockSonar")
  /\ gps_mutex' = Free
  /\ UNCHANGED <<sonar_mutex, taken, row>>

\* A scope that leaks the sonar lock.
LoggerUnlockSonarLeak(l) ==
  LoggerAt(l, "unlockSonar", "log") /\ UNCHANGED <<sonar_mutex, gps_mutex, taken, row>>

LoggerUnlockSonar(l) ==
  /\ LoggerAt(l, "unlockSonar", "log")
  /\ sonar_mutex' = Free
  /\ UNCHANGED <<gps_mutex, taken, row>>

LoggerInfo(l) ==
  /\ LoggerAt(l, "log", "sleep")
  /\ row' = [row EXCEPT ![l] = taken[l]]
  /\ UNCHANGED <<sonar_mutex, gps_mutex, taken>>

Logger(l) ==
  \/ LoggerLockSonar(l) \/ LoggerLockGps(l) \/ LoggerRead(l)
  \/ LoggerUnlockGps(l) \/ LoggerUnlockSonar(l) \/ LoggerInfo(l)
-----------------------------------------------------------------------------
Next ==
  \/ \E newFrame \in Frames : SonarReceive(newFrame)
  \/ Sonar
  \/ \E newFix \in Fixes : GpsReceive(newFix)
  \/ Gps
  \/ \E l \in Loggers : LoggerWake(l) \/ Logger(l)

Spec == Init /\ [][Next]_vars

(***************************************************************************)
(* A thread that can run does.  A thread blocked on a mutex that is freed  *)
(* again and again gets it: both devices and the loggers hold it for a few *)
(* instructions and then wait for 0.5 to 1 second, so nobody barges in     *)
(* forever (strong fairness of the lock steps).  Nothing forces a device   *)
(* to send or a client to ask.                                             *)
(***************************************************************************)
Fairness ==
  /\ WF_vars(Sonar) /\ SF_vars(SonarLock)
  /\ WF_vars(Gps) /\ SF_vars(GpsLock)
  /\ \A l \in Loggers :
       /\ WF_vars(Logger(l))
       /\ SF_vars(LoggerLockSonar(l))
       /\ SF_vars(LoggerLockGps(l))

FairSpec == Spec /\ Fairness
-----------------------------------------------------------------------------
SonarPcs == {"wait", "lock", "distance", "confidence", "unlock"}
GpsPcs == {"wait", "lock", "timeHead", "timeTail", "latitude", "longitude", "unlock"}
LoggerPcs == {"sleep", "lockSonar", "lockGps", "latitude", "longitude", "distance",
              "confidence", "unlockGps", "unlockSonar", "log"}

TypeOK ==
  /\ data \in [Fields -> Readings]
  /\ sonar_mutex \in Threads \cup {Free}
  /\ gps_mutex \in Threads \cup {Free}
  /\ sonarPc \in SonarPcs
  /\ frame \in Readings
  /\ gpsPc \in GpsPcs
  /\ fix \in Readings
  /\ loggerPc \in [Loggers -> LoggerPcs]
  /\ taken \in [Loggers -> [SampleFields -> Readings]]
  /\ row \in [Loggers -> [SampleFields -> Readings]]

\* The threads inside a region that one of the mutexes guards.
SonarPublishing == sonarPc \in {"distance", "confidence", "unlock"}
GpsPublishing == gpsPc \in {"timeHead", "timeTail", "latitude", "longitude", "unlock"}
HoldsSonar(l) == loggerPc[l] \in {"lockGps", "latitude", "longitude", "distance",
                                  "confidence", "unlockGps", "unlockSonar"}
HoldsGps(l) == loggerPc[l] \in {"latitude", "longitude", "distance", "confidence",
                                "unlockGps"}
Reading(l) == loggerPc[l] \in {"latitude", "longitude", "distance", "confidence"}

OneReading(values) ==
  /\ values["sonarDistance"] = values["sonarConfidence"]
  /\ values["gpsLatitude"] = values["gpsLongitude"]

(* Every CSV row holds the distance and the confidence of one sonar frame   *)
(* and the latitude and the longitude of one GPS sentence, although the two *)
(* devices store them one variable at a time.                               *)
RowIsOneReading == \A l \in Loggers : OneReading(row[l])

(* Nobody waits for ever, although a logger holds sonar_mutex while it      *)
(* waits for gps_mutex: a logger that woke up logs its row, and a device    *)
(* publishes what it received, whatever the others do.                      *)
NobodyStarves ==
  /\ \A l \in Loggers : loggerPc[l] = "lockSonar" ~> loggerPc[l] = "sleep"
  /\ sonarPc = "lock" ~> sonarPc = "wait"
  /\ gpsPc = "lock" ~> gpsPc = "wait"

(***************************************************************************)
(* Why RowIsOneReading holds: who holds which mutex, what the globals look *)
(* like in the middle of a publication, and how much of its sample a       *)
(* logger has loaded.                                                      *)
(***************************************************************************)
MutexInv ==
  /\ sonar_mutex = "sonar" <=> SonarPublishing
  /\ gps_mutex = "gps" <=> GpsPublishing
  /\ \A l \in Loggers : /\ sonar_mutex = l <=> HoldsSonar(l)
                        /\ gps_mutex = l <=> HoldsGps(l)

PublishInv ==
  /\ sonarPc # "wait" => frame \in Frames
  /\ sonarPc \notin {"confidence"} => data["sonarDistance"] = data["sonarConfidence"]
  /\ sonarPc \in {"confidence", "unlock"} => data["sonarDistance"] = frame
  /\ gpsPc # "wait" => fix \in Fixes
  /\ gpsPc \notin {"longitude"} => data["gpsLatitude"] = data["gpsLongitude"]
  /\ gpsPc \in {"longitude", "unlock"} => data["gpsLatitude"] = fix

TakenInv ==
  \A l \in Loggers :
    /\ OneReading(row[l])
    /\ loggerPc[l] \in {"sleep", "lockSonar", "lockGps"} => taken[l] = row[l]
    /\ loggerPc[l] \in {"longitude", "distance", "confidence"}
         => taken[l]["gpsLatitude"] = data["gpsLatitude"]
    /\ loggerPc[l] \in {"distance", "confidence"}
         => taken[l]["gpsLongitude"] = data["gpsLongitude"]
    /\ loggerPc[l] \in {"confidence"}
         => taken[l]["sonarDistance"] = data["sonarDistance"]
    /\ ~Reading(l) => OneReading(taken[l])

(* The inductive invariant.                                                 *)
LockingInv == MutexInv /\ PublishInv /\ TakenInv

(***************************************************************************)
(* The globals, used under the mutexes, implement AtomicReadings.  A frame *)
(* is published at the moment its thread gets the mutex, a sample is taken *)
(* when its last field is loaded.                                          *)
(***************************************************************************)
Atomic == INSTANCE AtomicReadings WITH
  sonar <- IF SonarPublishing THEN frame ELSE data["sonarDistance"],
  gps <- IF GpsPublishing THEN fix ELSE data["gpsLatitude"],
  sample <- [l \in Loggers |-> IF Reading(l) THEN row[l] ELSE taken[l]]

(* Publishing and sampling are atomic: every behaviour of the threads is a  *)
(* behaviour in which frames, sentences and samples happen in one step.     *)
ImplementsAtomicReadings == Atomic!Spec
=============================================================================
