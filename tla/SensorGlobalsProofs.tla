------------------------ MODULE SensorGlobalsProofs ------------------------
(***************************************************************************)
(* Proofs about SensorGlobals, for any number of loggers, frames and       *)
(* sentences: type correctness, the inductive invariant LockingInv, that a *)
(* CSV row is one reading, and that the threads implement AtomicReadings.  *)
(***************************************************************************)
EXTENDS SensorGlobals, TLAPS

(* Every variable keeps its type.                                           *)
THEOREM TypeCorrect == Spec => []TypeOK
<1>. USE DEF TypeOK, Readings, Threads, Fields, SampleFields, SonarPcs, GpsPcs, LoggerPcs
<1>1. Init => TypeOK
  BY DEF Init
<1>2. TypeOK /\ [Next]_vars => TypeOK'
  <2>. SUFFICES ASSUME TypeOK, [Next]_vars
                PROVE  TypeOK'
    OBVIOUS
  <2>. USE DEF sonarVars, gpsVars, loggerVars,
         SonarAt, GpsAt, LoggerAt
  <2>1. ASSUME NEW newFrame \in Frames, SonarReceive(newFrame)
        PROVE  TypeOK'
    BY <2>1 DEF SonarReceive
  <2>2. ASSUME Sonar
        PROVE  TypeOK'
    BY <2>2 DEF Sonar, SonarLock, SonarStoreDistance, SonarStoreConfidence, SonarUnlock
  <2>3. ASSUME NEW newFix \in Fixes, GpsReceive(newFix)
        PROVE  TypeOK'
    BY <2>3 DEF GpsReceive
  <2>4. ASSUME Gps
        PROVE  TypeOK'
    BY <2>4 DEF Gps, GpsLock, GpsStoreDateTime, GpsStoreLatitude, GpsStoreLongitude,
                GpsStore, GpsUnlock
  <2>5. ASSUME NEW l \in Loggers, LoggerRead(l)
        PROVE  TypeOK'
    <3>1. PICK field \in SampleFields :
            taken' = [taken EXCEPT ![l] = [taken[l] EXCEPT ![field] = data[field]]]
      BY <2>5 DEF LoggerRead, LoggerLoad
    <3>2. data[field] \in Readings
      BY <3>1
    <3>3. taken' \in [Loggers -> [SampleFields -> Readings]]
      BY <3>1, <3>2, Zenon
    <3>4. UNCHANGED <<data, sonar_mutex, gps_mutex, row, sonarVars, gpsVars>>
      BY <2>5 DEF LoggerRead, LoggerLoad
    <3>5. loggerPc' \in [Loggers -> LoggerPcs]
      BY <2>5 DEF LoggerRead, LoggerLoad
    <3>. QED  BY <3>3, <3>4, <3>5
  <2>6. ASSUME NEW l \in Loggers, LoggerWake(l) \/ Logger(l)
        PROVE  TypeOK'
    BY <2>5, <2>6, ZenonT(30) DEF Logger, LoggerWake, LoggerLockSonar, LoggerLockGps,
                      LoggerUnlockGps, LoggerUnlockSonar, LoggerInfo
  <2>7. CASE UNCHANGED vars
    BY <2>7 DEF vars
  <2>. QED  BY <2>1, <2>2, <2>3, <2>4, <2>6, <2>7 DEF Next
<1>. QED  BY <1>1, <1>2, PTL DEF Spec

-----------------------------------------------------------------------------
(***************************************************************************)
(* One lemma per thread: a step of the thread keeps LockingInv.            *)
(***************************************************************************)

LEMMA SonarStep ==
  ASSUME TypeOK, LockingInv,
         Sonar \/ \E newFrame \in Frames : SonarReceive(newFrame)
  PROVE  LockingInv'
<1>. USE ThreadAssumption DEF LockingInv, SonarPublishing, GpsPublishing, HoldsSonar, HoldsGps,
         Reading, OneReading, sonarVars, gpsVars, loggerVars,
         SonarAt, GpsAt, LoggerAt
<1>1. CASE \E newFrame \in Frames : SonarReceive(newFrame)
  BY <1>1 DEF SonarReceive, MutexInv, PublishInv, TakenInv
<1>2. CASE SonarLock
  <2>1. MutexInv'
    BY <1>2 DEF SonarLock, MutexInv
  <2>2. PublishInv' /\ TakenInv'
    BY <1>2 DEF SonarLock, PublishInv, TakenInv
  <2>. QED  BY <2>1, <2>2
<1>3. CASE SonarStoreDistance \/ SonarStoreConfidence
  <2>1. \A l \in Loggers : ~HoldsSonar(l)
    BY <1>3 DEF MutexInv, SonarStoreDistance, SonarStoreConfidence
  <2>2. MutexInv' /\ PublishInv'
    BY <1>3 DEF SonarStoreDistance, SonarStoreConfidence, MutexInv, PublishInv, TypeOK, Fields
  <2>3. TakenInv'
    BY <1>3, <2>1 DEF SonarStoreDistance, SonarStoreConfidence, TakenInv, TypeOK, Fields
  <2>. QED  BY <2>2, <2>3
<1>4. CASE SonarUnlock
  BY <1>4 DEF SonarUnlock, MutexInv, PublishInv, TakenInv
<1>. QED  BY <1>1, <1>2, <1>3, <1>4 DEF Sonar

LEMMA GpsStep ==
  ASSUME TypeOK, LockingInv,
         Gps \/ \E newFix \in Fixes : GpsReceive(newFix)
  PROVE  LockingInv'
<1>. USE ThreadAssumption DEF LockingInv, SonarPublishing, GpsPublishing, HoldsSonar, HoldsGps,
         Reading, OneReading, sonarVars, gpsVars, loggerVars,
         SonarAt, GpsAt, LoggerAt
<1>1. CASE \E newFix \in Fixes : GpsReceive(newFix)
  BY <1>1 DEF GpsReceive, MutexInv, PublishInv, TakenInv
<1>2. CASE GpsLock
  <2>1. MutexInv'
    BY <1>2 DEF GpsLock, MutexInv
  <2>2. PublishInv' /\ TakenInv'
    BY <1>2 DEF GpsLock, PublishInv, TakenInv
  <2>. QED  BY <2>1, <2>2
<1>3. CASE GpsStoreDateTime \/ GpsStoreLatitude \/ GpsStoreLongitude
  <2>1. \A l \in Loggers : ~HoldsGps(l)
    BY <1>3 DEF MutexInv, GpsStoreDateTime, GpsStoreLatitude, GpsStoreLongitude, GpsStore
  <2>2. MutexInv' /\ PublishInv'
    BY <1>3 DEF GpsStoreDateTime, GpsStoreLatitude, GpsStoreLongitude, GpsStore,
                MutexInv, PublishInv, TypeOK, Fields
  <2>3. TakenInv'
    BY <1>3, <2>1 DEF GpsStoreDateTime, GpsStoreLatitude, GpsStoreLongitude, GpsStore,
                      TakenInv, TypeOK, Fields
  <2>. QED  BY <2>2, <2>3
<1>4. CASE GpsUnlock
  BY <1>4 DEF GpsUnlock, MutexInv, PublishInv, TakenInv
<1>. QED  BY <1>1, <1>2, <1>3, <1>4 DEF Gps

LEMMA LoggerStep ==
  ASSUME TypeOK, LockingInv, NEW l \in Loggers, LoggerWake(l) \/ Logger(l)
  PROVE  LockingInv'
<1>. USE ThreadAssumption DEF LockingInv, SonarPublishing, GpsPublishing, HoldsSonar, HoldsGps,
         Reading, OneReading, sonarVars, gpsVars, loggerVars,
         SonarAt, GpsAt, LoggerAt
<1>1. CASE LoggerWake(l)
  BY <1>1 DEF LoggerWake, MutexInv, PublishInv, TakenInv, TypeOK
<1>2. CASE LoggerLockSonar(l)
  BY <1>2 DEF LoggerLockSonar, MutexInv, PublishInv, TakenInv, TypeOK
<1>3. CASE LoggerLockGps(l)
  BY <1>3 DEF LoggerLockGps, MutexInv, PublishInv, TakenInv, TypeOK
<1>4. CASE LoggerRead(l)
  <2>1. ~SonarPublishing /\ ~GpsPublishing
    BY <1>4 DEF LoggerRead, LoggerLoad, MutexInv
  <2>2. OneReading(data)
    BY <2>1 DEF PublishInv
  <2>3. MutexInv' /\ PublishInv'
    BY <1>4 DEF LoggerRead, LoggerLoad, MutexInv, PublishInv, TypeOK
  <2>4. TakenInv'
    BY <1>4, <2>2 DEF LoggerRead, LoggerLoad, TakenInv, TypeOK, SampleFields
  <2>. QED  BY <2>3, <2>4
<1>5. CASE LoggerUnlockGps(l)
  BY <1>5 DEF LoggerUnlockGps, MutexInv, PublishInv, TakenInv, TypeOK
<1>6. CASE LoggerUnlockSonar(l)
  BY <1>6 DEF LoggerUnlockSonar, MutexInv, PublishInv, TakenInv, TypeOK
<1>7. CASE LoggerInfo(l)
  BY <1>7 DEF LoggerInfo, MutexInv, PublishInv, TakenInv, TypeOK
<1>. QED  BY <1>1, <1>2, <1>3, <1>4, <1>5, <1>6, <1>7 DEF Logger

(* Mutual exclusion, the shape of a publication in progress and the part of *)
(* a sample already loaded are as LockingInv says, in every reachable state.*)
THEOREM LockingInvariant == Spec => []LockingInv
<1>1. Init => LockingInv
  BY ThreadAssumption
     DEF Init, LockingInv, MutexInv, PublishInv, TakenInv, SonarPublishing, GpsPublishing,
         HoldsSonar, HoldsGps, Reading, OneReading, Fields, SampleFields
<1>2. TypeOK /\ LockingInv /\ [Next]_vars => LockingInv'
  <2>. SUFFICES ASSUME TypeOK, LockingInv, [Next]_vars
                PROVE  LockingInv'
    OBVIOUS
  <2>1. CASE UNCHANGED vars
    BY <2>1 DEF vars, sonarVars, gpsVars, loggerVars, LockingInv, MutexInv, PublishInv,
                TakenInv, SonarPublishing, GpsPublishing, HoldsSonar, HoldsGps, Reading,
                OneReading
  <2>. QED  BY <2>1, SonarStep, GpsStep, LoggerStep DEF Next
<1>. QED  BY <1>1, <1>2, TypeCorrect, PTL DEF Spec

(* Every row a logger writes holds one frame's distance and confidence and  *)
(* one sentence's latitude and longitude.                                   *)
THEOREM RowsAreReadings == Spec => []RowIsOneReading
<1>1. LockingInv => RowIsOneReading
  BY DEF LockingInv, TakenInv, RowIsOneReading
<1>. QED  BY <1>1, LockingInvariant, PTL

-----------------------------------------------------------------------------
(***************************************************************************)
(* Refinement.  The three state functions below are the abstract variables *)
(* of the instance Atomic.                                                 *)
(***************************************************************************)
AbsSonar == IF SonarPublishing THEN frame ELSE data["sonarDistance"]
AbsGps == IF GpsPublishing THEN fix ELSE data["gpsLatitude"]
AbsSample == [l \in Loggers |-> IF Reading(l) THEN row[l] ELSE taken[l]]

LEMMA AtomicInit == Init => Atomic!Init
BY DEF Init, Atomic!Init, Atomic!Sample, Atomic!SampleFields, SampleFields, Fields,
       SonarPublishing, GpsPublishing, Reading

(* A device thread publishes when it gets the mutex; its other steps change *)
(* none of the abstract variables.                                          *)
LEMMA DeviceRefines ==
  ASSUME TypeOK, LockingInv,
         \/ Sonar \/ \E newFrame \in Frames : SonarReceive(newFrame)
         \/ Gps \/ \E newFix \in Fixes : GpsReceive(newFix)
  PROVE  /\ AbsSample' = AbsSample
         /\ \/ /\ AbsSonar' = AbsSonar
               /\ AbsGps' = AbsGps
            \/ /\ AbsSonar' \in Frames
               /\ AbsGps' = AbsGps
            \/ /\ AbsSonar' = AbsSonar
               /\ AbsGps' \in Fixes
<1>. USE DEF LockingInv, PublishInv, SonarPublishing, GpsPublishing, sonarVars, gpsVars,
             loggerVars, SonarAt, GpsAt, TypeOK, Fields
<1>1. UNCHANGED loggerVars
  BY DEF Sonar, SonarReceive, SonarLock, SonarStoreDistance, SonarStoreConfidence, SonarUnlock,
         Gps, GpsReceive, GpsLock, GpsStoreDateTime, GpsStoreLatitude, GpsStoreLongitude,
         GpsStore, GpsUnlock
<1>2. AbsSample' = AbsSample
  BY <1>1 DEF AbsSample, Reading
<1>3. CASE \E newFrame \in Frames : SonarReceive(newFrame)
  BY <1>2, <1>3 DEF SonarReceive, AbsSonar, AbsGps
<1>4. CASE Sonar
  BY <1>2, <1>4 DEF Sonar, SonarLock, SonarStoreDistance, SonarStoreConfidence, SonarUnlock,
                    AbsSonar, AbsGps
<1>5. CASE \E newFix \in Fixes : GpsReceive(newFix)
  BY <1>2, <1>5 DEF GpsReceive, AbsSonar, AbsGps
<1>6. CASE Gps
  BY <1>2, <1>6 DEF Gps, GpsLock, GpsStoreDateTime, GpsStoreLatitude, GpsStoreLongitude,
                    GpsStore, GpsUnlock, AbsSonar, AbsGps
<1>. QED  BY <1>3, <1>4, <1>5, <1>6

(* A logger takes its sample with its last load; its other steps change     *)
(* none of the abstract variables.                                          *)
LEMMA LoggerRefines ==
  ASSUME TypeOK, LockingInv, LockingInv', NEW l \in Loggers, LoggerWake(l) \/ Logger(l)
  PROVE  /\ AbsSonar' = AbsSonar
         /\ AbsGps' = AbsGps
         /\ \/ AbsSample' = AbsSample
            \/ AbsSample' = [AbsSample EXCEPT ![l] = Atomic!Sample(AbsSonar, AbsGps)]
<1>. USE DEF SonarPublishing, GpsPublishing, sonarVars, gpsVars, loggerVars,
         SonarAt, GpsAt, LoggerAt
<1>1. UNCHANGED <<data, sonarVars, gpsVars>>
  BY DEF LoggerWake, Logger, LoggerLockSonar, LoggerLockGps, LoggerRead, LoggerLoad,
         LoggerUnlockGps, LoggerUnlockSonar, LoggerInfo
<1>2. AbsSonar' = AbsSonar /\ AbsGps' = AbsGps
  BY <1>1 DEF AbsSonar, AbsGps
<1>3. CASE LoggerLoad(l, "confidence", "sonarConfidence", "unlockGps")
  <2>1. /\ data["sonarConfidence"] = data["sonarDistance"]
        /\ AbsSonar = data["sonarDistance"]
        /\ AbsGps = data["gpsLatitude"]
        /\ data["gpsLongitude"] = data["gpsLatitude"]
    BY <1>3, ThreadAssumption
       DEF LoggerLoad, LockingInv, MutexInv, PublishInv, HoldsSonar, HoldsGps, AbsSonar, AbsGps
  <2>2. taken'[l] = [taken[l] EXCEPT !["sonarConfidence"] = data["sonarConfidence"]]
    BY <1>3 DEF LoggerLoad, TypeOK
  <2>3. taken'[l] = Atomic!Sample(AbsSonar, AbsGps)
    <3>1. /\ taken[l] \in [SampleFields -> Readings]
          /\ taken[l]["gpsLatitude"] = AbsGps
          /\ taken[l]["gpsLongitude"] = AbsGps
          /\ taken[l]["sonarDistance"] = AbsSonar
      BY <1>3, <2>1 DEF LoggerLoad, LockingInv, TakenInv, TypeOK
    <3>2. taken'[l] = [f \in SampleFields |->
                         IF f = "sonarConfidence" THEN data["sonarConfidence"] ELSE taken[l][f]]
      BY <2>2, <3>1
    <3>3. \A f \in SampleFields :
            taken'[l][f] = IF f \in {"sonarDistance", "sonarConfidence"} THEN AbsSonar ELSE AbsGps
      BY <2>1, <3>1, <3>2 DEF SampleFields
    <3>. QED  BY <3>2, <3>3 DEF Atomic!Sample, Atomic!SampleFields, SampleFields
  <2>4. AbsSample'[l] = taken'[l]
    BY <1>3 DEF LoggerLoad, AbsSample, Reading, TypeOK
  <2>5. \A k \in Loggers \ {l} : AbsSample'[k] = AbsSample[k]
    BY <1>3 DEF LoggerLoad, AbsSample, Reading, TypeOK
  <2>. QED  BY <1>2, <2>3, <2>4, <2>5 DEF AbsSample
<1>4. CASE ~LoggerLoad(l, "confidence", "sonarConfidence", "unlockGps")
  <2>1. \A k \in Loggers : AbsSample'[k] = AbsSample[k]
    BY <1>4 DEF LoggerWake, Logger, LoggerLockSonar, LoggerLockGps, LoggerRead, LoggerLoad,
                LoggerUnlockGps, LoggerUnlockSonar, LoggerInfo, AbsSample, Reading, TypeOK,
                LockingInv, TakenInv
  <2>. QED  BY <1>2, <2>1 DEF AbsSample
<1>. QED  BY <1>3, <1>4

(* The threads, using the globals under the mutexes, implement atomic       *)
(* publication and sampling.                                                *)
THEOREM Refinement == Spec => ImplementsAtomicReadings
<1>1. TypeOK /\ LockingInv /\ LockingInv' /\ [Next]_vars
        => [Atomic!Next]_(Atomic!avars)
  <2>. SUFFICES ASSUME TypeOK, LockingInv, LockingInv', [Next]_vars
                PROVE  [Atomic!Next]_(Atomic!avars)
    OBVIOUS
  <2>. USE DEF Atomic!Next, Atomic!PublishSonar, Atomic!PublishGps, Atomic!TakeSample,
               Atomic!avars
  <2>1. CASE UNCHANGED vars
    BY <2>1 DEF vars, sonarVars, gpsVars, loggerVars, SonarPublishing, GpsPublishing, Reading
  <2>2. CASE \/ Sonar \/ \E newFrame \in Frames : SonarReceive(newFrame)
             \/ Gps \/ \E newFix \in Fixes : GpsReceive(newFix)
    BY <2>2, DeviceRefines DEF AbsSonar, AbsGps, AbsSample
  <2>3. ASSUME NEW l \in Loggers, LoggerWake(l) \/ Logger(l)
        PROVE  [Atomic!Next]_(Atomic!avars)
    BY <2>3, LoggerRefines DEF AbsSonar, AbsGps, AbsSample
  <2>. QED  BY <2>1, <2>2, <2>3 DEF Next
<1>. QED  BY <1>1, AtomicInit, TypeCorrect, LockingInvariant, PTL
          DEF Spec, ImplementsAtomicReadings, Atomic!Spec
=============================================================================
