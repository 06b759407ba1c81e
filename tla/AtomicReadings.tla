--------------------------- MODULE AtomicReadings ---------------------------
(***************************************************************************)
(* What the shared sensor globals promise to the threads that use them     *)
(* under the mutexes: a sonar frame and a GPS sentence are published as a  *)
(* whole, and a sample is one published frame together with one published  *)
(* sentence, both current at one and the same moment.                      *)
(*                                                                         *)
(* A reading is identified, not spelled out: Frames are the accepted sonar *)
(* frames, Fixes the accepted GPS sentences, and NoReading the value the   *)
(* globals are initialised with.                                           *)
(***************************************************************************)
CONSTANTS Frames, Fixes, Loggers, NoReading

VARIABLES
  sonar,    \* the frame last published by the sonar
  gps,      \* the sentence last published by the GPS
  sample    \* sample[l]: the sample last taken by logger l

avars == <<sonar, gps, sample>>

SampleFields == {"gpsLatitude", "gpsLongitude", "sonarDistance", "sonarConfidence"}

Sample(fromSonar, fromGps) ==
  [f \in SampleFields |->
     IF f \in {"sonarDistance", "sonarConfidence"} THEN fromSonar ELSE fromGps]

Init ==
  /\ sonar = NoReading
  /\ gps = NoReading
  /\ sample = [l \in Loggers |-> Sample(NoReading, NoReading)]

PublishSonar(new) == sonar' = new /\ UNCHANGED <<gps, sample>>

PublishGps(new) == gps' = new /\ UNCHANGED <<sonar, sample>>

TakeSample(l) ==
  /\ sample' = [sample EXCEPT ![l] = Sample(sonar, gps)]
  /\ UNCHANGED <<sonar, gps>>

Next ==
  \/ \E new \in Frames : PublishSonar(new)
  \/ \E new \in Fixes : PublishGps(new)
  \/ \E l \in Loggers : TakeSample(l)

Spec == Init /\ [][Next]_avars
=============================================================================
