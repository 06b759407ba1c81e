---------------------------- MODULE MapPolling ----------------------------
(***************************************************************************)
(* The live view of the frontend: MapContainer polls /data/devices while   *)
(* it is tracking and shows what it receives; OfflineMap draws the path.   *)
(* Each poll is a request of its own, and the answers arrive in any order. *)
(* The backend's handler reads latitude and longitude one by one, under no *)
(* mutex, while the GPS device stores those of the next fix.  A coordinate *)
(* is the number of its fix; number 0 is the one before the first fix,     *)
(* whose value is 0.  React renders after each event.  The names differ    *)
(* from those of LoggingToggle: FrontendProofs extends both modules.       *)
(***************************************************************************)
EXTENDS Integers, Sequences

CONSTANTS
  MaxReading,    \* bounds the fixes
  MaxPolls,      \* bounds the polls
  MaxLeaves,     \* bounds how often the user leaves the page
  Default,       \* a coordinate of the position shown without a reading
  Unread, Done   \* a coordinate the handler has not read yet; a poll that is over

ASSUME MapAssumption == MaxReading \in Nat /\ MaxPolls \in Nat /\ MaxLeaves \in Nat

VARIABLES
  position,    \* the backend's gpsLatitude and gpsLongitude
  polls,       \* the polls: what the handler has read for each, or Done
  value,       \* what MapContainer shows
  isTracking,
  isLoading,
  resetPath,
  intervals,   \* the setIntervals that run
  path,        \* the points OfflineMap has drawn
  isFirstRun,  \* OfflineMap swallows the next point
  leaves

viewVars == <<value, isTracking, isLoading, resetPath, intervals>>
mapVars == <<path, isFirstRun>>
pollingVars == <<position, polls, viewVars, mapVars, leaves>>
-----------------------------------------------------------------------------
Coordinates == {"latitude", "longitude"}

DEFAULT_DATA == [c \in Coordinates |-> Default]

\* The effect of OfflineMap's first rendering has run.
MapInit ==
  /\ position = [c \in Coordinates |-> 0]
  /\ polls = <<>>
  /\ value = DEFAULT_DATA
  /\ isTracking = FALSE
  /\ isLoading = FALSE
  /\ resetPath = FALSE
  /\ intervals = 0
  /\ path = <<>>
  /\ isFirstRun = FALSE
  /\ leaves = 0

\* The GPS device stores a coordinate of a fix, and then, in either order, the other.
NewReading(c) ==
  /\ position[c] < MaxReading
  /\ \A d \in Coordinates : position[c] <= position[d]
  /\ position' = [position EXCEPT ![c] = @ + 1]
  /\ UNCHANGED <<polls, viewVars, mapVars, leaves>>

\* The handler of the poll has read one coordinate.
HalfServed(i) ==
  polls[i] # Done /\ \E c, d \in Coordinates : polls[i][c] = Unread /\ polls[i][d] # Unread

\* The backend handles GET /data/devices, one after the other: it reads a coordinate.
ServePoll(i, c) ==
  /\ polls[i] # Done
  /\ polls[i][c] = Unread
  /\ \A j \in DOMAIN polls \ {i} : ~HalfServed(j)
  /\ polls' = [polls EXCEPT ![i][c] = position[c]]
  /\ UNCHANGED <<position, viewVars, mapVars, leaves>>
-----------------------------------------------------------------------------
\* OfflineMap's effect on [gpsData, isTracking].  A coordinate of 0 is no point.
Draw(point, first, tracking, drawn) ==
  LET isPoint == \A c \in Coordinates : point[c] # 0
  IN  /\ isFirstRun' = (first /\ ~isPoint)
      /\ path' = IF tracking /\ ~first /\ isPoint THEN Append(drawn, point) ELSE drawn

fetchData ==
  /\ Len(polls) < MaxPolls
  /\ polls' = Append(polls, [c \in Coordinates |-> Unread])

\* The answer to a poll: setValue, and the map is drawn.
Receive(i) ==
  /\ polls[i] # Done
  /\ \A c \in Coordinates : polls[i][c] # Unread
  /\ polls' = [polls EXCEPT ![i] = Done]
  /\ value' = polls[i]
  /\ Draw(polls[i], isFirstRun, isTracking, path)
  /\ UNCHANGED <<position, isTracking, isLoading, resetPath, intervals, leaves>>

\* A poll that fails is only reported.
PollFails(i) ==
  /\ polls[i] # Done
  /\ polls' = [polls EXCEPT ![i] = Done]
  /\ UNCHANGED <<position, viewVars, mapVars, leaves>>

\* The interval of 500 ms.
Poll ==
  /\ intervals > 0
  /\ fetchData
  /\ UNCHANGED <<position, viewVars, mapVars, leaves>>

\* A start that does not make the map forget the last tracking.
handleStartNoReset ==
  /\ ~isTracking /\ ~isLoading
  /\ isTracking' = TRUE
  /\ isLoading' = TRUE
  /\ fetchData
  /\ intervals' = intervals + 1
  /\ Draw(value, isFirstRun, TRUE, path)
  /\ UNCHANGED <<position, value, resetPath, leaves>>

\* resetPath makes OfflineMap clear the path and set isFirstRun before it draws.
handleStart ==
  /\ ~isTracking /\ ~isLoading
  /\ resetPath' = TRUE
  /\ isTracking' = TRUE
  /\ isLoading' = TRUE
  /\ fetchData
  /\ intervals' = intervals + 1
  /\ Draw(value, TRUE, TRUE, <<>>)
  /\ UNCHANGED <<position, value, leaves>>

\* The timeout of 500 ms, after which the button is enabled.
LoadingOver ==
  /\ isLoading
  /\ isLoading' = FALSE
  /\ UNCHANGED <<position, polls, value, isTracking, resetPath, intervals, mapVars, leaves>>

\* The timeout of 100 ms.
ResetOver ==
  /\ resetPath
  /\ resetPath' = FALSE
  /\ UNCHANGED <<position, polls, value, isTracking, isLoading, intervals, mapVars, leaves>>

handleStop ==
  /\ isTracking /\ ~isLoading
  /\ intervals' = 0
  /\ isTracking' = FALSE
  /\ value' = DEFAULT_DATA
  /\ resetPath' = FALSE
  /\ Draw(DEFAULT_DATA, isFirstRun, FALSE, path)
  /\ UNCHANGED <<position, polls, isLoading, leaves>>

\* A page whose cleanup leaves the interval running.
LeaveNoCleanup ==
  /\ leaves < MaxLeaves
  /\ leaves' = leaves + 1
  /\ polls' = [i \in DOMAIN polls |-> Done]
  /\ value' = DEFAULT_DATA
  /\ isTracking' = FALSE /\ isLoading' = FALSE /\ resetPath' = FALSE
  /\ path' = <<>> /\ isFirstRun' = FALSE
  /\ UNCHANGED <<position, intervals>>

\* The user leaves the page and comes back: the cleanup clears the interval,
\* late answers find no component, and the state starts anew.
Leave ==
  /\ leaves < MaxLeaves
  /\ leaves' = leaves + 1
  /\ polls' = [i \in DOMAIN polls |-> Done]
  /\ value' = DEFAULT_DATA
  /\ isTracking' = FALSE /\ isLoading' = FALSE /\ resetPath' = FALSE
  /\ intervals' = 0
  /\ path' = <<>> /\ isFirstRun' = FALSE
  /\ UNCHANGED position

MapNext ==
  \/ \E c \in Coordinates : NewReading(c)
  \/ \E i \in DOMAIN polls :
       (\E c \in Coordinates : ServePoll(i, c)) \/ Receive(i) \/ PollFails(i)
  \/ Poll
  \/ handleStart \/ LoadingOver \/ ResetOver \/ handleStop
  \/ Leave

MapSpec == MapInit /\ [][MapNext]_pollingVars
-----------------------------------------------------------------------------
(* Both coordinates of every point of the path are of fixes: none is of the *)
(* position shown before tracking starts, nor the 0 before the first fix,   *)
(* also when the fix came between the two reads of the handler.  They can   *)
(* be of two fixes (BodyIsOneReading is violated), and so the point is none *)
(* of either.                                                               *)
PathHasFixes ==
  \A i \in DOMAIN path : \A c \in Coordinates : path[i][c] \in 1 .. position[c]

(* An interval runs while the view is tracking, and only one: whatever the  *)
(* user presses, and also after the page was left.                          *)
PollsWhileTracking == intervals = IF isTracking THEN 1 ELSE 0
=============================================================================
