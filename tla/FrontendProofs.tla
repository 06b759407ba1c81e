--------------------------- MODULE FrontendProofs ---------------------------
(***************************************************************************)
(* The frontend.  The buttons, for any number of browsers, tabs and        *)
(* faults: a logger is reachable from the only tab of its browser, whose   *)
(* answered button is right.  Below, the live map.                         *)
(***************************************************************************)
EXTENDS LoggingToggle, MapPolling, TLAPS

TypeInv ==
  /\ browserOf \in [Tabs -> Browsers]
  /\ localStorage \in [Browsers -> Tabs \cup {None}]
  /\ isLogging \in [Tabs -> BOOLEAN]
  /\ call \in [Tabs -> {"start", "stop", "none"}]
  /\ clientId \in [Tabs -> Tabs \cup {None}]
  /\ served \in [Tabs -> BOOLEAN]
  /\ success \in [Tabs -> BOOLEAN]
  /\ orphans \subseteq Tabs \X {"start", "stop"}
  /\ interrupted \subseteq Tabs
  /\ active \in [Tabs -> BOOLEAN]

\* A clientId in use was made in its browser, which has one stored ever after.
Known(id) == localStorage[browserOf[id]] # None

IdInv ==
  /\ \A b \in Browsers : localStorage[b] # None => browserOf[localStorage[b]] = b
  /\ \A t \in Tabs :
       clientId[t] # None => browserOf[clientId[t]] = browserOf[t] /\ Known(clientId[t])
  /\ \A r \in orphans : Known(r[1])
  /\ \A id \in Tabs : active[id] => Known(id)

\* The last request of a tab, or the one under way, and what it does to its logger.
CallInv ==
  /\ \A t \in Tabs : served[t] => call[t] # "none" /\ clientId[t] # None
  /\ \A r \in orphans : Single(r[1]) => r[1] \in interrupted
  /\ \A t \in Tabs \ interrupted :
       Single(t) => /\ served[t] => active[t] = (call[t] = "start")
                    /\ success[t] => Known(t)
                    /\ success[t] /\ ~served[t] => isLogging[t] = active[t]

Inv == TypeInv /\ IdInv /\ CallInv

\* The clientId of the only tab of a browser is its own.
LEMMA SingleId ==
  ASSUME TypeInv, IdInv, NEW t \in Tabs, Single(t)
  PROVE  /\ Known(t) => StoredId(t) = t
         /\ \A k \in Tabs : clientId[k] = t => k = t
         /\ clientId[t] # None => clientId[t] = t
BY ToggleAssumption DEF TypeInv, IdInv, Known, StoredId, Single

LEMMA InvImplies == Inv => LoggerIsReachable /\ AnsweredButtonIsRight
BY SingleId DEF Inv, IdInv, CallInv, LoggerIsReachable, AnsweredButtonIsRight

LEMMA InitInv == Init => Inv
BY ToggleAssumption
DEF Init, Inv, TypeInv, IdInv, CallInv, Known

\* setItem in one tab: what was stored for its browser stays a clientId of it.
LEMMA SetItemStep ==
  ASSUME Inv, NEW t \in Tabs, SetItem(t)
  PROVE  Inv'
<1>1. /\ localStorage' = [localStorage EXCEPT ![browserOf[t]] = t]
      /\ clientId' = clientId \/ (clientId[t] = None /\ clientId' = [clientId EXCEPT ![t] = t])
      /\ UNCHANGED <<browserOf, isLogging, call, served, success, orphans, interrupted, active>>
  BY DEF SetItem, Generated, Naming, Set, backendVars
<1>2. TypeInv'
  BY <1>1 DEF Inv, TypeInv
<1>3. \A id \in Tabs : Known(id) => Known(id)'
  BY <1>1, ToggleAssumption DEF Inv, TypeInv, Known
<1>4. IdInv'
  BY <1>1, <1>3, ToggleAssumption DEF Inv, TypeInv, IdInv, Known
<1>5. CallInv'
  BY <1>1, <1>3, ToggleAssumption DEF Inv, TypeInv, CallInv, Single
<1> QED
  BY <1>2, <1>4, <1>5 DEF Inv

\* A click takes the stored clientId for its request.
LEMMA ClickStep ==
  ASSUME Inv, NEW t \in Tabs, Click(t)
  PROVE  Inv'
<1>1. /\ call[t] = "none"
      /\ \E request \in {"start", "stop"} : call' = [call EXCEPT ![t] = request]
      /\ clientId' = [clientId EXCEPT ![t] = StoredId(t)]
      /\ UNCHANGED <<browserVars, isLogging, served, success, backendVars>>
  BY DEF Click, Set
<1>2. ~served[t] /\ (StoredId(t) # None => StoredId(t) \in Tabs)
  BY <1>1 DEF Inv, TypeInv, CallInv, StoredId
<1>3. TypeInv'
  BY <1>1, <1>2 DEF Inv, TypeInv, browserVars, backendVars
<1>4. IdInv'
  BY <1>1, <1>2 DEF Inv, TypeInv, IdInv, Known, StoredId, browserVars, backendVars
<1>5. CallInv'
  BY <1>1, <1>2 DEF Inv, TypeInv, CallInv, Known, Single, browserVars, backendVars
<1> QED
  BY <1>3, <1>4, <1>5 DEF Inv

\* The backend does what was asked for a clientId in use, which another tab's is not.
LEMMA ServeStep ==
  ASSUME Inv, NEW t \in Tabs, Serve(t)
  PROVE  Inv'
<1>1. /\ clientId[t] \in Tabs /\ call[t] # "none"
      /\ active' = [active EXCEPT ![clientId[t]] = (call[t] = "start")]
      /\ served' = [served EXCEPT ![t] = TRUE]
      /\ UNCHANGED <<browserVars, isLogging, call, clientId, success, orphans, interrupted>>
  BY DEF Serve, Handled, Set, Inv, TypeInv
<1>2. TypeInv'
  BY <1>1 DEF Inv, TypeInv, browserVars
<1>3. IdInv'
  BY <1>1, ToggleAssumption DEF Inv, TypeInv, IdInv, Known, browserVars
<1>4. ASSUME NEW k \in Tabs \ interrupted, Single(k)
      PROVE  /\ served'[k] => active'[k] = (call[k] = "start")
             /\ success[k] /\ ~served'[k] => isLogging[k] = active'[k]
  <2>1. CASE k = t
    <3>1. clientId[t] = t
      BY <1>1, <1>4, <2>1, SingleId, ToggleAssumption DEF Inv
    <3> QED
      BY <1>1, <2>1, <3>1 DEF Inv, TypeInv
  <2>2. CASE k # t
    <3>1. clientId[t] # k
      BY <1>4, <2>2, SingleId DEF Inv
    <3> QED
      BY <1>1, <1>4, <2>2, <3>1 DEF Inv, TypeInv, CallInv
  <2> QED
    BY <2>1, <2>2
<1>5. CallInv'
  BY <1>1, <1>4, ToggleAssumption DEF Inv, TypeInv, CallInv, Known, Single, browserVars
<1> QED
  BY <1>2, <1>3, <1>5 DEF Inv

\* A tab that gives up a request leaves an orphan, and a mark.
LEMMA GivesUpLeaves ==
  ASSUME Inv, NEW t \in Tabs, call[t] # "none", ~Naming(t),
         GivesUp(t) \/ UNCHANGED <<orphans, interrupted>>
  PROVE  /\ orphans' \subseteq Tabs \X {"start", "stop"}
         /\ \A r \in orphans' : r \in orphans \/ r[1] = clientId[t]
         /\ interrupted \subseteq interrupted' /\ interrupted' \subseteq Tabs
         /\ clientId[t] \in Tabs
         /\ \A r \in orphans' : Single(r[1]) => r[1] \in interrupted'
<1>1. clientId[t] \in Tabs
  BY DEF Inv, TypeInv, Naming
<1>2. CASE UNCHANGED <<orphans, interrupted>>
  BY <1>1, <1>2 DEF Inv, TypeInv, CallInv
<1>3. CASE GivesUp(t)
  <2>1. orphans' = orphans \cup {<<clientId[t], call[t]>>} /\ interrupted' = interrupted \cup {t}
    BY <1>3 DEF GivesUp
  <2>2. call[t] \in {"start", "stop"}
    BY DEF Inv, TypeInv
  <2>3. /\ orphans' \subseteq Tabs \X {"start", "stop"}
        /\ \A r \in orphans' : r \in orphans \/ r[1] = clientId[t]
        /\ interrupted \subseteq interrupted' /\ interrupted' \subseteq Tabs
    BY <1>1, <2>1, <2>2 DEF Inv, TypeInv
  <2>4. \A r \in orphans' : Single(r[1]) => r[1] \in interrupted'
    BY <1>1, <2>1, SingleId DEF Inv, TypeInv, CallInv
  <2> QED
    BY <1>1, <2>3, <2>4
<1> QED
  BY <1>2, <1>3

\* An answer or a failure ends the request: after an answer the button is right.
LEMMA SettleStep ==
  ASSUME Inv, NEW t \in Tabs, Answered(t) \/ Fails(t)
  PROVE  Inv'
<1>1. /\ call[t] # "none" /\ ~Naming(t)
      /\ call' = [call EXCEPT ![t] = "none"]
      /\ clientId' = [clientId EXCEPT ![t] = None]
      /\ served' = [served EXCEPT ![t] = FALSE]
      /\ UNCHANGED <<browserVars, active>>
  BY DEF Answered, Fails, Settle, RequestOver, Set
<1>2. \/ /\ served[t]
         /\ isLogging' = [isLogging EXCEPT ![t] = (call[t] = "start")]
         /\ success' = [success EXCEPT ![t] = TRUE]
      \/ /\ isLogging' = [isLogging EXCEPT ![t] = (call[t] = "stop")]
         /\ success' = [success EXCEPT ![t] = FALSE]
  BY DEF Answered, Fails, Settle, Set
<1>3. GivesUp(t) \/ UNCHANGED <<orphans, interrupted>>
  BY DEF Answered, Fails
<1>4. /\ orphans' \subseteq Tabs \X {"start", "stop"}
      /\ \A r \in orphans' : r \in orphans \/ r[1] = clientId[t]
      /\ interrupted \subseteq interrupted' /\ interrupted' \subseteq Tabs
      /\ clientId[t] \in Tabs
      /\ \A r \in orphans' : Single(r[1]) => r[1] \in interrupted'
  BY <1>1, <1>3, GivesUpLeaves
<1>5. TypeInv'
  BY <1>1, <1>2, <1>4 DEF Inv, TypeInv, browserVars
<1>6. IdInv'
  <2>1. \A r \in orphans' : Known(r[1])
    BY <1>4, ToggleAssumption DEF Inv, IdInv
  <2>2. \A k \in Tabs : clientId'[k] # None => clientId'[k] = clientId[k]
    BY <1>1 DEF Inv, TypeInv
  <2>3. UNCHANGED <<localStorage, browserOf, active>>
    BY <1>1 DEF browserVars
  <2>4. IdInv
    BY DEF Inv
  <2> QED
    BY <2>1, <2>2, <2>3, <2>4 DEF IdInv, Known
<1>7. ASSUME NEW k \in Tabs \ interrupted', Single(k)
      PROVE  /\ served'[k] => active[k] = (call'[k] = "start")
             /\ success'[k] => Known(k)
             /\ success'[k] /\ ~served'[k] => isLogging'[k] = active[k]
  <2>1. k \in Tabs \ interrupted /\ (served[k] => Known(k))
    BY <1>4, <1>7, SingleId DEF Inv, IdInv, CallInv
  <2> QED
    BY <1>1, <1>2, <1>7, <2>1 DEF Inv, TypeInv, CallInv
<1>8. CallInv'
  BY <1>1, <1>4, <1>7 DEF Inv, TypeInv, CallInv, Known, Single, browserVars
<1> QED
  BY <1>5, <1>6, <1>8 DEF Inv

\* The button's timer and the download button leave all of it alone.
LEMMA OtherStep ==
  ASSUME Inv, NEW t \in Tabs, AlertOver(t) \/ ClickDownload(t) \/ Downloaded(t)
  PROVE  Inv'
<1>1. UNCHANGED <<browserVars, isLogging, call, clientId, served, success, backendVars>>
  BY DEF AlertOver, ClickDownload, Downloaded, Download, buttonVars
<1> QED
  BY <1>1 DEF Inv, TypeInv, IdInv, CallInv, Known, Single, browserVars, backendVars

\* A reload forgets what the tab has shown.
LEMMA ReloadStep ==
  ASSUME Inv, NEW t \in Tabs, Reload(t)
  PROVE  Inv'
<1>1. /\ isLogging' = [isLogging EXCEPT ![t] = FALSE]
      /\ call' = [call EXCEPT ![t] = "none"]
      /\ clientId' = [clientId EXCEPT ![t] = None]
      /\ served' = [served EXCEPT ![t] = FALSE]
      /\ success' = [success EXCEPT ![t] = FALSE]
      /\ UNCHANGED <<browserVars, active>>
  BY DEF Reload, RequestOver, Set
<1>2. /\ orphans' \subseteq Tabs \X {"start", "stop"}
      /\ \A r \in orphans' : r \in orphans \/ (clientId[t] \in Tabs /\ r[1] = clientId[t])
      /\ interrupted \subseteq interrupted' /\ interrupted' \subseteq Tabs
      /\ \A r \in orphans' : Single(r[1]) => r[1] \in interrupted'
  <2>1. CASE call[t] # "none" /\ GivesUp(t)
    <3>1. ~Naming(t)
      BY DEF Reload
    <3> QED
      BY <2>1, <3>1, GivesUpLeaves
  <2>2. CASE UNCHANGED <<orphans, interrupted>>
    BY <2>2 DEF Inv, TypeInv, CallInv
  <2> QED
    BY <2>1, <2>2 DEF Reload
<1>3. TypeInv'
  BY <1>1, <1>2 DEF Inv, TypeInv, browserVars
<1>4. IdInv'
  <2>1. \A r \in orphans' : Known(r[1])
    BY <1>2, ToggleAssumption DEF Inv, IdInv
  <2>2. \A k \in Tabs : clientId'[k] # None => clientId'[k] = clientId[k]
    BY <1>1 DEF Inv, TypeInv
  <2>3. UNCHANGED <<localStorage, browserOf, active>>
    BY <1>1 DEF browserVars
  <2>4. IdInv
    BY DEF Inv
  <2> QED
    BY <2>1, <2>2, <2>3, <2>4 DEF IdInv, Known
<1>5. CallInv'
  BY <1>1, <1>2 DEF Inv, TypeInv, CallInv, Known, Single, browserVars
<1> QED
  BY <1>3, <1>4, <1>5 DEF Inv

\* An orphan that is served late disturbs interrupted tabs only.
LEMMA OrphanStep ==
  ASSUME Inv, NEW r \in orphans, ServeOrphan(r)
  PROVE  Inv'
<1>1. /\ r[1] \in Tabs
      /\ active' = [active EXCEPT ![r[1]] = (r[2] = "start")]
      /\ orphans' = orphans \ {r}
      /\ UNCHANGED <<browserVars, isLogging, call, clientId, served, success, interrupted>>
  BY DEF ServeOrphan, Handled, Set, buttonVars, Inv, TypeInv
<1>2. TypeInv'
  BY <1>1 DEF Inv, TypeInv, browserVars
<1>3. IdInv'
  BY <1>1 DEF Inv, TypeInv, IdInv, Known, browserVars
<1>4. CallInv'
  BY <1>1 DEF Inv, TypeInv, CallInv, Known, Single, browserVars
<1> QED
  BY <1>2, <1>3, <1>4 DEF Inv

LEMMA Invariant == Spec => []Inv
<1>1. Inv /\ [Next]_vars => Inv'
  <2> SUFFICES ASSUME Inv, [Next]_vars PROVE Inv'
    OBVIOUS
  <2>1. CASE UNCHANGED vars
    BY <2>1 DEF vars, browserVars, buttonVars, backendVars, Inv, TypeInv, IdInv, CallInv, Known,
                Single
  <2>2. CASE Next
    BY <2>2, SetItemStep, ClickStep, ServeStep, SettleStep, OtherStep, ReloadStep, OrphanStep
    DEF Next
  <2> QED
    BY <2>1, <2>2
<1> QED
  BY InitInv, <1>1, PTL DEF Spec

(* A logger started from the only tab of a browser is the one its buttons   *)
(* reach, whatever was lost and whichever button made the clientId.         *)
THEOREM Reachable == Spec => []LoggerIsReachable
BY Invariant, InvImplies, PTL

(* An answered button of such a tab shows what the backend does.            *)
THEOREM ButtonIsRight == Spec => []AnsweredButtonIsRight
BY Invariant, InvImplies, PTL
-----------------------------------------------------------------------------
(* The live map, for any number of readings, polls and visits: the path has *)
(* coordinates of fixes only, and the view polls exactly while it is        *)
(* tracking.                                                                *)

\* What the handler may have read for a poll, and what may be drawn.
Answers(pos) ==
  {p \in [Coordinates -> Nat \cup {Unread}] :
     \A c \in Coordinates : p[c] = Unread \/ p[c] \in 0 .. pos[c]}

Points(pos) ==
  {p \in [Coordinates -> Nat \cup {Unread}] : \A c \in Coordinates : p[c] \in 1 .. pos[c]}

\* An answer on its way has coordinates the backend has had.
PollsInv ==
  /\ position \in [Coordinates -> Nat]
  /\ polls \in Seq({Done} \cup Answers(position))

MapInv ==
  /\ PollsInv
  /\ path \in Seq(Points(position))
  /\ isTracking \in BOOLEAN
  /\ PollsWhileTracking

LEMMA SeqSubset ==
  ASSUME NEW S, NEW T, S \subseteq T, NEW q \in Seq(S)
  PROVE  q \in Seq(T)
OBVIOUS

LEMMA SeqElement ==
  ASSUME NEW S, NEW q \in Seq(S), NEW i \in DOMAIN q
  PROVE  q[i] \in S
OBVIOUS

\* Drawing an answer keeps a path of fixes one.
LEMMA DrawKeeps ==
  ASSUME MapInv, NEW point \in Answers(position), \A c \in Coordinates : point[c] # Unread,
         NEW first, NEW tracking, Draw(point, first, tracking, path)
  PROVE  path' \in Seq(Points(position))
<1>1. \/ path' = path
      \/ (\A c \in Coordinates : point[c] # 0) /\ path' = Append(path, point)
  BY DEF Draw
<1>2. (\A c \in Coordinates : point[c] # 0) => point \in Points(position)
  BY DEF Answers, Points, MapInv, PollsInv
<1>3. path \in Seq(Points(position))
  BY DEF MapInv
<1> QED
  BY <1>1, <1>2, <1>3

\* The coordinates of the earlier fixes stay ones of fixes.
LEMMA NewReadingStep ==
  ASSUME MapInv, NEW c \in Coordinates, NewReading(c)
  PROVE  MapInv'
<1>1. position \in [Coordinates -> Nat] /\ position' = [position EXCEPT ![c] = @ + 1]
  BY DEF NewReading, MapInv, PollsInv
<1>2. /\ position' \in [Coordinates -> Nat]
      /\ \A d \in Coordinates : position'[d] >= position[d]
  BY <1>1
<1>3. Answers(position) \subseteq Answers(position') /\ Points(position) \subseteq Points(position')
  BY <1>1, <1>2 DEF Answers, Points
<1>4. polls' \in Seq({Done} \cup Answers(position'))
  <2>1. {Done} \cup Answers(position) \subseteq {Done} \cup Answers(position')
    BY <1>3
  <2>2. polls' = polls /\ polls \in Seq({Done} \cup Answers(position))
    BY DEF NewReading, MapInv, PollsInv
  <2> QED
    BY <2>1, <2>2, SeqSubset
<1>5. path' \in Seq(Points(position'))
  <2>1. path' = path /\ path \in Seq(Points(position))
    BY DEF NewReading, mapVars, MapInv
  <2> QED
    BY <1>3, <2>1, SeqSubset
<1>6. isTracking' = isTracking /\ intervals' = intervals
  BY DEF NewReading, viewVars
<1> QED
  BY <1>2, <1>4, <1>5, <1>6 DEF MapInv, PollsInv, PollsWhileTracking

LEMMA NewPoll ==
  ASSUME MapInv, fetchData
  PROVE  polls' \in Seq({Done} \cup Answers(position))
<1>1. [c \in Coordinates |-> Unread] \in Answers(position)
  BY DEF Answers
<1>2. polls \in Seq({Done} \cup Answers(position))
  BY DEF MapInv, PollsInv
<1>3. polls' = Append(polls, [c \in Coordinates |-> Unread])
  BY DEF fetchData
<1> QED
  BY <1>1, <1>2, <1>3

\* A poll that is sent, read for, answered, or over.
LEMMA PollStep ==
  ASSUME MapInv,
         \/ Poll
         \/ \E i \in DOMAIN polls :
              (\E c \in Coordinates : ServePoll(i, c)) \/ PollFails(i) \/ Receive(i)
  PROVE  MapInv'
<1>0. polls \in Seq({Done} \cup Answers(position)) /\ position \in [Coordinates -> Nat]
  BY DEF MapInv, PollsInv
<1>1. position' = position /\ isTracking' = isTracking /\ intervals' = intervals
  BY DEF Poll, ServePoll, PollFails, Receive, viewVars
<1>2. polls' \in Seq({Done} \cup Answers(position))
  <2>1. CASE Poll
    BY <2>1, NewPoll DEF Poll
  <2>2. ASSUME NEW i \in DOMAIN polls, polls' = [polls EXCEPT ![i] = Done]
        PROVE  polls' \in Seq({Done} \cup Answers(position))
    BY <1>0, <2>2
  <2>3. ASSUME NEW i \in DOMAIN polls, NEW c \in Coordinates, ServePoll(i, c)
        PROVE  polls' \in Seq({Done} \cup Answers(position))
    <3> DEFINE read == [polls[i] EXCEPT ![c] = position[c]]
    <3>1. polls[i] \in Answers(position)
      BY <1>0, <2>3, SeqElement DEF ServePoll
    <3>2. read \in Answers(position)
      BY <1>0, <3>1 DEF Answers
    <3>3. polls' = [polls EXCEPT ![i] = read]
      BY <2>3 DEF ServePoll
    <3> HIDE DEF read
    <3> QED
      BY <1>0, <3>2, <3>3
  <2> QED
    BY <2>1, <2>2, <2>3 DEF PollFails, Receive
<1>3. path' \in Seq(Points(position))
  <2>1. CASE path' = path
    BY <2>1 DEF MapInv
  <2>2. ASSUME NEW i \in DOMAIN polls, Receive(i) PROVE path' \in Seq(Points(position))
    <3>1. polls[i] \in Answers(position)
      BY <1>0, <2>2, SeqElement DEF Receive
    <3> QED
      BY <2>2, <3>1, DrawKeeps DEF Receive
  <2> QED
    BY <2>1, <2>2 DEF Poll, ServePoll, PollFails, mapVars
<1> QED
  BY <1>0, <1>1, <1>2, <1>3 DEF MapInv, PollsInv, PollsWhileTracking

\* The path is cleared before the position shown could be drawn.
LEMMA TrackingStep == MapInv /\ handleStart => MapInv'
<1> SUFFICES ASSUME MapInv, handleStart PROVE MapInv'
  OBVIOUS
<1>1. position' = position /\ path' = <<>> /\ isTracking' = TRUE /\ intervals' = 1
  BY DEF handleStart, Draw, MapInv, PollsWhileTracking
<1>2. polls' \in Seq({Done} \cup Answers(position))
  BY NewPoll DEF handleStart
<1>3. path' \in Seq(Points(position))
  BY <1>1
<1> QED
  BY <1>1, <1>2, <1>3 DEF MapInv, PollsInv, PollsWhileTracking

\* Stopping draws nothing.
LEMMA StopStep == MapInv /\ (handleStop \/ LoadingOver \/ ResetOver) => MapInv'
<1> SUFFICES ASSUME MapInv, handleStop \/ LoadingOver \/ ResetOver PROVE MapInv'
  OBVIOUS
<1>1. position' = position /\ polls' = polls /\ path' = path
  BY DEF handleStop, Draw, LoadingOver, ResetOver, mapVars
<1>2. \/ isTracking' = isTracking /\ intervals' = intervals
      \/ isTracking' = FALSE /\ intervals' = 0
  BY DEF handleStop, LoadingOver, ResetOver
<1>3. PollsInv' /\ path' \in Seq(Points(position'))
  BY <1>1 DEF MapInv, PollsInv
<1>4. isTracking' \in BOOLEAN /\ PollsWhileTracking'
  <2>1. CASE isTracking' = isTracking /\ intervals' = intervals
    BY <2>1 DEF MapInv, PollsWhileTracking
  <2>2. CASE isTracking' = FALSE /\ intervals' = 0
    BY <2>2 DEF PollsWhileTracking
  <2> QED
    BY <1>2, <2>1, <2>2
<1> QED
  BY <1>3, <1>4 DEF MapInv

LEMMA LeavePageStep == MapInv /\ Leave => MapInv'
<1> SUFFICES ASSUME MapInv, Leave PROVE MapInv'
  OBVIOUS
<1>1. polls' \in Seq({Done} \cup Answers(position)) /\ path' \in Seq(Points(position))
  BY DEF Leave, MapInv, PollsInv
<1>2. position' = position /\ isTracking' = FALSE /\ intervals' = 0
  BY DEF Leave
<1>3. PollsInv' /\ path' \in Seq(Points(position'))
  BY <1>1, <1>2 DEF MapInv, PollsInv
<1>4. isTracking' \in BOOLEAN /\ PollsWhileTracking'
  BY <1>2 DEF PollsWhileTracking
<1> QED
  BY <1>3, <1>4 DEF MapInv

LEMMA MapInvariant == MapSpec => []MapInv
<1>1. MapInit => MapInv
  <2>1. \A S : <<>> \in Seq(S)
    OBVIOUS
  <2> SUFFICES ASSUME MapInit PROVE MapInv
    OBVIOUS
  <2>2. /\ position \in [Coordinates -> Nat]
        /\ polls \in Seq({Done} \cup Answers(position)) /\ path \in Seq(Points(position))
    BY <2>1 DEF MapInit
  <2>3. isTracking = FALSE /\ intervals = 0
    BY DEF MapInit
  <2> QED
    BY <2>2, <2>3 DEF MapInv, PollsInv, PollsWhileTracking
<1>2. MapInv /\ [MapNext]_pollingVars => MapInv'
  <2> SUFFICES ASSUME MapInv, [MapNext]_pollingVars PROVE MapInv'
    OBVIOUS
  <2>1. CASE UNCHANGED pollingVars
    BY <2>1 DEF pollingVars, viewVars, mapVars, MapInv, PollsInv, PollsWhileTracking
  <2>2. CASE MapNext
    BY <2>2, NewReadingStep, PollStep, TrackingStep, StopStep, LeavePageStep DEF MapNext
  <2> QED
    BY <2>1, <2>2
<1> QED
  BY <1>1, <1>2, PTL DEF MapSpec

(* Both coordinates of a point of the path are of fixes, in whatever order  *)
(* the answers arrive and however the reads and the stores interleave.      *)
THEOREM FixesOnly == MapSpec => []PathHasFixes
<1>1. MapInv => PathHasFixes
  <2> SUFFICES ASSUME MapInv, NEW i \in DOMAIN path, NEW c \in Coordinates
               PROVE  path[i][c] \in 1 .. position[c]
    BY DEF PathHasFixes
  <2>1. path[i] \in Points(position)
    BY SeqElement DEF MapInv
  <2> QED
    BY <2>1 DEF Points
<1> QED
  BY <1>1, MapInvariant, PTL

(* No interval outlives the tracking, or runs twice.                        *)
THEOREM PollsExactly == MapSpec => []PollsWhileTracking
BY MapInvariant, PTL DEF MapInv
=============================================================================
