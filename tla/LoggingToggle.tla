--------------------------- MODULE LoggingToggle ---------------------------
(***************************************************************************)
(* The logging and the download button of the frontend's Header, one each  *)
(* per tab, the clientId that the tabs of a browser share in localStorage, *)
(* and whether LogManager has a logger for a clientId.  A request or its   *)
(* answer can be lost, and a tab can be reloaded.                          *)
(*                                                                         *)
(* A browser has no clientId until one of its tabs makes one; it is named  *)
(* by that tab.  Scripts of two tabs run side by side: localStorage can    *)
(* change between a tab's getItem and its setItem.                         *)
(***************************************************************************)
EXTENDS Naturals

CONSTANTS
  Browsers,
  Tabs,
  MaxFaults,  \* bounds the requests that fail or are cut off
  None        \* no clientId

ASSUME ToggleAssumption == MaxFaults \in Nat /\ None \notin Tabs

VARIABLES
  browserOf,      \* the browser of a tab, the same for ever
  localStorage,   \* localStorage[b]: the clientId of a browser
  isLogging,      \* what a tab's button shows
  alertShownRef,
  call,           \* the request of its button: "start", "stop", or "none": not loading
  clientId,       \* the clientId of that request; None before getClientId has one
  served,         \* the backend has handled that request
  download,       \* "none": not downloadLoading, "naming": in getClientId, "asked"
  success,        \* the last toast of the button is a success
  orphans,        \* requests a tab has given up: <<clientId, "start" or "stop">>
  interrupted,    \* history: the tabs that gave up a request which may be served later
  active,         \* LogManager has a logger for the clientId
  faults

browserVars == <<browserOf, localStorage>>
buttonVars == <<isLogging, alertShownRef, call, clientId, served, success>>
backendVars == <<orphans, interrupted, active>>
vars == <<browserVars, buttonVars, download, backendVars, faults>>

Set(f, t, x) == [f EXCEPT ![t] = x]

StoredId(t) == localStorage[browserOf[t]]

Init ==
  /\ browserOf \in [Tabs -> Browsers]
  /\ localStorage = [b \in Browsers |-> None]
  /\ isLogging = [t \in Tabs |-> FALSE]
  /\ alertShownRef = [t \in Tabs |-> FALSE]
  /\ call = [t \in Tabs |-> "none"]
  /\ clientId = [t \in Tabs |-> None]
  /\ served = [t \in Tabs |-> FALSE]
  /\ download = [t \in Tabs |-> "none"]
  /\ success = [t \in Tabs |-> FALSE]
  /\ orphans = {} /\ interrupted = {}
  /\ active = [id \in Tabs |-> FALSE]
  /\ faults = 0
-----------------------------------------------------------------------------
(* The clientId: getItem is part of the click, setItem a step of its own. *)

\* The tab's script is between getItem, which found nothing, and setItem.
Naming(t) ==
  \/ call[t] # "none" /\ clientId[t] = None
  \/ download[t] = "naming"

Generated(t) ==
  /\ Naming(t)
  /\ IF download[t] = "naming"
       THEN download' = Set(download, t, "asked") /\ UNCHANGED clientId
       ELSE clientId' = Set(clientId, t, t) /\ UNCHANGED download
  /\ UNCHANGED <<isLogging, alertShownRef, call, served, success, backendVars, faults>>

\* A getClientId that forgets its setItem.
SetItemForgotten(t) == Generated(t) /\ UNCHANGED browserVars

SetItem(t) ==
  /\ Generated(t)
  /\ localStorage' = Set(localStorage, browserOf[t], t)
  /\ UNCHANGED browserOf
-----------------------------------------------------------------------------
(* The logging button. *)

\* handleLoggingToggle up to its await, or to the setItem of getClientId.
Click(t) ==
  /\ ~alertShownRef[t] /\ call[t] = "none" /\ ~Naming(t)
  /\ alertShownRef' = Set(alertShownRef, t, TRUE)
  /\ call' = Set(call, t, IF isLogging[t] THEN "stop" ELSE "start")
  /\ clientId' = Set(clientId, t, StoredId(t))
  /\ UNCHANGED <<browserVars, isLogging, served, success, download, backendVars, faults>>

\* LogManager::startLogging or stopLogging.
Handled(id, request) == active' = Set(active, id, request = "start")

Serve(t) ==
  /\ clientId[t] # None /\ call[t] # "none" /\ ~served[t]
  /\ Handled(clientId[t], call[t])
  /\ served' = Set(served, t, TRUE)
  /\ UNCHANGED <<browserVars, isLogging, alertShownRef, call, clientId, success, download,
                 orphans, interrupted, faults>>

RequestOver(t) ==
  /\ call' = Set(call, t, "none")
  /\ clientId' = Set(clientId, t, None)
  /\ served' = Set(served, t, FALSE)

\* After the await: the handler leaves the button with what it shows.
Settle(t, shows, answered) ==
  /\ call[t] # "none" /\ ~Naming(t)
  /\ isLogging' = Set(isLogging, t, shows)
  /\ success' = Set(success, t, answered)
  /\ RequestOver(t)
  /\ UNCHANGED <<browserVars, alertShownRef, download, active>>

\* A handler whose two branches end in the same way.
AnsweredAsStarted(t) ==
  served[t] /\ Settle(t, TRUE, TRUE) /\ UNCHANGED <<orphans, interrupted, faults>>

Answered(t) ==
  served[t] /\ Settle(t, call[t] = "start", TRUE) /\ UNCHANGED <<orphans, interrupted, faults>>

Fault == faults < MaxFaults /\ faults' = faults + 1

\* The tab no longer waits for its request, which the backend can still serve.
GivesUp(t) ==
  /\ ~served[t]
  /\ orphans' = orphans \cup {<<clientId[t], call[t]>>}
  /\ interrupted' = interrupted \cup {t}

\* fetch rejects; the request was handled, or never will be, or is on its way.
Fails(t) ==
  /\ Settle(t, call[t] = "stop", FALSE)
  /\ UNCHANGED <<orphans, interrupted>> \/ GivesUp(t)
  /\ Fault

\* A handler that forgets its setTimeout.
AlertOverForgotten(t) == FALSE /\ UNCHANGED vars

\* The setTimeout of 1000 ms.
AlertOver(t) ==
  /\ alertShownRef[t] /\ call[t] = "none"
  /\ alertShownRef' = Set(alertShownRef, t, FALSE)
  /\ UNCHANGED <<browserVars, isLogging, call, clientId, served, success, download,
                 backendVars, faults>>
-----------------------------------------------------------------------------
(* The download button.  What the backend answers is in LogDevicesData. *)

Download(t, from, to) ==
  /\ download[t] = from
  /\ download' = Set(download, t, to)
  /\ UNCHANGED <<browserVars, buttonVars, backendVars>>

\* downloadData up to its await, or to the setItem of getClientId.
ClickDownload(t) ==
  /\ ~Naming(t)
  /\ Download(t, "none", IF StoredId(t) = None THEN "naming" ELSE "asked")
  /\ UNCHANGED faults

\* A file or a 404 arrives; or fetch rejects.  The button is enabled in any case.
Downloaded(t) == ~Naming(t) /\ Download(t, "asked", "none") /\ (UNCHANGED faults \/ Fault)
-----------------------------------------------------------------------------
(* Reloading. *)

\* The component's state starts anew; a request under way stays under way.
Reload(t) ==
  /\ ~Naming(t)
  /\ isLogging' = Set(isLogging, t, FALSE)
  /\ alertShownRef' = Set(alertShownRef, t, FALSE)
  /\ RequestOver(t)
  /\ success' = Set(success, t, FALSE)
  /\ download' = Set(download, t, "none")
  /\ IF call[t] # "none" /\ ~served[t]
       THEN Fault /\ GivesUp(t)
       ELSE UNCHANGED <<orphans, interrupted, faults>>
  /\ UNCHANGED <<browserVars, active>>

ServeOrphan(request) ==
  /\ Handled(request[1], request[2])
  /\ orphans' = orphans \ {request}
  /\ UNCHANGED <<browserVars, buttonVars, download, interrupted, faults>>
-----------------------------------------------------------------------------
Next ==
  \/ \E t \in Tabs :
       \/ Click(t) \/ SetItem(t) \/ Serve(t) \/ Answered(t) \/ Fails(t) \/ AlertOver(t)
       \/ ClickDownload(t) \/ Downloaded(t) \/ Reload(t)
  \/ \E request \in orphans : ServeOrphan(request)

Spec == Init /\ [][Next]_vars

(* A script runs on, the backend handles what it receives, its answer       *)
(* arrives or the fetch fails, and the timer fires.  Nobody has to click.   *)
FairSpec ==
  /\ Spec
  /\ \A t \in Tabs :
       /\ WF_vars(SetItem(t) \/ Serve(t) \/ Answered(t) \/ Fails(t) \/ AlertOver(t))
       /\ WF_vars(SetItem(t) \/ Downloaded(t))
-----------------------------------------------------------------------------
\* The only tab of its browser.
Single(t) == \A other \in Tabs : browserOf[other] = browserOf[t] => other = t

(* In a browser with one tab, a button whose last request was answered      *)
(* shows what the backend does, whatever failed before, whatever other      *)
(* browsers do, and also after a reload, unless the tab has given up a      *)
(* request, by the reload or for an error, that the backend had not handled *)
(* and may handle after later ones.                                         *)
AnsweredButtonIsRight ==
  \A t \in Tabs \ interrupted :
    Single(t) /\ call[t] = "none" /\ success[t]
      => isLogging[t] = active[StoredId(t)]

(* A logger that a single tab has started runs under the clientId that the  *)
(* browser has stored, and can be stopped: also when the answer was lost,   *)
(* when the page was reloaded, and when the two buttons made the clientId.  *)
LoggerIsReachable == \A t \in Tabs : Single(t) /\ active[t] => StoredId(t) = t

(* A button that was pressed can be pressed again.                          *)
ButtonComesBack ==
  \A t \in Tabs :
    /\ alertShownRef[t] ~> ~alertShownRef[t] /\ call[t] = "none"
    /\ download[t] # "none" ~> download[t] = "none"
=============================================================================
