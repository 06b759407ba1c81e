----------------------------- MODULE LogService -----------------------------
(***************************************************************************)
(* What the logging part of the backend promises its clients, without      *)
(* threads: sessions that start, log and stop, and files to download.      *)
(*                                                                         *)
(* Requests are served one after the other: asker asks, and what it asked  *)
(* for takes effect in one step.  A line that was logged is unsaved until  *)
(* it is on disk; stop returns when every line of the session is.  A crash *)
(* loses the sessions and the unsaved lines, and no file.                  *)
(***************************************************************************)
EXTENDS Sequences

CONSTANTS
  Clients,
  Paths,  \* the files: <<client, stamp>>
  Lines,
  None

VARIABLES
  session,  \* session[c]: the file of the last session of c, or None
  logging,  \* the clients whose session is going on
  asker,    \* the client whose request is being served
  reply,    \* how its download was answered
  exists,   \* the files there are
  saved,    \* saved[p]: the lines a download of p gets
  unsaved   \* unsaved[p]: those it does not get yet

lvars == <<session, logging, asker, reply, exists, saved, unsaved>>
linesVars == <<exists, saved, unsaved>>

Init ==
  /\ session = [c \in Clients |-> None]
  /\ logging = {}
  /\ asker = None
  /\ reply = "none"
  /\ exists = {}
  /\ saved = [p \in Paths |-> <<>>]
  /\ unsaved = [p \in Paths |-> <<>>]

Ask(c) ==
  /\ asker' = c
  /\ reply' = "none"
  /\ UNCHANGED <<session, logging, linesVars>>

Start(p) ==
  /\ asker \notin logging
  /\ p[1] = asker
  /\ session' = [session EXCEPT ![asker] = p]
  /\ logging' = logging \cup {asker}
  /\ UNCHANGED <<asker, reply, linesVars>>

Stop ==
  /\ asker \in logging
  /\ unsaved[session[asker]] = <<>>
  /\ logging' = logging \ {asker}
  /\ UNCHANGED <<session, asker, reply, linesVars>>

Download ==
  /\ asker \in Clients
  /\ reply = "none"
  /\ reply' = IF session[asker] \in exists THEN "file" ELSE "notFound"
  /\ UNCHANGED <<session, logging, asker, linesVars>>

Log(c, line) ==
  LET p == session[c]
  IN  /\ exists' = exists \cup {p}
      /\ \/ /\ unsaved' = [unsaved EXCEPT ![p] = Append(@, line)]
            /\ UNCHANGED saved
         \/ /\ saved' = [saved EXCEPT ![p] = @ \o unsaved[p]]
            /\ unsaved' = [unsaved EXCEPT ![p] = <<line>>]
      /\ UNCHANGED <<session, logging, asker, reply>>

Save(c) ==
  LET p == session[c]
  IN  /\ saved' = [saved EXCEPT ![p] = @ \o unsaved[p]]
      /\ unsaved' = [unsaved EXCEPT ![p] = <<>>]
      /\ UNCHANGED <<session, logging, asker, reply, exists>>

Crash ==
  /\ session' = [c \in Clients |-> None]
  /\ logging' = {}
  /\ asker' = None
  /\ reply' = "none"
  /\ unsaved' = [p \in Paths |-> <<>>]
  /\ UNCHANGED <<exists, saved>>

Next ==
  \/ \E c \in Clients : Ask(c)
  \/ \E p \in Paths : Start(p)
  \/ Stop \/ Download
  \/ \E c \in logging : Save(c) \/ \E line \in Lines : Log(c, line)
  \/ Crash

Spec == Init /\ [][Next]_lvars
=============================================================================
