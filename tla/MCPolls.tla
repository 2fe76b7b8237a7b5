------------------------------- MODULE MCPolls --------------------------------
(* One instance for TLC of the pages that ask the server again and again or    *)
(* set timers: the live log, the panels of results and the notifications.  A   *)
(* window of the browser shows one of them, the others keep the state they     *)
(* start in: their fixed one, so that nothing is checked twice.                *)
EXTENDS LiveLog, Panel, Notifications

CONSTANT Visits   \* what is done in the window: see Next
VARIABLE visit

vars == <<visit, logVars, panelVars, noteVars>>

Log    == visit \in {"log", "chains"}
Panels == visit = "panels"
Notes  == visit \in {"notes", "updates", "filters"}

Init ==
  /\ visit \in Visits
  /\ LogInit   /\ (visit = "chains" => size <= 1)
               /\ (~Log    => code = "building" /\ size = 0 /\ tracked = CHOOSE r \in Slots : TRUE)
  /\ PanelInit /\ (~Panels => kind = Chart /\ panelChoice = CHOOSE c \in Choices : TRUE)
  /\ NoteInit  /\ (visit = "updates" \/ ~Notes => filter.boxes = {})

\* a long log read by one chain of requests, a short one by several; one update at
\* a time with some of the filters, several without, filters without updates
Next ==
  \/ /\ visit = "log" /\ LogNext /\ ~overlap'
     /\ UNCHANGED <<visit, panelVars, noteVars>>
  \/ /\ visit = "chains" /\ LogNext /\ size' <= 1 /\ trouble' = 0
     /\ UNCHANGED <<visit, panelVars, noteVars>>
  \/ /\ visit = "panels" /\ PanelNext
     /\ UNCHANGED <<visit, logVars, noteVars>>
  \/ /\ visit = "notes" /\ NoteNext /\ inputs'.date = None /\ inputs'.text = None /\ ~cancelled'
     /\ Cardinality(DOMAIN noteRequests') <= 1
     /\ UNCHANGED <<visit, logVars, panelVars>>
  \/ /\ visit = "updates" /\ NoteNext /\ inputs' = inputs /\ ~timer' /\ ~cancelled'
     /\ UNCHANGED <<visit, logVars, panelVars>>
  \/ /\ visit = "filters" /\ NoteNext /\ checked' = {} /\ noteRequests' = noteRequests
     /\ UNCHANGED <<visit, logVars, panelVars>>

Spec == Init /\ [][Next]_vars

\* the fairness of each page, for the page that is visited
Fairness ==
  /\ \A r \in Slots : WF_logVars(Log /\ Answer(r)) /\ WF_logVars(Log /\ Execute(r))
  /\ WF_logVars(Log /\ TimerExpires)
  /\ \A i \in PanelIds : /\ WF_panelVars(Panels /\ i \in PanelUnder /\ PanelHandle(i))
                         /\ WF_panelVars(Panels /\ i \in PanelUnder /\ Success(i))
  /\ WF_panelVars(Panels /\ kind.periodic /\ Reload)
  /\ WF_noteVars(Notes /\ SubmitFilters) /\ WF_noteVars(Notes /\ Load)

FairSpec == Spec /\ Fairness

\* The type invariants of the three pages.
TypesOK == LogTypeOK /\ PanelTypeOK /\ NoteTypeOK
===============================================================================
