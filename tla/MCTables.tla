------------------------------ MODULE MCTables --------------------------------
(* One instance for TLC of the pages with lists and tables that answers of the *)
(* server change in place.  A window of the browser shows one of them, the     *)
(* others keep the state they start in: a fixed one, so that nothing is        *)
(* checked twice.  Where a page would be too large, a visit is to a part of    *)
(* it, and Next says which.                                                    *)
EXTENDS MonitorWorkers, RepositoryPicker, Patchinfo, RoleBoxes, FlagTable, Tabs

CONSTANTS
  Visits,              \* the pages, or parts of them, that are visited
  p1, p2, standard, bare    \* projects and names of repositories
VARIABLE visit

MCHost         == [w \in Workers |-> "h1"]
MCProjects     == {p1, p2}
MCBuildable    == {<<p1, standard>>, <<p2, standard>>}
MCRepositories == MCBuildable \cup {<<p2, bare>>}
MCOrder        == <<"t1", "t2", "t3">>

vars == <<visit, monitorVars, pickerVars, patchVars, roleVars, flagVars, tabVars>>

-----------------------------------------------------------------------------
Init ==
  /\ visit \in Visits
  /\ MonitorInit /\ (visit # "monitor" => DOMAIN monitorServer = {})
  /\ PickerInit
  /\ PatchInit   /\ (visit # "binaries" => chosen = {})
  /\ RoleInit    /\ (visit # "boxes" => \A c \in granted : c[1] = Self)
                 /\ (visit # "roles" => \A c \in granted : c[2] = "maintainer")
  /\ FlagInit    /\ \A t \in Types : visit # "cells" \/ t # "build" =>
                       \A c \in FlagCells : flags[t][c] = "unset"
  /\ TabInit     /\ (visit # "tabs" => hash = "" /\ slots = Order)

Next ==
  \/ /\ visit = "monitor" /\ MonitorNext
     /\ UNCHANGED <<visit, pickerVars, patchVars, roleVars, flagVars, tabVars>>
  \/ /\ visit = "picker" /\ PickerNext /\ \A p \in PickerProjects : fetching'[<<p, bare>>] = 0
     /\ UNCHANGED <<visit, monitorVars, patchVars, roleVars, flagVars, tabVars>>
  \/ /\ visit = "bare" /\ PickerNext /\ \A p \in PickerProjects : fetching'[<<p, standard>>] = 0
     /\ UNCHANGED <<visit, monitorVars, patchVars, roleVars, flagVars, tabVars>>
  \/ /\ visit = "issues" /\ PatchNext
     /\ UNCHANGED <<available, chosen, marked>>
     /\ UNCHANGED <<visit, monitorVars, pickerVars, roleVars, flagVars, tabVars>>
  \/ /\ visit = "binaries" /\ PatchNext
     /\ UNCHANGED <<typed, adds>>
     /\ UNCHANGED <<visit, monitorVars, pickerVars, roleVars, flagVars, tabVars>>
  \/ /\ visit = "boxes" /\ RoleNext
     /\ \A i \in DOMAIN roleRequests' : roleRequests'[i].cell[2] = "maintainer"
     /\ UNCHANGED <<visit, monitorVars, pickerVars, patchVars, flagVars, tabVars>>
  \/ /\ visit = "roles" /\ RoleNext
     /\ \A i \in DOMAIN roleRequests' : roleRequests'[i].cell[1] = Self
     /\ UNCHANGED <<visit, monitorVars, pickerVars, patchVars, flagVars, tabVars>>
  \/ /\ visit = "flags" /\ FlagNext
     /\ flagFailures' = 0 /\ Cardinality(popovers') <= 1 /\ \A p \in popovers' : p.cell = <<All, All>>
     /\ UNCHANGED <<visit, monitorVars, pickerVars, patchVars, roleVars, tabVars>>
  \/ /\ visit = "cells" /\ FlagNext
     /\ Cardinality(DOMAIN flagRequests') <= 1 /\ Cardinality(popovers') <= 1
     /\ \A p \in popovers' : p.type = "build"
     /\ UNCHANGED <<visit, monitorVars, pickerVars, patchVars, roleVars, tabVars>>
  \/ /\ visit = "tabs" /\ TabNext
     /\ UNCHANGED <<visit, monitorVars, pickerVars, patchVars, roleVars, flagVars>>

Spec == Init /\ [][Next]_vars

\* The type invariants of the pages.
TablesTypeOK ==
  MonitorTypeOK /\ PickerTypeOK /\ PatchTypeOK /\ RoleTypeOK /\ FlagTypeOK /\ TabTypeOK

\* What a step of a page may never do: drop a repository (autocomplete.js:141)
\* or binaries that are not selected (patchinfo.js:117), do other than an option
\* promised (repositories.js:17), leave more tabs than there is room for (tabs.js:22).
TableSteps == NoneDropped /\ SavesTheList /\ PromiseKept /\ FitsAfterResize
===============================================================================
