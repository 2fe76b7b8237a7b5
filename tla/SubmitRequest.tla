---------------------------- MODULE SubmitRequest -----------------------------
(***************************************************************************)
(* The page that submits a package (request.js:1-75).  It is prefilled by  *)
(* a request of its own, and asks, whenever another target project is      *)
(* noticed, for the requests the submission may supersede and for the      *)
(* devel project it bypasses; the answers come in any order.               *)
(*                                                                         *)
(* Prefilling and the name of the devel project set the attribute "value"  *)
(* of the target project: an input the user has written in ignores it.     *)
(* The description is set by .val, which replaces what is there.           *)
(***************************************************************************)
EXTENDS Integers

CONSTANTS
  SubmitProjects,
  Source,            \* the project of the package
  Linked,            \* the project it was branched from, None if it was not
  Devel,             \* of a project, the devel project of the package in it, or None
  Requested,         \* the projects with requests of this package
  NoProject,         \* no project, or less than three characters
  MaxSubmitRequests  \* bound on the questions of a kind and a project under way

ASSUME SubmitAssumption ==
  /\ Source \in SubmitProjects /\ Linked \in SubmitProjects \cup {NoProject}
  /\ NoProject \notin SubmitProjects
  /\ Devel \in [SubmitProjects -> SubmitProjects \cup {NoProject}]
  /\ Requested \subseteq SubmitProjects
  /\ MaxSubmitRequests \in Nat

VARIABLES
  target,         \* what the input shows
  written,        \* BOOLEAN: by the user
  description,    \* empty, typed by the user, or the log of the changes
  submitNoticed,  \* what it showed when it had no focus
  prefilling,     \* BOOLEAN
  lists,          \* of a project, the questions for requests under way
  devels,         \* of a project, those for the devel project
  submitList,     \* the project whose requests are shown, None if hidden
  warned,         \* BOOLEAN: the warning is shown
  name,           \* the devel project it names
  cleanup,        \* BOOLEAN: the checkbox to remove the source can be used
  submitExcused   \* history: see ShownForTarget

input == <<target, written, submitNoticed>>
submitVars  == <<input, description, prefilling, lists, devels, submitList, warned, name, cleanup, submitExcused>>

-----------------------------------------------------------------------------
SubmitMore(f, x) == [f EXCEPT ![x] = @ + 1]
SubmitLess(f, x) == [f EXCEPT ![x] = @ - 1]
Quiet      == \A p \in SubmitProjects : lists[p] = 0 /\ devels[p] = 0

\* an answer of kind f about p that comes after those about the noticed target
ComesAfter(f, p) == p # submitNoticed /\ (submitNoticed # NoProject => f[submitNoticed] = 0)

SubmitInit ==
  /\ target = NoProject /\ written = FALSE /\ submitNoticed = NoProject /\ prefilling = TRUE
  /\ description = "empty"
  /\ lists = [p \in SubmitProjects |-> 0] /\ devels = lists
  /\ submitList = NoProject /\ warned = FALSE /\ name = NoProject /\ cleanup = TRUE
  /\ submitExcused = FALSE

\* updateSupersedeAndDevelPackageDisplay, with p in the input
SubmitUpdate(p) ==
  /\ submitExcused' = (p # submitNoticed')
  /\ IF p = NoProject THEN UNCHANGED <<lists, devels, cleanup>>
     ELSE /\ lists[p] < MaxSubmitRequests /\ devels[p] < MaxSubmitRequests
          /\ cleanup' = (p # Source)
          /\ lists' = SubmitMore(lists, p) /\ devels' = SubmitMore(devels, p)

-----------------------------------------------------------------------------
(* The user.                                                                *)

SubmitType(p) ==
  /\ p # target /\ target' = p /\ written' = TRUE
  /\ UNCHANGED <<submitNoticed, description, prefilling, lists, devels, submitList, warned, name,
                 cleanup, submitExcused>>

\* the user writes the description, or clears it
Describe(d) ==
  /\ d # description /\ description' = d
  /\ UNCHANGED <<input, prefilling, lists, devels, submitList, warned, name, cleanup, submitExcused>>

\* autocompleteselect: the input shows what was typed until the handler is done,
\* or the selected project if it was reached with the keyboard
Select(p) ==
  /\ target' = p /\ written' = TRUE /\ UNCHANGED submitNoticed
  /\ \E q \in {target, p} : SubmitUpdate(q)
  /\ UNCHANGED <<description, prefilling, submitList, warned, name>>

\* autocompletechange: the input loses the focus, and was changed in between
Leave ==
  /\ submitNoticed # target /\ submitNoticed' = target
  /\ SubmitUpdate(target)
  /\ UNCHANGED <<target, written, description, prefilling, submitList, warned, name>>

\* click on the name of the devel project
NameClicked ==
  /\ warned
  /\ IF written THEN UNCHANGED <<target, submitNoticed, submitExcused>>
     ELSE target' = name /\ submitNoticed' = name /\ submitExcused' = TRUE
  /\ UNCHANGED <<written, description, prefilling, lists, devels, submitList, warned, name, cleanup>>

-----------------------------------------------------------------------------
(* The answers.                                                             *)

\* prefillSubmitRequestForm; the description becomes the log of the changes, or
\* is emptied if the package is no branch or has no log, and the page asks for what
\* the input of the target project shows
Prefilled ==
  LET p == IF written THEN target ELSE Linked IN
  /\ prefilling /\ prefilling' = FALSE
  /\ target' = p /\ submitNoticed' = IF written THEN submitNoticed ELSE p
  /\ description' \in IF Linked = NoProject THEN {"empty"} ELSE {"empty", "log"}
  /\ SubmitUpdate(p)
  /\ UNCHANGED <<written, submitList, warned, name>>

PrefillFails ==
  /\ prefilling /\ prefilling' = FALSE
  /\ UNCHANGED <<input, description, lists, devels, submitList, warned, name, cleanup, submitExcused>>

\* Mutant: "No requests" leaves the display alone.
ListAnsweredIfAny(p) ==
  /\ lists[p] > 0 /\ lists' = SubmitLess(lists, p)
  /\ submitList' = IF p \in Requested THEN p ELSE submitList
  /\ submitExcused' = (submitExcused \/ ComesAfter(lists, p))
  /\ UNCHANGED <<input, description, prefilling, devels, warned, name, cleanup>>

ListAnswered(p) ==
  /\ lists[p] > 0 /\ lists' = SubmitLess(lists, p)
  /\ submitList' = IF p \in Requested THEN p ELSE NoProject
  /\ submitExcused' = (submitExcused \/ ComesAfter(lists, p))
  /\ UNCHANGED <<input, description, prefilling, devels, warned, name, cleanup>>

DevelAnswered(p) ==
  /\ devels[p] > 0 /\ devels' = SubmitLess(devels, p)
  /\ warned' = (Devel[p] # NoProject) /\ name' = IF warned' THEN Devel[p] ELSE name
  /\ submitExcused' = (submitExcused \/ ComesAfter(devels, p))
  /\ UNCHANGED <<input, description, prefilling, lists, submitList, cleanup>>

QuestionFails(p) ==
  /\ \/ lists[p] > 0 /\ lists' = SubmitLess(lists, p) /\ devels' = devels
     \/ devels[p] > 0 /\ devels' = SubmitLess(devels, p) /\ lists' = lists
  /\ submitExcused' = (submitExcused \/ p = submitNoticed)
  /\ UNCHANGED <<input, description, prefilling, submitList, warned, name, cleanup>>

SubmitNext ==
  \/ \E p \in SubmitProjects \cup {NoProject} : SubmitType(p)
  \/ \E d \in {"empty", "typed"} : Describe(d)
  \/ \E p \in SubmitProjects : \/ Select(p)
                         \/ ListAnswered(p) \/ DevelAnswered(p) \/ QuestionFails(p)
  \/ Leave \/ NameClicked \/ Prefilled \/ PrefillFails

SubmitSpec == SubmitInit /\ [][SubmitNext]_submitVars

-----------------------------------------------------------------------------
(* Properties.                                                              *)

\* The type invariant of the page.
SubmitTypeOK ==
  /\ target \in SubmitProjects \cup {NoProject} /\ submitNoticed \in SubmitProjects \cup {NoProject}
  /\ description \in {"empty", "typed", "log"}
  /\ written \in BOOLEAN /\ prefilling \in BOOLEAN /\ warned \in BOOLEAN
  /\ lists \in [SubmitProjects -> 0..MaxSubmitRequests]
  /\ devels \in [SubmitProjects -> 0..MaxSubmitRequests]
  /\ submitList \in SubmitProjects \cup {NoProject} /\ name \in SubmitProjects \cup {NoProject}
  /\ cleanup \in BOOLEAN /\ submitExcused \in BOOLEAN

\* Once the questions about the target are answered, the page shows what there is
\* to know of it, be it prefilled, typed or selected: the requests it may supersede,
\* the devel project it bypasses, and whether the source can be removed
\* (request.js:3-44).  Other questions may be under way, and answers come in any
\* order: excused is only a target whose answers were followed by one about
\* another target, as the page shows the answer that comes last, or about which a
\* question failed; one that is no more, or not yet, the one in the input; and the
\* devel project the page itself has filled in.
ShownForTarget ==
  ~submitExcused /\ target = submitNoticed /\ target # NoProject =>
    /\ lists[target] = 0 => submitList = IF target \in Requested THEN target ELSE NoProject
    /\ devels[target] = 0 => /\ warned = (Devel[target] # NoProject)
                             /\ warned => name = Devel[target]
    /\ cleanup = (target # Source)

\* The target project the user wrote stays: neither the late answer of prefilling
\* nor the name of a devel project replaces it (request.js:51, 73).
WrittenStays ==
  [][written => target' = target \/ \E p \in SubmitProjects \cup {NoProject} : SubmitType(p) \/ Select(p)]_submitVars

\* The same of the description, which the late answer of prefilling does replace
\* (request.js:74).
DescriptionStays ==
  [][description = "typed" => description' = "typed" \/ Describe("empty")]_submitVars

\* "You are about to bypass the devel project, please submit to X instead"
\* (requests/submissions/new.html.haml:52): the target is not X itself.
WarnsOfBypass == warned /\ target = submitNoticed /\ Quiet => target # name
===============================================================================
