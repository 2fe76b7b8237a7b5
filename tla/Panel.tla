-------------------------------- MODULE Panel ---------------------------------
(***************************************************************************)
(* A part of a page that is fetched again and again, with what the user    *)
(* has chosen as the parameters: the plots of the monitor (monitor.js),    *)
(* the build results of a project or package (buildresult.js), those of a  *)
(* request (build_results.js) and their chart (chart_build_results.js),    *)
(* the rpmlint log (rpm_lint_results.js), the changes of a request         *)
(* (request.js:127).  They differ in when they are fetched and in what     *)
(* becomes of the spinner and the content if the request fails: kind.      *)
(*                                                                         *)
(* Answers come in any order.  What is fetched is known by the choice it   *)
(* was asked for and by the number of changes at the server.               *)
(***************************************************************************)
EXTENDS Integers, FiniteSets

CONSTANTS
  Choices,
  MaxPanelRequests,  \* bound on the requests under way
  MaxChanges,        \* bound on the changes of the choice
  MaxVersion,        \* bound on the changes at the server
  MaxPanelFailures   \* bound on the requests that fail

ASSUME PanelAssumption ==
  /\ MaxPanelRequests \in Nat \ {0} /\ {MaxChanges, MaxVersion, MaxPanelFailures} \subseteq Nat

VARIABLES
  kind,           \* which of the panels it is
  panelChoice,
  version,        \* at the server
  panelRequests,  \* of an identity under way, what was asked for and answered
  content,        \* what is shown
  spinning,
  changes, panelFailures,
  panelOverlap,   \* history: a request was sent while another was under way
  panelAstray     \* history: see ShowsChoice

panelVars == <<kind, panelChoice, version, panelRequests, content, spinning, changes,
               panelFailures, panelOverlap, panelAstray>>

-----------------------------------------------------------------------------
\* how they differ: fetched at an interval, chosen from, folded by the user in
\* the content, what stops the spinner, whether a message shows a failure
Plots   == [periodic |-> TRUE,  chooses |-> TRUE,  folds |-> FALSE, until |-> "success",  tells |-> FALSE]
Results == [periodic |-> FALSE, chooses |-> TRUE,  folds |-> TRUE,  until |-> "complete", tells |-> TRUE]
Chart   == [periodic |-> FALSE, chooses |-> FALSE, folds |-> FALSE, until |-> "complete", tells |-> TRUE]
Diff    == [periodic |-> FALSE, chooses |-> FALSE, folds |-> FALSE, until |-> "success",  tells |-> TRUE]
Rpmlint == [periodic |-> FALSE, chooses |-> TRUE,  folds |-> FALSE, until |-> "start",    tells |-> TRUE]
Kinds   == {Plots, Results, Chart, Diff, Rpmlint}
Spinner == kind.until # "start"    \* the page has one

PanelIds     == 1..MaxPanelRequests
PanelRequest == [choice: Choices, pc: {"sent", "answered"}, version: 0..MaxVersion]
PanelUnder   == DOMAIN panelRequests
Nothing == <<"nothing">>
Message == <<"message">>
Content == (Choices \X (0..MaxVersion)) \cup {Nothing, Message}

PanelSent(c) == [choice |-> c, pc |-> "sent", version |-> 0]
PanelWithout(i) == [j \in PanelUnder \ {i} |-> panelRequests[j]]

\* a request under way, but for i, is for what is chosen
AskedWithout(i) == \E j \in PanelUnder \ {i} : panelRequests[j].choice = panelChoice

\* the page opens with a request under way
PanelInit ==
  /\ kind \in Kinds /\ panelChoice \in Choices /\ version = 0
  /\ panelRequests = [i \in {1} |-> PanelSent(panelChoice)]
  /\ content = Nothing /\ spinning = Spinner
  /\ changes = 0 /\ panelFailures = 0
  /\ panelOverlap = FALSE /\ panelAstray = FALSE

Fetch(c) ==
  \E i \in PanelIds \ PanelUnder :
    /\ \A j \in PanelIds \ PanelUnder : i <= j
    /\ panelRequests' = [j \in PanelUnder \cup {i} |-> IF j = i THEN PanelSent(c) ELSE panelRequests[j]]
    /\ spinning' = Spinner /\ panelOverlap' = (PanelUnder # {}) /\ panelAstray' = FALSE

\* Mutant: the choice is remembered, and the interval is to fetch it.
ChooseLater(c) ==
  /\ kind.chooses /\ c # panelChoice /\ changes < MaxChanges /\ changes' = changes + 1
  /\ panelChoice' = c
  /\ UNCHANGED <<kind, version, panelRequests, content, spinning, panelFailures,
                 panelOverlap, panelAstray>>

Choose(c) ==
  /\ kind.chooses /\ c # panelChoice /\ changes < MaxChanges /\ changes' = changes + 1
  /\ panelChoice' = c /\ Fetch(c)
  /\ UNCHANGED <<kind, version, content, panelFailures>>

\* Mutant: folding renders the choice alone.
FoldAlone(c) ==
  /\ kind.folds /\ content \in Choices \X (0..MaxVersion)
  /\ c # panelChoice /\ changes < MaxChanges /\ changes' = changes + 1
  /\ panelChoice' = c /\ content' = <<c>>
  /\ panelAstray' = FALSE
  /\ UNCHANGED <<kind, version, panelRequests, spinning, panelFailures, panelOverlap>>

\* folded in the content itself: the next request tells the server of it, an
\* answer under way does not know
Fold(c) ==
  /\ kind.folds /\ content \in Choices \X (0..MaxVersion)
  /\ c # panelChoice /\ changes < MaxChanges /\ changes' = changes + 1
  /\ panelChoice' = c /\ content' = <<c, content[2]>>
  /\ panelAstray' = FALSE
  /\ UNCHANGED <<kind, version, panelRequests, spinning, panelFailures, panelOverlap>>

\* Mutant: the page fetches what it fetched first.
ReloadShown ==
  /\ Fetch(IF content \in {Nothing, Message} THEN panelChoice ELSE content[1])
  /\ UNCHANGED <<kind, panelChoice, version, content, changes, panelFailures>>

\* the interval, or the button
Reload ==
  /\ Fetch(panelChoice)
  /\ UNCHANGED <<kind, panelChoice, version, content, changes, panelFailures>>

Change ==
  /\ version < MaxVersion /\ version' = version + 1
  /\ UNCHANGED <<kind, panelChoice, panelRequests, content, spinning, changes,
                 panelFailures, panelOverlap, panelAstray>>

PanelHandle(i) ==
  /\ panelRequests[i].pc = "sent"
  /\ panelRequests' = [panelRequests EXCEPT ![i].pc = "answered", ![i].version = version]
  /\ UNCHANGED <<kind, panelChoice, version, content, spinning, changes, panelFailures,
                 panelOverlap, panelAstray>>

Success(i) ==
  /\ panelRequests[i].pc = "answered"
  /\ panelRequests' = PanelWithout(i)
  /\ content' = <<panelRequests[i].choice, panelRequests[i].version>> /\ spinning' = FALSE
  /\ panelAstray' = (panelRequests[i].choice # panelChoice /\ ~AskedWithout(i))
  /\ UNCHANGED <<kind, panelChoice, version, changes, panelFailures, panelOverlap>>

Error(i) ==
  /\ panelFailures < MaxPanelFailures /\ panelFailures' = panelFailures + 1
  /\ panelRequests' = PanelWithout(i)
  /\ content' = IF kind.tells THEN Message ELSE content
  /\ spinning' = IF kind.until = "complete" THEN FALSE ELSE spinning
  /\ panelAstray' =
       (~kind.tells /\ (panelAstray \/ (panelRequests[i].choice = panelChoice /\ ~AskedWithout(i))))
  /\ UNCHANGED <<kind, panelChoice, version, changes, panelOverlap>>

PanelNext ==
  \/ \E c \in Choices : Choose(c) \/ Fold(c)
  \/ Reload \/ Change
  \/ \E i \in PanelUnder : PanelHandle(i) \/ Success(i) \/ Error(i)

PanelSpec == PanelInit /\ [][PanelNext]_panelVars

\* A request is answered, and the interval goes off.
PanelFairness ==
  /\ \A i \in PanelIds : /\ WF_panelVars(i \in PanelUnder /\ PanelHandle(i))
                         /\ WF_panelVars(i \in PanelUnder /\ Success(i))
  /\ WF_panelVars(kind.periodic /\ Reload)

PanelFairSpec == PanelSpec /\ PanelFairness

-----------------------------------------------------------------------------
(* Properties.                                                              *)

\* The type invariant of the panel.
PanelTypeOK ==
  /\ kind \in Kinds /\ panelChoice \in Choices /\ version \in 0..MaxVersion /\ content \in Content
  /\ PanelUnder \subseteq PanelIds /\ \A i \in PanelUnder : panelRequests[i] \in PanelRequest
  /\ spinning \in BOOLEAN /\ panelOverlap \in BOOLEAN /\ panelAstray \in BOOLEAN
  /\ changes \in 0..MaxChanges /\ panelFailures \in 0..MaxPanelFailures

\* When no request for what is chosen is under way, the panel shows it, or that a
\* request failed: with any number of requests side by side, for this and for
\* earlier choices, answered in any order.  Astray is only a panel where the answer
\* for an earlier choice came after all those for this one, as the answer that
\* comes last is shown, and one that asked for it in vain and does not say so.
ShowsChoice ==
  ~panelAstray /\ (\A i \in PanelUnder : panelRequests[i].choice # panelChoice) =>
    \/ content = Message
    \/ content \in Choices \X (0..MaxVersion) /\ content[1] = panelChoice

\* The spinner turns while the only request is under way, unless the answer of an
\* earlier one has stopped it, and stands when none is; where only a success stops
\* it, a failure leaves it turning.
SpinsWhileLoading ==
  /\ Cardinality(PanelUnder) = 1 /\ ~panelOverlap => spinning = Spinner
  /\ PanelUnder = {} /\ (kind.until # "success" \/ panelFailures = 0) => ~spinning

\* Both, whichever panel it is.
PanelShows == ShowsChoice /\ SpinsWhileLoading

\* At an interval, the panel catches up with the choice and with the server,
\* whatever came late, overtaken or not at all (monitor.js:14).
CatchesUp == kind.periodic => <>[](content = <<panelChoice, version>>)
===============================================================================
