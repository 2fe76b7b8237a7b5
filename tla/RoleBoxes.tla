------------------------------- MODULE RoleBoxes ------------------------------
(***************************************************************************)
(* The check boxes for the roles of users and groups in a project or       *)
(* package (users_groups.js).  A click is a request at once, and nothing   *)
(* keeps the user from the next click, so that requests overtake each      *)
(* other.  Who takes the role of maintainer from somebody gets the page    *)
(* loaded anew, because it may have been their own: without it the check   *)
(* boxes are disabled.                                                     *)
(***************************************************************************)
EXTENDS Integers, FiniteSets

CONSTANTS
  Subjects,         \* users and groups
  Self,             \* the user of the page, who is no admin
  OtherRoles,       \* roles but maintainer
  MaxRoleRequests,  \* bound on the requests under way
  MaxRoleFailures   \* bound on the requests lost

ASSUME RoleBoxesAssumption ==
  /\ Self \in Subjects /\ "maintainer" \notin OtherRoles
  /\ MaxRoleRequests \in Nat \ {0} /\ MaxRoleFailures \in Nat

VARIABLES
  granted,       \* the roles at the server
  boxes,         \* the check boxes that are checked
  roleSpinning,  \* the check boxes with a spinner
  editable,      \* BOOLEAN: they are not disabled
  roleRequests,  \* of an identity under way, what was asked for
  reloading,     \* BOOLEAN: the page is being loaded anew
  roleFailures,
  again,         \* history: check boxes clicked while a request of them was under way
  roleFailed     \* history: check boxes with a request that was refused or lost

roleVars == <<granted, boxes, roleSpinning, editable, roleRequests, reloading,
              roleFailures, again, roleFailed>>

-----------------------------------------------------------------------------
RoleCells     == Subjects \X (OtherRoles \cup {"maintainer"})
Own       == <<Self, "maintainer">>
RoleRequest   == [cell: RoleCells, op: {"save", "remove"}, pc: {"sent", "answered"}, here: BOOLEAN]
RoleUnder     == DOMAIN roleRequests
RoleOf(c)     == {i \in RoleUnder : roleRequests[i].cell = c}
Here(c)   == {i \in RoleOf(c) : roleRequests[i].here}
RoleWithout(i) == [j \in RoleUnder \ {i} |-> roleRequests[j]]

\* what the page is rendered from
RoleInit ==
  /\ granted \in SUBSET RoleCells /\ Own \in granted
  /\ boxes = granted /\ editable = TRUE
  /\ roleSpinning = {} /\ roleRequests = [i \in {} |-> {}] /\ reloading = FALSE /\ roleFailures = 0
  /\ again = {} /\ roleFailed = {}

\* Mutant: the url is chosen by the box as it was.
ClickFlipped(c) ==
  /\ editable
  /\ boxes' = IF c \in boxes THEN boxes \ {c} ELSE boxes \cup {c}
  /\ \E i \in (1..MaxRoleRequests) \ RoleUnder :
       roleRequests' = [j \in RoleUnder \cup {i} |->
         IF j # i THEN roleRequests[j]
         ELSE [cell |-> c, op |-> IF c \in boxes THEN "save" ELSE "remove", pc |-> "sent", here |-> TRUE]]
  /\ roleSpinning' = roleSpinning \cup {c}
  /\ again' = IF RoleOf(c) = {} THEN again ELSE again \cup {c}
  /\ UNCHANGED <<granted, editable, reloading, roleFailures, roleFailed>>

\* the box is toggled, and changeUserRole reads it after that
RoleClick(c) ==
  /\ editable
  /\ boxes' = IF c \in boxes THEN boxes \ {c} ELSE boxes \cup {c}
  /\ \E i \in (1..MaxRoleRequests) \ RoleUnder :
       roleRequests' = [j \in RoleUnder \cup {i} |->
         IF j # i THEN roleRequests[j]
         ELSE [cell |-> c, op |-> IF c \in boxes' THEN "save" ELSE "remove", pc |-> "sent", here |-> TRUE]]
  /\ roleSpinning' = roleSpinning \cup {c}
  /\ again' = IF RoleOf(c) = {} THEN again ELSE again \cup {c}
  /\ UNCHANGED <<granted, editable, reloading, roleFailures, roleFailed>>

\* saving what is there and removing what is not is answered as well; a user who
\* may not is redirected, which the browser follows: that is an answer too
RoleHandle(i) ==
  LET r == roleRequests[i] IN
  /\ r.pc = "sent"
  /\ granted' = IF Own \notin granted THEN granted
                ELSE IF r.op = "save" THEN granted \cup {r.cell} ELSE granted \ {r.cell}
  /\ roleFailed' = IF Own \in granted THEN roleFailed ELSE roleFailed \cup {r.cell}
  /\ roleRequests' = IF r.here THEN [roleRequests EXCEPT ![i].pc = "answered"] ELSE RoleWithout(i)
  /\ UNCHANGED <<boxes, roleSpinning, editable, reloading, roleFailures, again>>

\* success and complete
RoleSuccess(i) ==
  LET c == roleRequests[i].cell IN
  /\ roleRequests[i].pc = "answered"
  /\ roleRequests' = RoleWithout(i) /\ roleSpinning' = roleSpinning \ {c}
  /\ reloading' = (reloading \/ (c \notin boxes /\ c[2] = "maintainer"))
  /\ UNCHANGED <<granted, boxes, editable, roleFailures, again, roleFailed>>

\* the request or the answer is lost: only complete is called
Error(i) ==
  LET c == roleRequests[i].cell IN
  /\ roleRequests[i].here /\ roleFailures < MaxRoleFailures /\ roleFailures' = roleFailures + 1
  /\ roleRequests' = RoleWithout(i) /\ roleSpinning' = roleSpinning \ {c}
  /\ roleFailed' = roleFailed \cup {c}
  /\ UNCHANGED <<granted, boxes, editable, reloading, again>>

\* the page is replaced; what the server has not handled yet it handles later
RoleLoad ==
  /\ reloading /\ reloading' = FALSE
  /\ boxes' = granted /\ editable' = (Own \in granted)
  /\ roleRequests' = [i \in {j \in RoleUnder : roleRequests[j].pc = "sent"} |-> [roleRequests[i] EXCEPT !.here = FALSE]]
  /\ again' = {roleRequests[i].cell : i \in DOMAIN roleRequests'}
  /\ roleSpinning' = {} /\ roleFailed' = {}
  /\ UNCHANGED <<granted, roleFailures>>

RoleNext ==
  \/ \E c \in RoleCells : RoleClick(c)
  \/ \E i \in RoleUnder : RoleHandle(i) \/ RoleSuccess(i) \/ Error(i)
  \/ RoleLoad

RoleSpec == RoleInit /\ [][RoleNext]_roleVars

-----------------------------------------------------------------------------
(* Properties.                                                              *)

\* The type invariant of the page and the requests.
RoleTypeOK ==
  /\ granted \subseteq RoleCells /\ boxes \subseteq RoleCells /\ roleSpinning \subseteq RoleCells
  /\ editable \in BOOLEAN /\ reloading \in BOOLEAN /\ roleFailures \in 0..MaxRoleFailures
  /\ RoleUnder \subseteq 1..MaxRoleRequests /\ \A i \in RoleUnder : roleRequests[i] \in RoleRequest
  /\ again \subseteq RoleCells /\ roleFailed \subseteq RoleCells

\* A check box shows what the server has once its requests are answered, also
\* after the page was loaded anew amid others: unless it was clicked again
\* before its answer, or a request of it was refused or lost, which the page
\* does not tell.
BoxesAgree ==
  \A c \in RoleCells \ (again \cup roleFailed) : RoleOf(c) = {} => (c \in boxes <=> c \in granted)

\* The spinner beside a check box tells that its request is under way
\* (users_groups.js:45-50).
SpinsWhileSent ==
  \A c \in RoleCells \ again : c \in roleSpinning <=> Here(c) # {}

\* Users who took the role of maintainer from themselves do not go on with
\* check boxes the server refuses: the page is, or is being, loaded anew.
NotLeftEditable ==
  editable /\ RoleOf(Own) = {} /\ Own \notin again \cup roleFailed => Own \in granted \/ reloading

\* The page agrees with the roles and the requests.
RolesAgree == BoxesAgree /\ SpinsWhileSent /\ NotLeftEditable
===============================================================================
