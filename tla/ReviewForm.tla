------------------------------ MODULE ReviewForm ------------------------------
(***************************************************************************)
(* The dialog that adds a reviewer to a request (request.js,               *)
(* autocomplete.js:61, _add_reviewer_dialog.html.haml).  The reviewer is a *)
(* user, a group, the maintainers of a project or those of a package; the  *)
(* inputs of the other kinds are hidden, and disabled, so that they are    *)
(* not sent.  The input of the package is disabled until there is a        *)
(* project, and suggests that project's packages.                          *)
(*                                                                         *)
(* A change of the project is noticed when its input loses the focus       *)
(* (autocompletechange); Return in the input sends the form without that.  *)
(***************************************************************************)
EXTENDS Integers, FiniteSets

CONSTANTS
  ReviewProjects,
  ReviewFilled,  \* what any other input holds
  ReviewEmpty    \* what is in an empty input

ASSUME ReviewAssumption == ReviewEmpty \notin ReviewProjects \cup {ReviewFilled}

ReviewFields == {"user", "group", "project", "package"}
Kinds  == ReviewFields

VARIABLES
  open,           \* BOOLEAN: the dialog is shown
  kind,
  reviewText,
  reviewNoticed,  \* the project when its input had no focus
  disabled,       \* SUBSET Fields
  source,         \* the project whose packages are suggested
  missed,         \* history: the project changed while there was no input for a package
  reviewAsked     \* reviews asked for: [kind, fields, entered]

reviewVars == <<open, kind, reviewText, reviewNoticed, disabled, source, missed,
                reviewAsked>>

-----------------------------------------------------------------------------
Visible(k) == IF k = "package" THEN {"project", "package"} ELSE {k}
ReviewValues(f)  == {ReviewEmpty} \cup IF f = "project" THEN ReviewProjects ELSE {ReviewFilled}
Enabled    == Visible(kind) \ disabled

ReviewInit ==
  /\ open = FALSE /\ kind = "user" /\ reviewText = [f \in ReviewFields |-> ReviewEmpty]
  /\ reviewNoticed = ReviewEmpty
  /\ disabled = {} /\ source = ReviewEmpty /\ missed = FALSE /\ reviewAsked = {}

\* shown.bs.modal
ReviewOpen ==
  /\ ~open /\ open' = TRUE
  /\ disabled' = disabled \cup (ReviewFields \ Visible(kind))
  /\ UNCHANGED <<kind, reviewText, reviewNoticed, source, missed, reviewAsked>>

ReviewDismiss ==
  /\ open /\ reviewNoticed = reviewText["project"] /\ open' = FALSE
  /\ UNCHANGED <<kind, reviewText, reviewNoticed, disabled, source, missed, reviewAsked>>

\* Mutant: the project is not looked at.
ChooseEnables(k) ==
  /\ open /\ k # kind /\ reviewNoticed = reviewText["project"]
  /\ kind' = k /\ disabled' = ReviewFields \ Visible(k)
  /\ UNCHANGED <<open, reviewText, reviewNoticed, source, missed, reviewAsked>>

\* change of the select box, which has the focus then
ReviewChoose(k) ==
  /\ open /\ k # kind /\ reviewNoticed = reviewText["project"]
  /\ kind' = k
  /\ disabled' = (ReviewFields \ Visible(k)) \cup
                 (IF k = "package" /\ reviewText["project"] = ReviewEmpty THEN {"package"} ELSE {})
  /\ UNCHANGED <<open, reviewText, reviewNoticed, source, missed, reviewAsked>>

ReviewType(f, v) ==
  /\ open /\ f \in Enabled /\ v # reviewText[f]
  /\ f # "project" => reviewNoticed = reviewText["project"]
  /\ reviewText' = [reviewText EXCEPT ![f] = v]
  /\ UNCHANGED <<open, kind, reviewNoticed, disabled, source, missed, reviewAsked>>

\* Mutant: the source takes the text of the wrong input.
ProjectChangedWrong ==
  LET p == reviewText["project"] IN
  /\ open /\ p # reviewNoticed /\ reviewNoticed' = p
  /\ IF kind # "package" THEN /\ missed' = TRUE
                              /\ UNCHANGED <<reviewText, disabled, source>>
     ELSE /\ missed' = IF p = ReviewEmpty THEN missed ELSE FALSE
          /\ IF p = ReviewEmpty
             THEN /\ reviewText' = [reviewText EXCEPT !["package"] = ReviewEmpty]
                  /\ disabled' = disabled \cup {"package"} /\ source' = source
             ELSE /\ disabled' = disabled \ {"package"} /\ reviewText' = reviewText
                  /\ source' = reviewText["package"]
  /\ UNCHANGED <<open, kind, reviewAsked>>

\* autocompletechange of the project
ProjectChanged ==
  LET p == reviewText["project"] IN
  /\ open /\ p # reviewNoticed /\ reviewNoticed' = p
  /\ IF kind # "package" THEN /\ missed' = TRUE
                              /\ UNCHANGED <<reviewText, disabled, source>>
     ELSE /\ missed' = IF p = ReviewEmpty THEN missed ELSE FALSE
          /\ IF p = ReviewEmpty
             THEN /\ reviewText' = [reviewText EXCEPT !["package"] = ReviewEmpty]
                  /\ disabled' = disabled \cup {"package"} /\ source' = source
             ELSE /\ disabled' = disabled \ {"package"} /\ reviewText' = reviewText
                  /\ source' = p
  /\ UNCHANGED <<open, kind, reviewAsked>>

\* The browser wants a text in every enabled input.  The page is loaded anew.
ReviewSubmit(entered) ==
  /\ open /\ \A f \in Enabled : reviewText[f] # ReviewEmpty
  /\ ~entered => reviewNoticed = reviewText["project"]
  /\ reviewAsked' = {[kind |-> kind, fields |-> Enabled, entered |-> entered]}
  /\ open' = FALSE /\ kind' = "user"
  /\ reviewText' = [f \in ReviewFields |-> ReviewEmpty] /\ reviewNoticed' = ReviewEmpty
  /\ disabled' = {} /\ source' = ReviewEmpty /\ missed' = FALSE

ReviewNext ==
  \/ ReviewOpen \/ ReviewDismiss \/ ProjectChanged
  \/ \E k \in Kinds : ReviewChoose(k)
  \/ \E f \in ReviewFields : \E v \in ReviewValues(f) : ReviewType(f, v)
  \/ \E entered \in BOOLEAN : ReviewSubmit(entered)

ReviewSpec == ReviewInit /\ [][ReviewNext]_reviewVars

-----------------------------------------------------------------------------
(* Properties.                                                              *)

\* The type invariant of the dialog.
ReviewTypeOK ==
  /\ open \in BOOLEAN /\ kind \in Kinds /\ disabled \subseteq ReviewFields /\ missed \in BOOLEAN
  /\ reviewText \in [ReviewFields -> ReviewProjects \cup {ReviewFilled, ReviewEmpty}]
  /\ reviewNoticed \in ReviewProjects \cup {ReviewEmpty}
  /\ source \in ReviewProjects \cup {ReviewEmpty}
  /\ reviewAsked \subseteq [kind: Kinds, fields: SUBSET ReviewFields, entered: BOOLEAN]

\* In the open dialog the package can be named exactly when there is a project,
\* whatever was chosen, typed, cleared and dismissed before (request.js:123,
\* autocomplete.js:67-72).
PackageFollowsProject ==
  open /\ kind = "package" /\ reviewNoticed = reviewText["project"] =>
    ("package" \in disabled <=> reviewText["project"] = ReviewEmpty)

\* The packages suggested are those of the project, unless it was changed while
\* another kind was chosen (autocomplete.js:65).
SuggestsOfProject ==
  kind = "package" /\ reviewNoticed = reviewText["project"] /\ reviewNoticed # ReviewEmpty /\ ~missed =>
    source = reviewNoticed

\* What is sent are the inputs of the kind that is chosen, all of them and no
\* others, unless the form was sent with Return (request.js:105).
SendsWhatIsShown == \A a \in reviewAsked : ~a.entered => a.fields = Visible(a.kind)

\* "Any maintainer of the project or package can review the request"
\* (request.js:116): the review of a package names the package.
NamesPackage == \A a \in reviewAsked : a.kind = "package" => "package" \in a.fields

\* The inputs of the dialog fit each other, and what is sent fits them.
ReviewFits == PackageFollowsProject /\ SuggestsOfProject /\ SendsWhatIsShown
===============================================================================
