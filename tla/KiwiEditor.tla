------------------------------ MODULE KiwiEditor ------------------------------
(***************************************************************************)
(* The editor of kiwi images, kiwi_editor.js.  The page is one form with   *)
(* an element per repository and package and for the details; an element   *)
(* is edited in a dialog over it, whose fields are those of the form: the  *)
(* dialog is confirmed by taking the fields for the new defaults.  The one *)
(* of a repository or package is cancelled by setting the fields back to   *)
(* their defaults, the ones of the details are only hidden.  The choice of *)
(* a project requests its repositories; the answer selects one of them.    *)
(*                                                                         *)
(* A value is a pair: for a repository of the build service the project    *)
(* and the repository, and a repository is known by its project.           *)
(***************************************************************************)
EXTENDS Integers, Sequences, FiniteSets, SequencesExt

CONSTANTS
  KiwiRepositories, Packages,           \* elements of the form,
  Descriptions, Preferences,            \* and its details
  Loaded,                               \* the elements the image has
  NoElement,
  KiwiProjects,                         \* projects, and names of the other values
  EmptyOnes,                            \* those of them without repositories
  NoRepos,                              \* 'No repos found'
  NoRepo,                               \* no repository is selected
  MaxKiwiRequests                       \* bound on the requests for repositories under way

Details  == Descriptions \cup Preferences
Elements == KiwiRepositories \cup Packages \cup Details

ASSUME KiwiAssumption ==
  /\ IsFiniteSet(Elements) /\ NoElement \notin Elements
  /\ Details \subseteq Loaded /\ Loaded \subseteq Elements
  /\ EmptyOnes \subseteq KiwiProjects
  /\ {NoRepos, NoRepo, "", "cleared", "obsrepositories:/"} \cap KiwiProjects = {}

VARIABLES
  state,      \* of an element: absent, new, kept or destroyed
  kiwiList,   \* the repositories in the form, the destroyed ones among them
  order,      \* their order fields
  fields,     \* the fields of an element: value, project and repository
  default,    \* their data-default
  label,      \* what the page shows of an element
  dialog,     \* the element whose dialog is open
  kiwiAsked,  \* the requests for repositories under way
  canSave,
  save,       \* the form is kept, the server is asked about it, or it is sent
  astray,     \* history: elements left with changes neither confirmed nor reverted
  original    \* history: the fields of the image as it was loaded

form == <<state, kiwiList, order, fields, default, label>>
kiwiVars == <<state, kiwiList, order, fields, default, label, dialog, kiwiAsked, canSave,
          save, astray, original>>

-----------------------------------------------------------------------------
Repos   == KiwiProjects \cup {NoRepos, NoRepo}
KiwiEmpty   == <<"", "">>
Cleared == <<"cleared", "">>           \* details with an empty field, but for a name
ObsRepositories == <<"obsrepositories:/", "">>
KiwiNames   == KiwiProjects \X {""}
Paths   == (KiwiProjects \cup {""}) \X Repos
KiwiValues  == {KiwiEmpty, Cleared, ObsRepositories} \cup KiwiNames \cup Paths
KiwiFields  == [value: KiwiValues, project: KiwiProjects \cup {""}, repo: Repos]

\* what the user can type, and what closeKiwiDialog and its like refuse
Typed(e) == IF e \in KiwiRepositories THEN {KiwiEmpty, ObsRepositories} \cup KiwiNames
            ELSE IF e \in Packages THEN {KiwiEmpty} \cup KiwiNames
            ELSE IF e \in Descriptions THEN {KiwiEmpty, Cleared} \cup KiwiNames
            ELSE {Cleared} \cup KiwiNames
KiwiRefused(e) == IF e \in KiwiRepositories THEN {KiwiEmpty, ObsRepositories}
                  ELSE IF e \in Packages \cup Descriptions THEN {KiwiEmpty} ELSE {}

Unset == [value |-> KiwiEmpty, project |-> "", repo |-> NoRepo]
InForm(e) == state[e] \in {"new", "kept"}
Destroyed(e) == state[e] = "destroyed"

KiwiInit ==
  /\ state = [e \in Elements |-> IF e \in Loaded THEN "kept" ELSE "absent"]
  /\ kiwiList \in SetToSeqs(Loaded \cap KiwiRepositories)
  /\ order = [e \in KiwiRepositories |->
                IF e \in Loaded THEN CHOOSE i \in 1..Len(kiwiList) : kiwiList[i] = e ELSE 0]
  /\ \E p \in KiwiProjects \ EmptyOnes :
       fields = [e \in Elements |->
                   IF e \notin Loaded THEN Unset
                   ELSE IF e \in KiwiRepositories
                   THEN [value |-> <<p, p>>, project |-> p, repo |-> NoRepo]
                   ELSE [Unset EXCEPT !.value = <<p, "">>]]
  /\ default = fields /\ label = [e \in Elements |-> fields[e].value]
  /\ dialog = NoElement /\ kiwiAsked = {} 
  /\ canSave = FALSE /\ save = "none"
  /\ astray = {} /\ original = fields

-----------------------------------------------------------------------------
(* The dialogs.                                                             *)

\* cocoon:after-insert; the order follows the one of the last repository
KiwiAdd(e) ==
  /\ dialog = NoElement /\ state[e] = "absent"
  /\ state' = [state EXCEPT ![e] = "new"] /\ dialog' = e
  /\ IF e \in KiwiRepositories
     THEN /\ kiwiList' = Append(kiwiList, e)
          /\ order' = [order EXCEPT ![e] = IF kiwiList = <<>> THEN 1 ELSE order[Last(kiwiList)] + 1]
     ELSE UNCHANGED <<kiwiList, order>>
  /\ UNCHANGED <<fields, default, label, kiwiAsked, canSave, save, astray>>

\* editRepositoryDialog: the fields above the expert mode follow the source path
KiwiEdit(e) ==
  /\ dialog = NoElement /\ InForm(e)
  /\ dialog' = e
  /\ fields' = IF fields[e].value \in KiwiProjects \X Repos
               THEN [fields EXCEPT ![e].project = fields[e].value[1],
                                   ![e].repo = fields[e].value[2]]
               ELSE fields
  /\ UNCHANGED <<state, kiwiList, order, default, label, kiwiAsked, canSave, save, astray>>

KiwiType(e, v) ==
  /\ dialog = e
  /\ fields' = [fields EXCEPT ![e].value = v]
  /\ UNCHANGED <<state, kiwiList, order, default, label, dialog, kiwiAsked, canSave,
                 save, astray>>

\* autocompleteKiwiRepositories
ChooseProject(e, p) ==
  /\ dialog = e /\ e \in KiwiRepositories /\ Cardinality(kiwiAsked) < MaxKiwiRequests
  /\ fields' = [fields EXCEPT ![e].project = p]
  /\ kiwiAsked' = kiwiAsked \cup {[element |-> e, project |-> p]}
  /\ UNCHANGED <<state, kiwiList, order, default, label, dialog, canSave, save, astray>>

\* repoField changes: the source path joins what the two fields hold by now
RepoChanged(e, r) ==
  LET p == fields[e].project IN
  /\ fields' = [fields EXCEPT ![e].repo = r, ![e].value = <<p, r>>]
  /\ astray' = IF dialog = e THEN astray ELSE astray \cup {e}

\* success selects a repository of the project asked for, also when the dialog
\* was closed; an error leaves the old selection, and complete takes either over
RepositoriesAnswered(q) ==
  /\ kiwiAsked' = kiwiAsked \ {q}
  /\ \/ RepoChanged(q.element, IF q.project \in EmptyOnes THEN NoRepos ELSE q.project)
     \/ RepoChanged(q.element, fields[q.element].repo)
  /\ UNCHANGED <<state, kiwiList, order, default, label, dialog, canSave, save>>

\* closeKiwiDialog, closeKiwiDescriptionDialog and closeKiwiPreferencesDialog;
\* an overview of the details keeps its text for an empty field
Confirm(e) ==
  LET v == fields[e].value IN
  /\ dialog = e /\ v \notin KiwiRefused(e)
  /\ label' = IF v = Cleared THEN label ELSE [label EXCEPT ![e] = v]
  /\ default' = [default EXCEPT ![e] = fields[e]]
  /\ state' = [state EXCEPT ![e] = "kept"]
  /\ canSave' = TRUE /\ dialog' = NoElement /\ astray' = astray \ {e}
  /\ UNCHANGED <<kiwiList, order, fields, kiwiAsked, save>>

Gone(e) ==
  /\ state' = [state EXCEPT ![e] = "absent"]
  /\ fields' = [fields EXCEPT ![e] = Unset] /\ default' = [default EXCEPT ![e] = Unset]
  /\ label' = [label EXCEPT ![e] = KiwiEmpty]
  /\ astray' = astray \ {e}
  /\ kiwiList' = RemoveFirst(kiwiList, e)
  /\ kiwiAsked' = {q \in kiwiAsked : q.element # e}
  /\ UNCHANGED order

\* Mutant: the dialog is only hidden.
RevertHides(e) ==
  /\ dialog = e /\ e \notin Details /\ dialog' = NoElement
  /\ UNCHANGED <<form, kiwiAsked, canSave, save, astray>>

\* revertDialog, Cancel of a repository or package: a new one is removed, the
\* fields of others are set back
Revert(e) ==
  /\ dialog = e /\ e \notin Details /\ dialog' = NoElement
  /\ IF state[e] = "new" THEN Gone(e)
     ELSE /\ fields' = [fields EXCEPT ![e] = default[e]]
          /\ astray' = astray \ {e}
          /\ UNCHANGED <<state, kiwiList, order, default, label, kiwiAsked>>
  /\ UNCHANGED <<canSave, save>>

\* the Escape key, a click beside the dialog, and Cancel of the details hide it:
\* the fields stay as they are, and the form is sent with them
KiwiDismiss(e) ==
  /\ dialog = e /\ dialog' = NoElement
  /\ astray' = astray \cup {e}
  /\ UNCHANGED <<form, kiwiAsked, canSave, save>>

\* remove_fields: what the image has is hidden and marked, what was added goes
RemoveFields(e) ==
  /\ dialog = NoElement /\ state[e] = "kept" /\ e \notin Details
  /\ canSave' = TRUE
  /\ IF e \in Loaded
     THEN /\ state' = [state EXCEPT ![e] = "destroyed"]
          /\ UNCHANGED <<kiwiList, order, fields, default, label, kiwiAsked, astray>>
     ELSE Gone(e)
  /\ UNCHANGED <<dialog, save>>

\* the check boxes of the profiles and of the project's repositories
CheckBox ==
  /\ dialog = NoElement
  /\ canSave' = TRUE
  /\ UNCHANGED <<form, dialog, kiwiAsked, save, astray>>

\* kiwiPackagesSetupAutocomplete: the repositories packages are searched in, by
\* the elements of their paths; destroyed ones are spliced out one by one
SearchedIn ==
  FoldLeft(LAMBDA rs, i : IF Destroyed(kiwiList[i]) /\ i <= Len(rs) THEN RemoveAt(rs, i) ELSE rs,
           kiwiList, [i \in 1..Len(kiwiList) |-> i])

-----------------------------------------------------------------------------
(* Saving.                                                                  *)

Saving(s) ==
  /\ save' = s
  /\ UNCHANGED <<form, dialog, kiwiAsked, canSave, astray>>

KiwiSaveClicked == canSave /\ dialog = NoElement /\ save = "none" /\ Saving("asked")

\* the answer: the image is up to date or the user agrees, and the form is sent
\* as it is by then; or the user declines, or the request fails
KiwiSubmit     == save = "asked" /\ Saving("sent")
NotSubmitted == save = "asked" /\ Saving("none")

KiwiNext ==
  /\ save # "sent" /\ UNCHANGED original
  /\ \/ \E e \in Elements :
          \/ KiwiAdd(e) \/ KiwiEdit(e) \/ Confirm(e) \/ Revert(e) \/ KiwiDismiss(e) \/ RemoveFields(e)
          \/ \E v \in Typed(e) : KiwiType(e, v)
          \/ \E p \in KiwiProjects : ChooseProject(e, p)
     \/ \E q \in kiwiAsked : RepositoriesAnswered(q)
     \/ CheckBox \/ KiwiSaveClicked \/ KiwiSubmit \/ NotSubmitted

KiwiSpec == KiwiInit /\ [][KiwiNext]_kiwiVars

-----------------------------------------------------------------------------
(* Properties.                                                              *)

\* The type invariant of the form, the dialog and the requests.
KiwiTypeOK ==
  /\ state \in [Elements -> {"absent", "new", "kept", "destroyed"}]
  /\ kiwiList \in Seq(KiwiRepositories) /\ order \in [KiwiRepositories -> Nat]
  /\ fields \in [Elements -> KiwiFields] /\ default \in [Elements -> KiwiFields]
  /\ label \in [Elements -> KiwiValues]
  /\ dialog \in Elements \cup {NoElement}
  /\ kiwiAsked \subseteq [element: KiwiRepositories, project: KiwiProjects]
  /\ canSave \in BOOLEAN /\ save \in {"none", "asked", "sent"}
  /\ astray \subseteq Elements /\ original \in [Elements -> KiwiFields]

\* No value that a dialog refuses was ever confirmed.  The fields the form sends
\* of a repository or package are those the user confirmed, but for the one being
\* edited, and those whose dialog was hidden without an answer or whose path an
\* answer set after the dialog was closed.
FieldsConfirmed ==
  \A e \in Elements : state[e] = "kept" =>
    /\ default[e].value \notin KiwiRefused(e)
    /\ e \notin Details \cup astray \cup {dialog} => fields[e].value = default[e].value

\* The same of the details: what Cancel was pressed on (_description_form.html.haml:24,
\* _preferences_form.html.haml:29) is not sent, as revertDialog wants it of the
\* other elements (kiwi_editor.js:388).
DetailsConfirmed ==
  \A e \in Details \ {dialog} : fields[e].value = default[e].value

\* The page shows of each element what was confirmed, details with an empty
\* field left aside.
LabelsConfirmed ==
  \A e \in Elements : InForm(e) /\ default[e].value # Cleared => label[e] = default[e].value

\* What was confirmed can be saved: an image that differs from the one loaded
\* has its save button on.
KiwiSaveOffered ==
  \/ canSave
  \/ /\ \A e \in Elements : (state[e] = "kept") <=> e \in Loaded
     /\ default = original

\* The order fields rise along the list, whatever was added and removed.
OrdersRise ==
  \A i, j \in 1..Len(kiwiList) : i < j => order[kiwiList[i]] < order[kiwiList[j]]

\* kiwi_editor.js:237, "remove destroyed repositories from the payload": the
\* search for packages leaves out the destroyed repositories and no other.
DestroyedLeftOut ==
  SearchedIn = SelectSeq(kiwiList, LAMBDA e : ~Destroyed(e))

\* The form holds what was confirmed, shows it, can send it, in order.
KiwiConfirmed == FieldsConfirmed /\ LabelsConfirmed /\ KiwiSaveOffered /\ OrdersRise
===============================================================================
