--------------------------- MODULE RepositoryPicker ---------------------------
(***************************************************************************)
(* The form that gives the release of a distribution its repositories      *)
(* (autocomplete.js, distro_releases/_form.html.haml).  Selecting a        *)
(* project clears the dropdown and asks for the project's repositories;    *)
(* the answer appends them.  Choosing one asks for its architectures; the  *)
(* answer appends the repository to the list, every architecture checked.  *)
(*                                                                         *)
(* A repository is a pair of its project and its name.                     *)
(***************************************************************************)
EXTENDS Integers, Sequences, FiniteSets, SequencesExt

CONSTANTS
  PickerProjects,
  PickerNames,
  PickerRepositories,  \* the repositories there are
  Buildable,           \* those with architectures
  NoChoice,            \* no project, the placeholder of the dropdown
  MaxPickerRequests,   \* bound on the requests of a kind under way
  MaxItems             \* bound on the list, with the items on their way

ASSUME PickerAssumption ==
  /\ PickerRepositories \subseteq PickerProjects \X PickerNames
  /\ Buildable \subseteq PickerRepositories
  /\ NoChoice \notin PickerProjects \cup PickerNames
  /\ MaxPickerRequests \in Nat /\ MaxItems \in Nat

VARIABLES
  project,        \* in the search box
  options,        \* of the dropdown, repositories
  enabled,        \* BOOLEAN: the dropdown
  lookups,        \* of a project, the requests for its repositories under way
  fetching,       \* of a repository, the requests for its architectures under way
  pickerList,     \* items [repository, checked]: an architecture is checked
  warning,        \* BOOLEAN: shown
  pickerStored,   \* the repositories saved
  picked,         \* history: repositories chosen, and not removed since
  selected,       \* history: the project selected last
  pickerMixed,    \* history: since then an answer for another project came, or none did
  pickerTwice     \* history: repositories chosen again before the first answer

choice == <<project, options, enabled, lookups, selected, pickerMixed>>
items  == <<fetching, pickerList, warning, pickerStored, picked, pickerTwice>>
pickerVars   == <<choice, items>>

-----------------------------------------------------------------------------
Item      == [repository: PickerProjects \X PickerNames, checked: BOOLEAN]
Listed(l) == {l[i].repository : i \in 1..Len(l)}
PickerUnder(f)  == {x \in DOMAIN f : f[x] > 0}
PickerMore(f, x) == [f EXCEPT ![x] = @ + 1]
PickerLess(f, x) == [f EXCEPT ![x] = @ - 1]
PickerTotal(f)   == FoldFunction(+, 0, f)

PickerInit ==
  /\ project = NoChoice /\ options = {} /\ enabled = FALSE
  /\ lookups = [p \in PickerProjects |-> 0] /\ selected = NoChoice /\ pickerMixed = FALSE
  /\ fetching = [r \in PickerProjects \X PickerNames |-> 0] /\ pickerList = <<>> /\ warning = FALSE
  /\ pickerStored = {} /\ picked = {} /\ pickerTwice = {}

-----------------------------------------------------------------------------
(* The project and the dropdown.                                            *)

\* Mutant: the options stay until the answer.
SelectProjectKeeps(p) ==
  /\ PickerTotal(lookups) < MaxPickerRequests
  /\ project' = p /\ selected' = p /\ lookups' = PickerMore(lookups, p)
  /\ enabled' = FALSE /\ pickerMixed' = FALSE
  /\ UNCHANGED <<options, items>>

\* autocompleteselect
SelectProject(p) ==
  /\ PickerTotal(lookups) < MaxPickerRequests
  /\ project' = p /\ selected' = p /\ lookups' = PickerMore(lookups, p)
  /\ options' = {} /\ enabled' = FALSE /\ pickerMixed' = FALSE
  /\ UNCHANGED items

\* typed, and nothing selected: no event of this code
TypeProject(p) ==
  /\ project' = p
  /\ UNCHANGED <<options, enabled, lookups, selected, pickerMixed, items>>

LookupAnswered(p) ==
  LET found == {r \in PickerRepositories : r[1] = p} IN
  /\ lookups[p] > 0 /\ lookups' = PickerLess(lookups, p)
  /\ options' = options \cup found
  /\ enabled' = (enabled \/ found # {})
  /\ pickerMixed' = (pickerMixed \/ p # selected)
  /\ UNCHANGED <<project, selected, items>>

LookupFails(p) ==
  /\ lookups[p] > 0 /\ lookups' = PickerLess(lookups, p)
  /\ pickerMixed' = (pickerMixed \/ p = selected)
  /\ UNCHANGED <<project, options, enabled, selected, items>>

-----------------------------------------------------------------------------
(* The list.                                                                *)

\* change of the dropdown (to choose a name again, the placeholder is chosen in
\* between): the name is an option's, the project is the text
\* the search box has by now
PickerChoose(n) ==
  LET r == <<project, n>> IN
  /\ enabled /\ project # NoChoice /\ \E o \in options : o[2] = n
  /\ r \notin Listed(pickerList)
  /\ PickerTotal(fetching) < MaxPickerRequests /\ Len(pickerList) + PickerTotal(fetching) < MaxItems
  /\ fetching' = PickerMore(fetching, r) /\ picked' = picked \cup {r}
  /\ pickerTwice' = IF fetching[r] > 0 THEN pickerTwice \cup {r} ELSE pickerTwice
  /\ UNCHANGED <<choice, pickerList, warning, pickerStored>>

PickerAdd(r) == Append(pickerList, [repository |-> r, checked |-> TRUE])

ArchitecturesAnswered(r) ==
  /\ fetching[r] > 0 /\ fetching' = PickerLess(fetching, r)
  /\ IF r \in Buildable THEN pickerList' = PickerAdd(r) /\ warning' = FALSE /\ picked' = picked
                        ELSE pickerList' = pickerList /\ warning' = TRUE /\ picked' = picked \ {r}
  /\ UNCHANGED <<choice, pickerStored, pickerTwice>>

ArchitecturesFail(r) ==
  /\ fetching[r] > 0 /\ fetching' = PickerLess(fetching, r)
  /\ picked' = IF r \in Listed(pickerList) \/ fetching'[r] > 0 THEN picked ELSE picked \ {r}
  /\ UNCHANGED <<choice, pickerList, warning, pickerStored, pickerTwice>>

Check(i, c) ==
  /\ pickerList' = [pickerList EXCEPT ![i].checked = c]
  /\ UNCHANGED <<choice, fetching, warning, pickerStored, picked, pickerTwice>>

RemoveRepository(i) ==
  LET r == pickerList[i].repository IN
  /\ pickerList' = RemoveAt(pickerList, i)
  /\ picked' = IF r \in Listed(pickerList') THEN picked ELSE picked \ {r}
  /\ UNCHANGED <<choice, fetching, warning, pickerStored, pickerTwice>>

PickerValid == \A i \in 1..Len(pickerList) : pickerList[i].checked

PickerRefused ==
  /\ ~PickerValid /\ warning' = TRUE
  /\ UNCHANGED <<choice, fetching, pickerList, pickerStored, picked, pickerTwice>>

\* the checked architectures are stored; the form opened again lists what is
\* stored, and what was on its way to the page before is lost
PickerSave ==
  LET kept == {pickerList[i].repository : i \in {j \in 1..Len(pickerList) : pickerList[j].checked}} IN
  /\ PickerValid
  /\ pickerStored' = kept /\ picked' = kept
  /\ pickerList' = SetToSeq({[repository |-> r, checked |-> TRUE] : r \in kept})
  /\ warning' = FALSE
  /\ fetching' = [r \in PickerProjects \X PickerNames |-> 0] /\ pickerTwice' = {}
  /\ project' = NoChoice /\ options' = {} /\ enabled' = FALSE
  /\ lookups' = [p \in PickerProjects |-> 0] /\ selected' = NoChoice /\ pickerMixed' = FALSE

PickerNext ==
  \/ \E p \in PickerProjects : \/ SelectProject(p) \/ TypeProject(p)
                         \/ LookupAnswered(p) \/ LookupFails(p)
  \/ \E n \in PickerNames : PickerChoose(n)
  \/ \E r \in PickerProjects \X PickerNames : ArchitecturesAnswered(r) \/ ArchitecturesFail(r)
  \/ \E i \in 1..Len(pickerList) : RemoveRepository(i) \/ \E c \in BOOLEAN : Check(i, c)
  \/ PickerRefused \/ PickerSave

PickerSpec == PickerInit /\ [][PickerNext]_pickerVars

-----------------------------------------------------------------------------
(* Properties.                                                              *)

\* The type invariant of the form.
PickerTypeOK ==
  /\ project \in PickerProjects \cup {NoChoice} /\ selected \in PickerProjects \cup {NoChoice}
  /\ options \subseteq PickerRepositories /\ enabled \in BOOLEAN /\ pickerMixed \in BOOLEAN
  /\ lookups \in [PickerProjects -> Nat]
  /\ fetching \in [PickerProjects \X PickerNames -> Nat]
  /\ pickerList \in Seq(Item) /\ warning \in BOOLEAN
  /\ pickerStored \subseteq Buildable /\ picked \subseteq PickerProjects \X PickerNames
  /\ pickerTwice \subseteq PickerProjects \X PickerNames

\* The dropdown offers the repositories of the project selected last and no
\* others, all of them once its request is answered, and is enabled if there are
\* any (autocomplete.js:32, 47-55): with lookups of other projects under way or
\* failed, and whatever is typed.  Excused is a dropdown that an answer for another
\* project has come to, which is appended as well, or whose own request failed.
OffersSelected ==
  LET its == {r \in PickerRepositories : r[1] = selected} IN
  ~pickerMixed =>
    /\ options \in {{}, its} /\ enabled = (options # {})
    /\ (\A p \in PickerProjects : p = selected => lookups[p] = 0) => options = its

\* A repository that was chosen, has architectures and was not removed is in the
\* list or on its way, in whatever order the answers come (autocomplete.js:101-129).
PickedStay == picked \subseteq Listed(pickerList) \cup PickerUnder(fetching)

\* No repository is listed twice unless it was chosen again before the first
\* answer (autocomplete.js:99).
PickerListedOnceUnlessTwice ==
  \A i, j \in 1..Len(pickerList) :
    pickerList[i].repository = pickerList[j].repository /\ i # j => pickerList[i].repository \in pickerTwice

\* "Adding the same repository twice would duplicate the architecture
\* checkboxes" (autocomplete.js:98): what the check before the request is for.
ListedOnce ==
  \A i, j \in 1..Len(pickerList) : pickerList[i].repository = pickerList[j].repository => i = j

\* "A repository without any architecture selected is silently dropped on save,
\* so warn instead of submitting" (autocomplete.js:141): a save stores every
\* repository the list shows, also those an answer brought at the last moment.
NoneDropped == [][pickerStored' # pickerStored => pickerStored' = Listed(pickerList)]_pickerVars

\* The dropdown and the list are right, but for what each part excuses.
PickerKept == OffersSelected /\ PickedStay /\ PickerListedOnceUnlessTwice
===============================================================================
