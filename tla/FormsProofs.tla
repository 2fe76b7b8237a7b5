----------------------------- MODULE FormsProofs ------------------------------
(***************************************************************************)
(* Theorems about the pages with forms and dialogs: that every variable    *)
(* keeps its type, and that each form knows what it holds, shows and       *)
(* sends; in a section per page, and then for the window that shows any.   *)
(*                                                                         *)
(* Where a property excuses what is done while an earlier request is under *)
(* way, as of the editor and the comments, the first part of the invariant *)
(* is that there is one request at most otherwise, and the others say what *)
(* its answer will find.                                                   *)
(***************************************************************************)
EXTENDS MCForms, DataLemmas

-----------------------------------------------------------------------------
(* Editor.  Unless the document is changed while a save is under way, there *)
(* is one save at most, of the text that is shown, and the save button is   *)
(* off: what it stores is what the page then takes for stored.              *)

EditorOne ==
  ~late =>
    /\ \A s \in saves : /\ s.text = editorText /\ (s.pc = "stored" => editorStored = s.text)
                        /\ \A r \in saves : r = s
    /\ editorLoading <=> saves # {}
    /\ saves # {} => ~editorButton.save
EditorIInv == WarnedUnlessLate /\ EditorSaveOffered /\ EditorOne

\* The variables of the history and of the requests, as the document changes.
LEMMA EditorChangeTypes ==
  ASSUME EditorTypeOK, NEW u \in Seq(Texts), NEW r \in Seq(Texts), OnChange(u, r),
         editorText' \in Texts, undo' = u, redo' = r
  PROVE  EditorTypeOK'
  <1>1. editorButton' \in Buttons
    BY DEF OnChange, Buttons
  <1>2. {unstaged', late', editorFailed'} \subseteq BOOLEAN
    BY DEF OnChange, EditorTypeOK
  <1>3. UNCHANGED <<editorStored, saves, clicks, editorLoading, option, control>>
    BY DEF OnChange, settings
  <1> QED
    BY <1>1, <1>2, <1>3 DEF EditorTypeOK

\* The editor opens with its types right.
LEMMA EditorTypeInit == EditorInit => EditorTypeOK
  <1> SUFFICES ASSUME EditorInit PROVE EditorTypeOK
    OBVIOUS
  <1>1. editorText \in Texts /\ undo \in Seq(Texts) /\ redo \in Seq(Texts) /\ editorStored \in Texts
    BY DEF EditorInit
  <1>2. saves \subseteq Saves /\ clicks \in 0..MaxSaves /\ editorButton \in Buttons
    BY EditorAssumption DEF EditorInit, Buttons
  <1>3. {unstaged, editorLoading, late, editorFailed} \subseteq BOOLEAN
    BY DEF EditorInit
  <1>4. option \in EditorOptions /\ control \in Control
    BY DEF EditorInit, EditorOptions, Control
  <1> QED
    BY <1>1, <1>2, <1>3, <1>4 DEF EditorTypeOK

\* Every step keeps the types.
LEMMA EditorTypeNext == EditorTypeOK /\ [EditorNext]_editorVars => EditorTypeOK'
  <1> SUFFICES ASSUME EditorTypeOK, [EditorNext]_editorVars PROVE EditorTypeOK'
    OBVIOUS
  <1>1. ASSUME NEW t \in Texts, EditorEdit(t) PROVE EditorTypeOK'
    <2>1. undo' \in Seq(Texts) /\ redo' \in Seq(Texts)
      BY <1>1 DEF EditorEdit, EditorTypeOK
    <2> QED
      BY <1>1, <2>1, EditorChangeTypes DEF EditorEdit
  <1>2. CASE Undo
    <2>1. editorText' \in Texts /\ undo' \in Seq(Texts) /\ redo' \in Seq(Texts)
      BY <1>2 DEF Undo, EditorTypeOK
    <2> QED
      BY <1>2, <2>1, EditorChangeTypes DEF Undo
  <1>3. CASE Redo
    <2>1. editorText' \in Texts /\ undo' \in Seq(Texts) /\ redo' \in Seq(Texts)
      BY <1>3 DEF Redo, EditorTypeOK
    <2> QED
      BY <1>3, <2>1, EditorChangeTypes DEF Redo
  <1>4. CASE EditorSaveClicked
    <2>1. EditorSave(editorText) \in Saves /\ clicks' \in 0..MaxSaves
      BY <1>4, EditorAssumption DEF EditorSaveClicked, EditorSave, Saves, EditorTypeOK
    <2>2. editorButton' \in Buttons
      BY <1>4 DEF EditorSaveClicked, EditorTypeOK, Buttons
    <2> QED
      BY <1>4, <2>1, <2>2
      DEF EditorSaveClicked, EditorTypeOK, document, settings, editorHistory
  <1>5. ASSUME NEW s \in saves, Store(s) PROVE EditorTypeOK'
    <2>1. PICK pc \in {"stored", "refused"} :
            /\ saves' = (saves \ {s}) \cup {[s EXCEPT !.pc = pc]}
            /\ editorStored' = IF pc = "stored" THEN s.text ELSE editorStored
      BY <1>5 DEF Store
    <2>2. s \in Saves
      BY DEF EditorTypeOK
    <2>3. [s EXCEPT !.pc = pc] \in Saves /\ s.text \in Texts
      BY <2>2 DEF Saves
    <2> QED
      BY <1>5, <2>1, <2>3 DEF Store, EditorTypeOK, document, editorPage, settings, editorHistory
  <1>6. ASSUME NEW s \in saves, Saved(s) PROVE EditorTypeOK'
    <2>1. editorButton' \in Buttons
      BY <1>6 DEF Saved, Buttons
    <2> QED
      BY <1>6, <2>1 DEF Saved, EditorTypeOK, document, settings, editorHistory
  <1>7. ASSUME NEW s \in saves, NotSaved(s) PROVE EditorTypeOK'
    BY <1>7 DEF NotSaved, EditorTypeOK, document, settings
  <1>8. ASSUME NEW n \in TabSizes, UpdateTabsize(n) PROVE EditorTypeOK'
    <2>1. option' \in EditorOptions /\ control' \in Control
      BY <1>8, EditorAssumption DEF UpdateTabsize, EditorTypeOK, EditorOptions, Control
    <2> QED
      BY <1>8, <2>1 DEF UpdateTabsize, EditorTypeOK, document, editorPage, editorHistory
  <1>9. CASE Wrap
    <2>1. option' \in EditorOptions /\ control' \in Control
      BY <1>9 DEF Wrap, EditorTypeOK, EditorOptions, Control
    <2> QED
      BY <1>9, <2>1 DEF Wrap, EditorTypeOK, document, editorPage, editorHistory
  <1>10. CASE UNCHANGED editorVars
    BY <1>10 DEF editorVars, EditorTypeOK
  <1> QED
    BY <1>1, <1>2, <1>3, <1>4, <1>5, <1>6, <1>7, <1>8, <1>9, <1>10 DEF EditorNext

\* Every variable of the document, the page and the requests keeps its type.
THEOREM EditorTypeCorrect == EditorSpec => []EditorTypeOK
  BY EditorTypeInit, EditorTypeNext, PTL DEF EditorSpec

-----------------------------------------------------------------------------
\* The editor opens with nothing to save.
LEMMA EditorSafeInit == EditorInit => EditorIInv
  BY DEF EditorInit, EditorIInv, WarnedUnlessLate, WarnedOnLeaving, EditorSaveOffered, EditorOne

\* A change leaves something to undo or to redo, and the page knows it.
LEMMA EditorChangeSafe ==
  ASSUME EditorTypeOK, EditorIInv, NEW u, NEW r, OnChange(u, r), undo' = u,
         u # <<>> \/ r # <<>>
  PROVE  EditorIInv'
  <1>1. unstaged' /\ editorButton'.save = (undo' # <<>>)
    BY DEF OnChange
  <1>2. ~late' => ~late /\ saves = {}
    BY DEF OnChange
  <1>3. saves' = saves /\ editorLoading' = editorLoading
    BY DEF OnChange
  <1>4. ~late' => ~editorLoading
    BY <1>2 DEF EditorIInv, EditorOne
  <1>5. EditorOne'
    BY <1>2, <1>3, <1>4 DEF EditorOne
  <1> QED
    BY <1>1, <1>5 DEF EditorIInv, WarnedUnlessLate, WarnedOnLeaving, EditorSaveOffered

\* Every step keeps the invariant.
LEMMA EditorSafeNext == EditorTypeOK /\ EditorIInv /\ [EditorNext]_editorVars => EditorIInv'
  <1> SUFFICES ASSUME EditorTypeOK, EditorIInv, [EditorNext]_editorVars PROVE EditorIInv'
    OBVIOUS
  <1>1. ASSUME NEW t \in Texts, EditorEdit(t) PROVE EditorIInv'
    <2>1. undo' # <<>>
      BY <1>1 DEF EditorEdit, EditorTypeOK
    <2> QED
      BY <1>1, <2>1, EditorChangeSafe DEF EditorEdit
  <1>2. CASE Undo
    <2>1. redo' # <<>>
      BY <1>2 DEF Undo, EditorTypeOK
    <2> QED
      BY <1>2, <2>1, EditorChangeSafe DEF Undo
  <1>3. CASE Redo
    <2>1. undo' # <<>>
      BY <1>3 DEF Redo, EditorTypeOK
    <2> QED
      BY <1>3, <2>1, EditorChangeSafe DEF Redo
  <1>4. CASE EditorSaveClicked
    <2>1. /\ saves' = saves \cup {EditorSave(editorText)} /\ editorLoading' /\ ~editorButton'.save
          /\ UNCHANGED <<editorText, editorStored, undo, unstaged, late, editorFailed>>
      BY <1>4 DEF EditorSaveClicked, document, editorHistory, EditorTypeOK, Buttons
    <2>2. ~late => saves = {}
      BY <1>4 DEF EditorSaveClicked, EditorIInv, EditorOne
    <2> DEFINE r == EditorSave(editorText)
    <2>3. r.text = editorText /\ r.pc = "sent"
      BY DEF EditorSave
    <2>4. ~late => saves' = {r}
      BY <2>1, <2>2
    <2> HIDE DEF r
    <2>5. EditorOne'
      BY <2>1, <2>3, <2>4 DEF EditorOne
    <2>6. saves' # {}
      BY <2>1
    <2> QED
      BY <2>1, <2>5, <2>6 DEF EditorIInv, WarnedUnlessLate, WarnedOnLeaving, EditorSaveOffered
  <1>5. ASSUME NEW s \in saves, Store(s) PROVE EditorIInv'
    <2>1. PICK pc \in {"stored", "refused"} :
            /\ saves' = (saves \ {s}) \cup {[s EXCEPT !.pc = pc]}
            /\ editorStored' = IF pc = "stored" THEN s.text ELSE editorStored
      BY <1>5 DEF Store
    <2>2. UNCHANGED <<editorText, undo, unstaged, editorButton, editorLoading, late, editorFailed>>
      BY <1>5 DEF Store, document, editorPage, editorHistory
    <2> DEFINE r == [s EXCEPT !.pc = pc]
    <2>3. r.text = s.text /\ r.pc = pc
      BY DEF EditorTypeOK, Saves
    <2>4. ~late => saves = {s} /\ s.text = editorText
      BY DEF EditorIInv, EditorOne
    <2>5. ~late => saves' = {r}
      BY <2>1, <2>4
    <2>6. ~late => editorLoading /\ ~editorButton.save
      BY <2>4 DEF EditorIInv, EditorOne
    <2>7. EditorOne'
      BY <2>1, <2>2, <2>3, <2>4, <2>5, <2>6 DEF EditorOne
    <2>8. saves' # {}
      BY <2>1
    <2> QED
      BY <2>1, <2>2, <2>4, <2>7, <2>8
      DEF EditorIInv, WarnedUnlessLate, WarnedOnLeaving, EditorSaveOffered
  <1>6. ASSUME NEW s \in saves, Saved(s) PROVE EditorIInv'
    <2>1. /\ saves' = saves \ {s} /\ ~editorLoading' /\ ~editorButton'.save
          /\ UNCHANGED <<editorText, editorStored, undo, late, editorFailed>>
      BY <1>6 DEF Saved, document, editorHistory
    <2>2. ~late => saves' = {} /\ editorText = editorStored
      BY <1>6, <2>1 DEF Saved, EditorIInv, EditorOne
    <2>3. EditorOne'
      BY <2>1, <2>2 DEF EditorOne
    <2> QED
      BY <2>1, <2>2, <2>3 DEF EditorIInv, WarnedUnlessLate, WarnedOnLeaving, EditorSaveOffered
  <1>7. ASSUME NEW s \in saves, NotSaved(s) PROVE EditorIInv'
    <2>1. /\ saves' = saves \ {s} /\ ~editorLoading' /\ unstaged' /\ editorFailed'
          /\ UNCHANGED <<editorText, editorStored, late>>
      BY <1>7 DEF NotSaved, document
    <2>2. ~late => saves' = {}
      BY <2>1 DEF EditorIInv, EditorOne
    <2>3. EditorOne'
      BY <2>1, <2>2 DEF EditorOne
    <2> QED
      BY <2>1, <2>3 DEF EditorIInv, WarnedUnlessLate, WarnedOnLeaving, EditorSaveOffered
  <1>8. ASSUME UNCHANGED <<editorText, undo, editorStored, saves, unstaged, editorButton, editorLoading,
                           late, editorFailed>>
        PROVE  EditorIInv'
    BY <1>8 DEF EditorIInv, WarnedUnlessLate, WarnedOnLeaving, EditorSaveOffered, EditorOne
  <1>9. ASSUME NEW n \in TabSizes, UpdateTabsize(n) PROVE EditorIInv'
    BY <1>8, <1>9 DEF UpdateTabsize, document, editorPage, editorHistory
  <1>10. CASE Wrap
    BY <1>8, <1>10 DEF Wrap, document, editorPage, editorHistory
  <1>11. CASE UNCHANGED editorVars
    BY <1>8, <1>11 DEF editorVars
  <1> QED
    BY <1>1, <1>2, <1>3, <1>4, <1>5, <1>6, <1>7, <1>9, <1>10, <1>11 DEF EditorNext

\* A save that is alone is one save.
LEMMA EditorSafeKept == EditorIInv => EditorKept
  <1> SUFFICES ASSUME EditorIInv PROVE EditorKept
    OBVIOUS
  <1>1. ASSUME ~late PROVE Cardinality(saves) <= 1
    <2>1. CASE saves = {}
      BY <2>1, FS_EmptySet
    <2>2. CASE saves # {}
      <3>1. PICK s \in saves : saves = {s}
        BY <1>1, <2>2 DEF EditorIInv, EditorOne
      <3> QED
        BY <3>1, FS_Singleton
    <2> QED
      BY <2>1, <2>2
  <1>2. OneSaveUnlessLate
    BY <1>1 DEF OneSaveUnlessLate, EditorIInv, EditorOne
  <1> QED
    BY <1>2 DEF EditorKept, EditorIInv

\* Unless the document is changed while a save is under way, a text that is not
\* stored is known to be unstaged and can be saved, and there is one save at a
\* time: through any edits, undoing and redoing across saves, refused saves and
\* lost answers (use-codemirror.js:5, 63-107).
THEOREM EditorKeepsTrack == EditorSpec => []EditorKept
  BY EditorTypeCorrect, EditorSafeInit, EditorSafeNext, EditorSafeKept, PTL DEF EditorSpec

-----------------------------------------------------------------------------
(* Kiwi editor.  What the form keeps was confirmed with a value that is not *)
(* refused; an element that is not confirmed yet has nothing to be reverted *)
(* to, and nothing shown; a repository in the list is not absent, and has   *)
(* its place in it once, as the order fields rise.                          *)

KiwiKeptIsConfirmed ==
  \A e \in Elements : state[e] = "kept" => default[e].value \notin KiwiRefused(e)
KiwiFresh ==
  \A e \in Elements : state[e] \in {"absent", "new"} => default[e] = Unset /\ label[e] = KiwiEmpty
KiwiListed == \A i \in 1..Len(kiwiList) : state[kiwiList[i]] # "absent"
KiwiIInv == KiwiConfirmed /\ KiwiKeptIsConfirmed /\ KiwiFresh /\ KiwiListed

\* The values and fields of an element that is not there.
LEMMA KiwiUnset == Unset \in KiwiFields /\ KiwiEmpty \in KiwiValues /\ Unset.value = KiwiEmpty
  BY DEF Unset, KiwiFields, KiwiValues, Repos

\* The parts of an element's fields, and of all of them when one changes.
LEMMA KiwiOneChanges ==
  ASSUME NEW f \in [Elements -> KiwiFields], NEW e \in Elements, NEW v \in KiwiFields
  PROVE  /\ [f EXCEPT ![e] = v] \in [Elements -> KiwiFields]
         /\ [f EXCEPT ![e] = v][e] = v
         /\ \A d \in Elements : d # e => [f EXCEPT ![e] = v][d] = f[d]
  OBVIOUS

\* Element e goes.
LEMMA KiwiGone ==
  ASSUME KiwiTypeOK, NEW e \in Elements, Gone(e)
  PROVE  /\ state' \in [Elements -> {"absent", "new", "kept", "destroyed"}]
         /\ fields' \in [Elements -> KiwiFields] /\ default' \in [Elements -> KiwiFields]
         /\ label' \in [Elements -> KiwiValues] /\ astray' \subseteq Elements
         /\ kiwiList' \in Seq(KiwiRepositories) /\ order' = order
         /\ kiwiAsked' \subseteq kiwiAsked
         /\ state'[e] = "absent" /\ default'[e] = Unset /\ label'[e] = KiwiEmpty
         /\ astray' = astray \ {e}
         /\ \A d \in Elements : d # e => /\ state'[d] = state[d] /\ fields'[d] = fields[d]
                                         /\ default'[d] = default[d] /\ label'[d] = label[d]
         /\ \/ kiwiList' = kiwiList /\ \A i \in 1..Len(kiwiList) : kiwiList[i] # e
            \/ \E k \in 1..Len(kiwiList) : kiwiList[k] = e /\ kiwiList' = RemoveAt(kiwiList, k)
  <1>1. /\ state' = [state EXCEPT ![e] = "absent"]
        /\ fields' = [fields EXCEPT ![e] = Unset] /\ default' = [default EXCEPT ![e] = Unset]
        /\ label' = [label EXCEPT ![e] = KiwiEmpty]
        /\ astray' = astray \ {e}
        /\ kiwiList' = RemoveFirst(kiwiList, e)
        /\ kiwiAsked' = {q \in kiwiAsked : q.element # e}
        /\ order' = order
    BY DEF Gone
  <1>2. kiwiList \in Seq(KiwiRepositories)
    BY DEF KiwiTypeOK
  <1>3. \/ kiwiList' = kiwiList /\ \A i \in 1..Len(kiwiList) : kiwiList[i] # e
        \/ \E k \in 1..Len(kiwiList) : kiwiList[k] = e /\ kiwiList' = RemoveAt(kiwiList, k)
    BY <1>1, <1>2, SeqRemoveFirst
  <1>4. kiwiList' \in Seq(KiwiRepositories)
    BY <1>2, <1>3, SeqRemoveAt
  <1>5. /\ state' \in [Elements -> {"absent", "new", "kept", "destroyed"}] /\ state'[e] = "absent"
        /\ \A d \in Elements : d # e => state'[d] = state[d]
    BY <1>1 DEF KiwiTypeOK
  <1>6. /\ fields' \in [Elements -> KiwiFields] /\ default' \in [Elements -> KiwiFields]
        /\ default'[e] = Unset
        /\ \A d \in Elements : d # e => fields'[d] = fields[d] /\ default'[d] = default[d]
    BY <1>1, KiwiUnset, KiwiOneChanges DEF KiwiTypeOK
  <1>7. /\ label' \in [Elements -> KiwiValues] /\ label'[e] = KiwiEmpty
        /\ \A d \in Elements : d # e => label'[d] = label[d]
    BY <1>1, KiwiUnset DEF KiwiTypeOK
  <1>8. astray' \subseteq Elements /\ kiwiAsked' \subseteq kiwiAsked
    BY <1>1 DEF KiwiTypeOK
  <1> QED
    BY <1>1, <1>3, <1>4, <1>5, <1>6, <1>7, <1>8

\* The source path of element e joins what its fields hold.
LEMMA KiwiPathJoins ==
  ASSUME KiwiTypeOK, NEW e \in Elements, NEW r \in Repos, RepoChanged(e, r)
  PROVE  /\ fields' \in [Elements -> KiwiFields] /\ astray' \subseteq Elements
         /\ \A d \in Elements : d # e => fields'[d] = fields[d]
         /\ astray' = IF dialog = e THEN astray ELSE astray \cup {e}
  <1> DEFINE p == fields[e].project
             v == [fields[e] EXCEPT !.repo = r, !.value = <<p, r>>]
  <1>1. fields' = [fields EXCEPT ![e].repo = r, ![e].value = <<p, r>>]
    BY DEF RepoChanged
  <1>2. fields[e] \in KiwiFields
    BY DEF KiwiTypeOK
  <1>3. p \in KiwiProjects \cup {""}
    BY <1>2 DEF KiwiFields
  <1>4. <<p, r>> \in KiwiValues
    BY <1>3 DEF KiwiValues, Paths
  <1>5. v \in KiwiFields
    BY <1>2, <1>4 DEF KiwiFields
  <1>6. fields' = [fields EXCEPT ![e] = v]
    BY <1>1 DEF KiwiTypeOK
  <1>7. astray' = IF dialog = e THEN astray ELSE astray \cup {e}
    BY DEF RepoChanged
  <1> QED
    BY <1>5, <1>6, <1>7, KiwiOneChanges DEF KiwiTypeOK

\* An answer joins a path for the element it is for.
LEMMA KiwiAnswer ==
  ASSUME KiwiTypeOK, NEW q \in kiwiAsked, RepositoriesAnswered(q)
  PROVE  \E e \in Elements, r \in Repos : RepoChanged(e, r)
  <1>1. q.element \in KiwiRepositories /\ q.project \in KiwiProjects
    BY DEF KiwiTypeOK
  <1>2. q.element \in Elements
    BY <1>1 DEF Elements
  <1>3. fields[q.element] \in KiwiFields
    BY <1>2 DEF KiwiTypeOK
  <1>4. fields[q.element].repo \in Repos
    BY <1>3 DEF KiwiFields
  <1> QED
    BY <1>1, <1>2, <1>4 DEF RepositoriesAnswered, Repos

\* What the fields of an element become when one of them is set.
LEMMA KiwiFieldSet ==
  ASSUME NEW f \in KiwiFields
  PROVE  /\ \A v \in KiwiValues : [f EXCEPT !.value = v] \in KiwiFields
         /\ \A p \in KiwiProjects : /\ [f EXCEPT !.project = p] \in KiwiFields
                                    /\ [f EXCEPT !.project = p].value = f.value
         /\ \A p \in KiwiProjects, r \in Repos :
              /\ [f EXCEPT !.project = p, !.repo = r] \in KiwiFields
              /\ [f EXCEPT !.project = p, !.repo = r].value = f.value
  BY DEF KiwiFields

\* A dialog that opens sets fields of its element only, and no value.
LEMMA KiwiOpened ==
  ASSUME KiwiTypeOK, NEW e \in Elements, KiwiEdit(e)
  PROVE  /\ fields' \in [Elements -> KiwiFields]
         /\ \A d \in Elements : fields'[d].value = fields[d].value
  <1>1. CASE fields[e].value \in KiwiProjects \X Repos
    <2> DEFINE v == fields[e].value
               f == [fields[e] EXCEPT !.project = v[1], !.repo = v[2]]
    <2>1. fields' = [fields EXCEPT ![e].project = v[1], ![e].repo = v[2]]
      BY <1>1 DEF KiwiEdit
    <2>2. fields' = [fields EXCEPT ![e] = f]
      BY <2>1 DEF KiwiTypeOK
    <2>3. v[1] \in KiwiProjects /\ v[2] \in Repos /\ fields[e] \in KiwiFields
      BY <1>1 DEF KiwiTypeOK
    <2>4. f \in KiwiFields /\ f.value = v
      BY <2>3, KiwiFieldSet
    <2> QED
      BY <2>2, <2>4, KiwiOneChanges DEF KiwiTypeOK
  <1>2. CASE fields[e].value \notin KiwiProjects \X Repos
    BY <1>2 DEF KiwiEdit, KiwiTypeOK
  <1> QED
    BY <1>1, <1>2

\* The list of the repositories that are loaded has each of them once, and the
\* order fields are their places.
LEMMA KiwiLoadedList ==
  ASSUME KiwiInit
  PROVE  /\ kiwiList \in Seq(KiwiRepositories)
         /\ \A i \in 1..Len(kiwiList) : kiwiList[i] \in Loaded \cap KiwiRepositories /\ order[kiwiList[i]] = i
         /\ order \in [KiwiRepositories -> Nat]
  <1> DEFINE S == Loaded \cap KiwiRepositories
  <1>1. kiwiList \in SetToSeqs(S)
    BY DEF KiwiInit
  <1>2. IsFiniteSet(S)
    BY KiwiAssumption, FS_Subset DEF Elements
  <1> HIDE DEF S
  <1>3. /\ kiwiList \in Seq(S) /\ Len(kiwiList) \in Nat
        /\ \A i, j \in 1..Len(kiwiList) : i # j => kiwiList[i] # kiwiList[j]
        /\ \A e \in S : \E i \in 1..Len(kiwiList) : kiwiList[i] = e
    BY <1>1, <1>2, SeqOfSet
  <1> USE DEF S
  <1>4. order = [e \in KiwiRepositories |->
                   IF e \in Loaded THEN CHOOSE i \in 1..Len(kiwiList) : kiwiList[i] = e ELSE 0]
    BY DEF KiwiInit
  <1>5. ASSUME NEW i \in 1..Len(kiwiList)
        PROVE  kiwiList[i] \in S /\ order[kiwiList[i]] = i
    BY <1>3, <1>4
  <1>6. ASSUME NEW e \in KiwiRepositories PROVE order[e] \in Nat
    <2>1. CASE e \in Loaded
      <3>1. order[e] \in 1..Len(kiwiList)
        BY <1>3, <1>4, <2>1
      <3> QED
        BY <1>3, <3>1
    <2>2. CASE e \notin Loaded
      BY <1>4, <2>2
    <2> QED
      BY <2>1, <2>2
  <1> QED
    BY <1>3, <1>4, <1>5, <1>6

\* The page opens with its types right.
LEMMA KiwiTypeInit == KiwiInit => KiwiTypeOK
  <1> SUFFICES ASSUME KiwiInit PROVE KiwiTypeOK
    OBVIOUS
  <1>1. PICK p \in KiwiProjects \ EmptyOnes :
       fields = [e \in Elements |->
                   IF e \notin Loaded THEN Unset
                   ELSE IF e \in KiwiRepositories
                   THEN [value |-> <<p, p>>, project |-> p, repo |-> NoRepo]
                   ELSE [Unset EXCEPT !.value = <<p, "">>]]
    BY DEF KiwiInit
  <1>2. <<p, p>> \in KiwiValues /\ <<p, "">> \in KiwiValues
    BY DEF KiwiValues, Paths, KiwiNames, Repos
  <1>3. [value |-> <<p, p>>, project |-> p, repo |-> NoRepo] \in KiwiFields
    BY <1>2 DEF KiwiFields, Repos
  <1>4. [Unset EXCEPT !.value = <<p, "">>] \in KiwiFields
    BY <1>2, KiwiUnset, KiwiFieldSet
  <1>5. fields \in [Elements -> KiwiFields]
    BY <1>1, <1>3, <1>4, KiwiUnset
  <1>6. default = fields /\ original = fields /\ label = [e \in Elements |-> fields[e].value]
    BY DEF KiwiInit
  <1>7. label \in [Elements -> KiwiValues]
    BY <1>5, <1>6 DEF KiwiFields
  <1>8. state \in [Elements -> {"absent", "new", "kept", "destroyed"}]
    BY DEF KiwiInit
  <1>9. kiwiList \in Seq(KiwiRepositories) /\ order \in [KiwiRepositories -> Nat]
    BY KiwiLoadedList
  <1>10. dialog = NoElement /\ kiwiAsked = {} /\ canSave = FALSE /\ save = "none" /\ astray = {}
    BY DEF KiwiInit
  <1> QED
    BY <1>5, <1>6, <1>7, <1>8, <1>9, <1>10 DEF KiwiTypeOK

\* What is typed is a value.
LEMMA KiwiTypedValues == ASSUME NEW e PROVE Typed(e) \subseteq KiwiValues
  BY DEF Typed, KiwiValues

\* A repository that is added comes last, in the list and by its order.
LEMMA KiwiAdded ==
  ASSUME KiwiTypeOK, NEW e \in KiwiRepositories, KiwiAdd(e)
  PROVE  /\ kiwiList' \in Seq(KiwiRepositories) /\ Len(kiwiList') = Len(kiwiList) + 1
         /\ kiwiList'[Len(kiwiList) + 1] = e
         /\ \A i \in 1..Len(kiwiList) : kiwiList'[i] = kiwiList[i]
         /\ order' \in [KiwiRepositories -> Nat]
         /\ \A d \in KiwiRepositories : d # e => order'[d] = order[d]
         /\ Len(kiwiList) > 0 => order'[e] = order[kiwiList[Len(kiwiList)]] + 1
  <1>1. /\ kiwiList' = Append(kiwiList, e)
        /\ order' = [order EXCEPT ![e] = IF kiwiList = <<>> THEN 1 ELSE order[Last(kiwiList)] + 1]
    BY DEF KiwiAdd
  <1>2. kiwiList \in Seq(KiwiRepositories) /\ order \in [KiwiRepositories -> Nat]
    BY DEF KiwiTypeOK
  <1>3. /\ kiwiList' \in Seq(KiwiRepositories) /\ Len(kiwiList') = Len(kiwiList) + 1
        /\ kiwiList'[Len(kiwiList) + 1] = e
        /\ \A i \in 1..Len(kiwiList) : kiwiList'[i] = kiwiList[i]
    BY <1>1, <1>2
  <1>4. kiwiList # <<>> => Last(kiwiList) \in KiwiRepositories
    BY <1>2 DEF Last
  <1>5. order' \in [KiwiRepositories -> Nat] /\ \A d \in KiwiRepositories : d # e => order'[d] = order[d]
    BY <1>1, <1>2, <1>4
  <1>6. Len(kiwiList) > 0 => order'[e] = order[kiwiList[Len(kiwiList)]] + 1
    BY <1>1, <1>2 DEF Last
  <1> QED
    BY <1>3, <1>5, <1>6

\* Every step keeps the types.
LEMMA KiwiTypeNext == KiwiTypeOK /\ [KiwiNext]_kiwiVars => KiwiTypeOK'
  <1> SUFFICES ASSUME KiwiTypeOK, [KiwiNext]_kiwiVars PROVE KiwiTypeOK'
    OBVIOUS
  <1>1. CASE UNCHANGED kiwiVars
    BY <1>1 DEF kiwiVars, KiwiTypeOK
  <1>2. ASSUME KiwiNext PROVE UNCHANGED original
    BY <1>2 DEF KiwiNext
  <1>3. ASSUME NEW e \in Elements, KiwiAdd(e), UNCHANGED original PROVE KiwiTypeOK'
    <2>1. kiwiList' \in Seq(KiwiRepositories) /\ order' \in [KiwiRepositories -> Nat]
      BY <1>3, KiwiAdded DEF KiwiAdd, KiwiTypeOK
    <2> QED
      BY <1>3, <2>1 DEF KiwiAdd, KiwiTypeOK
  <1>4. ASSUME NEW e \in Elements, KiwiEdit(e), UNCHANGED original PROVE KiwiTypeOK'
    <2>1. fields' \in [Elements -> KiwiFields]
      BY <1>4, KiwiOpened
    <2> QED
      BY <1>4, <2>1 DEF KiwiEdit, KiwiTypeOK
  <1>5. ASSUME NEW e \in Elements, Confirm(e), UNCHANGED original PROVE KiwiTypeOK'
    <2>1. fields[e] \in KiwiFields
      BY DEF KiwiTypeOK
    <2>2. fields[e].value \in KiwiValues
      BY <2>1 DEF KiwiFields
    <2>3. label' \in [Elements -> KiwiValues]
      BY <1>5, <2>2 DEF Confirm, KiwiTypeOK
    <2>4. default' \in [Elements -> KiwiFields]
      BY <1>5, <2>1 DEF Confirm, KiwiTypeOK
    <2>5. state' \in [Elements -> {"absent", "new", "kept", "destroyed"}]
      BY <1>5 DEF Confirm, KiwiTypeOK
    <2> QED
      BY <1>5, <2>3, <2>4, <2>5 DEF Confirm, KiwiTypeOK
  <1>6. ASSUME NEW e \in Elements, Revert(e), UNCHANGED original PROVE KiwiTypeOK'
    <2>1. dialog' = NoElement /\ UNCHANGED <<canSave, save>>
      BY <1>6 DEF Revert
    <2>2. CASE state[e] = "new"
      <3>1. Gone(e)
        BY <1>6, <2>2 DEF Revert
      <3> QED
        BY <1>6, <2>1, <3>1, KiwiGone DEF KiwiTypeOK
    <2>3. CASE state[e] # "new"
      <3>1. /\ fields' = [fields EXCEPT ![e] = default[e]] /\ astray' = astray \ {e}
            /\ UNCHANGED <<state, kiwiList, order, default, label, kiwiAsked>>
        BY <1>6, <2>3 DEF Revert
      <3> QED
        BY <1>6, <2>1, <3>1 DEF KiwiTypeOK
    <2> QED
      BY <2>2, <2>3
  <1>7. ASSUME NEW e \in Elements, KiwiDismiss(e), UNCHANGED original PROVE KiwiTypeOK'
    BY <1>7 DEF KiwiDismiss, form, KiwiTypeOK
  <1>8. ASSUME NEW e \in Elements, RemoveFields(e), UNCHANGED original PROVE KiwiTypeOK'
    <2>1. canSave' = TRUE /\ UNCHANGED <<dialog, save>>
      BY <1>8 DEF RemoveFields
    <2>2. CASE e \in Loaded
      BY <1>8, <2>1, <2>2 DEF RemoveFields, KiwiTypeOK
    <2>3. CASE e \notin Loaded
      <3>1. Gone(e)
        BY <1>8, <2>3 DEF RemoveFields
      <3> QED
        BY <1>8, <2>1, <3>1, KiwiGone DEF KiwiTypeOK
    <2> QED
      BY <2>2, <2>3
  <1>9. ASSUME NEW e \in Elements, NEW v \in Typed(e), KiwiType(e, v), UNCHANGED original PROVE KiwiTypeOK'
    <2>1. fields' = [fields EXCEPT ![e].value = v]
      BY <1>9 DEF KiwiType
    <2>2. fields' = [fields EXCEPT ![e] = [fields[e] EXCEPT !.value = v]]
      BY <2>1 DEF KiwiTypeOK
    <2>3. [fields[e] EXCEPT !.value = v] \in KiwiFields
      BY KiwiTypedValues, KiwiFieldSet DEF KiwiTypeOK
    <2>4. fields' \in [Elements -> KiwiFields]
      BY <2>2, <2>3 DEF KiwiTypeOK
    <2> QED
      BY <1>9, <2>4 DEF KiwiType, KiwiTypeOK
  <1>10. ASSUME NEW e \in Elements, NEW p \in KiwiProjects, ChooseProject(e, p), UNCHANGED original
         PROVE  KiwiTypeOK'
    <2>1. fields' = [fields EXCEPT ![e].project = p]
      BY <1>10 DEF ChooseProject
    <2>2. fields' = [fields EXCEPT ![e] = [fields[e] EXCEPT !.project = p]]
      BY <2>1 DEF KiwiTypeOK
    <2>3. [fields[e] EXCEPT !.project = p] \in KiwiFields
      BY KiwiFieldSet DEF KiwiTypeOK
    <2>4. fields' \in [Elements -> KiwiFields]
      BY <2>2, <2>3 DEF KiwiTypeOK
    <2>5. kiwiAsked' \subseteq [element: KiwiRepositories, project: KiwiProjects]
      BY <1>10 DEF ChooseProject, KiwiTypeOK
    <2> QED
      BY <1>10, <2>4, <2>5 DEF ChooseProject, KiwiTypeOK
  <1>11. ASSUME NEW q \in kiwiAsked, RepositoriesAnswered(q), UNCHANGED original PROVE KiwiTypeOK'
    <2>1. PICK e \in Elements, r \in Repos : RepoChanged(e, r)
      BY <1>11, KiwiAnswer
    <2>2. fields' \in [Elements -> KiwiFields] /\ astray' \subseteq Elements
      BY <2>1, KiwiPathJoins
    <2> QED
      BY <1>11, <2>2 DEF RepositoriesAnswered, KiwiTypeOK
  <1>12. ASSUME CheckBox \/ KiwiSaveClicked \/ KiwiSubmit \/ NotSubmitted, UNCHANGED original PROVE KiwiTypeOK'
    BY <1>12 DEF CheckBox, KiwiSaveClicked, KiwiSubmit, NotSubmitted, Saving, form, KiwiTypeOK
  <1> QED
    BY <1>1, <1>2, <1>3, <1>4, <1>5, <1>6, <1>7, <1>8, <1>9, <1>10, <1>11, <1>12 DEF KiwiNext

\* Every variable of the form, the dialog and the requests keeps its type.
THEOREM KiwiTypeCorrect == KiwiSpec => []KiwiTypeOK
  BY KiwiTypeInit, KiwiTypeNext, PTL DEF KiwiSpec

-----------------------------------------------------------------------------
\* A step that changes no state and nothing that was confirmed.
LEMMA KiwiShownFrame ==
  ASSUME KiwiIInv, UNCHANGED <<state, default, label, original>>, canSave => canSave'
  PROVE  LabelsConfirmed' /\ KiwiSaveOffered' /\ KiwiKeptIsConfirmed' /\ KiwiFresh'
  BY DEF KiwiIInv, KiwiConfirmed, LabelsConfirmed, KiwiSaveOffered, KiwiKeptIsConfirmed, KiwiFresh, InForm

\* A step that leaves the list alone and takes no element away.
LEMMA KiwiListFrame ==
  ASSUME KiwiTypeOK, KiwiIInv, UNCHANGED <<kiwiList, order>>,
         \A e \in Elements : state[e] # "absent" => state'[e] # "absent"
  PROVE  OrdersRise' /\ KiwiListed'
  <1>1. OrdersRise'
    BY DEF KiwiIInv, KiwiConfirmed, OrdersRise
  <1>2. \A i \in 1..Len(kiwiList) : kiwiList[i] \in Elements
    BY DEF KiwiTypeOK, Elements
  <1>3. KiwiListed'
    BY <1>2 DEF KiwiIInv, KiwiListed
  <1> QED
    BY <1>1, <1>3

\* A step that leaves all of the form alone but the fields, which stay as they
\* were confirmed.
LEMMA KiwiFieldsFrame ==
  ASSUME KiwiTypeOK, KiwiIInv, UNCHANGED <<state, kiwiList, order, default, label, original>>,
         canSave => canSave',
         \A e \in Elements : e # dialog' /\ e \notin astray' =>
           \/ e # dialog /\ e \notin astray /\ fields'[e].value = fields[e].value
           \/ fields'[e] = default[e]
  PROVE  KiwiIInv'
  <1>1. FieldsConfirmed'
    BY DEF KiwiIInv, KiwiConfirmed, FieldsConfirmed, KiwiKeptIsConfirmed
  <1> QED
    BY <1>1, KiwiShownFrame, KiwiListFrame DEF KiwiIInv, KiwiConfirmed

\* An element that goes was in the list once, if it was.
LEMMA KiwiGoneList ==
  ASSUME KiwiTypeOK, KiwiIInv, NEW e \in Elements, Gone(e)
  PROVE  OrdersRise' /\ KiwiListed'
  <1>1. kiwiList \in Seq(KiwiRepositories) /\ order \in [KiwiRepositories -> Nat]
    BY DEF KiwiTypeOK
  <1>2. /\ order' = order /\ \A d \in Elements : d # e => state'[d] = state[d]
        /\ \/ kiwiList' = kiwiList /\ \A i \in 1..Len(kiwiList) : kiwiList[i] # e
           \/ \E k \in 1..Len(kiwiList) : kiwiList[k] = e /\ kiwiList' = RemoveAt(kiwiList, k)
    BY KiwiGone
  <1>3. \A i, j \in 1..Len(kiwiList) : i < j => order[kiwiList[i]] < order[kiwiList[j]]
    BY DEF KiwiIInv, KiwiConfirmed, OrdersRise
  <1>4. \A i \in 1..Len(kiwiList) : kiwiList[i] \in Elements /\ state[kiwiList[i]] # "absent"
    BY <1>1 DEF KiwiIInv, KiwiListed, Elements
  <1>5. CASE kiwiList' = kiwiList /\ \A i \in 1..Len(kiwiList) : kiwiList[i] # e
    BY <1>2, <1>3, <1>4, <1>5 DEF OrdersRise, KiwiListed
  <1>6. CASE \E k \in 1..Len(kiwiList) : kiwiList[k] = e /\ kiwiList' = RemoveAt(kiwiList, k)
    <2>1. PICK k \in 1..Len(kiwiList) : kiwiList[k] = e /\ kiwiList' = RemoveAt(kiwiList, k)
      BY <1>6
    <2>2. /\ Len(kiwiList) \in Nat /\ Len(kiwiList') = Len(kiwiList) - 1
          /\ \A i \in 1..(Len(kiwiList) - 1) :
               kiwiList'[i] = IF i < k THEN kiwiList[i] ELSE kiwiList[i + 1]
      <3>1. /\ Len(RemoveAt(kiwiList, k)) = Len(kiwiList) - 1
            /\ \A i \in 1..(Len(kiwiList) - 1) :
                 RemoveAt(kiwiList, k)[i] = IF i < k THEN kiwiList[i] ELSE kiwiList[i + 1]
        BY <1>1, SeqRemoveAt
      <3>2. Len(kiwiList) \in Nat
        BY <1>1
      <3>3. kiwiList' = RemoveAt(kiwiList, k)
        BY <2>1
      <3> QED
        BY <3>1, <3>2, <3>3, Zenon
    <2>3. ASSUME NEW i \in 1..Len(kiwiList')
          PROVE  /\ kiwiList'[i] = kiwiList[IF i < k THEN i ELSE i + 1]
                 /\ (IF i < k THEN i ELSE i + 1) \in 1..Len(kiwiList) \ {k}
      BY <2>1, <2>2
    <2>4. OrdersRise'
      <3> SUFFICES ASSUME NEW i \in 1..Len(kiwiList'), NEW j \in 1..Len(kiwiList'), i < j
                   PROVE  order[kiwiList'[i]] < order[kiwiList'[j]]
        BY <1>2 DEF OrdersRise
      <3>1. (IF i < k THEN i ELSE i + 1) < (IF j < k THEN j ELSE j + 1)
        BY <2>1, <2>2
      <3> QED
        BY <1>3, <2>3, <3>1
    <2>5. \A i \in 1..Len(kiwiList) \ {k} : kiwiList[i] # e
      <3> SUFFICES ASSUME NEW i \in 1..Len(kiwiList) \ {k}, kiwiList[i] = e PROVE FALSE
        OBVIOUS
      <3>1. i < k \/ k < i
        BY <2>1, <2>2
      <3>2. order[e] < order[e] /\ order[e] \in Nat
        BY <1>1, <1>3, <2>1, <3>1
      <3> QED
        BY <3>2
    <2>6. KiwiListed'
      BY <1>2, <1>4, <2>3, <2>5 DEF KiwiListed
    <2> QED
      BY <2>4, <2>6
  <1> QED
    BY <1>2, <1>5, <1>6

\* An element goes that can be saved without, or that was not confirmed.
LEMMA KiwiGoneSafe ==
  ASSUME KiwiTypeOK, KiwiIInv, NEW e \in Elements, Gone(e), original' = original,
         canSave' \/ (state[e] = "new" /\ canSave' = canSave), dialog' = NoElement, dialog \in {e, NoElement}
  PROVE  KiwiIInv'
  <1>1. /\ state'[e] = "absent" /\ default'[e] = Unset /\ label'[e] = KiwiEmpty
        /\ astray' = astray \ {e}
        /\ \A d \in Elements : d # e => /\ state'[d] = state[d] /\ fields'[d] = fields[d]
                                        /\ default'[d] = default[d] /\ label'[d] = label[d]
    BY KiwiGone
  <1>2. OrdersRise' /\ KiwiListed'
    BY KiwiGoneList
  <1>3. FieldsConfirmed' /\ KiwiKeptIsConfirmed'
    BY <1>1 DEF KiwiIInv, KiwiConfirmed, FieldsConfirmed, KiwiKeptIsConfirmed
  <1>4. LabelsConfirmed' /\ KiwiFresh'
    BY <1>1 DEF KiwiIInv, KiwiConfirmed, LabelsConfirmed, KiwiFresh, InForm
  <1>5. KiwiSaveOffered'
    <2>1. CASE canSave'
      BY <2>1 DEF KiwiSaveOffered
    <2>2. CASE state[e] = "new" /\ canSave' = canSave /\ ~canSave
      <3>1. default[e] = Unset
        BY <2>2 DEF KiwiIInv, KiwiFresh
      <3>2. default' = default
        BY <3>1 DEF Gone, KiwiTypeOK
      <3>3. /\ \A d \in Elements : (state[d] = "kept") <=> d \in Loaded
            /\ default = original
        BY <2>2 DEF KiwiIInv, KiwiConfirmed, KiwiSaveOffered
      <3>4. \A d \in Elements : (state'[d] = "kept") <=> (state[d] = "kept")
        BY <1>1, <2>2
      <3> QED
        BY <3>2, <3>3, <3>4 DEF KiwiSaveOffered
    <2> QED
      BY <2>1, <2>2
  <1> QED
    BY <1>2, <1>3, <1>4, <1>5 DEF KiwiIInv, KiwiConfirmed

\* The page opens with everything as it was loaded.
LEMMA KiwiSafeInit == KiwiInit => KiwiIInv
  <1> SUFFICES ASSUME KiwiInit PROVE KiwiIInv
    OBVIOUS
  <1>1. PICK p \in KiwiProjects \ EmptyOnes :
       fields = [e \in Elements |->
                   IF e \notin Loaded THEN Unset
                   ELSE IF e \in KiwiRepositories
                   THEN [value |-> <<p, p>>, project |-> p, repo |-> NoRepo]
                   ELSE [Unset EXCEPT !.value = <<p, "">>]]
    BY DEF KiwiInit
  <1>2. /\ default = fields /\ original = fields /\ label = [e \in Elements |-> fields[e].value]
        /\ state = [e \in Elements |-> IF e \in Loaded THEN "kept" ELSE "absent"]
    BY DEF KiwiInit
  <1>3. p # "" /\ p # "obsrepositories:/"
    BY KiwiAssumption
  <1>4. ASSUME NEW e \in Elements \cap Loaded PROVE fields[e].value \notin KiwiRefused(e)
    <2>1. CASE e \in KiwiRepositories
      <3>1. fields[e].value = <<p, p>>
        BY <1>1, <2>1
      <3>2. <<p, p>> # KiwiEmpty /\ <<p, p>> # ObsRepositories
        BY <1>3 DEF KiwiEmpty, ObsRepositories
      <3>3. KiwiRefused(e) = {KiwiEmpty, ObsRepositories}
        BY <2>1 DEF KiwiRefused
      <3> QED
        BY <3>1, <3>2, <3>3, Zenon
    <2>2. CASE e \notin KiwiRepositories
      <3>1. fields[e].value = <<p, "">>
        BY <1>1, <2>2 DEF Unset
      <3>2. <<p, "">> # KiwiEmpty
        BY <1>3 DEF KiwiEmpty
      <3>3. KiwiRefused(e) \subseteq {KiwiEmpty}
        BY <2>2 DEF KiwiRefused
      <3> QED
        BY <3>1, <3>2, <3>3, Zenon
    <2> QED
      BY <2>1, <2>2
  <1>5. FieldsConfirmed /\ KiwiKeptIsConfirmed
    BY <1>2, <1>4 DEF FieldsConfirmed, KiwiKeptIsConfirmed
  <1>6. LabelsConfirmed /\ KiwiFresh
    <2>1. ASSUME NEW e \in Elements, e \notin Loaded PROVE default[e] = Unset /\ label[e] = KiwiEmpty
      BY <1>1, <1>2, <2>1, KiwiUnset
    <2>2. \A e \in Elements : label[e] = default[e].value
      BY <1>2
    <2>3. \A e \in Elements : state[e] \in {"absent", "new"} => e \notin Loaded
      BY <1>2
    <2> QED
      BY <2>1, <2>2, <2>3 DEF LabelsConfirmed, KiwiFresh
  <1>7. KiwiSaveOffered
    BY <1>2 DEF KiwiSaveOffered
  <1>8. /\ \A i \in 1..Len(kiwiList) : kiwiList[i] \in Loaded \cap KiwiRepositories /\ order[kiwiList[i]] = i
        /\ kiwiList \in Seq(KiwiRepositories)
    BY KiwiLoadedList
  <1>9. OrdersRise /\ KiwiListed
    <2>1. \A i \in 1..Len(kiwiList) : kiwiList[i] \in Elements /\ state[kiwiList[i]] = "kept"
      BY <1>2, <1>8 DEF Elements
    <2> QED
      BY <1>8, <2>1 DEF OrdersRise, KiwiListed
  <1> QED
    BY <1>5, <1>6, <1>7, <1>9 DEF KiwiIInv, KiwiConfirmed

\* A repository that is added comes after all others.
LEMMA KiwiAddRises ==
  ASSUME KiwiTypeOK, KiwiIInv, NEW e \in KiwiRepositories, KiwiAdd(e)
  PROVE  OrdersRise' /\ KiwiListed'
  <1> DEFINE n == Len(kiwiList)
  <1>1. kiwiList \in Seq(KiwiRepositories) /\ order \in [KiwiRepositories -> Nat] /\ n \in Nat
    BY DEF KiwiTypeOK
  <1>2. /\ Len(kiwiList') = n + 1 /\ kiwiList'[n + 1] = e
        /\ \A i \in 1..n : kiwiList'[i] = kiwiList[i]
        /\ order' \in [KiwiRepositories -> Nat]
        /\ \A d \in KiwiRepositories : d # e => order'[d] = order[d]
        /\ n > 0 => order'[e] = order[kiwiList[n]] + 1
    BY KiwiAdded
  <1>3. \A i \in 1..n : kiwiList[i] \in Elements /\ state[kiwiList[i]] # "absent"
    BY <1>1 DEF KiwiIInv, KiwiListed, Elements
  <1>4. state[e] = "absent" /\ state' = [state EXCEPT ![e] = "new"]
    BY DEF KiwiAdd
  <1>5. \A i, j \in 1..n : i < j => order[kiwiList[i]] < order[kiwiList[j]]
    BY DEF KiwiIInv, KiwiConfirmed, OrdersRise
  <1> HIDE DEF n
  <1>6. \A i \in 1..n : kiwiList[i] \in KiwiRepositories /\ kiwiList[i] # e
    BY <1>1, <1>3, <1>4 DEF n
  <1>7. \A i \in 1..n : order'[kiwiList'[i]] = order[kiwiList[i]] /\ order[kiwiList[i]] \in Nat
    BY <1>1, <1>2, <1>6
  <1>8. ASSUME NEW i \in 1..n PROVE order'[kiwiList'[i]] < order'[e]
    <2>1. n > 0 /\ n \in 1..n
      BY <1>1
    <2>2. i = n \/ order[kiwiList[i]] < order[kiwiList[n]]
      BY <1>1, <1>5, <2>1
    <2> QED
      BY <1>2, <1>7, <2>1, <2>2
  <1>9. OrdersRise'
    <2> SUFFICES ASSUME NEW i \in 1..(n + 1), NEW j \in 1..(n + 1), i < j
                 PROVE  order'[kiwiList'[i]] < order'[kiwiList'[j]]
      BY <1>2 DEF OrdersRise
    <2>1. i \in 1..n
      BY <1>1
    <2>2. CASE j = n + 1
      BY <1>2, <1>8, <2>1, <2>2
    <2>3. CASE j # n + 1
      <3>1. j \in 1..n
        BY <1>1, <2>3
      <3> QED
        BY <1>5, <1>7, <2>1, <3>1
    <2> QED
      BY <2>2, <2>3
  <1>10. KiwiListed'
    <2> SUFFICES ASSUME NEW i \in 1..(n + 1) PROVE state'[kiwiList'[i]] # "absent"
      BY <1>2 DEF KiwiListed
    <2>1. CASE i = n + 1
      BY <1>2, <1>4, <2>1 DEF KiwiTypeOK, Elements
    <2>2. CASE i # n + 1
      <3>1. i \in 1..n
        BY <1>1, <2>2
      <3> QED
        BY <1>2, <1>3, <1>4, <1>6, <3>1 DEF KiwiTypeOK
    <2> QED
      BY <2>1, <2>2
  <1> QED
    BY <1>9, <1>10

\* Every step keeps the invariant.
LEMMA KiwiSafeNext == KiwiTypeOK /\ KiwiIInv /\ [KiwiNext]_kiwiVars => KiwiIInv'
  <1> SUFFICES ASSUME KiwiTypeOK, KiwiIInv, [KiwiNext]_kiwiVars PROVE KiwiIInv'
    OBVIOUS
  <1>1. ASSUME NEW e \in Elements, KiwiAdd(e), UNCHANGED original PROVE KiwiIInv'
    <2>1. /\ state[e] = "absent" /\ state' = [state EXCEPT ![e] = "new"] /\ dialog' = e /\ dialog = NoElement
          /\ UNCHANGED <<fields, default, label, canSave, astray>>
      BY <1>1 DEF KiwiAdd
    <2>2. state'[e] = "new" /\ \A d \in Elements : d # e => state'[d] = state[d]
      BY <2>1 DEF KiwiTypeOK
    <2>3. FieldsConfirmed' /\ KiwiKeptIsConfirmed'
      BY <2>1, <2>2, KiwiAssumption DEF KiwiIInv, KiwiConfirmed, FieldsConfirmed, KiwiKeptIsConfirmed
    <2>4. KiwiFresh'
      BY <2>1, <2>2 DEF KiwiIInv, KiwiFresh
    <2>5. LabelsConfirmed'
      BY <2>1, <2>2, KiwiUnset DEF KiwiIInv, KiwiConfirmed, KiwiFresh, LabelsConfirmed, InForm
    <2>6. KiwiSaveOffered'
      BY <1>1, <2>1, <2>2 DEF KiwiIInv, KiwiConfirmed, KiwiSaveOffered
    <2>7. OrdersRise' /\ KiwiListed'
      <3>1. CASE e \in KiwiRepositories
        BY <1>1, <3>1, KiwiAddRises
      <3>2. CASE e \notin KiwiRepositories
        <4>1. UNCHANGED <<kiwiList, order>>
          BY <1>1, <3>2 DEF KiwiAdd
        <4>2. \A d \in Elements : state[d] # "absent" => state'[d] # "absent"
          BY <2>1, <2>2
        <4> QED
          BY <4>1, <4>2, KiwiListFrame
      <3> QED
        BY <3>1, <3>2
    <2> QED
      BY <2>3, <2>4, <2>5, <2>6, <2>7 DEF KiwiIInv, KiwiConfirmed
  <1>2. ASSUME NEW e \in Elements, KiwiEdit(e), UNCHANGED original PROVE KiwiIInv'
    <2>1. /\ dialog = NoElement /\ dialog' = e
          /\ UNCHANGED <<state, kiwiList, order, default, label, canSave, astray>>
      BY <1>2 DEF KiwiEdit
    <2>2. \A d \in Elements : fields'[d].value = fields[d].value
      BY <1>2, KiwiOpened
    <2> QED
      BY <1>2, <2>1, <2>2, KiwiFieldsFrame, KiwiAssumption
  <1>3. ASSUME NEW e \in Elements, Confirm(e), UNCHANGED original PROVE KiwiIInv'
    <2> DEFINE v == fields[e].value
    <2>1. /\ dialog = e /\ v \notin KiwiRefused(e) /\ canSave' = TRUE /\ dialog' = NoElement
          /\ label' = IF v = Cleared THEN label ELSE [label EXCEPT ![e] = v]
          /\ default' = [default EXCEPT ![e] = fields[e]] /\ state' = [state EXCEPT ![e] = "kept"]
          /\ astray' = astray \ {e} /\ UNCHANGED <<kiwiList, order, fields>>
      BY <1>3 DEF Confirm
    <2>2. /\ default'[e] = fields[e] /\ state'[e] = "kept" /\ v # Cleared => label'[e] = v
          /\ \A d \in Elements : d # e => default'[d] = default[d] /\ state'[d] = state[d] /\ label'[d] = label[d]
      BY <2>1 DEF KiwiTypeOK
    <2>3. default'[e] = fields[e] /\ state'[e] = "kept"
      BY <2>1 DEF KiwiTypeOK
    <2>4. FieldsConfirmed' /\ KiwiKeptIsConfirmed'
      BY <2>1, <2>2, <2>3 DEF KiwiIInv, KiwiConfirmed, FieldsConfirmed, KiwiKeptIsConfirmed
    <2>5. LabelsConfirmed' /\ KiwiFresh'
      BY <2>1, <2>2, <2>3 DEF KiwiIInv, KiwiConfirmed, LabelsConfirmed, KiwiFresh, InForm
    <2>6. OrdersRise' /\ KiwiListed'
      BY <2>1, <2>2, <2>3, KiwiListFrame
    <2>7. KiwiSaveOffered'
      BY <2>1 DEF KiwiSaveOffered
    <2> QED
      BY <2>4, <2>5, <2>6, <2>7 DEF KiwiIInv, KiwiConfirmed
  <1>4. ASSUME NEW e \in Elements, Revert(e), UNCHANGED original PROVE KiwiIInv'
    <2>1. dialog = e /\ dialog' = NoElement /\ canSave' = canSave
      BY <1>4 DEF Revert
    <2>2. CASE state[e] = "new"
      BY <1>4, <2>1, <2>2, KiwiGoneSafe DEF Revert
    <2>3. CASE state[e] # "new"
      <3>1. /\ fields' = [fields EXCEPT ![e] = default[e]] /\ astray' = astray \ {e}
            /\ UNCHANGED <<state, kiwiList, order, default, label>>
        BY <1>4, <2>3 DEF Revert
      <3>2. fields'[e] = default[e] /\ \A d \in Elements : d # e => fields'[d] = fields[d]
        BY <3>1 DEF KiwiTypeOK
      <3> QED
        BY <1>4, <2>1, <3>1, <3>2, KiwiFieldsFrame
    <2> QED
      BY <2>2, <2>3
  <1>5. ASSUME NEW e \in Elements, KiwiDismiss(e), UNCHANGED original PROVE KiwiIInv'
    BY <1>5, KiwiFieldsFrame DEF KiwiDismiss, form
  <1>6. ASSUME NEW e \in Elements, RemoveFields(e), UNCHANGED original PROVE KiwiIInv'
    <2>1. canSave' /\ dialog = NoElement /\ dialog' = NoElement /\ state[e] = "kept"
      BY <1>6 DEF RemoveFields
    <2>2. CASE e \in Loaded
      <3>1. /\ state' = [state EXCEPT ![e] = "destroyed"]
            /\ UNCHANGED <<kiwiList, order, fields, default, label, astray>>
        BY <1>6, <2>2 DEF RemoveFields
      <3>2. state'[e] = "destroyed" /\ \A d \in Elements : d # e => state'[d] = state[d]
        BY <3>1 DEF KiwiTypeOK
      <3>3. FieldsConfirmed' /\ KiwiKeptIsConfirmed'
        BY <2>1, <3>1, <3>2 DEF KiwiIInv, KiwiConfirmed, FieldsConfirmed, KiwiKeptIsConfirmed
      <3>4. LabelsConfirmed' /\ KiwiFresh'
        BY <3>1, <3>2 DEF KiwiIInv, KiwiConfirmed, LabelsConfirmed, KiwiFresh, InForm
      <3>5. OrdersRise' /\ KiwiListed'
        BY <3>1, <3>2, KiwiListFrame
      <3>6. KiwiSaveOffered'
        BY <2>1 DEF KiwiSaveOffered
      <3> QED
        BY <3>3, <3>4, <3>5, <3>6 DEF KiwiIInv, KiwiConfirmed
    <2>3. CASE e \notin Loaded
      BY <1>6, <2>1, <2>3, KiwiGoneSafe DEF RemoveFields
    <2> QED
      BY <2>2, <2>3
  <1>7. ASSUME NEW e \in Elements, NEW v \in Typed(e), KiwiType(e, v), UNCHANGED original PROVE KiwiIInv'
    <2>1. /\ dialog = e /\ fields' = [fields EXCEPT ![e].value = v]
          /\ UNCHANGED <<state, kiwiList, order, default, label, dialog, canSave, astray>>
      BY <1>7 DEF KiwiType
    <2>2. \A d \in Elements : d # e => fields'[d] = fields[d]
      BY <2>1 DEF KiwiTypeOK
    <2> QED
      BY <1>7, <2>1, <2>2, KiwiFieldsFrame
  <1>8. ASSUME NEW e \in Elements, NEW p \in KiwiProjects, ChooseProject(e, p), UNCHANGED original
        PROVE  KiwiIInv'
    <2>1. /\ dialog = e /\ fields' = [fields EXCEPT ![e].project = p]
          /\ UNCHANGED <<state, kiwiList, order, default, label, dialog, canSave, astray>>
      BY <1>8 DEF ChooseProject
    <2>2. \A d \in Elements : d # e => fields'[d] = fields[d]
      BY <2>1 DEF KiwiTypeOK
    <2> QED
      BY <1>8, <2>1, <2>2, KiwiFieldsFrame
  <1>9. ASSUME NEW q \in kiwiAsked, RepositoriesAnswered(q), UNCHANGED original PROVE KiwiIInv'
    <2>1. PICK e \in Elements, r \in Repos : RepoChanged(e, r)
      BY <1>9, KiwiAnswer
    <2>2. /\ \A d \in Elements : d # e => fields'[d] = fields[d]
          /\ astray' = IF dialog = e THEN astray ELSE astray \cup {e}
      BY <2>1, KiwiPathJoins
    <2>3. UNCHANGED <<state, kiwiList, order, default, label, dialog, canSave>>
      BY <1>9 DEF RepositoriesAnswered
    <2> QED
      BY <1>9, <2>2, <2>3, KiwiFieldsFrame
  <1>10. ASSUME CheckBox \/ KiwiSaveClicked \/ KiwiSubmit \/ NotSubmitted, UNCHANGED original PROVE KiwiIInv'
    <2>1. UNCHANGED <<form, dialog, astray>> /\ (canSave => canSave')
      BY <1>10 DEF CheckBox, KiwiSaveClicked, KiwiSubmit, NotSubmitted, Saving
    <2> QED
      BY <1>10, <2>1, KiwiFieldsFrame DEF form
  <1>11. CASE UNCHANGED kiwiVars
    BY <1>11, KiwiFieldsFrame DEF kiwiVars
  <1>12. ASSUME KiwiNext PROVE UNCHANGED original
    BY <1>12 DEF KiwiNext
  <1> QED
    BY <1>1, <1>2, <1>3, <1>4, <1>5, <1>6, <1>7, <1>8, <1>9, <1>10, <1>11, <1>12 DEF KiwiNext

\* The form sends of its repositories and packages the fields that were confirmed,
\* unless their dialog was hidden without an answer or an answer came after it was
\* closed; the page shows of every element what was confirmed, a change can be
\* saved, and the order fields rise along the list: whatever is added, edited,
\* cancelled and removed, and whenever the repositories of a project come
\* (kiwi_editor.js:28-215, 388).  Of the fields of the details it says nothing:
\* their Cancel only hides the dialog.
THEOREM KiwiIsConfirmed == KiwiSpec => []KiwiConfirmed
  <1>1. KiwiIInv => KiwiConfirmed
    BY DEF KiwiIInv
  <1> QED
    BY <1>1, KiwiTypeCorrect, KiwiSafeInit, KiwiSafeNext, PTL DEF KiwiSpec

-----------------------------------------------------------------------------
(* Comments.  Unless a thread is excused, one request of it is under way at *)
(* most.  The last word on the thread is the answer of that request, if it  *)
(* is handled; otherwise what waits for the dialog to be hidden, if         *)
(* anything does; otherwise what is shown.                                  *)

CommentOwn == \A r \in commentRequests : r.of[1] = r.thread
CommentSingle ==
  \A t \in Threads \ commentExcused : \A r, s \in CommentOf(t) : r = s
CommentAnswer ==
  \A t \in Threads \ commentExcused : \A r \in CommentOf(t) :
    r.pc = "done" => r.version = commentServer[t]
CommentWaits(t) == \E i \in Waiting : handlers[i].thread = t
CommentIsLast(t, i) ==
  /\ i \in 1..Len(handlers) /\ handlers[i].thread = t
  /\ \A j \in (i + 1)..Len(handlers) : handlers[j].thread # t
CommentCurrent(t) ==
  /\ CommentWaits(t) =>
       \A i \in 1..Len(handlers) : CommentIsLast(t, i) => handlers[i].what = <<t, commentServer[t]>>
  /\ ~CommentWaits(t) => commentShown[t] = <<t, commentServer[t]>>
CommentLastWord ==
  \A t \in Threads \ commentExcused :
    (\A r \in CommentOf(t) : r.pc # "done") => CommentCurrent(t)
CommentIInv == CommentOwn /\ CommentSingle /\ CommentAnswer /\ CommentLastWord

\* A text that is typed has its draft, and what was sent has none.
CommentDrafted == \A f \in Forms : commentText[f] /\ ~Sending(f) /\ f \notin loose => draft[f]
CommentCleared == \A f \in sent : ~draft[f]
CommentTexts   == CommentDrafted /\ CommentCleared /\ SentOnce

\* A request that is under way is of a form or deletes, never both.
LEMMA CommentSorts ==
  ASSUME CommentTypeOK, NEW r \in commentRequests
  PROVE  /\ r \in CommentRequest /\ r.thread \in Threads
         /\ Deletes(r) => r.of \notin Forms
         /\ ~Deletes(r) => r.of \in Forms
  <1>1. r \in CommentRequest
    BY DEF CommentTypeOK
  <1>2. r.thread \in Threads /\ r.of \in Forms \cup Threads \X {"delete"}
    BY <1>1 DEF CommentRequest
  <1> QED
    BY <1>1, <1>2, CommentsAssumption DEF Deletes

\* What is rendered keeps its type.
LEMMA CommentRenderTypes ==
  ASSUME CommentTypeOK, NEW fs, Rendered(fs)
  PROVE  commentText' \in [Forms -> BOOLEAN] /\ loose' \subseteq Forms
  BY DEF Rendered, CommentTypeOK

\* So does a request that is sent.
LEMMA CommentSendTypes ==
  ASSUME CommentTypeOK, NEW o \in Forms \cup Threads \X {"delete"}, Send(o)
  PROVE  /\ o[1] \in Threads
         /\ commentRequests' \subseteq CommentRequest /\ commentExcused' \subseteq Threads
  <1>1. o[1] \in Threads
    BY CommentsAssumption
  <1>2. [thread |-> o[1], of |-> o, pc |-> "sent", version |-> 0] \in CommentRequest
    BY <1>1, CommentsAssumption DEF CommentRequest
  <1> QED
    BY <1>1, <1>2 DEF Send, CommentTypeOK

\* The dialog is hidden: a thread with handlers shows what the last of them holds.
LEMMA CommentHidden ==
  ASSUME CommentTypeOK, Hidden, NEW t \in Threads
  PROVE  /\ (\A i \in 1..Len(handlers) : handlers[i].thread # t) => commentShown'[t] = commentShown[t]
         /\ (\E i \in 1..Len(handlers) : handlers[i].thread = t) =>
              \E i \in 1..Len(handlers) : CommentIsLast(t, i) /\ commentShown'[t] = handlers[i].what
  <1> DEFINE last(u) == CHOOSE i \in 1..Len(handlers) :
                          /\ handlers[i].thread = u
                          /\ \A j \in (i + 1)..Len(handlers) : handlers[j].thread # u
             ts == {handlers[i].thread : i \in 1..Len(handlers)}
  <1>1. commentShown' = [u \in Threads |-> IF u \in ts THEN handlers[last(u)].what ELSE commentShown[u]]
    BY DEF Hidden
  <1>2. commentShown'[t] = IF t \in ts THEN handlers[last(t)].what ELSE commentShown[t]
    BY <1>1
  <1>3. ASSUME NEW k \in 1..Len(handlers), handlers[k].thread = t
        PROVE  last(t) \in 1..Len(handlers) /\ CommentIsLast(t, last(t))
    <2> DEFINE S == {i \in 1..Len(handlers) : handlers[i].thread = t}
    <2>1. Len(handlers) \in Nat
      BY DEF CommentTypeOK
    <2>2. S # {} /\ S \in SUBSET (1..Len(handlers))
      BY <1>3
    <2>3. PICK i \in S : \A j \in S : j <= i
      BY <2>1, <2>2, NatMax
    <2>4. \A j \in (i + 1)..Len(handlers) : handlers[j].thread # t
      <3> SUFFICES ASSUME NEW j \in (i + 1)..Len(handlers), handlers[j].thread = t PROVE FALSE
        OBVIOUS
      <3>1. i \in 1..Len(handlers) /\ j \in 1..Len(handlers) /\ j > i
        BY <2>1, <2>3
      <3>2. j \in S
        BY <3>1
      <3> QED
        BY <2>3, <3>1, <3>2
    <2>5. \E n \in 1..Len(handlers) :
            /\ handlers[n].thread = t
            /\ \A j \in (n + 1)..Len(handlers) : handlers[j].thread # t
      BY <2>3, <2>4
    <2> QED
      BY <2>5 DEF CommentIsLast
  <1>4. t \in ts <=> \E i \in 1..Len(handlers) : handlers[i].thread = t
    OBVIOUS
  <1> QED
    BY <1>2, <1>3, <1>4

\* Every handler stays, and has run.
LEMMA CommentRan ==
  ASSUME CommentTypeOK, Hidden
  PROVE  /\ handlers' \in Seq(Handler) /\ Len(handlers') = Len(handlers)
         /\ \A i \in 1..Len(handlers) : handlers'[i].ran /\ handlers'[i].thread = handlers[i].thread
  <1>1. handlers' = [i \in 1..Len(handlers) |-> [handlers[i] EXCEPT !.ran = TRUE]]
    BY DEF Hidden
  <1>2. Len(handlers) \in Nat /\ \A i \in 1..Len(handlers) : handlers[i] \in Handler
    BY DEF CommentTypeOK
  <1>3. \A i \in 1..Len(handlers) :
          [handlers[i] EXCEPT !.ran = TRUE] \in Handler /\ [handlers[i] EXCEPT !.ran = TRUE].ran
          /\ [handlers[i] EXCEPT !.ran = TRUE].thread = handlers[i].thread
    BY <1>2 DEF Handler
  <1>4. handlers' \in Seq(Handler) /\ Len(handlers') = Len(handlers)
    BY <1>1, <1>2, <1>3
  <1> QED
    BY <1>1, <1>3, <1>4

\* The dialog is hidden with the types right.
LEMMA CommentHiddenTypes ==
  ASSUME CommentTypeOK, Hidden
  PROVE  CommentTypeOK'
  <1>1. handlers' \in Seq(Handler)
    BY CommentRan
  <1>2. ASSUME NEW t \in Threads PROVE commentShown'[t] \in Shown
    <2>1. \A i \in 1..Len(handlers) : handlers[i] \in Handler
      BY DEF CommentTypeOK
    <2>2. \A i \in 1..Len(handlers) : handlers[i].what \in Shown
      BY <2>1 DEF Handler
    <2> QED
      BY <2>2, CommentHidden DEF CommentTypeOK
  <1>3. commentShown' = [t \in Threads |-> commentShown'[t]]
    BY DEF Hidden
  <1>4. commentShown' \in [Threads -> Shown]
    BY <1>2, <1>3
  <1>5. commentText' \in [Forms -> BOOLEAN] /\ loose' \subseteq Forms
    BY CommentRenderTypes DEF Hidden
  <1>6. commentExcused' \subseteq Threads
    <2>1. \A i \in 1..Len(handlers) : handlers[i] \in Handler
      BY DEF CommentTypeOK
    <2>2. \A i \in 1..Len(handlers) : handlers[i].thread \in Threads
      BY <2>1 DEF Handler
    <2> QED
      BY <2>2 DEF Hidden, CommentTypeOK
  <1>7. modal' = "hidden" /\ UNCHANGED <<commentServer, commentRequests, draft, subject, sent>>
    BY DEF Hidden
  <1> QED
    BY <1>1, <1>4, <1>5, <1>6, <1>7 DEF CommentTypeOK

\* The page opens with its types right.
LEMMA CommentTypeInit == CommentInit => CommentTypeOK
  <1> SUFFICES ASSUME CommentInit PROVE CommentTypeOK
    OBVIOUS
  <1>1. commentServer \in [Threads -> 0..MaxCommentChanges] /\ commentShown \in [Threads -> Shown]
    BY CommentsAssumption DEF CommentInit, Shown
  <1>2. handlers \in Seq(Handler) /\ modal = "hidden"
    BY DEF CommentInit
  <1> QED
    BY <1>1, <1>2 DEF CommentInit, CommentTypeOK

\* Every step keeps the types.
LEMMA CommentTypeNext == CommentTypeOK /\ [CommentNext]_commentVars => CommentTypeOK'
  <1> SUFFICES ASSUME CommentTypeOK, [CommentNext]_commentVars PROVE CommentTypeOK'
    OBVIOUS
  <1>1. ASSUME NEW f \in Forms, CommentType(f) PROVE CommentTypeOK'
    BY <1>1 DEF CommentType, CommentTypeOK, commentPage
  <1>2. ASSUME NEW f \in Forms, Paste(f) PROVE CommentTypeOK'
    BY <1>2 DEF Paste, CommentTypeOK, commentPage
  <1>3. ASSUME NEW f \in Forms, Cancel(f) PROVE CommentTypeOK'
    BY <1>3 DEF Cancel, CommentTypeOK, commentPage
  <1>4. ASSUME NEW f \in Forms, CommentSubmit(f) PROVE CommentTypeOK'
    <2>1. commentRequests' \subseteq CommentRequest /\ commentExcused' \subseteq Threads
      BY <1>4, CommentSendTypes DEF CommentSubmit
    <2> QED
      BY <1>4, <2>1 DEF CommentSubmit, CommentTypeOK
  <1>5. ASSUME NEW t \in Threads, DeleteClicked(t) PROVE CommentTypeOK'
    BY <1>5 DEF DeleteClicked, CommentTypeOK
  <1>6. CASE DeleteConfirmed
    <2>1. <<subject, "delete">> \in Forms \cup Threads \X {"delete"}
      BY DEF CommentTypeOK
    <2>2. commentRequests' \subseteq CommentRequest /\ commentExcused' \subseteq Threads
      BY <1>6, <2>1, CommentSendTypes DEF DeleteConfirmed
    <2> QED
      BY <1>6, <2>2 DEF DeleteConfirmed, CommentTypeOK
  <1>7. ASSUME NEW r \in commentRequests, CommentHandle(r) PROVE CommentTypeOK'
    <2>1. r \in CommentRequest /\ r.thread \in Threads
      BY CommentSorts
    <2>2. commentServer' \in [Threads -> 0..MaxCommentChanges]
      BY <1>7, <2>1, CommentsAssumption DEF CommentHandle, CommentTypeOK
    <2>3. commentServer'[r.thread] \in 0..MaxCommentChanges
      BY <2>1, <2>2
    <2>4. [r EXCEPT !.pc = "done", !.version = commentServer'[r.thread]] \in CommentRequest
      BY <2>1, <2>3 DEF CommentRequest
    <2> QED
      BY <1>7, <2>2, <2>4 DEF CommentHandle, CommentTypeOK
  <1>8. ASSUME NEW r \in commentRequests, CommentFail(r) PROVE CommentTypeOK'
    <2>1. r \in CommentRequest /\ r.thread \in Threads
      BY CommentSorts
    <2>2. [r EXCEPT !.pc = "failed"] \in CommentRequest
      BY <2>1 DEF CommentRequest
    <2> QED
      BY <1>8, <2>1, <2>2 DEF CommentFail, CommentTypeOK
  <1>9. ASSUME NEW r \in commentRequests, FormComplete(r) PROVE CommentTypeOK'
    <2>1. r \in CommentRequest /\ r.thread \in Threads
      BY CommentSorts
    <2>2. <<r.thread, r.version>> \in Shown
      BY <2>1 DEF CommentRequest, Shown
    <2>3. commentText' \in [Forms -> BOOLEAN] /\ loose' \subseteq Forms
      BY <1>9, CommentRenderTypes DEF FormComplete
    <2>4. commentShown' \in [Threads -> Shown]
      BY <1>9, <2>2 DEF FormComplete, CommentTypeOK
    <2>5. commentExcused' \subseteq Threads
      BY <1>9, <2>1 DEF FormComplete, CommentTypeOK
    <2> QED
      BY <1>9, <2>3, <2>4, <2>5 DEF FormComplete, CommentTypeOK
  <1>10. ASSUME NEW r \in commentRequests, DeleteComplete(r) PROVE CommentTypeOK'
    <2>1. r \in CommentRequest /\ r.thread \in Threads
      BY CommentSorts
    <2>2. [thread |-> subject, what |-> <<r.thread, r.version>>, ran |-> FALSE] \in Handler
      BY <2>1 DEF CommentRequest, Shown, Handler, CommentTypeOK
    <2>3. handlers' \in Seq(Handler)
      BY <1>10, <2>2 DEF DeleteComplete, CommentTypeOK
    <2>4. commentExcused' \subseteq Threads /\ modal' \in {"hidden", "shown", "hiding"}
      BY <1>10, <2>1 DEF DeleteComplete, CommentTypeOK
    <2> QED
      BY <1>10, <2>3, <2>4 DEF DeleteComplete, CommentTypeOK
  <1>11. ASSUME NEW r \in commentRequests, CompleteFails(r) PROVE CommentTypeOK'
    <2>1. loose' \subseteq Forms
      BY <1>11, CommentSorts DEF CompleteFails, CommentTypeOK
    <2> QED
      BY <1>11, <2>1 DEF CompleteFails, CommentTypeOK
  <1>12. CASE CommentDismiss
    BY <1>12 DEF CommentDismiss, CommentTypeOK
  <1>13. CASE Hidden
    BY <1>13, CommentHiddenTypes
  <1>14. CASE CommentReload
    <2>1. commentText' \in [Forms -> BOOLEAN] /\ loose' \subseteq Forms
      BY <1>14, CommentRenderTypes DEF CommentReload
    <2>2. commentShown' \in [Threads -> Shown]
      BY <1>14 DEF CommentReload, CommentTypeOK, Shown
    <2>3. handlers' \in Seq(Handler)
      BY <1>14 DEF CommentReload
    <2> QED
      BY <1>14, <2>1, <2>2, <2>3 DEF CommentReload, CommentTypeOK
  <1>15. CASE UNCHANGED commentVars
    BY <1>15 DEF commentVars, commentPage, CommentTypeOK
  <1> QED
    BY <1>1, <1>2, <1>3, <1>4, <1>5, <1>6, <1>7, <1>8, <1>9, <1>10, <1>11, <1>12, <1>13, <1>14,
       <1>15 DEF CommentNext

\* Every variable of the page, the storage and the requests keeps its type.
THEOREM CommentTypeCorrect == CommentSpec => []CommentTypeOK
  BY CommentTypeInit, CommentTypeNext, PTL DEF CommentSpec

-----------------------------------------------------------------------------
\* The threads.

\* The page opens with every thread as it is.
LEMMA CommentSafeInit == CommentInit => CommentIInv
  <1> SUFFICES ASSUME CommentInit PROVE CommentIInv
    OBVIOUS
  <1>1. commentRequests = {} /\ Waiting = {}
    BY DEF CommentInit, Waiting
  <1>2. \A t \in Threads : commentShown[t] = <<t, commentServer[t]>>
    BY DEF CommentInit
  <1> QED
    BY <1>1, <1>2 DEF CommentIInv, CommentOwn, CommentSingle, CommentAnswer, CommentLastWord,
                      CommentCurrent, CommentWaits, CommentOf

\* A thread stays current if server, page and handlers of it stay.
LEMMA CommentStays ==
  ASSUME NEW t, CommentCurrent(t), commentServer'[t] = commentServer[t],
         commentShown'[t] = commentShown[t], handlers' = handlers
  PROVE  CommentCurrent(t)'
  BY DEF CommentCurrent, CommentWaits, CommentIsLast, Waiting

\* A step that leaves the threads and their requests alone.
LEMMA CommentUntouched ==
  ASSUME CommentIInv,
         UNCHANGED <<commentServer, commentShown, commentRequests, handlers, commentExcused>>
  PROVE  CommentIInv'
  <1>1. (CommentOwn /\ CommentSingle /\ CommentAnswer)'
    BY DEF CommentIInv, CommentOwn, CommentSingle, CommentAnswer, CommentOf
  <1>2. CommentLastWord'
    BY CommentStays DEF CommentIInv, CommentLastWord, CommentOf
  <1> QED
    BY <1>1, <1>2 DEF CommentIInv

\* A request that is sent is alone, or its thread is excused.
LEMMA CommentSendSafe ==
  ASSUME CommentTypeOK, CommentIInv, NEW o \in Forms \cup Threads \X {"delete"}, Send(o),
         UNCHANGED <<commentServer, commentShown, handlers>>
  PROVE  CommentIInv'
  <1> DEFINE r == [thread |-> o[1], of |-> o, pc |-> "sent", version |-> 0]
  <1>1. /\ commentRequests' = commentRequests \cup {r}
        /\ commentExcused' = IF CommentOf(o[1]) # {} THEN commentExcused \cup {o[1]} ELSE commentExcused
    BY DEF Send
  <1>2. r.thread = o[1] /\ r.of = o /\ r.pc = "sent"
    OBVIOUS
  <1> HIDE DEF r
  <1>3. CommentOwn'
    BY <1>1, <1>2 DEF CommentIInv, CommentOwn
  <1>4. ASSUME NEW t \in Threads \ commentExcused', NEW q \in CommentOf(t)'
        PROVE  IF t = o[1] THEN q = r /\ CommentOf(t) = {} ELSE q \in CommentOf(t)
    BY <1>1, <1>2 DEF CommentOf
  <1>5. CommentSingle'
    BY <1>1, <1>4 DEF CommentIInv, CommentSingle
  <1>6. CommentAnswer'
    BY <1>1, <1>2, <1>4 DEF CommentIInv, CommentAnswer
  <1>7. CommentLastWord'
    <2> SUFFICES ASSUME NEW t \in Threads \ commentExcused', \A q \in CommentOf(t)' : q.pc # "done"
                 PROVE  CommentCurrent(t)'
      BY DEF CommentLastWord
    <2>1. \A q \in CommentOf(t) : q.pc # "done"
      BY <1>1 DEF CommentOf
    <2> QED
      BY <1>1, <2>1, CommentStays DEF CommentIInv, CommentLastWord
  <1> QED
    BY <1>3, <1>5, <1>6, <1>7 DEF CommentIInv

\* A request goes on: it is the only one of its thread, still.
LEMMA CommentGoesOn ==
  ASSUME CommentIInv, NEW r \in commentRequests, NEW q, q.thread = r.thread, q.of = r.of,
         commentRequests' = (commentRequests \ {r}) \cup {q}, commentExcused \subseteq commentExcused'
  PROVE  /\ CommentOwn' /\ CommentSingle'
         /\ \A t \in Threads \ commentExcused' : CommentOf(t)' = IF t = r.thread THEN {q} ELSE CommentOf(t)
  <1>1. CommentOwn'
    BY DEF CommentIInv, CommentOwn
  <1>2. \A t \in Threads \ commentExcused' : t = r.thread => CommentOf(t) = {r}
    BY DEF CommentIInv, CommentSingle, CommentOf
  <1>3. ASSUME NEW t \in Threads \ commentExcused'
        PROVE  CommentOf(t)' = IF t = r.thread THEN {q} ELSE CommentOf(t)
    BY <1>2 DEF CommentOf
  <1>4. CommentSingle'
    BY <1>3 DEF CommentIInv, CommentSingle
  <1> QED
    BY <1>1, <1>3, <1>4

\* A request is over: there is none of its thread.
LEMMA CommentOver ==
  ASSUME CommentIInv, NEW r \in commentRequests,
         commentRequests' = commentRequests \ {r}, commentExcused \subseteq commentExcused'
  PROVE  /\ CommentOwn' /\ CommentSingle'
         /\ \A t \in Threads \ commentExcused' : CommentOf(t)' = IF t = r.thread THEN {} ELSE CommentOf(t)
  <1>1. CommentOwn'
    BY DEF CommentIInv, CommentOwn
  <1>2. \A t \in Threads \ commentExcused' : t = r.thread => CommentOf(t) = {r}
    BY DEF CommentIInv, CommentSingle, CommentOf
  <1>3. ASSUME NEW t \in Threads \ commentExcused'
        PROVE  CommentOf(t)' = IF t = r.thread THEN {} ELSE CommentOf(t)
    BY <1>2 DEF CommentOf
  <1>4. CommentSingle'
    BY <1>3 DEF CommentIInv, CommentSingle
  <1> QED
    BY <1>1, <1>3, <1>4

\* A handler of another thread changes nothing for this one.
LEMMA CommentAppended ==
  ASSUME CommentTypeOK, NEW t, CommentCurrent(t), NEW h \in Handler, h.thread # t,
         handlers' = Append(handlers, h),
         commentServer'[t] = commentServer[t], commentShown'[t] = commentShown[t]
  PROVE  CommentCurrent(t)'
  <1>1. /\ Len(handlers) \in Nat /\ Len(handlers') = Len(handlers) + 1
        /\ handlers'[Len(handlers) + 1] = h
        /\ \A i \in 1..Len(handlers) : handlers'[i] = handlers[i]
    BY DEF CommentTypeOK
  <1>2. CommentWaits(t)' <=> CommentWaits(t)
    BY <1>1 DEF CommentWaits, Waiting
  <1>3. ASSUME NEW i \in 1..Len(handlers'), CommentIsLast(t, i)'
        PROVE  i \in 1..Len(handlers) /\ CommentIsLast(t, i)
    <2>1. i \in 1..Len(handlers)
      BY <1>1, <1>3 DEF CommentIsLast
    <2> QED
      BY <1>1, <1>3, <2>1 DEF CommentIsLast
  <1> QED
    BY <1>1, <1>2, <1>3 DEF CommentCurrent

\* The handler of a deletion that is registered last has the last word.
LEMMA CommentDeleted ==
  ASSUME CommentTypeOK, NEW t \in Threads, NEW h \in Handler, h.thread = t, ~h.ran,
         h.what = <<t, commentServer'[t]>>, handlers' = Append(handlers, h)
  PROVE  CommentCurrent(t)'
  <1>1. /\ Len(handlers) \in Nat /\ Len(handlers') = Len(handlers) + 1
        /\ handlers'[Len(handlers) + 1] = h
    BY DEF CommentTypeOK
  <1>2. CommentWaits(t)'
    BY <1>1 DEF CommentWaits, Waiting
  <1>3. ASSUME NEW i \in 1..Len(handlers'), CommentIsLast(t, i)' PROVE i = Len(handlers) + 1
    BY <1>1, <1>3 DEF CommentIsLast
  <1> QED
    BY <1>1, <1>2, <1>3 DEF CommentCurrent

\* Every step keeps the invariant.
LEMMA CommentSafeNext == CommentTypeOK /\ CommentIInv /\ [CommentNext]_commentVars => CommentIInv'
  <1> SUFFICES ASSUME CommentTypeOK, CommentIInv, [CommentNext]_commentVars PROVE CommentIInv'
    OBVIOUS
  <1>1. ASSUME NEW f \in Forms, CommentType(f) \/ Paste(f) \/ Cancel(f) PROVE CommentIInv'
    BY <1>1, CommentUntouched DEF CommentType, Paste, Cancel, commentPage
  <1>2. ASSUME NEW f \in Forms, CommentSubmit(f) PROVE CommentIInv'
    BY <1>2, CommentSendSafe DEF CommentSubmit
  <1>3. ASSUME NEW t \in Threads, DeleteClicked(t) PROVE CommentIInv'
    BY <1>3, CommentUntouched DEF DeleteClicked
  <1>4. CASE DeleteConfirmed
    <2>1. <<subject, "delete">> \in Forms \cup Threads \X {"delete"}
      BY DEF CommentTypeOK
    <2> QED
      BY <1>4, <2>1, CommentSendSafe DEF DeleteConfirmed
  <1>5. CASE CommentDismiss
    BY <1>5, CommentUntouched DEF CommentDismiss
  <1>6. ASSUME NEW r \in commentRequests, CommentHandle(r) PROVE CommentIInv'
    <2> DEFINE q == [r EXCEPT !.pc = "done", !.version = commentServer'[r.thread]]
    <2>1. /\ commentServer' = [commentServer EXCEPT ![r.thread] = @ + 1]
          /\ commentRequests' = (commentRequests \ {r}) \cup {q}
          /\ UNCHANGED <<commentShown, handlers, commentExcused>>
      BY <1>6 DEF CommentHandle
    <2>2. r \in CommentRequest
      BY CommentSorts
    <2>3. q.thread = r.thread /\ q.of = r.of /\ q.pc = "done" /\ q.version = commentServer'[r.thread]
      BY <2>2 DEF CommentRequest
    <2> HIDE DEF q
    <2>4. /\ CommentOwn' /\ CommentSingle'
          /\ \A t \in Threads \ commentExcused : CommentOf(t)' = IF t = r.thread THEN {q} ELSE CommentOf(t)
      BY <2>1, <2>3, CommentGoesOn
    <2>5. \A t \in Threads : t # r.thread => commentServer'[t] = commentServer[t]
      BY <2>1 DEF CommentTypeOK
    <2>6. CommentAnswer'
      BY <2>1, <2>3, <2>4, <2>5 DEF CommentIInv, CommentAnswer
    <2>7. CommentLastWord'
      <3> SUFFICES ASSUME NEW t \in Threads \ commentExcused', \A s \in CommentOf(t)' : s.pc # "done"
                   PROVE  CommentCurrent(t)'
        BY DEF CommentLastWord
      <3>1. t # r.thread /\ \A s \in CommentOf(t) : s.pc # "done"
        BY <2>1, <2>3, <2>4
      <3> QED
        BY <2>1, <2>5, <3>1, CommentStays DEF CommentIInv, CommentLastWord
    <2> QED
      BY <2>4, <2>6, <2>7 DEF CommentIInv
  <1>7. ASSUME NEW r \in commentRequests, CommentFail(r) PROVE CommentIInv'
    <2> DEFINE q == [r EXCEPT !.pc = "failed"]
    <2>1. /\ commentRequests' = (commentRequests \ {r}) \cup {q}
          /\ commentExcused' = IF r.pc = "done" THEN commentExcused \cup {r.thread} ELSE commentExcused
          /\ UNCHANGED <<commentServer, commentShown, handlers>>
      BY <1>7 DEF CommentFail
    <2>2. r \in CommentRequest
      BY CommentSorts
    <2>3. q.thread = r.thread /\ q.of = r.of /\ q.pc = "failed"
      BY <2>2 DEF CommentRequest
    <2> HIDE DEF q
    <2>4. /\ CommentOwn' /\ CommentSingle'
          /\ \A t \in Threads \ commentExcused' : CommentOf(t)' = IF t = r.thread THEN {q} ELSE CommentOf(t)
      BY <2>1, <2>3, CommentGoesOn
    <2>5. CommentAnswer'
      BY <2>1, <2>3, <2>4 DEF CommentIInv, CommentAnswer
    <2>6. CommentLastWord'
      <3> SUFFICES ASSUME NEW t \in Threads \ commentExcused', \A s \in CommentOf(t)' : s.pc # "done"
                   PROVE  CommentCurrent(t)'
        BY DEF CommentLastWord
      <3>1. \A s \in CommentOf(t) : s.pc # "done"
        <4>1. CASE t = r.thread
          BY <2>1, <4>1 DEF CommentIInv, CommentSingle, CommentOf
        <4>2. CASE t # r.thread
          BY <2>4, <4>2
        <4> QED
          BY <4>1, <4>2
      <3> QED
        BY <2>1, <3>1, CommentStays DEF CommentIInv, CommentLastWord
    <2> QED
      BY <2>4, <2>5, <2>6 DEF CommentIInv
  <1>8. ASSUME NEW r \in commentRequests, FormComplete(r) PROVE CommentIInv'
    <2>1. /\ r.pc = "done" /\ commentRequests' = commentRequests \ {r}
          /\ commentShown' = [commentShown EXCEPT ![r.thread] = <<r.thread, r.version>>]
          /\ commentExcused' = commentExcused \cup ({handlers[i].thread : i \in Waiting} \cap {r.thread})
          /\ UNCHANGED <<commentServer, handlers>>
      BY <1>8 DEF FormComplete
    <2>2. /\ CommentOwn' /\ CommentSingle'
          /\ \A t \in Threads \ commentExcused' : CommentOf(t)' = IF t = r.thread THEN {} ELSE CommentOf(t)
      BY <2>1, CommentOver
    <2>3. CommentAnswer'
      BY <2>1, <2>2 DEF CommentIInv, CommentAnswer
    <2>4. ASSUME NEW t \in Threads \ commentExcused', \A s \in CommentOf(t)' : s.pc # "done"
          PROVE  CommentCurrent(t)'
      <3>1. CASE t = r.thread
        <4>1. r \in CommentOf(t) /\ t \notin commentExcused
          BY <2>1, <3>1 DEF CommentOf
        <4>2. r.version = commentServer[t]
          BY <2>1, <4>1 DEF CommentIInv, CommentAnswer
        <4>3. commentShown'[t] = <<t, commentServer'[t]>>
          BY <2>1, <3>1, <4>2 DEF CommentTypeOK
        <4>4. ~CommentWaits(t)
          BY <2>1, <3>1 DEF CommentWaits
        <4>5. ~CommentWaits(t)'
          BY <2>1, <4>4 DEF CommentWaits, Waiting
        <4> QED
          BY <4>3, <4>5 DEF CommentCurrent
      <3>2. CASE t # r.thread
        <4>1. commentShown'[t] = commentShown[t]
          BY <2>1, <3>2 DEF CommentTypeOK
        <4>2. t \notin commentExcused /\ \A s \in CommentOf(t) : s.pc # "done"
          BY <2>1, <2>2, <2>4, <3>2
        <4> QED
          BY <2>1, <4>1, <4>2, CommentStays DEF CommentIInv, CommentLastWord
      <3> QED
        BY <3>1, <3>2
    <2> QED
      BY <2>2, <2>3, <2>4 DEF CommentIInv, CommentLastWord
  <1>9. ASSUME NEW r \in commentRequests, CompleteFails(r) PROVE CommentIInv'
    <2>1. /\ r.pc = "failed" /\ commentRequests' = commentRequests \ {r}
          /\ UNCHANGED <<commentServer, commentShown, handlers, commentExcused>>
      BY <1>9 DEF CompleteFails
    <2>2. /\ CommentOwn' /\ CommentSingle'
          /\ \A t \in Threads \ commentExcused' : CommentOf(t)' = IF t = r.thread THEN {} ELSE CommentOf(t)
      BY <2>1, CommentOver
    <2>3. CommentAnswer'
      BY <2>1, <2>2 DEF CommentIInv, CommentAnswer
    <2>4. ASSUME NEW t \in Threads \ commentExcused', \A s \in CommentOf(t)' : s.pc # "done"
          PROVE  CommentCurrent(t)'
      <3>1. \A s \in CommentOf(t) : s.pc # "done"
        <4>1. CASE t = r.thread
          BY <2>1, <4>1 DEF CommentIInv, CommentSingle, CommentOf
        <4>2. CASE t # r.thread
          BY <2>2, <2>4, <4>2
        <4> QED
          BY <4>1, <4>2
      <3> QED
        BY <2>1, <3>1, CommentStays DEF CommentIInv, CommentLastWord
    <2> QED
      BY <2>2, <2>3, <2>4 DEF CommentIInv, CommentLastWord
  <1>10. ASSUME NEW r \in commentRequests, DeleteComplete(r) PROVE CommentIInv'
    <2> DEFINE h == [thread |-> subject, what |-> <<r.thread, r.version>>, ran |-> FALSE]
    <2>1. /\ r.pc = "done" /\ commentRequests' = commentRequests \ {r} /\ handlers' = Append(handlers, h)
          /\ commentExcused' = commentExcused \cup (IF subject = r.thread THEN {} ELSE {subject, r.thread})
          /\ UNCHANGED <<commentServer, commentShown>>
      BY <1>10 DEF DeleteComplete
    <2>2. r \in CommentRequest /\ subject \in Threads
      BY CommentSorts DEF CommentTypeOK
    <2>3. h \in Handler /\ h.thread = subject /\ ~h.ran /\ h.what = <<r.thread, r.version>>
      BY <2>2 DEF CommentRequest, Shown, Handler
    <2> HIDE DEF h
    <2>4. /\ CommentOwn' /\ CommentSingle'
          /\ \A t \in Threads \ commentExcused' : CommentOf(t)' = IF t = r.thread THEN {} ELSE CommentOf(t)
      BY <2>1, CommentOver
    <2>5. CommentAnswer'
      BY <2>1, <2>4 DEF CommentIInv, CommentAnswer
    <2>6. ASSUME NEW t \in Threads \ commentExcused', \A s \in CommentOf(t)' : s.pc # "done"
          PROVE  CommentCurrent(t)'
      <3>1. CASE t = r.thread
        <4>1. subject = t
          BY <2>1, <3>1
        <4>2. r \in CommentOf(t) /\ t \notin commentExcused
          BY <2>1, <3>1 DEF CommentOf
        <4>3. r.version = commentServer[t]
          BY <2>1, <4>2 DEF CommentIInv, CommentAnswer
        <4> QED
          BY <2>1, <2>3, <3>1, <4>1, <4>3, CommentDeleted
      <3>2. CASE t # r.thread
        <4>1. t # subject
          BY <2>1, <3>2
        <4>2. t \notin commentExcused /\ \A s \in CommentOf(t) : s.pc # "done"
          BY <2>1, <2>4, <2>6, <3>2
        <4>3. CommentCurrent(t)
          BY <4>2 DEF CommentIInv, CommentLastWord
        <4> QED
          BY <2>1, <2>3, <4>1, <4>3, CommentAppended
      <3> QED
        BY <3>1, <3>2
    <2> QED
      BY <2>4, <2>5, <2>6 DEF CommentIInv, CommentLastWord
  <1>11. CASE Hidden
    <2>1. /\ UNCHANGED <<commentServer, commentRequests>>
          /\ commentExcused' = commentExcused \cup
               {handlers[i].thread : i \in {j \in 1..Len(handlers) : handlers[j].ran}}
      BY <1>11 DEF Hidden
    <2>2. CommentOwn' /\ CommentSingle' /\ CommentAnswer'
      BY <2>1 DEF CommentIInv, CommentOwn, CommentSingle, CommentAnswer, CommentOf
    <2>3. Waiting' = {}
      BY <1>11, CommentRan DEF Waiting
    <2>4. ASSUME NEW t \in Threads \ commentExcused', \A s \in CommentOf(t)' : s.pc # "done"
          PROVE  CommentCurrent(t)'
      <3>1. CommentCurrent(t)
        BY <2>1, <2>4 DEF CommentIInv, CommentLastWord, CommentOf
      <3>2. commentShown'[t] = <<t, commentServer[t]>>
        <4>1. CASE \A i \in 1..Len(handlers) : handlers[i].thread # t
          <5>1. commentShown'[t] = commentShown[t] /\ ~CommentWaits(t)
            BY <1>11, <4>1, CommentHidden DEF CommentWaits, Waiting
          <5> QED
            BY <3>1, <5>1 DEF CommentCurrent
        <4>2. CASE \E i \in 1..Len(handlers) : handlers[i].thread = t
          <5>1. CommentWaits(t)
            BY <2>1, <4>2 DEF CommentWaits, Waiting
          <5>2. PICK i \in 1..Len(handlers) : CommentIsLast(t, i) /\ commentShown'[t] = handlers[i].what
            BY <1>11, <4>2, CommentHidden
          <5> QED
            BY <3>1, <5>1, <5>2 DEF CommentCurrent
        <4> QED
          BY <4>1, <4>2
      <3> QED
        BY <2>1, <2>3, <3>2 DEF CommentCurrent, CommentWaits
    <2> QED
      BY <2>2, <2>4 DEF CommentIInv, CommentLastWord
  <1>12. CASE CommentReload
    <2>1. /\ commentRequests' = {} /\ handlers' = <<>> /\ commentServer' = commentServer
          /\ commentShown' = [t \in Threads |-> <<t, commentServer[t]>>]
      BY <1>12 DEF CommentReload
    <2>2. Waiting' = {}
      BY <2>1 DEF Waiting
    <2>3. CommentOwn' /\ CommentSingle' /\ CommentAnswer'
      BY <2>1 DEF CommentOwn, CommentSingle, CommentAnswer, CommentOf
    <2>4. CommentLastWord'
      BY <2>1, <2>2 DEF CommentLastWord, CommentCurrent, CommentWaits
    <2> QED
      BY <2>3, <2>4 DEF CommentIInv
  <1>13. CASE UNCHANGED commentVars
    BY <1>13, CommentUntouched DEF commentVars, commentPage
  <1> QED
    BY <1>1, <1>2, <1>3, <1>4, <1>5, <1>6, <1>7, <1>8, <1>9, <1>10, <1>11, <1>12, <1>13 DEF CommentNext

-----------------------------------------------------------------------------
\* The texts.

\* The page opens with no text.
LEMMA CommentTextInit == CommentInit => CommentTexts
  BY DEF CommentInit, CommentTexts, CommentDrafted, CommentCleared, SentOnce

\* What is rendered is what there is a draft of.
LEMMA CommentRendered ==
  ASSUME CommentTypeOK, CommentTexts, NEW fs, Rendered(fs), UNCHANGED <<draft, sent>>,
         \A f \in Forms \ fs : Sending(f)' <=> Sending(f)
  PROVE  CommentTexts'
  <1>1. \A f \in Forms : commentText'[f] = IF f \in fs THEN draft[f] ELSE commentText[f]
    BY DEF Rendered
  <1>2. loose' = loose \ fs /\ sent \subseteq Forms
    BY DEF Rendered, CommentTypeOK
  <1>3. CommentDrafted'
    BY <1>1, <1>2 DEF CommentTexts, CommentDrafted
  <1>4. CommentCleared' /\ SentOnce'
    BY <1>1, <1>2 DEF CommentTexts, CommentCleared, SentOnce
  <1> QED
    BY <1>3, <1>4 DEF CommentTexts

\* A step that leaves texts, drafts and the forms under way alone.
LEMMA CommentSame ==
  ASSUME CommentTypeOK, CommentTexts, UNCHANGED <<commentText, draft, loose, sent>>,
         \A f \in Forms : Sending(f)' <=> Sending(f)
  PROVE  CommentTexts'
  <1>1. sent \subseteq Forms
    BY DEF CommentTypeOK
  <1> QED
    BY <1>1 DEF CommentTexts, CommentDrafted, CommentCleared, SentOnce

\* Every step keeps the texts.
LEMMA CommentTextNext ==
  CommentTypeOK /\ CommentIInv /\ CommentTexts /\ [CommentNext]_commentVars => CommentTexts'
  <1> SUFFICES ASSUME CommentTypeOK, CommentIInv, CommentTexts, [CommentNext]_commentVars
               PROVE  CommentTexts'
    OBVIOUS
  <1>0. commentText \in [Forms -> BOOLEAN] /\ draft \in [Forms -> BOOLEAN] /\ sent \subseteq Forms
    BY DEF CommentTypeOK
  <1>1. ASSUME NEW f \in Forms, CommentType(f) PROVE CommentTexts'
    <2>1. commentText' = [commentText EXCEPT ![f] = TRUE] /\ draft' = [draft EXCEPT ![f] = TRUE]
      BY <1>1 DEF CommentType
    <2>2. /\ commentText'[f] /\ draft'[f]
          /\ \A g \in Forms : g # f => commentText'[g] = commentText[g] /\ draft'[g] = draft[g]
      BY <1>0, <2>1
    <2>3. loose' = loose \ {f} /\ sent' = sent \ {f} /\ \A g : Sending(g)' = Sending(g)
      BY <1>1 DEF CommentType, commentPage, Sending
    <2> QED
      BY <1>0, <2>2, <2>3 DEF CommentTexts, CommentDrafted, CommentCleared, SentOnce
  <1>2. ASSUME NEW f \in Forms, Paste(f) PROVE CommentTexts'
    <2>1. commentText' = [commentText EXCEPT ![f] = TRUE] /\ draft' = draft
      BY <1>2 DEF Paste
    <2>2. \A g \in Forms : g # f => commentText'[g] = commentText[g]
      BY <1>0, <2>1
    <2>3. loose' = loose \cup {f} /\ sent' = sent \ {f} /\ \A g : Sending(g)' = Sending(g)
      BY <1>2 DEF Paste, commentPage, Sending
    <2> QED
      BY <1>0, <2>1, <2>2, <2>3 DEF CommentTexts, CommentDrafted, CommentCleared, SentOnce
  <1>3. ASSUME NEW f \in Forms, Cancel(f) PROVE CommentTexts'
    <2>1. draft' = [draft EXCEPT ![f] = FALSE] /\ commentText' = commentText
      BY <1>3 DEF Cancel
    <2>2. ~draft'[f] /\ \A g \in Forms : g # f => draft'[g] = draft[g]
      BY <1>0, <2>1
    <2>3. /\ loose' = IF commentText[f] THEN loose \cup {f} ELSE loose
          /\ sent' = sent /\ \A g : Sending(g)' = Sending(g)
      BY <1>3 DEF Cancel, commentPage, Sending
    <2> QED
      BY <1>0, <2>1, <2>2, <2>3 DEF CommentTexts, CommentDrafted, CommentCleared, SentOnce
  <1>4. ASSUME NEW f \in Forms, CommentSubmit(f) PROVE CommentTexts'
    <2>1. draft' = [draft EXCEPT ![f] = FALSE] /\ UNCHANGED <<commentText, loose>> /\ sent' = sent \cup {f}
      BY <1>4 DEF CommentSubmit
    <2>2. ~draft'[f] /\ \A g \in Forms : g # f => draft'[g] = draft[g]
      BY <1>0, <2>1
    <2> DEFINE r == [thread |-> f[1], of |-> f, pc |-> "sent", version |-> 0]
    <2>3. commentRequests' = commentRequests \cup {r} /\ r.of = f
      BY <1>4 DEF CommentSubmit, Send
    <2> HIDE DEF r
    <2>4. Sending(f)' /\ \A g \in Forms : Sending(g) => Sending(g)'
      BY <2>3 DEF Sending
    <2>5. \A g \in Forms : g # f => (Sending(g)' => Sending(g))
      BY <2>3 DEF Sending
    <2> QED
      BY <1>0, <2>1, <2>2, <2>4, <2>5 DEF CommentTexts, CommentDrafted, CommentCleared, SentOnce
  <1>5. ASSUME NEW t \in Threads, DeleteClicked(t) PROVE CommentTexts'
    BY <1>5, CommentSame DEF DeleteClicked, Sending
  <1>6. CASE DeleteConfirmed
    <2> DEFINE r == [thread |-> subject, of |-> <<subject, "delete">>, pc |-> "sent", version |-> 0]
    <2>1. commentRequests' = commentRequests \cup {r} /\ UNCHANGED <<commentText, draft, loose, sent>>
      BY <1>6 DEF DeleteConfirmed, Send
    <2>2. \A f \in Forms : r.of # f
      BY CommentsAssumption
    <2> HIDE DEF r
    <2>3. \A f \in Forms : Sending(f)' <=> Sending(f)
      BY <2>1, <2>2 DEF Sending
    <2> QED
      BY <2>1, <2>3, CommentSame
  <1>7. CASE CommentDismiss
    BY <1>7, CommentSame DEF CommentDismiss, Sending
  <1>8. ASSUME NEW r \in commentRequests, NEW q, q.of = r.of,
               commentRequests' = (commentRequests \ {r}) \cup {q},
               UNCHANGED <<commentText, draft, loose, sent>>
        PROVE  CommentTexts'
    <2>1. \A f \in Forms : Sending(f)' <=> Sending(f)
      BY <1>8 DEF Sending
    <2> QED
      BY <1>8, <2>1, CommentSame
  <1>9. ASSUME NEW r \in commentRequests, CommentHandle(r) PROVE CommentTexts'
    <2> DEFINE q == [r EXCEPT !.pc = "done", !.version = commentServer'[r.thread]]
    <2>1. q.of = r.of
      BY CommentSorts DEF CommentRequest
    <2> QED
      BY <1>8, <1>9, <2>1 DEF CommentHandle
  <1>10. ASSUME NEW r \in commentRequests, CommentFail(r) PROVE CommentTexts'
    <2> DEFINE q == [r EXCEPT !.pc = "failed"]
    <2>1. q.of = r.of
      BY CommentSorts DEF CommentRequest
    <2> QED
      BY <1>8, <1>10, <2>1 DEF CommentFail
  <1>11. ASSUME NEW r \in commentRequests, FormComplete(r) PROVE CommentTexts'
    <2> DEFINE fs == {f \in Forms : f[1] = r.thread}
    <2>1. r.of \in Forms /\ r.of[1] = r.thread
      BY <1>11, CommentSorts DEF FormComplete, CommentIInv, CommentOwn
    <2>2. commentRequests' = commentRequests \ {r} /\ Rendered(fs) /\ UNCHANGED <<draft, sent>>
      BY <1>11 DEF FormComplete
    <2>3. \A f \in Forms \ fs : Sending(f)' <=> Sending(f)
      BY <2>1, <2>2 DEF Sending
    <2> QED
      BY <2>2, <2>3, CommentRendered
  <1>12. ASSUME NEW r \in commentRequests, DeleteComplete(r) PROVE CommentTexts'
    <2>1. r.of \notin Forms
      BY <1>12, CommentSorts DEF DeleteComplete
    <2>2. commentRequests' = commentRequests \ {r} /\ UNCHANGED <<commentText, draft, loose, sent>>
      BY <1>12 DEF DeleteComplete
    <2>3. \A f \in Forms : Sending(f)' <=> Sending(f)
      BY <2>1, <2>2 DEF Sending
    <2> QED
      BY <2>2, <2>3, CommentSame
  <1>13. ASSUME NEW r \in commentRequests, CompleteFails(r) PROVE CommentTexts'
    <2>1. /\ commentRequests' = commentRequests \ {r} /\ sent' = sent \ {r.of}
          /\ loose' = IF ~Deletes(r) /\ commentText[r.of] /\ ~draft[r.of] THEN loose \cup {r.of} ELSE loose
          /\ UNCHANGED <<commentText, draft>>
      BY <1>13 DEF CompleteFails
    <2>2. r.of \in Forms => ~Deletes(r)
      BY CommentSorts
    <2>3. \A f \in Forms : f # r.of => (Sending(f)' <=> Sending(f))
      BY <2>1 DEF Sending
    <2>4. CommentDrafted'
      BY <2>1, <2>2, <2>3 DEF CommentTexts, CommentDrafted
    <2>5. CommentCleared' /\ SentOnce'
      BY <1>0, <2>1, <2>3 DEF CommentTexts, CommentCleared, SentOnce
    <2> QED
      BY <2>4, <2>5 DEF CommentTexts
  <1>14. CASE Hidden
    <2>1. PICK fs : Rendered(fs)
      BY <1>14 DEF Hidden
    <2>2. UNCHANGED <<commentRequests, draft, sent>>
      BY <1>14 DEF Hidden
    <2> QED
      BY <2>1, <2>2, CommentRendered DEF Sending
  <1>15. CASE CommentReload
    BY <1>15, CommentRendered DEF CommentReload
  <1>16. CASE UNCHANGED commentVars
    BY <1>16, CommentSame DEF commentVars, commentPage, Sending
  <1> QED
    BY <1>1, <1>2, <1>3, <1>4, <1>5, <1>6, <1>7, <1>9, <1>10, <1>11, <1>12, <1>13, <1>14, <1>15,
       <1>16 DEF CommentNext

\* The three invariants hold together.
THEOREM CommentSafety == CommentSpec => [](CommentTypeOK /\ CommentIInv /\ CommentTexts)
  <1>1. CommentInit => CommentTypeOK /\ CommentIInv /\ CommentTexts
    BY CommentTypeInit, CommentSafeInit, CommentTextInit
  <1>2. CommentTypeOK /\ CommentIInv /\ CommentTexts /\ [CommentNext]_commentVars =>
          (CommentTypeOK /\ CommentIInv /\ CommentTexts)'
    BY CommentTypeNext, CommentSafeNext, CommentTextNext
  <1> QED
    BY <1>1, <1>2, PTL DEF CommentSpec

\* A thread that had one request at a time shows what the server has when nothing is
\* under way, unless an answer was lost or a stale handler ran again, and no comment
\* that was sent is offered as a draft: after any order of posts, edits, deletions,
\* failures and dismissed dialogs (comment.js:53, 100, 236).
THEOREM CommentsAreCurrent == CommentSpec => []CommentsCurrent
  <1>1. CommentTypeOK /\ CommentIInv /\ CommentTexts => CommentsCurrent
    <2> SUFFICES ASSUME CommentTypeOK, CommentIInv, CommentTexts PROVE CommentsCurrent
      OBVIOUS
    <2>1. ASSUME NEW t \in Threads, CommentOf(t) = {}, t \notin commentExcused,
                 \A i \in Waiting : handlers[i].thread # t
          PROVE  commentShown[t] = <<t, commentServer[t]>>
      BY <2>1 DEF CommentIInv, CommentLastWord, CommentCurrent, CommentWaits
    <2>2. ThreadsCurrent
      BY <2>1 DEF ThreadsCurrent
    <2> QED
      BY <2>2 DEF CommentsCurrent, CommentTexts
  <1> QED
    BY <1>1, CommentSafety, PTL

\* A text that was typed stays in its form, whatever is rendered anew around it:
\* there is a draft of it (comment.js:163, 172).
THEOREM CommentsKeepText == CommentSpec => TextKept
  <1>1. CommentTypeOK /\ CommentTexts /\ [CommentNext]_commentVars =>
          [\A f \in Forms : commentText[f] /\ ~Sending(f) /\ f \notin loose => commentText'[f]]_commentVars
    <2> SUFFICES ASSUME CommentTypeOK, CommentTexts, CommentNext,
                        NEW f \in Forms, commentText[f], ~Sending(f), f \notin loose
                 PROVE  commentText'[f]
      OBVIOUS
    <2>1. draft[f]
      BY DEF CommentTexts, CommentDrafted
    <2>2. ASSUME NEW fs, Rendered(fs) PROVE commentText'[f]
      BY <2>1, <2>2 DEF Rendered
    <2>3. ASSUME NEW g \in Forms, commentText' = [commentText EXCEPT ![g] = TRUE] PROVE commentText'[f]
      BY <2>3 DEF CommentTypeOK
    <2>4. ASSUME commentText' = commentText PROVE commentText'[f]
      BY <2>4
    <2>5. ASSUME NEW g \in Forms, CommentType(g) \/ Paste(g) \/ Cancel(g) \/ CommentSubmit(g)
          PROVE  commentText'[f]
      BY <2>3, <2>4, <2>5 DEF CommentType, Paste, Cancel, CommentSubmit
    <2>6. ASSUME NEW t \in Threads, DeleteClicked(t) PROVE commentText'[f]
      BY <2>4, <2>6 DEF DeleteClicked
    <2>7. ASSUME NEW r \in commentRequests,
                 \/ CommentHandle(r) \/ CommentFail(r)
                 \/ FormComplete(r) \/ DeleteComplete(r) \/ CompleteFails(r)
          PROVE  commentText'[f]
      BY <2>2, <2>4, <2>7 DEF CommentHandle, CommentFail, FormComplete, DeleteComplete, CompleteFails
    <2>8. DeleteConfirmed \/ CommentDismiss => commentText'[f]
      BY <2>4 DEF DeleteConfirmed, CommentDismiss
    <2>9. Hidden \/ CommentReload => commentText'[f]
      BY <2>2 DEF Hidden, CommentReload
    <2> QED
      BY <2>5, <2>6, <2>7, <2>8, <2>9 DEF CommentNext
  <1> QED
    BY <1>1, CommentSafety, PTL DEF CommentSpec, TextKept

-----------------------------------------------------------------------------
(* The dialog that adds a reviewer.  The properties are about the open      *)
(* dialog; the invariant has to hold of the dismissed one and of the other  *)
(* kinds too, as neither resets an input.                                   *)

\* The input of the package is disabled without a project; of the inputs that
\* are shown it is the only one that ever is.
PackageDisabled ==
  kind = "package" => ("package" \in disabled <=> reviewNoticed = ReviewEmpty)
OthersEnabled ==
  disabled \cap Visible(kind) \subseteq IF kind = "package" THEN {"package"} ELSE {}
SourceKnown ==
  ~missed /\ reviewNoticed # ReviewEmpty => source = reviewNoticed
\* The input of the project holds a project, or nothing.
ProjectTyped == reviewText["project"] \in ReviewProjects \cup {ReviewEmpty}
ReviewIInv ==
  /\ ProjectTyped /\ PackageDisabled /\ OthersEnabled /\ SourceKnown /\ SendsWhatIsShown

\* A text is typed in one input alone.
LEMMA ReviewTyped ==
  ASSUME ReviewTypeOK, ProjectTyped, NEW f \in ReviewFields, NEW v \in ReviewValues(f), ReviewType(f, v)
  PROVE  /\ reviewText' \in [ReviewFields -> ReviewProjects \cup {ReviewFilled, ReviewEmpty}]
         /\ ProjectTyped'
  <1>1. reviewText' = [reviewText EXCEPT ![f] = v]
    BY DEF ReviewType
  <1>2. v \in ReviewProjects \cup {ReviewFilled, ReviewEmpty}
    BY DEF ReviewValues
  <1>3. CASE f = "project"
    BY <1>1, <1>2, <1>3 DEF ReviewValues, ReviewTypeOK, ProjectTyped, ReviewFields
  <1>4. CASE f # "project"
    BY <1>1, <1>2, <1>4 DEF ReviewTypeOK, ProjectTyped, ReviewFields
  <1> QED
    BY <1>3, <1>4

\* The change of the project clears the text of the package, or no text.
LEMMA ReviewCleared ==
  ASSUME ReviewTypeOK, ProjectChanged
  PROVE  /\ reviewText' \in [ReviewFields -> ReviewProjects \cup {ReviewFilled, ReviewEmpty}]
         /\ reviewText'["project"] = reviewText["project"]
  BY DEF ProjectChanged, ReviewTypeOK, ReviewFields

-----------------------------------------------------------------------------
\* Every step keeps the types, and that the project is one.
LEMMA ReviewTypeNext ==
  ReviewTypeOK /\ ProjectTyped /\ [ReviewNext]_reviewVars => (ReviewTypeOK /\ ProjectTyped)'
  <1> SUFFICES ASSUME ReviewTypeOK, ProjectTyped, [ReviewNext]_reviewVars
               PROVE  ReviewTypeOK' /\ ProjectTyped'
    OBVIOUS
  <1>1. CASE ReviewOpen
    BY <1>1 DEF ReviewOpen, ReviewTypeOK, ProjectTyped
  <1>2. CASE ReviewDismiss
    BY <1>2 DEF ReviewDismiss, ReviewTypeOK, ProjectTyped
  <1>3. CASE ProjectChanged
    <2>1. /\ reviewText' \in [ReviewFields -> ReviewProjects \cup {ReviewFilled, ReviewEmpty}]
          /\ ProjectTyped'
      BY <1>3, ReviewCleared DEF ProjectTyped
    <2>2. reviewNoticed' \in ReviewProjects \cup {ReviewEmpty} /\ source' \in ReviewProjects \cup {ReviewEmpty}
      BY <1>3 DEF ProjectChanged, ReviewTypeOK, ProjectTyped
    <2>3. missed' \in BOOLEAN /\ disabled' \subseteq ReviewFields
      BY <1>3 DEF ProjectChanged, ReviewTypeOK, ReviewFields
    <2>4. UNCHANGED <<open, kind, reviewAsked>>
      BY <1>3 DEF ProjectChanged
    <2> QED
      BY <2>1, <2>2, <2>3, <2>4 DEF ReviewTypeOK
  <1>4. ASSUME NEW k \in Kinds, ReviewChoose(k) PROVE ReviewTypeOK' /\ ProjectTyped'
    <2>1. disabled' \subseteq ReviewFields
      BY <1>4 DEF ReviewChoose, ReviewFields
    <2> QED
      BY <1>4, <2>1 DEF ReviewChoose, ReviewTypeOK, ProjectTyped
  <1>5. ASSUME NEW f \in ReviewFields, NEW v \in ReviewValues(f), ReviewType(f, v)
        PROVE  ReviewTypeOK' /\ ProjectTyped'
    BY <1>5, ReviewTyped DEF ReviewType, ReviewTypeOK
  <1>6. ASSUME NEW entered \in BOOLEAN, ReviewSubmit(entered) PROVE ReviewTypeOK' /\ ProjectTyped'
    <2>1. [kind |-> kind, fields |-> Enabled, entered |-> entered]
            \in [kind: Kinds, fields: SUBSET ReviewFields, entered: BOOLEAN]
      BY DEF ReviewTypeOK, Enabled, Visible, ReviewFields, Kinds
    <2>2. reviewAsked' \subseteq [kind: Kinds, fields: SUBSET ReviewFields, entered: BOOLEAN]
      BY <1>6, <2>1 DEF ReviewSubmit
    <2>3. "user" \in Kinds /\ "project" \in ReviewFields
      BY DEF Kinds, ReviewFields
    <2> QED
      BY <1>6, <2>2, <2>3 DEF ReviewSubmit, ReviewTypeOK, ProjectTyped
  <1>7. CASE UNCHANGED reviewVars
    BY <1>7 DEF reviewVars, ReviewTypeOK, ProjectTyped
  <1> QED
    BY <1>1, <1>2, <1>3, <1>4, <1>5, <1>6, <1>7 DEF ReviewNext

\* The page opens with an empty form.
LEMMA ReviewInitial == ReviewInit => ReviewTypeOK /\ ReviewIInv
  <1> SUFFICES ASSUME ReviewInit PROVE ReviewTypeOK /\ ReviewIInv
    OBVIOUS
  <1>1. ReviewTypeOK
    BY DEF ReviewInit, ReviewTypeOK, ReviewFields, Kinds
  <1>2. ReviewIInv
    BY DEF ReviewInit, ReviewIInv, ProjectTyped, PackageDisabled, OthersEnabled, SourceKnown,
           SendsWhatIsShown, ReviewFields
  <1> QED
    BY <1>1, <1>2

-----------------------------------------------------------------------------
\* What is sent without Return is what is shown: with a project in its input
\* the package is enabled, without one the browser does not send the form.
LEMMA ReviewSent ==
  ASSUME ReviewTypeOK, ReviewIInv, NEW entered \in BOOLEAN, ReviewSubmit(entered)
  PROVE  SendsWhatIsShown'
  <1>1. ASSUME ~entered PROVE Enabled = Visible(kind)
    <2>1. CASE kind = "package"
      <3>1. "project" \in Enabled
        BY <2>1 DEF ReviewSubmit, ReviewIInv, OthersEnabled, Enabled, Visible
      <3>2. reviewText["project"] # ReviewEmpty /\ reviewNoticed = reviewText["project"]
        BY <1>1, <3>1 DEF ReviewSubmit
      <3>3. "package" \notin disabled
        BY <2>1, <3>2 DEF ReviewIInv, PackageDisabled
      <3> QED
        BY <2>1, <3>1, <3>3 DEF Enabled, Visible
    <2>2. CASE kind # "package"
      BY <2>2 DEF ReviewSubmit, ReviewIInv, OthersEnabled, Enabled
    <2> QED
      BY <2>1, <2>2
  <1>2. reviewAsked' = {[kind |-> kind, fields |-> Enabled, entered |-> entered]}
    BY DEF ReviewSubmit
  <1> QED
    BY <1>1, <1>2 DEF SendsWhatIsShown

\* Every step keeps the invariant.
LEMMA ReviewSafeNext ==
  ReviewTypeOK /\ ReviewIInv /\ [ReviewNext]_reviewVars => (ReviewTypeOK /\ ReviewIInv)'
  <1> SUFFICES ASSUME ReviewTypeOK, ReviewIInv, [ReviewNext]_reviewVars
               PROVE  ReviewTypeOK' /\ ReviewIInv'
    OBVIOUS
  <1>0. ReviewTypeOK' /\ ProjectTyped'
    BY ReviewTypeNext DEF ReviewIInv
  <1>1. CASE ReviewOpen
    <2>1. /\ disabled' = disabled \cup (ReviewFields \ Visible(kind)) /\ open'
          /\ UNCHANGED <<kind, reviewNoticed, source, missed, reviewAsked>>
      BY <1>1 DEF ReviewOpen
    <2>2. kind = "package" => "package" \notin ReviewFields \ Visible(kind)
      BY DEF Visible
    <2>3. PackageDisabled' /\ SourceKnown' /\ SendsWhatIsShown'
      BY <2>1, <2>2 DEF ReviewIInv, PackageDisabled, SourceKnown, SendsWhatIsShown
    <2>4. OthersEnabled'
      BY <2>1 DEF ReviewIInv, OthersEnabled
    <2> QED
      BY <1>0, <2>3, <2>4 DEF ReviewIInv
  <1>2. CASE ReviewDismiss
    BY <1>0, <1>2 DEF ReviewDismiss, ReviewIInv, PackageDisabled, OthersEnabled, SourceKnown, SendsWhatIsShown
  <1>3. CASE ProjectChanged
    <2>1. UNCHANGED <<open, kind, reviewAsked>> /\ reviewNoticed' = reviewText["project"]
      BY <1>3 DEF ProjectChanged
    <2>2. PackageDisabled' /\ OthersEnabled'
      BY <1>3, <2>1 DEF ProjectChanged, ReviewIInv, PackageDisabled, OthersEnabled, Visible
    <2>3. SourceKnown'
      BY <1>3, <2>1 DEF ProjectChanged, SourceKnown
    <2>4. SendsWhatIsShown'
      BY <2>1 DEF ReviewIInv, SendsWhatIsShown
    <2> QED
      BY <1>0, <2>2, <2>3, <2>4 DEF ReviewIInv
  <1>4. ASSUME NEW k \in Kinds, ReviewChoose(k) PROVE ReviewIInv'
    <2>1. /\ kind' = k /\ reviewNoticed = reviewText["project"]
          /\ disabled' = (ReviewFields \ Visible(k)) \cup
                         (IF k = "package" /\ reviewText["project"] = ReviewEmpty THEN {"package"} ELSE {})
          /\ UNCHANGED <<open, reviewNoticed, source, missed, reviewAsked>>
      BY <1>4 DEF ReviewChoose
    <2>2. PackageDisabled' /\ OthersEnabled'
      BY <2>1 DEF PackageDisabled, OthersEnabled, Visible
    <2>3. SourceKnown'
      BY <2>1 DEF ReviewIInv, SourceKnown
    <2> QED
      BY <1>0, <2>1, <2>2, <2>3 DEF ReviewIInv, SendsWhatIsShown
  <1>5. ASSUME NEW f \in ReviewFields, NEW v \in ReviewValues(f), ReviewType(f, v) PROVE ReviewIInv'
    BY <1>0, <1>5 DEF ReviewType, ReviewIInv, PackageDisabled, OthersEnabled, SourceKnown, SendsWhatIsShown
  <1>6. ASSUME NEW entered \in BOOLEAN, ReviewSubmit(entered) PROVE ReviewIInv'
    <2>1. kind' = "user" /\ disabled' = {} /\ reviewNoticed' = ReviewEmpty
      BY <1>6 DEF ReviewSubmit
    <2>2. PackageDisabled' /\ OthersEnabled' /\ SourceKnown'
      BY <2>1 DEF PackageDisabled, OthersEnabled, SourceKnown
    <2>3. SendsWhatIsShown'
      BY <1>6, ReviewSent
    <2> QED
      BY <1>0, <2>2, <2>3 DEF ReviewIInv
  <1>7. CASE UNCHANGED reviewVars
    BY <1>0, <1>7 DEF reviewVars, ReviewIInv, PackageDisabled, OthersEnabled, SourceKnown, SendsWhatIsShown
  <1> QED
    BY <1>0, <1>1, <1>2, <1>3, <1>4, <1>5, <1>6, <1>7 DEF ReviewNext

\* Every variable of the dialog keeps its type, whatever is chosen, typed,
\* dismissed and sent.
THEOREM ReviewTypeCorrect == ReviewSpec => []ReviewTypeOK
  BY ReviewInitial, ReviewSafeNext, PTL DEF ReviewSpec

\* What the properties say of the open dialog follows from the invariant.
LEMMA ReviewSafeFits == ReviewIInv => ReviewFits
  <1> SUFFICES ASSUME ReviewIInv PROVE ReviewFits
    OBVIOUS
  <1>1. PackageFollowsProject
    BY DEF ReviewIInv, PackageDisabled, PackageFollowsProject
  <1>2. SuggestsOfProject
    BY DEF ReviewIInv, SourceKnown, SuggestsOfProject
  <1> QED
    BY <1>1, <1>2 DEF ReviewIInv, ReviewFits

\* The package can be named exactly when there is a project, what is suggested
\* is of that project, unless it was changed while another kind was chosen, and what
\* the button sends is what is shown, for any projects and whatever was chosen,
\* typed, cleared and dismissed before (request.js:105-123, autocomplete.js:61-72).
THEOREM ReviewIsWhole == ReviewSpec => []ReviewFits
  BY ReviewInitial, ReviewSafeNext, ReviewSafeFits, PTL DEF ReviewSpec

-----------------------------------------------------------------------------
(* Submit request.  What has been answered for the noticed target is shown, *)
(* unless it is excused: an answer about it is followed by another one only *)
(* while one more is under way, or at the cost of the excuse.               *)

SubmitListShown ==
  ~submitExcused /\ submitNoticed # NoProject /\ lists[submitNoticed] = 0 =>
    submitList = IF submitNoticed \in Requested THEN submitNoticed ELSE NoProject
SubmitDevelShown ==
  ~submitExcused /\ submitNoticed # NoProject /\ devels[submitNoticed] = 0 =>
    /\ warned = (Devel[submitNoticed] # NoProject)
    /\ warned => name = Devel[submitNoticed]
SubmitCleanup ==
  ~submitExcused /\ submitNoticed # NoProject => cleanup = (submitNoticed # Source)
SubmitIInv == SubmitListShown /\ SubmitDevelShown /\ SubmitCleanup

\* A question more, or one less.
LEMMA SubmitCounts ==
  ASSUME NEW f \in [SubmitProjects -> 0..MaxSubmitRequests], NEW p \in SubmitProjects
  PROVE  /\ f[p] < MaxSubmitRequests => SubmitMore(f, p) \in [SubmitProjects -> 0..MaxSubmitRequests]
         /\ f[p] > 0 => SubmitLess(f, p) \in [SubmitProjects -> 0..MaxSubmitRequests]
         /\ SubmitMore(f, p)[p] = f[p] + 1 /\ SubmitLess(f, p)[p] = f[p] - 1
         /\ \A q \in SubmitProjects \ {p} : SubmitMore(f, p)[q] = f[q] /\ SubmitLess(f, p)[q] = f[q]
  <1>1. f[p] \in Nat /\ f[p] <= MaxSubmitRequests
    OBVIOUS
  <1>2. /\ SubmitMore(f, p)[p] = f[p] + 1 /\ SubmitLess(f, p)[p] = f[p] - 1
        /\ \A q \in SubmitProjects \ {p} : SubmitMore(f, p)[q] = f[q] /\ SubmitLess(f, p)[q] = f[q]
    BY DEF SubmitMore, SubmitLess
  <1>3. ASSUME f[p] < MaxSubmitRequests
        PROVE  SubmitMore(f, p) \in [SubmitProjects -> 0..MaxSubmitRequests]
    BY <1>1, <1>3, SubmitAssumption DEF SubmitMore
  <1>4. ASSUME f[p] > 0
        PROVE  SubmitLess(f, p) \in [SubmitProjects -> 0..MaxSubmitRequests]
    BY <1>1, <1>4, SubmitAssumption DEF SubmitLess
  <1> QED
    BY <1>2, <1>3, <1>4

\* The page asks about project p, if it is one.
LEMMA SubmitAsked ==
  ASSUME SubmitTypeOK, NEW p \in SubmitProjects \cup {NoProject}, SubmitUpdate(p)
  PROVE  /\ lists' \in [SubmitProjects -> 0..MaxSubmitRequests]
         /\ devels' \in [SubmitProjects -> 0..MaxSubmitRequests]
         /\ cleanup' \in BOOLEAN /\ submitExcused' = (p # submitNoticed')
         /\ p # NoProject => cleanup' = (p # Source)
         /\ p # NoProject => lists'[p] = lists[p] + 1 /\ devels'[p] = devels[p] + 1
         /\ \A q \in SubmitProjects \ {p} : lists'[q] = lists[q] /\ devels'[q] = devels[q]
  <1>1. CASE p = NoProject
    BY <1>1 DEF SubmitUpdate, SubmitTypeOK
  <1>2. CASE p # NoProject
    BY <1>2, SubmitCounts DEF SubmitUpdate, SubmitTypeOK
  <1> QED
    BY <1>1, <1>2

\* The page opens with its types right.
LEMMA SubmitTypeInit == SubmitInit => SubmitTypeOK
  <1> SUFFICES ASSUME SubmitInit PROVE SubmitTypeOK
    OBVIOUS
  <1>1. /\ lists \in [SubmitProjects -> 0..MaxSubmitRequests]
        /\ devels \in [SubmitProjects -> 0..MaxSubmitRequests]
    BY SubmitAssumption DEF SubmitInit
  <1> QED
    BY <1>1 DEF SubmitInit, SubmitTypeOK

\* Every step keeps the types.
LEMMA SubmitTypeNext == SubmitTypeOK /\ [SubmitNext]_submitVars => SubmitTypeOK'
  <1> SUFFICES ASSUME SubmitTypeOK, [SubmitNext]_submitVars PROVE SubmitTypeOK'
    OBVIOUS
  <1>1. ASSUME NEW p \in SubmitProjects \cup {NoProject}, SubmitType(p) PROVE SubmitTypeOK'
    BY <1>1 DEF SubmitType, SubmitTypeOK
  <1>11. ASSUME NEW d \in {"empty", "typed"}, Describe(d) PROVE SubmitTypeOK'
    BY <1>11 DEF Describe, SubmitTypeOK, input
  <1>2. ASSUME NEW p \in SubmitProjects, Select(p) PROVE SubmitTypeOK'
    <2>1. PICK q \in {target, p} : SubmitUpdate(q)
      BY <1>2 DEF Select
    <2>2. /\ lists' \in [SubmitProjects -> 0..MaxSubmitRequests]
          /\ devels' \in [SubmitProjects -> 0..MaxSubmitRequests] /\ cleanup' \in BOOLEAN
          /\ submitExcused' \in BOOLEAN
      BY <2>1, SubmitAsked DEF SubmitTypeOK
    <2> QED
      BY <1>2, <2>2 DEF Select, SubmitTypeOK
  <1>3. ASSUME NEW p \in SubmitProjects, ListAnswered(p) PROVE SubmitTypeOK'
    <2>1. lists' \in [SubmitProjects -> 0..MaxSubmitRequests]
      BY <1>3, SubmitCounts DEF ListAnswered, SubmitTypeOK
    <2> QED
      BY <1>3, <2>1 DEF ListAnswered, SubmitTypeOK, input
  <1>4. ASSUME NEW p \in SubmitProjects, DevelAnswered(p) PROVE SubmitTypeOK'
    <2>1. devels' \in [SubmitProjects -> 0..MaxSubmitRequests]
      BY <1>4, SubmitCounts DEF DevelAnswered, SubmitTypeOK
    <2>2. warned' \in BOOLEAN /\ name' \in SubmitProjects \cup {NoProject}
      BY <1>4, SubmitAssumption DEF DevelAnswered, SubmitTypeOK
    <2> QED
      BY <1>4, <2>1, <2>2 DEF DevelAnswered, SubmitTypeOK, input
  <1>5. ASSUME NEW p \in SubmitProjects, QuestionFails(p) PROVE SubmitTypeOK'
    <2>1. /\ lists' \in [SubmitProjects -> 0..MaxSubmitRequests]
          /\ devels' \in [SubmitProjects -> 0..MaxSubmitRequests]
      BY <1>5, SubmitCounts DEF QuestionFails, SubmitTypeOK
    <2> QED
      BY <1>5, <2>1 DEF QuestionFails, SubmitTypeOK, input
  <1>6. CASE Leave
    <2>1. /\ lists' \in [SubmitProjects -> 0..MaxSubmitRequests]
          /\ devels' \in [SubmitProjects -> 0..MaxSubmitRequests] /\ cleanup' \in BOOLEAN
          /\ submitExcused' \in BOOLEAN
      BY <1>6, SubmitAsked DEF Leave, SubmitTypeOK
    <2> QED
      BY <1>6, <2>1 DEF Leave, SubmitTypeOK
  <1>7. CASE NameClicked
    BY <1>7 DEF NameClicked, SubmitTypeOK
  <1>8. CASE Prefilled
    <2> DEFINE p == IF written THEN target ELSE Linked
    <2>1. p \in SubmitProjects \cup {NoProject}
      BY SubmitAssumption DEF SubmitTypeOK
    <2>2. SubmitUpdate(p) /\ target' = p /\ submitNoticed' = IF written THEN submitNoticed ELSE p
      BY <1>8 DEF Prefilled
    <2> HIDE DEF p
    <2>3. /\ lists' \in [SubmitProjects -> 0..MaxSubmitRequests]
          /\ devels' \in [SubmitProjects -> 0..MaxSubmitRequests] /\ cleanup' \in BOOLEAN
          /\ submitExcused' \in BOOLEAN
      BY <2>1, <2>2, SubmitAsked
    <2>4. /\ prefilling' \in BOOLEAN
          /\ description' \in {"empty", "typed", "log"}
      BY <1>8 DEF Prefilled
    <2> QED
      BY <1>8, <2>1, <2>2, <2>3, <2>4 DEF Prefilled, SubmitTypeOK
  <1>9. CASE PrefillFails
    BY <1>9 DEF PrefillFails, SubmitTypeOK, input
  <1>10. CASE UNCHANGED submitVars
    BY <1>10 DEF submitVars, input, SubmitTypeOK
  <1> QED
    BY <1>1, <1>2, <1>3, <1>4, <1>5, <1>6, <1>7, <1>8, <1>9, <1>10, <1>11 DEF SubmitNext

\* Every variable of the page keeps its type.
THEOREM SubmitTypeCorrect == SubmitSpec => []SubmitTypeOK
  BY SubmitTypeInit, SubmitTypeNext, PTL DEF SubmitSpec

-----------------------------------------------------------------------------
\* The page opens with no question under way and nothing noticed.
LEMMA SubmitSafeInit == SubmitInit => SubmitIInv
  BY DEF SubmitInit, SubmitIInv, SubmitListShown, SubmitDevelShown, SubmitCleanup

\* The page asks for a target, the noticed one or at the cost of the excuse.
LEMMA SubmitNoticedSafe ==
  ASSUME SubmitTypeOK, NEW p \in SubmitProjects \cup {NoProject}, SubmitUpdate(p)
  PROVE  SubmitIInv'
  <1>1. CASE submitExcused'
    BY <1>1 DEF SubmitIInv, SubmitListShown, SubmitDevelShown, SubmitCleanup
  <1>2. CASE ~submitExcused'
    <2>1. submitNoticed' = p
      BY <1>2, SubmitAsked
    <2>2. p # NoProject => cleanup' = (p # Source) /\ lists'[p] # 0 /\ devels'[p] # 0
      <3>1. p # NoProject => /\ cleanup' = (p # Source)
                             /\ lists'[p] = lists[p] + 1 /\ devels'[p] = devels[p] + 1
        BY SubmitAsked
      <3>2. p # NoProject => lists[p] \in 0..MaxSubmitRequests /\ devels[p] \in 0..MaxSubmitRequests
        BY DEF SubmitTypeOK
      <3> QED
        BY <3>1, <3>2, SubmitAssumption
    <2>3. SubmitListShown' /\ SubmitDevelShown' /\ SubmitCleanup'
      BY <2>1, <2>2 DEF SubmitListShown, SubmitDevelShown, SubmitCleanup
    <2> QED
      BY <2>3 DEF SubmitIInv
  <1> QED
    BY <1>1, <1>2

\* Every step keeps the invariant.
LEMMA SubmitSafeNext == SubmitTypeOK /\ SubmitIInv /\ [SubmitNext]_submitVars => SubmitIInv'
  <1> SUFFICES ASSUME SubmitTypeOK, SubmitIInv, [SubmitNext]_submitVars PROVE SubmitIInv'
    OBVIOUS
  <1>1. ASSUME submitExcused' PROVE SubmitIInv'
    BY <1>1 DEF SubmitIInv, SubmitListShown, SubmitDevelShown, SubmitCleanup
  <1>2. ASSUME UNCHANGED <<submitNoticed, lists, devels, submitList, warned, name, cleanup, submitExcused>>
        PROVE  SubmitIInv'
    BY <1>2 DEF SubmitIInv, SubmitListShown, SubmitDevelShown, SubmitCleanup
  <1>3. ASSUME NEW p \in SubmitProjects \cup {NoProject}, SubmitType(p) PROVE SubmitIInv'
    BY <1>2, <1>3 DEF SubmitType
  <1>13. ASSUME NEW d \in {"empty", "typed"}, Describe(d) PROVE SubmitIInv'
    BY <1>2, <1>13 DEF Describe, input
  <1>4. ASSUME NEW p \in SubmitProjects, Select(p) PROVE SubmitIInv'
    <2>1. PICK q \in {target, p} : SubmitUpdate(q)
      BY <1>4 DEF Select
    <2>2. q \in SubmitProjects \cup {NoProject}
      BY DEF SubmitTypeOK
    <2> QED
      BY <2>1, <2>2, SubmitNoticedSafe
  <1>5. ASSUME NEW p \in SubmitProjects, ListAnswered(p), ~submitExcused' PROVE SubmitIInv'
    <2>1. /\ lists[p] > 0 /\ lists'[p] = lists[p] - 1
          /\ \A q \in SubmitProjects \ {p} : lists'[q] = lists[q]
      BY <1>5, SubmitCounts DEF ListAnswered, SubmitTypeOK
    <2>2. /\ submitList' = IF p \in Requested THEN p ELSE NoProject
          /\ ~submitExcused /\ ~ComesAfter(lists, p)
          /\ UNCHANGED <<submitNoticed, devels, warned, name, cleanup>>
      BY <1>5 DEF ListAnswered, input
    <2>3. submitNoticed \in SubmitProjects \cup {NoProject}
      BY DEF SubmitTypeOK
    <2>4. SubmitListShown'
      BY <2>1, <2>2, <2>3 DEF SubmitListShown, ComesAfter
    <2>5. SubmitDevelShown' /\ SubmitCleanup'
      BY <2>2 DEF SubmitIInv, SubmitDevelShown, SubmitCleanup
    <2> QED
      BY <2>4, <2>5 DEF SubmitIInv
  <1>6. ASSUME NEW p \in SubmitProjects, DevelAnswered(p), ~submitExcused' PROVE SubmitIInv'
    <2>1. /\ devels[p] > 0 /\ devels'[p] = devels[p] - 1
          /\ \A q \in SubmitProjects \ {p} : devels'[q] = devels[q]
      BY <1>6, SubmitCounts DEF DevelAnswered, SubmitTypeOK
    <2>2. /\ warned' = (Devel[p] # NoProject) /\ (warned' => name' = Devel[p])
          /\ ~submitExcused /\ ~ComesAfter(devels, p)
          /\ UNCHANGED <<submitNoticed, lists, submitList, cleanup>>
      BY <1>6 DEF DevelAnswered, input
    <2>3. submitNoticed \in SubmitProjects \cup {NoProject}
      BY DEF SubmitTypeOK
    <2>4. SubmitDevelShown'
      BY <2>1, <2>2, <2>3 DEF SubmitDevelShown, ComesAfter
    <2>5. SubmitListShown' /\ SubmitCleanup'
      BY <2>2 DEF SubmitIInv, SubmitListShown, SubmitCleanup
    <2> QED
      BY <2>4, <2>5 DEF SubmitIInv
  <1>7. ASSUME NEW p \in SubmitProjects, QuestionFails(p), ~submitExcused' PROVE SubmitIInv'
    <2>1. ~submitExcused /\ p # submitNoticed
          /\ UNCHANGED <<submitNoticed, submitList, warned, name, cleanup>>
      BY <1>7 DEF QuestionFails, input
    <2>2. \A q \in SubmitProjects \ {p} : lists'[q] = lists[q] /\ devels'[q] = devels[q]
      BY <1>7, SubmitCounts DEF QuestionFails, SubmitTypeOK
    <2>3. submitNoticed # NoProject =>
            lists'[submitNoticed] = lists[submitNoticed] /\ devels'[submitNoticed] = devels[submitNoticed]
      BY <2>1, <2>2 DEF SubmitTypeOK
    <2> QED
      BY <2>1, <2>3 DEF SubmitIInv, SubmitListShown, SubmitDevelShown, SubmitCleanup
  <1>8. CASE Leave
    <2>1. target \in SubmitProjects \cup {NoProject}
      BY DEF SubmitTypeOK
    <2> QED
      BY <1>8, <2>1, SubmitNoticedSafe DEF Leave
  <1>9. CASE NameClicked
    <2>1. CASE written
      BY <1>2, <1>9, <2>1 DEF NameClicked
    <2>2. CASE ~written
      BY <1>1, <1>9, <2>2 DEF NameClicked
    <2> QED
      BY <2>1, <2>2
  <1>10. CASE Prefilled
    <2>1. \E p \in SubmitProjects \cup {NoProject} : SubmitUpdate(p)
      BY <1>10, SubmitAssumption DEF Prefilled, SubmitTypeOK
    <2> QED
      BY <2>1, SubmitNoticedSafe
  <1>11. CASE PrefillFails
    BY <1>2, <1>11 DEF PrefillFails, input
  <1>12. CASE UNCHANGED submitVars
    BY <1>2, <1>12 DEF submitVars, input
  <1> QED
    BY <1>1, <1>3, <1>4, <1>5, <1>6, <1>7, <1>8, <1>9, <1>10, <1>11, <1>12, <1>13 DEF SubmitNext

\* What is shown is of the noticed target, once it is the one in the input.
LEMMA SubmitSafeShown == SubmitIInv => ShownForTarget
  BY DEF SubmitIInv, SubmitListShown, SubmitDevelShown, SubmitCleanup, ShownForTarget

\* Once the questions about the target are answered, the page shows what there is
\* to know of it, for any projects and any number of questions under way, about
\* this and other targets, answered in any order or failing: unless one about the
\* target failed, or was answered before one about another target (request.js:3-44),
\* which is then what the page shows.
THEOREM SubmitIsShown == SubmitSpec => []ShownForTarget
  BY SubmitTypeCorrect, SubmitSafeInit, SubmitSafeNext, SubmitSafeShown, PTL DEF SubmitSpec

\* No answer replaces the target project the user wrote: each is looked at with
\* "written" in hand, and only the user's own steps change the input then
\* (request.js:51, 73).  The description is not kept that way.
THEOREM SubmitKeepsWritten == SubmitSpec => WrittenStays
  <1>1. SubmitNext => (written => \/ target' = target
                                  \/ \E p \in SubmitProjects \cup {NoProject} : SubmitType(p) \/ Select(p))
    BY DEF SubmitNext, ListAnswered, DevelAnswered, QuestionFails, Leave, NameClicked, Prefilled,
           PrefillFails, Describe, input
  <1> QED
    BY <1>1, PTL DEF SubmitSpec, WrittenStays

-----------------------------------------------------------------------------
(* The window of the browser that shows one of the pages: whatever is shown *)
(* and done in it, each page behaves as its own module says.                *)

\* A step of the window is a step of each page, or leaves it alone.
LEMMA WindowForms ==
  [Next]_vars => /\ [EditorNext]_editorVars
                 /\ [KiwiNext]_kiwiVars
                 /\ [CommentNext]_commentVars
                 /\ [ReviewNext]_reviewVars
                 /\ [SubmitNext]_submitVars
  BY DEF Next, vars

\* The window implements each of its pages.
LEMMA WindowIsForms ==
  Spec => EditorSpec /\ KiwiSpec /\ CommentSpec /\ ReviewSpec /\ SubmitSpec
  <1>1. Init => EditorInit /\ KiwiInit /\ CommentInit /\ ReviewInit /\ SubmitInit
    BY DEF Init
  <1> QED
    BY <1>1, WindowForms, PTL DEF Spec, EditorSpec, KiwiSpec, CommentSpec, ReviewSpec, SubmitSpec

\* In a window that shows any of the pages, every variable keeps its type.
THEOREM FormsTypesCorrect == Spec => []FormsTypeOK
  <1>1. EditorTypeOK /\ KiwiTypeOK /\ CommentTypeOK /\ ReviewTypeOK /\ SubmitTypeOK => FormsTypeOK
    BY DEF FormsTypeOK
  <1> QED
    BY <1>1, WindowIsForms, EditorTypeCorrect, KiwiTypeCorrect, CommentTypeCorrect, ReviewTypeCorrect,
       SubmitTypeCorrect, PTL

\* In it no text of a comment is lost before it is sent, and no answer replaces
\* the target project the user wrote (comment.js:163, request.js:51, 73).
THEOREM FormStepsHold == Spec => FormSteps
  BY WindowIsForms, CommentsKeepText, SubmitKeepsWritten, PTL DEF FormSteps
===============================================================================
