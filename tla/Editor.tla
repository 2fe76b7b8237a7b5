-------------------------------- MODULE Editor --------------------------------
(***************************************************************************)
(* The editor for files, meta data and project configuration:              *)
(* cm2/use-codemirror.js with the buttons of cm2/toolbars.js around a      *)
(* CodeMirror document and its history.  A save is an ajax request; the    *)
(* document can be edited while it is under way, and any change enables    *)
(* the save button again, so that several saves can be under way at once.  *)
(* The keyboard undoes and redoes whatever the buttons say.                *)
(***************************************************************************)
EXTENDS Integers, Sequences, FiniteSets

CONSTANTS
  Texts,       \* texts of the document
  TabSizes,    \* what the selector of the tab width offers
  MaxHistory,  \* bound on the history
  MaxSaves     \* bound on the saves

ASSUME EditorAssumption ==
  /\ Texts # {} /\ 4 \in TabSizes /\ TabSizes \subseteq Nat
  /\ MaxHistory \in Nat /\ MaxSaves \in Nat

VARIABLES
  editorText, undo, redo,  \* the document, its texts before and after
  editorStored,            \* the text at the server
  saves,                   \* the requests under way
  clicks,                  \* the saves so far
  unstaged,
  editorButton,            \* BOOLEAN for undo, redo, save: the button can be clicked
  editorLoading,           \* BOOLEAN: the progress bar is shown
  option,                  \* settings of CodeMirror
  control,                 \* what the dialog of the settings shows
  late,                    \* history: the document was changed while a save was under way
  editorFailed             \* history: a save failed since the document was last changed

document == <<editorText, undo, redo>>
editorPage     == <<unstaged, editorButton, editorLoading>>
settings == <<option, control>>
editorHistory  == <<late, editorFailed>>
editorVars == <<editorText, undo, redo, editorStored, saves, clicks, unstaged,
                editorButton, editorLoading, option, control, late, editorFailed>>

-----------------------------------------------------------------------------
Buttons == [undo: BOOLEAN, redo: BOOLEAN, save: BOOLEAN]
EditorOptions == [tabSize: Nat, indentUnit: Nat, wrap: BOOLEAN]
Control == [tabsize: Nat, wrap: {"on", "off"}, color: {"success", "danger"}]
EditorSave(t) == [id |-> clicks + 1, text |-> t, pc |-> "sent"]
Saves   == [id: 1..MaxSaves, text: Texts, pc: {"sent", "stored", "refused"}]

\* use_codemirror for an editor that is not read-only, with setSelections; the
\* options are CodeMirror's defaults
EditorInit ==
  /\ editorText \in Texts /\ undo = <<>> /\ redo = <<>>
  /\ editorStored = editorText /\ saves = {} /\ clicks = 0
  /\ unstaged = FALSE /\ editorLoading = FALSE
  /\ editorButton = [undo |-> FALSE, redo |-> FALSE, save |-> FALSE]
  /\ option = [tabSize |-> 4, indentUnit |-> 2, wrap |-> FALSE]
  /\ control = [tabsize |-> option.tabSize, wrap |-> "off", color |-> "danger"]
  /\ late = FALSE /\ editorFailed = FALSE

-----------------------------------------------------------------------------
(* The document; every change calls the handler with the new history.       *)

\* Mutant: only what can be undone is a change.
OnChangeUndo(u, r) ==
  /\ unstaged' = (u # <<>>)
  /\ editorButton' = [undo |-> u # <<>>, redo |-> r # <<>>, save |-> u # <<>>]
  /\ late' = (late \/ saves # {}) /\ editorFailed' = FALSE
  /\ UNCHANGED <<editorStored, saves, clicks, editorLoading, settings>>

\* on change: the save button is on if there is something to undo
OnChange(u, r) ==
  /\ unstaged' = (u # <<>> \/ r # <<>>)
  /\ editorButton' = [undo |-> u # <<>>, redo |-> r # <<>>, save |-> u # <<>>]
  /\ late' = (late \/ saves # {}) /\ editorFailed' = FALSE
  /\ UNCHANGED <<editorStored, saves, clicks, editorLoading, settings>>

EditorEdit(t) ==
  /\ t # editorText /\ Len(undo) < MaxHistory
  /\ editorText' = t /\ undo' = Append(undo, editorText) /\ redo' = <<>>
  /\ OnChange(undo', redo')

Undo ==
  /\ undo # <<>>
  /\ editorText' = undo[Len(undo)]
  /\ undo' = SubSeq(undo, 1, Len(undo) - 1) /\ redo' = Append(redo, editorText)
  /\ OnChange(undo', redo')

Redo ==
  /\ redo # <<>>
  /\ editorText' = redo[Len(redo)]
  /\ redo' = SubSeq(redo, 1, Len(redo) - 1) /\ undo' = Append(undo, editorText)
  /\ OnChange(undo', redo')

-----------------------------------------------------------------------------
(* Saving.                                                                  *)

EditorSaveClicked ==
  /\ editorButton.save /\ clicks < MaxSaves
  /\ saves' = saves \cup {EditorSave(editorText)} /\ clicks' = clicks + 1
  /\ editorButton' = [editorButton EXCEPT !.save = FALSE] /\ editorLoading' = TRUE
  /\ UNCHANGED <<document, editorStored, unstaged, settings, editorHistory>>

\* the server stores the text, or refuses it
Store(s) ==
  /\ s.pc = "sent"
  /\ \E pc \in {"stored", "refused"} :
       /\ saves' = (saves \ {s}) \cup {[s EXCEPT !.pc = pc]}
       /\ editorStored' = IF pc = "stored" THEN s.text ELSE editorStored
  /\ UNCHANGED <<document, clicks, editorPage, settings, editorHistory>>

\* success
Saved(s) ==
  /\ s.pc = "stored"
  /\ saves' = saves \ {s} /\ editorLoading' = FALSE
  /\ unstaged' = FALSE
  /\ editorButton' = [undo |-> FALSE, redo |-> FALSE, save |-> FALSE]
  /\ UNCHANGED <<document, editorStored, clicks, settings, editorHistory>>

\* error: the text was refused, the request or the answer was lost
NotSaved(s) ==
  /\ saves' = saves \ {s} /\ editorLoading' = FALSE
  /\ unstaged' = TRUE /\ editorFailed' = TRUE
  /\ UNCHANGED <<document, editorStored, clicks, editorButton, settings, late>>

-----------------------------------------------------------------------------
(* The dialog of the settings.                                              *)

UpdateTabsize(n) ==
  /\ control' = [control EXCEPT !.tabsize = n]
  /\ option' = [option EXCEPT !.tabSize = n, !.indentUnit = n]
  /\ UNCHANGED <<document, editorStored, saves, clicks, editorPage, editorHistory>>

Wrap ==
  LET on == control.wrap = "on" IN
  /\ control' = [control EXCEPT !.wrap = IF on THEN "off" ELSE "on",
                                !.color = IF on THEN "danger" ELSE "success"]
  /\ option' = [option EXCEPT !.wrap = ~on]
  /\ UNCHANGED <<document, editorStored, saves, clicks, editorPage, editorHistory>>

EditorNext ==
  \/ \E t \in Texts : EditorEdit(t)
  \/ Undo \/ Redo \/ EditorSaveClicked
  \/ \E s \in saves : Store(s) \/ Saved(s) \/ NotSaved(s)
  \/ \E n \in TabSizes : UpdateTabsize(n)
  \/ Wrap

EditorSpec == EditorInit /\ [][EditorNext]_editorVars

-----------------------------------------------------------------------------
(* Properties.                                                              *)

\* The type invariant of the document, the page and the requests.
EditorTypeOK ==
  /\ editorText \in Texts /\ undo \in Seq(Texts) /\ redo \in Seq(Texts) /\ editorStored \in Texts
  /\ saves \subseteq Saves /\ clicks \in 0..MaxSaves
  /\ unstaged \in BOOLEAN /\ editorLoading \in BOOLEAN /\ editorButton \in Buttons
  /\ option \in EditorOptions /\ control \in Control
  /\ late \in BOOLEAN /\ editorFailed \in BOOLEAN

\* use-codemirror.js:5, "Show a dialog when there are unsaved changes (redo or
\* undo) and the user is about to leave the page": no text is lost in silence.
WarnedOnLeaving == editorText # editorStored => unstaged

\* The same as long as nothing is edited while a save is under way: through
\* undo and redo across a save, refused saves and lost answers.
WarnedUnlessLate == ~late => WarnedOnLeaving

\* A text that is not stored can be saved, or is being saved: unless the save
\* failed, or all that can be undone was (the texts before a save among it).
EditorSaveOffered ==
  ~late /\ editorText # editorStored =>
    editorButton.save \/ saves # {} \/ undo = <<>> \/ editorFailed

\* The page tells the user about a save under way, and a save that is under way
\* alone cannot be clicked again.
OneSaveUnlessLate ==
  ~late => /\ Cardinality(saves) <= 1
           /\ editorLoading <=> saves # {}

\* The editor keeps track of what is not stored, and of the saves under way.
EditorKept == WarnedUnlessLate /\ EditorSaveOffered /\ OneSaveUnlessLate
===============================================================================
