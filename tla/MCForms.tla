------------------------------- MODULE MCForms --------------------------------
(* One instance for TLC of the pages with forms and dialogs.  A window of the  *)
(* browser shows one of them, the others keep the state they start in: a fixed *)
(* one, so that nothing is checked twice.  Where a page would be too large, a  *)
(* visit is to a part of it, and Next says which.                              *)
EXTENDS Editor, KiwiEditor, Comments, ReviewForm, SubmitRequest

CONSTANTS
  Visits,                   \* the pages, or parts of them, that are visited
  p1, p2,                   \* projects
  factory, develop, home,   \* projects of a package
  r1, r2,                   \* repositories of an image
  t1, t2                    \* threads of comments
VARIABLE visit

MCKiwi      == {r1, r2}
MCProjects  == {p1, p2}
MCThreads   == {t1, t2}
MCForms     == {t1} \X {"post", "edit"}
MCSubmit    == {factory, develop, home}
MCDevel     == [p \in MCSubmit |-> IF p = factory THEN develop ELSE NoProject]
MCRequested == {factory, home}

vars == <<visit, editorVars, kiwiVars, commentVars, reviewVars, submitVars>>

-----------------------------------------------------------------------------
Init ==
  /\ visit \in Visits
  /\ EditorInit /\ (visit # "editor" => editorText = CHOOSE t \in Texts : TRUE)
  /\ CommentInit /\ (visit # "threads" => subject = t1)
  /\ KiwiInit /\ ReviewInit /\ SubmitInit

\* the dialogs of some elements, with the names of some projects
DialogsOf(S, ps) ==
  /\ dialog' \in S \cup {NoElement} /\ \A e \in Elements \ S : state'[e] = state[e]
  /\ \A e \in Elements : /\ fields'[e].project \notin KiwiProjects \ ps
                          /\ fields'[e].value[1] \notin KiwiProjects \ ps

Next ==
  \/ /\ visit = "editor" /\ EditorNext
     /\ UNCHANGED <<visit, kiwiVars, commentVars, reviewVars, submitVars>>
  \/ /\ visit = "repositories" /\ KiwiNext
     /\ DialogsOf(KiwiRepositories, {p1}) /\ kiwiAsked' = {}
     /\ UNCHANGED <<visit, editorVars, commentVars, reviewVars, submitVars>>
  \/ /\ visit = "lookup" /\ KiwiNext
     /\ DialogsOf({r1}, KiwiProjects)
     /\ UNCHANGED <<visit, editorVars, commentVars, reviewVars, submitVars>>
  \/ /\ visit = "details" /\ KiwiNext
     /\ DialogsOf(Packages \cup Descriptions, {p1})
     /\ UNCHANGED <<visit, editorVars, commentVars, reviewVars, submitVars>>
  \/ /\ visit = "preferences" /\ KiwiNext
     /\ DialogsOf(Details, {p1})
     /\ UNCHANGED <<visit, editorVars, commentVars, reviewVars, submitVars>>
  \/ /\ visit = "threads" /\ CommentNext
     /\ UNCHANGED commentText
     /\ UNCHANGED <<visit, editorVars, kiwiVars, reviewVars, submitVars>>
  \/ /\ visit = "drafts" /\ CommentNext
     /\ subject' = t1
     /\ UNCHANGED <<visit, editorVars, kiwiVars, reviewVars, submitVars>>
  \/ /\ visit = "review" /\ ReviewNext
     /\ UNCHANGED <<visit, editorVars, kiwiVars, commentVars, submitVars>>
  \/ /\ visit = "submit" /\ SubmitNext
     /\ description' = "empty"
     /\ UNCHANGED <<visit, editorVars, kiwiVars, commentVars, reviewVars>>
  \/ /\ visit = "description" /\ SubmitNext
     /\ target' \in {NoProject, Linked}
     /\ UNCHANGED <<visit, editorVars, kiwiVars, commentVars, reviewVars>>

Spec == Init /\ [][Next]_vars

\* The type invariants of the forms.
FormsTypeOK == EditorTypeOK /\ KiwiTypeOK /\ CommentTypeOK /\ ReviewTypeOK /\ SubmitTypeOK

\* What a step of a form may never do: lose the text of a comment that is not sent
\* (comment.js:163), or replace the target project the user wrote (request.js:51, 73).
FormSteps == TextKept /\ WrittenStays
===============================================================================
