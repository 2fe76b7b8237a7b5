------------------------------- MODULE Comments -------------------------------
(***************************************************************************)
(* Comments on a request: comment.js and write_and_preview.js.  The answer *)
(* to a form is the thread, rendered anew, and replaces it with all forms  *)
(* in it; text typed into them survives in drafts in the session storage.  *)
(* A comment is deleted in a dialog all threads share: the answer looks up *)
(* the thread by the comment the dialog is about at that time, and the     *)
(* thread is replaced when the dialog is hidden, by a handler that stays.  *)
(*                                                                         *)
(* A thread is known by its name and the number of changes made to it.     *)
(***************************************************************************)
EXTENDS Integers, Sequences, FiniteSets

CONSTANTS
  Threads,
  Forms,              \* pairs of a thread and the name of a form in it
  MaxCommentChanges,  \* bound on the changes of a thread
  MaxCommentRequests  \* bound on the requests under way

ASSUME CommentsAssumption ==
  /\ \A f \in Forms : f[1] \in Threads /\ f[2] # "delete"
  /\ MaxCommentChanges \in Nat /\ MaxCommentRequests \in Nat

VARIABLES
  commentServer,    \* of a thread, its changes
  commentShown,     \* and what the page shows in its place
  commentRequests,  \* forms sent and comments deleted
  commentText,      \* BOOLEAN: there is text in the form's textarea
  draft,            \* BOOLEAN: there is a draft of it
  modal,            \* the dialog for deletion: hidden, shown or hiding
  subject,          \* the thread of the comment to be deleted
  handlers,         \* registered for hidden.bs.modal
  commentExcused,   \* history: threads that need not be current, see ThreadsCurrent
  loose,            \* history: forms with a text no key was pressed for, cancelled or sent in vain
  sent              \* history: forms sent, and not written in since

commentPage == <<commentServer, commentShown, commentRequests, modal, subject, handlers,
                 commentExcused>>
commentVars == <<commentPage, commentText, draft, loose, sent>>

-----------------------------------------------------------------------------
CommentRequest == [thread: Threads, of: Forms \cup Threads \X {"delete"}, pc: {"sent", "done", "failed"},
            version: 0..MaxCommentChanges]
Shown   == Threads \X (0..MaxCommentChanges)
Handler == [thread: Threads, what: Shown, ran: BOOLEAN]

Waiting == {i \in 1..Len(handlers) : ~handlers[i].ran}
CommentOf(t) == {r \in commentRequests : r.thread = t}
Sending(f) == \E r \in commentRequests : r.of = f

CommentInit ==
  /\ commentServer = [t \in Threads |-> 0] /\ commentShown = [t \in Threads |-> <<t, 0>>]
  /\ commentRequests = {}
  /\ commentText = [f \in Forms |-> FALSE] /\ draft = commentText
  /\ modal = "hidden" /\ subject \in Threads /\ handlers = <<>>
  /\ commentExcused = {} /\ loose = {} /\ sent = {}

-----------------------------------------------------------------------------
(* Text and drafts.                                                         *)

\* keyup stores the text as a draft
CommentType(f) ==
  /\ commentText' = [commentText EXCEPT ![f] = TRUE] /\ draft' = [draft EXCEPT ![f] = TRUE]
  /\ loose' = loose \ {f} /\ sent' = sent \ {f}
  /\ UNCHANGED commentPage

\* without a key: pasted with the mouse, or a canned response
Paste(f) ==
  /\ ~commentText[f]
  /\ commentText' = [commentText EXCEPT ![f] = TRUE] /\ loose' = loose \cup {f}
  /\ sent' = sent \ {f}
  /\ UNCHANGED <<commentPage, draft>>

\* the button "Cancel", also clicked by the buttons of the thread's other form;
\* the text stays in the collapsed form
Cancel(f) ==
  /\ draft' = [draft EXCEPT ![f] = FALSE]
  /\ loose' = IF commentText[f] THEN loose \cup {f} ELSE loose
  /\ UNCHANGED <<commentPage, commentText, sent>>

\* Mutant: draftComments is not called for a thread that comes by ajax.
RenderedEmpty(fs) ==
  /\ commentText' = [f \in Forms |-> commentText[f] /\ f \notin fs]
  /\ loose' = loose \ fs

\* the forms in set fs are rendered anew, draftComments fills them
Rendered(fs) ==
  /\ commentText' = [f \in Forms |-> IF f \in fs THEN draft[f] ELSE commentText[f]]
  /\ loose' = loose \ fs

CommentReload ==
  /\ commentRequests = {} /\ modal = "hidden"
  /\ commentShown' = [t \in Threads |-> <<t, commentServer[t]>>] /\ Rendered(Forms)
  /\ handlers' = <<>> /\ commentExcused' = {}
  /\ UNCHANGED <<commentServer, commentRequests, draft, modal, subject, sent>>

-----------------------------------------------------------------------------
(* Requests.                                                                *)

Deletes(r) == r.of[2] = "delete"

\* the button of a form is disabled until the answer, that of the dialog too
Send(o) ==
  /\ Cardinality(commentRequests) < MaxCommentRequests
  /\ \A r \in commentRequests : r.of # o /\ ~(o[2] = "delete" /\ Deletes(r))
  /\ commentRequests' = commentRequests \cup {[thread |-> o[1], of |-> o, pc |-> "sent", version |-> 0]}
  /\ commentExcused' = IF CommentOf(o[1]) # {} THEN commentExcused \cup {o[1]} ELSE commentExcused

\* submit, which clears the draft first
CommentSubmit(f) ==
  /\ commentText[f]
  /\ Send(f)
  /\ draft' = [draft EXCEPT ![f] = FALSE] /\ sent' = sent \cup {f}
  /\ UNCHANGED <<commentServer, commentShown, commentText, modal, subject, handlers, loose>>

DeleteClicked(t) ==
  /\ modal = "hidden"
  /\ modal' = "shown" /\ subject' = t
  /\ UNCHANGED <<commentServer, commentShown, commentRequests, commentText, draft,
                 handlers, commentExcused, loose, sent>>

DeleteConfirmed ==
  /\ modal = "shown" /\ Send(<<subject, "delete">>)
  /\ UNCHANGED <<commentServer, commentShown, commentText, draft, modal, subject,
                 handlers, loose, sent>>

CommentHandle(r) ==
  /\ r.pc = "sent" /\ commentServer[r.thread] < MaxCommentChanges
  /\ commentServer' = [commentServer EXCEPT ![r.thread] = @ + 1]
  /\ commentRequests' = (commentRequests \ {r}) \cup {[r EXCEPT !.pc = "done", !.version = commentServer'[r.thread]]}
  /\ UNCHANGED <<commentShown, commentText, draft, modal, subject, handlers,
                 commentExcused, loose, sent>>

\* no answer of status 200; the comment may have been stored
CommentFail(r) ==
  /\ r.pc # "failed"
  /\ commentRequests' = (commentRequests \ {r}) \cup {[r EXCEPT !.pc = "failed"]}
  /\ commentExcused' = IF r.pc = "done" THEN commentExcused \cup {r.thread} ELSE commentExcused
  /\ UNCHANGED <<commentServer, commentShown, commentText, draft, modal, subject,
                 handlers, loose, sent>>

\* ajax:complete of a form that posts, edits or moderates
FormComplete(r) ==
  /\ ~Deletes(r) /\ r.pc = "done"
  /\ commentRequests' = commentRequests \ {r}
  /\ commentShown' = [commentShown EXCEPT ![r.thread] = <<r.thread, r.version>>]
  /\ Rendered({f \in Forms : f[1] = r.thread})
  /\ commentExcused' = commentExcused \cup ({handlers[i].thread : i \in Waiting} \cap {r.thread})
  /\ UNCHANGED <<commentServer, draft, modal, subject, handlers, sent>>

\* Mutant: a thread with a handler gets no other.
DeleteCompleteOnce(r) ==
  /\ Deletes(r) /\ r.pc = "done"
  /\ commentRequests' = commentRequests \ {r}
  /\ modal' = IF modal = "shown" THEN "hiding" ELSE modal
  /\ handlers' = IF \E i \in 1..Len(handlers) : handlers[i].thread = subject THEN handlers
                 ELSE Append(handlers, [thread |-> subject, what |-> <<r.thread, r.version>>,
                                        ran |-> FALSE])
  /\ commentExcused' = commentExcused \cup (IF subject = r.thread THEN {} ELSE {subject, r.thread})
  /\ UNCHANGED <<commentServer, commentShown, commentText, draft, subject, loose, sent>>

\* ajax:complete of a deletion: subject is the comment the dialog is about by
\* now, not the deleted one; a dialog that is hidden already stays hidden
DeleteComplete(r) ==
  /\ Deletes(r) /\ r.pc = "done"
  /\ commentRequests' = commentRequests \ {r}
  /\ handlers' = Append(handlers, [thread |-> subject, what |-> <<r.thread, r.version>>,
                                   ran |-> FALSE])
  /\ modal' = IF modal = "shown" THEN "hiding" ELSE modal
  /\ commentExcused' = commentExcused \cup (IF subject = r.thread THEN {} ELSE {subject, r.thread})
  /\ UNCHANGED <<commentServer, commentShown, commentText, draft, subject, loose, sent>>

CompleteFails(r) ==
  /\ r.pc = "failed"
  /\ commentRequests' = commentRequests \ {r}
  /\ loose' = IF ~Deletes(r) /\ commentText[r.of] /\ ~draft[r.of] THEN loose \cup {r.of} ELSE loose
  /\ sent' = sent \ {r.of}
  /\ UNCHANGED <<commentServer, commentShown, commentText, draft, modal, subject,
                 handlers, commentExcused>>

CommentDismiss ==
  /\ modal = "shown" /\ modal' = "hiding"
  /\ UNCHANGED <<commentServer, commentShown, commentRequests, commentText, draft,
                 subject, handlers, commentExcused, loose, sent>>

\* hidden.bs.modal: every handler runs, those of earlier deletions again
Hidden ==
  LET last(t) == CHOOSE i \in 1..Len(handlers) :
                   /\ handlers[i].thread = t
                   /\ \A j \in (i + 1)..Len(handlers) : handlers[j].thread # t
      ts  == {handlers[i].thread : i \in 1..Len(handlers)}
      ran == {handlers[i].thread : i \in {j \in 1..Len(handlers) : handlers[j].ran}}
  IN
  /\ modal = "hiding" /\ modal' = "hidden"
  /\ commentShown' = [t \in Threads |-> IF t \in ts THEN handlers[last(t)].what ELSE commentShown[t]]
  /\ Rendered({f \in Forms : f[1] \in ts})
  /\ handlers' = [i \in 1..Len(handlers) |-> [handlers[i] EXCEPT !.ran = TRUE]]
  /\ commentExcused' = commentExcused \cup ran
  /\ UNCHANGED <<commentServer, commentRequests, draft, subject, sent>>

CommentNext ==
  \/ \E f \in Forms : CommentType(f) \/ Paste(f) \/ Cancel(f) \/ CommentSubmit(f)
  \/ \E t \in Threads : DeleteClicked(t)
  \/ \E r \in commentRequests : \/ CommentHandle(r) \/ CommentFail(r)
                         \/ FormComplete(r) \/ DeleteComplete(r) \/ CompleteFails(r)
  \/ DeleteConfirmed \/ CommentDismiss \/ Hidden \/ CommentReload

CommentSpec == CommentInit /\ [][CommentNext]_commentVars

-----------------------------------------------------------------------------
(* Properties.                                                              *)

\* The type invariant of the page, the storage and the requests.
CommentTypeOK ==
  /\ commentServer \in [Threads -> 0..MaxCommentChanges] /\ commentShown \in [Threads -> Shown]
  /\ commentRequests \subseteq CommentRequest /\ handlers \in Seq(Handler)
  /\ commentText \in [Forms -> BOOLEAN] /\ draft \in [Forms -> BOOLEAN]
  /\ modal \in {"hidden", "shown", "hiding"} /\ subject \in Threads
  /\ commentExcused \subseteq Threads /\ loose \subseteq Forms /\ sent \subseteq Forms

\* A thread with nothing under way shows what the server has, after any order
\* of posts, edits, deletions, failures and dismissed dialogs (comment.js:53,
\* 100).  Excused are threads with two requests at once, with an answer lost,
\* with a handler that ran again or waited while a form was answered, and those
\* mixed up because the dialog was opened for another comment before the answer
\* came; a deletion waits for the dialog to be hidden once more if the user hid
\* it first.
ThreadsCurrent ==
  \A t \in Threads :
    CommentOf(t) = {} /\ t \notin commentExcused /\ (\A i \in Waiting : handlers[i].thread # t)
      => commentShown[t] = <<t, commentServer[t]>>

\* A text that was typed stays in its form, whatever is rendered anew around
\* it, unless it is being sent (comment.js:163, 172).  Texts that were pasted,
\* cancelled or sent in vain may be lost.
TextKept ==
  [][\A f \in Forms : commentText[f] /\ ~Sending(f) /\ f \notin loose => commentText'[f]]_commentVars

\* What the thread shows as a comment is not offered as a draft of another
\* one: a form that was sent, and not written in since, is empty
\* (comment.js:236).
SentOnce == \A f \in sent : ~Sending(f) => ~commentText[f]

\* Neither threads nor forms are stale.
CommentsCurrent == ThreadsCurrent /\ SentOnce
===============================================================================
