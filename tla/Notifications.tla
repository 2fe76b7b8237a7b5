----------------------------- MODULE Notifications ----------------------------
(***************************************************************************)
(* Pages with filters in a panel and a list beside it: the notifications   *)
(* of a user and the requests (content-selector-filters.js,                *)
(* notification.js, jquery_ujs).  A change in the panel submits it two     *)
(* seconds later, and the page is loaded anew with the filters in its url. *)
(* Notifications are marked as read meanwhile: the answer replaces list    *)
(* and panel, by what the server was told of the filters.                  *)
(***************************************************************************)
EXTENDS Integers, FiniteSets

CONSTANTS
  Boxes,            \* check boxes of the panel
  Told,             \* those the url of an update holds
  Dates,            \* valid dates for the input of the panel
  Texts,            \* of its search box
  None,             \* no date, no text
  NoteIds,          \* notifications
  MaxNoteRequests,  \* bound on the updates under way
  MaxNoteFailures   \* bound on the updates lost

ASSUME NotificationsAssumption ==
  /\ Told \subseteq Boxes /\ None \notin Dates \cup Texts
  /\ IsFiniteSet(NoteIds) /\ MaxNoteRequests \in Nat /\ MaxNoteFailures \in Nat

VARIABLES
  inputs,         \* [boxes, date, text]
  summary,        \* the boxes the panel's headings name
  disabled,       \* BOOLEAN: the inputs are
  timer,          \* BOOLEAN: the submission is pending
  phase,          \* page, searching (submitted by a key), loading (list hidden)
  asked,          \* the filters submitted
  filter,         \* those the page was rendered for
  unread,         \* at the server
  list,           \* the notifications shown
  checked,        \* those selected
  all,            \* BOOLEAN: the box "Select All" is checked
  label,          \* the number beside it
  button,         \* BOOLEAN: "Mark selected" can be clicked
  noteRequests,   \* of an identity under way, the update
  noteFailures,
  cancelled,      \* history: a date that is none cancelled the submission
  replaced,       \* history: an answer replaced the panel since it was last changed
  noteOvertaken,  \* history: see ListCurrent
  unsure          \* history: an update of the form is under way or has failed

panel   == <<inputs, summary, disabled, timer, phase, asked, filter, cancelled, replaced>>
noteChoice  == <<list, checked, all, label, button>>
noteVars    == <<panel, noteChoice, unread, noteRequests, noteFailures, noteOvertaken, unsure>>

-----------------------------------------------------------------------------
Filters == [boxes: SUBSET Boxes, date: Dates \cup {None}, text: Texts \cup {None}]
NoteRequest == [of: {"form", "link"}, ids: SUBSET NoteIds, pc: {"sent", "answered"}, here: BOOLEAN,
            filter: Filters, unread: SUBSET NoteIds]
NoteUnder   == DOMAIN noteRequests

\* the list as it is rendered
Listed(ns) ==
  /\ list' = ns /\ checked' = {} /\ all' = FALSE /\ label' = 0 /\ button' = FALSE

NoteInit ==
  /\ \E bs \in SUBSET Boxes : filter = [boxes |-> bs, date |-> None, text |-> None]
  /\ inputs = filter /\ summary = filter.boxes /\ disabled = FALSE
  /\ timer = FALSE /\ phase = "page" /\ asked = filter
  /\ unread = NoteIds /\ list = NoteIds
  /\ checked = {} /\ all = FALSE /\ label = 0 /\ button = FALSE
  /\ noteRequests = [i \in {} |-> {}] /\ noteFailures = 0
  /\ cancelled = FALSE /\ replaced = FALSE /\ noteOvertaken = FALSE /\ unsure = FALSE

-----------------------------------------------------------------------------
(* The panel.                                                               *)

\* Mutant: a box that is cleared is no change.
OnChangeChecked(i) ==
  /\ timer' = (timer \/ ~(i.boxes \subseteq inputs.boxes) \/ i.boxes = inputs.boxes)
  /\ summary' = i.boxes /\ cancelled' = FALSE

\* change and keyup: clear the timer, light the headings up, set the timer
OnChange(i) ==
  /\ timer' = TRUE /\ summary' = i.boxes /\ cancelled' = FALSE

Panel(i) ==
  /\ ~disabled /\ inputs' = i
  /\ UNCHANGED <<disabled, phase, asked, filter, noteChoice, unread, noteRequests,
                 noteFailures, noteOvertaken, unsure>>

Check(b) ==
  LET i == [inputs EXCEPT !.boxes = IF b \in @ THEN @ \ {b} ELSE @ \cup {b}] IN
  Panel(i) /\ OnChange(i) /\ replaced' = FALSE

\* a key that changes nothing, like Tab
KeyUp == Panel(inputs) /\ OnChange(inputs) /\ UNCHANGED replaced

\* a change or a key in the input of the date
EnterDate(d) ==
  LET i == [inputs EXCEPT !.date = d] IN
  /\ Dates # {} /\ Panel(i)
  /\ IF d \in Dates THEN OnChange(i) /\ replaced' = FALSE
     ELSE timer' = FALSE /\ cancelled' = TRUE /\ UNCHANGED <<summary, replaced>>

\* change of the search box, which has no part in the headings
EnterText(t) ==
  /\ t # inputs.text /\ Panel([inputs EXCEPT !.text = t])
  /\ timer' = TRUE /\ cancelled' = FALSE
  /\ UNCHANGED <<summary, replaced>>

\* submitFilters
SubmitFilters ==
  /\ timer /\ timer' = FALSE
  /\ phase' = "loading" /\ asked' = inputs /\ disabled' = TRUE
  /\ UNCHANGED <<inputs, summary, filter, cancelled, replaced, noteChoice, unread,
                 noteRequests, noteFailures, noteOvertaken, unsure>>

\* Return or the button of the search box
Search ==
  /\ phase # "loading" /\ phase' = "searching" /\ asked' = inputs
  /\ UNCHANGED <<inputs, summary, disabled, timer, filter, cancelled, replaced,
                 noteChoice, unread, noteRequests, noteFailures, noteOvertaken, unsure>>

\* the page comes; the server may handle an update of the old one later
Load ==
  /\ phase # "page" /\ phase' = "page"
  /\ filter' = asked /\ inputs' = asked /\ summary' = asked.boxes /\ disabled' = FALSE
  /\ timer' = FALSE /\ cancelled' = FALSE /\ replaced' = FALSE
  /\ Listed(unread)
  /\ noteRequests' = [i \in {j \in NoteUnder : noteRequests[j].pc = "sent"} |-> [noteRequests[i] EXCEPT !.here = FALSE]]
  /\ noteOvertaken' = (DOMAIN noteRequests' # {}) /\ unsure' = FALSE
  /\ UNCHANGED <<asked, unread, noteFailures>>

-----------------------------------------------------------------------------
(* The list.                                                                *)

\* setCheckboxCounterAndSubmitButton, for what is selected by now
Counted == label' = Cardinality(checked') /\ button' = (checked' # {})

Select(n) ==
  /\ phase # "loading" /\ n \in list
  /\ checked' = IF n \in checked THEN checked \ {n} ELSE checked \cup {n}
  /\ Counted
  /\ UNCHANGED <<panel, list, all, unread, noteRequests, noteFailures, noteOvertaken,
                 unsure>>

\* Mutant: the counter runs before the boxes follow.
SelectAllLate ==
  /\ phase # "loading" /\ all' = ~all
  /\ checked' = IF all' THEN list ELSE {}
  /\ label' = Cardinality(checked) /\ button' = (checked # {})
  /\ UNCHANGED <<panel, list, unread, noteRequests, noteFailures, noteOvertaken, unsure>>

\* the boxes follow first, as that handler was registered first
SelectAll ==
  /\ phase # "loading" /\ all' = ~all
  /\ checked' = IF all' THEN list ELSE {}
  /\ Counted
  /\ UNCHANGED <<panel, list, unread, noteRequests, noteFailures, noteOvertaken, unsure>>

\* the url of an update tells some of the filters
Send(of, ns) ==
  /\ phase # "loading"
  /\ \E i \in (1..MaxNoteRequests) \ NoteUnder :
       noteRequests' = [j \in NoteUnder \cup {i} |->
         IF j # i THEN noteRequests[j]
         ELSE [of |-> of, ids |-> ns, pc |-> "sent", here |-> TRUE, unread |-> {},
               filter |-> [boxes |-> filter.boxes \cap Told, date |-> None, text |-> filter.text]]]
  /\ noteOvertaken' = (noteOvertaken /\ NoteUnder # {})
  /\ UNCHANGED <<panel, list, checked, all, label, unread, noteFailures>>

\* the form, whose buttons jquery_ujs disables
MarkSelected ==
  /\ button /\ button' = FALSE /\ unsure' = TRUE
  /\ Send("form", checked)

\* the button beside a notification, and "Mark all"
MarkRead(ns) ==
  /\ ns # {} /\ ns \subseteq list /\ Send("link", ns) /\ UNCHANGED <<button, unsure>>

\* the notifications are updated and the list rendered
NoteHandle(i) ==
  LET r == noteRequests[i] IN
  /\ r.pc = "sent" /\ unread' = unread \ r.ids
  /\ noteRequests' = [noteRequests EXCEPT ![i].pc = "answered", ![i].unread = unread']
  /\ UNCHANGED <<panel, noteChoice, noteFailures, noteOvertaken, unsure>>

NoteWithout(i) == [j \in NoteUnder \ {i} |-> noteRequests[j]]

\* _update.js.erb replaces both; nobody lights the headings up, and the timer runs on
NoteAnswered(i) ==
  LET r == noteRequests[i] IN
  /\ r.pc = "answered" /\ r.here /\ Listed(r.unread)
  /\ noteRequests' = NoteWithout(i)
  /\ noteOvertaken' = (noteOvertaken \/ ~(r.unread \subseteq list))
  /\ inputs' = r.filter /\ filter' = r.filter /\ summary' = {} /\ disabled' = FALSE
  /\ replaced' = TRUE /\ unsure' = (\E j \in DOMAIN noteRequests' : noteRequests'[j].of = "form")
  /\ UNCHANGED <<timer, phase, asked, cancelled, unread, noteFailures>>

\* the update or its answer is lost: the buttons of the form can be clicked again
Fails(i) ==
  /\ noteFailures < MaxNoteFailures /\ noteFailures' = noteFailures + 1
  /\ noteRequests[i].here /\ noteRequests' = NoteWithout(i) /\ noteOvertaken' = TRUE
  /\ button' = (button \/ noteRequests[i].of = "form")
  /\ UNCHANGED <<panel, list, checked, all, label, unread, unsure>>

Dropped(i) ==
  /\ noteRequests[i].pc = "answered" /\ ~noteRequests[i].here /\ noteRequests' = NoteWithout(i)
  /\ UNCHANGED <<panel, noteChoice, unread, noteFailures, noteOvertaken, unsure>>

NoteNext ==
  \/ \E b \in Boxes : Check(b)
  \/ \E d \in Dates \cup {None} : EnterDate(d)
  \/ \E t \in Texts \cup {None} : EnterText(t)
  \/ KeyUp \/ SubmitFilters \/ Search \/ Load
  \/ \E n \in NoteIds : Select(n) \/ MarkRead({n})
  \/ SelectAll \/ MarkSelected \/ MarkRead(list)
  \/ \E i \in NoteUnder : NoteHandle(i) \/ NoteAnswered(i) \/ Fails(i) \/ Dropped(i)

NoteSpec == NoteInit /\ [][NoteNext]_noteVars

\* the timer goes off, and the page comes
NoteFairness == WF_noteVars(SubmitFilters) /\ WF_noteVars(Load)
NoteFairSpec == NoteSpec /\ NoteFairness

-----------------------------------------------------------------------------
(* Properties.                                                              *)

\* The type invariant of the panel, the list and the updates.
NoteTypeOK ==
  /\ {inputs, asked, filter} \subseteq Filters /\ summary \subseteq Boxes
  /\ {disabled, timer, all, button} \subseteq BOOLEAN /\ phase \in {"page", "searching", "loading"}
  /\ unread \subseteq NoteIds /\ list \subseteq NoteIds /\ checked \subseteq list
  /\ label \in 0..Cardinality(NoteIds)
  /\ NoteUnder \subseteq 1..MaxNoteRequests /\ \A i \in NoteUnder : noteRequests[i] \in NoteRequest
  /\ noteFailures \in 0..MaxNoteFailures
  /\ {cancelled, replaced, noteOvertaken, unsure} \subseteq BOOLEAN

\* A page that waits for nothing shows what the panel says, whatever was typed,
\* searched for, or marked as read meanwhile (content-selector-filters.js:30-45):
\* unless a date that is none cancelled the submission.
FiltersCurrent == phase = "page" /\ ~timer /\ ~cancelled => inputs = filter

\* The headings name the boxes that are checked, unless an answer replaced the
\* panel since (content-selector-filters.js:1-20).
HeadingsCurrent == ~replaced => summary = inputs.boxes

\* The number of notifications selected is the number shown, and they can be
\* marked if there are any (notification.js:10-26); an update of the form, under way
\* or lost, has its own way with the button.
SelectionShown ==
  /\ label = Cardinality(checked)
  /\ ~unsure => button = (checked # {})

\* The list is the server's when nothing is under way, after any number of updates
\* side by side, handled and answered in any order (notifications_controller.rb:44-52).
\* Excused is a list to which an answer brought back what a later update had taken
\* off, one that an update was lost of, and one loaded before an update of the page
\* before it was handled: until an update is sent with no other under way.
ListCurrent == NoteUnder = {} /\ ~noteOvertaken => list = unread

\* The page agrees with itself and with the server.
NotesCurrent == FiltersCurrent /\ HeadingsCurrent /\ SelectionShown /\ ListCurrent

\* What the user changed in the panel comes into effect, unless an answer
\* replaced the panel or a date cancelled it.
ChangesCome == inputs # filter ~> (inputs = filter \/ cancelled)

\* "manually update the count and the filtered subset after the update"
\* (notifications_controller.rb:49): an update leaves the page with the filters it had.
UpdateKeepsFilter ==
  [][\A i \in NoteUnder : NoteAnswered(i) => filter' = filter]_noteVars
===============================================================================
