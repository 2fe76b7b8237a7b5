----------------------------- MODULE PollsProofs ------------------------------
(***************************************************************************)
(* Theorems about the pages that ask again and again or set timers: panels *)
(* of results, and the notifications with their filters.                   *)
(*                                                                         *)
(* A panel shows the answer that comes last: what is chosen, unless that   *)
(* answer is for an earlier choice (ShowsChoice is inductive).  A request  *)
(* sent beside no other is alone, and the spinner turns for it (PanelSame, *)
(* PanelSpins).  The list of notifications is the server's, or an update   *)
(* under way will bring what is unread (NoteComes): the one handled last,  *)
(* as an older answer lists at least what is unread now (NoteSeen).        *)
(***************************************************************************)
EXTENDS MCPolls, LiveLogProofs, FiniteSetTheorems

\* A request that was sent beside no other is the only one.
PanelSame == ~panelOverlap => \A i, j \in PanelUnder : i = j
\* The spinner turns for a request that is alone, stands when there is none,
\* and does not turn where there is none to turn.
PanelSpins ==
  /\ ~Spinner => ~spinning
  /\ ~panelOverlap /\ PanelUnder # {} => spinning = Spinner
  /\ PanelUnder = {} /\ (kind.until # "success" \/ panelFailures = 0) => ~spinning
PanelIInv == PanelSame /\ PanelSpins /\ ShowsChoice

\* A panel is of one of three sorts, as for its spinner.
LEMMA PanelKinds ==
  ASSUME PanelTypeOK
  PROVE  kind.until \in {"success", "complete", "start"}
  BY DEF PanelTypeOK, Kinds, Plots, Results, Chart, Diff, Rpmlint

\* A request is sent, with no answer, and leaves the others alone.
LEMMA PanelFetched ==
  ASSUME PanelTypeOK, NEW c \in Choices, Fetch(c)
  PROVE  /\ \E i \in PanelIds \ PanelUnder :
              /\ PanelUnder' = PanelUnder \cup {i}
              /\ \A j \in PanelUnder : j # i /\ panelRequests'[j] = panelRequests[j]
              /\ panelRequests'[i] \in PanelRequest
              /\ panelRequests'[i].choice = c
         /\ panelOverlap' = (PanelUnder # {}) /\ panelAstray' = FALSE /\ spinning' = Spinner
  <1>1. PICK i \in PanelIds \ PanelUnder :
          panelRequests' = [j \in PanelUnder \cup {i} |-> IF j = i THEN PanelSent(c) ELSE panelRequests[j]]
    BY DEF Fetch
  <1>2. PanelUnder' = PanelUnder \cup {i}
    BY <1>1 DEF PanelUnder
  <1>3. \A j \in PanelUnder : j # i /\ panelRequests'[j] = panelRequests[j]
    BY <1>1
  <1>4. panelRequests'[i] = PanelSent(c)
    BY <1>1
  <1>5. PanelSent(c) \in PanelRequest /\ PanelSent(c).choice = c
    BY PanelAssumption DEF PanelSent, PanelRequest, PanelTypeOK
  <1>6. panelOverlap' = (PanelUnder # {}) /\ panelAstray' = FALSE /\ spinning' = Spinner
    BY DEF Fetch
  <1> QED
    BY <1>2, <1>3, <1>4, <1>5, <1>6

\* A request that is done with is gone, the others are as they were.
LEMMA PanelGone ==
  ASSUME NEW i \in PanelUnder, panelRequests' = PanelWithout(i)
  PROVE  /\ PanelUnder' = PanelUnder \ {i}
         /\ \A j \in PanelUnder' : panelRequests'[j] = panelRequests[j]
  BY DEF PanelWithout, PanelUnder

\* A request that is handled has its answer, and asks for the same.
LEMMA PanelHandled ==
  ASSUME PanelTypeOK, NEW i \in PanelUnder, PanelHandle(i)
  PROVE  /\ PanelUnder' = PanelUnder
         /\ \A j \in PanelUnder : /\ panelRequests'[j] \in PanelRequest
                                  /\ panelRequests'[j].choice = panelRequests[j].choice
  <1>1. panelRequests' = [panelRequests EXCEPT ![i] = [@ EXCEPT !.pc = "answered", !.version = version]]
    BY DEF PanelHandle
  <1>2. PanelUnder' = PanelUnder
    BY <1>1 DEF PanelUnder
  <1>3. \A j \in PanelUnder : j # i => panelRequests'[j] = panelRequests[j]
    BY <1>1 DEF PanelUnder
  <1>4. panelRequests'[i] = [panelRequests[i] EXCEPT !.pc = "answered", !.version = version]
    BY <1>1 DEF PanelUnder
  <1>5. panelRequests[i] \in PanelRequest /\ version \in 0..MaxVersion
    BY DEF PanelTypeOK
  <1>6. panelRequests'[i] \in PanelRequest /\ panelRequests'[i].choice = panelRequests[i].choice
    BY <1>4, <1>5 DEF PanelRequest
  <1> QED
    BY <1>2, <1>3, <1>6 DEF PanelTypeOK

-----------------------------------------------------------------------------
\* The page opens with its types right.
LEMMA PanelTypeInit == PanelInit => PanelTypeOK
  <1> SUFFICES ASSUME PanelInit PROVE PanelTypeOK
    OBVIOUS
  <1>1. panelRequests = [i \in {1} |-> PanelSent(panelChoice)] /\ panelChoice \in Choices
    BY DEF PanelInit
  <1>2. PanelUnder = {1} /\ panelRequests[1] = PanelSent(panelChoice)
    BY <1>1 DEF PanelUnder
  <1>3. PanelSent(panelChoice) \in PanelRequest
    BY <1>1, PanelAssumption DEF PanelSent, PanelRequest
  <1>4. 1 \in PanelIds
    BY PanelAssumption DEF PanelIds
  <1>5. /\ content \in Content /\ kind \in Kinds /\ spinning \in BOOLEAN
        /\ panelOverlap \in BOOLEAN /\ panelAstray \in BOOLEAN
    BY DEF PanelInit, Content, Spinner
  <1>6. version \in 0..MaxVersion /\ changes \in 0..MaxChanges /\ panelFailures \in 0..MaxPanelFailures
    BY PanelAssumption DEF PanelInit
  <1> QED
    BY <1>1, <1>2, <1>3, <1>4, <1>5, <1>6 DEF PanelTypeOK

\* Every step keeps the types.
LEMMA PanelTypeNext == PanelTypeOK /\ [PanelNext]_panelVars => PanelTypeOK'
  <1> SUFFICES ASSUME PanelTypeOK, [PanelNext]_panelVars PROVE PanelTypeOK'
    OBVIOUS
  <1> USE PanelAssumption
  <1>1. ASSUME NEW c \in Choices, Fetch(c)
        PROVE  /\ PanelUnder' \subseteq PanelIds /\ \A i \in PanelUnder' : panelRequests'[i] \in PanelRequest
               /\ spinning' \in BOOLEAN /\ panelOverlap' \in BOOLEAN /\ panelAstray' \in BOOLEAN
    <2>1. PICK i \in PanelIds \ PanelUnder :
            /\ PanelUnder' = PanelUnder \cup {i}
            /\ \A j \in PanelUnder : panelRequests'[j] = panelRequests[j]
            /\ panelRequests'[i] \in PanelRequest
      BY <1>1, PanelFetched
    <2>2. spinning' \in BOOLEAN /\ panelOverlap' \in BOOLEAN /\ panelAstray' \in BOOLEAN
      BY <1>1, PanelFetched DEF Spinner
    <2> QED
      BY <2>1, <2>2 DEF PanelTypeOK
  <1>2. ASSUME NEW c \in Choices, Choose(c) PROVE PanelTypeOK'
    <2>1. changes' \in 0..MaxChanges
      BY <1>2 DEF Choose, PanelTypeOK
    <2> QED
      BY <1>1, <1>2, <2>1 DEF Choose, PanelTypeOK
  <1>3. ASSUME NEW c \in Choices, Fold(c) PROVE PanelTypeOK'
    <2>1. changes' \in 0..MaxChanges
      BY <1>3 DEF Fold, PanelTypeOK
    <2>2. content' \in Content
      BY <1>3 DEF Fold, Content
    <2>3. panelAstray' \in BOOLEAN
      BY <1>3 DEF Fold
    <2>4. /\ UNCHANGED <<kind, version, panelRequests, spinning, panelFailures, panelOverlap, PanelUnder>>
          /\ panelChoice' = c
      BY <1>3 DEF Fold, PanelUnder
    <2> QED
      BY <2>1, <2>2, <2>3, <2>4 DEF PanelTypeOK
  <1>4. CASE Reload
    BY <1>1, <1>4 DEF Reload, PanelTypeOK
  <1>5. CASE Change
    <2>1. version' \in 0..MaxVersion
      BY <1>5 DEF Change, PanelTypeOK
    <2>2. PanelUnder' = PanelUnder
      BY <1>5 DEF Change, PanelUnder
    <2> QED
      BY <1>5, <2>1, <2>2 DEF Change, PanelTypeOK
  <1>6. ASSUME NEW i \in PanelUnder, PanelHandle(i) PROVE PanelTypeOK'
    BY <1>6, PanelHandled DEF PanelHandle, PanelTypeOK
  <1>7. ASSUME NEW i \in PanelUnder, Success(i) PROVE PanelTypeOK'
    <2>1. /\ PanelUnder' \subseteq PanelUnder
          /\ \A j \in PanelUnder' : panelRequests'[j] = panelRequests[j]
      BY <1>7, PanelGone DEF Success
    <2>2. content' \in Content
      BY <1>7 DEF Success, Content, PanelTypeOK, PanelRequest
    <2>3. panelAstray' \in BOOLEAN
      BY <1>7 DEF Success
    <2> QED
      BY <1>7, <2>1, <2>2, <2>3 DEF Success, PanelTypeOK
  <1>8. ASSUME NEW i \in PanelUnder, Error(i) PROVE PanelTypeOK'
    <2>1. /\ PanelUnder' \subseteq PanelUnder
          /\ \A j \in PanelUnder' : panelRequests'[j] = panelRequests[j]
      BY <1>8, PanelGone DEF Error
    <2>2. content' \in Content /\ spinning' \in BOOLEAN
      BY <1>8 DEF Error, Content, PanelTypeOK
    <2>3. panelFailures' \in 0..MaxPanelFailures
      BY <1>8 DEF Error, PanelTypeOK
    <2>4. panelAstray' \in BOOLEAN
      BY <1>8 DEF Error
    <2> QED
      BY <1>8, <2>1, <2>2, <2>3, <2>4 DEF Error, PanelTypeOK
  <1>9. CASE UNCHANGED panelVars
    BY <1>9 DEF panelVars, PanelTypeOK, PanelUnder
  <1> QED
    BY <1>2, <1>3, <1>4, <1>5, <1>6, <1>7, <1>8, <1>9 DEF PanelNext

\* Every variable of a panel keeps its type, however many requests, changes
\* and failures there are.
THEOREM PanelTypeCorrect == PanelSpec => []PanelTypeOK
  BY PanelTypeInit, PanelTypeNext, PTL DEF PanelSpec

-----------------------------------------------------------------------------
\* The first request is alone, and asks for what is chosen.
LEMMA PanelSafeInit == PanelInit => PanelIInv
  <1> SUFFICES ASSUME PanelInit PROVE PanelIInv
    OBVIOUS
  <1>1. PanelUnder = {1} /\ panelRequests[1] = PanelSent(panelChoice)
    BY DEF PanelInit, PanelUnder
  <1>2. panelRequests[1].choice = panelChoice
    BY <1>1 DEF PanelSent
  <1>3. spinning = Spinner
    BY DEF PanelInit
  <1> QED
    BY <1>1, <1>2, <1>3 DEF PanelIInv, PanelSame, PanelSpins, ShowsChoice

\* A request sent for what is chosen keeps the invariant: its answer is yet to
\* come, and it is alone or known to have been sent while another was under way.
LEMMA PanelFetchSafe ==
  ASSUME PanelTypeOK, NEW c \in Choices, Fetch(c), panelChoice' = c, kind' = kind
  PROVE  PanelIInv'
  <1>1. PICK i \in PanelIds \ PanelUnder :
          /\ PanelUnder' = PanelUnder \cup {i}
          /\ panelRequests'[i].choice = c
    BY PanelFetched
  <1>2. panelOverlap' = (PanelUnder # {}) /\ spinning' = Spinner
    BY PanelFetched
  <1>3. PanelSame'
    BY <1>1, <1>2 DEF PanelSame
  <1>4. PanelUnder' # {} /\ Spinner' = Spinner
    BY <1>1 DEF Spinner
  <1>5. PanelSpins'
    BY <1>2, <1>4 DEF PanelSpins
  <1>6. ShowsChoice'
    BY <1>1 DEF ShowsChoice
  <1> QED
    BY <1>3, <1>5, <1>6 DEF PanelIInv

\* A request that is done with was the only one, or overlapped; whether what is
\* chosen is still asked for, the others tell.
LEMMA PanelLast ==
  ASSUME PanelSame, NEW i \in PanelUnder, panelRequests' = PanelWithout(i),
         UNCHANGED <<panelChoice, panelOverlap>>
  PROVE  /\ PanelSame' /\ (~panelOverlap => PanelUnder' = {})
         /\ AskedWithout(i) => \E j \in PanelUnder' : panelRequests'[j].choice = panelChoice'
         /\ (\A j \in PanelUnder' : panelRequests'[j].choice # panelChoice')
              /\ panelRequests[i].choice # panelChoice
            => \A j \in PanelUnder : panelRequests[j].choice # panelChoice
  <1>1. PanelUnder' = PanelUnder \ {i} /\ \A j \in PanelUnder' : panelRequests'[j] = panelRequests[j]
    BY PanelGone
  <1> QED
    BY <1>1 DEF PanelSame, AskedWithout

\* Every step keeps the invariant.
LEMMA PanelSafeNext == PanelTypeOK /\ PanelIInv /\ [PanelNext]_panelVars => PanelIInv'
  <1> SUFFICES ASSUME PanelTypeOK, PanelIInv, [PanelNext]_panelVars PROVE PanelIInv'
    OBVIOUS
  <1>1. ASSUME NEW c \in Choices, Choose(c) PROVE PanelIInv'
    BY <1>1, PanelFetchSafe DEF Choose
  <1>2. ASSUME NEW c \in Choices, Fold(c) PROVE PanelIInv'
    <2>1. /\ UNCHANGED <<kind, panelRequests, spinning, panelFailures, panelOverlap, PanelUnder>>
          /\ panelChoice' = c /\ content' = <<c, content[2]>>
      BY <1>2 DEF Fold, PanelUnder
    <2>2. PanelSame'
      BY <2>1 DEF PanelIInv, PanelSame
    <2>3. PanelSpins'
      BY <2>1 DEF PanelIInv, PanelSpins, Spinner
    <2>4. content' \in Choices \X (0..MaxVersion) /\ content'[1] = c
      BY <1>2 DEF Fold
    <2>5. ShowsChoice'
      BY <2>1, <2>4 DEF ShowsChoice
    <2> QED
      BY <2>2, <2>3, <2>5 DEF PanelIInv
  <1>3. CASE Reload
    BY <1>3, PanelFetchSafe DEF Reload, PanelTypeOK
  <1>4. CASE Change
    BY <1>4 DEF Change, PanelIInv, PanelSame, PanelSpins, ShowsChoice, PanelUnder, Spinner
  <1>5. ASSUME NEW i \in PanelUnder, PanelHandle(i) PROVE PanelIInv'
    <2>1. /\ PanelUnder' = PanelUnder
          /\ \A j \in PanelUnder : panelRequests'[j].choice = panelRequests[j].choice
      BY <1>5, PanelHandled
    <2>2. UNCHANGED <<kind, panelChoice, content, spinning, panelFailures, panelOverlap, panelAstray>>
      BY <1>5 DEF PanelHandle
    <2> QED
      BY <2>1, <2>2 DEF PanelIInv, PanelSame, PanelSpins, ShowsChoice, Spinner
  <1>6. ASSUME NEW i \in PanelUnder, Success(i) PROVE PanelIInv'
    <2>1. /\ PanelSame'
          /\ AskedWithout(i) => \E j \in PanelUnder' : panelRequests'[j].choice = panelChoice'
      BY <1>6, PanelLast DEF Success, PanelIInv
    <2>2. /\ UNCHANGED <<kind, panelChoice, panelOverlap>> /\ spinning' = FALSE
          /\ content' = <<panelRequests[i].choice, panelRequests[i].version>>
          /\ panelAstray' = (panelRequests[i].choice # panelChoice /\ ~AskedWithout(i))
      BY <1>6 DEF Success
    <2>3. PanelSpins'
      <3>1. ~panelOverlap => PanelUnder' = {}
        BY <1>6, PanelLast DEF Success, PanelIInv
      <3> QED
        BY <2>2, <3>1 DEF PanelSpins
    <2>4. content' \in Choices \X (0..MaxVersion) /\ content'[1] = panelRequests[i].choice
      BY <2>2 DEF PanelTypeOK, PanelRequest
    <2>5. ShowsChoice'
      BY <2>1, <2>2, <2>4 DEF ShowsChoice
    <2> QED
      BY <2>1, <2>3, <2>5 DEF PanelIInv
  <1>7. ASSUME NEW i \in PanelUnder, Error(i) PROVE PanelIInv'
    <2>1. PanelSame' /\ (~panelOverlap => PanelUnder' = {})
      BY <1>7, PanelLast DEF Error, PanelIInv
    <2>2. /\ UNCHANGED <<kind, panelChoice, panelOverlap>>
          /\ content' = IF kind.tells THEN Message ELSE content
          /\ spinning' = IF kind.until = "complete" THEN FALSE ELSE spinning
          /\ panelAstray' =
               (~kind.tells /\ (panelAstray \/ (panelRequests[i].choice = panelChoice /\ ~AskedWithout(i))))
      BY <1>7 DEF Error
    <2>3. panelFailures' > 0 /\ panelFailures' # 0
      BY <1>7 DEF Error, PanelTypeOK
    <2>4. PanelSpins'
      <3>1. CASE kind.until = "complete"
        BY <2>1, <2>2, <3>1 DEF PanelSpins
      <3>2. CASE kind.until # "complete"
        <4>1. spinning' = spinning /\ Spinner' = Spinner
          BY <2>2, <3>2 DEF Spinner
        <4>2. kind.until # "success" => ~spinning
          BY <3>2, PanelKinds DEF PanelIInv, PanelSpins, Spinner
        <4>3. ~Spinner' => ~spinning'
          BY <4>1 DEF PanelIInv, PanelSpins
        <4>4. panelOverlap' \/ PanelUnder' = {}
          BY <2>1, <2>2
        <4>5. kind'.until # "success" \/ panelFailures' = 0 => ~spinning'
          BY <2>2, <2>3, <4>1, <4>2
        <4> QED
          BY <4>3, <4>4, <4>5 DEF PanelSpins
      <3> QED
        BY <3>1, <3>2
    <2>5. ShowsChoice'
      <3>1. CASE kind.tells
        BY <2>2, <3>1 DEF ShowsChoice
      <3>2. CASE ~kind.tells
        <4> SUFFICES ASSUME ~panelAstray',
                            \A j \in PanelUnder' : panelRequests'[j].choice # panelChoice'
                     PROVE  content' \in {Message} \cup {c \in Choices \X (0..MaxVersion) : c[1] = panelChoice'}
          BY DEF ShowsChoice
        <4>1. ~AskedWithout(i)
          BY <1>7, PanelLast DEF Error, PanelIInv
        <4>2. ~panelAstray /\ panelRequests[i].choice # panelChoice
          BY <2>2, <3>2, <4>1
        <4>3. \A j \in PanelUnder : panelRequests[j].choice # panelChoice
          BY <1>7, <4>2, PanelLast DEF Error, PanelIInv
        <4> QED
          BY <2>2, <3>2, <4>2, <4>3 DEF PanelIInv, ShowsChoice
      <3> QED
        BY <3>1, <3>2
    <2> QED
      BY <2>1, <2>4, <2>5 DEF PanelIInv
  <1>8. CASE UNCHANGED panelVars
    BY <1>8 DEF panelVars, PanelIInv, PanelSame, PanelSpins, ShowsChoice, PanelUnder, Spinner
  <1> QED
    BY <1>1, <1>2, <1>3, <1>4, <1>5, <1>6, <1>7, <1>8 DEF PanelNext

\* What the properties say follows from the invariant.
LEMMA PanelSafeShows == PanelIInv => PanelShows
  <1> SUFFICES ASSUME PanelIInv PROVE PanelShows
    OBVIOUS
  <1>1. Cardinality(PanelUnder) = 1 => PanelUnder # {}
    BY FS_EmptySet
  <1> QED
    BY <1>1 DEF PanelIInv, PanelSpins, PanelShows, SpinsWhileLoading

\* A panel that does not wait for what is chosen shows it or says that a request
\* failed, for any choices and any number of requests side by side, whatever their
\* order: unless the answer for an earlier choice came after all those for this
\* one, or a failure is not told.  Its spinner stands when nothing is under way
\* (monitor.js, buildresult.js, request.js).
THEOREM PanelIsCurrent == PanelSpec => []PanelShows
  BY PanelTypeCorrect, PanelSafeInit, PanelSafeNext, PanelSafeShows, PTL DEF PanelSpec

-----------------------------------------------------------------------------
(* Notifications.                                                           *)

NoteHere ==
  \A i \in NoteUnder : noteRequests[i].here /\ noteRequests[i].of = "form" => unsure
NoteMine ==
  ~noteOvertaken => \A i \in NoteUnder : noteRequests[i].here
NoteSeen ==
  \A i \in NoteUnder : noteRequests[i].pc = "answered" => unread \subseteq noteRequests[i].unread
NoteComes ==
  ~noteOvertaken =>
    \/ list = unread
    \/ \E i \in NoteUnder : noteRequests[i].pc = "sent" \/ noteRequests[i].unread = unread
NoteIInv == NotesCurrent /\ NoteHere /\ NoteMine /\ NoteSeen /\ NoteComes

\* What is listed anew has nothing selected.
LEMMA NoteListed ==
  ASSUME NEW ns, Listed(ns)
  PROVE  list' = ns /\ checked' = {} /\ label' = Cardinality(checked') /\ button' = (checked' # {})
  BY FS_EmptySet DEF Listed

\* The number of notifications that are selected is in range.
LEMMA NoteCounted ==
  ASSUME NEW ns \in SUBSET NoteIds
  PROVE  Cardinality(ns) \in 0..Cardinality(NoteIds)
  BY FS_Subset, FS_CardinalityType, NotificationsAssumption

\* None is, at first.
LEMMA NoteZero == 0 \in 0..Cardinality(NoteIds)
  BY FS_CardinalityType, NotificationsAssumption

\* An update that is done with is gone, the others are as they were.
LEMMA NoteGone ==
  ASSUME NEW i \in NoteUnder, noteRequests' = NoteWithout(i)
  PROVE  /\ NoteUnder' = NoteUnder \ {i}
         /\ \A j \in NoteUnder' : noteRequests'[j] = noteRequests[j]
  BY DEF NoteWithout, NoteUnder

\* An update that is sent tells the filters of the page.
LEMMA NoteSent ==
  ASSUME NoteTypeOK, NEW of \in {"form", "link"}, NEW ns \in SUBSET NoteIds, Send(of, ns)
  PROVE  \E i \in (1..MaxNoteRequests) \ NoteUnder :
           /\ NoteUnder' = NoteUnder \cup {i}
           /\ \A j \in NoteUnder : j # i /\ noteRequests'[j] = noteRequests[j]
           /\ noteRequests'[i] \in NoteRequest
           /\ noteRequests'[i].of = of /\ noteRequests'[i].pc = "sent" /\ noteRequests'[i].here
  <1> DEFINE r == [of |-> of, ids |-> ns, pc |-> "sent", here |-> TRUE, unread |-> {},
                   filter |-> [boxes |-> filter.boxes \cap Told, date |-> None, text |-> filter.text]]
  <1>1. PICK i \in (1..MaxNoteRequests) \ NoteUnder :
          noteRequests' = [j \in NoteUnder \cup {i} |-> IF j # i THEN noteRequests[j] ELSE r]
    BY DEF Send
  <1>2. NoteUnder' = NoteUnder \cup {i}
    BY <1>1 DEF NoteUnder
  <1>3. \A j \in NoteUnder : j # i /\ noteRequests'[j] = noteRequests[j]
    BY <1>1
  <1>4. noteRequests'[i] = r
    BY <1>1
  <1>5. r.filter \in Filters
    BY DEF NoteTypeOK, Filters
  <1>6. r \in NoteRequest
    BY <1>5 DEF NoteRequest
  <1> QED
    BY <1>2, <1>3, <1>4, <1>6

\* An update that is handled has its answer, and is what it was.
LEMMA NoteHandled ==
  ASSUME NoteTypeOK, NEW i \in NoteUnder, NoteHandle(i)
  PROVE  /\ NoteUnder' = NoteUnder
         /\ \A j \in NoteUnder : j # i => noteRequests'[j] = noteRequests[j]
         /\ noteRequests'[i] \in NoteRequest
         /\ noteRequests'[i].of = noteRequests[i].of /\ noteRequests'[i].here = noteRequests[i].here
         /\ noteRequests'[i].unread = unread' /\ unread' \subseteq NoteIds
  <1>1. noteRequests' = [noteRequests EXCEPT ![i].pc = "answered", ![i].unread = unread']
    BY DEF NoteHandle
  <1>2. NoteUnder' = NoteUnder /\ \A j \in NoteUnder : j # i => noteRequests'[j] = noteRequests[j]
    BY <1>1 DEF NoteUnder
  <1>3. noteRequests'[i] = [noteRequests[i] EXCEPT !.pc = "answered", !.unread = unread']
    BY <1>1 DEF NoteUnder
  <1>4. noteRequests[i] \in NoteRequest /\ unread' \subseteq NoteIds
    BY DEF NoteTypeOK, NoteHandle
  <1>5. /\ noteRequests'[i] \in NoteRequest /\ noteRequests'[i].unread = unread'
        /\ noteRequests'[i].of = noteRequests[i].of /\ noteRequests'[i].here = noteRequests[i].here
    BY <1>3, <1>4 DEF NoteRequest
  <1> QED
    BY <1>2, <1>4, <1>5

\* The updates of a page that is gone are those the server still has to handle.
LEMMA NoteLeft ==
  ASSUME NoteTypeOK, Load
  PROVE  /\ NoteUnder' \subseteq NoteUnder
         /\ \A i \in NoteUnder' : /\ noteRequests'[i] \in NoteRequest
                                 /\ noteRequests'[i].pc = "sent" /\ ~noteRequests'[i].here
  <1>1. noteRequests' = [i \in {j \in NoteUnder : noteRequests[j].pc = "sent"} |->
                           [noteRequests[i] EXCEPT !.here = FALSE]]
    BY DEF Load
  <1>2. NoteUnder' \subseteq NoteUnder
    BY <1>1 DEF NoteUnder
  <1>3. ASSUME NEW i \in NoteUnder'
        PROVE  /\ noteRequests'[i] \in NoteRequest
               /\ noteRequests'[i].pc = "sent" /\ ~noteRequests'[i].here
    <2>1. /\ noteRequests'[i] = [noteRequests[i] EXCEPT !.here = FALSE]
          /\ noteRequests[i].pc = "sent"
      BY <1>1 DEF NoteUnder
    <2>2. noteRequests[i] \in NoteRequest
      BY <1>2 DEF NoteTypeOK
    <2> QED
      BY <2>1, <2>2 DEF NoteRequest
  <1> QED
    BY <1>2, <1>3

\* A change of the panel keeps the types, if its inputs do.
LEMMA NotePanelTypes ==
  ASSUME NoteTypeOK, NEW i \in Filters, Panel(i), summary' \subseteq Boxes,
         {timer', cancelled', replaced'} \subseteq BOOLEAN
  PROVE  NoteTypeOK'
  <1>1. /\ inputs' = i
        /\ UNCHANGED <<disabled, phase, asked, filter, list, checked, all, label, button, unread,
                       noteRequests, noteFailures, noteOvertaken, unsure, NoteUnder>>
    BY DEF Panel, noteChoice, NoteUnder
  <1> QED
    BY <1>1 DEF NoteTypeOK

\* What is selected keeps the types.
LEMMA NoteChoiceTypes ==
  ASSUME NoteTypeOK, Counted, checked' \subseteq list, all' \in BOOLEAN,
         UNCHANGED <<panel, list, unread, noteRequests, noteFailures, noteOvertaken, unsure>>
  PROVE  NoteTypeOK'
  <1>1. label' \in 0..Cardinality(NoteIds) /\ button' \in BOOLEAN
    BY NoteCounted DEF Counted, NoteTypeOK
  <1>2. UNCHANGED <<inputs, summary, disabled, timer, phase, asked, filter, cancelled, replaced, NoteUnder>>
    BY DEF panel, NoteUnder
  <1> QED
    BY <1>1, <1>2 DEF NoteTypeOK

\* An update that is sent keeps the types.
LEMMA NoteSendTypes ==
  ASSUME NoteTypeOK, NEW of \in {"form", "link"}, NEW ns \in SUBSET NoteIds, Send(of, ns),
         button' \in BOOLEAN, unsure' \in BOOLEAN
  PROVE  NoteTypeOK'
  <1>1. PICK i \in (1..MaxNoteRequests) \ NoteUnder :
           /\ NoteUnder' = NoteUnder \cup {i}
           /\ \A j \in NoteUnder : j # i /\ noteRequests'[j] = noteRequests[j]
           /\ noteRequests'[i] \in NoteRequest
    BY NoteSent
  <1>2. NoteUnder' \subseteq 1..MaxNoteRequests /\ \A j \in NoteUnder' : noteRequests'[j] \in NoteRequest
    BY <1>1 DEF NoteTypeOK
  <1>3. noteOvertaken' \in BOOLEAN
    BY DEF Send, NoteTypeOK
  <1>4. UNCHANGED <<inputs, summary, disabled, timer, phase, asked, filter, cancelled, replaced,
                    list, checked, all, label, unread, noteFailures>>
    BY DEF Send, panel
  <1> QED
    BY <1>2, <1>3, <1>4 DEF NoteTypeOK

\* The page opens with its types right.
LEMMA NoteTypeInit == NoteInit => NoteTypeOK
  <1> SUFFICES ASSUME NoteInit PROVE NoteTypeOK
    OBVIOUS
  <1>1. filter \in Filters /\ inputs = filter /\ asked = filter /\ summary \subseteq Boxes
    BY DEF NoteInit, Filters
  <1>3. NoteUnder = {}
    BY DEF NoteInit, NoteUnder
  <1>4. label \in 0..Cardinality(NoteIds)
    BY NoteZero DEF NoteInit
  <1>5. /\ {disabled, timer, cancelled, replaced, all, button, noteOvertaken, unsure} \subseteq BOOLEAN
    BY DEF NoteInit
  <1>6. noteFailures \in 0..MaxNoteFailures
    BY NotificationsAssumption DEF NoteInit
  <1>7. phase = "page"
    BY DEF NoteInit
  <1>8. unread \subseteq NoteIds /\ list \subseteq NoteIds /\ checked \subseteq list
    BY DEF NoteInit
  <1> QED
    BY <1>1, <1>3, <1>4, <1>5, <1>6, <1>7, <1>8 DEF NoteTypeOK

\* Every step keeps the types.
LEMMA NoteTypeNext == NoteTypeOK /\ [NoteNext]_noteVars => NoteTypeOK'
  <1> SUFFICES ASSUME NoteTypeOK, [NoteNext]_noteVars PROVE NoteTypeOK'
    OBVIOUS
  <1>1. ASSUME NEW b \in Boxes, Check(b) PROVE NoteTypeOK'
    <2> DEFINE i == [inputs EXCEPT !.boxes = IF b \in @ THEN @ \ {b} ELSE @ \cup {b}]
    <2>1. Panel(i) /\ OnChange(i) /\ replaced' = FALSE
      BY <1>1 DEF Check
    <2>2. i \in Filters
      BY DEF NoteTypeOK, Filters
    <2>3. i.boxes \subseteq Boxes
      BY <2>2 DEF Filters
    <2> QED
      BY <2>1, <2>2, <2>3, NotePanelTypes DEF OnChange
  <1>2. ASSUME NEW d \in Dates \cup {None}, EnterDate(d) PROVE NoteTypeOK'
    <2> DEFINE i == [inputs EXCEPT !.date = d]
    <2>1. Panel(i)
      BY <1>2 DEF EnterDate
    <2>2. i \in Filters /\ i.boxes \subseteq Boxes
      BY DEF NoteTypeOK, Filters
    <2>3. summary' \subseteq Boxes /\ {timer', cancelled', replaced'} \subseteq BOOLEAN
      BY <1>2, <2>2 DEF EnterDate, OnChange, NoteTypeOK
    <2> QED
      BY <2>1, <2>2, <2>3, NotePanelTypes
  <1>3. ASSUME NEW t \in Texts \cup {None}, EnterText(t) PROVE NoteTypeOK'
    <2>1. [inputs EXCEPT !.text = t] \in Filters
      BY DEF NoteTypeOK, Filters
    <2>2. summary' \subseteq Boxes /\ {timer', cancelled', replaced'} \subseteq BOOLEAN
      BY <1>3 DEF EnterText, NoteTypeOK
    <2> QED
      BY <1>3, <2>1, <2>2, NotePanelTypes DEF EnterText
  <1>4. CASE KeyUp
    <2>1. inputs \in Filters /\ inputs.boxes \subseteq Boxes
      BY DEF NoteTypeOK, Filters
    <2>2. summary' \subseteq Boxes /\ {timer', cancelled', replaced'} \subseteq BOOLEAN
      BY <1>4, <2>1 DEF KeyUp, OnChange, NoteTypeOK
    <2> QED
      BY <1>4, <2>1, <2>2, NotePanelTypes DEF KeyUp
  <1>5. CASE SubmitFilters
    BY <1>5 DEF SubmitFilters, noteChoice, NoteTypeOK, NoteUnder
  <1>6. CASE Search
    BY <1>6 DEF Search, noteChoice, NoteTypeOK, NoteUnder
  <1>7. CASE Load
    <2>1. /\ NoteUnder' \subseteq 1..MaxNoteRequests
          /\ \A j \in NoteUnder' : noteRequests'[j] \in NoteRequest
      BY <1>7, NoteLeft DEF NoteTypeOK
    <2>2. filter' = asked /\ inputs' = asked /\ summary' = asked.boxes /\ asked \in Filters
      BY <1>7 DEF Load, NoteTypeOK
    <2>3. summary' \subseteq Boxes
      BY <2>2 DEF Filters
    <2>4. noteOvertaken' \in BOOLEAN
      BY <1>7 DEF Load
    <2>5. Listed(unread) /\ unread' = unread
      BY <1>7 DEF Load
    <2>6. {disabled', timer', cancelled', replaced', unsure'} \subseteq BOOLEAN /\ phase' = "page"
      BY <1>7 DEF Load
    <2>7. UNCHANGED <<asked, noteFailures>>
      BY <1>7 DEF Load
    <2>8. list' = unread /\ checked' = {} /\ {all', button'} \subseteq BOOLEAN /\ label' = 0
      BY <2>5 DEF Listed
    <2> QED
      BY <2>1, <2>2, <2>3, <2>4, <2>5, <2>6, <2>7, <2>8, NoteZero DEF NoteTypeOK
  <1>8. ASSUME NEW n \in NoteIds, Select(n) PROVE NoteTypeOK'
    <2>1. checked' \subseteq list /\ all' \in BOOLEAN
      BY <1>8 DEF Select, NoteTypeOK
    <2> QED
      BY <1>8, <2>1, NoteChoiceTypes DEF Select
  <1>9. CASE SelectAll
    <2>1. checked' \subseteq list
      BY <1>9 DEF SelectAll
    <2>2. all' \in BOOLEAN
      BY <1>9 DEF SelectAll
    <2> QED
      BY <1>9, <2>1, <2>2, NoteChoiceTypes DEF SelectAll
  <1>10. CASE MarkSelected
    <2>1. checked \in SUBSET NoteIds
      BY DEF NoteTypeOK
    <2> QED
      BY <1>10, <2>1, NoteSendTypes DEF MarkSelected
  <1>11. ASSUME NEW ns, MarkRead(ns) PROVE NoteTypeOK'
    <2>1. ns \in SUBSET NoteIds
      BY <1>11 DEF MarkRead, NoteTypeOK
    <2>2. button' \in BOOLEAN /\ unsure' \in BOOLEAN
      BY <1>11 DEF MarkRead, NoteTypeOK
    <2> QED
      BY <1>11, <2>1, <2>2, NoteSendTypes DEF MarkRead
  <1>12. ASSUME NEW i \in NoteUnder, NoteHandle(i) PROVE NoteTypeOK'
    <2>1. /\ NoteUnder' = NoteUnder /\ unread' \subseteq NoteIds
          /\ \A j \in NoteUnder : noteRequests'[j] \in NoteRequest
      BY <1>12, NoteHandled DEF NoteTypeOK
    <2> QED
      BY <1>12, <2>1 DEF NoteHandle, panel, noteChoice, NoteTypeOK
  <1>13. ASSUME NEW i \in NoteUnder, noteRequests' = NoteWithout(i)
         PROVE  /\ NoteUnder' \subseteq 1..MaxNoteRequests
                /\ \A j \in NoteUnder' : noteRequests'[j] \in NoteRequest
    BY <1>13, NoteGone DEF NoteTypeOK
  <1>14. ASSUME NEW i \in NoteUnder, NoteAnswered(i) PROVE NoteTypeOK'
    <2>1. noteRequests[i].filter \in Filters /\ noteRequests[i].unread \subseteq NoteIds
      BY DEF NoteTypeOK, NoteRequest
    <2>2. /\ list' = noteRequests[i].unread /\ checked' = {} /\ label' = 0
          /\ {all', button'} \subseteq BOOLEAN
      BY <1>14 DEF NoteAnswered, Listed
    <2>3. {unsure', disabled', replaced'} \subseteq BOOLEAN
      BY <1>14 DEF NoteAnswered
    <2>4. inputs' \in Filters /\ filter' \in Filters /\ summary' \subseteq Boxes
      BY <1>14, <2>1 DEF NoteAnswered
    <2>5. UNCHANGED <<timer, phase, asked, cancelled, unread, noteFailures>> /\ noteOvertaken' \in BOOLEAN
      BY <1>14 DEF NoteAnswered, NoteTypeOK
    <2>6. /\ NoteUnder' \subseteq 1..MaxNoteRequests
          /\ \A j \in NoteUnder' : noteRequests'[j] \in NoteRequest
      BY <1>13, <1>14 DEF NoteAnswered
    <2> QED
      BY <2>1, <2>2, <2>3, <2>4, <2>5, <2>6, NoteZero DEF NoteTypeOK
  <1>15. ASSUME NEW i \in NoteUnder, Fails(i) PROVE NoteTypeOK'
    <2>1. button' \in BOOLEAN
      BY <1>15 DEF Fails, NoteTypeOK
    <2>2. noteFailures' \in 0..MaxNoteFailures
      BY <1>15, NotificationsAssumption DEF Fails, NoteTypeOK
    <2> QED
      BY <1>13, <1>15, <2>1, <2>2 DEF Fails, panel, NoteTypeOK
  <1>16. ASSUME NEW i \in NoteUnder, Dropped(i) PROVE NoteTypeOK'
    BY <1>13, <1>16 DEF Dropped, panel, noteChoice, NoteTypeOK
  <1>17. CASE UNCHANGED noteVars
    BY <1>17 DEF noteVars, panel, noteChoice, NoteTypeOK, NoteUnder
  <1> QED
    BY <1>1, <1>2, <1>3, <1>4, <1>5, <1>6, <1>7, <1>8, <1>9, <1>10, <1>11, <1>12, <1>14, <1>15,
       <1>16, <1>17 DEF NoteNext

\* Every variable of the panel, the list and the updates keeps its type.
THEOREM NoteTypeCorrect == NoteSpec => []NoteTypeOK
  BY NoteTypeInit, NoteTypeNext, PTL DEF NoteSpec

-----------------------------------------------------------------------------
\* The page opens with nothing under way.
LEMMA NoteSafeInit == NoteInit => NoteIInv
  <1> SUFFICES ASSUME NoteInit PROVE NoteIInv
    OBVIOUS
  <1>1. NoteUnder = {} /\ inputs = filter /\ summary = inputs.boxes /\ list = unread
    BY DEF NoteInit, NoteUnder
  <1>2. label = Cardinality(checked) /\ button = (checked # {})
    BY FS_EmptySet DEF NoteInit
  <1> QED
    BY <1>1, <1>2 DEF NoteIInv, NotesCurrent, FiltersCurrent, HeadingsCurrent, SelectionShown,
                      ListCurrent, NoteHere, NoteMine, NoteSeen, NoteComes

\* The part of the invariant that the panel has no part in.
LEMMA NoteListKept ==
  ASSUME NoteIInv,
         UNCHANGED <<list, checked, label, button, unread, noteRequests, noteOvertaken, unsure>>
  PROVE  (SelectionShown /\ ListCurrent /\ NoteHere /\ NoteMine /\ NoteSeen /\ NoteComes)'
  <1>1. NoteUnder' = NoteUnder
    BY DEF NoteUnder
  <1>2. (SelectionShown /\ ListCurrent /\ NoteHere)'
    BY <1>1 DEF NoteIInv, NotesCurrent, SelectionShown, ListCurrent, NoteHere
  <1>3. (NoteMine /\ NoteSeen /\ NoteComes)'
    BY <1>1 DEF NoteIInv, NoteMine, NoteSeen, NoteComes
  <1> QED
    BY <1>2, <1>3

\* And the part that the list has none in.
LEMMA NotePanelKept ==
  ASSUME NoteIInv, UNCHANGED panel
  PROVE  (FiltersCurrent /\ HeadingsCurrent)'
  BY DEF NoteIInv, NotesCurrent, FiltersCurrent, HeadingsCurrent, panel

\* An update that is sent: it will bring what is unread then.
LEMMA NoteSendSafe ==
  ASSUME NoteTypeOK, NoteIInv, NEW of \in {"form", "link"}, NEW ns \in SUBSET NoteIds, Send(of, ns),
         of = "form" => unsure', unsure => unsure', unsure' \/ button' = button
  PROVE  NoteIInv'
  <1>1. PICK i \in (1..MaxNoteRequests) \ NoteUnder :
           /\ NoteUnder' = NoteUnder \cup {i}
           /\ \A j \in NoteUnder : j # i /\ noteRequests'[j] = noteRequests[j]
           /\ noteRequests'[i].of = of /\ noteRequests'[i].pc = "sent" /\ noteRequests'[i].here
    BY NoteSent
  <1>2. /\ UNCHANGED <<panel, list, checked, label, unread>>
        /\ noteOvertaken' = (noteOvertaken /\ NoteUnder # {})
    BY DEF Send
  <1>3. SelectionShown'
    BY <1>2 DEF NoteIInv, NotesCurrent, SelectionShown
  <1>4. ListCurrent'
    BY <1>1 DEF ListCurrent
  <1>5. NoteHere'
    BY <1>1 DEF NoteIInv, NoteHere
  <1>6. ~noteOvertaken' => ~noteOvertaken \/ NoteUnder = {}
    BY <1>2
  <1>7. NoteMine'
    BY <1>1, <1>6 DEF NoteIInv, NoteMine
  <1>8. NoteSeen'
    BY <1>1, <1>2 DEF NoteIInv, NoteSeen
  <1>9. NoteComes'
    BY <1>1 DEF NoteComes
  <1> QED
    BY <1>2, <1>3, <1>4, <1>5, <1>7, <1>8, <1>9, NotePanelKept DEF NoteIInv, NotesCurrent

\* Every step keeps the invariant.
LEMMA NoteSafeNext == NoteTypeOK /\ NoteIInv /\ [NoteNext]_noteVars => NoteIInv'
  <1> SUFFICES ASSUME NoteTypeOK, NoteIInv, [NoteNext]_noteVars PROVE NoteIInv'
    OBVIOUS
  <1>a. ASSUME NEW i, Panel(i), (FiltersCurrent /\ HeadingsCurrent)' PROVE NoteIInv'
    BY <1>a, NoteListKept DEF Panel, noteChoice, NoteIInv, NotesCurrent
  <1>b. inputs \in Filters
    BY DEF NoteTypeOK
  <1>1. ASSUME NEW b \in Boxes, Check(b) PROVE NoteIInv'
    <2>1. (FiltersCurrent /\ HeadingsCurrent)'
      BY <1>1 DEF Check, Panel, OnChange, FiltersCurrent, HeadingsCurrent
    <2> QED
      BY <1>1, <1>a, <2>1 DEF Check
  <1>2. ASSUME NEW d \in Dates \cup {None}, EnterDate(d) PROVE NoteIInv'
    <2>1. inputs' = [inputs EXCEPT !.date = d] /\ inputs'.boxes = inputs.boxes
      BY <1>2, <1>b DEF EnterDate, Panel, Filters
    <2>2. (FiltersCurrent /\ HeadingsCurrent)'
      BY <1>2, <2>1 DEF EnterDate, OnChange, FiltersCurrent, HeadingsCurrent, NoteIInv, NotesCurrent
    <2> QED
      BY <1>2, <1>a, <2>2 DEF EnterDate
  <1>3. ASSUME NEW t \in Texts \cup {None}, EnterText(t) PROVE NoteIInv'
    <2>1. inputs' = [inputs EXCEPT !.text = t] /\ inputs'.boxes = inputs.boxes
      BY <1>3, <1>b DEF EnterText, Panel, Filters
    <2>2. (FiltersCurrent /\ HeadingsCurrent)'
      BY <1>3, <2>1 DEF EnterText, FiltersCurrent, HeadingsCurrent, NoteIInv, NotesCurrent
    <2> QED
      BY <1>3, <1>a, <2>2 DEF EnterText
  <1>4. CASE KeyUp
    <2>1. (FiltersCurrent /\ HeadingsCurrent)'
      BY <1>4 DEF KeyUp, Panel, OnChange, FiltersCurrent, HeadingsCurrent
    <2> QED
      BY <1>4, <1>a, <2>1 DEF KeyUp
  <1>5. CASE SubmitFilters
    <2>1. (FiltersCurrent /\ HeadingsCurrent)'
      BY <1>5 DEF SubmitFilters, FiltersCurrent, HeadingsCurrent, NoteIInv, NotesCurrent
    <2> QED
      BY <1>5, <2>1, NoteListKept DEF SubmitFilters, noteChoice, NoteIInv, NotesCurrent
  <1>6. CASE Search
    <2>1. (FiltersCurrent /\ HeadingsCurrent)'
      BY <1>6 DEF Search, FiltersCurrent, HeadingsCurrent, NoteIInv, NotesCurrent
    <2> QED
      BY <1>6, <2>1, NoteListKept DEF Search, noteChoice, NoteIInv, NotesCurrent
  <1>7. CASE Load
    <2>1. (FiltersCurrent /\ HeadingsCurrent)'
      BY <1>7 DEF Load, FiltersCurrent, HeadingsCurrent
    <2>2. SelectionShown' /\ list' = unread /\ unread' = unread
      BY <1>7, NoteListed DEF Load, SelectionShown
    <2>3. \A i \in NoteUnder' : ~noteRequests'[i].here
      BY <1>7, NoteLeft
    <2>4. noteOvertaken' = (NoteUnder' # {})
      BY <1>7 DEF Load, NoteUnder
    <2>5. \A i \in NoteUnder' : noteRequests'[i].pc = "sent"
      BY <1>7, NoteLeft
    <2>6. (ListCurrent /\ NoteHere /\ NoteMine /\ NoteSeen /\ NoteComes)'
      BY <2>2, <2>3, <2>4, <2>5 DEF ListCurrent, NoteHere, NoteMine, NoteSeen, NoteComes
    <2> QED
      BY <2>1, <2>2, <2>6 DEF NoteIInv, NotesCurrent
  <1>8. ASSUME Counted,
               UNCHANGED <<panel, list, unread, noteRequests, noteFailures, noteOvertaken, unsure>>
        PROVE  NoteIInv'
    <2>1. SelectionShown' /\ NoteUnder' = NoteUnder
      BY <1>8 DEF Counted, SelectionShown, NoteUnder
    <2>2. (ListCurrent /\ NoteHere /\ NoteMine /\ NoteSeen /\ NoteComes)'
      BY <1>8, <2>1 DEF NoteIInv, NotesCurrent, ListCurrent, NoteHere, NoteMine, NoteSeen, NoteComes
    <2> QED
      BY <1>8, <2>1, <2>2, NotePanelKept DEF NoteIInv, NotesCurrent
  <1>9. ASSUME NEW n \in NoteIds, Select(n) PROVE NoteIInv'
    BY <1>8, <1>9 DEF Select
  <1>10. CASE SelectAll
    BY <1>8, <1>10 DEF SelectAll
  <1>11. CASE MarkSelected
    <2>1. checked \in SUBSET NoteIds
      BY DEF NoteTypeOK
    <2> QED
      BY <1>11, <2>1, NoteSendSafe DEF MarkSelected
  <1>12. ASSUME NEW ns, MarkRead(ns) PROVE NoteIInv'
    <2>1. ns \in SUBSET NoteIds
      BY <1>12 DEF MarkRead, NoteTypeOK
    <2> QED
      BY <1>12, <2>1, NoteSendSafe DEF MarkRead
  <1>13. ASSUME NEW i \in NoteUnder, NoteHandle(i) PROVE NoteIInv'
    <2>1. /\ NoteUnder' = NoteUnder
          /\ \A j \in NoteUnder : j # i => noteRequests'[j] = noteRequests[j]
          /\ noteRequests'[i].of = noteRequests[i].of /\ noteRequests'[i].here = noteRequests[i].here
          /\ noteRequests'[i].unread = unread'
      BY <1>13, NoteHandled
    <2>2. UNCHANGED <<panel, list, checked, all, label, button, noteOvertaken, unsure>>
      BY <1>13 DEF NoteHandle, noteChoice
    <2>3. NoteHere' /\ NoteMine'
      BY <2>1, <2>2 DEF NoteIInv, NoteHere, NoteMine
    <2>6. unread' \subseteq unread
      BY <1>13 DEF NoteHandle
    <2>4. NoteSeen' /\ NoteComes'
      BY <2>1, <2>2, <2>6 DEF NoteIInv, NoteSeen, NoteComes
    <2>5. ListCurrent' /\ SelectionShown'
      BY <2>1, <2>2 DEF NoteIInv, NotesCurrent, ListCurrent, SelectionShown
    <2> QED
      BY <2>2, <2>3, <2>4, <2>5, NotePanelKept DEF NoteIInv, NotesCurrent
  <1>14. ASSUME NEW i \in NoteUnder, NoteAnswered(i) PROVE NoteIInv'
    <2>1. NoteUnder' = NoteUnder \ {i} /\ \A j \in NoteUnder' : noteRequests'[j] = noteRequests[j]
      BY <1>14, NoteGone DEF NoteAnswered
    <2>2. (FiltersCurrent /\ HeadingsCurrent)'
      BY <1>14 DEF NoteAnswered, FiltersCurrent, HeadingsCurrent
    <2>3. SelectionShown' /\ list' = noteRequests[i].unread
      BY <1>14, NoteListed DEF NoteAnswered, SelectionShown
    <2>4. /\ unread' = unread /\ noteRequests[i].pc = "answered"
          /\ noteOvertaken' = (noteOvertaken \/ ~(noteRequests[i].unread \subseteq list))
      BY <1>14 DEF NoteAnswered
    <2>6. NoteHere'
      BY <1>14 DEF NoteAnswered, NoteHere, NoteUnder
    <2>7. NoteMine' /\ NoteSeen'
      BY <2>1, <2>4 DEF NoteIInv, NoteMine, NoteSeen
    <2>8. ASSUME ~noteOvertaken'
          PROVE  \/ list' = unread
                 \/ \E j \in NoteUnder' : noteRequests'[j].pc = "sent" \/ noteRequests'[j].unread = unread
      <3>1. unread \subseteq noteRequests[i].unread /\ noteRequests[i].unread \subseteq list
        BY <2>4, <2>8 DEF NoteIInv, NoteSeen
      <3>2. CASE list = unread
        BY <3>1, <3>2, <2>3
      <3>3. CASE \E j \in NoteUnder : noteRequests[j].pc = "sent" \/ noteRequests[j].unread = unread
        BY <3>3, <2>1, <2>3, <2>4
      <3> QED
        BY <3>2, <3>3, <2>4, <2>8 DEF NoteIInv, NoteComes
    <2>9. NoteComes'
      BY <2>4, <2>8 DEF NoteComes
    <2>5. ListCurrent'
      BY <2>4, <2>8 DEF ListCurrent
    <2> QED
      BY <2>2, <2>3, <2>5, <2>6, <2>7, <2>9 DEF NoteIInv, NotesCurrent
  <1>15. ASSUME NEW i \in NoteUnder, Fails(i) PROVE NoteIInv'
    <2>1. NoteUnder' = NoteUnder \ {i} /\ \A j \in NoteUnder' : noteRequests'[j] = noteRequests[j]
      BY <1>15, NoteGone DEF Fails
    <2>2. UNCHANGED <<panel, list, checked, label, unread, unsure>> /\ noteOvertaken' = TRUE
      BY <1>15 DEF Fails
    <2>3. noteRequests[i].of = "form" => unsure
      BY <1>15 DEF Fails, NoteIInv, NoteHere
    <2>4. unsure \/ button' = button
      BY <1>15, <2>3 DEF Fails, NoteTypeOK
    <2>5. SelectionShown'
      BY <2>2, <2>4 DEF NoteIInv, NotesCurrent, SelectionShown
    <2>6. NoteHere'
      BY <2>1, <2>2 DEF NoteIInv, NoteHere
    <2>7. NoteSeen'
      BY <2>1, <2>2 DEF NoteIInv, NoteSeen
    <2> QED
      BY <2>2, <2>5, <2>6, <2>7, NotePanelKept DEF NoteIInv, NotesCurrent, ListCurrent, NoteMine, NoteComes
  <1>16. ASSUME NEW i \in NoteUnder, Dropped(i) PROVE NoteIInv'
    <2>1. NoteUnder' = NoteUnder \ {i} /\ \A j \in NoteUnder' : noteRequests'[j] = noteRequests[j]
      BY <1>16, NoteGone DEF Dropped
    <2>2. UNCHANGED <<panel, list, checked, label, button, unread, unsure, noteOvertaken>>
      BY <1>16 DEF Dropped, noteChoice
    <2>3. noteOvertaken
      BY <1>16 DEF Dropped, NoteIInv, NoteMine
    <2>4. SelectionShown' /\ NoteHere' /\ NoteSeen'
      BY <2>1, <2>2 DEF NoteIInv, NotesCurrent, SelectionShown, NoteHere, NoteSeen
    <2> QED
      BY <2>2, <2>3, <2>4, NotePanelKept DEF NoteIInv, NotesCurrent, ListCurrent, NoteMine, NoteComes
  <1>17. CASE UNCHANGED noteVars
    BY <1>17, NotePanelKept, NoteListKept DEF noteVars, noteChoice, NoteIInv, NotesCurrent
  <1> QED
    BY <1>1, <1>2, <1>3, <1>4, <1>5, <1>6, <1>7, <1>9, <1>10, <1>11, <1>12, <1>13, <1>14, <1>15,
       <1>16, <1>17 DEF NoteNext

\* Panel, headings, selection and list agree with each other and with the
\* server, for any notifications and any number of updates side by side: unless a
\* date that is none cancelled the filters, and the list unless an answer brought
\* back what a later update had taken off, or an update was lost or outlived its
\* page (content-selector-filters.js:1-45, notification.js:10-26,
\* notifications_controller.rb:44-52).
THEOREM NotesAreCurrent == NoteSpec => []NotesCurrent
  <1>1. NoteIInv => NotesCurrent
    BY DEF NoteIInv
  <1> QED
    BY <1>1, NoteTypeCorrect, NoteSafeInit, NoteSafeNext, PTL DEF NoteSpec

-----------------------------------------------------------------------------
(* The window of the browser that shows one of the pages: whatever is shown *)
(* and done in it, each page behaves as its own module says.               *)

\* A step of the window is a step of each page, or leaves it alone.
LEMMA WindowPolls == [Next]_vars => [LogNext]_logVars /\ [PanelNext]_panelVars /\ [NoteNext]_noteVars
  BY DEF Next, vars

\* The window implements the log, the panels and the notifications.
LEMMA WindowIsPolls == Spec => LogSpec /\ PanelSpec /\ NoteSpec
  <1>1. Init => LogInit /\ PanelInit /\ NoteInit
    BY DEF Init
  <1> QED
    BY <1>1, WindowPolls, PTL DEF Spec, LogSpec, PanelSpec, NoteSpec

\* In a window that shows any of the pages, every variable keeps its type.
THEOREM PollsTypesCorrect == Spec => []TypesOK
  <1>1. LogTypeOK /\ PanelTypeOK /\ NoteTypeOK => TypesOK
    BY DEF TypesOK
  <1> QED
    BY <1>1, WindowIsPolls, TypeCorrect, PanelTypeCorrect, NoteTypeCorrect, PTL
===============================================================================
