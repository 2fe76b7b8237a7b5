------------------------------- MODULE Patchinfo ------------------------------
(***************************************************************************)
(* The form to edit a patchinfo (patchinfo.js): issues are looked up at    *)
(* the server before they are listed, binaries move between two lists.     *)
(* An issue is not asked for if it is listed; what is on its way is not    *)
(* looked at, and neither is the list when the answer comes (the check     *)
(* looks for "li" elements, and the page has none).                        *)
(***************************************************************************)
EXTENDS Integers, Sequences, FiniteSets, SequencesExt

CONSTANTS
  Issues,
  PatchValid,  \* issues of a known tracker, with the right format
  Binaries,
  MaxAdds,     \* bound on the requests under way
  MaxListed    \* bound on the issues listed, with those on their way

ASSUME PatchinfoAssumption ==
  IsFiniteSet(Issues) /\ PatchValid \subseteq Issues /\ MaxAdds \in Nat /\ MaxListed \in Nat

VARIABLES
  typed,              \* the issues in the input
  listed,             \* the issues in the list
  adds,               \* of an identity under way, the issues asked for
  patchSpinning,      \* BOOLEAN
  error,              \* BOOLEAN: the message is shown
  available, chosen,  \* the two lists of binaries
  marked,             \* the options that are selected in them
  patchStored,        \* the issues and the binaries saved last
  patchTwice,         \* history: issues asked for again before the first answer
  patchAsked          \* history: issues asked for, and neither deleted nor in vain

issues   == <<typed, listed, adds, patchSpinning, error, patchTwice, patchAsked>>
binaries == <<available, chosen, marked>>
patchVars     == <<issues, binaries, patchStored>>

-----------------------------------------------------------------------------
PatchUnder == UNION {adds[i] : i \in DOMAIN adds}

PatchInit ==
  /\ typed = {} /\ listed = <<>> /\ adds = [i \in {} |-> {}] /\ patchSpinning = FALSE
  /\ error = FALSE
  /\ chosen \in SUBSET Binaries /\ available = Binaries \ chosen /\ marked = {}
  /\ patchStored = [issues |-> <<>>, binaries |-> chosen] /\ patchTwice = {} /\ patchAsked = {}

PatchType(is) ==
  /\ typed' = is
  /\ UNCHANGED <<listed, adds, patchSpinning, error, patchTwice, patchAsked, binaries,
                 patchStored>>

\* ajax:before: those of the issues that are not listed
Ask == typed \ ToSet(listed)

\* nothing to ask for
AddNothing ==
  /\ typed # {} /\ Ask = {} /\ typed' = {}
  /\ UNCHANGED <<listed, adds, patchSpinning, error, patchTwice, patchAsked, binaries,
                 patchStored>>

AddIssues ==
  /\ Ask # {} /\ Len(listed) + Cardinality(PatchUnder) + Cardinality(Ask) <= MaxListed
  /\ \E i \in (1..MaxAdds) \ DOMAIN adds :
       adds' = [j \in DOMAIN adds \cup {i} |-> IF j = i THEN Ask ELSE adds[j]]
  /\ patchSpinning' = TRUE
  /\ patchTwice' = patchTwice \cup (Ask \cap PatchUnder) /\ patchAsked' = patchAsked \cup Ask
  /\ UNCHANGED <<typed, listed, error, binaries, patchStored>>

PatchWithout(i) == [j \in DOMAIN adds \ {i} |-> adds[j]]

\* Mutant: the answer is taken for the list.
AddedReplaces(i) ==
  /\ adds[i] \subseteq PatchValid /\ error' = FALSE
  /\ \E new \in SetToSeqs(adds[i]) : listed' = new
  /\ adds' = PatchWithout(i) /\ patchSpinning' = FALSE /\ typed' = {}
  /\ UNCHANGED <<patchTwice, patchAsked, binaries, patchStored>>

\* ajax:success and ajax:complete, which clears the input
Added(i) ==
  /\ adds[i] \subseteq PatchValid /\ error' = FALSE
  /\ \E new \in SetToSeqs(adds[i]) : listed' = listed \o new
  /\ adds' = PatchWithout(i) /\ patchSpinning' = FALSE /\ typed' = {}
  /\ UNCHANGED <<patchTwice, patchAsked, binaries, patchStored>>

\* one issue the server does not take, or the request fails: none is listed
Failed(i) ==
  /\ error' \in {error, error \/ ~(adds[i] \subseteq PatchValid)}
  /\ adds' = PatchWithout(i) /\ patchSpinning' = FALSE /\ typed' = {}
  /\ patchAsked' = patchAsked \ {x \in adds[i] : /\ x \notin ToSet(listed)
                                                 /\ \A j \in DOMAIN adds' : x \notin adds[j]}
  /\ UNCHANGED <<listed, patchTwice, binaries, patchStored>>

DeleteIssue(k) ==
  /\ listed' = RemoveAt(listed, k)
  /\ patchAsked' = IF listed[k] \in ToSet(listed') THEN patchAsked ELSE patchAsked \ {listed[k]}
  /\ UNCHANGED <<typed, adds, patchSpinning, error, patchTwice, binaries, patchStored>>

-----------------------------------------------------------------------------
Mark(b) ==
  /\ marked' = IF b \in marked THEN marked \ {b} ELSE marked \cup {b}
  /\ UNCHANGED <<issues, available, chosen, patchStored>>

\* moveBinaries; the options stay selected
Move(from, bs) ==
  IF from = "available" THEN available' = available \ bs /\ chosen' = chosen \cup bs
                        ELSE chosen' = chosen \ bs /\ available' = available \cup bs

\* the buttons > and <
MoveMarked(from) ==
  /\ Move(from, marked \cap IF from = "available" THEN available ELSE chosen)
  /\ UNCHANGED <<issues, marked, patchStored>>

\* the buttons >> and <<
MoveAll(from) ==
  /\ LET all == IF from = "available" THEN available ELSE chosen
     IN Move(from, all) /\ marked' = marked \cup all
  /\ UNCHANGED <<issues, patchStored>>

\* submit selects every option first; what is on its way is lost with the page
PatchSave ==
  /\ patchStored' = [issues |-> listed, binaries |-> chosen]
  /\ patchAsked' = ToSet(listed)
  /\ typed' = {} /\ adds' = [i \in {} |-> {}] /\ patchSpinning' = FALSE /\ error' = FALSE
  /\ marked' = {}
  /\ UNCHANGED <<listed, patchTwice, available, chosen>>

PatchNext ==
  \/ \E is \in SUBSET Issues : PatchType(is)
  \/ AddNothing \/ AddIssues \/ PatchSave
  \/ \E i \in DOMAIN adds : Added(i) \/ Failed(i)
  \/ \E k \in 1..Len(listed) : DeleteIssue(k)
  \/ \E b \in Binaries : Mark(b)
  \/ \E from \in {"available", "chosen"} : MoveMarked(from) \/ MoveAll(from)

PatchSpec == PatchInit /\ [][PatchNext]_patchVars

-----------------------------------------------------------------------------
(* Properties.                                                              *)

\* The type invariant of the form.
PatchTypeOK ==
  /\ typed \subseteq Issues /\ listed \in Seq(PatchValid) /\ DOMAIN adds \subseteq 1..MaxAdds
  /\ \A i \in DOMAIN adds : adds[i] \subseteq Issues
  /\ patchSpinning \in BOOLEAN /\ error \in BOOLEAN /\ marked \subseteq Binaries
  /\ available \subseteq Binaries /\ chosen \subseteq Binaries
  /\ patchStored \in [issues: Seq(PatchValid), binaries: SUBSET Binaries]
  /\ patchTwice \subseteq Issues /\ patchAsked \subseteq Issues

\* An issue is listed once, however often it is typed, unless it was asked for
\* again before the first answer (patchinfo.js:21-37).
PatchListedOnceUnlessTwice ==
  \A j, k \in 1..Len(listed) : listed[j] = listed[k] /\ j # k => listed[j] \in patchTwice

\* An issue that was asked for is listed or on its way until it is deleted or
\* the server refused it, whatever other answers come in between.
AskedAreListed == patchAsked \subseteq ToSet(listed) \cup PatchUnder

\* Every binary is in one of the two lists, after any sequence of moves
\* (patchinfo.js:141).
BinariesParted == available \cup chosen = Binaries /\ available \cap chosen = {}

\* "Without this, selected binaries are always reset" (patchinfo.js:117): a save
\* stores all binaries of the list, not those an option is selected of.
SavesTheList == [][patchStored' # patchStored => patchStored'.binaries = chosen]_patchVars

\* Neither issues nor binaries are lost or listed twice.
PatchKept == AskedAreListed /\ PatchListedOnceUnlessTwice /\ BinariesParted
===============================================================================
