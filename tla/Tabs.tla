--------------------------------- MODULE Tabs ---------------------------------
(***************************************************************************)
(* The tabs of a page.  tabs.js moves the links that do not fit into a     *)
(* dropdown and back, when the page is loaded and whenever the window      *)
(* changes; nav_tabs.js, which runs after it, shows the tab the hash of    *)
(* the url names, and puts the tab that is shown into the hash, into the   *)
(* url of a button and into links to the page itself.  A hash is a tab,    *)
(* the empty hash of the first one, or several joined, which names none.   *)
(***************************************************************************)
EXTENDS Integers, Sequences, FiniteSets

CONSTANTS
  Order,    \* the tabs in their order, a sequence
  NoTab,
  Rooms,    \* how many elements fit into the list of tabs
  HasLinks  \* BOOLEAN: the page has links to itself (.activity-link)

Tabs == {Order[i] : i \in 1..Len(Order)}

ASSUME TabsAssumption ==
  /\ Order \in Seq(Tabs) /\ Order # <<>> /\ NoTab \notin Tabs /\ "" \notin Tabs
  /\ \A i, j \in 1..Len(Order) : Order[i] = Order[j] => i = j
  /\ Rooms \subseteq Nat /\ HasLinks \in BOOLEAN

VARIABLES
  slots,      \* the link in each element of the list
  menu,       \* the links in the dropdown
  dropdown,   \* BOOLEAN: it is shown
  navLinks,   \* the links with the class nav-link, not dropdown-item
  tabShown,   \* the tab whose pane is shown
  bound,      \* the links with a handler of shown.bs.tab
  hash,
  tabButton,  \* the hash in the action of the button
  tabLink,    \* the hash in the links
  wentBack    \* history: the user went back to an earlier hash

tabList == <<slots, menu, dropdown, navLinks>>
tabVars == <<slots, menu, dropdown, navLinks, tabShown, bound, hash, tabButton, tabLink,
             wentBack>>

-----------------------------------------------------------------------------
Hashes == Tabs \cup {"", "joined"}
Number == Len(Order)
Joined(a, b) == IF a = "" THEN b ELSE IF b = "" THEN a ELSE "joined"
TabOf(h) == IF h = "" THEN Order[1] ELSE h

-----------------------------------------------------------------------------
(* tabs.js; l is a list: its slots, its menu, its nav-links.                *)

TabBar == [slots: [1..Number -> Tabs \cup {NoTab}], menu: Seq(Tabs), nav: SUBSET Tabs]

TabFilled(l) == {i \in 1..Number : l.slots[i] # NoTab}
Free(l)   == (1..Number) \ TabFilled(l)
LastOf(S)  == CHOOSE i \in S : \A j \in S : j <= i
FirstOf(S) == CHOOSE i \in S : \A j \in S : i <= j

\* hasOverflow: the dropdown takes a place as well
Overflow(l, room, drop) == Cardinality(TabFilled(l)) + (IF drop THEN 1 ELSE 0) > room

Toggled(S, t) == IF t \in S THEN S \ {t} ELSE S \cup {t}

\* Mutant: the link is appended to the dropdown.
ShrinkAppends(l) ==
  LET i == LastOf(TabFilled(l)) IN
  [slots |-> [l.slots EXCEPT ![i] = NoTab], menu |-> Append(l.menu, l.slots[i]),
   nav |-> Toggled(l.nav, l.slots[i])]

\* resizeTabs(true): the last link is prepended to the dropdown
Shrink(l) ==
  LET i == LastOf(TabFilled(l)) IN
  [slots |-> [l.slots EXCEPT ![i] = NoTab], menu |-> <<l.slots[i]>> \o l.menu,
   nav |-> Toggled(l.nav, l.slots[i])]

\* resizeTabs(false): the first link of the dropdown goes to the first empty element
Grow(l) ==
  LET i == FirstOf(Free(l)) IN
  [slots |-> [l.slots EXCEPT ![i] = Head(l.menu)], menu |-> Tail(l.menu),
   nav |-> Toggled(l.nav, Head(l.menu))]

ShrinkAll(l, room, drop) ==
  LET after[n \in 0..Number] ==
        IF n = 0 THEN l
        ELSE LET b == after[n - 1] IN
             IF Overflow(b, room, drop) /\ TabFilled(b) # {} THEN Shrink(b) ELSE b
  IN after[Number]

GrowAll(l, room, drop) ==
  LET after[n \in 0..Number] ==
        IF n = 0 THEN l
        ELSE LET b == after[n - 1] IN
             IF ~Overflow(b, room, drop) /\ b.menu # <<>> THEN Grow(b) ELSE b
  IN after[Number]

\* refreshTabs
Refresh(l, room, drop) ==
  IF Overflow(l, room, drop) THEN ShrinkAll(l, room, drop)
  ELSE ShrinkAll(GrowAll(l, room, drop), room, drop)

\* the dropdown is shown if it has links, after the rest was measured
Refreshed(l, room, drop) ==
  LET r == Refresh(l, room, drop) IN
  /\ slots' = r.slots /\ menu' = r.menu /\ navLinks' = r.nav /\ dropdown' = (r.menu # <<>>)

-----------------------------------------------------------------------------
\* the page with hash h: the list is refreshed, then a tab is shown, if its link
\* is in the list, and handlers are bound to the links in the list
Ready(h, room) ==
  LET r == Refresh([slots |-> Order, menu |-> <<>>, nav |-> Tabs], room, TRUE)
      t == TabOf(h)
  IN
  [slots |-> r.slots, menu |-> r.menu, nav |-> r.nav, drop |-> r.menu # <<>>,
   shown |-> IF t \in r.nav THEN t ELSE NoTab]

TabInit ==
  \E h \in Tabs \cup {""}, room \in Rooms :
    LET p == Ready(h, room) IN
    /\ slots = p.slots /\ menu = p.menu /\ dropdown = p.drop /\ navLinks = p.nav
    /\ tabShown = p.shown /\ bound = p.nav
    /\ hash = h /\ tabButton = h /\ tabLink = h /\ wentBack = FALSE

\* the links are rendered without a hash
TabLoad(h, room) ==
  LET p == Ready(h, room) IN
  /\ slots' = p.slots /\ menu' = p.menu /\ dropdown' = p.drop /\ navLinks' = p.nav
  /\ tabShown' = p.shown /\ bound' = p.nav
  /\ hash' = h /\ tabButton' = h /\ tabLink' = h /\ wentBack' = FALSE

TabReload == \E room \in Rooms : TabLoad(hash, room)

FollowLink == HasLinks /\ \E room \in Rooms : TabLoad(tabLink, room)

Resize(room) ==
  /\ Refreshed([slots |-> slots, menu |-> menu, nav |-> navLinks], room, dropdown)
  /\ UNCHANGED <<tabShown, bound, hash, tabButton, tabLink, wentBack>>

\* replaceURLActionHash: the hash of the button is replaced, that of the links extended
ReplaceURLActionHash(h) ==
  /\ tabButton' = h
  /\ tabLink' = Joined(tabLink, h)

\* shown.bs.tab; the first tab has no hash
TabClick(t) ==
  /\ t # tabShown /\ tabShown' = t
  /\ IF t \notin bound THEN UNCHANGED <<hash, tabButton, tabLink>>
     ELSE /\ hash' = IF slots[1] = t THEN "" ELSE t
          /\ ReplaceURLActionHash(hash')
  /\ wentBack' = (wentBack /\ t \notin bound)
  /\ UNCHANGED <<tabList, bound>>

\* the browser sets the hash, no handler looks at it
Back(h) ==
  /\ h # hash /\ hash' = h /\ wentBack' = TRUE
  /\ UNCHANGED <<tabList, tabShown, bound, tabButton, tabLink>>

TabNext ==
  \/ \E room \in Rooms : Resize(room)
  \/ \E t \in Tabs : TabClick(t)
  \/ \E h \in Tabs \cup {""} : Back(h)
  \/ TabReload \/ FollowLink

TabSpec == TabInit /\ [][TabNext]_tabVars

-----------------------------------------------------------------------------
(* Properties.                                                              *)

\* The type invariant of the list and the hashes.
TabTypeOK ==
  /\ [slots |-> slots, menu |-> menu, nav |-> navLinks] \in TabBar
  /\ dropdown \in BOOLEAN /\ tabShown \in Tabs \cup {NoTab} /\ bound \subseteq Tabs
  /\ hash \in Hashes /\ tabButton \in Hashes /\ tabLink \in Hashes /\ wentBack \in BOOLEAN

\* The tabs keep their order, those in the dropdown follow those in the list,
\* and none is lost, however often the window is resized.
InOrder ==
  LET n == Cardinality({i \in 1..Number : slots[i] # NoTab}) IN
  /\ \A i \in 1..Number : slots[i] # NoTab <=> i <= n
  /\ SubSeq(slots, 1, n) \o menu = Order

\* A link looks like a tab in the list and like an item in the dropdown; its
\* classes are only ever toggled (tabs.js:6).
ClassesFit == navLinks = {slots[i] : i \in 1..Number} \ {NoTab}

\* The list fits into a window that was resized, if any tab does and the
\* dropdown was shown before (tabs.js:22, "Grow is triggered when it shouldn't
\* sometimes (this fixes it...)").
FitsAfterResize ==
  [][\A room \in Rooms \ {0} :
       dropdown /\ Resize(room)
       => Cardinality({i \in 1..Number : slots'[i] # NoTab}) + (IF dropdown' THEN 1 ELSE 0) <= room]_tabVars

\* "Show tab-pane comming from the url hash.  If the url hash is empty, show first
\* tab-pane" (nav_tabs.js:6), and the hash follows the tab that is shown.
ShowsHash == ~wentBack => tabShown = TabOf(hash)

\* If all tabs fit into the list when the page was loaded, the hash follows the
\* tab that is shown, and the button leads back to it (nav_tabs.js:31-35), however
\* the window is resized, until the browser goes back.
HashFollows ==
  bound = Tabs /\ tabShown # NoTab /\ ~wentBack => TabOf(hash) = tabShown /\ tabButton = hash

\* Tabs are neither lost nor confused.
TabsAgree == InOrder /\ ClassesFit /\ HashFollows
===============================================================================
