----------------------------- MODULE TablesProofs -----------------------------
(***************************************************************************)
(* Theorems about the pages with lists and tables: that every variable     *)
(* keeps its type, and that what a page shows agrees with what the server  *)
(* answered or holds; in a section per page, and then for the window that  *)
(* shows any.                                                              *)
(*                                                                         *)
(* A row or cell that was touched once at a time has one request at most,  *)
(* and what that request will find or has found ties the page to the       *)
(* server (RoleTied, FlagTied).                                            *)
(***************************************************************************)
EXTENDS MCTables, DataLemmas

-----------------------------------------------------------------------------
(* Monitor of workers.  The badges count, and the bars show, what the       *)
(* answer shown last says of the workers the page has (MonitorCounted,      *)
(* MonitorBarred); a worker is in one of five states, so the counts add up. *)

MonitorCounted == \A a \in last : badge = [h \in Hosts |-> [s \in States |-> Count(a, h, s)]]
MonitorBarred  ==
  \A a \in last, w \in monitorPage :
    w \in DOMAIN a => bar[w] = IF a[w] \in Jobs THEN a[w] ELSE NoBar
MonitorIInv == MonitorCounted /\ MonitorBarred /\ LinkedToItsJob

\* What the server answered.
LEMMA MonitorSnapshot ==
  ASSUME NEW a \in Snapshots
  PROVE  DOMAIN a \subseteq Workers /\ a \in [DOMAIN a -> Jobs \cup States]
  BY DEF Snapshots

\* A badge counts some of the workers.
LEMMA MonitorCountType ==
  ASSUME NEW a \in Snapshots, NEW h, NEW s
  PROVE  Count(a, h, s) \in 0..Cardinality(Workers)
  <1> DEFINE S == {w \in DOMAIN a \cap monitorPage : Host[w] = h /\ a[w] = s}
  <1>1. S \subseteq Workers
    BY MonitorSnapshot
  <1>2. IsFiniteSet(Workers) /\ Cardinality(Workers) \in Nat
    BY MonitorAssumption, FS_CardinalityType
  <1>3. Cardinality(S) \in Nat /\ Cardinality(S) <= Cardinality(Workers)
    <2> HIDE DEF S
    <2> QED
      BY <1>1, <1>2, FS_Subset, FS_CardinalityType
  <1> QED
    BY <1>2, <1>3 DEF Count

\* A worker builds, idles, comes or goes.
LEMMA MonitorChanged ==
  ASSUME MonitorTypeOK, Change
  PROVE  monitorServer' \in Snapshots
  <1>1. DOMAIN monitorServer \subseteq Workers /\ monitorServer \in [DOMAIN monitorServer -> Jobs \cup States]
    BY MonitorSnapshot DEF MonitorTypeOK
  <1>2. PICK w \in Workers :
          \/ \E s \in Jobs \cup States :
               monitorServer' = [v \in DOMAIN monitorServer \cup {w} |-> IF v = w THEN s ELSE monitorServer[v]]
          \/ monitorServer' = [v \in DOMAIN monitorServer \ {w} |-> monitorServer[v]]
    BY DEF Change
  <1>3. ASSUME NEW s \in Jobs \cup States,
               monitorServer' = [v \in DOMAIN monitorServer \cup {w} |-> IF v = w THEN s ELSE monitorServer[v]]
        PROVE  monitorServer' \in Snapshots
    <2>1. /\ DOMAIN monitorServer \cup {w} \in SUBSET Workers
          /\ monitorServer' \in [DOMAIN monitorServer \cup {w} -> Jobs \cup States]
      BY <1>1, <1>3
    <2> QED
      BY <2>1 DEF Snapshots
  <1>4. ASSUME monitorServer' = [v \in DOMAIN monitorServer \ {w} |-> monitorServer[v]]
        PROVE  monitorServer' \in Snapshots
    <2>1. /\ DOMAIN monitorServer \ {w} \in SUBSET Workers
          /\ monitorServer' \in [DOMAIN monitorServer \ {w} -> Jobs \cup States]
      BY <1>1, <1>4
    <2> QED
      BY <2>1 DEF Snapshots
  <1> QED
    BY <1>2, <1>3, <1>4

-----------------------------------------------------------------------------
\* The page is loaded with its types right.
LEMMA MonitorTypeInit == MonitorInit => MonitorTypeOK
  <1> SUFFICES ASSUME MonitorInit PROVE MonitorTypeOK
    OBVIOUS
  <1>1. monitorServer \in Snapshots
    <2>1. PICK ws \in SUBSET Workers, s \in Jobs \cup States : monitorServer = [w \in ws |-> s]
      BY DEF MonitorInit
    <2>2. monitorServer \in [ws -> Jobs \cup States]
      BY <2>1
    <2> QED
      BY <2>2 DEF Snapshots
  <1>2. monitorPage = DOMAIN monitorServer /\ DOMAIN monitorServer \subseteq Workers
    BY <1>1, MonitorSnapshot DEF MonitorInit
  <1>3. bar \in [monitorPage -> Jobs \cup {NoBar}] /\ monitorLink = bar
    BY DEF MonitorInit
  <1>4. badge \in [Hosts -> [States -> 0..Cardinality(Workers)]]
    BY <1>1, MonitorCountType DEF MonitorInit
  <1>5. last = {} /\ changes = 0 /\ updates = [i \in {1} |-> {}]
    BY DEF MonitorInit
  <1>6. DOMAIN updates \subseteq 1..MaxUpdates /\ changes \in 0..MaxMonitorChanges
    BY <1>5, MonitorAssumption
  <1> QED
    BY <1>1, <1>2, <1>3, <1>4, <1>5, <1>6 DEF MonitorTypeOK

\* An answer shows its bars, links and badges.
LEMMA MonitorShown ==
  ASSUME MonitorTypeOK, NEW i \in DOMAIN updates, NEW a \in updates[i],
         bar' = [w \in monitorPage |-> MonitorBar(a, w)],
         monitorLink' = [w \in monitorPage |-> IF w \in Busy(a) THEN Link(w, a[w]) ELSE monitorLink[w]],
         badge' = [h \in Hosts |-> [s \in States |-> Count(a, h, s)]]
  PROVE  /\ a \in Snapshots
         /\ bar' \in [monitorPage -> Jobs \cup {NoBar}]
         /\ monitorLink' \in [monitorPage -> Jobs \cup {NoBar}]
         /\ badge' \in [Hosts -> [States -> 0..Cardinality(Workers)]]
  <1>1. a \in Snapshots
    BY DEF MonitorTypeOK
  <1>2. ASSUME NEW w \in monitorPage
        PROVE  /\ MonitorBar(a, w) \in Jobs \cup {NoBar}
               /\ (IF w \in Busy(a) THEN Link(w, a[w]) ELSE monitorLink[w]) \in Jobs \cup {NoBar}
    BY DEF MonitorTypeOK, MonitorBar, Busy, Link
  <1>3. badge' \in [Hosts -> [States -> 0..Cardinality(Workers)]]
    BY <1>1, MonitorCountType
  <1> QED
    BY <1>1, <1>2, <1>3

\* A step keeps the types.
LEMMA MonitorTypeNext == MonitorTypeOK /\ [MonitorNext]_monitorVars => MonitorTypeOK'
  <1> SUFFICES ASSUME MonitorTypeOK, [MonitorNext]_monitorVars PROVE MonitorTypeOK'
    OBVIOUS
  <1>1. CASE Change
    <2>1. changes' \in 0..MaxMonitorChanges
      BY <1>1, MonitorAssumption DEF Change, MonitorTypeOK
    <2> QED
      BY <1>1, <2>1, MonitorChanged DEF Change, MonitorTypeOK
  <1>2. CASE MonitorUpdate
    BY <1>2 DEF MonitorUpdate, MonitorTypeOK
  <1>3. ASSUME NEW i \in DOMAIN updates, MonitorHandle(i) PROVE MonitorTypeOK'
    BY <1>3 DEF MonitorHandle, MonitorTypeOK
  <1>4. ASSUME NEW i \in DOMAIN updates, Answer(i) PROVE MonitorTypeOK'
    <2>1. PICK a \in updates[i] :
            /\ bar' = [w \in monitorPage |-> MonitorBar(a, w)]
            /\ monitorLink' = [w \in monitorPage |-> IF w \in Busy(a) THEN Link(w, a[w]) ELSE monitorLink[w]]
            /\ badge' = [h \in Hosts |-> [s \in States |-> Count(a, h, s)]]
            /\ last' = {a}
            /\ updates' = [j \in DOMAIN updates \ {i} |-> updates[j]]
            /\ UNCHANGED <<monitorServer, changes, monitorPage>>
      BY <1>4 DEF Answer
    <2>2. /\ a \in Snapshots
          /\ bar' \in [monitorPage -> Jobs \cup {NoBar}]
          /\ monitorLink' \in [monitorPage -> Jobs \cup {NoBar}]
          /\ badge' \in [Hosts -> [States -> 0..Cardinality(Workers)]]
      BY <2>1, MonitorShown
    <2>3. DOMAIN updates' \subseteq 1..MaxUpdates /\ \A j \in DOMAIN updates' : updates'[j] \subseteq Snapshots
      BY <2>1 DEF MonitorTypeOK
    <2> QED
      BY <2>1, <2>2, <2>3 DEF MonitorTypeOK
  <1>5. ASSUME NEW i \in DOMAIN updates, MonitorFail(i) PROVE MonitorTypeOK'
    BY <1>5 DEF MonitorFail, MonitorTypeOK
  <1>6. CASE UNCHANGED monitorVars
    BY <1>6 DEF monitorVars, MonitorTypeOK
  <1> QED
    BY <1>1, <1>2, <1>3, <1>4, <1>5, <1>6 DEF MonitorNext

\* Every variable of the monitor keeps its type, whatever workers come and go
\* and in whatever order the answers come.
THEOREM MonitorTypeCorrect == MonitorSpec => []MonitorTypeOK
  BY MonitorTypeInit, MonitorTypeNext, PTL DEF MonitorSpec

-----------------------------------------------------------------------------
\* Nothing has been answered yet, and no bar is shown.
LEMMA MonitorSafeInit == MonitorInit => MonitorIInv
  BY DEF MonitorInit, MonitorIInv, MonitorCounted, MonitorBarred, LinkedToItsJob

\* A step keeps the invariant.
LEMMA MonitorSafeNext == MonitorTypeOK /\ MonitorIInv /\ [MonitorNext]_monitorVars => MonitorIInv'
  <1> SUFFICES ASSUME MonitorTypeOK, MonitorIInv, [MonitorNext]_monitorVars PROVE MonitorIInv'
    OBVIOUS
  <1>1. ASSUME UNCHANGED <<monitorPage, bar, monitorLink, badge, last>> PROVE MonitorIInv'
    BY <1>1 DEF MonitorIInv, MonitorCounted, MonitorBarred, LinkedToItsJob, Count
  <1>2. CASE Change \/ MonitorUpdate \/ UNCHANGED monitorVars
    BY <1>1, <1>2 DEF Change, MonitorUpdate, monitorVars
  <1>3. ASSUME NEW i \in DOMAIN updates, MonitorHandle(i) \/ MonitorFail(i) PROVE MonitorIInv'
    BY <1>1, <1>3 DEF MonitorHandle, MonitorFail
  <1>4. ASSUME NEW i \in DOMAIN updates, Answer(i) PROVE MonitorIInv'
    <2>1. PICK a \in updates[i] :
            /\ bar' = [w \in monitorPage |-> MonitorBar(a, w)]
            /\ monitorLink' = [w \in monitorPage |-> IF w \in Busy(a) THEN Link(w, a[w]) ELSE monitorLink[w]]
            /\ badge' = [h \in Hosts |-> [s \in States |-> Count(a, h, s)]]
            /\ last' = {a} /\ UNCHANGED monitorPage
      BY <1>4 DEF Answer
    <2>2. MonitorCounted'
      BY <2>1 DEF MonitorCounted, Count
    <2>3. MonitorBarred'
      BY <2>1 DEF MonitorBarred, MonitorBar, Busy
    <2>4. LinkedToItsJob'
      <3> SUFFICES ASSUME NEW w \in monitorPage, bar'[w] # NoBar
                   PROVE  monitorLink'[w] = IF bar'[w] \in Secret THEN NoBar ELSE bar'[w]
        BY <2>1 DEF LinkedToItsJob
      <3>1. CASE w \notin DOMAIN a
        BY <2>1, <3>1 DEF MonitorIInv, LinkedToItsJob, MonitorBar, Busy
      <3>2. CASE w \in DOMAIN a
        BY <2>1, <3>2 DEF MonitorBar, Busy, Link
      <3> QED
        BY <3>1, <3>2
    <2> QED
      BY <2>2, <2>3, <2>4 DEF MonitorIInv
  <1> QED
    BY <1>2, <1>3, <1>4 DEF MonitorNext

\* Four disjoint sets and a fifth have as many elements as their union.
LEMMA MonitorFive ==
  ASSUME NEW A, NEW B, NEW C, NEW D, NEW E,
         IsFiniteSet(A), IsFiniteSet(B), IsFiniteSet(C), IsFiniteSet(D), IsFiniteSet(E),
         A \cap B = {}, (A \cup B) \cap C = {}, (A \cup B \cup C) \cap D = {},
         (A \cup B \cup C \cup D) \cap E = {}
  PROVE  Cardinality(A \cup B \cup C \cup D \cup E)
           = Cardinality(A) + Cardinality(B) + Cardinality(C) + Cardinality(D) + Cardinality(E)
  <1>1. ASSUME NEW S, NEW T, IsFiniteSet(S), IsFiniteSet(T), S \cap T = {}
        PROVE  /\ IsFiniteSet(S \cup T) /\ Cardinality(S \cup T) = Cardinality(S) + Cardinality(T)
               /\ Cardinality(S) \in Nat /\ Cardinality(T) \in Nat
    <2>1. IsFiniteSet(S \cup T) /\ Cardinality(S \cup T) = Cardinality(S) + Cardinality(T) - Cardinality(S \cap T)
      BY <1>1, FS_Union
    <2>2. Cardinality(S \cap T) = 0
      BY <1>1, FS_EmptySet
    <2>3. Cardinality(S) \in Nat /\ Cardinality(T) \in Nat
      BY <1>1, FS_CardinalityType
    <2> QED
      BY <2>1, <2>2, <2>3
  <1>2. IsFiniteSet(A \cup B) /\ Cardinality(A \cup B) = Cardinality(A) + Cardinality(B)
    BY <1>1
  <1>3. /\ IsFiniteSet(A \cup B \cup C)
        /\ Cardinality(A \cup B \cup C) = Cardinality(A \cup B) + Cardinality(C)
    BY <1>1, <1>2
  <1>4. /\ IsFiniteSet(A \cup B \cup C \cup D)
        /\ Cardinality(A \cup B \cup C \cup D) = Cardinality(A \cup B \cup C) + Cardinality(D)
    BY <1>1, <1>3
  <1>5. Cardinality(A \cup B \cup C \cup D \cup E) = Cardinality(A \cup B \cup C \cup D) + Cardinality(E)
    BY <1>1, <1>4
  <1> QED
    BY <1>2, <1>3, <1>4, <1>5

\* The bars and the badges of a host count each of its known workers once.
LEMMA MonitorAddsUp == MonitorTypeOK /\ MonitorIInv => ShownOnce
  <1> SUFFICES ASSUME MonitorTypeOK, MonitorIInv, NEW a \in last, NEW h \in Hosts
               PROVE  LET known == {w \in monitorPage \cap DOMAIN a : Host[w] = h}
                      IN Cardinality(known) = Cardinality({w \in known : bar[w] # NoBar})
                           + badge[h]["idle"] + badge[h]["away"] + badge[h]["dead"] + badge[h]["down"]
    BY DEF ShownOnce
  <1> DEFINE known == {w \in monitorPage \cap DOMAIN a : Host[w] = h}
             B == {w \in known : bar[w] # NoBar}
             K(s) == {w \in DOMAIN a \cap monitorPage : Host[w] = h /\ a[w] = s}
             K1 == K("idle")
             K2 == K("away")
             K3 == K("dead")
             K4 == K("down")
  <1>1. DOMAIN a \subseteq Workers /\ a \in [DOMAIN a -> Jobs \cup States]
    BY MonitorSnapshot DEF MonitorTypeOK
  <1>2. \A w \in known : bar[w] = IF a[w] \in Jobs THEN a[w] ELSE NoBar
    BY DEF MonitorIInv, MonitorBarred
  <1>3. B = {w \in known : a[w] \in Jobs}
    BY <1>2, MonitorAssumption
  <1>4. known = B \cup K1 \cup K2 \cup K3 \cup K4
    BY <1>1, <1>3 DEF States
  <1>5. /\ B \cap K1 = {} /\ (B \cup K1) \cap K2 = {} /\ (B \cup K1 \cup K2) \cap K3 = {}
        /\ (B \cup K1 \cup K2 \cup K3) \cap K4 = {}
    BY <1>3, MonitorAssumption DEF States
  <1>6. IsFiniteSet(B) /\ IsFiniteSet(K1) /\ IsFiniteSet(K2) /\ IsFiniteSet(K3) /\ IsFiniteSet(K4)
    <2>1. /\ B \subseteq Workers /\ K1 \subseteq Workers /\ K2 \subseteq Workers /\ K3 \subseteq Workers
          /\ K4 \subseteq Workers
      BY <1>1
    <2> HIDE DEF B, K1, K2, K3, K4
    <2> QED
      BY <2>1, MonitorAssumption, FS_Subset
  <1>7. /\ badge[h]["idle"] = Cardinality(K1) /\ badge[h]["away"] = Cardinality(K2)
        /\ badge[h]["dead"] = Cardinality(K3) /\ badge[h]["down"] = Cardinality(K4)
    <2>1. badge = [g \in Hosts |-> [s \in States |-> Count(a, g, s)]]
      BY DEF MonitorIInv, MonitorCounted
    <2>2. \A s \in States : badge[h][s] = Count(a, h, s)
      BY <2>1
    <2>3. {"idle", "away", "dead", "down"} \subseteq States
      BY DEF States
    <2> QED
      BY <2>2, <2>3 DEF Count
  <1> HIDE DEF known, B, K1, K2, K3, K4
  <1>8. Cardinality(B \cup K1 \cup K2 \cup K3 \cup K4)
          = Cardinality(B) + Cardinality(K1) + Cardinality(K2) + Cardinality(K3) + Cardinality(K4)
    BY <1>5, <1>6, MonitorFive
  <1>9. Cardinality(known) = Cardinality(B) + badge[h]["idle"] + badge[h]["away"] + badge[h]["dead"]
                               + badge[h]["down"]
    BY <1>4, <1>7, <1>8
  <1> QED
    BY <1>9 DEF known, B

\* A worker the server told of is shown once, by its bar or by a badge of its
\* host, and a bar links to the log of the job it shows, for any workers, hosts
\* and jobs, and whatever updates overtake each other (monitor.js:99-178).
THEOREM MonitorsAgree == MonitorSpec => []MonitorAgrees
  <1>1. MonitorTypeOK /\ MonitorIInv => MonitorAgrees
    BY MonitorAddsUp DEF MonitorIInv, MonitorAgrees
  <1> QED
    BY <1>1, MonitorTypeCorrect, MonitorSafeInit, MonitorSafeNext, PTL DEF MonitorSpec

-----------------------------------------------------------------------------
(* Repository picker.  The dropdown and the lookups fit as they are          *)
(* (OffersSelected is inductive).  A repository that is fetched again, or    *)
(* fetched and listed, was chosen twice (PickerApart); what is listed has    *)
(* architectures.                                                            *)

PickerApart ==
  \A r \in PickerProjects \X PickerNames :
    /\ fetching[r] > 1 => r \in pickerTwice
    /\ fetching[r] > 0 /\ r \in Listed(pickerList) => r \in pickerTwice
PickerBuilds == Listed(pickerList) \subseteq Buildable
PickerIInv == PickerKept /\ PickerApart /\ PickerBuilds

\* A request more, or one less.
LEMMA PickerCounts ==
  ASSUME NEW S, NEW f \in [S -> Nat], NEW x \in S
  PROVE  /\ PickerMore(f, x) \in [S -> Nat] /\ PickerMore(f, x)[x] = f[x] + 1
         /\ f[x] > 0 => PickerLess(f, x) \in [S -> Nat] /\ PickerLess(f, x)[x] = f[x] - 1
         /\ \A y \in S \ {x} : PickerMore(f, x)[y] = f[y] /\ PickerLess(f, x)[y] = f[y]
         /\ PickerUnder(f) = {y \in S : f[y] > 0}
  BY DEF PickerMore, PickerLess, PickerUnder

\* The parts of the type invariant that are about the list.
LEMMA PickerItems ==
  ASSUME PickerTypeOK
  PROVE  /\ pickerList \in Seq(Item) /\ Len(pickerList) \in Nat
         /\ \A i \in 1..Len(pickerList) : /\ pickerList[i].repository \in PickerProjects \X PickerNames
                                          /\ pickerList[i].checked \in BOOLEAN
  <1>1. pickerList \in Seq(Item)
    BY DEF PickerTypeOK
  <1>2. \A i \in 1..Len(pickerList) : pickerList[i] \in Item
    BY <1>1
  <1> QED
    BY <1>1, <1>2 DEF Item

\* The answer appends a repository to the list.
LEMMA PickerAppended ==
  ASSUME PickerTypeOK, NEW r \in PickerProjects \X PickerNames, pickerList' = PickerAdd(r)
  PROVE  /\ pickerList' \in Seq(Item) /\ Len(pickerList') = Len(pickerList) + 1
         /\ pickerList'[Len(pickerList) + 1].repository = r
         /\ \A i \in 1..Len(pickerList) : pickerList'[i] = pickerList[i]
         /\ Listed(pickerList') = Listed(pickerList) \cup {r}
  <1> DEFINE it == [repository |-> r, checked |-> TRUE]
  <1>1. it \in Item /\ it.repository = r
    BY DEF Item
  <1>2. pickerList' = Append(pickerList, it)
    BY DEF PickerAdd
  <1> HIDE DEF it
  <1>3. pickerList \in Seq(Item)
    BY DEF PickerTypeOK
  <1>4. /\ pickerList' \in Seq(Item) /\ Len(pickerList') = Len(pickerList) + 1 /\ Len(pickerList) \in Nat
        /\ pickerList'[Len(pickerList) + 1] = it
        /\ \A i \in 1..Len(pickerList) : pickerList'[i] = pickerList[i]
    BY <1>1, <1>2, <1>3, SeqAppend
  <1>5. Listed(pickerList') = Listed(pickerList) \cup {r}
    <2>1. \A i \in 1..Len(pickerList') : i \in 1..Len(pickerList) \/ i = Len(pickerList) + 1
      BY <1>4
    <2>2. Len(pickerList) + 1 \in 1..Len(pickerList') /\ 1..Len(pickerList) \subseteq 1..Len(pickerList')
      BY <1>4
    <2> QED
      BY <1>1, <1>4, <2>1, <2>2 DEF Listed
  <1> QED
    BY <1>1, <1>4, <1>5

\* A check box leaves the repositories where they are.
LEMMA PickerChecked ==
  ASSUME PickerTypeOK, NEW i \in 1..Len(pickerList), NEW c \in BOOLEAN, Check(i, c)
  PROVE  /\ pickerList' \in Seq(Item) /\ Len(pickerList') = Len(pickerList)
         /\ \A j \in 1..Len(pickerList) : pickerList'[j].repository = pickerList[j].repository
         /\ Listed(pickerList') = Listed(pickerList)
  <1> DEFINE it == [pickerList[i] EXCEPT !.checked = c]
  <1>1. pickerList \in Seq(Item) /\ pickerList[i] \in Item
    BY DEF PickerTypeOK
  <1>2. it \in Item /\ it.repository = pickerList[i].repository
    BY <1>1 DEF Item
  <1>3. pickerList' = [pickerList EXCEPT ![i] = it]
    BY DEF Check
  <1> HIDE DEF it
  <1>4. /\ pickerList' \in Seq(Item) /\ Len(pickerList') = Len(pickerList)
        /\ \A j \in 1..Len(pickerList) : pickerList'[j] = IF j = i THEN it ELSE pickerList[j]
    BY <1>1, <1>2, <1>3
  <1> QED
    BY <1>2, <1>4 DEF Listed

\* Of the list without its i-th item: whatever else was listed still is.
LEMMA PickerRemoved ==
  ASSUME PickerTypeOK, NEW i \in 1..Len(pickerList), RemoveRepository(i)
  PROVE  /\ pickerList' \in Seq(Item) /\ Len(pickerList') = Len(pickerList) - 1
         /\ \A n \in 1..Len(pickerList') : \E m \in 1..Len(pickerList) :
              /\ pickerList'[n] = pickerList[m]
              /\ m = IF n < i THEN n ELSE n + 1
         /\ Listed(pickerList') \subseteq Listed(pickerList)
         /\ Listed(pickerList) \subseteq Listed(pickerList') \cup {pickerList[i].repository}
  <1>1. pickerList \in Seq(Item) /\ Len(pickerList) \in Nat
    BY DEF PickerTypeOK
  <1>2. pickerList' = RemoveAt(pickerList, i)
    BY DEF RemoveRepository
  <1>3. /\ pickerList' \in Seq(Item) /\ Len(pickerList') = Len(pickerList) - 1
        /\ \A n \in 1..(Len(pickerList) - 1) :
             pickerList'[n] = IF n < i THEN pickerList[n] ELSE pickerList[n + 1]
    <2>1. /\ RemoveAt(pickerList, i) \in Seq(Item)
          /\ Len(RemoveAt(pickerList, i)) = Len(pickerList) - 1
          /\ \A n \in 1..(Len(pickerList) - 1) :
               RemoveAt(pickerList, i)[n] = IF n < i THEN pickerList[n] ELSE pickerList[n + 1]
      BY <1>1, SeqRemoveAt
    <2> QED
      BY <1>2, <2>1, Zenon
  <1>4. \A n \in 1..Len(pickerList') : \E m \in 1..Len(pickerList) :
          pickerList'[n] = pickerList[m] /\ m = IF n < i THEN n ELSE n + 1
    BY <1>1, <1>3
  <1>5. \A m \in 1..Len(pickerList) : m # i => \E n \in 1..Len(pickerList') : pickerList'[n] = pickerList[m]
    <2> SUFFICES ASSUME NEW m \in 1..Len(pickerList), m # i
                 PROVE  \E n \in 1..Len(pickerList') : pickerList'[n] = pickerList[m]
      OBVIOUS
    <2>1. CASE m < i
      <3>1. m \in 1..Len(pickerList') /\ pickerList'[m] = pickerList[m]
        BY <1>1, <1>3, <2>1
      <3> QED
        BY <3>1
    <2>2. CASE ~(m < i)
      <3>1. m - 1 \in 1..Len(pickerList') /\ m - 1 \in 1..(Len(pickerList) - 1) /\ ~(m - 1 < i) /\ m - 1 + 1 = m
        BY <1>1, <1>3, <2>2
      <3>2. pickerList'[m - 1] = pickerList[m]
        BY <1>3, <3>1
      <3> QED
        BY <3>1, <3>2
    <2> QED
      BY <2>1, <2>2
  <1>6. Listed(pickerList') \subseteq Listed(pickerList)
    BY <1>4 DEF Listed
  <1>7. Listed(pickerList) \subseteq Listed(pickerList') \cup {pickerList[i].repository}
    BY <1>5 DEF Listed
  <1> QED
    BY <1>3, <1>4, <1>6, <1>7

\* The form that is opened after a save lists each stored repository once.
LEMMA PickerSaved ==
  ASSUME PickerTypeOK, PickerSave
  PROVE  /\ pickerList' \in Seq(Item)
         /\ Listed(pickerList') = pickerStored' /\ pickerStored' = Listed(pickerList)
         /\ \A i, j \in 1..Len(pickerList') :
              pickerList'[i].repository = pickerList'[j].repository => i = j
  <1> DEFINE J == {j \in 1..Len(pickerList) : pickerList[j].checked}
             kept == {pickerList[i].repository : i \in J}
             S == {[repository |-> r, checked |-> TRUE] : r \in kept}
             f == [i \in J |-> [repository |-> pickerList[i].repository, checked |-> TRUE]]
  <1>1. pickerStored' = kept /\ pickerList' = SetToSeq(S) /\ PickerValid
    BY DEF PickerSave
  <1>2. J = 1..Len(pickerList) /\ IsFiniteSet(J)
    <2>1. J = 1..Len(pickerList)
      BY <1>1 DEF PickerValid
    <2>2. IsFiniteSet(1..Len(pickerList))
      BY PickerItems, FS_Interval
    <2> QED
      BY <2>1, <2>2
  <1>3. pickerStored' = Listed(pickerList)
    BY <1>1, <1>2 DEF Listed
  <1>4. IsFiniteSet(S)
    <2>1. f \in Surjection(J, S)
      BY DEF Surjection
    <2> HIDE DEF f, S, J
    <2> QED
      BY <1>2, <2>1, FS_Surjection
  <1>5. S \subseteq Item /\ \A a, b \in S : a.repository = b.repository => a = b
    <2>1. kept \subseteq PickerProjects \X PickerNames
      BY PickerItems
    <2>2. ASSUME NEW r \in kept PROVE [repository |-> r, checked |-> TRUE] \in Item
      BY <2>1 DEF Item
    <2>3. ASSUME NEW a \in S PROVE a \in Item /\ a = [repository |-> a.repository, checked |-> TRUE]
      <3>1. PICK r \in kept : a = [repository |-> r, checked |-> TRUE]
        BY <2>3
      <3>2. a.repository = r
        BY <3>1
      <3> QED
        BY <2>2, <3>1, <3>2
    <2> HIDE DEF S
    <2>4. S \subseteq Item
      BY <2>3
    <2>5. ASSUME NEW a \in S, NEW b \in S, a.repository = b.repository PROVE a = b
      <3>1. /\ a = [repository |-> a.repository, checked |-> TRUE]
            /\ b = [repository |-> b.repository, checked |-> TRUE]
        BY <2>3
      <3> QED
        BY <2>5, <3>1
    <2> QED
      BY <2>4, <2>5
  <1>6. \A a \in S : a.repository \in kept
    OBVIOUS
  <1>7. \A r \in kept : \E a \in S : a.repository = r
    <2> SUFFICES ASSUME NEW r \in kept PROVE \E a \in S : a.repository = r
      OBVIOUS
    <2>1. [repository |-> r, checked |-> TRUE] \in S
      OBVIOUS
    <2> QED
      BY <2>1
  <1> HIDE DEF S, kept
  <1>8. SetToSeq(S) \in SetToSeqs(S)
    BY <1>4, SeqChosen
  <1>9. /\ pickerList' \in Seq(S)
        /\ \A i, j \in 1..Len(pickerList') : i # j => pickerList'[i] # pickerList'[j]
        /\ \A e \in S : \E i \in 1..Len(pickerList') : pickerList'[i] = e
    BY <1>1, <1>4, <1>8, SeqOfSet
  <1>10. \A i \in 1..Len(pickerList') : pickerList'[i] \in S
    BY <1>9
  <1>11. Listed(pickerList') = kept
    <2>1. Listed(pickerList') \subseteq kept
      BY <1>6, <1>10 DEF Listed
    <2>2. kept \subseteq Listed(pickerList')
      <3> SUFFICES ASSUME NEW r \in kept PROVE r \in Listed(pickerList')
        OBVIOUS
      <3>1. PICK a \in S : a.repository = r
        BY <1>7
      <3>2. PICK i \in 1..Len(pickerList') : pickerList'[i] = a
        BY <1>9
      <3> QED
        BY <3>1, <3>2 DEF Listed
    <2> QED
      BY <2>1, <2>2
  <1>12. pickerList' \in Seq(Item)
    BY <1>5, <1>9
  <1>13. ASSUME NEW i \in 1..Len(pickerList'), NEW j \in 1..Len(pickerList'),
                pickerList'[i].repository = pickerList'[j].repository
         PROVE  i = j
    BY <1>5, <1>9, <1>10, <1>13
  <1> QED
    BY <1>1, <1>3, <1>11, <1>12, <1>13

-----------------------------------------------------------------------------

\* The page starts with an empty dropdown.
LEMMA PickerTypeInit == PickerInit => PickerTypeOK
  <1> SUFFICES ASSUME PickerInit PROVE PickerTypeOK
    OBVIOUS
  <1>1. pickerList \in Seq(Item)
    BY DEF PickerInit
  <1> QED
    BY <1>1 DEF PickerInit, PickerTypeOK

\* Each step keeps the types; what is listed can be built on.
LEMMA PickerTypeNext == PickerTypeOK /\ PickerBuilds /\ [PickerNext]_pickerVars => PickerTypeOK'
  <1> SUFFICES ASSUME PickerTypeOK, PickerBuilds, [PickerNext]_pickerVars PROVE PickerTypeOK'
    OBVIOUS
  <1>1. /\ lookups \in [PickerProjects -> Nat] /\ fetching \in [PickerProjects \X PickerNames -> Nat]
        /\ pickerStored \subseteq Buildable /\ picked \subseteq PickerProjects \X PickerNames
        /\ pickerTwice \subseteq PickerProjects \X PickerNames
    BY DEF PickerTypeOK
  <1>2. ASSUME NEW p \in PickerProjects, SelectProject(p) PROVE PickerTypeOK'
    <2>1. lookups' \in [PickerProjects -> Nat]
      BY <1>1, <1>2, PickerCounts DEF SelectProject
    <2>2. pickerMixed' \in BOOLEAN
      BY <1>2 DEF SelectProject
    <2> QED
      BY <1>2, <2>1, <2>2 DEF SelectProject, items, PickerTypeOK
  <1>3. ASSUME NEW p \in PickerProjects, TypeProject(p) PROVE PickerTypeOK'
    BY <1>3 DEF TypeProject, items, PickerTypeOK
  <1>4. ASSUME NEW p \in PickerProjects, LookupAnswered(p) PROVE PickerTypeOK'
    <2>1. lookups' \in [PickerProjects -> Nat]
      BY <1>1, <1>4, PickerCounts DEF LookupAnswered
    <2>2. /\ options' \subseteq PickerRepositories
          /\ enabled' \in BOOLEAN /\ pickerMixed' \in BOOLEAN
      BY <1>4 DEF LookupAnswered, PickerTypeOK
    <2> QED
      BY <1>4, <2>1, <2>2 DEF LookupAnswered, items, PickerTypeOK
  <1>5. ASSUME NEW p \in PickerProjects, LookupFails(p) PROVE PickerTypeOK'
    <2>1. lookups' \in [PickerProjects -> Nat]
      BY <1>1, <1>5, PickerCounts DEF LookupFails
    <2>2. pickerMixed' \in BOOLEAN
      BY <1>5 DEF LookupFails
    <2> QED
      BY <1>5, <2>1, <2>2 DEF LookupFails, items, PickerTypeOK
  <1>6. ASSUME NEW n \in PickerNames, PickerChoose(n) PROVE PickerTypeOK'
    <2>1. <<project, n>> \in PickerProjects \X PickerNames
      BY <1>6 DEF PickerChoose, PickerTypeOK
    <2>2. fetching' = PickerMore(fetching, <<project, n>>)
      BY <1>6 DEF PickerChoose
    <2>3. fetching' \in [PickerProjects \X PickerNames -> Nat]
      BY <1>1, <2>1, <2>2, PickerCounts
    <2>4. picked' \subseteq PickerProjects \X PickerNames /\ pickerTwice' \subseteq PickerProjects \X PickerNames
      BY <1>1, <1>6, <2>1 DEF PickerChoose
    <2> QED
      BY <1>6, <2>3, <2>4 DEF PickerChoose, choice, PickerTypeOK
  <1>7. ASSUME NEW r \in PickerProjects \X PickerNames, ArchitecturesAnswered(r) PROVE PickerTypeOK'
    <2>1. fetching' \in [PickerProjects \X PickerNames -> Nat]
      BY <1>1, <1>7, PickerCounts DEF ArchitecturesAnswered
    <2>2. pickerList' \in Seq(Item) /\ warning' \in BOOLEAN /\ picked' \subseteq PickerProjects \X PickerNames
      BY <1>1, <1>7, PickerAppended, PickerItems DEF ArchitecturesAnswered
    <2> QED
      BY <1>7, <2>1, <2>2 DEF ArchitecturesAnswered, choice, PickerTypeOK
  <1>8. ASSUME NEW r \in PickerProjects \X PickerNames, ArchitecturesFail(r) PROVE PickerTypeOK'
    <2>1. fetching' \in [PickerProjects \X PickerNames -> Nat]
      BY <1>1, <1>8, PickerCounts DEF ArchitecturesFail
    <2>2. picked' \subseteq PickerProjects \X PickerNames
      BY <1>1, <1>8 DEF ArchitecturesFail
    <2> QED
      BY <1>8, <2>1, <2>2 DEF ArchitecturesFail, choice, PickerTypeOK
  <1>9. ASSUME NEW i \in 1..Len(pickerList), RemoveRepository(i) PROVE PickerTypeOK'
    <2>1. pickerList' \in Seq(Item)
      BY <1>9, PickerRemoved
    <2>2. picked' \subseteq PickerProjects \X PickerNames
      BY <1>1, <1>9 DEF RemoveRepository
    <2> QED
      BY <1>9, <2>1, <2>2 DEF RemoveRepository, choice, PickerTypeOK
  <1>10. ASSUME NEW i \in 1..Len(pickerList), NEW c \in BOOLEAN, Check(i, c) PROVE PickerTypeOK'
    <2>1. pickerList' \in Seq(Item)
      BY <1>10, PickerChecked
    <2> QED
      BY <1>10, <2>1 DEF Check, choice, PickerTypeOK
  <1>11. CASE PickerRefused
    BY <1>11 DEF PickerRefused, choice, PickerTypeOK
  <1>12. CASE PickerSave
    <2>1. /\ pickerList' \in Seq(Item) /\ pickerStored' \subseteq Buildable
          /\ pickerStored' \subseteq PickerProjects \X PickerNames
      BY <1>12, PickerSaved, PickerAssumption DEF PickerBuilds
    <2>2. picked' = pickerStored'
      BY <1>12 DEF PickerSave
    <2>3. /\ warning' = FALSE /\ fetching' = [r \in PickerProjects \X PickerNames |-> 0]
          /\ pickerTwice' = {} /\ project' = NoChoice /\ options' = {} /\ enabled' = FALSE
          /\ lookups' = [p \in PickerProjects |-> 0] /\ selected' = NoChoice /\ pickerMixed' = FALSE
      BY <1>12 DEF PickerSave
    <2> QED
      BY <2>1, <2>2, <2>3 DEF PickerTypeOK
  <1>13. CASE UNCHANGED pickerVars
    BY <1>13 DEF pickerVars, choice, items, PickerTypeOK
  <1> QED
    BY <1>2, <1>3, <1>4, <1>5, <1>6, <1>7, <1>8, <1>9, <1>10, <1>11, <1>12, <1>13 DEF PickerNext

-----------------------------------------------------------------------------
\* A form that is opened has no request under way, and offers nothing.
LEMMA PickerNothingOffered == {r \in PickerRepositories : r[1] = NoChoice} = {}
  BY PickerAssumption

\* No lookup, no request: the invariant holds of the page that was loaded.
LEMMA PickerSafeInit == PickerInit => PickerIInv
  <1> SUFFICES ASSUME PickerInit PROVE PickerIInv
    OBVIOUS
  <1>1. Listed(pickerList) = {}
    BY DEF PickerInit, Listed
  <1>2. OffersSelected
    <2>1. options = {} /\ enabled = FALSE /\ selected = NoChoice /\ lookups = [p \in PickerProjects |-> 0]
      BY DEF PickerInit
    <2> QED
      BY <2>1, PickerNothingOffered DEF OffersSelected
  <1>3. PickedStay /\ PickerListedOnceUnlessTwice
    BY DEF PickerInit, PickedStay, PickerListedOnceUnlessTwice
  <1>4. PickerApart /\ PickerBuilds
    BY <1>1 DEF PickerInit, PickerApart, PickerBuilds
  <1> QED
    BY <1>2, <1>3, <1>4 DEF PickerIInv, PickerKept

\* The project and the dropdown are left alone, or the list is.
LEMMA PickerChoiceKept ==
  ASSUME PickerIInv, UNCHANGED choice
  PROVE  OffersSelected'
  BY DEF PickerIInv, PickerKept, choice, OffersSelected

\* What is listed once stays so as long as the list does.
LEMMA PickerItemsKept ==
  ASSUME PickerIInv, UNCHANGED <<fetching, pickerList, picked, pickerTwice>>
  PROVE  PickedStay' /\ PickerListedOnceUnlessTwice' /\ PickerApart' /\ PickerBuilds'
  BY DEF PickerIInv, PickerKept, PickedStay, PickerListedOnceUnlessTwice, PickerApart, PickerBuilds,
         PickerUnder, Listed

\* A lookup that is answered brings the repositories of the project selected
\* last, or others at the cost of the excuse.
LEMMA PickerLookedUp ==
  ASSUME PickerTypeOK, PickerIInv, NEW p \in PickerProjects, LookupAnswered(p)
  PROVE  OffersSelected'
  <1> DEFINE its == {r \in PickerRepositories : r[1] = selected}
  <1>1. CASE pickerMixed'
    BY <1>1 DEF OffersSelected
  <1>2. CASE ~pickerMixed'
    <2>1. ~pickerMixed /\ p = selected /\ UNCHANGED selected
      BY <1>2 DEF LookupAnswered
    <2>2. options' = options \cup its /\ enabled' = (enabled \/ its # {})
      BY <2>1 DEF LookupAnswered
    <2>3. options \in {{}, its} /\ enabled = (options # {})
      BY <2>1 DEF PickerIInv, PickerKept, OffersSelected
    <2>4. options' = its
      BY <2>2, <2>3
    <2>5. enabled' = (options' # {})
      BY <2>2, <2>3, <2>4
    <2> QED
      BY <2>1, <2>4, <2>5 DEF OffersSelected
  <1> QED
    BY <1>1, <1>2

\* A lookup that fails leaves the dropdown alone.
LEMMA PickerLookupLost ==
  ASSUME PickerTypeOK, PickerIInv, NEW p \in PickerProjects, LookupFails(p)
  PROVE  OffersSelected'
  <1>1. CASE pickerMixed'
    BY <1>1 DEF OffersSelected
  <1>2. CASE ~pickerMixed'
    <2>1. ~pickerMixed /\ p # selected /\ UNCHANGED <<selected, options, enabled>>
      BY <1>2 DEF LookupFails
    <2>2. \A q \in PickerProjects \ {p} : lookups'[q] = lookups[q]
      <3>1. lookups' = PickerLess(lookups, p) /\ lookups \in [PickerProjects -> Nat]
        BY DEF LookupFails, PickerTypeOK
      <3> QED
        BY <3>1, PickerCounts
    <2> QED
      BY <2>1, <2>2 DEF PickerIInv, PickerKept, OffersSelected
  <1> QED
    BY <1>1, <1>2

\* A repository is chosen, and fetched.
LEMMA PickerChooseSafe ==
  ASSUME PickerTypeOK, PickerIInv, NEW n \in PickerNames, PickerChoose(n)
  PROVE  PickedStay' /\ PickerListedOnceUnlessTwice' /\ PickerApart' /\ PickerBuilds'
  <1> DEFINE r == <<project, n>>
  <1>1. /\ r \notin Listed(pickerList)
        /\ fetching' = PickerMore(fetching, r) /\ picked' = picked \cup {r}
        /\ pickerTwice' = (IF fetching[r] > 0 THEN pickerTwice \cup {r} ELSE pickerTwice)
        /\ UNCHANGED pickerList
    BY DEF PickerChoose
  <1>2. fetching \in [PickerProjects \X PickerNames -> Nat] /\ r \in PickerProjects \X PickerNames
    BY DEF PickerChoose, PickerTypeOK
  <1> HIDE DEF r
  <1>3. /\ fetching' \in [PickerProjects \X PickerNames -> Nat] /\ fetching'[r] = fetching[r] + 1
        /\ \A q \in (PickerProjects \X PickerNames) \ {r} : fetching'[q] = fetching[q]
    BY <1>1, <1>2, PickerCounts
  <1>4. PickerUnder(fetching)' = PickerUnder(fetching) \cup {r}
    BY <1>2, <1>3 DEF PickerUnder
  <1>5. PickedStay'
    BY <1>1, <1>4 DEF PickerIInv, PickerKept, PickedStay
  <1>6. PickerListedOnceUnlessTwice' /\ PickerBuilds'
    BY <1>1 DEF PickerIInv, PickerKept, PickerListedOnceUnlessTwice, PickerBuilds
  <1>7. PickerApart'
    BY <1>1, <1>2, <1>3 DEF PickerIInv, PickerApart
  <1> QED
    BY <1>5, <1>6, <1>7

\* The architectures come, and the repository is listed; or there are none.
LEMMA PickerFetchedSafe ==
  ASSUME PickerTypeOK, PickerIInv, NEW r \in PickerProjects \X PickerNames,
         ArchitecturesAnswered(r) \/ ArchitecturesFail(r)
  PROVE  PickedStay' /\ PickerListedOnceUnlessTwice' /\ PickerApart' /\ PickerBuilds'
  <1>1. fetching \in [PickerProjects \X PickerNames -> Nat]
    BY DEF PickerTypeOK
  <1>2. fetching[r] > 0 /\ fetching' = PickerLess(fetching, r) /\ UNCHANGED pickerTwice
    BY DEF ArchitecturesAnswered, ArchitecturesFail
  <1>3. /\ fetching' \in [PickerProjects \X PickerNames -> Nat] /\ fetching'[r] = fetching[r] - 1
        /\ \A q \in (PickerProjects \X PickerNames) \ {r} : fetching'[q] = fetching[q]
    <2> DEFINE S == PickerProjects \X PickerNames
    <2>1. fetching \in [S -> Nat] /\ r \in S
      BY <1>1
    <2> HIDE DEF S
    <2>2. /\ PickerLess(fetching, r) \in [S -> Nat] /\ PickerLess(fetching, r)[r] = fetching[r] - 1
          /\ \A q \in S \ {r} : PickerLess(fetching, r)[q] = fetching[q]
      BY <1>2, <2>1, PickerCounts
    <2> QED
      BY <1>2, <2>2 DEF S
  <1>4. PickerUnder(fetching) \subseteq PickerUnder(fetching)' \cup {r}
    BY <1>1, <1>3 DEF PickerUnder
  <1>5. CASE /\ r \in Buildable /\ pickerList' = PickerAdd(r) /\ picked' = picked
    <2>1. /\ pickerList' \in Seq(Item) /\ Len(pickerList') = Len(pickerList) + 1
          /\ pickerList'[Len(pickerList) + 1].repository = r
          /\ \A i \in 1..Len(pickerList) : pickerList'[i] = pickerList[i]
          /\ Listed(pickerList') = Listed(pickerList) \cup {r}
      BY <1>5, PickerAppended
    <2>2. PickedStay'
      BY <1>4, <1>5, <2>1 DEF PickerIInv, PickerKept, PickedStay
    <2>3. PickerBuilds'
      BY <1>5, <2>1 DEF PickerIInv, PickerBuilds
    <2>4. PickerApart'
      BY <1>1, <1>2, <1>3, <2>1 DEF PickerIInv, PickerApart
    <2>5. PickerListedOnceUnlessTwice'
      <3>1. \A i \in 1..Len(pickerList') : i \in 1..Len(pickerList) \/ i = Len(pickerList) + 1
        BY <2>1, PickerItems
      <3>2. ASSUME NEW i \in 1..Len(pickerList), pickerList[i].repository = r PROVE r \in pickerTwice
        BY <1>2, <3>2 DEF PickerIInv, PickerApart, Listed
      <3> QED
        BY <1>2, <2>1, <3>1, <3>2 DEF PickerIInv, PickerKept, PickerListedOnceUnlessTwice
    <2> QED
      BY <2>2, <2>3, <2>4, <2>5
  <1>6. CASE pickerList' = pickerList /\ picked' = picked \ {r}
    <2>1. PickedStay'
      BY <1>4, <1>6 DEF PickerIInv, PickerKept, PickedStay
    <2>2. PickerApart'
      BY <1>1, <1>2, <1>3, <1>6 DEF PickerIInv, PickerApart
    <2> QED
      BY <1>2, <1>6, <2>1, <2>2 DEF PickerIInv, PickerKept, PickerBuilds, PickerListedOnceUnlessTwice
  <1>7. CASE pickerList' = pickerList /\ picked' = picked /\ (r \in Listed(pickerList) \/ fetching'[r] > 0)
    <2>1. PickedStay'
      <3>1. r \in Listed(pickerList') \cup PickerUnder(fetching')
        BY <1>3, <1>7 DEF PickerUnder
      <3> QED
        BY <1>4, <1>7, <3>1 DEF PickerIInv, PickerKept, PickedStay
    <2>2. PickerApart'
      BY <1>1, <1>2, <1>3, <1>7 DEF PickerIInv, PickerApart
    <2> QED
      BY <1>2, <1>7, <2>1, <2>2 DEF PickerIInv, PickerKept, PickerBuilds, PickerListedOnceUnlessTwice
  <1> QED
    BY <1>5, <1>6, <1>7 DEF ArchitecturesAnswered, ArchitecturesFail

\* Each step keeps the invariant: a choice, a lookup and each answer.
LEMMA PickerSafeNext == PickerTypeOK /\ PickerIInv /\ [PickerNext]_pickerVars => PickerIInv'
  <1> SUFFICES ASSUME PickerTypeOK, PickerIInv, [PickerNext]_pickerVars PROVE PickerIInv'
    OBVIOUS
  <1> USE DEF PickerIInv, PickerKept
  <1>1. lookups \in [PickerProjects -> Nat] /\ fetching \in [PickerProjects \X PickerNames -> Nat]
    BY DEF PickerTypeOK
  <1>2. ASSUME NEW p \in PickerProjects, SelectProject(p) PROVE PickerIInv'
    <2>1. /\ lookups' = PickerMore(lookups, p) /\ selected' = p /\ options' = {} /\ enabled' = FALSE
          /\ UNCHANGED items
      BY <1>2 DEF SelectProject
    <2>2. lookups'[p] # 0
      BY <1>1, <2>1, PickerCounts
    <2>3. OffersSelected'
      BY <2>1, <2>2 DEF OffersSelected
    <2> QED
      BY <2>1, <2>3, PickerItemsKept DEF items
  <1>3. ASSUME NEW p \in PickerProjects, TypeProject(p) PROVE PickerIInv'
    <2>1. OffersSelected'
      BY <1>3 DEF TypeProject, OffersSelected
    <2> QED
      BY <1>3, <2>1, PickerItemsKept DEF TypeProject, items
  <1>4. ASSUME NEW p \in PickerProjects, LookupAnswered(p) PROVE PickerIInv'
    BY <1>4, PickerLookedUp, PickerItemsKept DEF LookupAnswered, items
  <1>5. ASSUME NEW p \in PickerProjects, LookupFails(p) PROVE PickerIInv'
    BY <1>5, PickerLookupLost, PickerItemsKept DEF LookupFails, items
  <1>6. ASSUME NEW n \in PickerNames, PickerChoose(n) PROVE PickerIInv'
    BY <1>6, PickerChooseSafe, PickerChoiceKept DEF PickerChoose
  <1>7. ASSUME NEW r \in PickerProjects \X PickerNames, ArchitecturesAnswered(r) \/ ArchitecturesFail(r)
        PROVE  PickerIInv'
    BY <1>7, PickerFetchedSafe, PickerChoiceKept DEF ArchitecturesAnswered, ArchitecturesFail
  <1>8. ASSUME NEW i \in 1..Len(pickerList), RemoveRepository(i) PROVE PickerIInv'
    <2>1. /\ Len(pickerList') = Len(pickerList) - 1
          /\ \A n \in 1..Len(pickerList') : \E m \in 1..Len(pickerList) :
               pickerList'[n] = pickerList[m] /\ m = IF n < i THEN n ELSE n + 1
          /\ Listed(pickerList') \subseteq Listed(pickerList)
          /\ Listed(pickerList) \subseteq Listed(pickerList') \cup {pickerList[i].repository}
      BY <1>8, PickerRemoved
    <2>2. /\ picked' = (IF pickerList[i].repository \in Listed(pickerList') THEN picked
                        ELSE picked \ {pickerList[i].repository})
          /\ UNCHANGED <<choice, fetching, pickerTwice>>
      BY <1>8 DEF RemoveRepository
    <2>3. PickedStay'
      BY <2>1, <2>2 DEF PickedStay
    <2>4. PickerApart' /\ PickerBuilds'
      BY <2>1, <2>2 DEF PickerApart, PickerBuilds
    <2>5. PickerListedOnceUnlessTwice'
      <3> SUFFICES ASSUME NEW n \in 1..Len(pickerList'), NEW m \in 1..Len(pickerList'), n # m,
                          pickerList'[n].repository = pickerList'[m].repository
                   PROVE  pickerList'[n].repository \in pickerTwice
        BY <2>2 DEF PickerListedOnceUnlessTwice
      <3>1. PICK a \in 1..Len(pickerList) : pickerList'[n] = pickerList[a] /\ a = IF n < i THEN n ELSE n + 1
        BY <2>1
      <3>2. PICK b \in 1..Len(pickerList) : pickerList'[m] = pickerList[b] /\ b = IF m < i THEN m ELSE m + 1
        BY <2>1
      <3>3. a # b
        <4>1. Len(pickerList') \in Nat /\ i \in Nat
          BY <2>1, PickerItems
        <4> QED
          BY <3>1, <3>2, <4>1
      <3> QED
        BY <3>1, <3>2, <3>3 DEF PickerListedOnceUnlessTwice
    <2> QED
      BY <2>2, <2>3, <2>4, <2>5, PickerChoiceKept
  <1>9. ASSUME NEW i \in 1..Len(pickerList), NEW c \in BOOLEAN, Check(i, c) PROVE PickerIInv'
    <2>1. /\ Len(pickerList') = Len(pickerList) /\ Listed(pickerList') = Listed(pickerList)
          /\ \A j \in 1..Len(pickerList) : pickerList'[j].repository = pickerList[j].repository
      BY <1>9, PickerChecked
    <2>2. UNCHANGED <<choice, fetching, picked, pickerTwice>>
      BY <1>9 DEF Check
    <2>3. PickedStay' /\ PickerApart' /\ PickerBuilds'
      BY <2>1, <2>2 DEF PickedStay, PickerApart, PickerBuilds
    <2>4. PickerListedOnceUnlessTwice'
      BY <2>1, <2>2 DEF PickerListedOnceUnlessTwice
    <2> QED
      BY <2>2, <2>3, <2>4, PickerChoiceKept
  <1>10. CASE PickerRefused
    BY <1>10, PickerItemsKept, PickerChoiceKept DEF PickerRefused
  <1>11. CASE PickerSave
    <2>1. /\ Listed(pickerList') = pickerStored' /\ pickerStored' = Listed(pickerList)
          /\ \A i, j \in 1..Len(pickerList') :
               pickerList'[i].repository = pickerList'[j].repository => i = j
      BY <1>11, PickerSaved
    <2>2. /\ fetching' = [r \in PickerProjects \X PickerNames |-> 0] /\ options' = {} /\ enabled' = FALSE
          /\ lookups' = [p \in PickerProjects |-> 0] /\ selected' = NoChoice /\ picked' = pickerStored'
      BY <1>11 DEF PickerSave
    <2>3. OffersSelected'
      BY <2>2, PickerNothingOffered DEF OffersSelected
    <2>4. PickerApart'
      BY <2>2 DEF PickerApart
    <2>5. PickedStay' /\ PickerBuilds'
      BY <2>1, <2>2 DEF PickedStay, PickerBuilds
    <2>6. PickerListedOnceUnlessTwice'
      BY <2>1 DEF PickerListedOnceUnlessTwice
    <2> QED
      BY <2>3, <2>4, <2>5, <2>6
  <1>12. CASE UNCHANGED pickerVars
    BY <1>12, PickerItemsKept, PickerChoiceKept DEF pickerVars, items
  <1> QED
    BY <1>2, <1>3, <1>4, <1>5, <1>6, <1>7, <1>8, <1>9, <1>10, <1>11, <1>12 DEF PickerNext

\* The types hold together with the invariant: what is saved has architectures
\* as what is listed has.
THEOREM PickerSafety == PickerSpec => [](PickerTypeOK /\ PickerIInv)
  <1>1. PickerTypeOK /\ PickerIInv /\ [PickerNext]_pickerVars => (PickerTypeOK /\ PickerIInv)'
    <2>1. PickerIInv => PickerBuilds
      BY DEF PickerIInv
    <2> QED
      BY <2>1, PickerTypeNext, PickerSafeNext
  <1> QED
    BY <1>1, PickerTypeInit, PickerSafeInit, PTL DEF PickerSpec

\* A repository that was chosen stays until it is removed, in whatever order the
\* answers come and fail; it is listed once, unless it was chosen again before the
\* first answer.  The dropdown offers the repositories of the project selected
\* last, whatever is typed and looked up beside it, unless an answer for another
\* project has come since or its own request failed (autocomplete.js:32-55, 98-129).
THEOREM PickerIsKept == PickerSpec => []PickerKept
  <1>1. PickerIInv => PickerKept
    BY DEF PickerIInv
  <1> QED
    BY <1>1, PickerSafety, PTL

\* A save stores every repository the list shows (autocomplete.js:141).
THEOREM PickerDropsNone == PickerSpec => NoneDropped
  <1>1. PickerTypeOK /\ [PickerNext]_pickerVars =>
          [pickerStored' # pickerStored => pickerStored' = Listed(pickerList)]_pickerVars
    <2>1. PickerNext => PickerSave \/ pickerStored' = pickerStored
      BY DEF PickerNext, SelectProject, TypeProject, LookupAnswered, LookupFails, PickerChoose,
             ArchitecturesAnswered, ArchitecturesFail, RemoveRepository, Check, PickerRefused, items
    <2> QED
      BY <2>1, PickerSaved
  <1> QED
    BY <1>1, PickerSafety, PTL DEF PickerSpec, NoneDropped

-----------------------------------------------------------------------------
(* Patchinfo.  An issue that is asked for in two requests under way was     *)
(* asked for twice, and so was one under way that is listed already         *)
(* (PatchApart): what an answer appends is then new, or excused.            *)

PatchApart ==
  /\ \A i, j \in DOMAIN adds : i # j => adds[i] \cap adds[j] \subseteq patchTwice
  /\ \A i \in DOMAIN adds : adds[i] \cap ToSet(listed) \subseteq patchTwice
PatchIInv == PatchKept /\ PatchApart

\* The issues of an answer are appended, each once.
LEMMA PatchAppended ==
  ASSUME PatchTypeOK, NEW i \in DOMAIN adds, adds[i] \subseteq PatchValid,
         NEW new \in SetToSeqs(adds[i]), listed' = listed \o new
  PROVE  /\ listed' \in Seq(PatchValid) /\ Len(listed) \in Nat /\ Len(new) \in Nat
         /\ Len(listed') = Len(listed) + Len(new)
         /\ \A k \in 1..Len(listed') :
              listed'[k] = IF k <= Len(listed) THEN listed[k] ELSE new[k - Len(listed)]
         /\ \A k \in 1..Len(new) : new[k] \in adds[i]
         /\ \A j, k \in 1..Len(new) : j # k => new[j] # new[k]
         /\ ToSet(listed') = ToSet(listed) \cup adds[i]
  <1>1. IsFiniteSet(adds[i])
    BY FS_Subset, PatchinfoAssumption DEF PatchTypeOK
  <1>2. /\ new \in Seq(adds[i]) /\ \A j, k \in 1..Len(new) : j # k => new[j] # new[k]
        /\ \A e \in adds[i] : \E k \in 1..Len(new) : new[k] = e
    BY <1>1, SeqOfSet
  <1>3. listed \in Seq(PatchValid) /\ new \in Seq(PatchValid)
    BY <1>2 DEF PatchTypeOK
  <1>4. /\ listed' \in Seq(PatchValid) /\ Len(listed') = Len(listed) + Len(new)
        /\ \A k \in 1..Len(listed') :
             listed'[k] = IF k <= Len(listed) THEN listed[k] ELSE new[k - Len(listed)]
    BY <1>3, ConcatProperties
  <1>5. Len(listed) \in Nat /\ Len(new) \in Nat /\ \A k \in 1..Len(new) : new[k] \in adds[i]
    BY <1>2, <1>3
  <1>6. /\ DOMAIN listed = 1..Len(listed) /\ DOMAIN listed' = 1..(Len(listed) + Len(new))
    BY <1>3, <1>4
  <1>7. ToSet(listed') \subseteq ToSet(listed) \cup adds[i]
    <2> SUFFICES ASSUME NEW k \in 1..(Len(listed) + Len(new))
                 PROVE  listed'[k] \in ToSet(listed) \cup adds[i]
      BY <1>6 DEF ToSet
    <2>1. CASE k <= Len(listed)
      <3>1. listed'[k] = listed[k] /\ k \in DOMAIN listed
        BY <1>4, <1>5, <1>6, <2>1
      <3> QED
        BY <3>1 DEF ToSet
    <2>2. CASE ~(k <= Len(listed))
      <3>1. k - Len(listed) \in 1..Len(new)
        BY <1>5, <2>2
      <3> QED
        BY <1>4, <1>5, <2>2, <3>1
    <2> QED
      BY <2>1, <2>2
  <1>8. ToSet(listed) \subseteq ToSet(listed')
    <2> SUFFICES ASSUME NEW k \in 1..Len(listed) PROVE listed[k] \in ToSet(listed')
      BY <1>6 DEF ToSet
    <2>1. k \in 1..(Len(listed) + Len(new)) /\ k <= Len(listed)
      BY <1>5
    <2>2. listed'[k] = listed[k]
      BY <1>4, <2>1
    <2> QED
      BY <1>6, <2>1, <2>2 DEF ToSet
  <1>9. adds[i] \subseteq ToSet(listed')
    <2> SUFFICES ASSUME NEW k \in 1..Len(new) PROVE new[k] \in ToSet(listed')
      BY <1>2
    <2>1. k + Len(listed) \in 1..(Len(listed) + Len(new)) /\ ~(k + Len(listed) <= Len(listed))
      BY <1>5
    <2>2. listed'[k + Len(listed)] = new[k]
      BY <1>4, <1>5, <2>1
    <2> QED
      BY <1>6, <2>1, <2>2 DEF ToSet
  <1> QED
    BY <1>2, <1>4, <1>5, <1>7, <1>8, <1>9

\* Of the list without its k-th issue: whatever else was listed still is.
LEMMA PatchDeleted ==
  ASSUME PatchTypeOK, NEW k \in 1..Len(listed), DeleteIssue(k)
  PROVE  /\ listed' \in Seq(PatchValid)
         /\ ToSet(listed') \subseteq ToSet(listed)
         /\ ToSet(listed) \ {listed[k]} \subseteq ToSet(listed')
         /\ PatchListedOnceUnlessTwice => PatchListedOnceUnlessTwice'
  <1>1. listed \in Seq(PatchValid) /\ Len(listed) \in Nat /\ DOMAIN listed = 1..Len(listed)
    BY DEF PatchTypeOK
  <1>2. listed' = RemoveAt(listed, k) /\ UNCHANGED patchTwice
    BY DEF DeleteIssue
  <1>3. /\ listed' \in Seq(PatchValid) /\ Len(listed') = Len(listed) - 1
        /\ \A i \in 1..(Len(listed) - 1) : listed'[i] = IF i < k THEN listed[i] ELSE listed[i + 1]
    <2>1. /\ RemoveAt(listed, k) \in Seq(PatchValid)
          /\ Len(RemoveAt(listed, k)) = Len(listed) - 1
          /\ \A i \in 1..(Len(listed) - 1) :
               RemoveAt(listed, k)[i] = IF i < k THEN listed[i] ELSE listed[i + 1]
      BY <1>1, SeqRemoveAt
    <2> QED
      BY <1>2, <2>1, Zenon
  <1> DEFINE Was(i) == IF i < k THEN i ELSE i + 1
  <1>4. ASSUME NEW i \in 1..(Len(listed) - 1)
        PROVE  Was(i) \in 1..Len(listed) /\ listed'[i] = listed[Was(i)]
    <2>1. Was(i) \in 1..Len(listed)
      BY <1>1
    <2>2. listed'[i] = IF i < k THEN listed[i] ELSE listed[i + 1]
      BY <1>3
    <2>3. CASE i < k
      BY <2>1, <2>2, <2>3
    <2>4. CASE ~(i < k)
      BY <2>1, <2>2, <2>4
    <2> QED
      BY <2>3, <2>4
  <1>5. DOMAIN listed' = 1..(Len(listed) - 1)
    BY <1>3
  <1>6. ToSet(listed') \subseteq ToSet(listed)
    BY <1>1, <1>4, <1>5 DEF ToSet
  <1>7. ToSet(listed) \ {listed[k]} \subseteq ToSet(listed')
    <2> SUFFICES ASSUME NEW i \in 1..Len(listed), i # k PROVE listed[i] \in ToSet(listed')
      BY <1>1 DEF ToSet
    <2>1. CASE i < k
      <3>1. i \in 1..(Len(listed) - 1) /\ listed'[i] = listed[i]
        BY <1>1, <1>3, <2>1
      <3> QED
        BY <1>5, <3>1 DEF ToSet
    <2>2. CASE ~(i < k)
      <3>1. i - 1 \in 1..(Len(listed) - 1) /\ ~(i - 1 < k) /\ i - 1 + 1 = i
        BY <1>1, <2>2
      <3>2. listed'[i - 1] = listed[i]
        BY <1>3, <3>1
      <3> QED
        BY <1>5, <3>1, <3>2 DEF ToSet
    <2> QED
      BY <2>1, <2>2
  <1>8. PatchListedOnceUnlessTwice => PatchListedOnceUnlessTwice'
    <2> SUFFICES ASSUME PatchListedOnceUnlessTwice, NEW i \in 1..(Len(listed) - 1),
                        NEW j \in 1..(Len(listed) - 1), listed'[i] = listed'[j], i # j
                 PROVE  listed'[i] \in patchTwice
      BY <1>2, <1>3 DEF PatchListedOnceUnlessTwice
    <2>1. Was(i) # Was(j)
      BY <1>1
    <2> HIDE DEF Was
    <2> QED
      BY <1>4, <2>1 DEF PatchListedOnceUnlessTwice
  <1> QED
    BY <1>3, <1>6, <1>7, <1>8

-----------------------------------------------------------------------------

\* The form of a patchinfo that was loaded.
LEMMA PatchTypeInit == PatchInit => PatchTypeOK
  <1> SUFFICES ASSUME PatchInit PROVE PatchTypeOK
    OBVIOUS
  <1>1. /\ typed = {} /\ listed = <<>> /\ DOMAIN adds = {} /\ patchSpinning = FALSE /\ error = FALSE
        /\ chosen \in SUBSET Binaries /\ available = Binaries \ chosen /\ marked = {}
        /\ patchStored = [issues |-> <<>>, binaries |-> chosen] /\ patchTwice = {} /\ patchAsked = {}
    BY DEF PatchInit
  <1>2. <<>> \in Seq(PatchValid)
    OBVIOUS
  <1>3. patchStored \in [issues: Seq(PatchValid), binaries: SUBSET Binaries]
    BY <1>1, <1>2
  <1> QED
    BY <1>1, <1>2, <1>3 DEF PatchTypeOK

\* A request more, or one less.
LEMMA PatchRequests ==
  ASSUME PatchTypeOK
  PROVE  /\ AddIssues =>
              \E i \in (1..MaxAdds) \ DOMAIN adds :
                /\ DOMAIN adds' = DOMAIN adds \cup {i} /\ adds'[i] = Ask
                /\ \A j \in DOMAIN adds : j # i /\ adds'[j] = adds[j]
         /\ \A i \in DOMAIN adds : adds' = PatchWithout(i) =>
              DOMAIN adds' = DOMAIN adds \ {i} /\ \A j \in DOMAIN adds' : adds'[j] = adds[j]
  <1>1. ASSUME AddIssues
        PROVE  \E i \in (1..MaxAdds) \ DOMAIN adds :
                 /\ DOMAIN adds' = DOMAIN adds \cup {i} /\ adds'[i] = Ask
                 /\ \A j \in DOMAIN adds : j # i /\ adds'[j] = adds[j]
    <2>1. PICK i \in (1..MaxAdds) \ DOMAIN adds :
            adds' = [j \in DOMAIN adds \cup {i} |-> IF j = i THEN Ask ELSE adds[j]]
      BY <1>1 DEF AddIssues
    <2> QED
      BY <2>1
  <1> QED
    BY <1>1 DEF PatchWithout

\* The binaries, after a move.
LEMMA PatchMoved ==
  ASSUME NEW from, NEW bs, Move(from, bs), PatchTypeOK,
         bs \subseteq IF from = "available" THEN available ELSE chosen
  PROVE  /\ available' \subseteq Binaries /\ chosen' \subseteq Binaries
         /\ BinariesParted => BinariesParted'
  BY DEF Move, PatchTypeOK, BinariesParted

\* Each step keeps the types.
LEMMA PatchTypeNext == PatchTypeOK /\ [PatchNext]_patchVars => PatchTypeOK'
  <1> SUFFICES ASSUME PatchTypeOK, [PatchNext]_patchVars PROVE PatchTypeOK'
    OBVIOUS
  <1>1. ASSUME NEW is \in SUBSET Issues, PatchType(is) PROVE PatchTypeOK'
    BY <1>1 DEF PatchType, binaries, PatchTypeOK
  <1>2. CASE AddNothing
    BY <1>2 DEF AddNothing, binaries, PatchTypeOK
  <1>3. CASE AddIssues
    <2>1. Ask \subseteq Issues
      BY DEF Ask, PatchTypeOK
    <2>2. DOMAIN adds' \subseteq 1..MaxAdds /\ \A j \in DOMAIN adds' : adds'[j] \subseteq Issues
      BY <1>3, <2>1, PatchRequests DEF PatchTypeOK
    <2>3. /\ patchTwice' \subseteq Issues /\ patchAsked' \subseteq Issues /\ patchSpinning' \in BOOLEAN
          /\ UNCHANGED <<typed, listed, error, available, chosen, marked, patchStored>>
      BY <1>3, <2>1 DEF AddIssues, binaries, PatchTypeOK
    <2> QED
      BY <2>2, <2>3 DEF PatchTypeOK
  <1>4. CASE PatchSave
    <2>1. /\ patchStored' = [issues |-> listed, binaries |-> chosen] /\ patchAsked' = ToSet(listed)
          /\ typed' = {} /\ DOMAIN adds' = {} /\ patchSpinning' = FALSE /\ error' = FALSE /\ marked' = {}
          /\ UNCHANGED <<listed, patchTwice, available, chosen>>
      BY <1>4 DEF PatchSave
    <2>2. patchStored' \in [issues: Seq(PatchValid), binaries: SUBSET Binaries]
      BY <2>1 DEF PatchTypeOK
    <2>3. ToSet(listed) \subseteq PatchValid
      BY DEF ToSet, PatchTypeOK
    <2> QED
      BY <2>1, <2>2, <2>3, PatchinfoAssumption DEF PatchTypeOK
  <1>5. ASSUME NEW i \in DOMAIN adds, Added(i) PROVE PatchTypeOK'
    <2>1. PICK new \in SetToSeqs(adds[i]) : listed' = listed \o new
      BY <1>5 DEF Added
    <2>2. listed' \in Seq(PatchValid)
      BY <1>5, <2>1, PatchAppended DEF Added
    <2>3. DOMAIN adds' \subseteq 1..MaxAdds /\ \A j \in DOMAIN adds' : adds'[j] \subseteq Issues
      BY <1>5, PatchRequests DEF Added, PatchTypeOK
    <2> QED
      BY <1>5, <2>2, <2>3 DEF Added, binaries, PatchTypeOK
  <1>6. ASSUME NEW i \in DOMAIN adds, Failed(i) PROVE PatchTypeOK'
    <2>1. DOMAIN adds' \subseteq 1..MaxAdds /\ \A j \in DOMAIN adds' : adds'[j] \subseteq Issues
      BY <1>6, PatchRequests DEF Failed, PatchTypeOK
    <2>2. error' \in BOOLEAN
      BY <1>6 DEF Failed, PatchTypeOK
    <2> QED
      BY <1>6, <2>1, <2>2 DEF Failed, binaries, PatchTypeOK
  <1>7. ASSUME NEW k \in 1..Len(listed), DeleteIssue(k) PROVE PatchTypeOK'
    <2>1. listed' \in Seq(PatchValid)
      BY <1>7, PatchDeleted
    <2>2. patchAsked' \subseteq Issues
      BY <1>7 DEF DeleteIssue, PatchTypeOK
    <2> QED
      BY <1>7, <2>1, <2>2 DEF DeleteIssue, binaries, PatchTypeOK
  <1>8. ASSUME NEW b \in Binaries, Mark(b) PROVE PatchTypeOK'
    BY <1>8 DEF Mark, issues, PatchTypeOK
  <1>9. ASSUME NEW from \in {"available", "chosen"}, MoveMarked(from) PROVE PatchTypeOK'
    <2>1. available' \subseteq Binaries /\ chosen' \subseteq Binaries
      BY <1>9, PatchMoved DEF MoveMarked
    <2> QED
      BY <1>9, <2>1 DEF MoveMarked, issues, PatchTypeOK
  <1>10. ASSUME NEW from \in {"available", "chosen"}, MoveAll(from) PROVE PatchTypeOK'
    <2>1. available' \subseteq Binaries /\ chosen' \subseteq Binaries
      BY <1>10, PatchMoved DEF MoveAll
    <2> QED
      BY <1>10, <2>1 DEF MoveAll, issues, PatchTypeOK
  <1>11. CASE UNCHANGED patchVars
    BY <1>11 DEF patchVars, issues, binaries, PatchTypeOK
  <1> QED
    BY <1>1, <1>2, <1>3, <1>4, <1>5, <1>6, <1>7, <1>8, <1>9, <1>10, <1>11 DEF PatchNext

\* Every variable of the form keeps its type, whatever is typed, answered,
\* deleted and moved.
THEOREM PatchTypeCorrect == PatchSpec => []PatchTypeOK
  BY PatchTypeInit, PatchTypeNext, PTL DEF PatchSpec

-----------------------------------------------------------------------------

\* The form starts without a request.
LEMMA PatchSafeInit == PatchInit => PatchIInv
  <1> SUFFICES ASSUME PatchInit PROVE PatchIInv
    OBVIOUS
  <1>1. listed = <<>> /\ DOMAIN adds = {} /\ patchAsked = {}
    BY DEF PatchInit
  <1>2. AskedAreListed /\ PatchListedOnceUnlessTwice /\ PatchApart
    BY <1>1 DEF AskedAreListed, PatchListedOnceUnlessTwice, PatchApart
  <1>3. BinariesParted
    BY DEF PatchInit, BinariesParted
  <1> QED
    BY <1>2, <1>3 DEF PatchIInv, PatchKept

\* The issues are left alone, or the binaries are.
LEMMA PatchIssuesKept ==
  ASSUME PatchIInv, UNCHANGED <<listed, adds, patchTwice, patchAsked>>
  PROVE  AskedAreListed' /\ PatchListedOnceUnlessTwice' /\ PatchApart'
  BY DEF PatchIInv, PatchKept, AskedAreListed, PatchListedOnceUnlessTwice, PatchApart, PatchUnder

\* The binaries stay parted as long as they stay where they are.
LEMMA PatchBinariesKept ==
  ASSUME PatchIInv, UNCHANGED <<available, chosen>> PROVE BinariesParted'
  BY DEF PatchIInv, PatchKept, BinariesParted

\* An answer is appended: what it brings is new, or was asked for twice.
LEMMA PatchAddedSafe ==
  ASSUME PatchTypeOK, PatchIInv, NEW i \in DOMAIN adds, Added(i)
  PROVE  AskedAreListed' /\ PatchListedOnceUnlessTwice' /\ PatchApart'
  <1>1. PICK new \in SetToSeqs(adds[i]) : listed' = listed \o new
    BY DEF Added
  <1>2. /\ Len(listed) \in Nat /\ Len(new) \in Nat /\ Len(listed') = Len(listed) + Len(new)
        /\ \A k \in 1..Len(listed') :
             listed'[k] = IF k <= Len(listed) THEN listed[k] ELSE new[k - Len(listed)]
        /\ \A k \in 1..Len(new) : new[k] \in adds[i]
        /\ \A j, k \in 1..Len(new) : j # k => new[j] # new[k]
        /\ ToSet(listed') = ToSet(listed) \cup adds[i]
    BY <1>1, PatchAppended DEF Added
  <1>3. /\ DOMAIN adds' = DOMAIN adds \ {i} /\ \A j \in DOMAIN adds' : adds'[j] = adds[j]
        /\ UNCHANGED <<patchTwice, patchAsked>>
    BY PatchRequests DEF Added
  <1>4. PatchUnder \subseteq PatchUnder' \cup adds[i]
    BY <1>3 DEF PatchUnder
  <1>5. AskedAreListed'
    BY <1>2, <1>3, <1>4 DEF PatchIInv, PatchKept, AskedAreListed
  <1>6. PatchApart'
    BY <1>2, <1>3 DEF PatchIInv, PatchApart
  <1>7. PatchListedOnceUnlessTwice'
    <2> SUFFICES ASSUME NEW j \in 1..Len(listed'), NEW k \in 1..Len(listed'), j # k,
                        listed'[j] = listed'[k]
                 PROVE  listed'[j] \in patchTwice
      BY <1>3 DEF PatchListedOnceUnlessTwice
    <2>1. ASSUME NEW n \in 1..Len(listed')
          PROVE  \/ n \in 1..Len(listed) /\ listed'[n] = listed[n]
                 \/ n - Len(listed) \in 1..Len(new) /\ listed'[n] = new[n - Len(listed)]
      BY <1>2
    <2>2. CASE j \in 1..Len(listed) /\ k \in 1..Len(listed) /\ listed'[j] = listed[j] /\ listed'[k] = listed[k]
      BY <2>2 DEF PatchIInv, PatchKept, PatchListedOnceUnlessTwice
    <2>3. CASE /\ j - Len(listed) \in 1..Len(new) /\ listed'[j] = new[j - Len(listed)]
               /\ k - Len(listed) \in 1..Len(new) /\ listed'[k] = new[k - Len(listed)]
      <3>1. j - Len(listed) # k - Len(listed)
        BY <1>2
      <3> QED
        BY <1>2, <2>3, <3>1
    <2>4. \A n \in 1..Len(listed) : listed[n] \in ToSet(listed)
      <3>1. DOMAIN listed = 1..Len(listed)
        BY DEF PatchTypeOK
      <3> QED
        BY <3>1 DEF ToSet
    <2>5. CASE \/ /\ j \in 1..Len(listed) /\ listed'[j] = listed[j]
                  /\ k - Len(listed) \in 1..Len(new) /\ listed'[k] = new[k - Len(listed)]
               \/ /\ k \in 1..Len(listed) /\ listed'[k] = listed[k]
                  /\ j - Len(listed) \in 1..Len(new) /\ listed'[j] = new[j - Len(listed)]
      <3>1. listed'[j] \in adds[i] \cap ToSet(listed)
        BY <1>2, <2>4, <2>5
      <3> QED
        BY <3>1 DEF PatchIInv, PatchApart
    <2> QED
      BY <2>1, <2>2, <2>3, <2>5
  <1> QED
    BY <1>5, <1>6, <1>7

\* Each step keeps the invariant: the issues come and go, the binaries move.
LEMMA PatchSafeNext == PatchTypeOK /\ PatchIInv /\ [PatchNext]_patchVars => PatchIInv'
  <1> SUFFICES ASSUME PatchTypeOK, PatchIInv, [PatchNext]_patchVars PROVE PatchIInv'
    OBVIOUS
  <1> USE DEF PatchIInv, PatchKept
  <1>1. ASSUME NEW is \in SUBSET Issues, PatchType(is) PROVE PatchIInv'
    BY <1>1, PatchIssuesKept, PatchBinariesKept DEF PatchType, binaries
  <1>2. CASE AddNothing
    BY <1>2, PatchIssuesKept, PatchBinariesKept DEF AddNothing, binaries
  <1>3. CASE AddIssues
    <2>1. PICK i \in (1..MaxAdds) \ DOMAIN adds :
            /\ DOMAIN adds' = DOMAIN adds \cup {i} /\ adds'[i] = Ask
            /\ \A j \in DOMAIN adds : j # i /\ adds'[j] = adds[j]
      BY <1>3, PatchRequests
    <2>2. /\ patchTwice' = patchTwice \cup (Ask \cap PatchUnder) /\ patchAsked' = patchAsked \cup Ask
          /\ UNCHANGED <<listed, available, chosen>>
      BY <1>3 DEF AddIssues, binaries
    <2>3. AskedAreListed'
      <3>1. PatchUnder' = PatchUnder \cup Ask
        BY <2>1 DEF PatchUnder
      <3> QED
        BY <2>2, <3>1 DEF AskedAreListed
    <2>4. PatchListedOnceUnlessTwice'
      BY <2>2 DEF PatchListedOnceUnlessTwice
    <2>5. PatchApart'
      <3>1. ASSUME NEW j \in DOMAIN adds PROVE Ask \cap adds[j] \subseteq patchTwice'
        BY <2>2 DEF PatchUnder
      <3>2. Ask \cap ToSet(listed) = {}
        BY DEF Ask
      <3>3. \A j, k \in DOMAIN adds' : j # k => adds'[j] \cap adds'[k] \subseteq patchTwice'
        BY <2>1, <2>2, <3>1 DEF PatchApart
      <3>4. \A j \in DOMAIN adds' : adds'[j] \cap ToSet(listed') \subseteq patchTwice'
        BY <2>1, <2>2, <3>2 DEF PatchApart
      <3> QED
        BY <3>3, <3>4 DEF PatchApart
    <2> QED
      BY <2>2, <2>3, <2>4, <2>5, PatchBinariesKept
  <1>4. CASE PatchSave
    <2>1. /\ patchAsked' = ToSet(listed) /\ DOMAIN adds' = {}
          /\ UNCHANGED <<listed, patchTwice, available, chosen>>
      BY <1>4 DEF PatchSave
    <2> QED
      BY <2>1, PatchBinariesKept DEF AskedAreListed, PatchListedOnceUnlessTwice, PatchApart
  <1>5. ASSUME NEW i \in DOMAIN adds, Added(i) PROVE PatchIInv'
    <2>1. BinariesParted'
      BY <1>5, PatchBinariesKept DEF Added, binaries
    <2> QED
      BY <1>5, <2>1, PatchAddedSafe
  <1>6. ASSUME NEW i \in DOMAIN adds, Failed(i) PROVE PatchIInv'
    <2>1. DOMAIN adds' = DOMAIN adds \ {i} /\ \A j \in DOMAIN adds' : adds'[j] = adds[j]
      BY <1>6, PatchRequests DEF Failed
    <2>2. /\ UNCHANGED <<listed, patchTwice, available, chosen>>
          /\ patchAsked' = patchAsked \ {x \in adds[i] : /\ x \notin ToSet(listed)
                                                         /\ \A j \in DOMAIN adds' : x \notin adds[j]}
      BY <1>6 DEF Failed, binaries
    <2>3. AskedAreListed'
      <3> SUFFICES ASSUME NEW x \in patchAsked', x \notin ToSet(listed) PROVE x \in PatchUnder'
        BY <2>2 DEF AskedAreListed
      <3>1. PICK j \in DOMAIN adds : x \in adds[j]
        BY <2>2 DEF AskedAreListed, PatchUnder
      <3>2. \E k \in DOMAIN adds' : x \in adds[k]
        BY <2>1, <2>2, <3>1
      <3> QED
        BY <2>1, <3>2 DEF PatchUnder
    <2> QED
      BY <2>1, <2>2, <2>3, PatchBinariesKept DEF PatchListedOnceUnlessTwice, PatchApart
  <1>7. ASSUME NEW k \in 1..Len(listed), DeleteIssue(k) PROVE PatchIInv'
    <2>1. /\ UNCHANGED <<adds, patchTwice, available, chosen>>
          /\ patchAsked' = IF listed[k] \in ToSet(listed') THEN patchAsked ELSE patchAsked \ {listed[k]}
      BY <1>7 DEF DeleteIssue, binaries
    <2>2. /\ ToSet(listed') \subseteq ToSet(listed) /\ ToSet(listed) \ {listed[k]} \subseteq ToSet(listed')
          /\ PatchListedOnceUnlessTwice'
      BY <1>7, PatchDeleted
    <2>3. AskedAreListed'
      BY <2>1, <2>2 DEF AskedAreListed, PatchUnder
    <2>4. PatchApart'
      BY <2>1, <2>2 DEF PatchApart
    <2> QED
      BY <2>1, <2>2, <2>3, <2>4, PatchBinariesKept
  <1>8. ASSUME NEW b \in Binaries, Mark(b) PROVE PatchIInv'
    BY <1>8, PatchIssuesKept, PatchBinariesKept DEF Mark, issues
  <1>9. ASSUME NEW from \in {"available", "chosen"}, MoveMarked(from) PROVE PatchIInv'
    <2>1. BinariesParted'
      BY <1>9, PatchMoved DEF MoveMarked
    <2> QED
      BY <1>9, <2>1, PatchIssuesKept DEF MoveMarked, issues
  <1>10. ASSUME NEW from \in {"available", "chosen"}, MoveAll(from) PROVE PatchIInv'
    <2>1. BinariesParted'
      BY <1>10, PatchMoved DEF MoveAll
    <2> QED
      BY <1>10, <2>1, PatchIssuesKept DEF MoveAll, issues
  <1>11. CASE UNCHANGED patchVars
    BY <1>11, PatchIssuesKept, PatchBinariesKept DEF patchVars, issues, binaries
  <1> QED
    BY <1>1, <1>2, <1>3, <1>4, <1>5, <1>6, <1>7, <1>8, <1>9, <1>10, <1>11 DEF PatchNext

\* An issue that was asked for is listed or on its way, an issue is listed once
\* unless it was asked for twice at a time, and each binary is in one of the two
\* lists, in whatever order answers, failures, deletions and moves come
\* (patchinfo.js:21-90, 141).
THEOREM PatchIsKept == PatchSpec => []PatchKept
  <1>1. PatchIInv => PatchKept
    BY DEF PatchIInv
  <1> QED
    BY <1>1, PatchTypeCorrect, PatchSafeInit, PatchSafeNext, PTL DEF PatchSpec

\* A save stores the binaries of the list, whichever of them are selected
\* (patchinfo.js:117).
THEOREM PatchSavesTheList == PatchSpec => SavesTheList
  <1>1. PatchNext => (patchStored' # patchStored => patchStored'.binaries = chosen)
    BY DEF PatchNext, PatchType, AddNothing, AddIssues, PatchSave, Added, Failed, DeleteIssue, Mark,
           MoveMarked, MoveAll
  <1> QED
    BY <1>1, PTL DEF PatchSpec, SavesTheList

-----------------------------------------------------------------------------
(* RoleBoxes.  A check box that was clicked once since the page was loaded, *)
(* and whose requests all came through, has one request at most; what it    *)
(* asks for is what the box shows, and once it is handled, the role is so.  *)

RoleSingle ==
  \A i, j \in RoleUnder :
    roleRequests[i].cell = roleRequests[j].cell /\ roleRequests[i].cell \notin again => i = j
RolePresent ==
  \A i \in RoleUnder : roleRequests[i].cell \notin again => roleRequests[i].here
RoleTied ==
  \A i \in RoleUnder :
    LET r == roleRequests[i] IN
    r.cell \notin again \cup roleFailed =>
      /\ r.pc = "sent" => (r.op = "save" <=> r.cell \in boxes)
      /\ r.pc = "answered" => (r.cell \in boxes <=> r.cell \in granted)
RoleIInv == RoleSingle /\ RolePresent /\ RoleTied /\ RolesAgree

\* A click sends a request, and leaves the others alone.
LEMMA RoleClicked ==
  ASSUME RoleTypeOK, NEW c \in RoleCells, RoleClick(c)
  PROVE  \E i \in (1..MaxRoleRequests) \ RoleUnder :
           /\ RoleUnder' = RoleUnder \cup {i}
           /\ \A j \in RoleUnder : j # i /\ roleRequests'[j] = roleRequests[j]
           /\ roleRequests'[i] \in RoleRequest
           /\ roleRequests'[i].cell = c /\ roleRequests'[i].pc = "sent" /\ roleRequests'[i].here
           /\ (roleRequests'[i].op = "save" <=> c \in boxes')
  <1>1. PICK i \in (1..MaxRoleRequests) \ RoleUnder :
          roleRequests' = [j \in RoleUnder \cup {i} |->
            IF j # i THEN roleRequests[j]
            ELSE [cell |-> c, op |-> IF c \in boxes' THEN "save" ELSE "remove",
                  pc |-> "sent", here |-> TRUE]]
    BY DEF RoleClick
  <1>2. RoleUnder' = RoleUnder \cup {i} /\ \A j \in RoleUnder : j # i /\ roleRequests'[j] = roleRequests[j]
    BY <1>1 DEF RoleUnder
  <1>3. roleRequests'[i] = [cell |-> c, op |-> IF c \in boxes' THEN "save" ELSE "remove",
                            pc |-> "sent", here |-> TRUE]
    BY <1>1
  <1>4. roleRequests'[i].op = IF c \in boxes' THEN "save" ELSE "remove"
    BY <1>3
  <1>5. roleRequests'[i] \in RoleRequest
    BY <1>3 DEF RoleRequest
  <1> QED BY <1>2, <1>3, <1>4, <1>5

\* What is left without a request.
LEMMA RoleLeft ==
  ASSUME NEW i \in RoleUnder, roleRequests' = RoleWithout(i)
  PROVE  RoleUnder' = RoleUnder \ {i} /\ \A j \in RoleUnder' : roleRequests'[j] = roleRequests[j]
  BY DEF RoleWithout, RoleUnder

\* A request is handled: it is answered, or was of a page that is gone.
LEMMA RoleHandled ==
  ASSUME RoleTypeOK, NEW i \in RoleUnder, RoleHandle(i)
  PROVE  /\ RoleUnder' \subseteq RoleUnder
         /\ \A j \in RoleUnder : j # i => j \in RoleUnder' /\ roleRequests'[j] = roleRequests[j]
         /\ roleRequests[i].here => i \in RoleUnder'
         /\ i \in RoleUnder' => /\ roleRequests'[i] \in RoleRequest
                                /\ roleRequests'[i].cell = roleRequests[i].cell
                                /\ roleRequests'[i].here = roleRequests[i].here
                                /\ roleRequests'[i].pc = "answered"
                                /\ roleRequests[i].here
  <1>1. roleRequests[i] \in RoleRequest
    BY DEF RoleTypeOK
  <1>2. CASE roleRequests[i].here
    <2>1. roleRequests' = [roleRequests EXCEPT ![i].pc = "answered"]
      BY <1>2 DEF RoleHandle
    <2>2. RoleUnder' = RoleUnder /\ roleRequests'[i] = [roleRequests[i] EXCEPT !.pc = "answered"]
      BY <2>1 DEF RoleUnder
    <2>3. [roleRequests[i] EXCEPT !.pc = "answered"] \in RoleRequest
      BY <1>1 DEF RoleRequest
    <2>4. \A j \in RoleUnder : j # i => roleRequests'[j] = roleRequests[j]
      BY <2>1 DEF RoleUnder
    <2>5. /\ roleRequests'[i].cell = roleRequests[i].cell /\ roleRequests'[i].pc = "answered"
          /\ roleRequests'[i].here = roleRequests[i].here
      BY <1>1, <2>2 DEF RoleRequest
    <2> QED BY <1>2, <2>2, <2>3, <2>4, <2>5
  <1>3. CASE ~roleRequests[i].here
    BY <1>3, RoleLeft DEF RoleHandle
  <1> QED BY <1>2, <1>3

\* The page is loaded anew: requests that are not handled are of a page that
\* is gone.
LEMMA RoleLoaded ==
  ASSUME RoleTypeOK, RoleLoad
  PROVE  /\ RoleUnder' \subseteq RoleUnder
         /\ \A i \in RoleUnder' : /\ roleRequests'[i] \in RoleRequest
                                  /\ roleRequests'[i].cell \in again'
                                  /\ roleRequests'[i].cell \in RoleCells
         /\ again' \subseteq RoleCells
  <1>1. \A q \in RoleRequest : LET a == [q EXCEPT !.here = FALSE] IN
          a \in RoleRequest /\ a.cell = q.cell /\ q.cell \in RoleCells
    BY DEF RoleRequest
  <1>2. /\ RoleUnder' = {j \in RoleUnder : roleRequests[j].pc = "sent"}
        /\ \A i \in RoleUnder' : roleRequests'[i] = [roleRequests[i] EXCEPT !.here = FALSE]
    BY DEF RoleLoad, RoleUnder
  <1>3. again' = {roleRequests[i].cell : i \in RoleUnder'}
    BY DEF RoleLoad, RoleUnder
  <1>4. \A i \in RoleUnder' : /\ roleRequests'[i] \in RoleRequest
                              /\ roleRequests'[i].cell = roleRequests[i].cell
                              /\ roleRequests[i].cell \in RoleCells
    <2> SUFFICES ASSUME NEW i \in RoleUnder'
                 PROVE  /\ roleRequests'[i] \in RoleRequest
                        /\ roleRequests'[i].cell = roleRequests[i].cell
                        /\ roleRequests[i].cell \in RoleCells
      OBVIOUS
    <2>1. roleRequests[i] \in RoleRequest
      BY <1>2 DEF RoleTypeOK
    <2>2. roleRequests'[i] = [roleRequests[i] EXCEPT !.here = FALSE]
      BY <1>2
    <2> QED BY <1>1, <2>1, <2>2
  <1> QED BY <1>2, <1>3, <1>4

\* Boxes, roles and requests keep their types.
LEMMA RoleTypeStep == RoleTypeOK /\ [RoleNext]_roleVars => RoleTypeOK'
  <1> SUFFICES ASSUME RoleTypeOK, [RoleNext]_roleVars PROVE RoleTypeOK'
    OBVIOUS
  <1>1. ASSUME NEW c \in RoleCells, RoleClick(c) PROVE RoleTypeOK'
    <2>1. PICK i \in (1..MaxRoleRequests) \ RoleUnder :
            /\ RoleUnder' = RoleUnder \cup {i} /\ roleRequests'[i] \in RoleRequest
            /\ \A j \in RoleUnder : roleRequests'[j] = roleRequests[j]
      BY <1>1, RoleClicked
    <2>2. RoleUnder' \subseteq 1..MaxRoleRequests /\ \A j \in RoleUnder' : roleRequests'[j] \in RoleRequest
      BY <2>1 DEF RoleTypeOK
    <2> QED BY <1>1, <2>2 DEF RoleTypeOK, RoleClick
  <1>2. ASSUME NEW i \in RoleUnder, RoleHandle(i) PROVE RoleTypeOK'
    <2>1. RoleUnder' \subseteq 1..MaxRoleRequests /\ \A j \in RoleUnder' : roleRequests'[j] \in RoleRequest
      BY <1>2, RoleHandled DEF RoleTypeOK
    <2>2. roleRequests[i].cell \in RoleCells
      BY DEF RoleTypeOK, RoleRequest
    <2> QED BY <1>2, <2>1, <2>2 DEF RoleTypeOK, RoleHandle
  <1>3. ASSUME NEW i \in RoleUnder, RoleSuccess(i) PROVE RoleTypeOK'
    <2>1. RoleUnder' \subseteq 1..MaxRoleRequests /\ \A j \in RoleUnder' : roleRequests'[j] \in RoleRequest
      BY <1>3, RoleLeft DEF RoleTypeOK, RoleSuccess
    <2> QED BY <1>3, <2>1 DEF RoleTypeOK, RoleSuccess
  <1>4. ASSUME NEW i \in RoleUnder, Error(i) PROVE RoleTypeOK'
    <2>1. RoleUnder' \subseteq 1..MaxRoleRequests /\ \A j \in RoleUnder' : roleRequests'[j] \in RoleRequest
      BY <1>4, RoleLeft DEF RoleTypeOK, Error
    <2>2. roleRequests[i].cell \in RoleCells
      BY DEF RoleTypeOK, RoleRequest
    <2>3. roleFailures' \in 0..MaxRoleFailures
      BY <1>4, RoleBoxesAssumption DEF RoleTypeOK, Error
    <2> QED BY <1>4, <2>1, <2>2, <2>3 DEF RoleTypeOK, Error
  <1>5. ASSUME RoleLoad PROVE RoleTypeOK'
    <2>1. /\ RoleUnder' \subseteq 1..MaxRoleRequests
          /\ \A j \in RoleUnder' : roleRequests'[j] \in RoleRequest
          /\ again' \subseteq RoleCells
      BY <1>5, RoleLoaded DEF RoleTypeOK
    <2>2. editable' \in BOOLEAN
      BY <1>5 DEF RoleLoad
    <2>3. granted' \subseteq RoleCells /\ boxes' \subseteq RoleCells /\ reloading' \in BOOLEAN
          /\ roleSpinning' = {} /\ roleFailed' = {} /\ roleFailures' \in 0..MaxRoleFailures
      BY <1>5 DEF RoleTypeOK, RoleLoad
    <2> QED BY <2>1, <2>2, <2>3 DEF RoleTypeOK
  <1>6. CASE UNCHANGED roleVars
    BY <1>6 DEF roleVars, RoleTypeOK, RoleUnder
  <1> QED BY <1>1, <1>2, <1>3, <1>4, <1>5, <1>6 DEF RoleNext

\* Every variable of RoleBoxes keeps its type: the page's check boxes and the
\* requests for them are of its users and roles (users_groups.js).
THEOREM RoleTypeCorrect == RoleSpec => []RoleTypeOK
  <1>1. RoleInit => RoleTypeOK
    <2>1. RoleInit => RoleUnder = {}
      BY DEF RoleInit, RoleUnder
    <2>2. RoleInit => 0 \in 0..MaxRoleFailures
      BY RoleBoxesAssumption
    <2>3. RoleInit => /\ granted \subseteq RoleCells /\ boxes \subseteq RoleCells
                      /\ editable \in BOOLEAN /\ reloading \in BOOLEAN /\ roleFailures = 0
                      /\ roleSpinning = {} /\ again = {} /\ roleFailed = {}
      BY DEF RoleInit
    <2> QED BY <2>1, <2>2, <2>3 DEF RoleTypeOK
  <1> QED BY <1>1, RoleTypeStep, PTL DEF RoleSpec

\* A click ties the box to its request.
LEMMA RoleClickStep ==
  ASSUME RoleTypeOK, RoleIInv, NEW c \in RoleCells, RoleClick(c)
  PROVE  RoleIInv'
  <1>1. PICK i \in (1..MaxRoleRequests) \ RoleUnder :
          /\ RoleUnder' = RoleUnder \cup {i}
          /\ \A j \in RoleUnder : j # i /\ roleRequests'[j] = roleRequests[j]
          /\ roleRequests'[i] \in RoleRequest
          /\ roleRequests'[i].cell = c /\ roleRequests'[i].pc = "sent" /\ roleRequests'[i].here
          /\ (roleRequests'[i].op = "save" <=> c \in boxes')
    BY RoleClicked
  <1>2. /\ \A d \in RoleCells : d # c => (d \in boxes' <=> d \in boxes) /\ RoleOf(d)' = RoleOf(d)
                                         /\ Here(d)' = Here(d)
        /\ i \in RoleOf(c)' /\ i \in Here(c)'
    BY <1>1 DEF RoleClick, RoleOf, Here
  <1>3. /\ again \subseteq again'
        /\ RoleOf(c) # {} => c \in again'
        /\ \A d \in RoleCells : d # c => (d \in again' <=> d \in again)
    BY DEF RoleClick
  <1>4. UNCHANGED <<granted, editable, reloading, roleFailed>> /\ roleSpinning' = roleSpinning \cup {c}
    BY DEF RoleClick
  <1>5. \A j \in RoleUnder : roleRequests[j].cell \in RoleCells /\ (roleRequests[j].cell = c => c \in again')
    BY <1>3 DEF RoleTypeOK, RoleRequest, RoleOf
  <1>6. RoleSingle' /\ RolePresent'
    BY <1>1, <1>3, <1>5 DEF RoleIInv, RoleSingle, RolePresent
  <1>7. RoleTied'
    <2> SUFFICES ASSUME NEW j \in RoleUnder', roleRequests'[j].cell \notin again' \cup roleFailed'
                 PROVE  /\ roleRequests'[j].pc = "sent" =>
                             (roleRequests'[j].op = "save" <=> roleRequests'[j].cell \in boxes')
                        /\ roleRequests'[j].pc = "answered" =>
                             (roleRequests'[j].cell \in boxes' <=> roleRequests'[j].cell \in granted')
      BY DEF RoleTied
    <2>1. CASE j = i
      BY <1>1, <2>1
    <2>2. CASE j \in RoleUnder
      <3>1. roleRequests'[j] = roleRequests[j] /\ roleRequests[j].cell # c
            /\ roleRequests[j].cell \in RoleCells
        BY <1>1, <1>5, <2>2
      <3> QED BY <1>2, <1>3, <1>4, <2>2, <3>1 DEF RoleIInv, RoleTied
    <2> QED BY <1>1, <2>1, <2>2
  <1>8. RolesAgree'
    <2>1. RoleCells' = RoleCells /\ Own' = Own
      BY DEF RoleCells, Own
    <2>2. BoxesAgree'
      BY <1>2, <1>3, <1>4, <2>1 DEF RoleIInv, RolesAgree, BoxesAgree
    <2>3. SpinsWhileSent'
      BY <1>2, <1>3, <1>4, <2>1 DEF RoleIInv, RolesAgree, SpinsWhileSent
    <2>4. NotLeftEditable'
      <3>1. Own \in RoleCells
        BY RoleBoxesAssumption DEF Own, RoleCells
      <3>2. RoleOf(Own)' = {} => RoleOf(Own) = {} /\ c # Own
        BY <1>2, <3>1
      <3> QED BY <1>3, <1>4, <3>1, <3>2 DEF RoleIInv, RolesAgree, NotLeftEditable
    <2> QED BY <2>2, <2>3, <2>4 DEF RolesAgree
  <1> QED BY <1>6, <1>7, <1>8 DEF RoleIInv

\* The server handles a request: the role is as the box shows.
LEMMA RoleHandleStep ==
  ASSUME RoleTypeOK, RoleIInv, NEW i \in RoleUnder, RoleHandle(i)
  PROVE  RoleIInv'
  <1> DEFINE c == roleRequests[i].cell
  <1>1. /\ RoleUnder' \subseteq RoleUnder
        /\ \A j \in RoleUnder : j # i => j \in RoleUnder' /\ roleRequests'[j] = roleRequests[j]
        /\ roleRequests[i].here => i \in RoleUnder'
        /\ i \in RoleUnder' => /\ roleRequests'[i] \in RoleRequest
                               /\ roleRequests'[i].cell = c
                               /\ roleRequests'[i].here = roleRequests[i].here
                               /\ roleRequests'[i].pc = "answered"
                               /\ roleRequests[i].here
    BY RoleHandled
  <1>2. /\ UNCHANGED <<boxes, roleSpinning, editable, reloading, again>>
        /\ roleFailed \subseteq roleFailed' /\ roleRequests[i].pc = "sent" /\ c \in RoleCells
    BY DEF RoleHandle, RoleTypeOK, RoleRequest
  <1>3. \A d \in RoleCells : d # c => (d \in granted' <=> d \in granted)
    BY DEF RoleHandle
  <1>4. c \notin again \cup roleFailed' => (c \in boxes <=> c \in granted')
    <2> SUFFICES ASSUME c \notin again, c \notin roleFailed' PROVE c \in boxes <=> c \in granted'
      OBVIOUS
    <2>1. c \notin roleFailed /\ (c \in granted' <=> roleRequests[i].op = "save")
      BY DEF RoleHandle
    <2>2. roleRequests[i].op = "save" <=> c \in boxes
      BY <1>2, <2>1 DEF RoleIInv, RoleTied
    <2> QED BY <2>1, <2>2
  <1>5. \A j \in RoleUnder : roleRequests[j].cell \in RoleCells
    BY DEF RoleTypeOK, RoleRequest
  <1>6. c \notin again => roleRequests[i].here
    BY DEF RoleIInv, RolePresent
  <1>7. \A d \in RoleCells : d \notin again => RoleOf(d)' = RoleOf(d) /\ Here(d)' = Here(d)
    BY <1>1, <1>6 DEF RoleOf, Here
  <1> HIDE DEF c
  <1>8. RoleSingle' /\ RolePresent'
    BY <1>1, <1>2 DEF RoleIInv, RoleSingle, RolePresent, c
  <1>9. RoleTied'
    <2> SUFFICES ASSUME NEW j \in RoleUnder', roleRequests'[j].cell \notin again' \cup roleFailed'
                 PROVE  /\ roleRequests'[j].pc = "sent" =>
                             (roleRequests'[j].op = "save" <=> roleRequests'[j].cell \in boxes')
                        /\ roleRequests'[j].pc = "answered" =>
                             (roleRequests'[j].cell \in boxes' <=> roleRequests'[j].cell \in granted')
      BY DEF RoleTied
    <2>1. CASE j = i
      BY <1>1, <1>2, <1>4, <2>1
    <2>2. CASE j # i
      <3>1. roleRequests'[j] = roleRequests[j] /\ j \in RoleUnder /\ roleRequests[j].cell \in RoleCells
            /\ roleRequests[j].cell \notin again
        BY <1>1, <1>2, <1>5, <2>2
      <3>2. roleRequests[j].cell # c
        BY <3>1, <2>2 DEF RoleIInv, RoleSingle, c
      <3> QED BY <1>2, <1>3, <3>1, <3>2 DEF RoleIInv, RoleTied
    <2> QED BY <2>1, <2>2
  <1>10. RolesAgree'
    <2>1. RoleCells' = RoleCells /\ Own' = Own /\ Own \in RoleCells
      BY RoleBoxesAssumption DEF RoleCells, Own
    <2>2. \A d \in RoleCells : RoleOf(d) = {} => d # c
      BY DEF RoleOf, c
    <2>3. BoxesAgree'
      BY <1>2, <1>3, <1>7, <2>1, <2>2 DEF RoleIInv, RolesAgree, BoxesAgree
    <2>4. SpinsWhileSent'
      BY <1>2, <1>7, <2>1 DEF RoleIInv, RolesAgree, SpinsWhileSent
    <2>5. NotLeftEditable'
      BY <1>2, <1>3, <1>7, <2>1, <2>2 DEF RoleIInv, RolesAgree, NotLeftEditable
    <2> QED BY <2>3, <2>4, <2>5 DEF RolesAgree
  <1> QED BY <1>8, <1>9, <1>10 DEF RoleIInv

\* A request is done, by success or an error: its box, if it is the only one,
\* is no longer spinning.
LEMMA RoleDoneStep ==
  ASSUME RoleTypeOK, RoleIInv, NEW i \in RoleUnder, RoleSuccess(i) \/ Error(i)
  PROVE  RoleIInv'
  <1> DEFINE c == roleRequests[i].cell
  <1>1. RoleUnder' = RoleUnder \ {i} /\ \A j \in RoleUnder' : roleRequests'[j] = roleRequests[j]
    BY RoleLeft DEF RoleSuccess, Error
  <1>2. /\ UNCHANGED <<granted, boxes, editable, again>>
        /\ roleFailed \subseteq roleFailed' /\ roleSpinning' = roleSpinning \ {c} /\ c \in RoleCells
        /\ reloading => reloading'
    BY DEF RoleSuccess, Error, RoleTypeOK, RoleRequest
  <1>3. c \notin again \cup roleFailed' =>
          /\ c \in boxes <=> c \in granted
          /\ c \notin boxes /\ c[2] = "maintainer" => reloading'
    <2>1. CASE Error(i)
      BY <2>1 DEF Error
    <2>2. CASE RoleSuccess(i)
      BY <2>2 DEF RoleSuccess, RoleIInv, RoleTied
    <2> QED BY <2>1, <2>2
  <1>4. \A d \in RoleCells : d # c => RoleOf(d)' = RoleOf(d) /\ Here(d)' = Here(d)
    BY <1>1 DEF RoleOf, Here
  <1>5. \A d \in RoleCells : d = c /\ d \notin again => RoleOf(d)' = {} /\ Here(d)' = {}
    <2>1. c \notin again => \A j \in RoleUnder : roleRequests[j].cell = c => j = i
      BY DEF RoleIInv, RoleSingle
    <2>2. \A d \in RoleCells : d = c /\ d \notin again => RoleOf(d)' = {}
      BY <1>1, <2>1 DEF RoleOf
    <2> QED BY <2>2 DEF Here
  <1>6. Own \in RoleCells /\ Own[2] = "maintainer" /\ RoleCells' = RoleCells /\ Own' = Own
    BY RoleBoxesAssumption DEF Own, RoleCells
  <1> HIDE DEF c
  <1>7. RoleSingle' /\ RolePresent' /\ RoleTied'
    BY <1>1, <1>2 DEF RoleIInv, RoleSingle, RolePresent, RoleTied
  <1>8. BoxesAgree'
    BY <1>2, <1>3, <1>4, <1>6 DEF RoleIInv, RolesAgree, BoxesAgree
  <1>9. SpinsWhileSent'
    <2> SUFFICES ASSUME NEW d \in RoleCells, d \notin again
                 PROVE  d \in roleSpinning' <=> Here(d)' # {}
      BY <1>2, <1>6 DEF SpinsWhileSent
    <2>1. CASE d = c
      BY <1>2, <1>5, <2>1
    <2>2. CASE d # c
      BY <1>2, <1>4, <2>2 DEF RoleIInv, RolesAgree, SpinsWhileSent
    <2> QED BY <2>1, <2>2
  <1>10. NotLeftEditable'
    <2>1. CASE Own = c
      BY <1>2, <1>3, <1>6, <2>1 DEF NotLeftEditable
    <2>2. CASE Own # c
      BY <1>2, <1>4, <1>6, <2>2 DEF RoleIInv, RolesAgree, NotLeftEditable
    <2> QED BY <2>1, <2>2
  <1> QED BY <1>7, <1>8, <1>9, <1>10 DEF RoleIInv, RolesAgree

\* The page is loaded anew: what is not handled yet is of boxes clicked again.
LEMMA RoleLoadStep ==
  ASSUME RoleTypeOK, RoleIInv, RoleLoad
  PROVE  RoleIInv'
  <1>1. \A i \in RoleUnder' : roleRequests'[i].cell \in again'
    BY RoleLoaded
  <1>2. \A d : d \notin again' => RoleOf(d)' = {} /\ Here(d)' = {}
    BY <1>1 DEF RoleOf, Here
  <1>3. boxes' = granted' /\ roleSpinning' = {} /\ (editable' => Own \in granted') /\ Own' = Own
    BY DEF RoleLoad, Own
  <1>4. RoleSingle' /\ RolePresent' /\ RoleTied'
    BY <1>1 DEF RoleSingle, RolePresent, RoleTied
  <1>5. RolesAgree'
    BY <1>2, <1>3 DEF RolesAgree, BoxesAgree, SpinsWhileSent, NotLeftEditable
  <1> QED BY <1>4, <1>5 DEF RoleIInv

\* Once its request is answered a check box shows what the server has, its
\* spinner stands, and who is no maintainer any more gets the page anew
\* (users_groups.js:35-60): for any users and roles and any requests of other boxes,
\* unless it was clicked again before the answer or its request failed.
THEOREM RolesKept == RoleSpec => []RolesAgree
  <1>1. RoleInit => RoleIInv
    <2>1. RoleInit => RoleUnder = {} /\ \A c : RoleOf(c) = {} /\ Here(c) = {}
      BY DEF RoleInit, RoleUnder, RoleOf, Here
    <2> QED BY <2>1 DEF RoleInit, RoleIInv, RoleSingle, RolePresent, RoleTied, RolesAgree,
                        BoxesAgree, SpinsWhileSent, NotLeftEditable
  <1>2. RoleTypeOK /\ RoleIInv /\ [RoleNext]_roleVars => RoleIInv'
    <2> SUFFICES ASSUME RoleTypeOK, RoleIInv, [RoleNext]_roleVars PROVE RoleIInv'
      OBVIOUS
    <2>1. CASE UNCHANGED roleVars
      BY <2>1 DEF roleVars, RoleIInv, RoleSingle, RolePresent, RoleTied, RolesAgree, BoxesAgree,
                  SpinsWhileSent, NotLeftEditable, RoleUnder, RoleOf, Here
    <2> QED BY <2>1, RoleClickStep, RoleHandleStep, RoleDoneStep, RoleLoadStep DEF RoleNext
  <1>3. RoleIInv => RolesAgree
    BY DEF RoleIInv
  <1> QED BY <1>1, <1>2, <1>3, RoleTypeCorrect, PTL DEF RoleSpec

-----------------------------------------------------------------------------
(* FlagTable.  A type of flags whose requests all came through, one after   *)
(* the other, has one request at most; until it is handled the table shows  *)
(* what the server has, and then the answer does.                            *)

FlagUnder == DOMAIN flagRequests
FlagRecord(r) ==
  r = [type |-> r.type, cell |-> r.cell, option |-> r.option, sure |-> r.sure, pc |-> r.pc,
       answer |-> r.answer]
FlagShape ==
  /\ flags = [t \in Types |-> flags[t]] /\ table = [t \in Types |-> table[t]]
  /\ \A p \in popovers : p.type \in Types
  /\ \A i \in FlagUnder : flagRequests[i].type \in Types /\ FlagRecord(flagRequests[i])
FlagSingle ==
  \A i, j \in FlagUnder :
    flagRequests[i].type = flagRequests[j].type /\ flagRequests[i].type \notin flagOverlap => i = j
FlagTied ==
  \A i \in FlagUnder :
    LET r == flagRequests[i] IN
    r.type \notin flagOverlap \cup broken =>
      /\ r.pc = "sent" => table[r.type] = flags[r.type]
      /\ r.pc = "answered" => r.answer = flags[r.type]
FlagIInv == FlagShape /\ FlagSingle /\ FlagTied /\ TableCurrent /\ PopoversFit

\* A popover fits as long as its table stays.
LEMMA PopoversStay ==
  ASSUME PopoversFit, popovers' \subseteq popovers, UNCHANGED <<table, projectFlags>>
  PROVE  PopoversFit'
  BY DEF PopoversFit, FlagOptions, Effective, DefaultFlag

\* The option that is chosen is sent, beside requests that stay as they are.
LEMMA FlagChosen ==
  ASSUME NEW p \in popovers, NEW o, FlagChoose(p, o)
  PROVE  \E i \in (1..MaxFlagRequests) \ FlagUnder :
           /\ FlagUnder' = FlagUnder \cup {i}
           /\ \A j \in FlagUnder : j # i /\ flagRequests'[j] = flagRequests[j]
           /\ flagRequests'[i].type = p.type /\ flagRequests'[i].pc = "sent"
           /\ FlagRecord(flagRequests'[i])
  <1>1. PICK i \in (1..MaxFlagRequests) \ FlagUnder :
          flagRequests' = [j \in FlagUnder \cup {i} |->
            IF j # i THEN flagRequests[j]
            ELSE [type |-> p.type, cell |-> p.cell, option |-> o, pc |-> "sent",
                  sure |-> table[p.type] = flags[p.type], answer |-> table[p.type]]]
    BY DEF FlagChoose, FlagUnder
  <1>2. FlagUnder' = FlagUnder \cup {i} /\ \A j \in FlagUnder : j # i /\ flagRequests'[j] = flagRequests[j]
    BY <1>1 DEF FlagUnder
  <1>3. /\ flagRequests'[i].type = p.type /\ flagRequests'[i].pc = "sent"
        /\ FlagRecord(flagRequests'[i])
    BY <1>1 DEF FlagRecord
  <1> QED
    BY <1>2, <1>3

\* The flags of one type are stored, and are the answer.
LEMMA FlagHandled ==
  ASSUME FlagShape, NEW i \in FlagUnder, FlagHandle(i)
  PROVE  /\ FlagUnder' = FlagUnder
         /\ \A j \in FlagUnder : j # i => flagRequests'[j] = flagRequests[j]
         /\ flagRequests'[i].type = flagRequests[i].type /\ FlagRecord(flagRequests'[i])
         /\ flagRequests'[i].pc = "answered" /\ flagRequests'[i].answer = flags'[flagRequests[i].type]
         /\ \A t \in Types : t # flagRequests[i].type => flags'[t] = flags[t]
         /\ flags' = [t \in Types |-> flags'[t]]
  <1> DEFINE r == flagRequests[i]
  <1>1. flagRequests' = [flagRequests EXCEPT ![i].pc = "answered", ![i].answer = flags'[r.type]]
    BY DEF FlagHandle
  <1>2. FlagUnder' = FlagUnder /\ \A j \in FlagUnder : j # i => flagRequests'[j] = flagRequests[j]
    BY <1>1 DEF FlagUnder
  <1>3. flagRequests'[i] = [flagRequests[i] EXCEPT !.pc = "answered", !.answer = flags'[r.type]]
    BY <1>1 DEF FlagUnder
  <1>4. FlagRecord(flagRequests[i]) /\ r.type \in Types
    BY DEF FlagShape
  <1>5. /\ flagRequests'[i].type = flagRequests[i].type /\ FlagRecord(flagRequests'[i])
        /\ flagRequests'[i].pc = "answered" /\ flagRequests'[i].answer = flags'[r.type]
    BY <1>3, <1>4 DEF FlagRecord
  <1>6. flags' = [flags EXCEPT ![r.type] = Commanded(@, r)]
    BY DEF FlagHandle
  <1>7. flags = [t \in Types |-> flags[t]]
    BY DEF FlagShape
  <1>8. /\ \A t \in Types : t # r.type => flags'[t] = flags[t]
        /\ flags' = [t \in Types |-> flags'[t]]
    BY <1>6, <1>7
  <1> QED
    BY <1>2, <1>5, <1>8

\* A request that is done with is gone, the others are as they were.
LEMMA FlagGone ==
  ASSUME NEW i \in FlagUnder, flagRequests' = FlagWithout(i)
  PROVE  /\ FlagUnder' = FlagUnder \ {i}
         /\ \A j \in FlagUnder' : flagRequests'[j] = flagRequests[j]
  BY DEF FlagWithout, FlagUnder

\* The tables are loaded with the page, and nothing is under way.
LEMMA FlagInitial == FlagInit => FlagIInv
  <1> SUFFICES ASSUME FlagInit PROVE FlagIInv
    OBVIOUS
  <1>1. FlagUnder = {} /\ popovers = {} /\ flagLoading = {} /\ table = flags /\ flags \in [Types -> Flags]
    BY DEF FlagInit, FlagUnder
  <1>2. flags = [t \in Types |-> flags[t]] /\ table = [t \in Types |-> table[t]]
    BY <1>1
  <1> QED
    BY <1>1, <1>2 DEF FlagIInv, FlagShape, FlagSingle, FlagTied, TableCurrent, PopoversFit

-----------------------------------------------------------------------------
\* A choice keeps the invariant: the request is the only one of its type, or
\* the type is known to have had two.
LEMMA FlagChooseSafe ==
  ASSUME FlagIInv, NEW p \in popovers, NEW o, FlagChoose(p, o)
  PROVE  FlagIInv'
  <1>1. PICK i \in (1..MaxFlagRequests) \ FlagUnder :
          /\ FlagUnder' = FlagUnder \cup {i}
          /\ \A j \in FlagUnder : j # i /\ flagRequests'[j] = flagRequests[j]
          /\ flagRequests'[i].type = p.type /\ flagRequests'[i].pc = "sent"
          /\ FlagRecord(flagRequests'[i])
    BY FlagChosen
  <1>2. /\ popovers' = {} /\ flagLoading' = flagLoading \cup {p.type}
        /\ flagOverlap' = IF FlagOf(p.type) = {} THEN flagOverlap ELSE flagOverlap \cup {p.type}
        /\ UNCHANGED <<flags, projectFlags, table, flagFailures, broken>>
    BY DEF FlagChoose
  <1>3. FlagShape'
    BY <1>1, <1>2 DEF FlagIInv, FlagShape
  <1>4. flagOverlap \subseteq flagOverlap'
    BY <1>2
  <1>5. \A j \in FlagUnder : flagRequests[j].type = p.type => p.type \in flagOverlap'
    BY <1>2 DEF FlagOf, FlagUnder
  <1>6. FlagSingle'
    BY <1>1, <1>4, <1>5 DEF FlagIInv, FlagSingle
  <1>7. p.type \notin flagOverlap' \cup broken => table[p.type] = flags[p.type]
    <2> SUFFICES ASSUME p.type \notin flagOverlap' \cup broken PROVE table[p.type] = flags[p.type]
      OBVIOUS
    <2>1. FlagOf(p.type) = {}
      BY <1>2
    <2> QED
      BY <2>1, <1>4 DEF FlagIInv, FlagShape, TableCurrent
  <1>8. FlagTied'
    BY <1>1, <1>2, <1>4, <1>7 DEF FlagIInv, FlagTied
  <1>9. TableCurrent'
    <2> SUFFICES ASSUME NEW t \in Types, t \notin flagOverlap' \cup broken', FlagOf(t)' = {}
                 PROVE  table'[t] = flags'[t] /\ t \notin flagLoading'
      BY DEF TableCurrent
    <2>1. t # p.type
      BY <1>1 DEF FlagOf, FlagUnder
    <2>2. FlagOf(t) = {}
      BY <1>1 DEF FlagOf, FlagUnder
    <2> QED
      BY <1>2, <1>4, <2>1, <2>2 DEF FlagIInv, TableCurrent
  <1>10. PopoversFit'
    BY <1>2 DEF PopoversFit
  <1> QED
    BY <1>3, <1>6, <1>8, <1>9, <1>10 DEF FlagIInv

\* A request that is handled keeps the invariant.
LEMMA FlagHandleSafe ==
  ASSUME FlagIInv, NEW i \in FlagUnder, FlagHandle(i)
  PROVE  FlagIInv'
  <1>1. /\ FlagUnder' = FlagUnder
        /\ \A j \in FlagUnder : j # i => flagRequests'[j] = flagRequests[j]
        /\ flagRequests'[i].type = flagRequests[i].type /\ FlagRecord(flagRequests'[i])
        /\ flagRequests'[i].pc = "answered" /\ flagRequests'[i].answer = flags'[flagRequests[i].type]
        /\ \A t \in Types : t # flagRequests[i].type => flags'[t] = flags[t]
        /\ flags' = [t \in Types |-> flags'[t]]
    BY FlagHandled DEF FlagIInv
  <1>2. UNCHANGED <<projectFlags, table, popovers, flagLoading, flagOverlap, broken>>
    BY DEF FlagHandle
  <1>3. \A j \in FlagUnder : flagRequests'[j].type = flagRequests[j].type
    BY <1>1
  <1>4. FlagShape'
    BY <1>1, <1>2, <1>3 DEF FlagIInv, FlagShape
  <1>5. FlagSingle'
    BY <1>1, <1>2, <1>3 DEF FlagIInv, FlagSingle
  <1>6. FlagTied'
    <2> SUFFICES ASSUME NEW j \in FlagUnder, flagRequests[j].type \notin flagOverlap \cup broken
                 PROVE  /\ flagRequests'[j].pc = "sent" =>
                             table'[flagRequests[j].type] = flags'[flagRequests[j].type]
                        /\ flagRequests'[j].pc = "answered" =>
                             flagRequests'[j].answer = flags'[flagRequests[j].type]
      BY <1>1, <1>2, <1>3 DEF FlagTied
    <2>1. CASE j = i
      BY <1>1, <2>1
    <2>2. CASE j # i
      <3>1. flagRequests[j].type # flagRequests[i].type
        BY <2>2 DEF FlagIInv, FlagSingle
      <3>2. flags'[flagRequests[j].type] = flags[flagRequests[j].type]
        BY <1>1, <3>1 DEF FlagIInv, FlagShape
      <3> QED
        BY <1>1, <1>2, <2>2, <3>2 DEF FlagIInv, FlagTied
    <2> QED
      BY <2>1, <2>2
  <1>7. TableCurrent'
    <2> SUFFICES ASSUME NEW t \in Types, t \notin flagOverlap' \cup broken', FlagOf(t)' = {}
                 PROVE  table'[t] = flags'[t] /\ t \notin flagLoading'
      BY DEF TableCurrent
    <2>1. t # flagRequests[i].type /\ FlagOf(t) = {}
      BY <1>1, <1>3 DEF FlagOf, FlagUnder
    <2> QED
      BY <1>1, <1>2, <2>1 DEF FlagIInv, TableCurrent
  <1>8. PopoversFit'
    BY <1>2, PopoversStay DEF FlagIInv
  <1> QED
    BY <1>4, <1>5, <1>6, <1>7, <1>8 DEF FlagIInv

\* An answer that is shown keeps the invariant.
LEMMA FlagSuccessSafe ==
  ASSUME FlagIInv, NEW i \in FlagUnder, FlagSuccess(i)
  PROVE  FlagIInv'
  <1> DEFINE u == flagRequests[i].type
  <1>1. FlagUnder' = FlagUnder \ {i} /\ \A j \in FlagUnder' : flagRequests'[j] = flagRequests[j]
    BY FlagGone DEF FlagSuccess
  <1>2. /\ flagRequests[i].pc = "answered"
        /\ table' = [table EXCEPT ![u] = flagRequests[i].answer] /\ flagLoading' = flagLoading \ {u}
        /\ popovers' = {} /\ UNCHANGED <<flags, projectFlags, flagOverlap, broken>>
    BY DEF FlagSuccess
  <1>3. u \in Types /\ table = [t \in Types |-> table[t]]
    BY DEF FlagIInv, FlagShape
  <1>4. /\ table' = [t \in Types |-> table'[t]] /\ table'[u] = flagRequests[i].answer
        /\ \A t \in Types : t # u => table'[t] = table[t]
    BY <1>2, <1>3
  <1>5. FlagShape'
    BY <1>1, <1>2, <1>4 DEF FlagIInv, FlagShape
  <1>6. FlagSingle'
    BY <1>1, <1>2 DEF FlagIInv, FlagSingle
  <1>7. FlagTied'
    <2> SUFFICES ASSUME NEW j \in FlagUnder', flagRequests[j].type \notin flagOverlap \cup broken
                 PROVE  /\ flagRequests[j].pc = "sent" =>
                             table'[flagRequests[j].type] = flags[flagRequests[j].type]
                        /\ flagRequests[j].pc = "answered" =>
                             flagRequests[j].answer = flags[flagRequests[j].type]
      BY <1>1, <1>2 DEF FlagTied
    <2>1. j \in FlagUnder /\ j # i
      BY <1>1
    <2>2. flagRequests[j].type # u /\ flagRequests[j].type \in Types
      BY <2>1 DEF FlagIInv, FlagSingle, FlagShape
    <2> QED
      BY <1>4, <2>1, <2>2 DEF FlagIInv, FlagTied
  <1>8. TableCurrent'
    <2> SUFFICES ASSUME NEW t \in Types, t \notin flagOverlap' \cup broken', FlagOf(t)' = {}
                 PROVE  table'[t] = flags'[t] /\ t \notin flagLoading'
      BY DEF TableCurrent
    <2>1. CASE t = u
      BY <1>2, <1>4, <2>1 DEF FlagIInv, FlagTied
    <2>2. CASE t # u
      <3>1. FlagOf(t) = {}
        BY <1>1, <2>2 DEF FlagOf, FlagUnder
      <3> QED
        BY <1>2, <1>4, <2>2, <3>1 DEF FlagIInv, TableCurrent
    <2> QED
      BY <2>1, <2>2
  <1>9. PopoversFit'
    BY <1>2 DEF PopoversFit
  <1> QED
    BY <1>5, <1>6, <1>7, <1>8, <1>9 DEF FlagIInv

\* A request that fails keeps the invariant: its type is known to have.
LEMMA FlagFailSafe ==
  ASSUME FlagIInv, NEW i \in FlagUnder, Fails(i)
  PROVE  FlagIInv'
  <1>1. FlagUnder' = FlagUnder \ {i} /\ \A j \in FlagUnder' : flagRequests'[j] = flagRequests[j]
    BY FlagGone DEF Fails
  <1>2. /\ broken' = broken \cup {flagRequests[i].type}
        /\ UNCHANGED <<flags, projectFlags, table, popovers, flagLoading, flagOverlap>>
    BY DEF Fails
  <1>3. FlagShape' /\ FlagSingle' /\ FlagTied'
    BY <1>1, <1>2 DEF FlagIInv, FlagShape, FlagSingle, FlagTied
  <1>4. TableCurrent'
    <2> SUFFICES ASSUME NEW t \in Types, t \notin flagOverlap' \cup broken', FlagOf(t)' = {}
                 PROVE  table'[t] = flags'[t] /\ t \notin flagLoading'
      BY DEF TableCurrent
    <2>1. FlagOf(t) = {}
      BY <1>1, <1>2 DEF FlagOf, FlagUnder
    <2> QED
      BY <1>2, <2>1 DEF FlagIInv, TableCurrent
  <1>5. PopoversFit'
    BY <1>2, PopoversStay DEF FlagIInv
  <1> QED
    BY <1>3, <1>4, <1>5 DEF FlagIInv

\* Every step keeps the invariant.
LEMMA FlagSafeNext == FlagIInv /\ [FlagNext]_flagVars => FlagIInv'
  <1> SUFFICES ASSUME FlagIInv, [FlagNext]_flagVars PROVE FlagIInv'
    OBVIOUS
  <1>1. ASSUME UNCHANGED <<flags, projectFlags, table, flagLoading, flagRequests, flagOverlap, broken>>,
               \A p \in popovers' : p.type \in Types, PopoversFit'
        PROVE  FlagIInv'
    <2>1. FlagUnder' = FlagUnder /\ \A t : FlagOf(t)' = FlagOf(t)
      BY <1>1 DEF FlagUnder, FlagOf
    <2> QED
      BY <1>1, <2>1 DEF FlagIInv, FlagShape, FlagSingle, FlagTied, TableCurrent
  <1>2. ASSUME NEW t \in Types, NEW c \in FlagCells, FlagOpen(t, c) PROVE FlagIInv'
    <2>1. /\ popovers' = popovers \cup {[type |-> t, cell |-> c, options |-> FlagOptions(t, table[t], c)]}
          /\ UNCHANGED <<flags, projectFlags, table, flagLoading, flagRequests, flagOverlap, broken>>
      BY <1>2 DEF FlagOpen
    <2>2. \A p \in popovers' : p.type \in Types
      BY <2>1 DEF FlagIInv, FlagShape
    <2>3. \A p \in popovers' : p.options = FlagOptions(p.type, table[p.type], p.cell)
      BY <2>1 DEF FlagIInv, PopoversFit
    <2>4. PopoversFit'
      BY <2>1, <2>3 DEF PopoversFit, FlagOptions, Effective, DefaultFlag
    <2> QED
      BY <1>1, <2>1, <2>2, <2>4
  <1>3. ASSUME NEW p \in popovers, Close(p) PROVE FlagIInv'
    <2>1. /\ popovers' \subseteq popovers
          /\ UNCHANGED <<flags, projectFlags, table, flagLoading, flagRequests, flagOverlap, broken>>
      BY <1>3 DEF Close
    <2>2. \A q \in popovers' : q.type \in Types
      BY <2>1 DEF FlagIInv, FlagShape
    <2>3. PopoversFit'
      BY <2>1, PopoversStay DEF FlagIInv
    <2> QED
      BY <1>1, <2>1, <2>2, <2>3
  <1>4. CASE UNCHANGED flagVars
    <2>1. PopoversFit'
      BY <1>4, PopoversStay DEF flagVars, FlagIInv
    <2>2. UNCHANGED <<flags, projectFlags, table, flagLoading, flagRequests, flagOverlap, broken, popovers>>
      BY <1>4 DEF flagVars
    <2>3. \A q \in popovers' : q.type \in Types
      BY <2>2 DEF FlagIInv, FlagShape
    <2> QED
      BY <1>1, <2>1, <2>2, <2>3
  <1> QED
    BY <1>2, <1>3, <1>4, FlagChooseSafe, FlagHandleSafe, FlagSuccessSafe, FlagFailSafe
    DEF FlagNext, FlagUnder

\* A table shows the flags of the server once its request is answered, whatever is
\* chosen in other tables meanwhile, unless two of its own ran side by side or one
\* failed; the popovers fit the tables, for any types, repositories and
\* architectures (repositories.js, popover.js:9).
THEOREM FlagsAreCurrent == FlagSpec => []FlagsAgree
  <1>1. FlagIInv => FlagsAgree
    BY DEF FlagIInv, FlagsAgree
  <1> QED
    BY <1>1, FlagInitial, FlagSafeNext, PTL DEF FlagSpec

-----------------------------------------------------------------------------
(* What an option promises.  While a request is sent whose table was that   *)
(* of the server, its option is still one for the flags the server has: if  *)
(* no other request of the type is under way, nothing changed them.         *)

FlagStatus == Status \cup {"unset"}
FlagPromised ==
  \A i \in FlagUnder :
    LET r == flagRequests[i] IN
    r.pc = "sent" /\ r.sure /\ r.type \notin flagOverlap =>
      r.option \in FlagOptions(r.type, flags[r.type], r.cell)

\* The first cell that is set decides, and none if none is set.
LEMMA FirstSetIs ==
  ASSUME NEW f, NEW cells, NEW n \in Nat, Len(cells) = n
  PROVE  /\ \A k \in 1..n :
              f[cells[k]] # "unset" /\ (\A j \in 1..n : j < k => f[cells[j]] = "unset")
                => FirstSet(f, cells) = f[cells[k]]
         /\ (\A k \in 1..n : f[cells[k]] = "unset") => FirstSet(f, cells) = "unset"
  <1> DEFINE set == {i \in 1..n : f[cells[i]] # "unset"}
  <1>1. FirstSet(f, cells) = IF set = {} THEN "unset" ELSE f[cells[Min(set)]]
    BY DEF FirstSet
  <1>2. ASSUME NEW k \in 1..n, f[cells[k]] # "unset", \A j \in 1..n : j < k => f[cells[j]] = "unset"
        PROVE  FirstSet(f, cells) = f[cells[k]]
    <2>1. k \in set /\ \A j \in set : k <= j
      BY <1>2
    <2>2. \A m \in set : (\A j \in set : m <= j) => m = k
      BY <2>1
    <2> HIDE DEF set
    <2>3. Min(set) = k
      BY <2>1, <2>2 DEF Min
    <2> QED
      BY <1>1, <2>1, <2>3
  <1>3. ASSUME \A k \in 1..n : f[cells[k]] = "unset" PROVE FirstSet(f, cells) = "unset"
    BY <1>1, <1>3
  <1> QED
    BY <1>2, <1>3

\* Of four cells, and of three.
LEMMA FirstOfFour ==
  ASSUME NEW f, NEW a, NEW b, NEW c, NEW d
  PROVE  FirstSet(f, <<a, b, c, d>>) =
           IF f[a] # "unset" THEN f[a]
           ELSE IF f[b] # "unset" THEN f[b]
           ELSE IF f[c] # "unset" THEN f[c]
           ELSE IF f[d] # "unset" THEN f[d] ELSE "unset"
  <1> DEFINE cells == <<a, b, c, d>>
  <1>1. cells[1] = a /\ cells[2] = b /\ cells[3] = c /\ cells[4] = d /\ Len(cells) = 4
    OBVIOUS
  <1> HIDE DEF cells
  <1>2. \A k \in 1..4 : k = 1 \/ k = 2 \/ k = 3 \/ k = 4
    OBVIOUS
  <1>3. /\ \A k \in 1..4 :
             f[cells[k]] # "unset" /\ (\A j \in 1..4 : j < k => f[cells[j]] = "unset")
               => FirstSet(f, cells) = f[cells[k]]
        /\ (\A k \in 1..4 : f[cells[k]] = "unset") => FirstSet(f, cells) = "unset"
    BY <1>1, FirstSetIs
  <1>4. CASE f[a] # "unset"
    BY <1>1, <1>3, <1>4 DEF cells
  <1>5. CASE f[a] = "unset" /\ f[b] # "unset"
    BY <1>1, <1>2, <1>3, <1>5 DEF cells
  <1>6. CASE f[a] = "unset" /\ f[b] = "unset" /\ f[c] # "unset"
    BY <1>1, <1>2, <1>3, <1>6 DEF cells
  <1>7. CASE f[a] = "unset" /\ f[b] = "unset" /\ f[c] = "unset"
    BY <1>1, <1>2, <1>3, <1>7 DEF cells
  <1> QED
    BY <1>4, <1>5, <1>6, <1>7

\* The same of the three cells a default is looked up in.
LEMMA FirstOfThree ==
  ASSUME NEW f, NEW a, NEW b, NEW c
  PROVE  FirstSet(f, <<a, b, c>>) =
           IF f[a] # "unset" THEN f[a]
           ELSE IF f[b] # "unset" THEN f[b]
           ELSE IF f[c] # "unset" THEN f[c] ELSE "unset"
  <1> DEFINE cells == <<a, b, c>>
  <1>1. cells[1] = a /\ cells[2] = b /\ cells[3] = c /\ Len(cells) = 3
    OBVIOUS
  <1> HIDE DEF cells
  <1>2. \A k \in 1..3 : k = 1 \/ k = 2 \/ k = 3
    OBVIOUS
  <1>3. /\ \A k \in 1..3 :
             f[cells[k]] # "unset" /\ (\A j \in 1..3 : j < k => f[cells[j]] = "unset")
               => FirstSet(f, cells) = f[cells[k]]
        /\ (\A k \in 1..3 : f[cells[k]] = "unset") => FirstSet(f, cells) = "unset"
    BY <1>1, FirstSetIs
  <1>4. CASE f[a] # "unset"
    BY <1>1, <1>3, <1>4 DEF cells
  <1>5. CASE f[a] = "unset" /\ f[b] # "unset"
    BY <1>1, <1>2, <1>3, <1>5 DEF cells
  <1>6. CASE f[a] = "unset" /\ f[b] = "unset"
    BY <1>1, <1>2, <1>3, <1>6 DEF cells
  <1> QED
    BY <1>4, <1>5, <1>6

\* The rows and columns a cell falls back to.
LEMMA FlagCellParts ==
  ASSUME NEW c \in FlagCells
  PROVE  /\ c = <<c[1], c[2]>> /\ <<c[1], All>> \in FlagCells /\ <<All, c[2]>> \in FlagCells
         /\ <<All, All>> \in FlagCells
         /\ c[1] # All => c # <<All, c[2]>> /\ c # <<All, All>>
         /\ c[2] # All => c # <<c[1], All>> /\ c # <<All, All>>
  BY DEF FlagCells

\* What is looked up is a status, or nothing.
LEMMA FlagLookedUp ==
  ASSUME NEW f \in Flags, NEW c \in FlagCells
  PROVE  EffectiveIn(f, c) \in FlagStatus /\ DefaultIn(f, c) \in FlagStatus
  <1>1. \A b \in FlagCells : f[b] \in FlagStatus
    BY DEF Flags, FlagStatus
  <1>2. /\ f[c] \in FlagStatus /\ f[<<c[1], All>>] \in FlagStatus /\ f[<<All, c[2]>>] \in FlagStatus
        /\ f[<<All, All>>] \in FlagStatus /\ "unset" \in FlagStatus
    BY <1>1, FlagCellParts DEF FlagStatus
  <1>3. EffectiveIn(f, c) \in FlagStatus
    BY <1>2, FirstOfFour DEF EffectiveIn
  <1>4. FirstSet(f, <<<<c[1], All>>, <<All, c[2]>>, <<All, All>>>>) \in FlagStatus
    BY <1>2, FirstOfThree
  <1>5. DefaultIn(f, c) \in FlagStatus
    BY <1>2, <1>4 DEF DefaultIn
  <1> QED
    BY <1>3, <1>5

\* Where no flag is set, the one below counts, and at last the default.
LEMMA FlagDug ==
  ASSUME NEW own \in FlagStatus, NEW below \in FlagStatus
  PROVE  Dug(own, below) \in Status
  BY DEF Dug, FlagStatus, Status, Default

\* A cell always has a status and a default.
LEMMA FlagFound ==
  ASSUME NEW t \in Types, NEW f \in Flags, NEW c \in FlagCells, projectFlags \in [Types -> Flags]
  PROVE  Effective(t, f, c) \in Status /\ DefaultFlag(t, f, c) \in Status
  <1>1. projectFlags[t] \in Flags
    OBVIOUS
  <1> QED
    BY <1>1, FlagLookedUp, FlagDug DEF Effective, DefaultFlag

\* The options of a popover.
LEMMA FlagOptionTypes ==
  ASSUME NEW t \in Types, NEW f \in Flags, NEW c \in FlagCells, projectFlags \in [Types -> Flags]
  PROVE  FlagOptions(t, f, c) \subseteq Option
  <1>1. Effective(t, f, c) \in Status /\ DefaultFlag(t, f, c) \in Status
    BY FlagFound
  <1>2. \A s \in Status : [command |-> s, promise |-> s] \in Option
    BY DEF Option
  <1>3. Other(Effective(t, f, c)) \in Status
    BY DEF Other, Status
  <1>4. [command |-> "remove", promise |-> DefaultFlag(t, f, c)] \in Option
    BY <1>1 DEF Option
  <1> QED
    BY <1>2, <1>3, <1>4 DEF FlagOptions

\* What a flag is after a command: another cell's, the command, or nothing.
LEMMA FlagCommanded ==
  ASSUME NEW f \in Flags, NEW r \in FlagRequest
  PROVE  /\ Commanded(f, r) \in Flags
         /\ \A c \in FlagCells \ {r.cell} : Commanded(f, r)[c] = f[c]
         /\ r.option.command # "remove" => Commanded(f, r)[r.cell] = r.option.command
         /\ r.option.command = "remove" => Commanded(f, r)[r.cell] = "unset"
  <1>1. r.cell \in FlagCells /\ r.option \in Option
    BY DEF FlagRequest
  <1>2. r.option.command \in Status \cup {"remove"}
    BY <1>1 DEF Option
  <1> DEFINE s == IF r.option.command = "remove" THEN "unset" ELSE r.option.command
  <1>3. s \in Status \cup {"unset"} /\ Commanded(f, r) = [f EXCEPT ![r.cell] = s]
    BY <1>2 DEF Commanded
  <1> HIDE DEF s
  <1>4. /\ Commanded(f, r) \in Flags /\ Commanded(f, r)[r.cell] = s
        /\ \A c \in FlagCells \ {r.cell} : Commanded(f, r)[c] = f[c]
    BY <1>1, <1>3 DEF Flags
  <1> QED
    BY <1>4 DEF s

\* Without the flag of a cell, the cell falls back to what the default says.
LEMMA FlagFallsBack ==
  ASSUME NEW f \in Flags, NEW g \in Flags, NEW c \in FlagCells, g[c] = "unset",
         \A b \in FlagCells \ {c} : g[b] = f[b]
  PROVE  EffectiveIn(g, c) = DefaultIn(f, c)
  <1>1. EffectiveIn(g, c) = IF g[<<c[1], All>>] # "unset" THEN g[<<c[1], All>>]
                            ELSE IF g[<<All, c[2]>>] # "unset" THEN g[<<All, c[2]>>]
                            ELSE IF g[<<All, All>>] # "unset" THEN g[<<All, All>>] ELSE "unset"
    BY FirstOfFour DEF EffectiveIn
  <1>2. CASE c[1] # All /\ c[2] # All
    <2>1. /\ g[<<c[1], All>>] = f[<<c[1], All>>] /\ g[<<All, c[2]>>] = f[<<All, c[2]>>]
          /\ g[<<All, All>>] = f[<<All, All>>]
      BY <1>2, FlagCellParts
    <2> QED
      BY <1>1, <1>2, <2>1, FirstOfThree DEF DefaultIn
  <1>3. CASE c[1] = All /\ c[2] = All
    <2>1. c = <<All, All>>
      BY <1>3, FlagCellParts
    <2>2. DefaultIn(f, c) = "unset"
      BY <1>3 DEF DefaultIn
    <2> QED
      BY <1>1, <1>3, <2>1, <2>2
  <1>4. CASE ~(c[1] # All /\ c[2] # All) /\ ~(c[1] = All /\ c[2] = All)
    <2>1. DefaultIn(f, c) = f[<<All, All>>]
      BY <1>4 DEF DefaultIn
    <2>2. g[<<All, All>>] = f[<<All, All>>]
      BY <1>4, FlagCellParts
    <2>3. g[<<c[1], All>>] \in {"unset", f[<<All, All>>]} /\ g[<<All, c[2]>>] \in {"unset", f[<<All, All>>]}
      <3>1. CASE c[1] = All /\ c[2] # All
        <4>1. c = <<All, c[2]>> /\ <<c[1], All>> = <<All, All>>
          BY <3>1, FlagCellParts
        <4> QED
          BY <2>2, <4>1
      <3>2. CASE c[1] # All /\ c[2] = All
        <4>1. c = <<c[1], All>> /\ <<All, c[2]>> = <<All, All>>
          BY <3>2, FlagCellParts
        <4> QED
          BY <2>2, <4>1
      <3> QED
        BY <1>4, <3>1, <3>2
    <2>4. f[<<All, All>>] \in FlagStatus
      BY FlagCellParts DEF Flags, FlagStatus
    <2> QED
      BY <1>1, <2>1, <2>2, <2>3, <2>4
  <1> QED
    BY <1>2, <1>3, <1>4

\* An option of a project keeps its promise where the flags are those it was
\* made from.
LEMMA FlagComesTrue ==
  ASSUME ~IsPackage, NEW f \in Flags, NEW r \in FlagRequest, projectFlags \in [Types -> Flags],
         r.option \in FlagOptions(r.type, f, r.cell)
  PROVE  Effective(r.type, Commanded(f, r), r.cell) = r.option.promise
  <1> DEFINE c == r.cell
             g == Commanded(f, r)
  <1>1. r.type \in Types /\ c \in FlagCells
    BY DEF FlagRequest
  <1>2. /\ g \in Flags /\ \A b \in FlagCells \ {c} : g[b] = f[b]
        /\ r.option.command # "remove" => g[c] = r.option.command
        /\ r.option.command = "remove" => g[c] = "unset"
    BY FlagCommanded
  <1> HIDE DEF g, c
  <1>3. \A own, p, q : Dug(own, p) = Dug(own, q)
    BY DEF Dug
  <1>4. CASE \E s \in Status : r.option = [command |-> s, promise |-> s]
    <2>1. PICK s \in Status : r.option = [command |-> s, promise |-> s]
      BY <1>4
    <2>2. r.option.command = s /\ r.option.promise = s /\ s # "remove" /\ s # "unset"
      BY <2>1 DEF Status
    <2>3. EffectiveIn(g, c) = s
      BY <1>2, <2>2, FirstOfFour DEF EffectiveIn
    <2>4. Effective(r.type, g, c) = s
      BY <2>2, <2>3 DEF Effective, Dug
    <2> QED
      BY <2>2, <2>4 DEF g, c
  <1>5. CASE r.option = [command |-> "remove", promise |-> DefaultFlag(r.type, f, c)]
    <2>1. r.option.command = "remove" /\ r.option.promise = DefaultFlag(r.type, f, c)
      BY <1>5
    <2>2. EffectiveIn(g, c) = DefaultIn(f, c)
      BY <1>1, <1>2, <2>1, FlagFallsBack
    <2>3. Effective(r.type, g, c) = DefaultFlag(r.type, f, c)
      BY <1>3, <2>2 DEF Effective, DefaultFlag
    <2> QED
      BY <2>1, <2>3 DEF g, c
  <1>6. Other(Effective(r.type, f, c)) \in Status
    BY DEF Other, Status
  <1> QED
    BY <1>4, <1>5, <1>6 DEF FlagOptions, c

-----------------------------------------------------------------------------
\* The tables are loaded with their types right.
LEMMA FlagTypeInit == FlagInit => FlagTypeOK
  <1> SUFFICES ASSUME FlagInit PROVE FlagTypeOK
    OBVIOUS
  <1>1. projectFlags \in [Types -> Flags]
    <2>1. [t \in Types |-> [c \in FlagCells |-> "unset"]] \in [Types -> Flags]
      BY DEF Flags
    <2> QED
      BY <2>1 DEF FlagInit
  <1>2. flagFailures \in 0..MaxFlagFailures
    BY FlagTableAssumption DEF FlagInit
  <1> QED
    BY <1>1, <1>2 DEF FlagInit, FlagTypeOK

\* A step keeps the types.
LEMMA FlagTypeNext == FlagTypeOK /\ [FlagNext]_flagVars => FlagTypeOK'
  <1> SUFFICES ASSUME FlagTypeOK, [FlagNext]_flagVars PROVE FlagTypeOK'
    OBVIOUS
  <1>1. ASSUME NEW i \in FlagUnder, flagRequests' = FlagWithout(i)
        PROVE  DOMAIN flagRequests' \subseteq 1..MaxFlagRequests
               /\ \A j \in DOMAIN flagRequests' : flagRequests'[j] \in FlagRequest
    BY <1>1, FlagGone DEF FlagTypeOK, FlagUnder
  <1>2. ASSUME NEW t \in Types, NEW c \in FlagCells, FlagOpen(t, c) PROVE FlagTypeOK'
    <2>1. FlagOptions(t, table[t], c) \subseteq Option
      BY FlagOptionTypes DEF FlagTypeOK
    <2>2. [type |-> t, cell |-> c, options |-> FlagOptions(t, table[t], c)] \in Popover
      BY <2>1 DEF Popover
    <2>3. popovers' \subseteq Popover
      BY <1>2, <2>2 DEF FlagOpen, FlagTypeOK
    <2> QED
      BY <1>2, <2>3 DEF FlagOpen, FlagTypeOK
  <1>3. ASSUME NEW p \in popovers, Close(p) PROVE FlagTypeOK'
    BY <1>3 DEF Close, FlagTypeOK
  <1>4. ASSUME NEW p \in popovers, NEW o \in p.options, FlagChoose(p, o) PROVE FlagTypeOK'
    <2>1. p \in Popover
      BY DEF FlagTypeOK
    <2>2. p.type \in Types /\ p.cell \in FlagCells /\ o \in Option
      BY <2>1 DEF Popover
    <2>3. PICK i \in (1..MaxFlagRequests) \ DOMAIN flagRequests :
            flagRequests' = [j \in DOMAIN flagRequests \cup {i} |->
              IF j # i THEN flagRequests[j]
              ELSE [type |-> p.type, cell |-> p.cell, option |-> o, pc |-> "sent",
                    sure |-> table[p.type] = flags[p.type], answer |-> table[p.type]]]
      BY <1>4 DEF FlagChoose
    <2>4. [type |-> p.type, cell |-> p.cell, option |-> o, pc |-> "sent",
           sure |-> table[p.type] = flags[p.type], answer |-> table[p.type]] \in FlagRequest
      <3>1. table[p.type] \in Flags
        BY <2>2 DEF FlagTypeOK
      <3> QED
        BY <2>2, <3>1 DEF FlagRequest
    <2>5. /\ DOMAIN flagRequests' \subseteq 1..MaxFlagRequests
          /\ \A j \in DOMAIN flagRequests' : flagRequests'[j] \in FlagRequest
      BY <2>3, <2>4 DEF FlagTypeOK
    <2>6. /\ popovers' = {} /\ flagLoading' \subseteq Types /\ flagOverlap' \subseteq Types
          /\ UNCHANGED <<flags, projectFlags, table, flagFailures, broken>>
      BY <1>4, <2>2 DEF FlagChoose, FlagTypeOK
    <2> QED
      BY <2>5, <2>6 DEF FlagTypeOK
  <1>5. ASSUME NEW i \in DOMAIN flagRequests, FlagHandle(i) PROVE FlagTypeOK'
    <2> DEFINE r == flagRequests[i]
    <2>1. r \in FlagRequest
      BY DEF FlagTypeOK
    <2>2. r.type \in Types /\ flags[r.type] \in Flags
      BY <2>1 DEF FlagRequest, FlagTypeOK
    <2>3. Commanded(flags[r.type], r) \in Flags
      BY <2>1, <2>2, FlagCommanded
    <2>4. flags' = [flags EXCEPT ![r.type] = Commanded(flags[r.type], r)]
      BY <1>5 DEF FlagHandle
    <2>5. flags' \in [Types -> Flags] /\ flags'[r.type] \in Flags
      BY <2>2, <2>3, <2>4 DEF FlagTypeOK
    <2>6. /\ DOMAIN flagRequests' = DOMAIN flagRequests
          /\ \A j \in DOMAIN flagRequests : j # i => flagRequests'[j] = flagRequests[j]
          /\ flagRequests'[i] = [r EXCEPT !.pc = "answered", !.answer = flags'[r.type]]
      <3>1. flagRequests' = [flagRequests EXCEPT ![i].pc = "answered", ![i].answer = flags'[r.type]]
        BY <1>5 DEF FlagHandle
      <3> QED
        BY <3>1
    <2>7. [r EXCEPT !.pc = "answered", !.answer = flags'[r.type]] \in FlagRequest
      BY <2>1, <2>5 DEF FlagRequest
    <2>8. /\ DOMAIN flagRequests' \subseteq 1..MaxFlagRequests
          /\ \A j \in DOMAIN flagRequests' : flagRequests'[j] \in FlagRequest
      BY <2>6, <2>7 DEF FlagTypeOK
    <2> QED
      BY <1>5, <2>5, <2>8 DEF FlagHandle, FlagTypeOK
  <1>6. ASSUME NEW i \in DOMAIN flagRequests, FlagSuccess(i) PROVE FlagTypeOK'
    <2>1. flagRequests[i] \in FlagRequest
      BY DEF FlagTypeOK
    <2>2. flagRequests[i].type \in Types /\ flagRequests[i].answer \in Flags
      BY <2>1 DEF FlagRequest
    <2>3. table' \in [Types -> Flags]
      BY <1>6, <2>2 DEF FlagSuccess, FlagTypeOK
    <2> QED
      BY <1>1, <1>6, <2>3 DEF FlagSuccess, FlagTypeOK, FlagUnder
  <1>7. ASSUME NEW i \in DOMAIN flagRequests, Fails(i) PROVE FlagTypeOK'
    <2>1. flagFailures' \in 0..MaxFlagFailures
      BY <1>7, FlagTableAssumption DEF Fails, FlagTypeOK
    <2>2. broken' \subseteq Types
      BY <1>7 DEF Fails, FlagTypeOK, FlagRequest
    <2> QED
      BY <1>1, <1>7, <2>1, <2>2 DEF Fails, FlagTypeOK, FlagUnder
  <1>8. CASE UNCHANGED flagVars
    BY <1>8 DEF flagVars, FlagTypeOK
  <1> QED
    BY <1>2, <1>3, <1>4, <1>5, <1>6, <1>7, <1>8 DEF FlagNext

\* Every variable of the tables keeps its type: the options of a popover are
\* commands, and what an answer holds are flags.
THEOREM FlagTypeCorrect == FlagSpec => []FlagTypeOK
  BY FlagTypeInit, FlagTypeNext, PTL DEF FlagSpec

-----------------------------------------------------------------------------
\* A request that is sent promises what its popover did.
LEMMA FlagPromisedChoose ==
  ASSUME FlagIInv, FlagPromised, NEW p \in popovers, NEW o \in p.options, FlagChoose(p, o)
  PROVE  FlagPromised'
  <1>1. PICK i \in (1..MaxFlagRequests) \ FlagUnder :
          flagRequests' = [j \in FlagUnder \cup {i} |->
            IF j # i THEN flagRequests[j]
            ELSE [type |-> p.type, cell |-> p.cell, option |-> o, pc |-> "sent",
                  sure |-> table[p.type] = flags[p.type], answer |-> table[p.type]]]
    BY DEF FlagChoose, FlagUnder
  <1>2. FlagUnder' = FlagUnder \cup {i} /\ \A j \in FlagUnder : flagRequests'[j] = flagRequests[j]
    BY <1>1 DEF FlagUnder
  <1>3. /\ flagRequests'[i].type = p.type /\ flagRequests'[i].cell = p.cell
        /\ flagRequests'[i].option = o /\ flagRequests'[i].sure = (table[p.type] = flags[p.type])
    BY <1>1
  <1>4. flagOverlap \subseteq flagOverlap' /\ UNCHANGED <<flags, projectFlags>>
    BY DEF FlagChoose
  <1>5. o \in FlagOptions(p.type, table[p.type], p.cell)
    BY DEF FlagIInv, PopoversFit
  <1> SUFFICES ASSUME NEW j \in FlagUnder', flagRequests'[j].pc = "sent", flagRequests'[j].sure,
                      flagRequests'[j].type \notin flagOverlap'
               PROVE  flagRequests'[j].option \in
                        FlagOptions(flagRequests'[j].type, flags[flagRequests'[j].type], flagRequests'[j].cell)
    BY <1>4 DEF FlagPromised, FlagOptions, Effective, DefaultFlag
  <1>6. CASE j = i
    BY <1>3, <1>5, <1>6
  <1>7. CASE j \in FlagUnder
    BY <1>2, <1>4, <1>7 DEF FlagPromised
  <1> QED
    BY <1>2, <1>6, <1>7

\* Every step keeps the promises: what is handled beside a request is of
\* another type, or the type is known to have had two.
LEMMA FlagPromisedNext == FlagIInv /\ FlagPromised /\ [FlagNext]_flagVars => FlagPromised'
  <1> SUFFICES ASSUME FlagIInv, FlagPromised, [FlagNext]_flagVars PROVE FlagPromised'
    OBVIOUS
  <1>1. ASSUME UNCHANGED <<flags, projectFlags, flagOverlap>>,
               FlagUnder' \subseteq FlagUnder, \A j \in FlagUnder' : flagRequests'[j] = flagRequests[j]
        PROVE  FlagPromised'
    BY <1>1 DEF FlagPromised, FlagOptions, Effective, DefaultFlag
  <1>2. CASE UNCHANGED flagRequests /\ UNCHANGED <<flags, projectFlags, flagOverlap>>
    BY <1>1, <1>2 DEF FlagUnder
  <1>3. ASSUME NEW t \in Types, NEW c \in FlagCells, FlagOpen(t, c) PROVE FlagPromised'
    BY <1>2, <1>3 DEF FlagOpen
  <1>4. ASSUME NEW p \in popovers, Close(p) PROVE FlagPromised'
    BY <1>2, <1>4 DEF Close
  <1>5. ASSUME NEW i \in FlagUnder, FlagSuccess(i) PROVE FlagPromised'
    BY <1>1, <1>5, FlagGone DEF FlagSuccess
  <1>6. ASSUME NEW i \in FlagUnder, Fails(i) PROVE FlagPromised'
    BY <1>1, <1>6, FlagGone DEF Fails
  <1>7. ASSUME NEW i \in FlagUnder, FlagHandle(i) PROVE FlagPromised'
    <2>1. /\ FlagUnder' = FlagUnder
          /\ \A j \in FlagUnder : j # i => flagRequests'[j] = flagRequests[j]
          /\ flagRequests'[i].pc = "answered"
          /\ \A t \in Types : t # flagRequests[i].type => flags'[t] = flags[t]
      BY <1>7, FlagHandled DEF FlagIInv
    <2>2. UNCHANGED <<projectFlags, flagOverlap>>
      BY <1>7 DEF FlagHandle
    <2> SUFFICES ASSUME NEW j \in FlagUnder, flagRequests'[j].pc = "sent", flagRequests'[j].sure,
                        flagRequests'[j].type \notin flagOverlap
                 PROVE  flagRequests'[j].option \in
                          FlagOptions(flagRequests'[j].type, flags'[flagRequests'[j].type], flagRequests'[j].cell)
      BY <2>1, <2>2 DEF FlagPromised, FlagOptions, Effective, DefaultFlag
    <2>3. j # i /\ flagRequests'[j] = flagRequests[j]
      BY <2>1
    <2>4. flagRequests[j].type # flagRequests[i].type /\ flagRequests[j].type \in Types
      BY <2>3 DEF FlagIInv, FlagSingle, FlagShape
    <2>5. flags'[flagRequests[j].type] = flags[flagRequests[j].type]
      BY <2>1, <2>4
    <2> QED
      BY <2>3, <2>5 DEF FlagPromised
  <1>8. CASE UNCHANGED flagVars
    BY <1>2, <1>8 DEF flagVars
  <1> QED
    BY <1>3, <1>4, <1>5, <1>6, <1>7, <1>8, FlagPromisedChoose DEF FlagNext, FlagUnder

\* What an option of a project promised comes true when its request is handled,
\* for any flags and cells (repositories.js:17, specified_flags.rb:30-47).  Not
\* of a package: what removing its flag leaves may be its project's own flag of
\* the cell, which the default passes over.
THEOREM FlagPromisesKept ==
  ASSUME ~IsPackage
  PROVE  FlagSpec => PromiseKept
  <1>1. FlagInit => FlagPromised
    BY DEF FlagInit, FlagPromised, FlagUnder
  <1>2. FlagTypeOK /\ FlagIInv /\ FlagPromised /\ FlagNext =>
          \A i \in DOMAIN flagRequests :
            i \in DOMAIN flagRequests' /\ flagRequests[i].pc # flagRequests'[i].pc
              /\ flagRequests[i].sure /\ flagRequests[i].type \notin flagOverlap
            => Effective(flagRequests[i].type, flags'[flagRequests[i].type], flagRequests[i].cell)
                 = flagRequests[i].option.promise
    <2> SUFFICES ASSUME FlagTypeOK, FlagIInv, FlagPromised, FlagNext,
                        NEW i \in DOMAIN flagRequests, i \in DOMAIN flagRequests',
                        flagRequests[i].pc # flagRequests'[i].pc,
                        flagRequests[i].sure, flagRequests[i].type \notin flagOverlap
                 PROVE  Effective(flagRequests[i].type, flags'[flagRequests[i].type], flagRequests[i].cell)
                          = flagRequests[i].option.promise
      OBVIOUS
    <2> DEFINE r == flagRequests[i]
    <2>1. r \in FlagRequest
      BY DEF FlagTypeOK
    <2>2. r.type \in Types /\ flags \in [Types -> Flags] /\ projectFlags \in [Types -> Flags]
      BY <2>1 DEF FlagRequest, FlagTypeOK
    <2>3. FlagHandle(i)
      <3>1. ASSUME NEW t \in Types, NEW c \in FlagCells, FlagOpen(t, c) PROVE FALSE
        BY <3>1 DEF FlagOpen
      <3>2. ASSUME NEW p \in popovers, Close(p) PROVE FALSE
        BY <3>2 DEF Close
      <3>3. ASSUME NEW p \in popovers, NEW o, FlagChoose(p, o) PROVE FALSE
        BY <3>3, FlagChosen DEF FlagUnder
      <3>4. ASSUME NEW j \in FlagUnder, FlagSuccess(j) \/ Fails(j) PROVE FALSE
        BY <3>4, FlagGone DEF FlagSuccess, Fails, FlagUnder
      <3>5. ASSUME NEW j \in FlagUnder, FlagHandle(j), j # i PROVE FALSE
        BY <3>5, FlagHandled DEF FlagIInv, FlagUnder
      <3> QED
        BY <3>1, <3>2, <3>3, <3>4, <3>5 DEF FlagNext, FlagUnder
    <2>4. r.pc = "sent" /\ flags' = [flags EXCEPT ![r.type] = Commanded(flags[r.type], r)]
      BY <2>3 DEF FlagHandle
    <2>5. flags'[r.type] = Commanded(flags[r.type], r) /\ flags[r.type] \in Flags
      BY <2>2, <2>4
    <2>6. r.option \in FlagOptions(r.type, flags[r.type], r.cell)
      BY <2>4 DEF FlagPromised, FlagUnder
    <2> HIDE DEF r
    <2>7. Effective(r.type, Commanded(flags[r.type], r), r.cell) = r.option.promise
      BY <2>1, <2>2, <2>5, <2>6, FlagComesTrue
    <2> QED
      BY <2>5, <2>7 DEF r
  <1>3. FlagTypeOK /\ FlagIInv /\ FlagPromised /\ [FlagNext]_flagVars =>
          [\A i \in DOMAIN flagRequests :
             i \in DOMAIN flagRequests' /\ flagRequests[i].pc # flagRequests'[i].pc
               /\ flagRequests[i].sure /\ flagRequests[i].type \notin flagOverlap
             => Effective(flagRequests[i].type, flags'[flagRequests[i].type], flagRequests[i].cell)
                  = flagRequests[i].option.promise]_flagVars
    BY <1>2
  <1> QED
    BY <1>1, <1>3, FlagTypeCorrect, FlagInitial, FlagSafeNext, FlagPromisedNext, PTL
    DEF FlagSpec, PromiseKept

-----------------------------------------------------------------------------
(* Tabs.  The list is always cut somewhere: the first k tabs are in it, the *)
(* others in the dropdown.                                                  *)

Cut(k) ==
  [slots |-> [i \in 1..Number |-> IF i <= k THEN Order[i] ELSE NoTab],
   menu |-> SubSeq(Order, k + 1, Number), nav |-> {Order[i] : i \in 1..k}]
Held(drop) == IF drop THEN 1 ELSE 0
\* how many tabs fit beside the dropdown
Fitting(room, drop) == IF room - Held(drop) > 0 THEN room - Held(drop) ELSE 0
Least(a, b) == IF a <= b THEN a ELSE b
Most(a, b)  == IF a >= b THEN a ELSE b
\* where a list grows to: one too many
Growing(room, drop) == Least(Number, room + 1 - Held(drop))

TabIInv ==
  /\ \E k \in 0..Number : [slots |-> slots, menu |-> menu, nav |-> navLinks] = Cut(k)
  /\ HashFollows

\* The tabs are a sequence without repetition.
LEMMA TabOrder ==
  /\ Number \in Nat /\ Number > 0 /\ Order \in Seq(Tabs)
  /\ \A i \in 1..Number : Order[i] \in Tabs /\ Order[i] # NoTab
  /\ \A i, j \in 1..Number : Order[i] = Order[j] => i = j
  <1>1. Order \in Seq(Tabs) /\ Order # <<>> /\ NoTab \notin Tabs
    BY TabsAssumption
  <1>2. Len(Order) \in Nat /\ Len(Order) > 0
    BY <1>1
  <1> QED
    BY <1>1, <1>2, TabsAssumption DEF Number, Tabs

\* There is room for a number of elements.
LEMMA TabRooms == \A room \in Rooms : room \in Nat
  BY TabsAssumption

\* The elements that are filled, and how many.
LEMMA TabCutFilled ==
  ASSUME NEW k \in 0..Number
  PROVE  /\ TabFilled(Cut(k)) = 1..k /\ Free(Cut(k)) = (k + 1)..Number
         /\ Cardinality(1..k) = k /\ Cut(k) \in TabBar
         /\ Len(Cut(k).menu) = Number - k
         /\ \A i \in 1..(Number - k) : Cut(k).menu[i] = Order[k + i]
  <1>1. TabFilled(Cut(k)) = 1..k
    BY TabOrder DEF TabFilled, Cut
  <1>2. Free(Cut(k)) = (k + 1)..Number
    BY <1>1, TabOrder DEF Free
  <1>3. Cardinality(1..k) = k
    BY TabOrder, FS_Interval
  <1> DEFINE m == SubSeq(Order, k + 1, Number)
  <1>4. m \in Seq(Tabs) /\ Len(m) = Number - k /\ \A i \in 1..(Number - k) : m[i] = Order[k + i]
    <2>1. Len(Order) = Number /\ Number \in Nat /\ k \in Nat /\ k <= Number
      BY TabOrder DEF Number
    <2> QED
      BY <2>1, TabOrder
  <1> HIDE DEF m
  <1>5. [i \in 1..Number |-> IF i <= k THEN Order[i] ELSE NoTab] \in [1..Number -> Tabs \cup {NoTab}]
    BY TabOrder
  <1>6. {Order[i] : i \in 1..k} \in SUBSET Tabs
    BY TabOrder
  <1>7. Cut(k) \in TabBar /\ Cut(k).menu = m
    BY <1>4, <1>5, <1>6 DEF Cut, TabBar, m
  <1> QED
    BY <1>1, <1>2, <1>3, <1>4, <1>7

\* The last filled element, and the first empty one.
LEMMA TabCutEnds ==
  ASSUME NEW k \in 0..Number
  PROVE  /\ k > 0 => LastOf(1..k) = k
         /\ k < Number => FirstOf((k + 1)..Number) = k + 1
  <1>1. ASSUME k > 0 PROVE LastOf(1..k) = k
    <2>1. k \in 1..k /\ \A j \in 1..k : j <= k
      BY <1>1, TabOrder
    <2>2. \A i \in 1..k : (\A j \in 1..k : j <= i) => i = k
      BY <1>1, <2>1, TabOrder
    <2> QED
      BY <2>1, <2>2 DEF LastOf
  <1>2. ASSUME k < Number PROVE FirstOf((k + 1)..Number) = k + 1
    <2> DEFINE S == (k + 1)..Number
    <2>1. k + 1 \in S /\ \A j \in S : k + 1 <= j
      BY <1>2, TabOrder
    <2>2. \A i \in S : (\A j \in S : i <= j) => i = k + 1
      BY <2>1, TabOrder
    <2> HIDE DEF S
    <2>3. FirstOf(S) = k + 1
      BY <2>1, <2>2 DEF FirstOf
    <2> QED
      BY <2>3 DEF S
  <1> QED
    BY <1>1, <1>2

\* One step of resizeTabs moves the cut by one.
LEMMA TabShrunk ==
  ASSUME NEW k \in 1..Number
  PROVE  Shrink(Cut(k)) = Cut(k - 1)
  <1>1. k \in Nat /\ k \in 0..Number /\ k - 1 \in 0..Number /\ Number \in Nat
    BY TabOrder
  <1>2. LastOf(TabFilled(Cut(k))) = k
    BY <1>1, TabCutFilled, TabCutEnds
  <1>3. Cut(k).slots[k] = Order[k]
    BY <1>1 DEF Cut
  <1>4. [Cut(k).slots EXCEPT ![k] = NoTab] = Cut(k - 1).slots
    <2>1. Cut(k).slots = [i \in 1..Number |-> IF i <= k THEN Order[i] ELSE NoTab]
          /\ Cut(k - 1).slots = [i \in 1..Number |-> IF i <= k - 1 THEN Order[i] ELSE NoTab]
      BY DEF Cut
    <2>2. \A i \in 1..Number : i <= k - 1 <=> i <= k /\ i # k
      BY <1>1
    <2> QED
      BY <2>1, <2>2
  <1>5. <<Order[k]>> \o Cut(k).menu = Cut(k - 1).menu
    <2> DEFINE a == <<Order[k]>>
               b == Cut(k).menu
               c == Cut(k - 1).menu
    <2>1. a \in Seq(Tabs) /\ Len(a) = 1 /\ a[1] = Order[k]
      BY <1>1, TabOrder
    <2>2. b \in Seq(Tabs) /\ Len(b) = Number - k /\ \A i \in 1..(Number - k) : b[i] = Order[k + i]
      BY <1>1, TabCutFilled DEF TabBar
    <2>3. c \in Seq(Tabs) /\ Len(c) = Number - (k - 1)
          /\ \A i \in 1..(Number - (k - 1)) : c[i] = Order[(k - 1) + i]
      BY <1>1, TabCutFilled DEF TabBar
    <2> HIDE DEF a, b, c
    <2>4. a \o b \in Seq(Tabs) /\ Len(a \o b) = Len(c)
      <3>1. a \o b \in Seq(Tabs) /\ Len(a \o b) = Len(a) + Len(b)
        BY <2>1, <2>2, ConcatProperties
      <3> QED
        BY <1>1, <2>1, <2>2, <2>3, <3>1
    <2>5. ASSUME NEW i \in 1..Len(c) PROVE (a \o b)[i] = c[i]
      <3>1. i \in Nat /\ 1 <= i /\ i <= Number - (k - 1) /\ c[i] = Order[(k - 1) + i]
        BY <1>1, <2>3
      <3>2. CASE i = 1
        <4>1. i <= Len(a) /\ i \in 1..(Len(a) + Len(b))
          BY <1>1, <2>1, <2>2, <3>1, <3>2
        <4>2. (a \o b)[i] = a[i]
          BY <2>1, <2>2, <4>1, ConcatProperties
        <4> QED
          BY <1>1, <2>1, <3>1, <3>2, <4>2
      <3>3. CASE i # 1
        <4>1. i - 1 \in 1..(Number - k) /\ k + (i - 1) = (k - 1) + i
          BY <1>1, <3>1, <3>3
        <4>2. ~(i <= Len(a)) /\ i \in 1..(Len(a) + Len(b)) /\ i - Len(a) = i - 1
          BY <1>1, <2>1, <2>2, <3>1, <3>3
        <4>3. (a \o b)[i] = IF i <= Len(a) THEN a[i] ELSE b[i - Len(a)]
          BY <2>1, <2>2, <4>2, ConcatProperties
        <4>4. (a \o b)[i] = b[i - 1]
          BY <4>2, <4>3, Zenon
        <4> QED
          BY <2>2, <3>1, <4>1, <4>4
      <3> QED
        BY <3>2, <3>3
    <2>6. a \o b = c
      BY <2>3, <2>4, <2>5, SeqEqual
    <2> QED
      BY <2>6 DEF a, b, c
  <1>6. Toggled(Cut(k).nav, Order[k]) = Cut(k - 1).nav
    <2>1. Order[k] \in Cut(k).nav
      BY <1>1 DEF Cut
    <2>2. Cut(k).nav \ {Order[k]} = Cut(k - 1).nav
      <3> DEFINE A == {Order[i] : i \in 1..k}
                 B == {Order[i] : i \in 1..(k - 1)}
      <3>1. ASSUME NEW x \in A, x # Order[k] PROVE x \in B
        BY <1>1, <3>1
      <3>2. ASSUME NEW x \in B PROVE x \in A /\ x # Order[k]
        <4>1. PICK i \in 1..(k - 1) : x = Order[i]
          BY <3>2
        <4>2. i \in 1..k /\ i \in 1..Number /\ k \in 1..Number /\ i # k
          BY <1>1
        <4>3. Order[i] # Order[k]
          BY <4>2, TabOrder
        <4> QED
          BY <4>1, <4>2, <4>3
      <3>3. A \ {Order[k]} = B
        BY <3>1, <3>2
      <3> QED
        BY <3>3 DEF Cut
    <2> QED
      BY <2>1, <2>2 DEF Toggled
  <1>7. Shrink(Cut(k)) =
          [slots |-> Cut(k - 1).slots, menu |-> Cut(k - 1).menu, nav |-> Cut(k - 1).nav]
    BY <1>2, <1>3, <1>4, <1>5, <1>6 DEF Shrink
  <1> QED
    BY <1>7 DEF Cut

\* Growing moves the cut the other way.
LEMMA TabGrown ==
  ASSUME NEW k \in 0..(Number - 1)
  PROVE  Grow(Cut(k)) = Cut(k + 1)
  <1>1. k \in Nat /\ k \in 0..Number /\ k + 1 \in 0..Number /\ Number \in Nat /\ k < Number
        /\ k + 1 \in 1..Number
    BY TabOrder
  <1>2. FirstOf(Free(Cut(k))) = k + 1
    BY <1>1, TabCutFilled, TabCutEnds
  <1> DEFINE b == Cut(k).menu
             c == Cut(k + 1).menu
  <1>3. b \in Seq(Tabs) /\ Len(b) = Number - k /\ \A i \in 1..(Number - k) : b[i] = Order[k + i]
    BY <1>1, TabCutFilled DEF TabBar
  <1>4. c \in Seq(Tabs) /\ Len(c) = Number - (k + 1)
        /\ \A i \in 1..(Number - (k + 1)) : c[i] = Order[(k + 1) + i]
    BY <1>1, TabCutFilled DEF TabBar
  <1>5. Head(b) = Order[k + 1] /\ Tail(b) = c
    <2> HIDE DEF b, c
    <2>1. b # <<>> /\ Head(b) = b[1] /\ b[1] = Order[k + 1]
      BY <1>1, <1>3
    <2>2. Tail(b) \in Seq(Tabs) /\ Len(Tail(b)) = Len(c)
      BY <1>1, <1>3, <1>4, <2>1
    <2>3. ASSUME NEW i \in 1..Len(c) PROVE Tail(b)[i] = c[i]
      <3>1. Tail(b)[i] = b[i + 1] /\ i + 1 \in 1..(Number - k) /\ i \in 1..(Number - (k + 1))
        BY <1>1, <1>3, <1>4, <2>1, <2>2
      <3>2. b[i + 1] = Order[k + (i + 1)] /\ c[i] = Order[(k + 1) + i]
        BY <1>3, <1>4, <3>1
      <3>3. k + (i + 1) = (k + 1) + i
        BY <1>1, <3>1
      <3> QED
        BY <3>1, <3>2, <3>3
    <2>4. Tail(b) = c
      BY <1>4, <2>2, <2>3, SeqEqual
    <2> QED
      BY <2>1, <2>4
  <1>6. [Cut(k).slots EXCEPT ![k + 1] = Order[k + 1]] = Cut(k + 1).slots
    <2>1. Cut(k).slots = [i \in 1..Number |-> IF i <= k THEN Order[i] ELSE NoTab]
          /\ Cut(k + 1).slots = [i \in 1..Number |-> IF i <= k + 1 THEN Order[i] ELSE NoTab]
      BY DEF Cut
    <2>2. \A i \in 1..Number : i <= k + 1 <=> i <= k \/ i = k + 1
      BY <1>1
    <2> QED
      BY <2>1, <2>2
  <1>7. Toggled(Cut(k).nav, Order[k + 1]) = Cut(k + 1).nav
    <2>1. Order[k + 1] \notin Cut(k).nav
      <3>1. ASSUME NEW i \in 1..k PROVE Order[i] # Order[k + 1]
        <4>1. i \in 1..Number /\ i # k + 1
          BY <1>1
        <4> QED
          BY <1>1, <4>1, TabOrder
      <3> QED
        BY <3>1 DEF Cut
    <2>2. Cut(k).nav \cup {Order[k + 1]} = Cut(k + 1).nav
      <3>1. 1..(k + 1) = (1..k) \cup {k + 1}
        BY <1>1
      <3> QED
        BY <3>1 DEF Cut
    <2> QED
      BY <2>1, <2>2 DEF Toggled
  <1>8. Grow(Cut(k)) =
          [slots |-> Cut(k + 1).slots, menu |-> Cut(k + 1).menu, nav |-> Cut(k + 1).nav]
    BY <1>2, <1>5, <1>6, <1>7 DEF Grow
  <1> QED
    BY <1>8 DEF Cut

\* Where the cut is after n rounds, and after all of them.
ShrunkTo(k, n, lim) == IF k <= lim THEN k ELSE IF k - n >= lim THEN k - n ELSE lim
GrownTo(k, n, lim) == IF k >= lim THEN k ELSE IF k + n <= lim THEN k + n ELSE lim

\* What the rounds of resizeTabs depend on, of a list that is cut.
LEMMA TabOverflow ==
  ASSUME NEW k \in 0..Number, NEW room \in Nat, NEW drop \in BOOLEAN
  PROVE  /\ Overflow(Cut(k), room, drop) <=> k + Held(drop) > room
         /\ Held(drop) \in {0, 1}
         /\ TabFilled(Cut(k)) # {} <=> k > 0
         /\ Cut(k).menu # <<>> <=> k < Number
  <1>1. Cardinality(TabFilled(Cut(k))) = k
    BY TabCutFilled
  <1>2. Overflow(Cut(k), room, drop) <=> k + Held(drop) > room
    BY <1>1 DEF Overflow, Held
  <1>3. Held(drop) \in {0, 1}
    BY DEF Held
  <1>4. TabFilled(Cut(k)) # {} <=> k > 0
    <2>1. k \in Nat /\ (1..k # {} <=> k > 0)
      BY TabOrder
    <2> QED
      BY <2>1, TabCutFilled
  <1>5. Cut(k).menu # <<>> <=> k < Number
    <2> DEFINE m == Cut(k).menu
    <2>1. m \in Seq(Tabs) /\ Len(m) = Number - k
      BY TabCutFilled DEF TabBar
    <2> HIDE DEF m
    <2>2. m # <<>> <=> Len(m) # 0
      BY <2>1
    <2>3. m # <<>> <=> k < Number
      BY <2>1, <2>2, TabOrder
    <2> QED
      BY <2>3 DEF m
  <1> QED
    BY <1>2, <1>3, <1>4, <1>5

\* Two functions over 0..m that start with the same and go on the same way are
\* the same.
LEMMA SameRounds ==
  ASSUME NEW m \in Nat, NEW f, NEW g, f[0] = g[0],
         \A n \in 1..m : f[n - 1] = g[n - 1] => f[n] = g[n]
  PROVE  \A n \in 0..m : f[n] = g[n]
  <1> DEFINE D == {n \in 0..m : f[n] # g[n]}
  <1>1. SUFFICES ASSUME D # {} PROVE FALSE
    OBVIOUS
  <1>2. D \in SUBSET Nat
    OBVIOUS
  <1>3. PICK n \in D : \A k \in D : n <= k
    BY <1>1, <1>2, NatMin
  <1>4. n \in 0..m /\ f[n] # g[n] /\ n # 0 /\ n - 1 \in 0..m /\ n \in 1..m
    BY <1>3
  <1>5. n - 1 \notin D
    BY <1>3, <1>4
  <1> QED
    BY <1>4, <1>5

\* resizeTabs(true) until the list fits or is empty.
LEMMA TabShrunkAll ==
  ASSUME NEW k \in 0..Number, NEW room \in Nat, NEW drop \in BOOLEAN
  PROVE  ShrinkAll(Cut(k), room, drop) = Cut(Least(k, Fitting(room, drop)))
  <1> DEFINE lim == Fitting(room, drop)
             N == Number
             l == Cut(k)
             Rounds(f) == f = [n \in 0..N |->
               IF n = 0 THEN l
               ELSE LET b == f[n - 1] IN
                    IF Overflow(b, room, drop) /\ TabFilled(b) # {} THEN Shrink(b) ELSE b]
             h == [n \in 0..N |-> Cut(ShrunkTo(k, n, lim))]
             a == CHOOSE f : Rounds(f)
  <1>1. N \in Nat /\ k \in Nat /\ k <= N /\ lim \in Nat
    BY TabOrder DEF Fitting, Held
  <1>2. ASSUME NEW n \in 1..N
        PROVE  h[n] = LET b == h[n - 1] IN
                      IF Overflow(b, room, drop) /\ TabFilled(b) # {} THEN Shrink(b) ELSE b
    <2> DEFINE j == ShrunkTo(k, n - 1, lim)
    <2>1. j \in 0..N /\ ShrunkTo(k, n, lim) = IF j > lim THEN j - 1 ELSE j
      BY <1>1 DEF ShrunkTo
    <2>2. h[n - 1] = Cut(j) /\ h[n] = Cut(IF j > lim THEN j - 1 ELSE j)
      BY <1>1, <2>1
    <2>3. Overflow(Cut(j), room, drop) /\ TabFilled(Cut(j)) # {} <=> j > lim
      <3> HIDE DEF j
      <3>1. /\ Overflow(Cut(j), room, drop) <=> j + Held(drop) > room
            /\ Held(drop) \in {0, 1}
            /\ TabFilled(Cut(j)) # {} <=> j > 0
        BY <2>1, TabOverflow
      <3>2. j + Held(drop) > room /\ j > 0 <=> j > lim
        BY <1>1, <2>1, <3>1 DEF Fitting
      <3> QED
        BY <3>1, <3>2
    <2>4. j > lim => Shrink(Cut(j)) = Cut(j - 1)
      <3> HIDE DEF j, lim
      <3>1. j > lim => j \in 1..Number
        BY <1>1, <2>1
      <3> QED
        BY <3>1, TabShrunk
    <2> HIDE DEF h, j, lim
    <2> QED
      BY <2>2, <2>3, <2>4
  <1>3. h[0] = l
    BY <1>1 DEF ShrunkTo
  <1>4. h = [n \in 0..N |-> h[n]]
    OBVIOUS
  <1>5. Rounds(h)
    <2> HIDE DEF l, lim
    <2>1. \A n \in 0..N : n # 0 => n \in 1..N
      BY <1>1
    <2>2. \A n \in 0..N :
            h[n] = IF n = 0 THEN l
                   ELSE LET b == h[n - 1] IN
                        IF Overflow(b, room, drop) /\ TabFilled(b) # {} THEN Shrink(b) ELSE b
      <3> HIDE DEF h
      <3> QED
        BY <1>2, <1>3, <2>1
    <2> HIDE DEF h
    <2> QED
      BY <1>4, <2>2
  <1>6. Rounds(a)
    <2> HIDE DEF Rounds
    <2> QED
      BY <1>5
  <1>7. \A n \in 0..N : a[n] = h[n]
    <2> HIDE DEF a, h, l
    <2>1. a[0] = l
      BY <1>1, <1>6
    <2>2. ASSUME NEW n \in 1..N, a[n - 1] = h[n - 1] PROVE a[n] = h[n]
      <3>1. n \in 0..N /\ n # 0
        BY <1>1
      <3>2. a[n] = LET b == a[n - 1] IN
                   IF Overflow(b, room, drop) /\ TabFilled(b) # {} THEN Shrink(b) ELSE b
        BY <1>6, <3>1
      <3> QED
        BY <1>2, <2>2, <3>2
    <2> HIDE DEF Rounds, N
    <2> QED
      BY <1>1, <1>3, <2>1, <2>2, SameRounds
  <1>8. ShrinkAll(Cut(k), room, drop) = a[N]
    BY DEF ShrinkAll
  <1>9. h[N] = Cut(Least(k, lim))
    BY <1>1 DEF ShrunkTo, Least
  <1> QED
    <2> HIDE DEF a, h
    <2> QED
      BY <1>1, <1>7, <1>8, <1>9
\* resizeTabs(false) until the list is too full, or the dropdown is empty.
LEMMA TabGrownAll ==
  ASSUME NEW k \in 0..Number, NEW room \in Nat, NEW drop \in BOOLEAN
  PROVE  GrowAll(Cut(k), room, drop) = Cut(Most(k, Growing(room, drop)))
  <1> DEFINE lim == Growing(room, drop)
             N == Number
             l == Cut(k)
             Rounds(f) == f = [n \in 0..N |->
               IF n = 0 THEN l
               ELSE LET b == f[n - 1] IN
                    IF ~Overflow(b, room, drop) /\ b.menu # <<>> THEN Grow(b) ELSE b]
             h == [n \in 0..N |-> Cut(GrownTo(k, n, lim))]
             a == CHOOSE f : Rounds(f)
  <1>1. N \in Nat /\ k \in Nat /\ k <= N /\ lim \in 0..N
    BY TabOrder DEF Growing, Held, Least
  <1>2. ASSUME NEW n \in 1..N
        PROVE  h[n] = LET b == h[n - 1] IN
                      IF ~Overflow(b, room, drop) /\ b.menu # <<>> THEN Grow(b) ELSE b
    <2> DEFINE j == GrownTo(k, n - 1, lim)
    <2>1. j \in 0..N /\ GrownTo(k, n, lim) = IF j < lim THEN j + 1 ELSE j
      BY <1>1 DEF GrownTo
    <2>2. h[n - 1] = Cut(j) /\ h[n] = Cut(IF j < lim THEN j + 1 ELSE j)
      BY <1>1, <2>1
    <2>3. ~Overflow(Cut(j), room, drop) /\ Cut(j).menu # <<>> <=> j < lim
      <3> HIDE DEF j
      <3>1. /\ Overflow(Cut(j), room, drop) <=> j + Held(drop) > room
            /\ Held(drop) \in {0, 1}
            /\ Cut(j).menu # <<>> <=> j < Number
        BY <2>1, TabOverflow
      <3>2. ~(j + Held(drop) > room) /\ j < N <=> j < lim
        BY <1>1, <2>1, <3>1 DEF Growing, Least
      <3> QED
        BY <3>1, <3>2
    <2>4. j < lim => Grow(Cut(j)) = Cut(j + 1)
      <3> HIDE DEF j, lim
      <3>1. j < lim => j \in 0..(Number - 1)
        BY <1>1, <2>1
      <3> QED
        BY <3>1, TabGrown
    <2> HIDE DEF h, j, lim
    <2> QED
      BY <2>2, <2>3, <2>4
  <1>3. h[0] = l
    BY <1>1 DEF GrownTo
  <1>4. h = [n \in 0..N |-> h[n]]
    OBVIOUS
  <1>5. Rounds(h)
    <2> HIDE DEF l, lim
    <2>1. \A n \in 0..N : n # 0 => n \in 1..N
      BY <1>1
    <2>2. \A n \in 0..N :
            h[n] = IF n = 0 THEN l
                   ELSE LET b == h[n - 1] IN
                        IF ~Overflow(b, room, drop) /\ b.menu # <<>> THEN Grow(b) ELSE b
      <3> HIDE DEF h
      <3> QED
        BY <1>2, <1>3, <2>1
    <2> HIDE DEF h
    <2> QED
      BY <1>4, <2>2
  <1>6. Rounds(a)
    <2> HIDE DEF Rounds
    <2> QED
      BY <1>5
  <1>7. \A n \in 0..N : a[n] = h[n]
    <2> HIDE DEF a, h, l
    <2>1. a[0] = l
      BY <1>1, <1>6
    <2>2. ASSUME NEW n \in 1..N, a[n - 1] = h[n - 1] PROVE a[n] = h[n]
      <3>1. n \in 0..N /\ n # 0
        BY <1>1
      <3>2. a[n] = LET b == a[n - 1] IN
                   IF ~Overflow(b, room, drop) /\ b.menu # <<>> THEN Grow(b) ELSE b
        BY <1>6, <3>1
      <3> QED
        BY <1>2, <2>2, <3>2
    <2> HIDE DEF Rounds, N
    <2> QED
      BY <1>1, <1>3, <2>1, <2>2, SameRounds
  <1>8. GrowAll(Cut(k), room, drop) = a[N]
    BY DEF GrowAll
  <1>9. h[N] = Cut(Most(k, lim))
    BY <1>1 DEF GrownTo, Most
  <1> QED
    <2> HIDE DEF a, h
    <2> QED
      BY <1>1, <1>7, <1>8, <1>9

\* refreshTabs: wherever the list was cut, it is cut behind as many tabs as there is
\* room for.
LEMMA TabRefresh ==
  ASSUME NEW k \in 0..Number, NEW room \in Nat, NEW drop \in BOOLEAN
  PROVE  Refresh(Cut(k), room, drop) = Cut(Least(Number, Fitting(room, drop)))
  <1>1. Number \in Nat /\ k \in Nat /\ k <= Number /\ Held(drop) \in {0, 1}
    BY TabOrder DEF Held
  <1>2. Overflow(Cut(k), room, drop) <=> k + Held(drop) > room
    BY TabOverflow
  <1>3. CASE k + Held(drop) > room
    <2>1. Least(k, Fitting(room, drop)) = Least(Number, Fitting(room, drop))
      BY <1>1, <1>3 DEF Least, Fitting
    <2>2. Refresh(Cut(k), room, drop) = ShrinkAll(Cut(k), room, drop)
      BY <1>2, <1>3 DEF Refresh
    <2> QED
      BY <2>1, <2>2, TabShrunkAll
  <1>4. CASE ~(k + Held(drop) > room)
    <2> DEFINE m == Most(k, Growing(room, drop))
    <2>1. m \in 0..Number /\ Least(m, Fitting(room, drop)) = Least(Number, Fitting(room, drop))
      BY <1>1, <1>4 DEF Least, Most, Fitting, Growing
    <2>2. Refresh(Cut(k), room, drop) = ShrinkAll(GrowAll(Cut(k), room, drop), room, drop)
      BY <1>2, <1>4 DEF Refresh
    <2>3. GrowAll(Cut(k), room, drop) = Cut(m)
      BY TabGrownAll
    <2> HIDE DEF m
    <2>4. ShrinkAll(Cut(m), room, drop) = Cut(Least(m, Fitting(room, drop)))
      BY <2>1, TabShrunkAll
    <2> QED
      BY <2>1, <2>2, <2>3, <2>4
  <1> QED
    BY <1>3, <1>4

\* What the properties say of a list that is cut somewhere.
LEMMA TabCutAgrees ==
  ASSUME NEW k \in 0..Number, [slots |-> slots, menu |-> menu, nav |-> navLinks] = Cut(k)
  PROVE  /\ [slots |-> slots, menu |-> menu, nav |-> navLinks] \in TabBar
         /\ InOrder /\ ClassesFit
         /\ slots[1] # NoTab => slots[1] = Order[1]
         /\ menu # <<>> <=> k < Number
         /\ Cardinality({i \in 1..Number : slots[i] # NoTab}) = k
  <1> DEFINE F == {i \in 1..Number : slots[i] # NoTab}
  <1>1. slots = Cut(k).slots /\ menu = Cut(k).menu /\ navLinks = Cut(k).nav
    <2> HIDE DEF F
    <2>1. slots = [slots |-> slots, menu |-> menu, nav |-> navLinks].slots
          /\ menu = [slots |-> slots, menu |-> menu, nav |-> navLinks].menu
          /\ navLinks = [slots |-> slots, menu |-> menu, nav |-> navLinks].nav
      OBVIOUS
    <2> QED
      BY <2>1
  <1>2. F = 1..k /\ Cardinality(1..k) = k
    BY <1>1, TabCutFilled DEF TabFilled
  <1>3. k \in Nat /\ k <= Number /\ Number \in Nat /\ Number > 0
    BY TabOrder
  <1>4. slots = [i \in 1..Number |-> IF i <= k THEN Order[i] ELSE NoTab]
    BY <1>1 DEF Cut
  <1>5. \A i \in 1..Number : slots[i] # NoTab <=> i <= k
    BY <1>4, TabOrder
  <1>6. SubSeq(slots, 1, k) \o menu = Order
    <2> DEFINE a == SubSeq(slots, 1, k)
               S == Tabs \cup {NoTab}
    <2>1. slots \in Seq(S) /\ Len(slots) = Number
      <3>1. slots \in [1..Number -> S]
        BY <1>4, TabOrder
      <3> HIDE DEF S
      <3> QED
        BY <1>3, <3>1
    <2>2. a \in Seq(S) /\ Len(a) = k /\ \A i \in 1..k : a[i] = slots[i]
      <3> HIDE DEF S
      <3> QED
        BY <1>3, <2>1
    <2>3. menu \in Seq(S) /\ Len(menu) = Number - k
          /\ \A i \in 1..(Number - k) : menu[i] = Order[k + i]
      <3>1. menu \in Seq(Tabs)
        BY <1>1, TabCutFilled DEF TabBar
      <3> QED
        BY <1>1, <3>1, TabCutFilled
    <2> HIDE DEF a, S
    <2>4. a \o menu \in Seq(S) /\ Len(a \o menu) = Number
      <3>1. a \o menu \in Seq(S) /\ Len(a \o menu) = Len(a) + Len(menu)
        BY <2>2, <2>3, ConcatProperties
      <3> QED
        BY <1>3, <2>2, <2>3, <3>1
    <2>5. ASSUME NEW i \in 1..Number PROVE (a \o menu)[i] = Order[i]
      <3>1. (a \o menu)[i] = IF i <= Len(a) THEN a[i] ELSE menu[i - Len(a)]
        <4>1. i \in 1..(Len(a) + Len(menu))
          BY <1>3, <2>2, <2>3
        <4> QED
          BY <2>2, <2>3, <4>1, ConcatProperties
      <3>2. CASE i <= k
        <4>1. i \in 1..k /\ slots[i] = Order[i]
          BY <1>4, <3>2
        <4> QED
          BY <2>2, <3>1, <3>2, <4>1
      <3>3. CASE ~(i <= k)
        <4>1. i - k \in 1..(Number - k) /\ k + (i - k) = i
          BY <1>3, <3>3
        <4>2. menu[i - k] = Order[i]
          BY <2>3, <4>1
        <4> QED
          BY <2>2, <3>1, <3>3, <4>2
      <3> QED
        BY <3>2, <3>3
    <2>6. Order \in Seq(S) /\ Len(Order) = Number
      BY TabOrder DEF S, Number
    <2>7. a \o menu = Order
      BY <2>4, <2>5, <2>6, SeqEqual
    <2> QED
      BY <2>7 DEF a
  <1>7. InOrder
    <2> HIDE DEF F
    <2> QED
      BY <1>2, <1>5, <1>6 DEF InOrder, F
  <1>8. ClassesFit
    <2>1. ASSUME NEW x \in {Order[i] : i \in 1..k} PROVE x \in {slots[i] : i \in 1..Number} \ {NoTab}
      <3>1. PICK i \in 1..k : x = Order[i]
        BY <2>1
      <3>2. i \in 1..Number /\ slots[i] = Order[i] /\ Order[i] # NoTab
        BY <1>3, <1>4, TabOrder
      <3> QED
        BY <3>1, <3>2
    <2>2. ASSUME NEW x \in {slots[i] : i \in 1..Number} \ {NoTab} PROVE x \in {Order[i] : i \in 1..k}
      <3>1. PICK i \in 1..Number : x = slots[i]
        BY <2>2
      <3>2. i <= k /\ i \in 1..k /\ slots[i] = Order[i]
        BY <1>3, <1>4, <2>2, <3>1
      <3> QED
        BY <3>1, <3>2
    <2>3. navLinks = {Order[i] : i \in 1..k}
      BY <1>1 DEF Cut
    <2> QED
      BY <2>1, <2>2, <2>3 DEF ClassesFit
  <1>9. slots[1] # NoTab => slots[1] = Order[1]
    BY <1>3, <1>4
  <1>10. menu # <<>> <=> k < Number
    BY <1>1, TabOverflow
  <1> QED
    BY <1>1, <1>2, <1>7, <1>8, <1>9, <1>10, TabCutFilled

-----------------------------------------------------------------------------
\* A page that was loaded: its list is cut, and the tab of the hash is shown if it
\* is in the list.
LEMMA TabReady ==
  ASSUME NEW h \in Hashes, NEW room \in Rooms
  PROVE  LET p == Ready(h, room) IN
         /\ \E k \in 0..Number : [slots |-> p.slots, menu |-> p.menu, nav |-> p.nav] = Cut(k)
         /\ p.drop \in BOOLEAN /\ p.nav \in SUBSET Tabs
         /\ p.shown = IF TabOf(h) \in p.nav THEN TabOf(h) ELSE NoTab
         /\ p.shown \in Tabs \cup {NoTab}
  <1> DEFINE m == Least(Number, Fitting(room, TRUE))
             r == Refresh([slots |-> Order, menu |-> <<>>, nav |-> Tabs], room, TRUE)
             p == Ready(h, room)
  <1>1. room \in Nat /\ Number \in Nat /\ Number \in 0..Number
    <2>1. room \in Nat
      BY TabRooms
    <2> QED
      BY <2>1, TabOrder
  <1>2. m \in 0..Number
    BY <1>1 DEF Least, Fitting, Held
  <1>3. [slots |-> Order, menu |-> <<>>, nav |-> Tabs] = Cut(Number)
    <2>1. Cut(Number).slots = Order
      <3>1. Order = [i \in 1..Number |-> Order[i]]
        BY TabOrder DEF Number
      <3>2. Cut(Number).slots = [i \in 1..Number |-> Order[i]]
        BY <1>1 DEF Cut
      <3> QED
        BY <3>1, <3>2
    <2>2. Cut(Number).menu = <<>>
      <3> DEFINE b == Cut(Number).menu
      <3>1. b \in Seq(Tabs) /\ Len(b) = 0
        BY <1>1, TabCutFilled DEF TabBar
      <3> HIDE DEF b
      <3>2. b = <<>>
        BY <3>1
      <3> QED
        BY <3>2 DEF b
    <2>3. Cut(Number).nav = Tabs
      BY DEF Cut, Tabs, Number
    <2> QED
      BY <2>1, <2>2, <2>3 DEF Cut
  <1>4. r = Cut(m)
    BY <1>1, <1>3, TabRefresh
  <1> HIDE DEF m, r
  <1>5. p = [slots |-> r.slots, menu |-> r.menu, nav |-> r.nav, drop |-> r.menu # <<>>,
             shown |-> IF TabOf(h) \in r.nav THEN TabOf(h) ELSE NoTab]
    BY DEF Ready, r
  <1> HIDE DEF p
  <1>6. [slots |-> p.slots, menu |-> p.menu, nav |-> p.nav] = Cut(m)
    <2>1. [slots |-> p.slots, menu |-> p.menu, nav |-> p.nav]
          = [slots |-> r.slots, menu |-> r.menu, nav |-> r.nav]
      BY <1>5
    <2> QED
      BY <1>4, <2>1 DEF Cut
  <1>7. r.nav \in SUBSET Tabs
    BY <1>2, <1>4, TabCutFilled DEF TabBar
  <1> QED
    BY <1>2, <1>5, <1>6, <1>7 DEF p

\* The page that was loaded first.
LEMMA TabInitial == TabInit => TabTypeOK /\ TabIInv
  <1> SUFFICES ASSUME TabInit PROVE TabTypeOK /\ TabIInv
    OBVIOUS
  <1>1. PICK h \in Tabs \cup {""}, room \in Rooms :
          LET p == Ready(h, room) IN
          /\ slots = p.slots /\ menu = p.menu /\ dropdown = p.drop /\ navLinks = p.nav
          /\ tabShown = p.shown /\ bound = p.nav
          /\ hash = h /\ tabButton = h /\ tabLink = h /\ wentBack = FALSE
    BY DEF TabInit
  <1> DEFINE p == Ready(h, room)
  <1>2. h \in Hashes
    BY DEF Hashes
  <1>3. /\ \E k \in 0..Number : [slots |-> p.slots, menu |-> p.menu, nav |-> p.nav] = Cut(k)
        /\ p.drop \in BOOLEAN /\ p.nav \in SUBSET Tabs
        /\ p.shown = IF TabOf(h) \in p.nav THEN TabOf(h) ELSE NoTab
        /\ p.shown \in Tabs \cup {NoTab}
    BY <1>2, TabReady
  <1> HIDE DEF p
  <1>4. PICK k \in 0..Number : [slots |-> slots, menu |-> menu, nav |-> navLinks] = Cut(k)
    BY <1>1, <1>3 DEF p
  <1>5. [slots |-> slots, menu |-> menu, nav |-> navLinks] \in TabBar
    BY <1>4, TabCutAgrees
  <1>6. HashFollows
    BY <1>1, <1>3 DEF HashFollows, p
  <1> QED
    BY <1>1, <1>2, <1>3, <1>4, <1>5, <1>6 DEF TabTypeOK, TabIInv, p

\* Each step keeps the invariant: resizing cuts the list elsewhere, a click moves the hash.
LEMMA TabNextSafe == TabTypeOK /\ TabIInv /\ [TabNext]_tabVars => TabTypeOK' /\ TabIInv'
  <1> SUFFICES ASSUME TabTypeOK, TabIInv, [TabNext]_tabVars PROVE TabTypeOK' /\ TabIInv'
    OBVIOUS
  <1> DEFINE List == [slots |-> slots, menu |-> menu, nav |-> navLinks]
  <1>0. PICK k \in 0..Number : List = Cut(k)
    BY DEF TabIInv
  <1>1. ASSUME NEW room \in Rooms, Resize(room) PROVE TabTypeOK' /\ TabIInv'
    <2> DEFINE m == Least(Number, Fitting(room, dropdown))
               r == Refresh(List, room, dropdown)
    <2>1. room \in Nat /\ dropdown \in BOOLEAN /\ Number \in Nat
      BY TabsAssumption, TabOrder DEF TabTypeOK
    <2>2. m \in 0..Number
      BY <2>1 DEF Least, Fitting, Held
    <2>3. r = Cut(m)
      BY <1>0, <2>1, TabRefresh
    <2>4. slots' = r.slots /\ menu' = r.menu /\ navLinks' = r.nav /\ dropdown' = (r.menu # <<>>)
      BY <1>1 DEF Resize, Refreshed
    <2> HIDE DEF r, m
    <2>5. List' = Cut(m)
      BY <2>3, <2>4 DEF Cut
    <2>6. (List \in TabBar)'
      BY <2>2, <2>5, TabCutFilled
    <2>7. dropdown' \in BOOLEAN
      BY <2>4
    <2>8. HashFollows'
      BY <1>1 DEF TabIInv, HashFollows, Resize
    <2> QED
      BY <1>1, <2>2, <2>5, <2>6, <2>7, <2>8 DEF TabTypeOK, TabIInv, Resize
  <1>2. ASSUME NEW t \in Tabs, TabClick(t) PROVE TabTypeOK' /\ TabIInv'
    <2>1. List' = List
      BY <1>2 DEF TabClick, tabList
    <2>2. slots[1] # NoTab => slots[1] = Order[1]
      BY <1>0, TabCutAgrees
    <2>3. t # NoTab /\ t # "" /\ "" \in Hashes /\ t \in Hashes
      BY TabsAssumption DEF Hashes
    <2>4. CASE t \notin bound
      <3>1. TabTypeOK'
        BY <1>2, <2>1, <2>4 DEF TabClick, TabTypeOK, tabList
      <3>2. HashFollows'
        BY <1>2, <2>4 DEF TabClick, HashFollows
      <3> QED
        BY <1>0, <2>1, <3>1, <3>2 DEF TabIInv
    <2>5. CASE t \in bound
      <3>1. hash' = (IF slots[1] = t THEN "" ELSE t) /\ tabButton' = hash'
            /\ tabLink' = Joined(tabLink, hash') /\ tabShown' = t
        BY <1>2, <2>5 DEF TabClick, ReplaceURLActionHash
      <3>2. hash' \in Hashes /\ TabOf(hash') = t
        BY <2>2, <2>3, <3>1 DEF TabOf
      <3>3. tabLink' \in Hashes
        BY <3>1, <3>2 DEF Joined, Hashes, TabTypeOK
      <3>4. TabTypeOK'
        BY <1>2, <2>1, <2>5, <3>1, <3>2, <3>3 DEF TabClick, TabTypeOK, tabList
      <3>5. HashFollows'
        BY <3>1, <3>2 DEF HashFollows
      <3> QED
        BY <1>0, <2>1, <3>4, <3>5 DEF TabIInv
    <2> QED
      BY <2>4, <2>5
  <1>3. ASSUME NEW h \in Tabs \cup {""}, Back(h) PROVE TabTypeOK' /\ TabIInv'
    BY <1>3 DEF Back, TabTypeOK, TabIInv, HashFollows, Hashes, tabList
  <1>4. ASSUME NEW h \in Hashes, NEW room \in Rooms, TabLoad(h, room) PROVE TabTypeOK' /\ TabIInv'
    <2> DEFINE p == Ready(h, room)
    <2>1. /\ \E j \in 0..Number : [slots |-> p.slots, menu |-> p.menu, nav |-> p.nav] = Cut(j)
          /\ p.drop \in BOOLEAN /\ p.nav \in SUBSET Tabs
          /\ p.shown = IF TabOf(h) \in p.nav THEN TabOf(h) ELSE NoTab
          /\ p.shown \in Tabs \cup {NoTab}
      BY TabReady
    <2>2. /\ slots' = p.slots /\ menu' = p.menu /\ dropdown' = p.drop /\ navLinks' = p.nav
          /\ tabShown' = p.shown /\ bound' = p.nav
          /\ hash' = h /\ tabButton' = h /\ tabLink' = h /\ wentBack' = FALSE
      BY <1>4 DEF TabLoad
    <2> HIDE DEF p
    <2>3. PICK j \in 0..Number : List' = Cut(j)
      BY <2>1, <2>2
    <2>4. (List \in TabBar)'
      BY <2>3, TabCutFilled
    <2>5. HashFollows'
      BY <2>1, <2>2 DEF HashFollows
    <2> QED
      BY <2>1, <2>2, <2>3, <2>4, <2>5 DEF TabTypeOK, TabIInv
  <1>5. CASE TabReload
    BY <1>4, <1>5 DEF TabReload, TabTypeOK
  <1>6. CASE FollowLink
    BY <1>4, <1>6 DEF FollowLink, TabTypeOK
  <1>7. CASE UNCHANGED tabVars
    BY <1>7 DEF tabVars, TabTypeOK, TabIInv, HashFollows
  <1> QED
    BY <1>1, <1>2, <1>3, <1>5, <1>6, <1>7 DEF TabNext

\* The list is cut somewhere and the hash follows the tab that is shown, through any
\* resizing of the window, clicks, loads and steps back (tabs.js, nav_tabs.js).
THEOREM TabSafety == TabSpec => [](TabTypeOK /\ TabIInv)
  BY TabInitial, TabNextSafe, PTL DEF TabSpec

\* However many tabs there are and however the window is resized, the tabs keep
\* their order, none is lost or looks like what it is not, and the hash follows.
THEOREM TabsAreKept == TabSpec => []TabsAgree
  <1>1. TabIInv => TabsAgree
    BY TabCutAgrees DEF TabIInv, TabsAgree
  <1> QED
    BY <1>1, TabSafety, PTL

\* The list fits into the window after it was resized, if any tab does.
THEOREM TabsFit == TabSpec => FitsAfterResize
  <1>1. ASSUME TabTypeOK, TabIInv, TabTypeOK', TabIInv', NEW room \in Rooms \ {0},
               dropdown, Resize(room)
        PROVE  Cardinality({i \in 1..Number : slots'[i] # NoTab})
                 + (IF dropdown' THEN 1 ELSE 0) <= room
    <2> DEFINE List == [slots |-> slots, menu |-> menu, nav |-> navLinks]
               m == Least(Number, Fitting(room, dropdown))
               r == Refresh(List, room, dropdown)
    <2>1. room \in Nat /\ room > 0 /\ Number \in Nat /\ dropdown = TRUE /\ Held(dropdown) = 1
      <3>1. dropdown = TRUE /\ Held(dropdown) = 1
        BY <1>1 DEF TabTypeOK, Held
      <3>2. room \in Nat /\ room # 0
        BY TabRooms
      <3> QED
        BY <3>1, <3>2, TabOrder
    <2>2. m \in 0..Number /\ m + 1 <= room
      BY <2>1 DEF Least, Fitting
    <2>3. PICK k \in 0..Number : List = Cut(k)
      BY <1>1 DEF TabIInv
    <2>4. r = Cut(m)
      BY <2>1, <2>3, TabRefresh
    <2>5. slots' = r.slots /\ dropdown' = (r.menu # <<>>)
      BY <1>1 DEF Resize, Refreshed
    <2> HIDE DEF m, r
    <2>6. {i \in 1..Number : slots'[i] # NoTab} = 1..m /\ Cardinality(1..m) = m
      BY <2>2, <2>4, <2>5, TabCutFilled DEF TabFilled
    <2>7. (IF dropdown' THEN 1 ELSE 0) \in {0, 1}
      OBVIOUS
    <2>8. Cardinality({i \in 1..Number : slots'[i] # NoTab}) = m
      BY <2>6
    <2> QED
      BY <2>1, <2>2, <2>7, <2>8
  <1>2. TabTypeOK /\ TabIInv /\ TabTypeOK' /\ TabIInv'
          => [\A room \in Rooms \ {0} :
                dropdown /\ Resize(room)
                => Cardinality({i \in 1..Number : slots'[i] # NoTab})
                     + (IF dropdown' THEN 1 ELSE 0) <= room]_tabVars
    BY <1>1
  <1> QED
    BY <1>2, TabSafety, PTL DEF FitsAfterResize

-----------------------------------------------------------------------------
(* The window of the browser that shows one of the pages: whatever is shown *)
(* and done in it, each page behaves as its own module says.                *)

\* A step of the window is a step of each page, or leaves it alone.
LEMMA WindowTables ==
  [Next]_vars => /\ [MonitorNext]_monitorVars
                 /\ [PickerNext]_pickerVars
                 /\ [PatchNext]_patchVars
                 /\ [RoleNext]_roleVars
                 /\ [FlagNext]_flagVars
                 /\ [TabNext]_tabVars
  BY DEF Next, vars

\* The window implements each of its pages.
LEMMA WindowIsTables ==
  Spec => MonitorSpec /\ PickerSpec /\ PatchSpec /\ RoleSpec /\ FlagSpec /\ TabSpec
  <1>1. Init => MonitorInit /\ PickerInit /\ PatchInit /\ RoleInit /\ FlagInit /\ TabInit
    BY DEF Init
  <1> QED
    BY <1>1, WindowTables, PTL
       DEF Spec, MonitorSpec, PickerSpec, PatchSpec, RoleSpec, FlagSpec, TabSpec

\* In a window that shows any of the pages, every variable keeps its type.
THEOREM TablesTypesCorrect == Spec => []TablesTypeOK
  <1>1. MonitorTypeOK /\ PickerTypeOK /\ PatchTypeOK /\ RoleTypeOK /\ FlagTypeOK /\ TabTypeOK
          => TablesTypeOK
    BY DEF TablesTypeOK
  <1> QED
    BY <1>1, WindowIsTables, MonitorTypeCorrect, PickerSafety, PatchTypeCorrect, RoleTypeCorrect,
       FlagTypeCorrect, TabSafety, PTL

\* In the window of a project no repository and no binary that is selected is
\* dropped, an option of a flag does what it promised, and the tabs fit
\* (autocomplete.js:141, patchinfo.js:117, repositories.js:17, tabs.js:22).
THEOREM TableStepsHold ==
  ASSUME ~IsPackage
  PROVE  Spec => TableSteps
  BY WindowIsTables, PickerDropsNone, PatchSavesTheList, FlagPromisesKept, TabsFit, PTL DEF TableSteps
===============================================================================
