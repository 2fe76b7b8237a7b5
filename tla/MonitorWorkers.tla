---------------------------- MODULE MonitorWorkers ----------------------------
(***************************************************************************)
(* The workers on the build status monitor (monitor.js:99-178): a bar for  *)
(* a worker that builds, a badge on its host that counts the others by     *)
(* their state.  Updates come at an interval and when the user chooses     *)
(* what the bars say, and may overtake each other.  The page is that of    *)
(* the workers there were when it was loaded.                              *)
(***************************************************************************)
EXTENDS Integers, FiniteSets

CONSTANTS
  Workers,
  Host,              \* of a worker
  Jobs,
  Secret,            \* the jobs the user must not see, shown as ---
  NoBar,             \* no bar, no link
  MaxUpdates,        \* bound on the updates under way
  MaxMonitorChanges  \* bound on the changes of a worker

States == {"idle", "away", "dead", "down"}

ASSUME MonitorAssumption ==
  /\ IsFiniteSet(Workers) /\ Secret \subseteq Jobs /\ NoBar \notin Jobs /\ Jobs \cap States = {}
  /\ DOMAIN Host = Workers /\ MaxUpdates \in Nat \ {0} /\ MaxMonitorChanges \in Nat

VARIABLES
  monitorServer,  \* of a worker that is there, its job or state
  changes,
  updates,        \* of an identity under way, what the server answered, or {}
  monitorPage,    \* the workers with a bar, shown or not
  bar,            \* the job a worker's bar shows
  monitorLink,    \* where its text leads
  badge,          \* of a host and a state, the number on the badge
  last            \* history: the answer shown last

monitorVars == <<monitorServer, changes, updates, monitorPage, bar, monitorLink, badge,
                 last>>

-----------------------------------------------------------------------------
Hosts == {Host[w] : w \in Workers}
Snapshots == UNION {[ws -> Jobs \cup States] : ws \in SUBSET Workers}
Busy(a) == {w \in DOMAIN a : a[w] \in Jobs}

\* of those with a bar
Count(a, h, s) == Cardinality({w \in DOMAIN a \cap monitorPage : Host[w] = h /\ a[w] = s})

MonitorInit ==
  /\ \E ws \in SUBSET Workers, s \in Jobs \cup States : monitorServer = [w \in ws |-> s]
  /\ monitorPage = DOMAIN monitorServer /\ last = {}
  /\ bar = [w \in monitorPage |-> NoBar] /\ monitorLink = bar
  /\ badge = [h \in Hosts |-> [s \in States |-> Count(monitorServer, h, s)]]
  /\ changes = 0 /\ updates = [i \in {1} |-> {}]

\* at the servers and the workers: a worker builds, idles, comes or goes
Change ==
  /\ changes < MaxMonitorChanges /\ changes' = changes + 1
  /\ \E w \in Workers : monitorServer' \in
       {[v \in DOMAIN monitorServer \cup {w} |-> IF v = w THEN s ELSE monitorServer[v]] : s \in Jobs \cup States}
       \cup {[v \in DOMAIN monitorServer \ {w} |-> monitorServer[v]]}
  /\ UNCHANGED <<updates, monitorPage, bar, monitorLink, badge, last>>

\* updateProgressBar
MonitorUpdate ==
  /\ \E i \in (1..MaxUpdates) \ DOMAIN updates :
       updates' = [j \in DOMAIN updates \cup {i} |-> IF j = i THEN {} ELSE updates[j]]
  /\ UNCHANGED <<monitorServer, changes, monitorPage, bar, monitorLink, badge, last>>

\* BuildingInformationUpdater
MonitorHandle(i) ==
  /\ updates[i] = {} /\ updates' = [updates EXCEPT ![i] = {monitorServer}]
  /\ UNCHANGED <<monitorServer, changes, monitorPage, bar, monitorLink, badge, last>>

\* Mutant: what a secret job shows is its link too.
LinkText(w, job) == IF job \in Secret THEN "---" ELSE job

\* the text of a bar is a link unless the job is a secret one
Link(w, job) == IF job \in Secret THEN NoBar ELSE job

\* Mutant: a worker that is done keeps its bar.
BarKept(a, w) == IF w \in Busy(a) THEN a[w] ELSE bar[w]

\* processProgressBar; a worker the answer does not know keeps its bar
MonitorBar(a, w) == IF w \notin DOMAIN a THEN bar[w] ELSE IF w \in Busy(a) THEN a[w] ELSE NoBar

Answer(i) ==
  \E a \in updates[i] :
    /\ bar' = [w \in monitorPage |-> MonitorBar(a, w)]
    /\ monitorLink' = [w \in monitorPage |-> IF w \in Busy(a) THEN Link(w, a[w]) ELSE monitorLink[w]]
    /\ badge' = [h \in Hosts |-> [s \in States |-> Count(a, h, s)]]
    /\ last' = {a}
    /\ updates' = [j \in DOMAIN updates \ {i} |-> updates[j]]
    /\ UNCHANGED <<monitorServer, changes, monitorPage>>

MonitorFail(i) ==
  /\ updates' = [j \in DOMAIN updates \ {i} |-> updates[j]]
  /\ UNCHANGED <<monitorServer, changes, monitorPage, bar, monitorLink, badge, last>>

MonitorNext ==
  \/ Change \/ MonitorUpdate
  \/ \E i \in DOMAIN updates : MonitorHandle(i) \/ Answer(i) \/ MonitorFail(i)

MonitorSpec == MonitorInit /\ [][MonitorNext]_monitorVars

-----------------------------------------------------------------------------
(* Properties.                                                              *)

\* The type invariant of the monitor.
MonitorTypeOK ==
  /\ monitorServer \in Snapshots /\ last \subseteq Snapshots /\ changes \in 0..MaxMonitorChanges
  /\ DOMAIN updates \subseteq 1..MaxUpdates
  /\ \A i \in DOMAIN updates : updates[i] \subseteq Snapshots
  /\ monitorPage \subseteq Workers /\ bar \in [monitorPage -> Jobs \cup {NoBar}]
  /\ monitorLink \in [monitorPage -> Jobs \cup {NoBar}]
  /\ badge \in [Hosts -> [States -> 0..Cardinality(Workers)]]

\* A worker the server told of is shown once: with a bar, or counted by one badge
\* of its host, never by both and never by none.
ShownOnce ==
  \A a \in last, h \in Hosts :
    LET known == {w \in monitorPage \cap DOMAIN a : Host[w] = h}
    IN Cardinality(known) = Cardinality({w \in known : bar[w] # NoBar})
                            + badge[h]["idle"] + badge[h]["away"] + badge[h]["dead"] + badge[h]["down"]

\* A bar leads to the log of the job it shows, and a secret job's bar nowhere,
\* in whatever order the answers came: monitor_spec.rb:19 "does not link hidden
\* workers to broken build logs".
LinkedToItsJob ==
  \A w \in monitorPage : bar[w] # NoBar => monitorLink[w] = IF bar[w] \in Secret THEN NoBar ELSE bar[w]

\* Bars, badges and links agree.
MonitorAgrees == ShownOnce /\ LinkedToItsJob
===============================================================================
