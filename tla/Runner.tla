-------------------------------- MODULE Runner --------------------------------
(***************************************************************************)
(* The event loop of the signer, the service dispatcher, the source        *)
(* publisher and the publisher: BSRunner::run with BSStdRunner's lsevents, *)
(* getevent, dispatch, setdue and sigkill, in the mode in which events are *)
(* handled by forked children and marked as ...::inprogress.               *)
(*                                                                         *)
(* An event is a file in the event directory; whoever writes it pings the  *)
(* runner through a fifo afterwards.  The parent drains the fifo, lists    *)
(* the directory, forks a child per event and waits for the next ping.  A  *)
(* child renames the event to ...::inprogress, handles it and unlinks it,  *)
(* or renames it back to have it retried later.                            *)
(***************************************************************************)
EXTENDS Integers, FiniteSets

CONSTANTS
  Names,        \* names of events
  Children,     \* slots for child processes
  NoName,       \* the name in a slot without a child
  Flavored,     \* names of the events that have the limited flavor
  MaxChild,     \* maxchild: children running in parallel
  FlavorLimit,  \* maxchild_flavor of that flavor
  MaxTrouble    \* bound on failures, kills, crashes and stop requests

ASSUME RunnerAssumption ==
  /\ NoName \notin Names /\ Flavored \subseteq Names
  /\ MaxChild \in Nat \ {0} /\ FlavorLimit \in Nat \ {0}
  \* a slot is always free: reap leaves at most maxchild children
  /\ IsFiniteSet(Children) /\ Cardinality(Children) > MaxChild
  /\ MaxTrouble \in Nat

VARIABLES
  file,      \* the event file: "none", "ready", or "later" if not due yet
  inprog,    \* the file ...::inprogress, likewise
  pinging,   \* events written whose writer has not pinged yet
  ping,      \* BOOLEAN: something is in the fifo
  pc,        \* where the parent is
  todo,      \* the listed events it has not looked at yet
  flags,     \* havedelayed, havelimited, havereaped, numreaped > 0
  chld,      \* the children the parent has not reaped
  child,     \* the child processes
  stopFile,  \* BOOLEAN: the .exit or .restart file exists
  trouble,
  owed,      \* history: the events not handled since they were last written
  fresh,     \* history: the children whose event was not written since they took it
  raced      \* history: events two children were at work on

dir        == <<file, inprog>>
parent     == <<pc, todo, flags>>
history    == <<owed, fresh, raced>>
vars == <<file, inprog, pinging, ping, pc, todo, flags, chld, child, stopFile, trouble,
          owed, fresh, raced>>

-----------------------------------------------------------------------------
Contents  == {"none", "ready", "later"}
Reaping   == {"reapFork", "reapIdle", "reapLimited", "reapStop"}
Pcs       == {"off", "drain", "list", "next", "checks", "limited", "pause", "wait"} \cup Reaping
AtWork    == {"work", "unlink", "ping", "back"}
Alive     == {"start"} \cup AtWork
ChildProc == [pc: {"none", "exited", "killed"} \cup Alive, ev: Names \cup {NoName}]
NoChild   == [pc |-> "none", ev |-> NoName]

\* Every variable has its type.
TypeOK ==
  /\ file \in [Names -> Contents] /\ inprog \in [Names -> Contents]
  /\ pinging \subseteq Names /\ ping \in BOOLEAN
  /\ pc \in Pcs /\ todo \subseteq Names
  /\ flags \subseteq {"delayed", "limited", "reaped", "freed"}
  /\ chld \subseteq Children /\ child \in [Children -> ChildProc]
  /\ stopFile \in BOOLEAN /\ trouble \in 0 .. MaxTrouble
  /\ owed \subseteq Names /\ fresh \subseteq Children /\ raced \subseteq Names

Init ==
  /\ file = [e \in Names |-> "none"] /\ inprog = [e \in Names |-> "none"]
  /\ pinging = {} /\ ping = FALSE
  /\ pc = "drain" /\ todo = {} /\ flags = {}
  /\ chld = {} /\ child = [c \in Children |-> NoChild]
  /\ stopFile = FALSE /\ trouble = 0
  /\ owed = {} /\ fresh = {} /\ raced = {}

Trouble  == trouble < MaxTrouble /\ trouble' = trouble + 1
Dead(c)  == child[c].pc \in {"exited", "killed"}
\* What becomes of a child that ends: a zombie until the parent reaps it.
Ended(c, how) == [child EXCEPT ![c] = IF c \in chld THEN [child[c] EXCEPT !.pc = how] ELSE NoChild]
\* ::inprogress is renamed back.
Back(e)  == /\ file' = [file EXCEPT ![e] = inprog[e]]
            /\ inprog' = [inprog EXCEPT ![e] = "none"]

-----------------------------------------------------------------------------
(* The writers of events, and time.                                        *)

\* writexml of an event file; it replaces one that is there.
Write(e) ==
  /\ e \notin pinging
  /\ file' = [file EXCEPT ![e] = "ready"]
  /\ pinging' = pinging \cup {e}
  /\ owed' = owed \cup {e}
  /\ fresh' = {c \in fresh : child[c].ev # e}
  /\ UNCHANGED <<inprog, ping, parent, chld, child, stopFile, trouble, raced>>

\* The ping after it; without a reader it is lost.
Ping(e) ==
  /\ e \in pinging
  /\ pinging' = pinging \ {e}
  /\ ping' = (pc # "off")
  /\ UNCHANGED <<dir, parent, chld, child, stopFile, trouble, history>>

\* A ping that comes with none of these events.
OtherPing ==
  /\ pc # "off" /\ ~ping
  /\ ping' = TRUE
  /\ UNCHANGED <<dir, pinging, parent, chld, child, stopFile, trouble, history>>

\* The due time of an event passes.
DuePassed(e) ==
  /\ file[e] = "later"
  /\ file' = [file EXCEPT ![e] = "ready"]
  /\ UNCHANGED <<inprog, pinging, ping, parent, chld, child, stopFile, trouble, history>>

\* bs_... --stop or --restart.
RequestStop ==
  /\ Trouble
  /\ pc # "off" /\ ~stopFile
  /\ stopFile' = TRUE
  /\ ping' = TRUE
  /\ UNCHANGED <<dir, pinging, parent, chld, child, history>>

-----------------------------------------------------------------------------
(* The parent.                                                             *)

Drain ==
  /\ pc = "drain"
  /\ ping' = FALSE
  /\ pc' = "list" /\ flags' = {}
  /\ UNCHANGED <<dir, pinging, todo, chld, child, stopFile, trouble, history>>

\* Mutant: names that begin with a dot are not left out (NoName stands for .ping).
ListDotFiles ==
  /\ pc = "list"
  /\ todo' = {e \in Names : file[e] # "none" /\ inprog[e] = "none"} \cup {NoName}
  /\ pc' = "next"
  /\ UNCHANGED <<dir, pinging, ping, flags, chld, child, stopFile, trouble, history>>

\* lsevents: events in progress are left out.
List ==
  /\ pc = "list"
  /\ todo' = {e \in Names : file[e] # "none" /\ inprog[e] = "none"}
  /\ pc' = "next"
  /\ UNCHANGED <<dir, pinging, ping, flags, chld, child, stopFile, trouble, history>>

\* getevent: the file has gone, or is not due yet.
Skip(e) ==
  /\ pc = "next" /\ e \in todo /\ ~stopFile
  /\ file[e] # "ready"
  /\ todo' = todo \ {e}
  /\ flags' = IF file[e] = "later" THEN flags \cup {"delayed"} ELSE flags
  /\ UNCHANGED <<dir, pinging, ping, pc, chld, child, stopFile, trouble, history>>

AtFlavorLimit(e) ==
  e \in Flavored /\ Cardinality({c \in chld : child[c].ev \in Flavored}) >= FlavorLimit

\* There are enough children of this flavor.
Limited(e) ==
  /\ pc = "next" /\ e \in todo /\ ~stopFile
  /\ file[e] = "ready" /\ AtFlavorLimit(e)
  /\ todo' = todo \ {e}
  /\ flags' = flags \cup {"limited"}
  /\ UNCHANGED <<dir, pinging, ping, pc, chld, child, stopFile, trouble, history>>

Fork(e, c) ==
  /\ pc = "next" /\ e \in todo /\ ~stopFile
  /\ file[e] = "ready" /\ ~AtFlavorLimit(e)
  /\ child[c].pc = "none"
  /\ child' = [child EXCEPT ![c] = [pc |-> "start", ev |-> e]]
  /\ chld' = chld \cup {c}
  /\ todo' = todo \ {e}
  /\ pc' = "reapFork"
  /\ UNCHANGED <<dir, pinging, ping, flags, stopFile, trouble, history>>

\* Mutant: a killed child leaves its event in progress.
ReapLeavesEvent(c) ==
  /\ pc \in Reaping /\ c \in chld /\ Dead(c)
  /\ chld' = chld \ {c}
  /\ child' = [child EXCEPT ![c] = NoChild]
  /\ flags' = flags \cup {"freed"}
  /\ UNCHANGED <<dir, pinging, ping, pc, todo, stopFile, trouble, history>>

\* waitpid returns a child; of one that was killed the event is renamed back.
Reap(c) ==
  /\ pc \in Reaping /\ c \in chld /\ Dead(c)
  /\ chld' = chld \ {c}
  /\ child' = [child EXCEPT ![c] = NoChild]
  /\ flags' = flags \cup {"freed"}
  /\ IF child[c].pc = "killed" /\ inprog[child[c].ev] # "none"
       THEN Back(child[c].ev) ELSE UNCHANGED dir
  /\ UNCHANGED <<pinging, ping, pc, todo, stopFile, trouble, history>>

\* Mutant: the parent never waits for a child.
ReapLimitNone == Cardinality(Children)

\* reap blocks as long as there are more children than this.
ReapLimit == IF pc = "reapStop" THEN 0 ELSE MaxChild

\* reap returns: nothing more to reap, and no reason to wait.
ReapDone ==
  /\ pc \in Reaping
  /\ \A c \in chld : ~Dead(c)
  /\ Cardinality(chld) <= ReapLimit
  /\ \/ pc = "reapFork" /\ pc' = "next" /\ flags' = flags \cup {"reaped"}
     \/ pc = "reapIdle" /\ pc' = "checks" /\ UNCHANGED flags
     \/ pc = "reapLimited" /\ pc' \in {"limited", "drain"} /\ UNCHANGED flags
     \/ pc = "reapStop" /\ pc' = "checks" /\ UNCHANGED flags
  /\ UNCHANGED <<dir, pinging, ping, todo, chld, child, stopFile, trouble, history>>

\* All events were looked at, or the runner shall stop.
ForEnd ==
  /\ pc = "next"
  /\ todo = {} \/ stopFile
  /\ todo' = {}
  /\ pc' = IF flags \cap {"delayed", "limited"} # {} /\ "reaped" \notin flags /\ chld # {}
             THEN "reapIdle" ELSE "checks"
  /\ UNCHANGED <<dir, pinging, ping, flags, chld, child, stopFile, trouble, history>>

\* Mutant: the runner exits without waiting for its children.
ChecksAtOnce ==
  /\ pc = "checks"
  /\ pc' = IF stopFile THEN "off"
           ELSE IF "limited" \in flags THEN "limited"
           ELSE IF "delayed" \in flags THEN "pause" ELSE "wait"
  /\ stopFile' = FALSE
  /\ UNCHANGED <<dir, pinging, ping, todo, flags, chld, child, trouble, history>>

\* The filechecks (fc_exit, fc_restart) after all children have finished, or
\* on to waiting.
Checks ==
  /\ pc = "checks"
  /\ pc' = IF stopFile THEN IF chld # {} THEN "reapStop" ELSE "off"
           ELSE IF "limited" \in flags THEN "limited"
           ELSE IF "delayed" \in flags THEN "pause" ELSE "wait"
  /\ stopFile' = (stopFile /\ chld # {})
  /\ UNCHANGED <<dir, pinging, ping, todo, flags, chld, child, trouble, history>>

\* havelimited: until something was reaped or pinged, ten times at most.
WaitLimited ==
  /\ pc = "limited"
  /\ IF chld = {} \/ "freed" \in flags THEN pc' = "drain" /\ UNCHANGED ping
     ELSE \/ ping /\ pc' = "drain" /\ ping' = FALSE
          \/ ~ping /\ pc' = "reapLimited" /\ UNCHANGED ping
  /\ UNCHANGED <<dir, pinging, todo, flags, chld, child, stopFile, trouble, history>>

\* havedelayed: ten seconds, or a ping.
WaitDelayed ==
  /\ pc = "pause"
  /\ pc' = "drain" /\ ping' = FALSE
  /\ UNCHANGED <<dir, pinging, todo, flags, chld, child, stopFile, trouble, history>>

\* "waiting for an event..."
WaitPing ==
  /\ pc = "wait" /\ ping
  /\ pc' = "drain" /\ ping' = FALSE
  /\ UNCHANGED <<dir, pinging, todo, flags, chld, child, stopFile, trouble, history>>

\* The parent dies; children go on, zombies are gone.
Crash ==
  /\ Trouble
  /\ pc # "off"
  /\ pc' = "off" /\ todo' = {} /\ flags' = {} /\ chld' = {}
  /\ child' = [c \in Children |-> IF Dead(c) THEN NoChild ELSE child[c]]
  /\ UNCHANGED <<dir, pinging, ping, stopFile, history>>

\* Mutant: the run lock is not inherited by the children.
StartBesideChildren ==
  /\ pc = "off"
  /\ file' = [e \in Names |-> IF inprog[e] # "none" THEN inprog[e] ELSE file[e]]
  /\ inprog' = [e \in Names |-> "none"]
  /\ stopFile' = FALSE \/ UNCHANGED stopFile
  /\ pc' = "drain"
  /\ UNCHANGED <<pinging, ping, todo, flags, chld, child, trouble, history>>

\* It is started again.  The run lock was inherited by the children, so this
\* succeeds only when none is left.  Events in progress are renamed back.  A
\* stop file of before is found stale only if the program has arguments.
Start ==
  /\ pc = "off"
  /\ \A c \in Children : child[c].pc = "none"
  /\ file' = [e \in Names |-> IF inprog[e] # "none" THEN inprog[e] ELSE file[e]]
  /\ inprog' = [e \in Names |-> "none"]
  /\ stopFile' = FALSE \/ UNCHANGED stopFile
  /\ pc' = "drain"
  /\ UNCHANGED <<pinging, ping, todo, flags, chld, child, trouble, history>>

-----------------------------------------------------------------------------
(* A child, inside dispatch.                                               *)

\* The event is renamed to ...::inprogress, replacing such a file.
Take(c) ==
  LET e == child[c].ev IN
  /\ child[c].pc = "start" /\ file[e] # "none"
  /\ inprog' = [inprog EXCEPT ![e] = file[e]]
  /\ file' = [file EXCEPT ![e] = "none"]
  /\ child' = [child EXCEPT ![c].pc = "work"]
  /\ fresh' = fresh \cup {c}
  /\ raced' = IF \E d \in Children \ {c} : child[d].pc \in AtWork /\ child[d].ev = e
                THEN raced \cup {e} ELSE raced
  /\ UNCHANGED <<pinging, ping, parent, chld, stopFile, trouble, owed>>

\* The rename fails, another child was faster.
TakeFails(c) ==
  /\ child[c].pc = "start" /\ file[child[c].ev] = "none"
  /\ child' = Ended(c, "exited")
  /\ UNCHANGED <<dir, pinging, ping, parent, chld, stopFile, trouble, history>>

\* The handler succeeds ...
Handle(c) ==
  LET e == child[c].ev IN
  /\ child[c].pc = "work"
  /\ owed' = IF c \in fresh THEN owed \ {e} ELSE owed
  /\ child' = [child EXCEPT ![c].pc = "unlink"]
  /\ UNCHANGED <<dir, pinging, ping, parent, chld, stopFile, trouble, fresh, raced>>

\* ... and the event goes.
Unlink(c) ==
  /\ child[c].pc = "unlink"
  /\ inprog' = [inprog EXCEPT ![child[c].ev] = "none"]
  /\ fresh' = fresh \ {c}
  /\ child' = Ended(c, "exited")
  /\ UNCHANGED <<file, pinging, ping, parent, chld, stopFile, trouble, owed, raced>>

\* The handler fails: setdue writes the event with a due time ...
Fail(c) ==
  /\ Trouble
  /\ child[c].pc = "work"
  /\ inprog' = [inprog EXCEPT ![child[c].ev] = "later"]
  /\ child' = [child EXCEPT ![c].pc = "ping"]
  /\ UNCHANGED <<file, pinging, ping, parent, chld, stopFile, history>>

\* ... and pings ...
FailPing(c) ==
  /\ child[c].pc = "ping"
  /\ ping' = (ping \/ pc # "off")
  /\ child' = [child EXCEPT ![c].pc = "back"]
  /\ UNCHANGED <<dir, pinging, parent, chld, stopFile, trouble, history>>

\* Mutant: dispatch unlinks the event also when the handler has failed.
FailBackUnlinks(c) ==
  /\ child[c].pc = "back"
  /\ inprog' = [inprog EXCEPT ![child[c].ev] = "none"]
  /\ fresh' = fresh \ {c}
  /\ child' = Ended(c, "exited")
  /\ UNCHANGED <<file, pinging, ping, parent, chld, stopFile, trouble, owed, raced>>

\* ... and dies, so that dispatch renames the event back.
FailBack(c) ==
  /\ child[c].pc = "back"
  /\ IF inprog[child[c].ev] # "none" THEN Back(child[c].ev) ELSE UNCHANGED dir
  /\ fresh' = fresh \ {c}
  /\ child' = Ended(c, "exited")
  /\ UNCHANGED <<pinging, ping, parent, chld, stopFile, trouble, owed, raced>>

\* The child is killed by a signal.
Killed(c) ==
  /\ Trouble
  /\ child[c].pc \in Alive
  /\ fresh' = fresh \ {c}
  /\ child' = Ended(c, "killed")
  /\ UNCHANGED <<dir, pinging, ping, parent, chld, stopFile, owed, raced>>

-----------------------------------------------------------------------------
Environment == OtherPing \/ RequestStop \/ \E e \in Names : Write(e) \/ Ping(e) \/ DuePassed(e)
Parent ==
  \/ Drain \/ List \/ ReapDone \/ ForEnd \/ Checks \/ WaitLimited \/ WaitDelayed \/ WaitPing
  \/ Crash \/ Start
  \/ \E e \in Names : Skip(e) \/ Limited(e) \/ \E c \in Children : Fork(e, c)
  \/ \E c \in Children : Reap(c)
Child(c) == Take(c) \/ TakeFails(c) \/ Handle(c) \/ Unlink(c) \/ Fail(c) \/ FailPing(c)
            \/ FailBack(c) \/ Killed(c)

Next == Environment \/ Parent \/ \E c \in Children : Child(c)

Spec == Init /\ [][Next]_vars

\* Writers ping, time passes, the runner is started again, and every process
\* goes on; a child ends its work in success or failure.
Fairness ==
  /\ WF_vars(Drain) /\ WF_vars(List) /\ WF_vars(ReapDone) /\ WF_vars(ForEnd) /\ WF_vars(Checks)
  /\ WF_vars(WaitLimited) /\ WF_vars(WaitDelayed) /\ WF_vars(WaitPing) /\ WF_vars(Start)
  /\ \A e \in Names :
       /\ WF_vars(Ping(e)) /\ WF_vars(DuePassed(e))
       /\ WF_vars(Skip(e)) /\ WF_vars(Limited(e)) /\ WF_vars(\E c \in Children : Fork(e, c))
  /\ \A c \in Children :
       /\ WF_vars(Reap(c)) /\ WF_vars(Take(c)) /\ WF_vars(TakeFails(c)) /\ WF_vars(Handle(c))
       /\ WF_vars(Unlink(c)) /\ WF_vars(FailPing(c)) /\ WF_vars(FailBack(c))

FairSpec == Spec /\ Fairness

-----------------------------------------------------------------------------
(* Properties.                                                             *)

\* The children of the runner that run (chld also holds the ended ones).
Running  == {c \in chld : child[c].pc \in Alive}

\* An event that was not handled since it was last written is in the directory,
\* whoever failed, was killed or crashed, unless two children were at work on it.
EventKept == \A e \in owed \ raced : file[e] # "none" \/ inprog[e] # "none"

\* Not more than maxchild_flavor children of a flavor run, and one child more
\* than maxchild: the parent only waits after it has forked.
ChildLimits ==
  /\ Cardinality({c \in Running : child[c].ev \in Flavored}) <= FlavorLimit
  /\ Cardinality(Running) <= MaxChild + 1

\* A runner that is stopped (not crashed) leaves nothing in progress: after
\* fc_exit no event depends on the recovery at the next start.
StopIsClean ==
  [][pc = "checks" /\ pc' = "off" /\ UNCHANGED trouble => \A e \in Names : inprog[e] = "none"]_vars

Handled(c, e) == child[c].pc = "unlink" /\ child[c].ev = e

\* A runner that forks again and again handles every event at last, also when
\* children fail or are killed and when it crashes or is restarted.  (A
\* flavored event can be passed over for others of its flavor for ever.)
EventsHandled ==
  []<><<\E e \in Names, c \in Children : Fork(e, c)>>_vars
    => \A e \in Names \ Flavored : e \in owed ~> e \in raced \/ \E c \in Children : Handled(c, e)

\* "retry in 3 minutes" (bs_signer), "retry in 10 minutes" (bs_servicedispatch,
\* bs_sourcepublish): an event that has failed is taken up again.
FailedIsRetried ==
  \A e \in Names : file[e] = "later" ~> \E c \in Children : child[c].pc = "start" /\ child[c].ev = e

\* "max of 4 parallel running services (default)" (BSConfig.pm.template).
MaxParallel == Cardinality(Running) <= MaxChild

-----------------------------------------------------------------------------
(* The inductive invariant behind EventKept.                               *)

\* One child at most is at work on an event.  The event is in the directory
\* until that child has handled it, and what was written meanwhile is in the
\* event file.  (It is in the event file also when the parent, reaping a child
\* that was killed before it took the event, has renamed the other's back.)
WorkInProgress ==
  \A c \in Children : child[c].pc \in AtWork /\ child[c].ev \notin raced =>
    /\ inprog[child[c].ev] # "none" \/ file[child[c].ev] # "none"
    /\ c \notin fresh => file[child[c].ev] # "none"
    /\ child[c].pc = "unlink" /\ c \in fresh => child[c].ev \notin owed
    /\ \A d \in Children \ {c} : child[d].pc \in AtWork => child[d].ev # child[c].ev

ChildrenNamed == \A c \in Children : child[c].pc # "none" => child[c].ev \in Names

\* A started runner never meets the children of the one before it.
NoStrayChild == pc # "off" => \A c \in Children \ chld : child[c].pc = "none"

\* A file ...::inprogress belongs to a child that the parent will reap.
InProgressHeld ==
  pc # "off" => \A e \in Names : inprog[e] # "none" =>
    \E c \in chld : child[c].ev = e /\ child[c].pc \in AtWork \cup {"killed"}

\* All of them together hold, and no step of anybody breaks them: this is why
\* no event is lost.
RunnerInv == WorkInProgress /\ ChildrenNamed /\ NoStrayChild /\ InProgressHeld

=============================================================================
