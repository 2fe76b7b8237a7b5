------------------------------- MODULE FlagTable ------------------------------
(***************************************************************************)
(* The tables of the flags of a project or package (repositories.js): one  *)
(* table for each type of flag, a cell for each repository and             *)
(* architecture and for all of them.  A click on a cell opens a popover    *)
(* with two options, made from the cell; an option is a request, whose     *)
(* answer is the table as it is then.                                      *)
(***************************************************************************)
EXTENDS Integers, Sequences, FiniteSets, FiniteSetsExt

CONSTANTS
  Types,            \* of flags
  FlagRepositories, Architectures,
  All,              \* the row and the column for all of them
  IsPackage,        \* BOOLEAN: a package, whose project has flags too
  MaxFlagRequests,  \* bound on the requests under way
  MaxFlagFailures   \* bound on the requests refused or lost

ASSUME FlagTableAssumption ==
  /\ All \notin FlagRepositories \cup Architectures /\ IsPackage \in BOOLEAN
  /\ MaxFlagRequests \in Nat \ {0} /\ MaxFlagFailures \in Nat

VARIABLES
  flags,         \* at the server
  projectFlags,  \* those of the project of a package, which others set
  table,         \* the flags each table was made from
  popovers,      \* those that are open
  flagLoading,   \* the tables with spinners for their cells
  flagRequests,  \* of an identity under way, what was asked for
  flagFailures,
  flagOverlap,   \* history: types with requests side by side
  broken         \* history: types with a request that was refused or lost

flagVars == <<flags, projectFlags, table, popovers, flagLoading, flagRequests,
              flagFailures, flagOverlap, broken>>

-----------------------------------------------------------------------------
Status  == {"enable", "disable"}
FlagCells   == (FlagRepositories \cup {All}) \X (Architectures \cup {All})
Flags   == [FlagCells -> Status \cup {"unset"}]
Option  == [command: Status \cup {"remove"}, promise: Status]
Popover == [type: Types, cell: FlagCells, options: SUBSET Option]
FlagRequest == [type: Types, cell: FlagCells, option: Option, sure: BOOLEAN,
            pc: {"sent", "answered"}, answer: Flags]

FlagWithout(i) == [j \in DOMAIN flagRequests \ {i} |-> flagRequests[j]]
FlagOf(t)      == {i \in DOMAIN flagRequests : flagRequests[i].type = t}
Default    == "enable"    \* FlagHelper.default_for

-----------------------------------------------------------------------------
(* Flag::SpecifiedFlags                                                     *)

\* the first flag that is set in a sequence of cells, or none
FirstSet(f, cells) ==
  LET set == {i \in 1..Len(cells) : f[cells[i]] # "unset"}
  IN IF set = {} THEN "unset" ELSE f[cells[Min(set)]]

\* effective_flag_for
EffectiveIn(f, c) == FirstSet(f, <<c, <<c[1], All>>, <<All, c[2]>>, <<All, All>>>>)

\* default_flag_for
DefaultIn(f, c) ==
  CASE c[1] # All /\ c[2] # All -> FirstSet(f, <<<<c[1], All>>, <<All, c[2]>>, <<All, All>>>>)
    [] c[1] = All /\ c[2] = All -> "unset"
    [] OTHER                    -> f[<<All, All>>]

\* dig_flag: of the object, of its project, or the default
Dug(own, project) ==
  IF own # "unset" THEN own
  ELSE IF IsPackage /\ project # "unset" THEN project ELSE Default

Effective(t, f, c)   == Dug(EffectiveIn(f, c), EffectiveIn(projectFlags[t], c))
DefaultFlag(t, f, c) == Dug(DefaultIn(f, c), DefaultIn(projectFlags[t], c))

-----------------------------------------------------------------------------
FlagInit ==
  /\ flags \in [Types -> Flags]
  /\ projectFlags \in IF IsPackage THEN [Types -> Flags] ELSE {[t \in Types |-> [c \in FlagCells |-> "unset"]]}
  /\ table = flags
  /\ popovers = {} /\ flagLoading = {} /\ flagRequests = [i \in {} |-> {}] /\ flagFailures = 0
  /\ flagOverlap = {} /\ broken = {}

Other(status) == IF status = "enable" THEN "disable" ELSE "enable"

\* prepareFlagPopover
FlagOptions(t, f, c) ==
  IF f[c] = "unset" THEN {[command |-> s, promise |-> s] : s \in Status}
  ELSE LET other == Other(Effective(t, f, c))
       IN {[command |-> other, promise |-> other],
           [command |-> "remove", promise |-> DefaultFlag(t, f, c)]}

\* Mutant: the popover is of the cell for all.
OpenAll(t, c) ==
  /\ popovers' = popovers \cup {[type |-> t, cell |-> c, options |-> FlagOptions(t, table[t], <<All, All>>)]}
  /\ UNCHANGED <<flags, projectFlags, table, flagLoading, flagRequests, flagFailures,
                 flagOverlap, broken>>

FlagOpen(t, c) ==
  /\ popovers' = popovers \cup {[type |-> t, cell |-> c, options |-> FlagOptions(t, table[t], c)]}
  /\ UNCHANGED <<flags, projectFlags, table, flagLoading, flagRequests, flagFailures,
                 flagOverlap, broken>>

Close(p) ==
  /\ popovers' = popovers \ {p}
  /\ UNCHANGED <<flags, projectFlags, table, flagLoading, flagRequests, flagFailures,
                 flagOverlap, broken>>

\* the two handlers of a click on an option: one hides every popover
FlagChoose(p, o) ==
  /\ popovers' = {} /\ flagLoading' = flagLoading \cup {p.type}
  /\ \E i \in (1..MaxFlagRequests) \ DOMAIN flagRequests :
       flagRequests' = [j \in DOMAIN flagRequests \cup {i} |->
         IF j # i THEN flagRequests[j]
         ELSE [type |-> p.type, cell |-> p.cell, option |-> o, pc |-> "sent",
               sure |-> table[p.type] = flags[p.type], answer |-> table[p.type]]]
  /\ flagOverlap' = IF FlagOf(p.type) = {} THEN flagOverlap ELSE flagOverlap \cup {p.type}
  /\ UNCHANGED <<flags, projectFlags, table, flagFailures, broken>>

Commanded(f, r) ==
  [f EXCEPT ![r.cell] = IF r.option.command = "remove" THEN "unset" ELSE r.option.command]

\* change_flag: the flags are stored and the table is rendered
FlagHandle(i) ==
  LET r == flagRequests[i] IN
  /\ r.pc = "sent"
  /\ flags' = [flags EXCEPT ![r.type] = Commanded(@, r)]
  /\ flagRequests' = [flagRequests EXCEPT ![i].pc = "answered", ![i].answer = flags'[r.type]]
  /\ UNCHANGED <<projectFlags, table, popovers, flagLoading, flagFailures, flagOverlap,
                 broken>>

\* Mutant: popovers stay.
SuccessKeepsPopovers(i) ==
  LET r == flagRequests[i] IN
  /\ r.pc = "answered"
  /\ table' = [table EXCEPT ![r.type] = r.answer] /\ flagLoading' = flagLoading \ {r.type}
  /\ flagRequests' = FlagWithout(i)
  /\ UNCHANGED <<flags, projectFlags, popovers, flagFailures, flagOverlap, broken>>

\* replaceFlagTable: initializePopovers removes the popovers of all tables
FlagSuccess(i) ==
  LET r == flagRequests[i] IN
  /\ r.pc = "answered"
  /\ table' = [table EXCEPT ![r.type] = r.answer] /\ flagLoading' = flagLoading \ {r.type}
  /\ flagRequests' = FlagWithout(i) /\ popovers' = {}
  /\ UNCHANGED <<flags, projectFlags, flagFailures, flagOverlap, broken>>

\* the request is refused, it or its answer is lost: no handler is called
Fails(i) ==
  /\ flagFailures < MaxFlagFailures /\ flagFailures' = flagFailures + 1
  /\ flagRequests' = FlagWithout(i) /\ broken' = broken \cup {flagRequests[i].type}
  /\ UNCHANGED <<flags, projectFlags, table, popovers, flagLoading, flagOverlap>>

FlagNext ==
  \/ \E t \in Types, c \in FlagCells : FlagOpen(t, c)
  \/ \E p \in popovers : Close(p) \/ \E o \in p.options : FlagChoose(p, o)
  \/ \E i \in DOMAIN flagRequests : FlagHandle(i) \/ FlagSuccess(i) \/ Fails(i)

FlagSpec == FlagInit /\ [][FlagNext]_flagVars

-----------------------------------------------------------------------------
(* Properties.                                                              *)

\* The type invariant of the tables, the popovers and the requests.
FlagTypeOK ==
  /\ flags \in [Types -> Flags] /\ projectFlags \in [Types -> Flags] /\ table \in [Types -> Flags]
  /\ popovers \subseteq Popover /\ flagLoading \subseteq Types
  /\ flagFailures \in 0..MaxFlagFailures
  /\ DOMAIN flagRequests \subseteq 1..MaxFlagRequests
  /\ \A i \in DOMAIN flagRequests : flagRequests[i] \in FlagRequest
  /\ flagOverlap \subseteq Types /\ broken \subseteq Types

\* A table shows the flags the server has, and has no spinners, once its
\* requests are answered: unless two of them ran side by side, or one failed.
TableCurrent ==
  \A t \in Types \ (flagOverlap \cup broken) : FlagOf(t) = {} => table[t] = flags[t] /\ t \notin flagLoading

\* A popover offers what fits the cell under it, also if the table was replaced
\* since another popover was opened (popover.js:9, "Remove all popovers as they
\* might be stagnant due to a partial page reload").
PopoversFit ==
  \A p \in popovers : p.options = FlagOptions(p.type, table[p.type], p.cell)

\* "Take default (enable)", "Disable" and the like come true: after the command
\* the flag in effect is the one its option named, if the table the user saw was
\* what the server had and no other request came in between.
PromiseKept ==
  [][\A i \in DOMAIN flagRequests :
       i \in DOMAIN flagRequests' /\ flagRequests[i].pc # flagRequests'[i].pc
         /\ flagRequests[i].sure /\ flagRequests[i].type \notin flagOverlap
       => Effective(flagRequests[i].type, flags'[flagRequests[i].type], flagRequests[i].cell)
            = flagRequests[i].option.promise]_flagVars

\* specified_flags.rb:33, "It finds out how the table would look like if the flag
\* was not set": what "Take default" names is what removing the flag leaves.
DefaultIsLeft ==
  \A t \in Types, c \in FlagCells :
    flags[t][c] # "unset" =>
      DefaultFlag(t, flags[t], c) = Effective(t, [flags[t] EXCEPT ![c] = "unset"], c)

\* Tables agree with the server, and popovers with the tables.
FlagsAgree == TableCurrent /\ PopoversFit
===============================================================================
