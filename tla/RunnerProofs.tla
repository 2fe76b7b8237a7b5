----------------------------- MODULE RunnerProofs -----------------------------
(***************************************************************************)
(* What holds of Runner for any number of events and children: no event is *)
(* lost, and never more children run than ChildLimits says.                *)
(***************************************************************************)
EXTENDS Runner, FiniteSetTheorems, TLAPS

-----------------------------------------------------------------------------
(* Types.                                                                  *)

\* Initially every variable has its type.
LEMMA TypeInit == Init => TypeOK
  <1> SUFFICES ASSUME Init PROVE TypeOK
    OBVIOUS
  <1>1. child \in [Children -> ChildProc]
    BY DEF Init, ChildProc, NoChild
  <1>2. file \in [Names -> Contents] /\ inprog \in [Names -> Contents]
    BY DEF Init, Contents
  <1>3. ping \in BOOLEAN /\ stopFile \in BOOLEAN
    BY DEF Init
  <1>4. pc \in Pcs
    BY DEF Init, Pcs
  <1>5. trouble \in 0 .. MaxTrouble
    BY RunnerAssumption DEF Init
  <1> QED BY <1>1, <1>2, <1>3, <1>4, <1>5 DEF Init, TypeOK

\* Every step keeps the types.
LEMMA TypeStep == TypeOK /\ [Next]_vars => TypeOK'
  <1> SUFFICES ASSUME TypeOK, [Next]_vars PROVE TypeOK'
    OBVIOUS
  <1> USE RunnerAssumption DEF vars, dir, parent, history
  <1>1. CASE OtherPing
    BY <1>1 DEF OtherPing, TypeOK, Pcs, Reaping, Contents, ChildProc, Alive, AtWork
  <1>2. CASE RequestStop
    BY <1>2 DEF RequestStop, Trouble, TypeOK, Pcs, Reaping, Contents, ChildProc, Alive,
      AtWork
  <1>3. ASSUME NEW e \in Names, Write(e) PROVE TypeOK'
    BY <1>3 DEF Write, TypeOK, Pcs, Reaping, Contents, ChildProc, Alive, AtWork
  <1>4. ASSUME NEW e \in Names, Ping(e) PROVE TypeOK'
    BY <1>4 DEF Ping, TypeOK, Pcs, Reaping, Contents, ChildProc, Alive, AtWork
  <1>5. ASSUME NEW e \in Names, DuePassed(e) PROVE TypeOK'
    BY <1>5 DEF DuePassed, TypeOK, Pcs, Reaping, Contents, ChildProc, Alive, AtWork
  <1>6. CASE Drain
    BY <1>6 DEF Drain, TypeOK, Pcs, Reaping, Contents, ChildProc, Alive, AtWork
  <1>7. CASE List
    BY <1>7 DEF List, TypeOK, Pcs, Reaping, Contents, ChildProc, Alive, AtWork
  <1>8. ASSUME NEW e \in Names, Skip(e) PROVE TypeOK'
    BY <1>8 DEF Skip, TypeOK, Pcs, Reaping, Contents, ChildProc, Alive, AtWork
  <1>9. ASSUME NEW e \in Names, Limited(e) PROVE TypeOK'
    BY <1>9 DEF Limited, TypeOK, Pcs, Reaping, Contents, ChildProc, Alive, AtWork
  <1>10. ASSUME NEW e \in Names, NEW c \in Children, Fork(e, c) PROVE TypeOK'
    BY <1>10 DEF Fork, TypeOK, Pcs, Reaping, Contents, ChildProc, Alive, AtWork
  <1>11. ASSUME NEW c \in Children, Reap(c) PROVE TypeOK'
    BY <1>11 DEF Reap, NoChild, Back, Dead, TypeOK, Pcs, Reaping, Contents, ChildProc,
      Alive, AtWork
  <1>12. CASE ReapDone
    BY <1>12 DEF ReapDone, ReapLimit, TypeOK, Pcs, Reaping, Contents, ChildProc, Alive,
      AtWork
  <1>13. CASE ForEnd
    BY <1>13 DEF ForEnd, TypeOK, Pcs, Reaping, Contents, ChildProc, Alive, AtWork
  <1>14. CASE Checks
    BY <1>14 DEF Checks, TypeOK, Pcs, Reaping, Contents, ChildProc, Alive, AtWork
  <1>15. CASE WaitLimited
    BY <1>15 DEF WaitLimited, TypeOK, Pcs, Reaping, Contents, ChildProc, Alive, AtWork
  <1>16. CASE WaitDelayed
    BY <1>16 DEF WaitDelayed, TypeOK, Pcs, Reaping, Contents, ChildProc, Alive, AtWork
  <1>17. CASE WaitPing
    BY <1>17 DEF WaitPing, TypeOK, Pcs, Reaping, Contents, ChildProc, Alive, AtWork
  <1>18. CASE Crash
    <2>1. child' \in [Children -> ChildProc]
      BY <1>18 DEF Crash, Trouble, Dead, NoChild, TypeOK, ChildProc, Alive, AtWork
    <2>2. trouble' \in 0 .. MaxTrouble
      BY <1>18 DEF Crash, Trouble, TypeOK
    <2> QED BY <1>18, <2>1, <2>2 DEF Crash, TypeOK, Pcs
  <1>19. CASE Start
    BY <1>19 DEF Start, TypeOK, Pcs, Reaping, Contents, ChildProc, Alive, AtWork
  <1>20. ASSUME NEW c \in Children, Take(c) PROVE TypeOK'
    <2>1. child' \in [Children -> ChildProc]
      BY <1>20 DEF Take, TypeOK, ChildProc, Alive, AtWork
    <2>2. inprog' \in [Names -> Contents]
      BY <1>20 DEF Take, TypeOK, Contents
    <2> QED BY <1>20, <2>1, <2>2 DEF Take, TypeOK, Contents
  <1>21. ASSUME NEW c \in Children, TakeFails(c) PROVE TypeOK'
    BY <1>21 DEF TakeFails, Ended, NoChild, TypeOK, Pcs, Reaping, Contents, ChildProc,
      Alive, AtWork
  <1>22. ASSUME NEW c \in Children, Handle(c) PROVE TypeOK'
    BY <1>22 DEF Handle, TypeOK, Pcs, Reaping, Contents, ChildProc, Alive, AtWork
  <1>23. ASSUME NEW c \in Children, Unlink(c) PROVE TypeOK'
    <2>1. child' \in [Children -> ChildProc]
      BY <1>23 DEF Unlink, Ended, NoChild, TypeOK, ChildProc, Alive, AtWork
    <2>2. inprog' \in [Names -> Contents]
      BY <1>23 DEF Unlink, TypeOK, Contents
    <2> QED BY <1>23, <2>1, <2>2 DEF Unlink, TypeOK, Contents
  <1>24. ASSUME NEW c \in Children, Fail(c) PROVE TypeOK'
    <2>1. child' \in [Children -> ChildProc]
      BY <1>24 DEF Fail, Trouble, TypeOK, ChildProc, Alive, AtWork
    <2>2. inprog' \in [Names -> Contents]
      BY <1>24 DEF Fail, TypeOK, Contents
    <2> QED BY <1>24, <2>1, <2>2 DEF Fail, Trouble, TypeOK, Contents
  <1>25. ASSUME NEW c \in Children, FailPing(c) PROVE TypeOK'
    BY <1>25 DEF FailPing, TypeOK, Pcs, Reaping, Contents, ChildProc, Alive, AtWork
  <1>26. ASSUME NEW c \in Children, FailBack(c) PROVE TypeOK'
    BY <1>26 DEF FailBack, Ended, NoChild, Back, TypeOK, Pcs, Reaping, Contents, ChildProc,
      Alive, AtWork
  <1>27. ASSUME NEW c \in Children, Killed(c) PROVE TypeOK'
    BY <1>27 DEF Killed, Trouble, Ended, NoChild, TypeOK, Pcs, Reaping, Contents,
      ChildProc, Alive, AtWork
  <1>28. CASE UNCHANGED vars
    BY <1>28 DEF TypeOK, Pcs, Reaping, Contents, ChildProc, Alive, AtWork
  <1> QED BY <1>1, <1>2, <1>3, <1>4, <1>5, <1>6, <1>7, <1>8, <1>9, <1>10, <1>11, <1>12,
    <1>13, <1>14, <1>15, <1>16, <1>17, <1>18, <1>19, <1>20, <1>21, <1>22, <1>23, <1>24,
    <1>25, <1>26, <1>27, <1>28 DEF Next, Environment, Parent, Child

\* Every variable of the runner, its children and its directory keeps its type.
THEOREM TypeCorrect == Spec => []TypeOK
  BY TypeInit, TypeStep, PTL DEF Spec

-----------------------------------------------------------------------------
(* No event is lost.  Children that end, in whatever way, give the event    *)
(* back; that a child works on nothing another one gives back or unlinks    *)
(* (but for the events in raced) is what RunnerInv adds.                    *)

\* Every step keeps RunnerInv and with it EventKept.
LEMMA KeptStep == TypeOK /\ RunnerInv /\ EventKept /\ [Next]_vars => RunnerInv' /\ EventKept'
  <1> SUFFICES ASSUME TypeOK, RunnerInv, EventKept, [Next]_vars
               PROVE  RunnerInv' /\ EventKept'
    OBVIOUS
  <1> USE RunnerAssumption DEF vars, dir, parent, history, RunnerInv, WorkInProgress,
          ChildrenNamed, NoStrayChild, EventKept, InProgressHeld
  <1>1. CASE OtherPing
    BY <1>1 DEF OtherPing, TypeOK, Pcs, Reaping, Contents, ChildProc, Alive, AtWork
  <1>2. CASE RequestStop
    BY <1>2 DEF RequestStop, Trouble, TypeOK, Pcs, Reaping, Contents, ChildProc, Alive,
      AtWork
  <1>3. ASSUME NEW e \in Names, Write(e) PROVE RunnerInv' /\ EventKept'
    BY <1>3 DEF Write, TypeOK, Pcs, Reaping, Contents, ChildProc, Alive, AtWork
  <1>4. ASSUME NEW e \in Names, Ping(e) PROVE RunnerInv' /\ EventKept'
    BY <1>4 DEF Ping, TypeOK, Pcs, Reaping, Contents, ChildProc, Alive, AtWork
  <1>5. ASSUME NEW e \in Names, DuePassed(e) PROVE RunnerInv' /\ EventKept'
    BY <1>5 DEF DuePassed, TypeOK, Pcs, Reaping, Contents, ChildProc, Alive, AtWork
  <1>6. CASE Drain
    BY <1>6 DEF Drain, TypeOK, Pcs, Reaping, Contents, ChildProc, Alive, AtWork
  <1>7. CASE List
    BY <1>7 DEF List, TypeOK, Pcs, Reaping, Contents, ChildProc, Alive, AtWork
  <1>8. ASSUME NEW e \in Names, Skip(e) PROVE RunnerInv' /\ EventKept'
    BY <1>8 DEF Skip, TypeOK, Pcs, Reaping, Contents, ChildProc, Alive, AtWork
  <1>9. ASSUME NEW e \in Names, Limited(e) PROVE RunnerInv' /\ EventKept'
    BY <1>9 DEF Limited, TypeOK, Pcs, Reaping, Contents, ChildProc, Alive, AtWork
  <1>10. ASSUME NEW e \in Names, NEW c \in Children, Fork(e, c) PROVE RunnerInv' /\ EventKept'
    BY <1>10 DEF Fork, TypeOK, Pcs, Reaping, Contents, ChildProc, Alive, AtWork
  <1>11. ASSUME NEW c \in Children, Reap(c) PROVE RunnerInv' /\ EventKept'
    BY <1>11 DEF Reap, NoChild, Back, Dead, TypeOK, Pcs, Reaping, Contents, ChildProc,
      Alive, AtWork
  <1>12. CASE ReapDone
    BY <1>12 DEF ReapDone, ReapLimit, TypeOK, Pcs, Reaping, Contents, ChildProc, Alive,
      AtWork
  <1>13. CASE ForEnd
    BY <1>13 DEF ForEnd, TypeOK, Pcs, Reaping, Contents, ChildProc, Alive, AtWork
  <1>14. CASE Checks
    BY <1>14 DEF Checks, TypeOK, Pcs, Reaping, Contents, ChildProc, Alive, AtWork
  <1>15. CASE WaitLimited
    BY <1>15 DEF WaitLimited, TypeOK, Pcs, Reaping, Contents, ChildProc, Alive, AtWork
  <1>16. CASE WaitDelayed
    BY <1>16 DEF WaitDelayed, TypeOK, Pcs, Reaping, Contents, ChildProc, Alive, AtWork
  <1>17. CASE WaitPing
    BY <1>17 DEF WaitPing, TypeOK, Pcs, Reaping, Contents, ChildProc, Alive, AtWork
  <1>18. CASE Crash
    BY <1>18 DEF Crash, Trouble, Dead, NoChild, TypeOK, Pcs, Reaping, Contents, ChildProc,
      Alive, AtWork
  <1>19. CASE Start
    BY <1>19 DEF Start, TypeOK, Pcs, Reaping, Contents, ChildProc, Alive, AtWork
  <1>20. ASSUME NEW c \in Children, Take(c) PROVE RunnerInv' /\ EventKept'
    BY <1>20 DEF Take, TypeOK, Pcs, Reaping, Contents, ChildProc, Alive, AtWork
  <1>21. ASSUME NEW c \in Children, TakeFails(c) PROVE RunnerInv' /\ EventKept'
    BY <1>21 DEF TakeFails, Ended, NoChild, TypeOK, Pcs, Reaping, Contents, ChildProc,
      Alive, AtWork
  <1>22. ASSUME NEW c \in Children, Handle(c) PROVE RunnerInv' /\ EventKept'
    BY <1>22 DEF Handle, TypeOK, Pcs, Reaping, Contents, ChildProc, Alive, AtWork
  <1>23. ASSUME NEW c \in Children, Unlink(c) PROVE RunnerInv' /\ EventKept'
    BY <1>23 DEF Unlink, Ended, NoChild, TypeOK, Pcs, Reaping, Contents, ChildProc, Alive,
      AtWork
  <1>24. ASSUME NEW c \in Children, Fail(c) PROVE RunnerInv' /\ EventKept'
    BY <1>24 DEF Fail, Trouble, TypeOK, Pcs, Reaping, Contents, ChildProc, Alive, AtWork
  <1>25. ASSUME NEW c \in Children, FailPing(c) PROVE RunnerInv' /\ EventKept'
    BY <1>25 DEF FailPing, TypeOK, Pcs, Reaping, Contents, ChildProc, Alive, AtWork
  <1>26. ASSUME NEW c \in Children, FailBack(c) PROVE RunnerInv' /\ EventKept'
    BY <1>26 DEF FailBack, Ended, NoChild, Back, TypeOK, Pcs, Reaping, Contents, ChildProc,
      Alive, AtWork
  <1>27. ASSUME NEW c \in Children, Killed(c) PROVE RunnerInv' /\ EventKept'
    BY <1>27 DEF Killed, Trouble, Ended, NoChild, TypeOK, Pcs, Reaping, Contents,
      ChildProc, Alive, AtWork
  <1>28. CASE UNCHANGED vars
    BY <1>28 DEF TypeOK, Pcs, Reaping, Contents, ChildProc, Alive, AtWork
  <1> QED BY <1>1, <1>2, <1>3, <1>4, <1>5, <1>6, <1>7, <1>8, <1>9, <1>10, <1>11, <1>12,
    <1>13, <1>14, <1>15, <1>16, <1>17, <1>18, <1>19, <1>20, <1>21, <1>22, <1>23, <1>24,
    <1>25, <1>26, <1>27, <1>28 DEF Next, Environment, Parent, Child

\* The strengthened invariant: it is inductive together with the types.
THEOREM Inductive == Spec => [](RunnerInv /\ EventKept)
  <1>1. Init => RunnerInv /\ EventKept
    BY DEF Init, RunnerInv, WorkInProgress, ChildrenNamed, NoStrayChild,
       InProgressHeld, EventKept, NoChild, AtWork
  <1> QED BY <1>1, TypeCorrect, KeptStep, PTL DEF Spec

\* Failures, kills, crashes and restarts lose no event: until it is handled it
\* is in the directory, under its name or as ...::inprogress.
THEOREM NoEventLost == Spec => []EventKept
  BY Inductive, PTL

\* A runner that stops has seen all its children end and so leaves no event in
\* progress.
THEOREM CleanStop == Spec => StopIsClean
  <1>1. TypeOK /\ RunnerInv /\ [Next]_vars
          => [pc = "checks" /\ pc' = "off" /\ UNCHANGED trouble
                => \A e \in Names : inprog[e] = "none"]_vars
    <2> SUFFICES ASSUME TypeOK, RunnerInv, Next, pc = "checks", pc' = "off",
                        UNCHANGED trouble
                 PROVE  \A e \in Names : inprog[e] = "none"
      BY DEF vars
    <2>1. chld = {}
      BY DEF Next, Environment, Parent, Child, TypeOK, parent, Trouble, Drain, List, Skip,
         Limited, Fork, Reap, ReapDone, ForEnd, Checks, WaitLimited, WaitDelayed, WaitPing,
         Crash, Start, Take, TakeFails, Handle, Unlink, Fail, FailPing, FailBack, Killed,
         OtherPing, RequestStop, Write, Ping, DuePassed
    <2> QED BY <2>1 DEF RunnerInv, InProgressHeld
  <1> QED BY <1>1, TypeCorrect, Inductive, PTL DEF Spec, StopIsClean

-----------------------------------------------------------------------------
(* How many children run.                                                  *)

LimitedChildren == {c \in chld : child[c].ev \in Flavored}

\* What reap leaves, and what the loop adds before it calls reap again.
LimitInv ==
  /\ Cardinality(chld) <= IF pc = "reapFork" THEN MaxChild + 1 ELSE MaxChild
  /\ Cardinality(LimitedChildren) <= FlavorLimit

\* One element more counts one more at most.
LEMMA OneMore ==
  ASSUME NEW S, IsFiniteSet(S), NEW x, NEW T, T \subseteq S \cup {x}
  PROVE  IsFiniteSet(T) /\ Cardinality(T) <= Cardinality(S) + 1
  <1>a. Cardinality(S) \in Nat
    BY FS_CardinalityType
  <1>1. IsFiniteSet(S \cup {x}) /\ Cardinality(S \cup {x}) <= Cardinality(S) + 1
    <2>1. CASE x \in S
      BY <2>1, <1>a, S \cup {x} = S
    <2>2. CASE x \notin S
      BY <2>2, <1>a, FS_AddElement
    <2> QED BY <2>1, <2>2
  <1> QED BY <1>1, FS_Subset, FS_CardinalityType

\* Every step keeps the limits.
LEMMA LimitStep == TypeOK /\ LimitInv /\ [Next]_vars => LimitInv'
  <1> SUFFICES ASSUME TypeOK, LimitInv, [Next]_vars PROVE LimitInv'
    OBVIOUS
  <1> USE RunnerAssumption DEF vars, dir, parent, history
  <1>a. IsFiniteSet(chld) /\ IsFiniteSet(LimitedChildren)
    BY FS_Subset DEF TypeOK, LimitedChildren
  <1>b. /\ Cardinality(chld) \in Nat
        /\ Cardinality(LimitedChildren) \in Nat
    BY <1>a, FS_CardinalityType
  <1>c. ASSUME chld' \subseteq chld, pc' = pc \/ pc # "reapFork",
               \A c \in chld' : child'[c].ev = child[c].ev
        PROVE  LimitInv'
    <2>1. LimitedChildren' \subseteq LimitedChildren
      BY <1>c DEF LimitedChildren
    <2>2. /\ Cardinality(chld') <= Cardinality(chld)
          /\ Cardinality(LimitedChildren') <= Cardinality(LimitedChildren)
          /\ Cardinality(chld') \in Nat /\ Cardinality(LimitedChildren') \in Nat
      BY <1>a, <1>c, <2>1, FS_Subset, FS_CardinalityType
    <2> QED BY <1>b, <1>c, <2>2 DEF LimitInv
  <1>1. CASE OtherPing
    BY <1>1, <1>c DEF OtherPing, TypeOK, ChildProc
  <1>2. CASE RequestStop
    BY <1>2, <1>c DEF RequestStop, TypeOK, ChildProc
  <1>3. ASSUME NEW e \in Names, Write(e) PROVE LimitInv'
    BY <1>3, <1>c DEF Write, TypeOK, ChildProc
  <1>4. ASSUME NEW e \in Names, Ping(e) PROVE LimitInv'
    BY <1>4, <1>c DEF Ping, TypeOK, ChildProc
  <1>5. ASSUME NEW e \in Names, DuePassed(e) PROVE LimitInv'
    BY <1>5, <1>c DEF DuePassed, TypeOK, ChildProc
  <1>6. CASE Drain
    BY <1>6, <1>c DEF Drain, TypeOK, ChildProc
  <1>7. CASE List
    BY <1>7, <1>c DEF List, TypeOK, ChildProc
  <1>8. ASSUME NEW e \in Names, Skip(e) PROVE LimitInv'
    BY <1>8, <1>c DEF Skip, TypeOK, ChildProc
  <1>9. ASSUME NEW e \in Names, Limited(e) PROVE LimitInv'
    BY <1>9, <1>c DEF Limited, TypeOK, ChildProc
  <1>10. ASSUME NEW e \in Names, NEW c \in Children, Fork(e, c) PROVE LimitInv'
    <2>1. chld' \subseteq chld \cup {c} /\ pc # "reapFork" /\ pc' = "reapFork"
      BY <1>10 DEF Fork
    <2>2. Cardinality(chld') <= Cardinality(chld) + 1
      BY <1>a, <2>1, OneMore
    <2>3. LimitedChildren' \subseteq LimitedChildren \cup {c}
      BY <1>10 DEF Fork, LimitedChildren, TypeOK
    <2>4. CASE e \in Flavored
      <3>1. Cardinality(LimitedChildren) < FlavorLimit
        BY <1>10, <2>4, <1>b DEF Fork, AtFlavorLimit, LimitedChildren
      <3>2. Cardinality(LimitedChildren') <= Cardinality(LimitedChildren) + 1
        BY <1>a, <2>3, OneMore
      <3>3. Cardinality(LimitedChildren') \in Nat
        BY <1>a, <2>3, OneMore, FS_CardinalityType
      <3>4. Cardinality(chld') \in Nat
        BY <1>a, <2>1, OneMore, FS_CardinalityType
      <3> QED BY <1>b, <2>1, <2>2, <3>1, <3>2, <3>3, <3>4 DEF LimitInv
    <2>5. CASE e \notin Flavored
      <3>1. LimitedChildren' \subseteq LimitedChildren
        BY <1>10, <2>5 DEF Fork, LimitedChildren, TypeOK
      <3>2. /\ Cardinality(LimitedChildren') <= Cardinality(LimitedChildren)
            /\ Cardinality(LimitedChildren') \in Nat
        BY <1>a, <3>1, FS_Subset, FS_CardinalityType
      <3>3. Cardinality(chld') \in Nat
        BY <1>a, <2>1, OneMore, FS_CardinalityType
      <3> QED BY <1>b, <2>1, <2>2, <3>2, <3>3 DEF LimitInv
    <2> QED BY <2>4, <2>5
  <1>11. ASSUME NEW c \in Children, Reap(c) PROVE LimitInv'
    BY <1>11, <1>c DEF Reap, NoChild, Back, Dead, TypeOK, ChildProc
  <1>12. CASE ReapDone
    <2>1. chld' = chld /\ child' = child /\ pc' # "reapFork" /\ Cardinality(chld) <= MaxChild
      BY <1>12, <1>b DEF ReapDone, ReapLimit
    <2>2. LimitedChildren' = LimitedChildren
      BY <2>1 DEF LimitedChildren
    <2> QED BY <2>1, <2>2 DEF LimitInv
  <1>13. CASE ForEnd
    BY <1>13, <1>c DEF ForEnd, TypeOK, ChildProc
  <1>14. CASE Checks
    BY <1>14, <1>c DEF Checks, TypeOK, ChildProc
  <1>15. CASE WaitLimited
    BY <1>15, <1>c DEF WaitLimited, TypeOK, ChildProc
  <1>16. CASE WaitDelayed
    BY <1>16, <1>c DEF WaitDelayed, TypeOK, ChildProc
  <1>17. CASE WaitPing
    BY <1>17, <1>c DEF WaitPing, TypeOK, ChildProc
  <1>18. CASE Crash
    <2>1. chld' = {} /\ pc' = "off" /\ LimitedChildren' = {}
      BY <1>18 DEF Crash, LimitedChildren
    <2> QED BY <2>1, FS_EmptySet DEF LimitInv
  <1>19. CASE Start
    BY <1>19, <1>c DEF Start, TypeOK, ChildProc
  <1>20. ASSUME NEW c \in Children, Take(c) PROVE LimitInv'
    BY <1>20, <1>c DEF Take, TypeOK, ChildProc
  <1>21. ASSUME NEW c \in Children, TakeFails(c) PROVE LimitInv'
    BY <1>21, <1>c DEF TakeFails, Ended, NoChild, TypeOK, ChildProc
  <1>22. ASSUME NEW c \in Children, Handle(c) PROVE LimitInv'
    BY <1>22, <1>c DEF Handle, TypeOK, ChildProc
  <1>23. ASSUME NEW c \in Children, Unlink(c) PROVE LimitInv'
    BY <1>23, <1>c DEF Unlink, Ended, NoChild, TypeOK, ChildProc
  <1>24. ASSUME NEW c \in Children, Fail(c) PROVE LimitInv'
    BY <1>24, <1>c DEF Fail, TypeOK, ChildProc
  <1>25. ASSUME NEW c \in Children, FailPing(c) PROVE LimitInv'
    BY <1>25, <1>c DEF FailPing, TypeOK, ChildProc
  <1>26. ASSUME NEW c \in Children, FailBack(c) PROVE LimitInv'
    BY <1>26, <1>c DEF FailBack, Ended, NoChild, Back, TypeOK, ChildProc
  <1>27. ASSUME NEW c \in Children, Killed(c) PROVE LimitInv'
    BY <1>27, <1>c DEF Killed, Trouble, Ended, NoChild, TypeOK, ChildProc
  <1>28. CASE UNCHANGED vars
    BY <1>28, <1>c
  <1> QED BY <1>1, <1>2, <1>3, <1>4, <1>5, <1>6, <1>7, <1>8, <1>9, <1>10, <1>11, <1>12,
    <1>13, <1>14, <1>15, <1>16, <1>17, <1>18, <1>19, <1>20, <1>21, <1>22, <1>23, <1>24,
    <1>25, <1>26, <1>27, <1>28 DEF Next, Environment, Parent, Child

\* Whatever is written and whoever dies, maxchild is exceeded by one child at
\* most and maxchild_flavor never.
THEOREM Limits == Spec => []ChildLimits
  <1>1. Init => LimitInv
    BY RunnerAssumption, FS_EmptySet DEF Init, LimitInv, LimitedChildren
  <1>2. TypeOK /\ LimitInv => ChildLimits
    <2> SUFFICES ASSUME TypeOK, LimitInv PROVE ChildLimits
      OBVIOUS
    <2>1. IsFiniteSet(chld) /\ IsFiniteSet(LimitedChildren)
      BY RunnerAssumption, FS_Subset DEF TypeOK, LimitedChildren
    <2>2. Running \subseteq chld /\ {c \in Running : child[c].ev \in Flavored} \subseteq LimitedChildren
      BY DEF Running, LimitedChildren
    <2>3. /\ Cardinality(Running) <= Cardinality(chld)
          /\ Cardinality({c \in Running : child[c].ev \in Flavored}) <= Cardinality(LimitedChildren)
          /\ Cardinality(Running) \in Nat
          /\ Cardinality({c \in Running : child[c].ev \in Flavored}) \in Nat
      BY <2>1, <2>2, FS_Subset, FS_CardinalityType
    <2>4. Cardinality(chld) \in Nat /\ Cardinality(LimitedChildren) \in Nat
      BY <2>1, FS_CardinalityType
    <2> QED BY <2>3, <2>4, RunnerAssumption DEF LimitInv, ChildLimits
  <1> QED BY <1>1, <1>2, TypeCorrect, LimitStep, PTL DEF Spec

=============================================================================
