------------------------------ MODULE JobQueue ------------------------------
(***************************************************************************)
(* What the job directory promises the scheduler, without dispatcher,      *)
(* workers, locks and crashes: under a name at most one job file is        *)
(* wanted; it is delivered once and then wanted no more, or withdrawn, or  *)
(* replaced by a new one (a new jobid), which is never an old one again.   *)
(***************************************************************************)
EXTENDS Integers, TLAPS

CONSTANT Jobs

VARIABLES
  want,      \* the jobid wanted under a name, 0: none
  fresh,     \* no jobid from here on was used
  delivered  \* the jobs whose result was taken over

vars == <<want, fresh, delivered>>

Init ==
  /\ want = [j \in Jobs |-> 0]
  /\ fresh = 1
  /\ delivered = {}

Submit(j) ==
  /\ want' = [want EXCEPT ![j] = fresh]
  /\ fresh' = fresh + 1
  /\ UNCHANGED delivered

Withdraw(j) ==
  /\ want[j] # 0
  /\ want' = [want EXCEPT ![j] = 0]
  /\ UNCHANGED <<fresh, delivered>>

Deliver(j) ==
  /\ want[j] # 0
  /\ delivered' = delivered \cup {[job |-> j, id |-> want[j]]}
  /\ want' = [want EXCEPT ![j] = 0]
  /\ UNCHANGED fresh

Next == \E j \in Jobs : Submit(j) \/ Withdraw(j) \/ Deliver(j)

Spec == Init /\ [][Next]_vars

-----------------------------------------------------------------------------
\* Nothing that was delivered is wanted again, under no name: a build whose
\* result the scheduler has is never started a second time.
DeliveredOnce ==
  \A j \in Jobs : \A d \in delivered : d.id # want[j]

\* Behind it: jobids are never reused and no two names share one.
IdsFresh ==
  /\ fresh \in Nat \ {0} /\ want \in [Jobs -> Nat]
  /\ \A d \in delivered : d.id \in Nat \ {0} /\ d.id < fresh
  /\ \A j \in Jobs : want[j] < fresh
  /\ \A i, j \in Jobs : want[i] = want[j] /\ i # j => want[i] = 0

-----------------------------------------------------------------------------
(* IdsFresh and DeliveredOnce are inductive: a jobid is drawn from fresh,  *)
(* which only grows, so a delivered one never comes back.                  *)

LEMMA FreshStep == IdsFresh /\ DeliveredOnce /\ [Next]_vars => (IdsFresh /\ DeliveredOnce)'
<1> SUFFICES ASSUME IdsFresh, DeliveredOnce, [Next]_vars PROVE (IdsFresh /\ DeliveredOnce)'
  OBVIOUS
<1> USE DEF IdsFresh, DeliveredOnce
<1>1. ASSUME NEW j \in Jobs, Submit(j) PROVE (IdsFresh /\ DeliveredOnce)'
  <2>1. \A k \in Jobs : want'[k] = want[k] \/ (k = j /\ want'[k] = fresh)
    BY <1>1 DEF Submit
  <2>2. fresh' = fresh + 1 /\ delivered' = delivered /\ want' \in [Jobs -> Nat]
    BY <1>1 DEF Submit
  <2> QED BY <2>1, <2>2
<1>2. ASSUME NEW j \in Jobs, Withdraw(j) PROVE (IdsFresh /\ DeliveredOnce)'
  <2>1. \A k \in Jobs : want'[k] = want[k] \/ (k = j /\ want'[k] = 0)
    BY <1>2 DEF Withdraw
  <2>2. fresh' = fresh /\ delivered' = delivered /\ want' \in [Jobs -> Nat]
    BY <1>2 DEF Withdraw
  <2> QED BY <2>1, <2>2
<1>3. ASSUME NEW j \in Jobs, Deliver(j) PROVE (IdsFresh /\ DeliveredOnce)'
  <2>1. \A k \in Jobs : (k # j /\ want'[k] = want[k]) \/ (k = j /\ want'[k] = 0)
    BY <1>3 DEF Deliver
  <2>2. /\ fresh' = fresh /\ want' \in [Jobs -> Nat] /\ want[j] # 0
        /\ delivered' = delivered \cup {[job |-> j, id |-> want[j]]}
    BY <1>3 DEF Deliver
  <2>3. \A d \in delivered' : d \in delivered \/ d.id = want[j]
    BY <2>2
  <2> QED BY <2>1, <2>2, <2>3
<1>4. CASE UNCHANGED vars
  BY <1>4 DEF vars
<1> QED BY <1>1, <1>2, <1>3, <1>4 DEF Next

\* Nothing that was delivered is wanted again: in BuildJobs, a job file whose
\* result the scheduler took over (event_built) never comes back.
THEOREM OnceOnly == Spec => []DeliveredOnce
<1>1. Init => IdsFresh /\ DeliveredOnce
  BY DEF Init, IdsFresh, DeliveredOnce
<1> QED BY <1>1, FreshStep, PTL DEF Spec

=============================================================================
