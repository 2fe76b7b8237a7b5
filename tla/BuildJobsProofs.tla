-------------------------- MODULE BuildJobsProofs --------------------------
(* Proofs about BuildJobs, for every set of jobs, workers and handlers and  *)
(* every bound: its types, its safety properties, and that it implements    *)
(* JobQueue.                                                                *)
EXTENDS BuildJobs, TLAPS

TypeInv == TypeOK /\ ProcsNamed

\* The records that processes and files start from are of their kind.
LEMMA Shapes ==
  ASSUME BuildJobsAssumption
  PROVE  /\ NoStatus \in StatusFile /\ NoSign \in SignProc
         /\ IdleWorker \in WorkerProc /\ OffWorker \in WorkerProc
         /\ NoDisp \in DispProc /\ NoPut \in PutProc
         /\ NoKill \in KillProc /\ NoWarden \in WardenProc
  BY DEF BuildJobsAssumption, NoStatus, StatusFile, NoSign, SignProc, IdleWorker, OffWorker,
         WorkerProc, NoDisp, DispProc, NoPut, PutProc, NoKill, KillProc, NoWarden, WardenProc,
         Codes, WorkerIds, JobOrNot

\* Initially everything has its type.
LEMMA InitType == ASSUME BuildJobsAssumption, Init PROVE TypeInv
<1>1. TypeOK
  BY Shapes DEF BuildJobsAssumption, Init, TypeOK, Starts, JobOrNot
<1>2. ProcsNamed
  BY DEF Init, ProcsNamed, NoDisp, NoKill, NoWarden, IdleWorker, NoPut
<1> QED BY <1>1, <1>2 DEF TypeInv

\* Steps of the scheduler preserve the types.
LEMMA SchedulerType == ASSUME BuildJobsAssumption, TypeInv, Scheduler PROVE TypeInv'
<1> USE Shapes DEF BuildJobsAssumption, TypeInv, TypeOK, ProcsNamed, jobFiles, workerFiles, workerProcs, events, history
<1>1. ASSUME NEW j \in Jobs, WriteJob(j) PROVE TypeInv'
  BY <1>1 DEF WriteJob
<1>2. ASSUME NEW j \in Jobs, KillQueued(j) PROVE TypeInv'
  BY <1>2 DEF KillQueued, Purge, Unlinked
<1>3. ASSUME NEW j \in Jobs, KillSeen(j) PROVE TypeInv'
  BY <1>3 DEF KillSeen, KillProc, JobOrNot
<1>4. ASSUME NEW j \in Jobs, EventBuilt(j) PROVE TypeInv'
  BY <1>4 DEF EventBuilt, Purge, Unlinked
<1>5. ASSUME NEW j \in Jobs, EventLost(j) PROVE TypeInv'
  BY <1>5 DEF EventLost, Trouble
<1>6. ASSUME KillLocked PROVE TypeInv'
  BY <1>6 DEF KillLocked, Discarded, Purge, Unlinked, NoKill, IdleWorker
<1>7. ASSUME KillMissed PROVE TypeInv'
  BY <1>7 DEF KillMissed, KillProc
<1>8. ASSUME KillUnlockedDir PROVE TypeInv'
  BY <1>8 DEF KillUnlockedDir, KillProc
<1>9. ASSUME KillUnlockedFiles PROVE TypeInv'
  BY <1>9 DEF KillUnlockedFiles, UnlinkUnlocked, Unlinked, NoKill
<1> QED BY <1>1, <1>2, <1>3, <1>4, <1>5, <1>6, <1>7, <1>8, <1>9 DEF Scheduler

\* Steps of the dispatcher preserve the types.
LEMMA DispatcherType ==
  ASSUME BuildJobsAssumption, TypeInv, DispatcherProc PROVE TypeInv'
<1> USE Shapes DEF BuildJobsAssumption, TypeInv, TypeOK, ProcsNamed, jobFiles, workerFiles, workerProcs,
             events, history
<1>1. ASSUME NEW j \in Jobs, NEW w \in Workers, DispLock(j, w) PROVE TypeInv'
  BY <1>1 DEF DispLock, DispProc, JobOrNot, WorkerIds, StatusFile, Codes, NoStatus
<1>2. ASSUME DispAccepted PROVE TypeInv'
  BY <1>2 DEF DispAccepted, DispProc, WorkerProc, Trouble
<1>3. ASSUME DispRefused PROVE TypeInv'
  BY <1>3 DEF DispRefused, DispProc, Trouble
<1>4. ASSUME DispGiveUp PROVE TypeInv'
  BY <1>4 DEF DispGiveUp, Unlinked, NoDisp
<1>5. ASSUME DispCommit PROVE TypeInv'
  <2>1. status' \in [Jobs -> StatusFile]
    <3> DEFINE st == [code |-> "building", id |-> disp.id, worker |-> disp.worker,
                      start |-> nextStart, held |-> "free"]
    <3>1. disp.id \in 0 .. MaxId /\ disp.worker \in WorkerIds /\ nextStart \in 0 .. MaxStart
      BY <1>5 DEF DispCommit, DispProc, WorkerIds
    <3>2. st \in StatusFile
      BY <3>1 DEF StatusFile, Codes
    <3>3. status' = [status EXCEPT ![disp.job] = st]
      BY <1>5 DEF DispCommit
    <3> HIDE DEF st
    <3> QED BY <3>2, <3>3 DEF TypeOK
  <2>2. disp' = NoDisp
    BY <1>5 DEF DispCommit
  <2>4. nextStart' \in 1 .. MaxStart + 1
    BY <1>5 DEF DispCommit
  <2>5. given' \in [Starts -> 0 .. MaxId]
    <3>1. disp.id \in 0 .. MaxId
      BY DEF DispProc
    <3> QED BY <1>5, <3>1 DEF DispCommit
  <2>3. ProcsNamed'
    BY <1>5, <2>2 DEF DispCommit, NoDisp
  <2> QED BY <1>5, <2>1, <2>2, <2>3, <2>4, <2>5 DEF DispCommit
<1>6. ASSUME DispCrash PROVE TypeInv'
  <2>1. status' \in [Jobs -> StatusFile]
    <3>1. \A j \in Jobs : [status[j] EXCEPT !.held = "free"] \in StatusFile
      BY DEF StatusFile
    <3> QED BY <1>6, <3>1 DEF DispCrash
  <2> QED BY <1>6, <2>1 DEF DispCrash, NoDisp, Trouble
<1>7. ASSUME DispUnlist PROVE TypeInv'
  BY <1>7 DEF DispUnlist, DispProc
<1>8. ASSUME DispList PROVE TypeInv'
  BY <1>8 DEF DispList, DispProc, JobOrNot
<1> QED BY <1>1, <1>2, <1>3, <1>4, <1>5, <1>6, <1>7, <1>8 DEF DispatcherProc

\* Steps of a worker preserve the types.
LEMMA WorkerType ==
  ASSUME BuildJobsAssumption, TypeInv, NEW w \in Workers, WorkerNext(w) PROVE TypeInv'
<1> USE Shapes DEF BuildJobsAssumption, TypeInv, TypeOK, ProcsNamed, jobFiles, workerFiles, workerProcs,
             events, history
<1>1. ASSUME WorkerUp(w) PROVE TypeInv'
  BY <1>1 DEF WorkerUp, IdleWorker
<1>2. ASSUME WorkerCrash(w) PROVE TypeInv'
  BY <1>2 DEF WorkerCrash, PutProc, OffWorker, IdleWorker, Trouble
<1>3. ASSUME SendIdle(w) PROVE TypeInv'
  BY <1>3 DEF SendIdle, Trouble
<1>4. ASSUME SendFails(w) PROVE TypeInv'
  BY <1>4 DEF SendFails, PutProc, IdleWorker, Trouble
<1>5. ASSUME NEW h \in Handlers, SendResult(w, h) PROVE TypeInv'
  BY <1>5 DEF SendResult, PutProc, WorkerProc, WorkerIds
<1> QED BY <1>1, <1>2, <1>3, <1>4, <1>5 DEF WorkerNext

\* Handlers and workers have their types and handlers are at work for a job.
PutTyped ==
  /\ put \in [Handlers -> PutProc] /\ worker \in [Workers -> WorkerProc]
  /\ \A w \in Workers : worker[w].mode \in {"building", "sending"} => worker[w].job \in Jobs
  /\ \A h \in Handlers : put[h].pc # "none" => put[h].job \in Jobs

\* The end of a handler keeps that.
LEMMA PutDoneType ==
  ASSUME BuildJobsAssumption, TypeInv, NEW h \in Handlers, PutDone(h) PROVE PutTyped'
<1>1. put' \in [Handlers -> PutProc] /\ worker' \in [Workers -> WorkerProc]
  BY Shapes DEF PutDone, TypeInv, TypeOK
<1>2. \A w \in Workers : worker'[w].mode \in {"building", "sending"} => worker'[w].job \in Jobs
  BY DEF PutDone, TypeInv, TypeOK, ProcsNamed, IdleWorker
<1>3. \A k \in Handlers : put'[k].pc # "none" => put'[k].job \in Jobs
  BY DEF PutDone, TypeInv, TypeOK, ProcsNamed, NoPut
<1> QED BY <1>1, <1>2, <1>3 DEF PutTyped

\* Steps of the repository server preserve the types.
LEMMA ServerType ==
  ASSUME BuildJobsAssumption, TypeInv, Server PROVE TypeInv'
<1> USE Shapes DEF BuildJobsAssumption, TypeInv, TypeOK, ProcsNamed, jobFiles, workerFiles, workerProcs,
             events, history
<1>1. ASSUME NEW w \in Workers, WorkerstateCheck(w) PROVE TypeInv'
  BY <1>1 DEF WorkerstateCheck, Unlinked
<1>2. ASSUME NEW w \in Workers, WorkerstateIdle(w) PROVE TypeInv'
  BY <1>2 DEF WorkerstateIdle, JobOrNot
<1>3. ASSUME NEW h \in Handlers, PutCheck(h) PROVE TypeInv'
  <2>1. /\ put' \in [Handlers -> PutProc]
        /\ \A k \in Handlers : put'[k].pc # "none" => put'[k].job \in Jobs
    <3>1. status[put[h].job].start \in 0 .. MaxStart
      BY <1>3 DEF PutCheck, StatusFile
    <3> QED BY <1>3, <3>1 DEF PutCheck, PutProc
  <2> QED BY <1>3, <2>1 DEF PutCheck, JobOrNot
<1>4. ASSUME NEW h \in Handlers, PutBadHost(h) PROVE TypeInv'
  <2>1. PutTyped'
    BY <1>4, PutDoneType DEF PutBadHost
  <2>2. status' \in [Jobs -> StatusFile] /\ trouble' \in 0 .. MaxTrouble
    BY <1>4 DEF PutBadHost, Unlinked, Trouble
  <2>3. buildFile' \in [Workers -> JobOrNot]
    BY <1>4 DEF PutBadHost, JobOrNot
  <2> QED BY <1>4, <2>1, <2>2, <2>3 DEF PutBadHost, PutTyped
<1>5. ASSUME NEW h \in Handlers, PutRefused(h) PROVE TypeInv'
  <2>1. PutTyped'
    BY <1>5, PutDoneType DEF PutRefused
  <2> QED BY <1>5, <2>1 DEF PutRefused, PutTyped
<1>6. ASSUME NEW h \in Handlers, PutBadMeta(h) PROVE TypeInv'
  <2>1. PutTyped'
    BY <1>6, PutDoneType DEF PutBadMeta
  <2> QED BY <1>6, <2>1 DEF PutBadMeta, PutTyped, UnlinkUnlocked, Unlinked, Trouble
<1>7. ASSUME NEW h \in Handlers, PutCommit(h) PROVE TypeInv'
  <2> DEFINE p == put[h]
  <2>1. p.job \in Jobs /\ p.start \in 0 .. MaxStart
    BY <1>7 DEF PutCommit, PutProc
  <2>2. status' \in [Jobs -> StatusFile]
    <3>1. \A c \in {"signing", "finished"} : [status[p.job] EXCEPT !.code = c] \in StatusFile
      BY <2>1 DEF StatusFile, Codes
    <3>2. PICK c \in {"signing", "finished"} : status' = [status EXCEPT ![p.job].code = c]
      BY <1>7 DEF PutCommit
    <3> QED BY <2>1, <3>1, <3>2
  <2>3. put' \in [Handlers -> PutProc]
    <3>1. /\ [put[h] EXCEPT !.pc = "toSigner"] \in PutProc
          /\ [put[h] EXCEPT !.pc = "toSched"] \in PutProc
      BY DEF PutProc
    <3> QED BY <1>7, <3>1 DEF PutCommit
  <2>4. \A k \in Handlers : put'[k].pc # "none" => put'[k].job \in Jobs
    BY <1>7 DEF PutCommit, PutProc
  <2>5. jobdir' \in [Jobs -> 0 .. MaxStart]
    <3>1. PICK files \in Uploads :
            jobdir' = [jobdir EXCEPT ![p.job] = ResultDir(p.job, files, p.start)]
      BY <1>7 DEF PutCommit
    <3>2. ResultDir(p.job, files, p.start) \in 0 .. MaxStart
      BY <2>1 DEF ResultDir
    <3> QED BY <3>1, <3>2
  <2> QED BY <1>7, <2>1, <2>2, <2>3, <2>4, <2>5 DEF PutCommit
<1>8. ASSUME NEW h \in Handlers, PutTooLate(h) PROVE TypeInv'
  <2>1. PutTyped'
    BY <1>8, PutDoneType DEF PutTooLate
  <2> QED BY <1>8, <2>1 DEF PutTooLate, PutTyped
<1>9. ASSUME NEW h \in Handlers, PutDies(h) PROVE TypeInv'
  <2>1. PutTyped'
    BY <1>9, PutDoneType DEF PutDies
  <2> QED BY <1>9, <2>1 DEF PutDies, PutTyped, Trouble
<1>10. ASSUME NEW h \in Handlers, PutEvent(h) PROVE TypeInv'
  <2>1. PutTyped'
    BY <1>10, PutDoneType DEF PutEvent
  <2> QED BY <1>10, <2>1 DEF PutEvent, PutTyped
<1>11. ASSUME NEW j \in Jobs, RestartBuild(j) PROVE TypeInv'
  BY <1>11 DEF RestartBuild, Discarded, Unlinked, IdleWorker, Trouble
<1>12. ASSUME NEW j \in Jobs, FailJob(j) PROVE TypeInv'
  <2>1. status' \in [Jobs -> StatusFile]
    BY <1>12 DEF FailJob, StatusFile, Codes, WorkerIds
  <2>2. jobdir' \in [Jobs -> 0 .. MaxStart] /\ nextStart' \in 1 .. MaxStart + 1
    BY <1>12 DEF FailJob
  <2>4. given' \in [Starts -> 0 .. MaxId]
    BY <1>12 DEF FailJob
  <2>3. ProcsNamed'
    BY <1>12 DEF FailJob
  <2> QED BY <1>12, <2>1, <2>2, <2>3, <2>4 DEF FailJob, Trouble
<1>13. ASSUME NEW h \in Handlers, PutDiesHalfway(h) PROVE TypeInv'
  <2>1. PutTyped'
    BY <1>13, PutDoneType DEF PutDiesHalfway
  <2>2. jobdir' \in [Jobs -> 0 .. MaxStart]
    BY <1>13 DEF PutDiesHalfway, PutProc
  <2> QED BY <1>13, <2>1, <2>2 DEF PutDiesHalfway, PutTyped, Trouble
<1> QED BY <1>1, <1>2, <1>3, <1>4, <1>5, <1>6, <1>7, <1>8, <1>9, <1>10, <1>11, <1>12, <1>13 DEF Server

\* Steps of a signer preserve the types.
LEMMA SignerType ==
  ASSUME BuildJobsAssumption, TypeInv, NEW j \in Jobs, Signer(j) PROVE TypeInv'
<1> USE Shapes DEF BuildJobsAssumption, TypeInv, TypeOK, ProcsNamed, jobFiles, workerFiles, workerProcs,
             events, history
<1>1. ASSUME SignLock(j) PROVE TypeInv'
  BY <1>1 DEF SignLock, SignProc, StatusFile
<1>2. ASSUME SignDrop(j) PROVE TypeInv'
  BY <1>2 DEF SignDrop
<1>3. ASSUME SignFinish(j) PROVE TypeInv'
  <2>1. status' \in [Jobs -> StatusFile]
    <3>1. signing[j].st \in StatusFile
      BY DEF SignProc
    <3>2. [signing[j].st EXCEPT !.code = "finished"] \in StatusFile
      BY <3>1 DEF StatusFile, Codes
    <3> QED BY <1>3, <3>2 DEF SignFinish
  <2>2. signing' \in [Jobs -> SignProc]
    BY <1>3 DEF SignFinish, SignProc
  <2> QED BY <1>3, <2>1, <2>2 DEF SignFinish
<1>4. ASSUME SignEvent(j) PROVE TypeInv'
  BY <1>4 DEF SignEvent
<1>5. ASSUME SignRebuild(j) PROVE TypeInv'
  BY <1>5 DEF SignRebuild, Unlinked, Trouble
<1>6. ASSUME SignFollowup(j) PROVE TypeInv'
  BY <1>6 DEF SignFollowup, Unlinked
<1>7. ASSUME SignRetry(j) PROVE TypeInv'
  BY <1>7 DEF SignRetry, StatusFile, Trouble
<1> QED BY <1>1, <1>2, <1>3, <1>4, <1>5, <1>6, <1>7 DEF Signer

\* Steps of the warden preserve the types.
LEMMA WardenType ==
  ASSUME BuildJobsAssumption, TypeInv, Warden PROVE TypeInv'
<1> USE Shapes DEF BuildJobsAssumption, TypeInv, TypeOK, ProcsNamed, jobFiles, workerFiles, workerProcs,
             events, history
<1>1. ASSUME NEW w \in Workers, WardenRead(w) PROVE TypeInv'
  BY <1>1 DEF WardenRead, WardenProc, StatusFile, JobOrNot, WorkerIds
<1>2. ASSUME WardenAsk PROVE TypeInv'
  BY <1>2 DEF WardenAsk, HasJob, WardenProc, NoWarden, Trouble
<1>3. ASSUME WardenRestart PROVE TypeInv'
  BY <1>3 DEF WardenRestart, Unlinked, NoWarden, JobOrNot
<1>4. ASSUME NEW j \in Jobs, WardenReadOrphan(j) PROVE TypeInv'
  BY <1>4 DEF WardenReadOrphan, WardenProc, StatusFile, JobOrNot, WorkerIds
<1>5. ASSUME NEW j \in Jobs, WardenStuck(j) PROVE TypeInv'
  BY <1>5 DEF WardenStuck, DayPassed, UnlinkUnlocked, Unlinked, Trouble
<1>6. ASSUME NEW j \in Jobs, WardenCleanup(j) PROVE TypeInv'
  BY <1>6 DEF WardenCleanup, DayPassed, UnlinkUnlocked, Unlinked, Trouble
<1> QED BY <1>1, <1>2, <1>3, <1>4, <1>5, <1>6 DEF Warden

\* The types are an invariant, together with what processes are at work for.
LEMMA TypeInvHolds == ASSUME BuildJobsAssumption PROVE Spec => []TypeInv
<1>1. Init => TypeInv
  BY InitType
<1>2. TypeInv /\ [Next]_vars => TypeInv'
  <2> SUFFICES ASSUME TypeInv, [Next]_vars PROVE TypeInv'
    OBVIOUS
  <2>1. CASE Next
    BY <2>1, SchedulerType, DispatcherType, WorkerType, ServerType, SignerType, WardenType
       DEF Next
  <2>2. CASE UNCHANGED vars
    BY <2>2 DEF vars, TypeInv, TypeOK, ProcsNamed
  <2> QED BY <2>1, <2>2
<1> QED BY <1>1, <1>2, PTL DEF Spec

\* Every variable keeps its type: no process writes a status, an event or an
\* assignment of a job, worker or number that there is none of.
THEOREM TypeCorrect == ASSUME BuildJobsAssumption PROVE Spec => []TypeOK
<1>1. TypeInv => TypeOK
  BY DEF TypeInv
<1> QED BY <1>1, TypeInvHolds, PTL

\* The safety part of the inductive invariant.
Safe == /\ StartsKnown /\ JobFilesOK /\ DispHolds /\ SignHolds
        /\ UploadTied /\ CollectedOK

\* What Safe speaks about.
safeVars == <<job, jobdir, status, disp, put, signing, nextStart, given, collected, broken>>

LEMMA Frame == ASSUME Safe, UNCHANGED safeVars PROVE Safe'
  BY DEF Safe, safeVars, StartsKnown, JobFilesOK, DispHolds, SignHolds, UploadTied,
         CollectedOK, Building, Exists

\* Steps of the scheduler.
LEMMA SchedulerSafe ==
  ASSUME BuildJobsAssumption, TypeInv, Safe, Scheduler PROVE Safe'
<1> USE DEF TypeInv, TypeOK, ProcsNamed, Safe, StartsKnown, JobFilesOK, DispHolds, SignHolds, Building,
           Exists, Free, Unlinked, NoStatus, jobFiles, workerFiles, workerProcs, events, history
<1>1. ASSUME NEW j \in Jobs, WriteJob(j) PROVE Safe'
  <2>1. JobFilesOK' /\ DispHolds' /\ SignHolds'
    BY <1>1 DEF WriteJob
  <2>2. StartsKnown' /\ UploadTied' /\ CollectedOK'
    <3>1. StartsKnown'
      BY <1>1 DEF WriteJob
    <3>2. UploadTied'
      <4> SUFFICES ASSUME NEW h \in Handlers, put[h].pc = "upload"
                   PROVE  put[h].id # 0 /\ (Building(put[h].job, put[h].worker, put[h].id)
                             /\ status[put[h].job].start = put[h].start
                             => job'[put[h].job] = put[h].id)
        BY <1>1 DEF WriteJob, UploadTied
      <4>1. put[h].id # 0 /\ (Building(put[h].job, put[h].worker, put[h].id)
                             /\ status[put[h].job].start = put[h].start
                             => job[put[h].job] = put[h].id)
        BY DEF UploadTied
      <4>2. job[j] = 0 /\ job' = [job EXCEPT ![j] = nextId]
        BY <1>1 DEF WriteJob
      <4> QED BY <4>1, <4>2
    <3>3. CollectedOK'
      BY <1>1 DEF WriteJob, CollectedOK
    <3> QED BY <3>1, <3>2, <3>3
  <2> QED BY <2>1, <2>2 DEF Safe
<1>2. ASSUME NEW j \in Jobs, KillQueued(j) PROVE Safe'
  <2>1. JobFilesOK' /\ DispHolds' /\ SignHolds'
    BY <1>2 DEF KillQueued, Purge
  <2>2. StartsKnown' /\ UploadTied' /\ CollectedOK'
    BY <1>2 DEF KillQueued, Purge, UploadTied, CollectedOK
  <2> QED BY <2>1, <2>2 DEF Safe
<1>3. ASSUME NEW j \in Jobs, KillSeen(j) PROVE Safe'
  BY <1>3, Frame DEF safeVars, jobFiles, workerFiles, workerProcs, events, history, KillSeen
<1>4. ASSUME NEW j \in Jobs, EventBuilt(j) PROVE Safe'
  <2>1. JobFilesOK' /\ DispHolds' /\ SignHolds'
    <3>1. JobFilesOK'
      BY <1>4 DEF EventBuilt, Purge
    <3>2. DispHolds'
      BY <1>4 DEF EventBuilt, Purge
    <3>3. SignHolds'
      <4>1. UNCHANGED <<signing, broken>> /\ (status' = status \/ status' = Unlinked(j))
        BY <1>4 DEF EventBuilt, Purge
      <4>2. status[j].held # "sign" \/ status[j].code = "none"
        BY <1>4 DEF EventBuilt
      <4>3. \A k \in Jobs \ broken : signing[k].pc = "sign" => k # j
        BY <4>2
      <4>4. \A k \in Jobs : k # j => status'[k] = status[k]
        BY <4>1
      <4> QED BY <4>1, <4>3, <4>4
    <3> QED BY <3>1, <3>2, <3>3
  <2>2. StartsKnown' /\ UploadTied' /\ CollectedOK'
    <3>1. StartsKnown'
      BY <1>4 DEF EventBuilt, Purge
    <3>2. UploadTied'
      <4>1. \A k \in Jobs : (status'[k] = status[k] /\ job'[k] = job[k])
                            \/ status'[k].code = "none"
        BY <1>4 DEF EventBuilt, Purge
      <4> QED BY <1>4, <4>1 DEF EventBuilt, UploadTied
    <3>3. CollectedOK'
      BY <1>4 DEF EventBuilt, Purge, CollectedOK
    <3> QED BY <3>1, <3>2, <3>3
  <2> QED BY <2>1, <2>2 DEF Safe
<1>5. ASSUME NEW j \in Jobs, EventLost(j) PROVE Safe'
  BY <1>5, Frame DEF safeVars, jobFiles, workerFiles, workerProcs, events, history, EventLost
<1>6. ASSUME KillLocked PROVE Safe'
  <2>1. JobFilesOK' /\ DispHolds' /\ SignHolds'
    BY <1>6 DEF KillLocked, Purge
  <2>2. StartsKnown' /\ UploadTied' /\ CollectedOK'
    BY <1>6 DEF KillLocked, Purge, UploadTied, CollectedOK
  <2> QED BY <2>1, <2>2 DEF Safe
<1>7. ASSUME KillMissed PROVE Safe'
  BY <1>7, Frame DEF safeVars, jobFiles, workerFiles, workerProcs, events, history, KillMissed
<1>8. ASSUME KillUnlockedDir PROVE Safe'
  <2>1. JobFilesOK' /\ DispHolds' /\ SignHolds'
    BY <1>8 DEF KillUnlockedDir
  <2>2. StartsKnown' /\ UploadTied' /\ CollectedOK'
    BY <1>8 DEF KillUnlockedDir, UploadTied, CollectedOK
  <2> QED BY <2>1, <2>2 DEF Safe
<1>9. ASSUME KillUnlockedFiles PROVE Safe'
  <2>1. JobFilesOK' /\ DispHolds' /\ SignHolds'
    BY <1>9 DEF KillUnlockedFiles, UnlinkUnlocked
  <2>2. StartsKnown' /\ UploadTied' /\ CollectedOK'
    BY <1>9 DEF KillUnlockedFiles, UnlinkUnlocked, UploadTied, CollectedOK
  <2> QED BY <2>1, <2>2 DEF Safe
<1> QED BY <1>1, <1>2, <1>3, <1>4, <1>5, <1>6, <1>7, <1>8, <1>9 DEF Scheduler

\* Steps of the dispatcher.
LEMMA DispatcherSafe ==
  ASSUME BuildJobsAssumption, TypeInv, Safe, DispatcherProc PROVE Safe'
<1> USE DEF TypeInv, TypeOK, ProcsNamed, Safe, StartsKnown, JobFilesOK, DispHolds, SignHolds, Building,
           Exists, Free, Unlinked, NoStatus, jobFiles, workerFiles, workerProcs, events, history
<1>1. ASSUME NEW j \in Jobs, NEW w \in Workers, DispLock(j, w) PROVE Safe'
  <2>1. JobFilesOK' /\ DispHolds' /\ SignHolds'
    BY <1>1 DEF DispLock
  <2>2. StartsKnown' /\ UploadTied' /\ CollectedOK'
    BY <1>1 DEF DispLock, UploadTied, CollectedOK
  <2> QED BY <2>1, <2>2 DEF Safe
<1>2. ASSUME DispAccepted PROVE Safe'
  <2>1. JobFilesOK' /\ DispHolds' /\ SignHolds'
    BY <1>2 DEF DispAccepted, DispProc
  <2>2. StartsKnown' /\ UploadTied' /\ CollectedOK'
    BY <1>2 DEF DispAccepted, DispProc, UploadTied, CollectedOK
  <2> QED BY <2>1, <2>2 DEF Safe
<1>3. ASSUME DispRefused PROVE Safe'
  <2>1. JobFilesOK' /\ DispHolds' /\ SignHolds'
    BY <1>3 DEF DispRefused, DispProc
  <2>2. StartsKnown' /\ UploadTied' /\ CollectedOK'
    BY <1>3 DEF DispRefused, DispProc, UploadTied, CollectedOK
  <2> QED BY <2>1, <2>2 DEF Safe
<1>4. ASSUME DispGiveUp PROVE Safe'
  <2>1. JobFilesOK' /\ DispHolds' /\ SignHolds'
    BY <1>4 DEF DispGiveUp, NoDisp
  <2>2. StartsKnown' /\ UploadTied' /\ CollectedOK'
    BY <1>4 DEF DispGiveUp, NoDisp, UploadTied, CollectedOK
  <2> QED BY <2>1, <2>2 DEF Safe
<1>5. ASSUME DispCommit PROVE Safe'
  <2>1. JobFilesOK' /\ DispHolds' /\ SignHolds'
    <3> DEFINE d == disp.job
    <3>1. /\ d \in Jobs /\ disp.pc # "none" /\ nextStart \in 1 .. MaxStart
          /\ DOMAIN given = 1 .. MaxStart
      BY <1>5 DEF DispCommit, Starts, DispProc
    <3>2. /\ status' = [status EXCEPT ![d] = [code |-> "building", id |-> disp.id,
                                              worker |-> disp.worker, start |-> nextStart,
                                              held |-> "free"]]
          /\ given' = [given EXCEPT ![nextStart] = disp.id]
          /\ disp'.pc = "none"
          /\ UNCHANGED <<job, jobdir, signing, broken>>
      BY <1>5 DEF DispCommit, NoDisp
    <3>3. d \notin broken => status[d].held = "disp" /\ status[d].code = "dispatching"
                             /\ job[d] = disp.id /\ job[d] # 0
      BY <3>1
    <3>4. /\ status'[d].code = "building" /\ status'[d].start = nextStart
          /\ status'[d].id = disp.id /\ given'[nextStart] = disp.id
      BY <3>1, <3>2
    <3>5. ASSUME NEW j \in Jobs, j # d PROVE status'[j] = status[j]
      BY <3>1, <3>2, <3>5
    <3>6. ASSUME NEW j \in Jobs, status[j].start # 0
          PROVE  given'[status[j].start] = given[status[j].start]
      <4>1. status[j].start \in 1 .. MaxStart /\ status[j].start # nextStart
        BY <3>1, <3>6 DEF StatusFile
      <4> QED BY <3>1, <3>2, <4>1
    <3>7. JobFilesOK'
      <4>1. ASSUME NEW j \in Jobs \ broken, j # d
            PROVE  /\ Exists(j)' => job'[j] # 0
                   /\ status'[j].code \in {"building", "signing", "finished"} =>
                        status'[j].start # 0 /\ given'[status'[j].start] = job'[j]
                   /\ status'[j].code = "building" => status'[j].id = job'[j]
                   /\ status'[j].code \in {"signing", "finished"} =>
                        jobdir'[j] = status'[j].start
        BY <3>2, <3>5, <3>6, <4>1
      <4>2. ASSUME d \notin broken
            PROVE  /\ job'[d] # 0
                   /\ status'[d].start # 0 /\ given'[status'[d].start] = job'[d]
                   /\ status'[d].id = job'[d]
        BY <3>1, <3>2, <3>3, <3>4, <4>2
      <4> QED BY <3>2, <3>4, <4>1, <4>2
    <3>8. DispHolds'
      BY <3>2
    <3>9. SignHolds'
      <4>1. ASSUME d \notin broken PROVE signing[d].pc # "sign"
        BY <3>1, <3>3, <4>1
      <4> QED BY <3>1, <3>2, <3>5, <4>1
    <3> QED BY <3>7, <3>8, <3>9
  <2>2. StartsKnown' /\ UploadTied' /\ CollectedOK'
    <3>1. StartsKnown'
      <4>1. nextStart' = nextStart + 1 /\ UNCHANGED <<put, signing>> /\ nextStart \in Nat
        BY <1>5 DEF DispCommit
      <4>2. ASSUME NEW k \in Jobs PROVE status'[k].start < nextStart'
        <5>1. status'[k].start = status[k].start \/ status'[k].start = nextStart
          BY <1>5 DEF DispCommit
        <5>2. status[k].start < nextStart /\ status[k].start \in Nat
          BY DEF StatusFile
        <5> QED BY <4>1, <5>1, <5>2
      <4>3. ASSUME NEW k \in Jobs PROVE signing'[k].st.start < nextStart'
        <5>1. signing[k].st.start < nextStart /\ signing[k].st.start \in Nat
          BY DEF StatusFile, SignProc
        <5> QED BY <4>1, <5>1
      <4>4. ASSUME NEW h \in Handlers PROVE put'[h].start < nextStart'
        <5>1. put[h].start < nextStart /\ put[h].start \in Nat
          BY DEF PutProc
        <5> QED BY <4>1, <5>1
      <4> QED BY <4>2, <4>3, <4>4
    <3>2. UploadTied'
      BY <1>5 DEF DispCommit, NoDisp, UploadTied
    <3>3. CollectedOK'
      BY <1>5 DEF DispCommit, NoDisp, CollectedOK
    <3> QED BY <3>1, <3>2, <3>3
  <2> QED BY <2>1, <2>2 DEF Safe
<1>6. ASSUME DispCrash PROVE Safe'
  <2>1. JobFilesOK' /\ DispHolds' /\ SignHolds'
    BY <1>6 DEF DispCrash, NoDisp
  <2>2. StartsKnown' /\ UploadTied' /\ CollectedOK'
    BY <1>6 DEF DispCrash, NoDisp, UploadTied, CollectedOK
  <2> QED BY <2>1, <2>2 DEF Safe
<1>7. ASSUME DispUnlist PROVE Safe'
  <2>1. JobFilesOK' /\ DispHolds' /\ SignHolds'
    BY <1>7 DEF DispUnlist, DispProc
  <2>2. StartsKnown' /\ UploadTied' /\ CollectedOK'
    BY <1>7 DEF DispUnlist, DispProc, UploadTied, CollectedOK
  <2> QED BY <2>1, <2>2 DEF Safe
<1>8. ASSUME DispList PROVE Safe'
  <2>1. JobFilesOK' /\ DispHolds' /\ SignHolds'
    BY <1>8 DEF DispList, DispProc
  <2>2. StartsKnown' /\ UploadTied' /\ CollectedOK'
    BY <1>8 DEF DispList, DispProc, UploadTied, CollectedOK
  <2> QED BY <2>1, <2>2 DEF Safe
<1> QED BY <1>1, <1>2, <1>3, <1>4, <1>5, <1>6, <1>7, <1>8 DEF DispatcherProc

\* Steps of a worker.
LEMMA WorkerSafe ==
  ASSUME BuildJobsAssumption, TypeInv, Safe, NEW w \in Workers, WorkerNext(w) PROVE Safe'
<1> USE DEF TypeInv, TypeOK, ProcsNamed, Safe, StartsKnown, JobFilesOK, DispHolds, SignHolds, Building,
           Exists, Free, Unlinked, NoStatus, jobFiles, workerFiles, workerProcs, events, history
<1>1. ASSUME WorkerUp(w) PROVE Safe'
  BY <1>1, Frame DEF safeVars, jobFiles, workerFiles, workerProcs, events, history, WorkerUp
<1>2. ASSUME WorkerCrash(w) PROVE Safe'
  <2>1. JobFilesOK' /\ DispHolds' /\ SignHolds'
    BY <1>2 DEF WorkerCrash
  <2>2. StartsKnown' /\ UploadTied' /\ CollectedOK'
    BY <1>2 DEF WorkerCrash, UploadTied, CollectedOK
  <2> QED BY <2>1, <2>2 DEF Safe
<1>3. ASSUME SendIdle(w) PROVE Safe'
  BY <1>3, Frame DEF safeVars, jobFiles, workerFiles, workerProcs, events, history, SendIdle
<1>4. ASSUME SendFails(w) PROVE Safe'
  <2>1. JobFilesOK' /\ DispHolds' /\ SignHolds'
    BY <1>4 DEF SendFails
  <2>2. StartsKnown' /\ UploadTied' /\ CollectedOK'
    BY <1>4 DEF SendFails, UploadTied, CollectedOK
  <2> QED BY <2>1, <2>2 DEF Safe
<1>5. ASSUME NEW h \in Handlers, SendResult(w, h) PROVE Safe'
  <2>1. JobFilesOK' /\ DispHolds' /\ SignHolds'
    BY <1>5 DEF SendResult
  <2>2. StartsKnown' /\ UploadTied' /\ CollectedOK'
    BY <1>5 DEF SendResult, UploadTied, CollectedOK
  <2> QED BY <2>1, <2>2 DEF Safe
<1> QED BY <1>1, <1>2, <1>3, <1>4, <1>5 DEF WorkerNext

\* Steps of the repository server.
LEMMA ServerSafe ==
  ASSUME BuildJobsAssumption, TypeInv, Safe, Server PROVE Safe'
<1> USE DEF TypeInv, TypeOK, ProcsNamed, Safe, StartsKnown, JobFilesOK, DispHolds, SignHolds, Building,
           Exists, Free, Unlinked, NoStatus, jobFiles, workerFiles, workerProcs, events, history
<1>1. ASSUME NEW w \in Workers, WorkerstateCheck(w) PROVE Safe'
  <2>1. JobFilesOK' /\ DispHolds' /\ SignHolds'
    <3>1. JobFilesOK'
      BY <1>1 DEF WorkerstateCheck, JobOrNot
    <3>2. DispHolds'
      BY <1>1 DEF WorkerstateCheck, JobOrNot
    <3>3. SignHolds'
      BY <1>1 DEF WorkerstateCheck, JobOrNot
    <3> QED BY <3>1, <3>2, <3>3
  <2>2. StartsKnown' /\ UploadTied' /\ CollectedOK'
    <3>1. StartsKnown' /\ CollectedOK'
      BY <1>1 DEF WorkerstateCheck, JobOrNot, CollectedOK
    <3>2. \A k \in Jobs : status'[k] = status[k] \/ status'[k].code = "none"
      BY <1>1 DEF WorkerstateCheck, JobOrNot
    <3>3. UploadTied'
      BY <1>1, <3>2 DEF WorkerstateCheck, UploadTied
    <3> QED BY <3>1, <3>3
  <2> QED BY <2>1, <2>2 DEF Safe
<1>2. ASSUME NEW w \in Workers, WorkerstateIdle(w) PROVE Safe'
  BY <1>2, Frame DEF safeVars, jobFiles, workerFiles, workerProcs, events, history, WorkerstateIdle
<1>3. ASSUME NEW h \in Handlers, PutCheck(h) PROVE Safe'
  <2>1. JobFilesOK' /\ DispHolds' /\ SignHolds'
    BY <1>3 DEF PutCheck, PutValid, Building
  <2>2. StartsKnown' /\ UploadTied' /\ CollectedOK'
    <3>1. StartsKnown'
      BY <1>3 DEF PutCheck, PutValid, Building
    <3>2. UploadTied'
      BY <1>3 DEF PutCheck, PutValid, Building, UploadTied
    <3>3. CollectedOK'
      BY <1>3 DEF PutCheck, PutValid, Building, CollectedOK
    <3> QED BY <3>1, <3>2, <3>3
  <2> QED BY <2>1, <2>2 DEF Safe
<1>4. ASSUME NEW h \in Handlers, PutBadHost(h) PROVE Safe'
  <2>1. JobFilesOK' /\ DispHolds' /\ SignHolds'
    BY <1>4 DEF PutBadHost, PutValid, Building, PutDone, NoPut
  <2>2. StartsKnown' /\ UploadTied' /\ CollectedOK'
    <3>1. StartsKnown'
      BY <1>4 DEF PutBadHost, PutValid, Building, PutDone, NoPut
    <3>2. UploadTied'
      BY <1>4 DEF PutBadHost, PutValid, Building, PutDone, NoPut, UploadTied
    <3>3. CollectedOK'
      BY <1>4 DEF PutBadHost, PutValid, Building, PutDone, NoPut, CollectedOK
    <3> QED BY <3>1, <3>2, <3>3
  <2> QED BY <2>1, <2>2 DEF Safe
<1>5. ASSUME NEW h \in Handlers, PutRefused(h) PROVE Safe'
  <2>1. JobFilesOK' /\ DispHolds' /\ SignHolds'
    BY <1>5 DEF PutRefused, PutDone, NoPut
  <2>2. StartsKnown' /\ UploadTied' /\ CollectedOK'
    BY <1>5 DEF PutRefused, PutDone, NoPut, UploadTied, CollectedOK
  <2> QED BY <2>1, <2>2 DEF Safe
<1>6. ASSUME NEW h \in Handlers, PutBadMeta(h) PROVE Safe'
  <2>1. JobFilesOK' /\ DispHolds' /\ SignHolds'
    BY <1>6 DEF PutBadMeta, UnlinkUnlocked, PutDone, NoPut
  <2>2. StartsKnown' /\ UploadTied' /\ CollectedOK'
    BY <1>6 DEF PutBadMeta, UnlinkUnlocked, PutDone, NoPut, UploadTied, CollectedOK
  <2> QED BY <2>1, <2>2 DEF Safe
<1>7. ASSUME NEW h \in Handlers, PutCommit(h) PROVE Safe'
  <2>1. JobFilesOK' /\ DispHolds' /\ SignHolds'
    <3>1. JobFilesOK'
      <4> SUFFICES ASSUME NEW k \in Jobs \ broken
                   PROVE  /\ Exists(k)' => job'[k] # 0
                          /\ status'[k].code \in {"building", "signing", "finished"} =>
                               status'[k].start # 0 /\ given'[status'[k].start] = job'[k]
                          /\ status'[k].code = "building" => status'[k].id = job'[k]
                          /\ status'[k].code \in {"signing", "finished"} =>
                               jobdir'[k] = status'[k].start
        BY <1>7 DEF PutCommit
      <4>1. CASE k = put[h].job
        <5>1. /\ status[k].code = "building" /\ status[k].start = put[h].start
              /\ job[k] # 0 /\ UNCHANGED <<job, given>>
          BY <1>7, <4>1 DEF PutCommit, PutStillValid
        <5>2. jobdir'[k] = put[h].start
          <6>1. PICK files \in Uploads :
                  jobdir' = [jobdir EXCEPT ![k] = ResultDir(k, files, put[h].start)]
            BY <1>7, <4>1 DEF PutCommit
          <6>2. files # {}
            BY DEF Uploads
          <6> QED BY <6>1, <6>2 DEF ResultDir
        <5>3. status'[k].start = status[k].start /\ status'[k].code \in {"signing", "finished"}
          BY <1>7, <4>1 DEF PutCommit, StatusFile
        <5> QED BY <5>1, <5>2, <5>3
      <4>2. CASE k # put[h].job
        BY <1>7, <4>2 DEF PutCommit
      <4> QED BY <4>1, <4>2
    <3>2. DispHolds'
      BY <1>7 DEF PutCommit, PutStillValid
    <3>3. SignHolds'
      BY <1>7 DEF PutCommit, PutStillValid
    <3> QED BY <3>1, <3>2, <3>3
  <2>2. StartsKnown' /\ UploadTied' /\ CollectedOK'
    <3>1. StartsKnown'
      <4>1. \A k \in Jobs : status'[k].start = status[k].start
        BY <1>7 DEF PutCommit, StatusFile
      <4>2. ASSUME NEW g \in Handlers PROVE put'[g].start = put[g].start
        <5>1. put' = [put EXCEPT ![h].pc = "toSigner"] \/ put' = [put EXCEPT ![h].pc = "toSched"]
          BY <1>7 DEF PutCommit
        <5>2. CASE g = h
          BY <5>1, <5>2 DEF PutProc
        <5>3. CASE g # h
          BY <5>1, <5>3
        <5> QED BY <5>2, <5>3
      <4>3. UNCHANGED <<signing, nextStart>>
        BY <1>7 DEF PutCommit
      <4> QED
        <5>1. \A k \in Jobs : status'[k].start < nextStart' /\ signing'[k].st.start < nextStart'
          BY <4>1, <4>3
        <5>2. \A g \in Handlers : put'[g].start < nextStart'
          BY <4>2, <4>3
        <5> QED BY <5>1, <5>2
    <3>2. UploadTied'
      <4> SUFFICES ASSUME NEW g \in Handlers, put'[g].pc = "upload"
                   PROVE  put'[g].id # 0 /\ (Building(put[g].job, put[g].worker, put[g].id)'
                             /\ status'[put'[g].job].start = put'[g].start
                             => job'[put'[g].job] = put'[g].id)
        BY DEF UploadTied
      <4>1. put'[g] = put[g] /\ put[g].pc = "upload" /\ put[g].job \in Jobs
        BY <1>7 DEF PutCommit, PutProc
      <4>2. status'[put[g].job] = status[put[g].job]
            \/ status'[put[g].job].code # "building"
        BY <1>7, <4>1 DEF PutCommit, StatusFile
      <4>3. job' = job
        BY <1>7 DEF PutCommit
      <4> QED BY <4>1, <4>2, <4>3 DEF UploadTied
    <3>3. CollectedOK'
      BY <1>7 DEF PutCommit, CollectedOK
    <3> QED BY <3>1, <3>2, <3>3
  <2> QED BY <2>1, <2>2 DEF Safe
<1>8. ASSUME NEW h \in Handlers, PutTooLate(h) PROVE Safe'
  <2>1. JobFilesOK' /\ DispHolds' /\ SignHolds'
    BY <1>8 DEF PutTooLate, PutDone, NoPut
  <2>2. StartsKnown' /\ UploadTied' /\ CollectedOK'
    BY <1>8 DEF PutTooLate, PutDone, NoPut, UploadTied, CollectedOK
  <2> QED BY <2>1, <2>2 DEF Safe
<1>9. ASSUME NEW h \in Handlers, PutDies(h) PROVE Safe'
  <2>1. JobFilesOK' /\ DispHolds' /\ SignHolds'
    BY <1>9 DEF PutDies, PutDone, NoPut
  <2>2. StartsKnown' /\ UploadTied' /\ CollectedOK'
    BY <1>9 DEF PutDies, PutDone, NoPut, UploadTied, CollectedOK
  <2> QED BY <2>1, <2>2 DEF Safe
<1>10. ASSUME NEW h \in Handlers, PutEvent(h) PROVE Safe'
  <2>1. JobFilesOK' /\ DispHolds' /\ SignHolds'
    BY <1>10 DEF PutEvent, PutDone, NoPut
  <2>2. StartsKnown' /\ UploadTied' /\ CollectedOK'
    BY <1>10 DEF PutEvent, PutDone, NoPut, UploadTied, CollectedOK
  <2> QED BY <2>1, <2>2 DEF Safe
<1>11. ASSUME NEW j \in Jobs, RestartBuild(j) PROVE Safe'
  <2>1. JobFilesOK' /\ DispHolds' /\ SignHolds'
    BY <1>11 DEF RestartBuild
  <2>2. StartsKnown' /\ UploadTied' /\ CollectedOK'
    BY <1>11 DEF RestartBuild, UploadTied, CollectedOK
  <2> QED BY <2>1, <2>2 DEF Safe
<1>12. ASSUME NEW j \in Jobs, FailJob(j) PROVE Safe'
  <2>1. JobFilesOK' /\ DispHolds' /\ SignHolds'
    <3>1. JobFilesOK'
      <4> SUFFICES ASSUME NEW k \in Jobs \ broken
                   PROVE  /\ Exists(k)' => job'[k] # 0
                          /\ status'[k].code \in {"building", "signing", "finished"} =>
                               status'[k].start # 0 /\ given'[status'[k].start] = job'[k]
                          /\ status'[k].code = "building" => status'[k].id = job'[k]
                          /\ status'[k].code \in {"signing", "finished"} =>
                               jobdir'[k] = status'[k].start
        BY <1>12 DEF FailJob
      <4>1. CASE k = j
        BY <1>12, <4>1 DEF FailJob, Starts
      <4>2. CASE k # j
        <5>1. status'[k] = status[k] /\ job'[k] = job[k] /\ jobdir'[k] = jobdir[k]
          BY <1>12, <4>2 DEF FailJob
        <5>2. status[k].start < nextStart /\ status[k].start \in Nat
          BY DEF StatusFile
        <5>3. given'[status[k].start] = given[status[k].start] \/ status[k].start = 0
          BY <1>12, <5>2 DEF FailJob, Starts
        <5> QED BY <5>1, <5>3
      <4> QED BY <4>1, <4>2
    <3>2. DispHolds'
      BY <1>12 DEF FailJob, Starts, StatusFile, SignProc, PutProc
    <3>3. SignHolds'
      BY <1>12 DEF FailJob
    <3> QED BY <3>1, <3>2, <3>3
  <2>2. StartsKnown' /\ UploadTied' /\ CollectedOK'
    <3>1. StartsKnown'
      <4>1. nextStart' = nextStart + 1 /\ UNCHANGED <<put, signing>> /\ nextStart \in Nat
        BY <1>12 DEF FailJob
      <4>2. ASSUME NEW k \in Jobs PROVE status'[k].start < nextStart'
        <5>1. status'[k].start = status[k].start \/ status'[k].start = nextStart
          BY <1>12 DEF FailJob
        <5>2. status[k].start < nextStart /\ status[k].start \in Nat
          BY DEF StatusFile
        <5> QED BY <4>1, <5>1, <5>2
      <4>3. ASSUME NEW k \in Jobs PROVE signing'[k].st.start < nextStart'
        <5>1. signing[k].st.start < nextStart /\ signing[k].st.start \in Nat
          BY DEF StatusFile, SignProc
        <5> QED BY <4>1, <5>1
      <4>4. ASSUME NEW h \in Handlers PROVE put'[h].start < nextStart'
        <5>1. put[h].start < nextStart /\ put[h].start \in Nat
          BY DEF PutProc
        <5> QED BY <4>1, <5>1
      <4> QED BY <4>2, <4>3, <4>4
    <3>2. UploadTied'
      BY <1>12 DEF FailJob, UploadTied
    <3>3. CollectedOK'
      BY <1>12 DEF FailJob, CollectedOK
    <3> QED BY <3>1, <3>2, <3>3
  <2> QED BY <2>1, <2>2 DEF Safe
<1>13. ASSUME NEW h \in Handlers, PutDiesHalfway(h) PROVE Safe'
  <2>1. JobFilesOK' /\ DispHolds' /\ SignHolds'
    BY <1>13 DEF PutDiesHalfway, PutStillValid, PutDone, NoPut
  <2>2. StartsKnown' /\ UploadTied' /\ CollectedOK'
    BY <1>13 DEF PutDiesHalfway, PutDone, NoPut, UploadTied, CollectedOK
  <2> QED BY <2>1, <2>2 DEF Safe
<1> QED BY <1>1, <1>2, <1>3, <1>4, <1>5, <1>6, <1>7, <1>8, <1>9, <1>10, <1>11, <1>12, <1>13 DEF Server

\* Steps of a signer.
LEMMA SignerSafe ==
  ASSUME BuildJobsAssumption, TypeInv, Safe, NEW j \in Jobs, Signer(j) PROVE Safe'
<1> USE DEF TypeInv, TypeOK, ProcsNamed, Safe, StartsKnown, JobFilesOK, DispHolds, SignHolds, Building,
           Exists, Free, Unlinked, NoStatus, jobFiles, workerFiles, workerProcs, events, history
<1>1. ASSUME SignLock(j) PROVE Safe'
  <2>1. JobFilesOK' /\ DispHolds' /\ SignHolds'
    BY <1>1 DEF SignLock
  <2>2. StartsKnown' /\ UploadTied' /\ CollectedOK'
    BY <1>1 DEF SignLock, UploadTied, CollectedOK
  <2> QED BY <2>1, <2>2 DEF Safe
<1>2. ASSUME SignDrop(j) PROVE Safe'
  BY <1>2, Frame DEF safeVars, jobFiles, workerFiles, workerProcs, events, history, SignDrop
<1>3. ASSUME SignFinish(j) PROVE Safe'
  <2>1. JobFilesOK' /\ DispHolds' /\ SignHolds'
    BY <1>3 DEF SignFinish
  <2>2. StartsKnown' /\ UploadTied' /\ CollectedOK'
    BY <1>3 DEF SignFinish, UploadTied, CollectedOK
  <2> QED BY <2>1, <2>2 DEF Safe
<1>4. ASSUME SignEvent(j) PROVE Safe'
  <2>1. JobFilesOK' /\ DispHolds' /\ SignHolds'
    BY <1>4 DEF SignEvent, NoSign
  <2>2. StartsKnown' /\ UploadTied' /\ CollectedOK'
    BY <1>4 DEF SignEvent, NoSign, UploadTied, CollectedOK
  <2> QED BY <2>1, <2>2 DEF Safe
<1>5. ASSUME SignRebuild(j) PROVE Safe'
  <2>1. JobFilesOK' /\ DispHolds' /\ SignHolds'
    BY <1>5 DEF SignRebuild, NoSign
  <2>2. StartsKnown' /\ UploadTied' /\ CollectedOK'
    BY <1>5 DEF SignRebuild, NoSign, UploadTied, CollectedOK
  <2> QED BY <2>1, <2>2 DEF Safe
<1>6. ASSUME SignFollowup(j) PROVE Safe'
  <2>1. JobFilesOK' /\ DispHolds' /\ SignHolds'
    BY <1>6 DEF SignFollowup, NoSign
  <2>2. StartsKnown' /\ UploadTied' /\ CollectedOK'
    BY <1>6 DEF SignFollowup, NoSign, UploadTied, CollectedOK
  <2> QED BY <2>1, <2>2 DEF Safe
<1>7. ASSUME SignRetry(j) PROVE Safe'
  <2>1. JobFilesOK' /\ DispHolds' /\ SignHolds'
    BY <1>7 DEF SignRetry, NoSign
  <2>2. StartsKnown' /\ UploadTied' /\ CollectedOK'
    BY <1>7 DEF SignRetry, NoSign, UploadTied, CollectedOK
  <2> QED BY <2>1, <2>2 DEF Safe
<1> QED BY <1>1, <1>2, <1>3, <1>4, <1>5, <1>6, <1>7 DEF Signer

\* Steps of the warden.
LEMMA WardenSafe ==
  ASSUME BuildJobsAssumption, TypeInv, Safe, Warden PROVE Safe'
<1> USE DEF TypeInv, TypeOK, ProcsNamed, Safe, StartsKnown, JobFilesOK, DispHolds, SignHolds, Building,
           Exists, Free, Unlinked, NoStatus, jobFiles, workerFiles, workerProcs, events, history
<1>1. ASSUME NEW w \in Workers, WardenRead(w) PROVE Safe'
  BY <1>1, Frame DEF safeVars, jobFiles, workerFiles, workerProcs, events, history, WardenRead
<1>2. ASSUME WardenAsk PROVE Safe'
  BY <1>2, Frame DEF safeVars, jobFiles, workerFiles, workerProcs, events, history, WardenAsk
<1>3. ASSUME WardenRestart PROVE Safe'
  <2>1. JobFilesOK' /\ DispHolds' /\ SignHolds'
    <3>1. JobFilesOK'
      BY <1>3 DEF WardenRestart, Building
    <3>2. DispHolds'
      BY <1>3 DEF WardenRestart, Building
    <3>3. SignHolds'
      BY <1>3 DEF WardenRestart, Building
    <3> QED BY <3>1, <3>2, <3>3
  <2>2. StartsKnown' /\ UploadTied' /\ CollectedOK'
    <3>1. StartsKnown'
      BY <1>3 DEF WardenRestart, Building
    <3>2. UploadTied'
      <4>1. \A k \in Jobs : status'[k] = status[k] \/ status'[k].code = "none"
        BY <1>3 DEF WardenRestart, Building
      <4> QED BY <1>3, <4>1 DEF WardenRestart, UploadTied
    <3>3. CollectedOK'
      BY <1>3 DEF WardenRestart, Building, CollectedOK
    <3> QED BY <3>1, <3>2, <3>3
  <2> QED BY <2>1, <2>2 DEF Safe
<1>4. ASSUME NEW j \in Jobs, WardenReadOrphan(j) PROVE Safe'
  BY <1>4, Frame DEF safeVars, jobFiles, workerFiles, workerProcs, events, history, WardenReadOrphan
<1>5. ASSUME NEW j \in Jobs, WardenStuck(j) PROVE Safe'
  <2>1. JobFilesOK' /\ DispHolds' /\ SignHolds'
    BY <1>5 DEF WardenStuck, UnlinkUnlocked
  <2>2. StartsKnown' /\ UploadTied' /\ CollectedOK'
    <3>1. StartsKnown'
      BY <1>5 DEF WardenStuck, UnlinkUnlocked
    <3>2. UploadTied'
      BY <1>5 DEF WardenStuck, UnlinkUnlocked, UploadTied
    <3>3. CollectedOK'
      BY <1>5 DEF WardenStuck, UnlinkUnlocked, CollectedOK
    <3> QED BY <3>1, <3>2, <3>3
  <2> QED BY <2>1, <2>2 DEF Safe
<1>6. ASSUME NEW j \in Jobs, WardenCleanup(j) PROVE Safe'
  <2>1. JobFilesOK' /\ DispHolds' /\ SignHolds'
    BY <1>6 DEF WardenCleanup, UnlinkUnlocked
  <2>2. StartsKnown' /\ UploadTied' /\ CollectedOK'
    <3>1. StartsKnown'
      BY <1>6 DEF WardenCleanup, UnlinkUnlocked
    <3>2. UploadTied'
      <4>1. \A k \in Jobs : status'[k] = status[k] \/ status'[k].code = "none"
        BY <1>6 DEF WardenCleanup, UnlinkUnlocked
      <4> QED BY <1>6, <4>1 DEF WardenCleanup, UploadTied
    <3>3. CollectedOK'
      BY <1>6 DEF WardenCleanup, UnlinkUnlocked, CollectedOK
    <3> QED BY <3>1, <3>2, <3>3
  <2> QED BY <2>1, <2>2 DEF Safe
<1> QED BY <1>1, <1>2, <1>3, <1>4, <1>5, <1>6 DEF Warden

LEMMA InitSafe == ASSUME Init PROVE Safe
  BY DEF Init, Safe, StartsKnown, JobFilesOK, DispHolds, SignHolds, UploadTied, CollectedOK,
         NoStatus, NoDisp, NoPut, NoSign, Exists

\* The inductive invariant: what the status files, the processes that hold their
\* locks and the assignments say of each other is true in every reachable state.
THEOREM Safety == ASSUME BuildJobsAssumption PROVE Spec => []IInv
<1>1. Init => TypeInv /\ Safe
  BY InitType, InitSafe
<1>2. TypeInv /\ Safe /\ [Next]_vars => (TypeInv /\ Safe)'
  <2> SUFFICES ASSUME TypeInv, Safe, [Next]_vars PROVE (TypeInv /\ Safe)'
    OBVIOUS
  <2>1. CASE Next
    <3>1. TypeInv'
      BY <2>1, SchedulerType, DispatcherType, WorkerType, ServerType, SignerType, WardenType
         DEF Next
    <3>2. Safe'
      BY <2>1, SchedulerSafe, DispatcherSafe, WorkerSafe, ServerSafe, SignerSafe, WardenSafe
         DEF Next
    <3> QED BY <3>1, <3>2
  <2>2. CASE UNCHANGED vars
    <3>1. TypeInv'
      BY <2>2 DEF vars, TypeInv, TypeOK, ProcsNamed
    <3>2. Safe'
      BY <2>2, Frame DEF vars, safeVars
    <3> QED BY <3>1, <3>2
  <2> QED BY <2>1, <2>2
<1>3. TypeInv /\ Safe => IInv
  BY DEF TypeInv, Safe, IInv
<1> QED BY <1>1, <1>2, <1>3, PTL DEF Spec

\* putjob compares the job file with the build only before it reads the upload;
\* the second check, of the status alone, still never accepts an upload that was
\* made for another job file.
THEOREM UploadsAreCurrent == ASSUME BuildJobsAssumption PROVE Spec => []UploadIsCurrent
<1>1. IInv => UploadIsCurrent
  BY DEF IInv, UploadTied, UploadIsCurrent, PutStillValid
<1> QED BY <1>1, Safety, PTL

\* No result is taken over for another job file than the one it was built for,
\* unless files of the job were removed under the lock of another process.
THEOREM NoStaleResults == ASSUME BuildJobsAssumption PROVE Spec => []NoStaleResult
<1>1. IInv => NoStaleResult
  BY DEF IInv, CollectedOK, NoStaleResult
<1> QED BY <1>1, Safety, PTL

\* A job that is signed or finished has the result of the assignment its status
\* names, and that assignment was made for the job file that exists.
THEOREM FinishedHaveResults == ASSUME BuildJobsAssumption PROVE Spec => []FinishedHasResult
<1>1. IInv => FinishedHasResult
  BY DEF IInv, JobFilesOK, FinishedHasResult
<1> QED BY <1>1, Safety, PTL

-----------------------------------------------------------------------------
(* BuildJobs implements JobQueue, for every value of the constants: every  *)
(* step of every process submits, withdraws or delivers one job, or changes *)
(* nothing the scheduler can see.                                          *)

\* The job file of one job goes: it is withdrawn, or there was none.
LEMMA JobGone ==
  ASSUME TypeInv, NEW j \in Jobs, job' = [job EXCEPT ![j] = 0], UNCHANGED <<nextId, collected>>
  PROVE  [Queue!Next]_Queue!vars
<1>1. CASE job[j] = 0
  <2>1. job' = job
    BY <1>1 DEF TypeInv, TypeOK
  <2> QED BY <2>1 DEF Queue!vars
<1>2. CASE job[j] # 0
  BY <1>2 DEF Queue!Next, Queue!Withdraw
<1> QED BY <1>1, <1>2

\* Nothing of what the scheduler sees changes.
LEMMA Unseen == ASSUME UNCHANGED <<job, nextId, collected>> PROVE [Queue!Next]_Queue!vars
  BY DEF Queue!vars

LEMMA SchedulerQueue == ASSUME TypeInv, Scheduler PROVE [Queue!Next]_Queue!vars
<1> USE DEF jobFiles, workerFiles, workerProcs, events, history
<1>1. ASSUME NEW j \in Jobs, WriteJob(j) PROVE [Queue!Next]_Queue!vars
  BY <1>1 DEF WriteJob, Queue!Next, Queue!Submit
<1>2. ASSUME NEW j \in Jobs, KillQueued(j) PROVE [Queue!Next]_Queue!vars
  BY <1>2, JobGone DEF KillQueued, Purge
<1>3. ASSUME NEW j \in Jobs, KillSeen(j) PROVE [Queue!Next]_Queue!vars
  BY <1>3, Unseen DEF KillSeen
<1>4. ASSUME NEW j \in Jobs, EventBuilt(j) PROVE [Queue!Next]_Queue!vars
  <2>1. CASE collected' = collected /\ status[j].code = "finished"
    BY <1>4, <2>1, JobGone DEF EventBuilt, Purge
  <2>2. CASE status[j].code # "finished"
    BY <1>4, <2>2, Unseen DEF EventBuilt
  <2>3. CASE /\ status[j].code = "finished" /\ job[j] # 0
             /\ collected' = collected \cup {[job |-> j, id |-> job[j], start |-> jobdir[j]]}
    <3>1. {[job |-> c.job, id |-> c.id] : c \in collected'} =
            {[job |-> c.job, id |-> c.id] : c \in collected} \cup {[job |-> j, id |-> job[j]]}
      <4> DEFINE n == [job |-> j, id |-> job[j], start |-> jobdir[j]]
                 D(S) == {[job |-> c.job, id |-> c.id] : c \in S}
      <4>1. collected' = collected \cup {n}
        BY <2>3
      <4>2. n.job = j /\ n.id = job[j]
        OBVIOUS
      <4> HIDE DEF n
      <4>3. ASSUME NEW d PROVE d \in D(collected \cup {n}) <=>
                                 d \in D(collected) \/ d = [job |-> n.job, id |-> n.id]
        OBVIOUS
      <4>4. D(collected \cup {n}) = D(collected) \cup {[job |-> n.job, id |-> n.id]}
        BY <4>3
      <4> QED BY <4>1, <4>2, <4>4
    <3>2. job' = [job EXCEPT ![j] = 0] /\ UNCHANGED nextId
      BY <1>4, <2>3 DEF EventBuilt, Purge
    <3>3. Queue!Deliver(j)
      BY <2>3, <3>1, <3>2 DEF Queue!Deliver
    <3> QED BY <3>3 DEF Queue!Next
  <2> QED BY <1>4, <2>1, <2>2, <2>3 DEF EventBuilt
<1>5. ASSUME NEW j \in Jobs, EventLost(j) PROVE [Queue!Next]_Queue!vars
  BY <1>5, Unseen DEF EventLost
<1>6. ASSUME KillLocked PROVE [Queue!Next]_Queue!vars
  <2>1. kill.job \in Jobs
    BY <1>6 DEF KillLocked, TypeInv, ProcsNamed
  <2> QED BY <1>6, <2>1, JobGone DEF KillLocked, Purge
<1>7. ASSUME KillMissed PROVE [Queue!Next]_Queue!vars
  BY <1>7, Unseen DEF KillMissed
<1>8. ASSUME KillUnlockedDir PROVE [Queue!Next]_Queue!vars
  BY <1>8, Unseen DEF KillUnlockedDir
<1>9. ASSUME KillUnlockedFiles PROVE [Queue!Next]_Queue!vars
  <2>1. kill.job \in Jobs
    BY <1>9 DEF KillUnlockedFiles, TypeInv, ProcsNamed
  <2> QED BY <1>9, <2>1, JobGone DEF KillUnlockedFiles
<1> QED BY <1>1, <1>2, <1>3, <1>4, <1>5, <1>6, <1>7, <1>8, <1>9 DEF Scheduler

LEMMA OthersQueue ==
  ASSUME DispatcherProc \/ Server \/ Warden \/ \E w \in Workers : WorkerNext(w)
  PROVE  [Queue!Next]_Queue!vars
<1> USE DEF jobFiles, workerFiles, workerProcs, events, history
<1>1. CASE DispatcherProc
  BY <1>1, Unseen DEF DispatcherProc, DispLock, DispAccepted, DispRefused, DispGiveUp,
                      DispUnlist, DispList, DispCommit, DispCrash
<1>2. CASE Server
  BY <1>2, Unseen DEF Server, WorkerstateCheck, WorkerstateIdle, PutCheck, PutBadHost, PutRefused,
                      PutBadMeta, PutCommit, PutTooLate, PutDies, PutDiesHalfway, PutEvent,
                      RestartBuild, FailJob
<1>3. CASE Warden
  BY <1>3, Unseen DEF Warden, WardenRead, WardenReadOrphan, WardenAsk, WardenRestart,
                      WardenStuck, WardenCleanup
<1>4. CASE \E w \in Workers : WorkerNext(w)
  BY <1>4, Unseen DEF WorkerNext, WorkerUp, WorkerCrash, SendIdle, SendFails, SendResult
<1> QED BY <1>1, <1>2, <1>3, <1>4

LEMMA SignerQueue == ASSUME NEW j \in Jobs, Signer(j) PROVE [Queue!Next]_Queue!vars
<1> USE DEF jobFiles, workerFiles, workerProcs, events, history
<1>1. CASE SignFollowup(j)
  BY <1>1 DEF SignFollowup, Queue!Next, Queue!Submit
<1>2. CASE SignRebuild(j)
  <2>1. CASE UNCHANGED <<job, nextId>>
    BY <1>2, <2>1, Unseen DEF SignRebuild
  <2>2. CASE job' = [job EXCEPT ![j] = nextId] /\ nextId' = nextId + 1
    BY <1>2, <2>2 DEF SignRebuild, Queue!Next, Queue!Submit
  <2> QED BY <1>2, <2>1, <2>2 DEF SignRebuild
<1>3. CASE ~SignFollowup(j) /\ ~SignRebuild(j)
  BY <1>3, Unseen DEF Signer, SignLock, SignDrop, SignFinish, SignEvent, SignRetry
<1> QED BY <1>1, <1>2, <1>3

\* The processes around the job directory do for the scheduler what JobQueue
\* promises, whatever crashes, is lost or is killed, broken jobs included.
THEOREM Refinement == ASSUME BuildJobsAssumption PROVE Spec => ImplementsQueue
<1>1. Init => Queue!Init
  BY DEF Init, Queue!Init
<1>2. TypeInv /\ [Next]_vars => [Queue!Next]_Queue!vars
  <2> SUFFICES ASSUME TypeInv, [Next]_vars PROVE [Queue!Next]_Queue!vars
    OBVIOUS
  <2>1. CASE Next
    BY <2>1, SchedulerQueue, OthersQueue, SignerQueue DEF Next
  <2>2. CASE UNCHANGED vars
    BY <2>2, Unseen DEF vars
  <2> QED BY <2>1, <2>2
<1> QED BY <1>1, <1>2, TypeInvHolds, PTL DEF Spec, ImplementsQueue, Queue!Spec

\* A job file whose result the scheduler took over (event_built) is gone for
\* good: nothing builds it, and no result of it is taken over, a second time.
THEOREM BuiltAtMostOnce == ASSUME BuildJobsAssumption PROVE Spec => []NotBuiltAgain
<1>1. Queue!Spec => []Queue!DeliveredOnce
  BY Queue!OnceOnly
<1> QED BY <1>1, Refinement, PTL DEF ImplementsQueue, NotBuiltAgain
=============================================================================
