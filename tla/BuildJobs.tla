------------------------------ MODULE BuildJobs ------------------------------
(***************************************************************************)
(* The life of a build job in the job directory of one architecture.       *)
(*                                                                         *)
(* A job is a file jobs/<arch>/<job> written by the scheduler.  A second   *)
(* file, <job>:status, is the lock and the state of the job: it is created *)
(* with link(2), so that only one process can create it, and it is flock'd *)
(* while somebody works on it.  Five kinds of processes meet there:        *)
(*   - the scheduler creates, kills and finally collects jobs,             *)
(*   - the dispatcher assigns a job to an idle worker,                     *)
(*   - workers build and upload, may crash, and announce that they idle,   *)
(*   - handlers of the repository server receive uploads, announcements    *)
(*     and restart requests, each in a process of its own,                 *)
(*   - the signer signs a result, the warden looks for lost builds.        *)
(* The flock belongs to the inode: unlinking the status file frees the     *)
(* name, whoever holds the lock.  status[j].held says who holds the lock   *)
(* of the file that currently has the name.                                *)
(***************************************************************************)
EXTENDS Integers, FiniteSets

CONSTANTS
  Jobs,        \* names of jobs
  Workers,     \* build workers
  Handlers,    \* processes of the repository server that can receive uploads
  NoJob,       \* "no job" where a worker or a process may name one
  Dispatcher,  \* the workerid of a result the dispatcher made up (failjob)
  Signing,     \* BOOLEAN: results are signed before the scheduler sees them
  MaxId,       \* bound on the job files ever written
  MaxStart,    \* bound on the assignments ever made
  MaxTrouble   \* bound on crashes, lost replies, restarts and bad uploads

ASSUME BuildJobsAssumption ==
  /\ NoJob \notin Jobs
  /\ Dispatcher \notin Workers
  /\ Signing \in BOOLEAN
  /\ MaxId \in Nat /\ MaxStart \in Nat /\ MaxTrouble \in Nat

VARIABLES
  job,         \* content of the job file (its jobid), 0 when there is none
  jobdir,      \* the :dir directory: starttime of the build it holds, 0: none
  status,      \* the :status file
  idleFile,    \* workers with a file in workers/idle
  buildFile,   \* the job named by the worker's file in workers/building
  worker,      \* the worker processes
  announce,    \* "idle" messages of the workers: none, sent, or half handled
  disp,        \* the dispatcher inside assignjob
  put,         \* the handlers inside putjob
  kill,        \* the scheduler inside killjob
  warden,      \* the warden between reading a status and acting on it
  signing,     \* the signer processes, one per job
  signEvents,  \* jobs with a "finished" event in the signer's queue
  schedEvents, \* jobs with a "finished" event in the scheduler's queue
  nextId, nextStart, trouble,
  given,       \* history: the jobid every assignment was made for
  collected,   \* history: the results the scheduler took over
  broken       \* history: jobs whose files were removed under the lock of another

jobFiles    == <<job, jobdir>>
workerFiles == <<idleFile, buildFile>>
workerProcs == <<worker, announce>>
events      == <<signEvents, schedEvents>>
history     == <<nextId, nextStart, given, collected, broken>>
vars == <<job, jobdir, status, idleFile, buildFile, worker, announce, disp, put,
          kill, warden, signing, signEvents, schedEvents, nextId, nextStart,
          trouble, given, collected, broken>>

-----------------------------------------------------------------------------
Ids       == 1 .. MaxId
Starts    == 1 .. MaxStart
JobOrNot  == Jobs \cup {NoJob}
WorkerIds == Workers \cup {Dispatcher}

Codes == {"none", "dispatching", "building", "signing", "finished"}
StatusFile == [code: Codes, id: 0 .. MaxId, worker: WorkerIds,
               start: 0 .. MaxStart, held: {"free", "disp", "sign"}]
WorkerProc == [mode: {"off", "idle", "building", "sending"}, job: JobOrNot, id: 0 .. MaxId]
DispProc   == [pc: {"none", "ask", "unlist", "list", "commit", "down", "keep"}, job: JobOrNot,
               worker: WorkerIds, id: 0 .. MaxId]
PutProc    == [pc: {"none", "check", "upload", "toSigner", "toSched"}, job: JobOrNot,
               worker: WorkerIds, id: 0 .. MaxId, start: 0 .. MaxStart, conn: {"open", "lost"}]
KillProc   == [pc: {"none", "open", "purge", "unlink"}, job: JobOrNot]
WardenProc == [pc: {"none", "ask", "gone"}, job: JobOrNot, worker: WorkerIds,
               id: 0 .. MaxId, from: {"list", "orphan"}]
SignProc   == [pc: {"none", "sign", "send"}, st: StatusFile]

NoStatus   == [code |-> "none", id |-> 0, worker |-> Dispatcher, start |-> 0, held |-> "free"]
IdleWorker == [mode |-> "idle", job |-> NoJob, id |-> 0]
OffWorker  == [IdleWorker EXCEPT !.mode = "off"]
NoDisp     == [pc |-> "none", job |-> NoJob, worker |-> Dispatcher, id |-> 0]
NoPut      == [pc |-> "none", job |-> NoJob, worker |-> Dispatcher, id |-> 0,
               start |-> 0, conn |-> "lost"]
NoKill     == [pc |-> "none", job |-> NoJob]
NoWarden   == [pc |-> "none", job |-> NoJob, worker |-> Dispatcher, id |-> 0, from |-> "orphan"]
NoSign     == [pc |-> "none", st |-> NoStatus]

\* Every variable has its type.
TypeOK ==
  /\ job \in [Jobs -> 0 .. MaxId]
  /\ jobdir \in [Jobs -> 0 .. MaxStart]
  /\ status \in [Jobs -> StatusFile]
  /\ idleFile \subseteq Workers
  /\ buildFile \in [Workers -> JobOrNot]
  /\ worker \in [Workers -> WorkerProc]
  /\ announce \in [Workers -> {"none", "sent", "checked"}]
  /\ disp \in DispProc
  /\ put \in [Handlers -> PutProc]
  /\ kill \in KillProc
  /\ warden \in WardenProc
  /\ signing \in [Jobs -> SignProc]
  /\ signEvents \subseteq Jobs
  /\ schedEvents \subseteq Jobs
  /\ nextId \in 1 .. MaxId + 1
  /\ nextStart \in 1 .. MaxStart + 1
  /\ trouble \in 0 .. MaxTrouble
  /\ given \in [Starts -> 0 .. MaxId]
  /\ collected \subseteq [job: Jobs, id: 0 .. MaxId, start: 0 .. MaxStart]
  /\ broken \subseteq Jobs

Init ==
  /\ job = [j \in Jobs |-> 0]
  /\ jobdir = [j \in Jobs |-> 0]
  /\ status = [j \in Jobs |-> NoStatus]
  /\ idleFile = Workers
  /\ buildFile = [w \in Workers |-> NoJob]
  /\ worker = [w \in Workers |-> IdleWorker]
  /\ announce = [w \in Workers |-> "none"]
  /\ disp = NoDisp
  /\ put = [h \in Handlers |-> NoPut]
  /\ kill = NoKill
  /\ warden = NoWarden
  /\ signing = [j \in Jobs |-> NoSign]
  /\ signEvents = {} /\ schedEvents = {}
  /\ nextId = 1 /\ nextStart = 1 /\ trouble = 0
  /\ given = [s \in Starts |-> 0]
  /\ collected = {} /\ broken = {}

-----------------------------------------------------------------------------
Exists(j) == status[j].code # "none"
\* The lock of the file that now has the name; lockopen looks again when the
\* file it locked was unlinked or replaced.
Free(j)   == status[j].held = "free"
Building(j, w, id) ==
  status[j].code = "building" /\ status[j].worker = w /\ status[j].id = id

Unlinked(j) == [status EXCEPT ![j] = NoStatus]

\* An unlink by somebody who does not hold the lock.
UnlinkUnlocked(j) ==
  /\ status' = Unlinked(j)
  /\ broken' = IF Free(j) THEN broken ELSE broken \cup {j}

\* Crashes, lost replies, restarts by the user and other rare events.
Trouble == trouble < MaxTrouble /\ trouble' = trouble + 1

\* /discard on the worker: ignored unless it builds exactly this job; a worker
\* that sends its result holds its state lock and is not reached in time.
Discarded(w, id) ==
  IF w \in Workers /\ worker[w].mode = "building" /\ worker[w].id = id
    THEN [worker EXCEPT ![w] = IdleWorker]
    ELSE worker

\* Mutant: the job file is forgotten.
PurgeKeepsJob(j) ==
  /\ UNCHANGED job
  /\ jobdir' = [jobdir EXCEPT ![j] = 0]
  /\ status' = Unlinked(j)

\* purgejob: the result directory, the job and the status go.
Purge(j) ==
  /\ job' = [job EXCEPT ![j] = 0]
  /\ jobdir' = [jobdir EXCEPT ![j] = 0]
  /\ status' = Unlinked(j)

-----------------------------------------------------------------------------
(* The scheduler.  It is one process: it creates, kills and collects jobs  *)
(* one after the other, so nothing of it runs while it is inside killjob.  *)

\* writejob; the checker calls it only for a job that does not exist.
WriteJob(j) ==
  /\ kill.pc = "none"
  /\ job[j] = 0 /\ nextId <= MaxId
  /\ job' = [job EXCEPT ![j] = nextId]
  /\ nextId' = nextId + 1
  /\ UNCHANGED <<jobdir, status, workerFiles, workerProcs, disp, put, kill, warden,
                 signing, events, nextStart, trouble, given, collected, broken>>

\* killjob or killscheduled of a job without a status: the name is taken with
\* a "deleting" status, the job purged under that lock.
KillQueued(j) ==
  /\ kill.pc = "none"
  /\ job[j] # 0 /\ ~Exists(j)
  /\ Purge(j)
  /\ UNCHANGED <<workerFiles, workerProcs, disp, put, kill, warden, signing, events,
                 history, trouble>>

\* killjob has seen a status file and goes on to open and lock it.
KillSeen(j) ==
  /\ kill.pc = "none"
  /\ job[j] # 0 /\ Exists(j)
  /\ kill' = [pc |-> "open", job |-> j]
  /\ UNCHANGED <<jobFiles, status, workerFiles, workerProcs, disp, put, warden, signing,
                 events, history, trouble>>

\* ... it has the lock: a running build is discarded and everything purged.
KillLocked ==
  LET j == kill.job IN
  /\ kill.pc = "open"
  /\ Exists(j) /\ Free(j)
  /\ worker' = IF status[j].code = "building"
                 THEN Discarded(status[j].worker, status[j].id) ELSE worker
  /\ Purge(j)
  /\ kill' = NoKill
  /\ UNCHANGED <<workerFiles, announce, disp, put, warden, signing, events, history,
                 trouble>>

\* ... the file has gone since it was seen ...
KillMissed ==
  /\ kill.pc = "open"
  /\ ~Exists(kill.job)
  /\ kill' = [kill EXCEPT !.pc = "purge"]
  /\ UNCHANGED <<jobFiles, status, workerFiles, workerProcs, disp, put, warden, signing,
                 events, history, trouble>>

\* ... and purgejob runs without a lock, whatever has happened meanwhile: the
\* result directory goes first, the job and its status after it.
KillUnlockedDir ==
  LET j == kill.job IN
  /\ kill.pc = "purge"
  /\ jobdir' = [jobdir EXCEPT ![j] = 0]
  /\ broken' = IF Exists(j) THEN broken \cup {j} ELSE broken
  /\ kill' = [kill EXCEPT !.pc = "unlink"]
  /\ UNCHANGED <<job, status, workerFiles, workerProcs, disp, put, warden, signing, events,
                 nextId, nextStart, given, collected, trouble>>

KillUnlockedFiles ==
  LET j == kill.job IN
  /\ kill.pc = "unlink"
  /\ job' = [job EXCEPT ![j] = 0]
  /\ UnlinkUnlocked(j)
  /\ kill' = NoKill
  /\ UNCHANGED <<jobdir, workerFiles, workerProcs, disp, put, warden, signing, events,
                 nextId, nextStart, given, collected, trouble>>

\* event_built.  The event file is unlinked first.  A finished job is taken
\* over (or found outdated, unknown or without a result) and purged.
EventBuilt(j) ==
  /\ kill.pc = "none"
  /\ j \in schedEvents
  /\ ~Exists(j) \/ Free(j)
  /\ schedEvents' = schedEvents \ {j}
  /\ IF status[j].code = "finished"
       THEN /\ Purge(j)
            /\ \/ collected' = collected
               \/ /\ job[j] # 0 /\ jobdir[j] # 0
                  /\ collected' = collected \cup
                       {[job |-> j, id |-> job[j], start |-> jobdir[j]]}
       ELSE UNCHANGED <<jobFiles, status, collected>>
  /\ UNCHANGED <<workerFiles, workerProcs, disp, put, kill, warden, signing, signEvents,
                 nextId, nextStart, trouble, given, broken>>

\* The scheduler dies after unlinking the event and before handling it.
EventLost(j) ==
  /\ Trouble
  /\ kill.pc = "none"
  /\ j \in schedEvents
  /\ schedEvents' = schedEvents \ {j}
  /\ UNCHANGED <<jobFiles, status, workerFiles, workerProcs, disp, put, kill, warden,
                 signing, signEvents, history>>

-----------------------------------------------------------------------------
(* The dispatcher, inside assignjob.                                       *)

\* lockcreatexml succeeds, the job and the idle worker are still there.
DispLock(j, w) ==
  /\ disp.pc = "none" /\ nextStart <= MaxStart
  /\ job[j] # 0 /\ ~Exists(j) /\ w \in idleFile
  /\ status' = [status EXCEPT ![j] = [code |-> "dispatching", id |-> 0,
                                worker |-> Dispatcher, start |-> 0, held |-> "disp"]]
  /\ disp' = [pc |-> "ask", job |-> j, worker |-> w, id |-> job[j]]
  /\ UNCHANGED <<jobFiles, workerFiles, workerProcs, put, kill, warden, signing, events,
                 history, trouble>>

\* PUT /build to a worker that is idle: it starts.  The reply may be lost.
DispAccepted ==
  LET w == disp.worker IN
  /\ disp.pc = "ask"
  /\ worker[w].mode = "idle"
  /\ worker' = [worker EXCEPT ![w] = [mode |-> "building", job |-> disp.job, id |-> disp.id]]
  /\ \/ disp' = [disp EXCEPT !.pc = "unlist"] /\ UNCHANGED trouble
     \/ disp' = [disp EXCEPT !.pc = "down"] /\ Trouble
  /\ UNCHANGED <<jobFiles, status, workerFiles, announce, put, kill, warden, signing,
                 events, history>>

\* The worker cannot be reached, is not idle, or its hostcheck refuses the job
\* ("cannot build ..."): only then it stays listed as idle.
DispRefused ==
  /\ disp.pc = "ask"
  /\ \/ /\ worker[disp.worker].mode # "idle"
        /\ disp' = [disp EXCEPT !.pc = "down"]
        /\ UNCHANGED trouble
     \/ /\ worker[disp.worker].mode = "idle"
        /\ disp' = [disp EXCEPT !.pc = "keep"]
        /\ Trouble
  /\ UNCHANGED <<jobFiles, status, workerFiles, workerProcs, put, kill, warden, signing,
                 events, history>>

DispGiveUp ==
  /\ disp.pc \in {"down", "keep"}
  /\ status' = Unlinked(disp.job)
  /\ idleFile' = IF disp.pc = "down" THEN idleFile \ {disp.worker} ELSE idleFile
  /\ disp' = NoDisp
  /\ UNCHANGED <<jobFiles, buildFile, workerProcs, put, kill, warden, signing, events,
                 history, trouble>>

\* The build is on its way.  The worker is taken out of workers/idle, down, away
\* and dead ...
DispUnlist ==
  /\ disp.pc = "unlist"
  /\ idleFile' = idleFile \ {disp.worker}
  /\ disp' = [disp EXCEPT !.pc = "list"]
  /\ UNCHANGED <<jobFiles, status, buildFile, workerProcs, put, kill, warden, signing,
                 events, history, trouble>>

\* ... gets its file in workers/building ...
DispList ==
  /\ disp.pc = "list"
  /\ buildFile' = [buildFile EXCEPT ![disp.worker] = disp.job]
  /\ disp' = [disp EXCEPT !.pc = "commit"]
  /\ UNCHANGED <<jobFiles, status, idleFile, workerProcs, put, kill, warden, signing,
                 events, history, trouble>>

\* ... and the "building" status replaces whatever file has the name.  (The job
\* of a partition's master dispatcher is deleted instead; none is modelled.)
DispCommit ==
  LET j == disp.job  w == disp.worker IN
  /\ disp.pc = "commit"
  /\ status' = [status EXCEPT ![j] = [code |-> "building", id |-> disp.id, worker |-> w,
                                      start |-> nextStart, held |-> "free"]]
  /\ given' = [given EXCEPT ![nextStart] = disp.id]
  /\ nextStart' = nextStart + 1
  /\ disp' = NoDisp
  /\ UNCHANGED <<jobFiles, workerFiles, workerProcs, put, kill, warden, signing, events, nextId,
                 trouble, collected, broken>>

\* The dispatcher dies; its locks go with it, its status file stays.
DispCrash ==
  /\ Trouble
  /\ disp.pc # "none"
  /\ status' = [j \in Jobs |-> IF status[j].held = "disp"
                                 THEN [status[j] EXCEPT !.held = "free"] ELSE status[j]]
  /\ disp' = NoDisp
  /\ UNCHANGED <<jobFiles, workerFiles, workerProcs, put, kill, warden, signing, events,
                 history>>

-----------------------------------------------------------------------------
(* Workers and their "idle" messages.                                      *)

WorkerUp(w) ==
  /\ worker[w].mode = "off"
  /\ worker' = [worker EXCEPT ![w] = IdleWorker]
  /\ announce' = [announce EXCEPT ![w] = "sent"]
  /\ UNCHANGED <<jobFiles, status, workerFiles, disp, put, kill, warden, signing, events,
                 history, trouble>>

WorkerCrash(w) ==
  /\ Trouble
  /\ worker[w].mode # "off"
  /\ worker' = [worker EXCEPT ![w] = OffWorker]
  /\ put' = [h \in Handlers |-> IF put[h].worker = w THEN [put[h] EXCEPT !.conn = "lost"]
                                                     ELSE put[h]]
  /\ UNCHANGED <<jobFiles, status, workerFiles, announce, disp, kill, warden, signing,
                 events, history>>

\* send_state('idle'): after a build, and every five minutes while idle.  A
\* message of a worker that is listed as idle already changes nothing unless
\* it is late, so it costs a unit of trouble.
SendIdle(w) ==
  /\ worker[w].mode = "idle" /\ announce[w] = "none"
  /\ announce' = [announce EXCEPT ![w] = "sent"]
  /\ IF w \in idleFile THEN Trouble ELSE UNCHANGED trouble
  /\ UNCHANGED <<jobFiles, status, workerFiles, worker, disp, put, kill, warden, signing,
                 events, history>>

\* workerstate "idle", first half: a worker in workers/building "must have
\* crashed", the build it was given is taken back if it is still its own.
WorkerstateCheck(w) ==
  LET j == buildFile[w] IN
  /\ announce[w] = "sent"
  /\ IF j = NoJob THEN UNCHANGED status
     ELSE /\ ~Exists(j) \/ Free(j)
          /\ status' = IF status[j].code = "building" /\ status[j].worker = w
                         THEN Unlinked(j) ELSE status
  /\ announce' = [announce EXCEPT ![w] = "checked"]
  /\ UNCHANGED <<jobFiles, workerFiles, worker, disp, put, kill, warden, signing, events,
                 history, trouble>>

\* second half: updateworkerdata moves the worker to workers/idle.
WorkerstateIdle(w) ==
  /\ announce[w] = "checked"
  /\ announce' = [announce EXCEPT ![w] = "none"]
  /\ idleFile' = idleFile \cup {w}
  /\ buildFile' = [buildFile EXCEPT ![w] = NoJob]
  /\ UNCHANGED <<jobFiles, status, worker, disp, put, kill, warden, signing, events,
                 history, trouble>>

\* The build ends, in success or not, and the worker calls putjob.
SendResult(w, h) ==
  /\ worker[w].mode = "building"
  /\ put[h].pc = "none"
  /\ worker' = [worker EXCEPT ![w].mode = "sending"]
  /\ put' = [put EXCEPT ![h] = [pc |-> "check", job |-> worker[w].job, worker |-> w,
                                id |-> worker[w].id, start |-> 0, conn |-> "open"]]
  /\ UNCHANGED <<jobFiles, status, workerFiles, announce, disp, kill, warden, signing,
                 events, history, trouble>>

\* The worker gives up on its putjob request; the handler may still be at it.
SendFails(w) ==
  /\ Trouble
  /\ worker[w].mode = "sending"
  /\ worker' = [worker EXCEPT ![w] = IdleWorker]
  /\ put' = [h \in Handlers |-> IF put[h].worker = w THEN [put[h] EXCEPT !.conn = "lost"]
                                                     ELSE put[h]]
  /\ UNCHANGED <<jobFiles, status, workerFiles, announce, disp, kill, warden, signing,
                 events, history>>

-----------------------------------------------------------------------------
(* Handlers of the repository server inside putjob, and its other commands *)
(* on jobs.                                                                *)

\* Mutant: the worker gets no reply.
PutDoneSilent(h) == put' = [put EXCEPT ![h] = NoPut] /\ UNCHANGED worker

\* The handler ends; a worker that still waits gets the reply and is idle.
PutDone(h) ==
  /\ put' = [put EXCEPT ![h] = NoPut]
  /\ worker' = IF put[h].conn = "open" THEN [worker EXCEPT ![put[h].worker] = IdleWorker] ELSE worker

\* The checks under the first lock.
PutValid(h) ==
  LET p == put[h] IN
  job[p.job] # 0 /\ Building(p.job, p.worker, p.id) /\ job[p.job] = p.id

\* First lock, the upload is expected: the worker counts as down from now on.
PutCheck(h) ==
  LET p == put[h] IN
  /\ p.pc = "check"
  /\ PutValid(h) /\ Free(p.job)
  /\ buildFile' = [buildFile EXCEPT ![p.worker] = NoJob]
  /\ put' = [put EXCEPT ![h].pc = "upload", ![h].start = status[p.job].start]
  /\ UNCHANGED <<jobFiles, status, idleFile, workerProcs, disp, kill, warden, signing,
                 events, history, trouble>>

\* First lock, the host is bad or its clock is wrong: another host shall build.
PutBadHost(h) ==
  LET p == put[h] IN
  /\ Trouble
  /\ p.pc = "check"
  /\ PutValid(h) /\ Free(p.job)
  /\ buildFile' = [buildFile EXCEPT ![p.worker] = NoJob]
  /\ status' = Unlinked(p.job)
  /\ PutDone(h)
  /\ UNCHANGED <<jobFiles, idleFile, announce, disp, kill, warden, signing, events, history>>

\* First lock, the result is not wanted (any more).
PutRefused(h) ==
  /\ put[h].pc = "check"
  /\ ~PutValid(h)
  /\ job[put[h].job] = 0 \/ ~Exists(put[h].job) \/ Free(put[h].job)
  /\ PutDone(h)
  /\ UNCHANGED <<jobFiles, status, workerFiles, announce, disp, kill, warden, signing,
                 events, history, trouble>>

\* The uploaded meta file is broken: the status is unlinked, without the lock
\* and without a second look at it.
PutBadMeta(h) ==
  /\ Trouble
  /\ put[h].pc = "upload"
  /\ UnlinkUnlocked(put[h].job)
  /\ PutDone(h)
  /\ UNCHANGED <<jobFiles, workerFiles, announce, disp, kill, warden, signing, events,
                 nextId, nextStart, given, collected>>

\* Mutant: the second check only looks whether the job is building at all.
PutAnyBuilding(h) == job[put[h].job] # 0 /\ status[put[h].job].code = "building"

\* The checks under the second lock.
PutStillValid(h) ==
  LET p == put[h] IN
  /\ job[p.job] # 0
  /\ Building(p.job, p.worker, p.id) /\ status[p.job].start = p.start

\* What a worker uploads: the log always, what it has built if the build is good.
Uploads == {{"logfile"}, {"logfile", "rpm"}}

\* "local image building hack": an empty upload leaves a directory that is there
\* in place, any other replaces it.
ResultDir(j, files, start) ==
  IF files = {} /\ jobdir[j] # 0 THEN jobdir[j] ELSE start

\* Second lock: the result takes its place, the status is rewritten by rename.
\* What is to be signed is signed, but for a build that only compares binaries.
PutCommit(h) ==
  LET p == put[h] IN
  /\ p.pc = "upload"
  /\ PutStillValid(h) /\ Free(p.job)
  /\ \E files \in Uploads :
       /\ jobdir' = [jobdir EXCEPT ![p.job] = ResultDir(p.job, files, p.start)]
       /\ \/ /\ Signing /\ "rpm" \in files
             /\ status' = [status EXCEPT ![p.job].code = "signing"]
             /\ put' = [put EXCEPT ![h].pc = "toSigner"]
          \/ /\ status' = [status EXCEPT ![p.job].code = "finished"]
             /\ put' = [put EXCEPT ![h].pc = "toSched"]
  /\ UNCHANGED <<job, workerFiles, workerProcs, disp, kill, warden, signing, events,
                 history, trouble>>

\* Second lock: the job was killed, restarted or given to somebody else.
PutTooLate(h) ==
  /\ put[h].pc = "upload"
  /\ ~PutStillValid(h)
  /\ job[put[h].job] = 0 \/ ~Exists(put[h].job) \/ Free(put[h].job)
  /\ PutDone(h)
  /\ UNCHANGED <<jobFiles, status, workerFiles, announce, disp, kill, warden, signing,
                 events, history, trouble>>

\* The handler dies: the connection breaks during the upload, an illegal file
\* is uploaded, or the process is killed, maybe before it wrote its event.
PutDies(h) ==
  /\ put[h].pc # "none"
  /\ IF put[h].pc = "upload" /\ put[h].conn = "lost" THEN UNCHANGED trouble ELSE Trouble
  /\ PutDone(h)
  /\ UNCHANGED <<jobFiles, status, workerFiles, announce, disp, kill, warden, signing,
                 events, history>>

\* The handler dies under the second lock: the old directory is gone, the new one
\* in place perhaps, the status still says building.
PutDiesHalfway(h) ==
  LET p == put[h] IN
  /\ Trouble
  /\ p.pc = "upload"
  /\ PutStillValid(h) /\ Free(p.job)
  /\ \E start \in {0, p.start} : jobdir' = [jobdir EXCEPT ![p.job] = start]
  /\ PutDone(h)
  /\ UNCHANGED <<job, status, workerFiles, announce, disp, kill, warden, signing, events,
                 history>>

\* Mutant: the name of the job is cleared before the event is written.
PutEventNameless(h) ==
  /\ put[h].pc \in {"toSigner", "toSched"}
  /\ PutDone(h)
  /\ schedEvents' = schedEvents \cup {put'[h].job}
  /\ UNCHANGED <<jobFiles, status, workerFiles, announce, disp, kill, warden, signing,
                 signEvents, history, trouble>>

\* After the lock is released the event goes to the signer or the scheduler.
PutEvent(h) ==
  /\ put[h].pc \in {"toSigner", "toSched"}
  /\ IF put[h].pc = "toSigner"
       THEN signEvents' = signEvents \cup {put[h].job} /\ UNCHANGED schedEvents
       ELSE schedEvents' = schedEvents \cup {put[h].job} /\ UNCHANGED signEvents
  /\ PutDone(h)
  /\ UNCHANGED <<jobFiles, status, workerFiles, announce, disp, kill, warden, signing,
                 history, trouble>>

\* restartbuild: the worker is told to discard the build, the status goes.
RestartBuild(j) ==
  /\ Trouble
  /\ status[j].code = "building" /\ Free(j)
  /\ worker' = Discarded(status[j].worker, status[j].id)
  /\ status' = Unlinked(j)
  /\ UNCHANGED <<jobFiles, workerFiles, announce, disp, put, kill, warden, signing, events,
                 history>>

\* failjob: the dispatcher lets a job fail that nobody can build.  The result
\* is the log the dispatcher wrote; it counts as an assignment of its own.
FailJob(j) ==
  /\ Trouble
  /\ job[j] # 0 /\ ~Exists(j) /\ nextStart < MaxStart
  /\ jobdir' = [jobdir EXCEPT ![j] = nextStart]
  /\ status' = [status EXCEPT ![j] = [code |-> "finished", id |-> 0, worker |-> Dispatcher,
                                      start |-> nextStart, held |-> "free"]]
  /\ given' = [given EXCEPT ![nextStart] = job[j]]
  /\ nextStart' = nextStart + 1
  /\ schedEvents' = schedEvents \cup {j}
  /\ UNCHANGED <<job, workerFiles, workerProcs, disp, put, kill, warden, signing,
                 signEvents, nextId, collected, broken>>

-----------------------------------------------------------------------------
(* The signer.  An event it works on is renamed to ...::inprogress, so it  *)
(* is out of the queue; it comes back if signing shall be tried again.     *)

\* signjob locks a result to sign; one that is finished is signed again.
SignLock(j) ==
  /\ j \in signEvents /\ signing[j].pc = "none"
  /\ job[j] # 0 /\ jobdir[j] # 0
  /\ status[j].code \in {"signing", "finished"} /\ Free(j)
  /\ signEvents' = signEvents \ {j}
  /\ signing' = [signing EXCEPT ![j] = [pc |-> "sign", st |-> status[j]]]
  /\ status' = [status EXCEPT ![j].held = "sign"]
  /\ UNCHANGED <<jobFiles, workerFiles, workerProcs, disp, put, kill, warden, schedEvents,
                 history, trouble>>

\* No such job, or it is not assigned for signing: the event is dropped.
SignDrop(j) ==
  /\ j \in signEvents /\ signing[j].pc = "none"
  /\ \/ job[j] = 0 \/ ~Exists(j)
     \/ Free(j) /\ status[j].code \notin {"signing", "finished"}
  /\ signEvents' = signEvents \ {j}
  /\ UNCHANGED <<jobFiles, status, workerFiles, workerProcs, disp, put, kill, warden,
                 signing, schedEvents, history, trouble>>

\* Signed, or failed for good: the status that was read at the beginning is
\* written back as finished, replacing whatever file has the name.
SignFinish(j) ==
  /\ signing[j].pc = "sign"
  /\ status' = [status EXCEPT ![j] = [signing[j].st EXCEPT !.code = "finished"]]
  /\ signing' = [signing EXCEPT ![j].pc = "send"]
  /\ UNCHANGED <<jobFiles, workerFiles, workerProcs, disp, put, kill, warden, events,
                 history, trouble>>

\* The event for the scheduler is written, the own event is done.
SignEvent(j) ==
  /\ signing[j].pc = "send"
  /\ schedEvents' = schedEvents \cup {j}
  /\ signing' = [signing EXCEPT ![j] = NoSign]
  /\ UNCHANGED <<jobFiles, status, workerFiles, workerProcs, disp, put, kill, warden,
                 signEvents, history, trouble>>

\* "rebuild" error: the result is thrown away and the job is built again; if it
\* was a followup build, without the followup, so that the job file is rewritten.
SignRebuild(j) ==
  /\ Trouble
  /\ signing[j].pc = "sign"
  /\ \/ UNCHANGED <<job, nextId>>
     \/ /\ nextId <= MaxId
        /\ job' = [job EXCEPT ![j] = nextId]
        /\ nextId' = nextId + 1
  /\ jobdir' = [jobdir EXCEPT ![j] = 0]
  /\ status' = Unlinked(j)
  /\ signing' = [signing EXCEPT ![j] = NoSign]
  /\ UNCHANGED <<workerFiles, workerProcs, disp, put, kill, warden, events,
                 nextStart, given, collected, broken>>

\* A followup build integrates the signatures: the job file is rewritten and
\* so gets a new jobid; the signed result stays for it to use.
SignFollowup(j) ==
  /\ signing[j].pc = "sign" /\ nextId <= MaxId
  /\ job' = [job EXCEPT ![j] = nextId]
  /\ nextId' = nextId + 1
  /\ status' = Unlinked(j)
  /\ signing' = [signing EXCEPT ![j] = NoSign]
  /\ UNCHANGED <<jobdir, workerFiles, workerProcs, disp, put, kill, warden, events,
                 nextStart, trouble, given, collected, broken>>

\* Any other error, or the signer dies: the lock is released, the event is
\* back (setdue, or the renaming of ...::inprogress at the next start).
SignRetry(j) ==
  /\ Trouble
  /\ signing[j].pc # "none"
  /\ status' = IF status[j].held = "sign" /\ signing[j].pc = "sign"
                 THEN [status EXCEPT ![j].held = "free"] ELSE status
  /\ signing' = [signing EXCEPT ![j] = NoSign]
  /\ signEvents' = signEvents \cup {j}
  /\ UNCHANGED <<jobFiles, workerFiles, workerProcs, disp, put, kill, warden, schedEvents,
                 history>>

-----------------------------------------------------------------------------
(* The warden.                                                             *)

\* A worker in workers/building whose job says so is to be asked about it.
WardenRead(w) ==
  LET j == buildFile[w] IN
  /\ warden.pc = "none"
  /\ j # NoJob
  /\ status[j].code = "building" /\ status[j].worker = w
  /\ warden' = [pc |-> "ask", job |-> j, worker |-> w, id |-> status[j].id, from |-> "list"]
  /\ UNCHANGED <<jobFiles, status, workerFiles, workerProcs, disp, put, kill, signing,
                 events, history, trouble>>

\* So is the worker of a job that is building without such a file (an orphan).
\* What the warden knows of the files is up to an hour old, so that it may take
\* any job for an orphan.
WardenReadOrphan(j) ==
  /\ warden.pc = "none"
  /\ job[j] # 0 /\ status[j].code = "building"
  /\ warden' = [pc |-> "ask", job |-> j, worker |-> status[j].worker,
                id |-> status[j].id, from |-> "orphan"]
  /\ UNCHANGED <<jobFiles, status, workerFiles, workerProcs, disp, put, kill, signing,
                 events, history, trouble>>

\* GET /worker?jobid=... succeeds only if the worker has exactly this job; the
\* answer may get lost.
HasJob(w, id) == worker[w].mode \in {"building", "sending"} /\ worker[w].id = id
WardenAsk ==
  /\ warden.pc = "ask"
  /\ \/ HasJob(warden.worker, warden.id) /\ warden' = NoWarden /\ UNCHANGED trouble
     \/ HasJob(warden.worker, warden.id) /\ warden' = [warden EXCEPT !.pc = "gone"] /\ Trouble
     \/ /\ ~HasJob(warden.worker, warden.id)
        /\ warden' = [warden EXCEPT !.pc = "gone"]
        /\ UNCHANGED trouble
  /\ UNCHANGED <<jobFiles, status, workerFiles, workerProcs, disp, put, kill, signing,
                 events, history>>

\* Second look under the lock; a build that is still the one asked for is
\* taken back.
WardenRestart ==
  LET j == warden.job  w == warden.worker IN
  /\ warden.pc = "gone"
  /\ ~Exists(j) \/ Free(j)
  /\ IF Building(j, w, warden.id)
       THEN /\ status' = Unlinked(j)
            /\ buildFile' = IF warden.from = "list" THEN [buildFile EXCEPT ![w] = NoJob] ELSE buildFile
       ELSE UNCHANGED <<status, buildFile>>
  /\ warden' = NoWarden
  /\ UNCHANGED <<jobFiles, idleFile, workerProcs, disp, put, kill, signing, events, history,
                 trouble>>

\* A day without a change.  Nothing that is at work takes that long, unless
\* there is trouble (a queue that does not move).
DayPassed(j) ==
  IF /\ disp.job # j /\ kill.job # j /\ signing[j].pc = "none"
     /\ \A h \in Handlers : put[h].job # j
     /\ j \notin signEvents \cup schedEvents
    THEN UNCHANGED trouble ELSE Trouble

\* Mutant: only finished jobs are looked after.
WardenStuckFinished(j) ==
  /\ DayPassed(j)
  /\ job[j] # 0 /\ status[j].code = "finished"
  /\ UnlinkUnlocked(j)
  /\ UNCHANGED <<jobFiles, workerFiles, workerProcs, disp, put, kill, warden, signing,
                 events, nextId, nextStart, given, collected>>

\* A status that is not "building" and a day old is removed, without a lock.
WardenStuck(j) ==
  /\ DayPassed(j)
  /\ job[j] # 0 /\ Exists(j) /\ status[j].code # "building"
  /\ UnlinkUnlocked(j)
  /\ UNCHANGED <<jobFiles, workerFiles, workerProcs, disp, put, kill, warden, signing,
                 events, nextId, nextStart, given, collected>>

\* Result directories and status files without a job go after a day as well.
WardenCleanup(j) ==
  /\ DayPassed(j)
  /\ job[j] = 0
  /\ \/ Exists(j) /\ UnlinkUnlocked(j) /\ UNCHANGED jobdir
     \/ jobdir[j] # 0 /\ jobdir' = [jobdir EXCEPT ![j] = 0] /\ UNCHANGED <<status, broken>>
  /\ UNCHANGED <<job, workerFiles, workerProcs, disp, put, kill, warden, signing, events,
                 nextId, nextStart, given, collected>>

-----------------------------------------------------------------------------
Scheduler ==
  \/ \E j \in Jobs : \/ WriteJob(j) \/ KillQueued(j) \/ KillSeen(j)
                     \/ EventBuilt(j) \/ EventLost(j)
  \/ KillLocked \/ KillMissed \/ KillUnlockedDir \/ KillUnlockedFiles
DispatcherProc ==
  \/ \E j \in Jobs, w \in Workers : DispLock(j, w)
  \/ DispAccepted \/ DispRefused \/ DispGiveUp
  \/ DispUnlist \/ DispList \/ DispCommit \/ DispCrash
WorkerNext(w) ==
  \/ WorkerUp(w) \/ WorkerCrash(w) \/ SendIdle(w) \/ SendFails(w)
  \/ \E h \in Handlers : SendResult(w, h)
Server ==
  \/ \E w \in Workers : WorkerstateCheck(w) \/ WorkerstateIdle(w)
  \/ \E h \in Handlers :
       \/ PutCheck(h) \/ PutBadHost(h) \/ PutRefused(h) \/ PutBadMeta(h)
       \/ PutCommit(h) \/ PutTooLate(h) \/ PutDies(h) \/ PutDiesHalfway(h) \/ PutEvent(h)
  \/ \E j \in Jobs : RestartBuild(j) \/ FailJob(j)
Signer(j) ==
  \/ SignLock(j) \/ SignDrop(j) \/ SignFinish(j) \/ SignEvent(j)
  \/ SignRebuild(j) \/ SignFollowup(j) \/ SignRetry(j)
Warden ==
  \/ \E w \in Workers : WardenRead(w)
  \/ WardenAsk \/ WardenRestart
  \/ \E j \in Jobs : WardenReadOrphan(j) \/ WardenStuck(j) \/ WardenCleanup(j)

Next ==
  \/ Scheduler \/ DispatcherProc \/ Server \/ Warden
  \/ \E w \in Workers : WorkerNext(w)
  \/ \E j \in Jobs : Signer(j)

Spec == Init /\ [][Next]_vars

-----------------------------------------------------------------------------
(* Fairness.  Every process does its next step.  The dispatcher goes       *)
(* through all jobs and idle workers, the warden scans all workers and     *)
(* jobs again and again, so what is there to be seen is seen at last even  *)
(* if it is busy with others in between.  Nothing rare is fair.            *)

\* The warden leaves a job alone whose worker it knows from workers/building.
Listed(j) == \E w \in Workers : buildFile[w] = j

Fairness ==
  /\ WF_vars(KillLocked) /\ WF_vars(KillMissed)
  /\ WF_vars(KillUnlockedDir) /\ WF_vars(KillUnlockedFiles)
  /\ WF_vars(DispAccepted) /\ WF_vars(DispRefused) /\ WF_vars(DispGiveUp)
  /\ WF_vars(DispUnlist) /\ WF_vars(DispList) /\ WF_vars(DispCommit)
  /\ WF_vars(WardenAsk) /\ WF_vars(WardenRestart)
  /\ \A j \in Jobs :
       /\ SF_vars(\E w \in Workers : DispLock(j, w))
       /\ SF_vars(EventBuilt(j)) /\ SF_vars(WardenReadOrphan(j) /\ ~Listed(j))
       /\ WF_vars(WardenStuck(j) /\ ~Listed(j) /\ UNCHANGED trouble)
       /\ WF_vars(WardenCleanup(j) /\ UNCHANGED trouble)
       /\ WF_vars(SignLock(j)) /\ WF_vars(SignDrop(j))
       /\ WF_vars(SignFinish(j)) /\ WF_vars(SignEvent(j))
  /\ \A w \in Workers :
       /\ WF_vars(WorkerUp(w)) /\ WF_vars(SendIdle(w) /\ UNCHANGED trouble)
       /\ WF_vars(WorkerstateCheck(w)) /\ WF_vars(WorkerstateIdle(w))
       /\ WF_vars(\E h \in Handlers : SendResult(w, h)) /\ SF_vars(WardenRead(w))
  /\ \A h \in Handlers :
       /\ WF_vars(PutCheck(h)) /\ WF_vars(PutRefused(h)) /\ WF_vars(PutCommit(h))
       /\ WF_vars(PutTooLate(h)) /\ WF_vars(PutEvent(h))

FairSpec == Spec /\ Fairness

-----------------------------------------------------------------------------
(* Properties.                                                             *)

\* A result is never taken over for another job file than the one it was
\* built for, however often the job was killed, rewritten, restarted and
\* assigned again while its builds were under way.  This needs that nobody
\* removed files of the job under somebody else's lock.
NoStaleResult == \A c \in collected : c.job \notin broken => given[c.start] = c.id

\* An upload that would still pass the second check of putjob was made for the
\* job file that exists now.  (putjob compares the md5 sum of the job file only
\* before it reads the upload.)
UploadIsCurrent ==
  \A h \in Handlers :
    put[h].pc = "upload" /\ PutStillValid(h) => job[put[h].job] = put[h].id

\* A job that is signed or finished has its result in place, and it is that
\* of the assignment named in the status and of the job file.
FinishedHasResult ==
  \A j \in Jobs \ broken : job[j] # 0 /\ status[j].code \in {"signing", "finished"} =>
    jobdir[j] = status[j].start /\ given[jobdir[j]] = job[j]

\* The job directory does what JobQueue promises: a job file is taken over at
\* most once and leaves the directory in the same step.
Queue == INSTANCE JobQueue WITH
  want <- job, fresh <- nextId,
  delivered <- {[job |-> c.job, id |-> c.id] : c \in collected}
ImplementsQueue == Queue!Spec

\* A job file whose result was taken over never comes back.
NotBuiltAgain == Queue!DeliveredOnce

\* Every job is at last taken over, killed or replaced: whatever crashed or got
\* lost, somebody takes the job back and it is built again.
JobsSettle == \A j \in Jobs, i \in Ids : job[j] = i ~> job[j] # i

\* Every worker is offered for dispatch again and again: no crash, lost reply or
\* late message leaves it in workers/down or workers/building for good.
WorkersReturn == \A w \in Workers : []<>(w \in idleFile)

\* "can't happen actually" (killjob): the status file that was there, or that
\* could not be created, is not gone when it is opened.
KillFindsStatus == kill.pc # "purge"

\* "worker must have crashed, discard old job..." (workerstate): a worker that
\* says it is idle while it is in workers/building does not build the job.
IdleMeansCrashed ==
  [][\A w \in Workers :
       announce[w] = "sent" /\ announce'[w] = "checked" /\ status' # status =>
         ~HasJob(w, status[buildFile[w]].id)]_vars

-----------------------------------------------------------------------------
(* The inductive invariant behind the safety properties.                   *)

\* A process that is at work is so for a job, and an assignment that is on its
\* way is still within the bound.
ProcsNamed ==
  /\ disp.pc # "none" => disp.job \in Jobs /\ disp.worker \in Workers /\ nextStart <= MaxStart
  /\ kill.pc # "none" => kill.job \in Jobs
  /\ warden.pc # "none" => warden.job \in Jobs
  /\ \A w \in Workers : worker[w].mode \in {"building", "sending"} => worker[w].job \in Jobs
  /\ \A h \in Handlers : put[h].pc # "none" => put[h].job \in Jobs

\* No status and no upload names an assignment that was not made yet.
StartsKnown ==
  /\ \A j \in Jobs : status[j].start < nextStart /\ signing[j].st.start < nextStart
  /\ \A h \in Handlers : put[h].start < nextStart

\* A job has a status only while it exists, and what the status of a running
\* or ended build says of the job file and of the result is true.
JobFilesOK ==
  \A j \in Jobs \ broken :
    /\ Exists(j) => job[j] # 0
    /\ status[j].code \in {"building", "signing", "finished"} =>
         status[j].start # 0 /\ given[status[j].start] = job[j]
    /\ status[j].code = "building" => status[j].id = job[j]
    /\ status[j].code \in {"signing", "finished"} => jobdir[j] = status[j].start

\* The dispatcher inside assignjob holds the lock of its job.
DispHolds ==
  disp.pc # "none" /\ disp.job \notin broken =>
    /\ status[disp.job].held = "disp" /\ status[disp.job].code = "dispatching"
    /\ job[disp.job] = disp.id

\* The signer holds the lock of its job, and the status is what it has read.
SignHolds ==
  \A j \in Jobs \ broken : signing[j].pc = "sign" =>
    /\ status[j].held = "sign"
    /\ signing[j].st.code \in {"signing", "finished"}
    /\ status[j].code = signing[j].st.code /\ status[j].start = signing[j].st.start

\* While the build an upload belongs to has not been taken back, the job file is
\* the one it was made for; the status of a build goes with the job file.
UploadTied ==
  \A h \in Handlers : put[h].pc = "upload" =>
    /\ put[h].id # 0
    /\ Building(put[h].job, put[h].worker, put[h].id) /\ status[put[h].job].start = put[h].start
         => job[put[h].job] = put[h].id

\* What was taken over came from an assignment that had been made.
CollectedOK ==
  \A c \in collected : c.job \notin broken =>
    c.start # 0 /\ c.start < nextStart /\ given[c.start] = c.id

IInv == /\ ProcsNamed /\ StartsKnown /\ JobFilesOK /\ DispHolds /\ SignHolds
        /\ UploadTied /\ CollectedOK

=============================================================================
