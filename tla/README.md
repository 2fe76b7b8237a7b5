# Open Build Service: TLA+ models, checks and proofs

This directory holds a verification project for the Open Build Service (OBS).
It models two parts of it: the parts of the backend in which several processes
work on the same files without a common lock manager, and the scripts of the web
interface, in which timers, answers and the user's next click come in any order.
It says with TLC and TLAPS what holds of them. All definitions are translated
from the Perl sources under `src/backend` and from the scripts under
`src/api/app/assets/javascripts/webui`, with the controllers and views that
answer them (paths below are relative to the repository).

## 1. The system

OBS consists of a Rails application (`src/api`: users, projects, requests, user
interface) and a backend (`src/backend`) of Perl daemons that share directories
below `/srv/obs` and talk HTTP to each other.

| part | files | state it keeps | operations |
|---|---|---|---|
| source server | `bs_srcserver`, `BSSrcServer/*`, `BSRevision.pm`, `BSSrcrep.pm`, `BSFileDB.pm` | revisions, source trees, links, service marks | commit, link expansion, service runs |
| scheduler | `bs_sched`, `BSSched/*` | package states, lookat queues, job files | check packages, write and kill jobs, take over results |
| dispatcher | `bs_dispatch` | load, bad hosts | assign a job to an idle worker |
| repository server | `bs_repserver` | `jobs/`, `workers/`, `events/` | worker messages, putjob, restart, fail |
| worker | `bs_worker` | `state` file | start, build, send a result, discard |
| signer | `bs_signer` | events in progress | sign the result of a job |
| warden | `bs_warden` | times of last checks | find builds whose worker has vanished |
| event runner | `BSRunner.pm`, `BSStdRunner.pm` | event files, children | used by signer, service dispatcher, source publisher, publisher and others |
| publisher | `bs_publish` | publish queues, repository state | publish a repository |
| service dispatcher | `bs_servicedispatch` | events in progress | run source services |
| servers | `BSServer.pm`, `BSServerEvents.pm`, `BSWatcher.pm`, `BSHandoff.pm` | connections, watchers | serve, hand off, long polling |
| Rails | `src/api` | database | requests, reviews, staging, workflows, notifications |
| live build log | `live_build_log.js`, `build_log_controller.rb`, `update_build_log.js.haml` | offset, timers, the request sent last | start, stop, poll, append, finish |
| source editor | `cm2/use-codemirror.js`, `cm2/toolbars.js` | unstaged, buttons, options | edit, undo, redo, save |
| kiwi editor | `kiwi_editor.js` | fields, their defaults, the open dialog | add, edit, confirm, cancel, delete, save |
| comments | `comment.js`, `write_and_preview.js` | drafts, handlers on a dialog | post, edit, moderate, delete |
| forms for reviews, submissions, repositories, patchinfos | `request.js`, `autocomplete.js`, `image_templates.js`, `patchinfo.js` | inputs, suggestions, lists | type, choose, look up, send |
| panels of results, monitor | `buildresult.js`, `monitor.js`, `request_show_redesign/*` | the choice, the content, a spinner | choose, fold, fetch |
| roles, flags, tabs | `users_groups.js`, `repositories.js`, `popover.js`, `tabs.js`, `nav_tabs.js` | boxes, tables, popovers, the tabs' places | click, replace, resize |
| notifications | `notification.js`, `content-selector-filters.js`, `notifications_controller.rb` | filters, selection, a timer | filter, select, mark |

How they interact: the scheduler writes a job file `jobs/<arch>/<job>`. The
dispatcher sends it to a worker that has a file in `workers/idle`. The worker
uploads the result with `putjob`; the handler of the repository server stores
it in `<job>:dir` and writes an event for the signer or the scheduler. The
signer signs and writes the scheduler's event; the scheduler takes the result
over and removes the job. The warden looks for builds that nobody works on any
more. Events are files plus one byte in a fifo ("ping").

What is hard about it:

- `<job>:status` is the state of a job and its lock at once. `lockcreatexml`
  creates it with `link(2)`; `lockopen` takes a `flock` on it and looks again if
  the file was unlinked meanwhile. The lock belongs to the inode, so whoever
  unlinks or renames over the name without holding the lock takes the name away
  from the one who does. Several places do that.
- `putjob` gives the lock up while it reads an upload that can take minutes.
- Results, announcements ("idle") and RPC replies may be late or lost, every
  process may die between any two file operations, and the recovery is spread
  over the warden, the worker's start and the periodic messages.
- A runner may be killed or stopped while children work, events are written
  again while they are in progress, and the ping comes before or after the
  rename that makes an event visible.

- The scripts of the web interface send a request and go on: the user clicks
  again, another timer expires, answers overtake each other or never come. An
  answer is a script or a piece of the page that is put in the place of what is
  there by then. Most state is in the page itself (a class, a disabled input, a
  `data-default`), is looked at before a request and relied on after it, and is
  shared by handlers that know nothing of each other.

What would make each part correct, and the state of it:

| part | correctness | here |
|---|---|---|
| jobs (scheduler, dispatcher, repository server, worker, signer, warden) | a result is taken over once, for the job file it was built for; no job or worker is stuck | `BuildJobs`, `JobQueue` |
| event runner | no event is lost or forgotten, the child limits hold, a stop is clean | `Runner` |
| scheduler core | a change of sources or binaries leads to a check of everything that depends on it | planned |
| source server | revisions are serial, a service result goes to the revision it ran for | planned |
| publisher | what is published is the last state, one publisher per repository | planned |
| live build log | no text is skipped or shown out of order, a running page goes on, a finished one is at rest, the end is reported | `LiveLog` |
| panels, notifications | what is shown was asked for last; an interval or a timer makes it come true | `Panel`, `Notifications` |
| editors, comments, forms | what is sent was confirmed, what was written is not lost, what is unsaved is known as unsaved | `Editor`, `KiwiEditor`, `Comments`, `ReviewForm`, `SubmitRequest` |
| lists and tables | once all is answered the page shows what the server has; nothing is lost, doubled or promised in vain | `MonitorWorkers`, `RepositoryPicker`, `Patchinfo`, `RoleBoxes`, `FlagTable`, `Tabs` |
| requests | a request leaves `review` only when all reviews are done; terminal states stay | planned |

`PROJECT.json` lists every component with its status, and every hazard found in
the modelled code with its line and the properties aimed at it.

## 2. Modules

| module | what it is |
|---|---|
| `JobQueue` | abstract: what the job directory promises the scheduler, with its own theorem |
| `BuildJobs` | one architecture's job directory with the six kinds of processes around it |
| `BuildJobsProofs` | type correctness and safety of `BuildJobs`, and that it implements `JobQueue` |
| `MCBuildJobs` | instances for TLC |
| `Runner` | `BSRunner::run` with `BSStdRunner`'s `lsevents`, `getevent`, `dispatch`, `setdue`, `sigkill` |
| `RunnerProofs` | types, no lost event, clean stop and child limits |
| `MCRunner` | instances for TLC |
| `LiveLog` | the live build log: page, answers and a log that grows and is cut |
| `LiveLogProofs` | types, the inductive invariant, and the four safety properties of `LiveLog` |
| `Panel` | the five panels that fetch a part of a page again |
| `Notifications` | filters with a timer, a list with updates |
| `MCPolls` | these three as pages of one browser window |
| `PollsProofs` | types and safety of `Panel` and `Notifications`, and the types of the window |
| `Editor`, `KiwiEditor` | the text editor, the editor of kiwi images |
| `Comments` | threads of comments, their forms, drafts, and the dialog that deletes |
| `ReviewForm`, `SubmitRequest` | the dialog that adds a reviewer, the page that submits a package |
| `MCForms` | these five as pages of one browser window |
| `FormsProofs` | types, safety and step properties of each, and of the window |
| `MonitorWorkers` | the bars and badges of the workers |
| `RepositoryPicker`, `Patchinfo` | lists that lookups fill |
| `RoleBoxes`, `FlagTable` | check boxes and flags that are requests at once |
| `Tabs` | tabs that collapse, and the hash of the address |
| `MCTables` | these six as pages of one browser window |
| `TablesProofs` | types, safety and step properties of each, and of the window |
| `DataLemmas` | lemmas about numbers, and about the operators on sequences that the models use |

Operators whose comment begins with "Mutant:" are plausible bugs of the
definition they stand before. They are used by nothing; each is there to be put
in its place, upon which the property named in `PROJECT.json` must fail.
A property that gathers several named ones (`RolesAgree`, `EditorKept`, ...)
has one such mutant.

### BuildJobs

State and code:

| variable | code |
|---|---|
| `job[j]` | the job file; its content is its jobid (the md5 sum of the file), 0 if there is none |
| `jobdir[j]` | `<job>:dir`: which assignment the result in it comes from |
| `status[j]` | `<job>:status` with code, jobid, worker, starttime, and who holds the lock of the file that has the name |
| `idleFile`, `buildFile` | `workers/idle`, `workers/building` |
| `worker`, `announce` | the `state` file of a worker, its "idle" message under way |
| `disp`, `put`, `kill`, `warden`, `signing` | the local variables of `assignjob`, `putjob`, `killjob`, the warden's loop and `signjob` between two steps |
| `signEvents`, `schedEvents` | `events/signer`, `events/<arch>` |
| `given`, `collected`, `broken` | history: the jobid each assignment was made for, the results taken over, the jobs whose files were removed under somebody else's lock |

Short critical sections are one action: nobody else gets the lock in between and
nothing else writes the files. What happens without the lock, or over an RPC, is
split: `DispLock`, `DispAccepted` or `DispRefused`, then `DispGiveUp` or
`DispUnlist`, `DispList` and `DispCommit` (the worker directories are not under
the lock of the job, and a dispatcher may die between any two of them);
`PutCheck`, `PutCommit`, `PutEvent`; `WardenRead`, `WardenAsk`, `WardenRestart`;
`KillSeen`, `KillMissed`, `KillUnlockedDir`, `KillUnlockedFiles`;
`WorkerstateCheck`, `WorkerstateIdle`; `SignLock`, `SignFinish`, `SignEvent`.
A handler that dies between the directory and the status it writes under the
lock is `PutDiesHalfway`. An upload is a set of files: a worker always sends its
log (`bs_worker:5222`), so that the branch of `putjob` for an empty upload
(`bs_repserver:2521`, "local image building hack") is there in `ResultDir` and
never taken, which is what `FinishedHasResult` needs. Jobs of a partition's
master dispatcher (`bs_dispatch:348`) are not modelled.
Failures (`WorkerCrash`, `DispCrash`, `PutDies`, `SendFails`, `EventLost`,
`SignRetry`, a lost reply in `DispAccepted` and `WardenAsk`) and rare commands
(`RestartBuild`, `FailJob`, a bad host or meta file) each cost a unit of
`trouble`.

`broken` is not a way around the problem: the properties that exempt the jobs in
it say that nothing else can go wrong, and the unlocked removals themselves are
hazards of the list. `JobsSettle`, `UploadIsCurrent` and `ImplementsQueue` hold
without the exemption.

Abstractions, all towards more behaviours unless said otherwise: jobids are
numbers never used again (the job file contains the readytime; two files written
in the same second with the same content have the same result anyway);
`starttime` is unique per assignment, although it is in seconds, so an
assignment that follows another one of the same job file to the same worker
within a second is not distinguished by the code (restriction); writing a file by
rename is atomic; a discard reaches a building worker at once; the result of a
build and the choice of signing are nondeterministic; the warden's knowledge of
`workers/building` may be old, so `WardenReadOrphan` and `WardenStuck` may pick
any job. Not modelled: jobs "finished" without an endtime that the scheduler
makes itself (aggregates, deltas) and `job_is_waiting`, empty status files, the
master dispatcher, cross architecture builds, `abortbuild` (a failing build),
worker states `away`, `down` by message, and `rebooting`.

### JobQueue

A name is wanted with a fresh jobid (`Submit`), withdrawn, or delivered. In
`BuildJobs`, `want` is the job file, `fresh` the next jobid and `delivered` the
results taken over without the assignment they come from. Dispatching, building,
uploading, signing and every crash are stutters.

### Runner

| variable | code |
|---|---|
| `file[e]`, `inprog[e]` | the event file and `...::inprogress`: absent, due, or with a due time in the future |
| `ping`, `pinging` | the fifo, and the writers that still have to ping |
| `pc`, `todo`, `flags` | where `BSRunner::run` is, `@events`, `$havedelayed`, `$havelimited`, `$havereaped`, `$numreaped` |
| `chld`, `child` | `%chld`, and the child processes with their place in `dispatch` |
| `stopFile` | the `.exit` or `.restart` file |
| `owed`, `fresh`, `raced` | history: events not handled since they were last written, children whose event was not written since they took it, events that two children were at work on |

The runner forks before it looks for a free slot, so `Children` needs more than
`MaxChild` slots (`RunnerAssumption`); a slot is then always free. The run lock is
inherited by the children, so a runner that died starts again only after the last
of them is gone (`Start`). `raced` names the events for which the parent forked a
second child because it listed the event before the first child had renamed it:
there the second rename replaces the first one's `...::inprogress` file, and a
later kill can lose it. This needs two writings of the event and a slow child.
Events with missing elements (unlinked by `dispatch`), `nofork`, `testmode` and
`limitinprogress` are not modelled. The event's content is not: an event says
that something is to be looked at, and the handler looks after it took the event.

### The web interface

Each module is one page, or the part of a page that keeps state of its own. What
they have in common:

- An event handler, a timer or the execution of an answer is one action: the
  browser runs them to their end. A request is a record in a set (or a function
  on identities, where equal ones must be told apart): it is sent by one action,
  handled at the server by another, answered by a third. Nothing orders them but
  that. Where a request is only read from the server and what it reads does not
  change, handling and answering are one action.
- Failures are actions: a request is refused, or it or its answer is lost. Each
  module has a bound for them (`Max...Failures`, `MaxTrouble`).
- Text is a model value, or whether there is any. Markup is what the script
  later looks for in it: whether an element is there, its class, its `value`
  attribute as opposed to what the user wrote in it (`SubmitRequest.written`).
- jQuery, Bootstrap and CodeMirror are modelled by what the scripts rely on:
  `shown.bs.modal` comes after the dialog, `autocompletechange` when an input
  loses the focus and not at Return, a disabled input is not sent, CodeMirror's
  history counts changes. These definitions are marked external.
- History variables (`late`, `flagOverlap`, `again`, `panelAstray`, ...) record that
  the code was brought into a situation in which it has no order to rely on. A
  property that excuses such a situation says so in its comment, and its excuse
  is as narrow as the reason: `FlagTable.flagOverlap` excuses the tables whose
  requests ran side by side, and no others. Where the code shows the answer that
  comes last (`Panel`, `SubmitRequest`, `RepositoryPicker`, `Notifications`),
  requests may run side by side in any order, and excused is only that the answer
  that came last was the wrong one.

| module | what state stands for which code |
|---|---|
| `LiveLog` | `req` are the requests with what the controller has read for them so far: the status, the size and the chunk come by three requests of the web server, one action each (`GetStatus`, `GetSize`, `GetChunk`), while the log grows (`LogGrows`) or is cut (`BuildEnds`). `timers` are the `setTimeout`s that are pending: more than one, as `start` does not look for them. `tracked` is `ajaxRequest`, the only one that `stop` can abort. The script for `@errors` (`update_build_log.js.haml:1-5`) is left out, as no answer is one: the only assignments to `@errors` are in `package_controller.rb:384-405`, for another page. |
| `Panel` | `kind` has how the five panels differ: fetched at an interval, chosen from, folded, what stops the spinner, whether a failure shows a message. `panelAstray` is set by an answer for an earlier choice that comes after all those for this one. |
| `Notifications` | `inputs`, `asked`, `filter` are the panel of filters as it is, as submitted, and as the page was rendered for; `timer` the two seconds; `noteRequests` the updates with the path they were sent to. `noteOvertaken` is set by an answer that brings notifications back to the list, which are gone at the server. |
| `Editor` | `undo`, `redo` are CodeMirror's history, `editorButton` the classes of the buttons, `unstaged` the variable that the warning looks at. |
| `KiwiEditor` | `fields` and `default` are the values and the `data-default`s of an element, `label` what the page shows of it, `order` its hidden order field. Cancel of a repository or package is `Revert`; that of the details (`Descriptions`, `Preferences`) has `data-bs-dismiss` only, and is `KiwiDismiss` as Escape is. `KiwiRefused` has what each of the three functions that confirm refuses; the one of the preferences refuses nothing. |
| `Comments` | `draft` is the session storage, `handlers` the functions that were registered for `hidden.bs.modal` and never removed, `subject` the comment the dialog is about. |
| `ReviewForm` | `disabled` are the inputs that are not sent, `source` the autocompletion's parameter, `reviewNoticed` what the last `autocompletechange` saw. |
| `SubmitRequest` | `lists`, `devels` count the questions under way for a project; `submitList`, `warned`, `name`, `cleanup` are what is shown. `description` is empty, typed by the user, or the log of the changes: `Prefilled` sets it by `.val` whatever is there, but the target project by its attribute, which an input that was written in ignores. |
| `MonitorWorkers` | `updates` are answers under way, with the server's state when they were made. |
| `RepositoryPicker` | `options`, `enabled` are the dropdown, `lookups`, `fetching` the requests for repositories and for architectures. |
| `Patchinfo` | `adds` are the requests with the issues asked for, `listed` the list in the form. |
| `RoleBoxes` | `boxes` are the check boxes, `granted` the roles at the server, `reloading` that the page is asked for anew. |
| `FlagTable` | `table` has the flags each table was rendered from, `popovers` their entries as they were computed. |
| `Tabs` | `slots`, `menu` are the list and the dropdown of `tabs.js`; `bound` the links `nav_tabs.js` found when the page was ready. |

Pages share nothing but the server, and a browser window shows one of them at a
time. The three MC modules use this: `visit` says which page, or which part of a
page, is visited, `Next` lets only that page move, and the others keep one fixed
initial state. So one run has the sum, and not the product, of their states, and
a property of a page that is not visited holds trivially in the states of
another visit and not in its own. Where a page would be too large at once, two
visits look at it from different sides (one chain of requests on a long log, or
several on a short one; two repositories of a kiwi image, or one with lookups;
the target of a submit request with all questions, or the description);
`Next` of the MC module states the limits of each.

## 3. Runs

`cd tla; tlc -config <cfg> <module>`.

| run | instance | what is asked |
|---|---|---|
| `assign` | 1 job name written twice, 2 workers, 2 handlers, 2 assignments, 1 trouble | `TypeOK`, `NoStaleResult`, `UploadIsCurrent`, `FinishedHasResult`, `IInv` |
| `queue` | 2 names, 1 worker, 2 handlers | `ImplementsQueue`, `NotBuiltAgain` |
| `settle` | 1 name, 1 job file, 1 worker, up to 5 assignments, 1 trouble, fairness | `JobsSettle`, `WorkersReturn` |
| `kill` | smallest | `KillFindsStatus`, expected to fail |
| `crashed` | smallest | `IdleMeansCrashed`, expected to fail |
| `events` | 2 events, 3 slots, maxchild 1, 2 troubles | `TypeOK`, `EventKept`, `ChildLimits`, `RunnerInv`, `StopIsClean` |
| `busy` | 2 events, 2 slots, maxchild 1, 1 trouble, fairness | `EventsHandled` |
| `again` | 1 event (`MCRunner_retry.cfg`), fairness | `FailedIsRetried`, expected to fail |
| `polls` | log of 3 units in chunks of 1, 2 requests at a time, 1 restart, 1 trouble; panels with 2 choices, 2 requests, 2 changes, 1 failure; 2 notifications, a filter of each kind, 2 updates side by side, or 1 with filters; fairness | `TypesOK`, `NothingSkipped`, `ShownInOrder`, `EndIsFinal`, `RunningPolls`, `PanelShows`, `NotesCurrent`, `Reported`, `CatchesUp`, `ChangesCome` |
| `cut` | one request, a log of 2 | `CutLogResets`, expected to fail |
| `forms` | 2 texts, 2 changes to undo, 2 saves; 2 repositories, a package, details, 1 lookup; 2 threads, 2 requests; 2 projects to review; 3 targets, 2 questions each | `FormsTypeOK`, `EditorKept`, `KiwiConfirmed`, `CommentsCurrent`, `ReviewFits`, `ShownForTarget`, `FormSteps` |
| `tables` | 2 workers, jobs and updates; 2 projects with 3 repositories; 3 issues, 2 lookups; 2 subjects, 2 roles, 2 requests, 1 failure; 2 tables of 4 cells, 2 requests, 1 failure; 3 tabs in a window of 5 widths | `TablesTypeOK`, `MonitorAgrees`, `PickerKept`, `PatchKept`, `RolesAgree`, `FlagsAgree`, `TabsAgree`, `TableSteps` |

Why the bounds are enough: with one name written twice and two handlers, an
upload for the old job file meets the new one, its second assignment and its
second upload; a third process of a kind adds only symmetric cases. One trouble
allows every single failure at every place, two troubles (`events`) a failure
during the recovery from another; for `BuildJobs`, `IInv` is proved for any number. `MaxId`, `MaxStart` and `MaxTrouble`
end every behaviour of `BuildJobs` at last, so `CHECK_DEADLOCK FALSE` is set
there; `Runner` has no such end and is checked for deadlock. In `settle` the
bound on assignments must not stop the system before it has recovered, hence 5:
one trouble leads to three assignments at most. Handlers and workers, children
and job names are symmetric in the safety runs; the liveness runs use no symmetry.

Fairness (`Fairness` in both modules): each process makes its next step, because
it waits for nothing but a lock that is released or an RPC with a timeout.
Strong fairness is assumed for scans, where what is to be seen can come and go
between two looks: the dispatcher goes through all jobs and idle workers every
second (`bs_dispatch`, main loop), the warden through all workers and jobs
(`bs_warden`, main loop), the scheduler's events wait for a lock that others take
and release. Nothing rare is fair; in the runner, neither failing nor killing,
crashing, nor foreign pings are. `EventsHandled` is conditional on the runner
forking again and again: without another event a killed child would never be
reaped (hazard list). The warden waits for a day before it removes a stuck
status; `DayPassed` makes this cost trouble while somebody works on the job.

In the web modules two of a kind are enough for what goes wrong there: two
requests can overtake each other, a request can overtake a click, an answer can
come to a page that was replaced, and a list has a first and a last element. A
third request repeats the relation of two of them, as no handler counts them. A
log of 3 with chunks of 1 has a first chunk that skips the beginning, a chunk
behind it, and room to be cut below what is shown. For the safety and step
properties the proofs of section 4 take the bounds away.

`CHECK_DEADLOCK FALSE` is set in the web runs: a finished log, a page whose
bounds on requests and failures are used up, and a page that was left have no
next step.

Fairness of `polls`: of the live log, each request under way is answered and its
answer executed, and each timer of two seconds expires
(`update_build_log.js.haml:17`); of the panels, requests are handled and
answered, and the monitor's interval of 80 seconds comes again and again
(`monitor.js:13`), `WF` being enough as it is always enabled; of the notifications,
the timer of two seconds expires and a page asked for is loaded
(`content-selector-filters.js:46`). The user, the build and the failures are not
fair. `Reported` therefore excuses a user who stopped the refresh; `CatchesUp`
is about the panel with an interval only.

What the expected violations show:

- `kill`: `killjob` looks for the status file, then opens it. It can vanish in
  between (the dispatcher gives up, a build is taken back). The branch marked
  "can't happen actually" then purges the job without the lock.
- `crashed`: a worker sends its periodic "idle" after reading its state without
  the lock. If the dispatcher gives it a job meanwhile, the repository server
  takes the running build for crashed and restarts it. Work is lost, nothing else:
  `NoStaleResult` covers the late result.
- `again`: `setdue` pings before `dispatch` renames the event back. A parent that
  lists the directory in between finds nothing to wait for and blocks.
- `cut`: the handler for a log that was cut sets the offset to a variable that is
  not set yet (`build_log_controller.rb:53`): the answer is no script, nobody is
  told, no timer is set, and the page says "Running..." for ever.

Further disagreements between the code and what its comments say, met while
modelling. Each is stated as a property of its module and used by no run. Unless
noted, adding it as an INVARIANT to `MCForms_forms.cfg` or
`MCTables_tables.cfg` shows a trace.

| property | code | what happens |
|---|---|---|
| `WarnedOnLeaving` (`Editor`) | `cm2/use-codemirror.js:94` | the answer of a save marks the text as saved although it was edited since: leaving the page loses the edit without the question that line 5 speaks of |
| `ListedOnce` (`RepositoryPicker`) | `autocomplete.js:99` | a repository chosen again before the first answer is listed twice, which line 98 wants to exclude |
| `NamesPackage` (`ReviewForm`) | `autocomplete.js:65` | Return in the project's input sends the form before the package's input is enabled: the package is not sent |
| `WarnsOfBypass` (`SubmitRequest`) | `request.js:51` | a click on the name of the development project leaves the warning of the project typed before |
| `ShowsHash` (`Tabs`) | `nav_tabs.js:10`, `:37` | in a narrow window `tabs.js` has taken the class the selector looks for from the tab the hash names; a link with a hash of its own gets a second one: no tab is shown |
| `DetailsConfirmed` (`KiwiEditor`) | `kiwi_editor.js:388`, `_description_form.html.haml:24`, `_preferences_form.html.haml:29` | the Cancel of the details is not bound to `revertDialog` as that of repositories and packages is: what was cancelled stays in the form and is sent |
| `DescriptionStays` (`SubmitRequest`) | `request.js:74` | the late answer of prefilling replaces the description the user has typed, while the target project it keeps. Add it as a PROPERTY |
| `DestroyedLeftOut` (`KiwiEditor`) | `kiwi_editor.js:239` | with two repositories destroyed, the second splice uses the index from before the first one. Needs a visit with both repositories and the package search, which `forms` keeps apart |
| `DefaultIsLeft` (`FlagTable`) | `specified_flags.rb:33` | for a package the default passes over the project's flag for the same cell. Needs `IsPackage = TRUE` |
| `UpdateKeepsFilter` (`Notifications`) | `notifications_controller.rb:50` | the path of an update carries some of the filters only. Needs a visit with all filters and updates, which `polls` keeps apart |
| `MaxParallel` (`Runner`) | `BSRunner.pm:35` | `maxchild + 1` children run, as `reap` comes after the fork; `BSConfig.pm.template:279` says "max of 4 parallel running services". Add it to `MCRunner_events.cfg` |

## 4. Theorems

All are proved for every value of the constants that satisfies the module's
assumption. Finite are the children of a runner, the notifications, the workers
of the monitor, the issues of a patchinfo and the elements of a kiwi image,
because the code counts or lists them; jobs, workers, handlers, events, projects, comments, flags and texts may be
any sets, and every bound on requests, changes and failures may be any number.

- `BuildJobsProofs`: `TypeCorrect`, and `Safety`: `Spec => []IInv`. `NoStaleResult`
  is not inductive: that a result belongs to the job file depends on the status
  having named the assignment when it was signed, on the signer holding the lock
  of that very file, and on uploads that still pass the second check having been
  made for the current job file. `IInv` says these: `JobFilesOK` relates status,
  result and job file; `DispHolds` and `SignHolds` say that the lock really is
  held by the process that will rename over the name; `UploadTied` follows an
  upload over the unlocked period; `StartsKnown` makes assignments fresh;
  `CollectedOK` carries the conclusion; `ProcsNamed` has the types.
  `NoStaleResults`, `UploadsAreCurrent` and `FinishedHaveResults` follow. So the
  second check of `putjob` may leave the md5 sum out: a job file is never replaced
  while its "building" status stays, because killing, followups and purges remove
  the status in the same critical section.
- `Refinement`, in the same module (each step maps to a step of `JobQueue` or a
  stutter; the step that collects a result also removes the job file) and
  `BuiltAtMostOnce`, which carries `JobQueue`'s `OnceOnly` over.
- `RunnerProofs`: `TypeCorrect`; `Inductive` with `NoEventLost`: an event owed is
  in the directory. That needs to know what children at work leave behind:
  `WorkInProgress` (the child's event is in the directory, what was written after
  it took it is in the event file, one child at most unless `raced`),
  `NoStrayChild` (recovery at the start meets no child) and `InProgressHeld`
  (whose `...::inprogress` it is). `CleanStop` follows from the latter; `Limits`
  counts `%chld` before and after `reap` with the theorems about cardinalities.
- `LiveLogProofs`: `TypeCorrect` and `Safety`: `LogSpec => []IInv`, for any set of
  requests, any sizes, starts and failures. That no text is skipped is not
  inductive: a chunk joins what is shown because its request was sent with an
  offset that the text had reached, and stays so although the log is read at
  three different times. `ReadsReached` says so of every request, wherever it is,
  with `Reached(v)`: text up to `v` is shown, or the build is over and `v` is past
  the end of a log that was cut (`Past`, which lasts: `PastStays`). `FirstAlone`
  excepts the first request, which may start in the middle. `OneChain` says that
  without an overlap there is one request or one timer, `GoesOn` that it reads
  where the last chunk ended, `AutoRuns` ties the indicator to `autoRefresh`.
  `LogIsNotSkipped`, `LogIsInOrder`, `EndIsAtRest` follow; `PageGoesOn` needs one
  more step per action, as `RunningPolls` is inductive over `IInv`.
- `PollsProofs`: `PanelIsCurrent`: `PanelSpec => []PanelShows`. What a panel at rest
  shows is the answer that came last. `ShowsChoice` is inductive: an answer for
  what is chosen is right, one for an earlier choice is followed by one more, or
  the panel is astray. For the spinner, `PanelSame` says that without an overlap
  there is one request at most, `PanelSpins` that it turns for it.
  `NotesAreCurrent`: with any number of updates side by side, the list is the
  server's or an update under way will bring what is unread (`NoteComes`). That
  the one answered last brings it is not known of each, only that an older answer
  lists at least what is unread now (`NoteSeen`): if it brings nothing back to a
  list that is the server's, it brings the same.
- `FormsProofs`. `EditorKeepsTrack`: unless the text is changed while a save is
  under way there is one save at most, of the text that is shown, and the button is
  off (`EditorOne`), so undoing across a save cannot confuse what is stored.
  `KiwiIsConfirmed`, of the fields of repositories and packages, and of what all
  elements show: an element that was not confirmed yet has nothing to be
  reverted to and no label (`KiwiFresh`), what was kept was not refused
  (`KiwiKeptIsConfirmed`), and as the order fields rise, each repository has one
  place in the list. `CommentSafety`: a comment's new thread is rendered when the
  dialog is hidden, by handlers that are never removed and run again for other
  threads. `CommentLastWord` says that the last handler of a thread has what the
  server has, or the page shows it already; `CommentSingle` and `CommentAnswer` say
  the same of its request. `CommentsAreCurrent` and `CommentsKeepText` follow.
  `ReviewIsWhole`: the properties are about the open dialog with its package, the
  invariant about what a dismissed dialog and a change of kind leave:
  `PackageDisabled`, `OthersEnabled` (of what is shown, only the package is ever
  disabled) and `SourceKnown`. A package is missing from what is sent only if the
  form is sent with Return, one of the further disagreements of section 3.
  `SubmitIsShown`: each part of the page that waits for no answer about the target
  noticed last is of it (`SubmitListShown`, `SubmitDevelShown`, `SubmitCleanup`),
  with questions about any targets under way: one about another target that is
  answered after it leaves the page excused, one answered before it is put right.
- `TablesProofs`. `MonitorsAgree`: bars and badges come from the same answer
  (`MonitorBarred`, `MonitorCounted`); that a worker is in one state only makes the
  sum of the badges of a host the number of its workers, by cardinalities of
  disjoint sets. `PickerIsKept`: the dropdown has nothing or all of the selected
  project, and once its lookup is answered all (`OffersSelected` is inductive, as
  lookups of other projects only count if they are answered). In `PickerIsKept` and
  `PatchIsKept`, what is fetched twice, or fetched and listed, was chosen twice
  (`PickerApart`, `PatchApart`), so an answer appends nothing that is there. `RolesKept` and `FlagsAreCurrent`: a box or a type that had
  its requests one after the other has one at most (`RoleSingle`, `FlagSingle`), and
  until it is handled the page is tied to the server by what the request asks for,
  afterwards by its answer (`RoleTied`, `FlagTied`). `FlagPromisesKept`: an option
  sent from a table that was the server's is still one of that cell when it is
  handled (`FlagPromised`), and then what `FirstSet` finds is what was promised. It
  has the hypothesis `~IsPackage`: for a package it is false, see `DefaultIsLeft`
  in section 3, where the promise counts on the project's flag of the same cell.
  `TabsAreKept` and `TabsFit`: the list is always cut somewhere, the first `k` tabs in
  it and the rest in the dropdown (`Cut`). Each round of `resizeTabs` moves the cut by
  one (`TabShrunk`, `TabGrown`), so all rounds end at a place that depends on the room
  alone and not on where the cut was (`TabRefresh`).
- The windows: `PollsTypesCorrect`, `FormsTypesCorrect`, `FormStepsHold`,
  `TablesTypesCorrect`, `TableStepsHold`. A step of `MCForms` or `MCTables` is a step of
  one page that leaves the others alone (`WindowForms`, `WindowTables`), so the
  window implements each page's specification and inherits its theorems.

All invariants and all step properties that the runs check are thus stated by a
theorem. Where the prover has no induction over data, the lemmas go by a smallest
counterexample (`NatMin`, from the library's well-founded order on the naturals):
`SeqRemoveFirst` for the first place of an element, `SameRounds` for what the
recursive functions `ShrinkAll` and `GrowAll` of `Tabs` return after each round.

Only model-checked: everything about liveness (`JobsSettle`, `WorkersReturn`,
`EventsHandled`, `Reported`, `CatchesUp`, `ChangesCome`), which is out of reach of
the prover, as is that an action is enabled; and the expected violations, with
the further disagreements. The modules declare no recursive operator.

## 5. Not modelled, and the plan

Next, in this order:

1. `EventLoop`: the scheduler's event sources and lookat queues
   (`BSSched/EventQueue.pm`, `BSSched/Lookat.pm`), delayed and retried events,
   against an abstract "every changed repository is checked after its last
   change". Runs: 3 repositories with a chain of dependencies. Theorem: what was
   changed since its last check is in a queue or in an event file.
2. `BsRequest`: state machine of requests and reviews of the Rails application,
   with concurrent reviewers and the superseding of requests. Theorems: an
   accepted request had no open review; terminal states are kept.
3. `SourceService`: revisions, service marks and the service dispatcher, on top of
   `Runner`'s guarantees (`EventKept`, `ChildLimits`), with `limitinprogress`.
4. `Publish`: the publisher's `nofork` modes, its locks and the re-publishing of
   what changed while it was being published.
5. A refinement of `Runner` to an abstract event store (an event is handled at
   least once after it was written), and the composition of `Runner` with the
   signer's part of `BuildJobs`.

Of the web interface, left out: the popover of a request's actions and the
dialog for reports (forms of one request, without a list or a second actor),
navigation and menus, previews, `project_monitor.js`, `datatables.js`,
`project.js` and `requests_table.js` (configuration of a table library),
`toggleTabs`, searching and replacing in the editor's toolbar (no page offers
it), the tokenizers of `cm2/mode`, layout, colours and tooltips.

Left out for good: the building of packages, signing and publishing as I/O, the
dependency solver and the load model of the dispatcher (data, not control), the
views and forms of the Rails application as far as no script depends on them,
packaging and documentation.
