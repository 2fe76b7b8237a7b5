------------------------------- MODULE LiveLog -------------------------------
(***************************************************************************)
(* The live build log of the web interface: live_build_log.js in the       *)
(* browser, the script build_log_controller.rb answers with, and the log   *)
(* of the build, which grows at the worker and is cut and moved when the   *)
(* build ends.                                                             *)
(*                                                                         *)
(* The page polls: a request carries the offset of the text shown so far,  *)
(* its answer is a script that appends a chunk, moves the offset and sets  *)
(* a timer of two seconds for the next request.  Several such chains run   *)
(* side by side if the user starts again while a timer is pending.         *)
(***************************************************************************)
EXTENDS Integers, Sequences, FiniteSets

CONSTANTS
  Slots,      \* requests that can be under way at the same time
  NoSlot,
  MaxSize,    \* bound on the size of the log
  MaxChunk,   \* @maxsize: the largest chunk of one answer
  MaxStarts,  \* bound on the user's clicks on "Start refresh"
  MaxTrouble  \* bound on timeouts and errors

ASSUME LiveLogAssumption ==
  /\ NoSlot \notin Slots
  /\ MaxSize \in Nat /\ MaxChunk \in Nat \ {0} /\ MaxStarts \in Nat /\ MaxTrouble \in Nat

VARIABLES
  code, size,  \* of the build: its status, the bytes of its log
  req,         \* the requests under way
  tracked,     \* ajaxRequest: the request sent last
  timers,      \* timers set and not expired
  auto,        \* autoRefresh
  offset,
  finished,
  page,        \* indicator, button and abort link
  shown,       \* the chunks in #log-space
  lastScroll,  \* BOOLEAN: it is set
  notified,    \* browser notifications shown, to a user who granted them
  starts, trouble,
  overlap,     \* history: the user started again while a timer was pending
  garbled      \* history: an answer was no valid script

build   == <<code, size>>
bounds  == <<starts, trouble>>
logHistory == <<overlap, garbled>>
logVars == <<code, size, req, tracked, timers, auto, offset, finished, page, shown,
             lastScroll, notified, starts, trouble, overlap, garbled>>

-----------------------------------------------------------------------------
Codes  == {"building", "signing", "final"}
Chunk  == [start: Nat, end: Nat, next: Nat]
Req    == [pc: {"none", "sent", "status", "size", "answered"}, initial: BOOLEAN, off: Nat,
           fin: BOOLEAN, size: Nat, script: {"none", "append", "finish", "garbled"},
           chunk: Chunk]
Page   == [indicator: {"running", "paused", "result"}, button: {"start", "stop", "none"},
           abort: BOOLEAN]

NoChunk(off) == [start |-> off, end |-> off, next |-> off]
Idle == [pc |-> "none", initial |-> FALSE, off |-> 0, fin |-> FALSE, size |-> 0,
         script |-> "none", chunk |-> NoChunk(0)]
LogSent(off, initial) == [Idle EXCEPT !.pc = "sent", !.off = off, !.initial = initial]

Busy(r)  == req[r].pc # "none"
Polling  == timers > 0 \/ \E r \in Slots : Busy(r)

LogInit ==
  /\ code \in {"building", "final"} /\ size \in 0..MaxSize
  /\ tracked \in Slots
  /\ req = [s \in Slots |-> IF s = tracked THEN LogSent(0, TRUE) ELSE Idle]
  /\ auto = TRUE /\ offset = 0 /\ finished = FALSE /\ timers = 0
  /\ page = [indicator |-> "running", button |-> "stop", abort |-> FALSE]
  /\ shown = <<>> /\ lastScroll = FALSE
  /\ notified = 0
  /\ starts = 0 /\ trouble = 0 /\ overlap = FALSE /\ garbled = FALSE

-----------------------------------------------------------------------------
(* The build.                                                               *)

page_vars == <<req, tracked, timers, auto, offset, finished, page, shown, lastScroll,
               notified, bounds, logHistory>>

LogGrows ==
  /\ code = "building" /\ size < MaxSize
  /\ size' = size + 1
  /\ UNCHANGED <<code, page_vars>>

\* the result is sent: build compare may have cut the log
BuildEnds ==
  /\ code = "building"
  /\ code' = "signing" /\ size' \in 0..size
  /\ UNCHANGED page_vars

BuildIsFinal ==
  /\ code = "signing"
  /\ code' = "final"
  /\ UNCHANGED <<size, page_vars>>

-----------------------------------------------------------------------------
(* The answer: the status, the size and the chunk are read one after the    *)
(* other, by three requests of the web server to the backend.               *)

Answering(r, q) ==
  /\ req' = [req EXCEPT ![r] = q]
  /\ UNCHANGED <<build, tracked, timers, auto, offset, finished, page, shown, lastScroll,
                 notified, starts, logHistory>>

GetStatus(r) ==
  /\ req[r].pc = "sent"
  /\ Answering(r, [req[r] EXCEPT !.pc = "status", !.fin = (code = "final")])
  /\ UNCHANGED trouble

GetSize(r) ==
  /\ req[r].pc = "status"
  /\ Answering(r, [req[r] EXCEPT !.pc = "size", !.size = size])
  /\ UNCHANGED trouble

AtMost(a, b) == IF a <= b THEN a ELSE b

\* the first request starts at the most recent part of a long or final log
Recent(q) == q.initial /\ (q.fin \/ q.size >= MaxChunk)
ChunkStart(q) == IF Recent(q) THEN q.size - AtMost(q.size, MaxChunk) ELSE q.off
ChunkEnd(q)   == IF Recent(q) THEN q.size ELSE q.off + MaxChunk

\* Mutant: the end asked for, which may lie behind the end of the log.
NextOffsetAtEnd(q) == ChunkEnd(q)
NextOffset(q) == AtMost(ChunkEnd(q), q.size)
\* An answer is one of the scripts of update_build_log.js.haml:6-18.  The one for
\* @errors (lines 1-5) is of no answer: nothing the controller runs sets it.
Script(q, s) == IF q.fin THEN "finish" ELSE s
LogAnswered(q, s, c) == [Idle EXCEPT !.pc = "answered", !.initial = q.initial,
                                  !.script = Script(q, s), !.chunk = c]

GetChunk(r) ==
  LET q == req[r] IN
  /\ q.pc = "size"
  /\ UNCHANGED trouble
  /\ \/ /\ ChunkStart(q) <= size
        /\ Answering(r, LogAnswered(q, "append",
                          [start |-> ChunkStart(q), end |-> AtMost(ChunkEnd(q), size),
                           next  |-> NextOffset(q)]))
     \/ /\ ChunkStart(q) > size /\ code = "building"    \* "Logfile is not that big"
        /\ Answering(r, LogAnswered(q, "append", NoChunk(q.off)))
     \/ /\ ChunkStart(q) > size /\ code # "building"    \* "start out of range"
        /\ Answering(r, LogAnswered(q, "garbled", NoChunk(q.off)))

AnswerTimesOut(r) ==
  /\ req[r].pc \in {"sent", "status", "size"} /\ trouble < MaxTrouble
  /\ trouble' = trouble + 1
  /\ Answering(r, LogAnswered(req[r], "append", NoChunk(req[r].off)))

\* another error of the backend: no log, and the build counts as finished
BackendError(r) ==
  /\ req[r].pc \in {"sent", "status", "size"} /\ trouble < MaxTrouble
  /\ trouble' = trouble + 1
  /\ Answering(r, LogAnswered([req[r] EXCEPT !.fin = TRUE], "finish", NoChunk(req[r].off)))

-----------------------------------------------------------------------------
(* The page.                                                                *)

\* stopAjaxRequest on requests rs, of which only the one sent last is known
Aborted(rs) == [s \in Slots |-> IF s = tracked THEN Idle ELSE rs[s]]

\* Mutant: autoRefresh set.
StopRequest(rs) ==
  /\ req' = Aborted(rs) /\ tracked' = NoSlot
  /\ UNCHANGED auto

\* stop, with the requests rs
Stop(rs) ==
  /\ auto' = FALSE
  /\ req' = Aborted(rs) /\ tracked' = NoSlot

Paused(p) == [p EXCEPT !.indicator = "paused", !.button = "start"]

\* Mutant: initial set.
LoadRecent(r) ==
  /\ ~Busy(r)
  /\ req' = [req EXCEPT ![r] = LogSent(offset, TRUE)]
  /\ tracked' = r

\* loadContent
LoadContent(r) ==
  /\ ~Busy(r)
  /\ req' = [req EXCEPT ![r] = LogSent(offset, FALSE)]
  /\ tracked' = r

StartClicked(r) ==
  /\ page.button = "start" /\ ~finished /\ starts < MaxStarts
  /\ LoadContent(r)
  /\ auto' = TRUE /\ lastScroll' = FALSE
  /\ page' = [page EXCEPT !.indicator = "running", !.button = "stop"]
  /\ starts' = starts + 1 /\ overlap' = (overlap \/ timers > 0)
  /\ UNCHANGED <<build, timers, offset, finished, shown, notified, trouble,
                 garbled>>

StopClicked ==
  /\ page.button = "stop"
  /\ Stop(req)
  /\ page' = Paused(page)
  /\ UNCHANGED <<build, timers, offset, finished, shown, lastScroll, notified, bounds,
                 logHistory>>

TimerExpires ==
  /\ timers > 0
  /\ timers' = timers - 1
  /\ IF auto THEN \E r \in Slots : LoadContent(r) ELSE UNCHANGED <<req, tracked>>
  /\ UNCHANGED <<build, auto, offset, finished, page, shown, lastScroll, notified,
                 bounds, logHistory>>

\* autoScroll at the end of a script: it stops if the user scrolled down from
\* where it scrolled to before
AutoScroll(rs, p) ==
  \/ /\ lastScroll
     /\ Stop(rs) /\ page' = Paused(p)
     /\ UNCHANGED lastScroll
  \/ /\ req' = rs /\ page' = p
     /\ lastScroll' = TRUE
     /\ UNCHANGED <<auto, tracked>>

\* Mutant: an empty chunk ends the polling.
AppendUnlessEmpty(r) ==
  LET c == req[r].chunk IN
  /\ req[r].pc = "answered" /\ req[r].script = "append"
  /\ shown' = IF c.start < c.end THEN Append(shown, c) ELSE shown
  /\ offset' = c.next
  /\ timers' = IF c.start < c.end THEN timers + 1 ELSE timers
  /\ AutoScroll([req EXCEPT ![r] = Idle], [page EXCEPT !.abort = TRUE])
  /\ UNCHANGED <<build, finished, notified, bounds, logHistory>>

AppendChunk(r) ==
  LET c == req[r].chunk IN
  /\ req[r].pc = "answered" /\ req[r].script = "append"
  /\ shown' = IF c.start < c.end THEN Append(shown, c) ELSE shown
  /\ offset' = c.next /\ timers' = timers + 1
  /\ AutoScroll([req EXCEPT ![r] = Idle], [page EXCEPT !.abort = TRUE])
  /\ UNCHANGED <<build, finished, notified, bounds, logHistory>>

\* finish stops, hides both buttons and the abort link; autoScroll comes after it
Finish(r) ==
  LET q == req[r]
      c == q.chunk
      p == [indicator |-> "result", button |-> "none", abort |-> FALSE]
  IN
  /\ q.pc = "answered" /\ q.script = "finish"
  /\ \/ /\ q.initial
        /\ shown' = IF c.start < c.end THEN <<c>> ELSE <<>>
        /\ UNCHANGED notified
     \/ /\ ~q.initial
        /\ notified' = notified + 1
        /\ UNCHANGED shown
  /\ finished' = TRUE
  /\ Stop([req EXCEPT ![r] = Idle])
  /\ \/ lastScroll /\ page' = Paused(p) /\ UNCHANGED lastScroll
     \/ page' = p /\ lastScroll' = TRUE
  /\ UNCHANGED <<build, timers, offset, bounds, logHistory>>

\* "liveLog.offset = ;" is no script: none of it is executed, nobody is told
Garbled(r) ==
  /\ req[r].pc = "answered" /\ req[r].script = "garbled"
  /\ req' = [req EXCEPT ![r] = Idle] /\ garbled' = TRUE
  /\ UNCHANGED <<build, tracked, timers, auto, offset, finished, page, shown, lastScroll,
                 notified, bounds, overlap>>

RequestFails(r) ==
  /\ Busy(r) /\ trouble < MaxTrouble
  /\ trouble' = trouble + 1
  /\ Stop([req EXCEPT ![r] = Idle])
  /\ page' = Paused(page)
  /\ UNCHANGED <<build, timers, offset, finished, shown, lastScroll, notified, starts,
                 logHistory>>

Answer(r) == GetStatus(r) \/ GetSize(r) \/ GetChunk(r)
Execute(r) == AppendChunk(r) \/ Finish(r) \/ Garbled(r)

LogNext ==
  \/ LogGrows \/ BuildEnds \/ BuildIsFinal
  \/ \E r \in Slots : \/ GetStatus(r) \/ GetSize(r) \/ GetChunk(r)
                      \/ AnswerTimesOut(r) \/ BackendError(r)
                      \/ StartClicked(r) \/ AppendChunk(r) \/ Finish(r) \/ Garbled(r)
                      \/ RequestFails(r)
  \/ StopClicked \/ TimerExpires

LogSpec == LogInit /\ [][LogNext]_logVars

\* the servers answer, the browser executes the answer and lets timers expire
LogFairness ==
  /\ \A r \in Slots : WF_logVars(Answer(r)) /\ WF_logVars(Execute(r))
  /\ WF_logVars(TimerExpires)
LogFairSpec == LogSpec /\ LogFairness

-----------------------------------------------------------------------------
(* Properties.                                                              *)

\* The type invariant of the page, the requests and the build.
LogTypeOK ==
  /\ code \in Codes /\ size \in 0..MaxSize
  /\ req \in [Slots -> Req] /\ tracked \in Slots \cup {NoSlot}
  /\ timers \in Nat /\ offset \in Nat
  /\ auto \in BOOLEAN /\ finished \in BOOLEAN /\ page \in Page
  /\ shown \in Seq(Chunk) /\ lastScroll \in BOOLEAN
  /\ notified \in Nat
  /\ starts \in 0..MaxStarts /\ trouble \in 0..MaxTrouble
  /\ overlap \in BOOLEAN /\ garbled \in BOOLEAN

\* No part of the log is skipped: a chunk begins where the text shown before it
\* ends, or earlier; timeouts, stops and restarts included, with any number of
\* chains of requests.
NothingSkipped ==
  \A i \in 1..Len(shown) :
    i > 1 => \E j \in 1..(i - 1) : shown[j].end >= shown[i].start

\* A chunk continues exactly at the offset the one before it set, so text is
\* shown twice only if it was written between the size and the chunk being
\* read, unless two chains run side by side.
ShownInOrder ==
  ~overlap => \A i \in 1..Len(shown) : i > 1 => shown[i].start = shown[i - 1].next

\* A finished page is at rest: with one chain nothing is under way, no late
\* answer shows the abort link again, and the user is notified once.
EndIsFinal ==
  ~overlap => /\ finished => ~Polling /\ ~page.abort
              /\ notified <= 1

\* A page that says "Running..." is waiting for an answer or a timer, unless
\* an answer was no script.
RunningPolls ==
  page.indicator = "running" /\ ~garbled => Polling

\* build_log_controller.rb:51, "probably build compare has cut log and offset
\* is wrong, reset offset": a page that says "Running..." goes on polling,
\* also after the log was cut.
CutLogResets ==
  page.indicator = "running" => Polling

\* The end of the build is reported to a user who lets the page refresh.
Reported ==
  (code = "final") ~> (finished \/ ~auto \/ garbled)

-----------------------------------------------------------------------------
(* The inductive invariant behind NothingSkipped, ShownInOrder, EndIsFinal  *)
(* and RunningPolls.                                                        *)

Past(v)    == code # "building" /\ v > size
Seen(v)    == v = 0 \/ \E j \in 1..Len(shown) : shown[j].end >= v
Reached(v) == Seen(v) \/ Past(v)
Reading(r) == req[r].pc \in {"sent", "status", "size"}
Appends(r) == req[r].pc = "answered" /\ req[r].script = "append"

\* who is running refreshes
AutoRuns ==
  /\ page.indicator = "running" => auto
  /\ page.button = "start" => ~auto

\* the first request has come back before there is another one
FirstAlone ==
  \A r \in Slots : Busy(r) /\ req[r].initial =>
    /\ \A s \in Slots : Busy(s) => s = r
    /\ tracked = r /\ timers = 0 /\ shown = <<>> /\ offset = 0 /\ page.button = "stop"

\* a request reads from where the text shown has reached to, or past the end of
\* a log that was cut
ReadsReached ==
  /\ Reached(offset)
  /\ \A r \in Slots : Reading(r) => Reached(req[r].off)
  /\ \A r \in Slots : req[r].pc = "size" /\ code = "building" => req[r].size <= size
  /\ \A r \in Slots : Appends(r) =>
       LET c == req[r].chunk IN
       /\ c.start <= c.end
       /\ c.start < c.end => /\ req[r].initial \/ Seen(c.start)
                             /\ c.next <= c.end \/ Past(c.next)
       /\ c.start = c.end => Reached(c.next)

\* one chain: a timer, or the request sent last, or nothing
OneChain ==
  ~overlap =>
    /\ timers <= 1
    /\ \A r \in Slots : Busy(r) => tracked = r /\ timers = 0 /\ auto
    /\ finished => timers = 0 /\ ~auto /\ ~page.abort
    /\ notified <= 1 /\ (~finished => notified = 0)

\* and it goes on where the last chunk ended
GoesOn ==
  ~overlap =>
    /\ code = "building" => offset <= size
    /\ shown # <<>> /\ ~finished => shown[Len(shown)].next = offset \/ Past(offset)
    /\ \A r \in Slots : Reading(r) => req[r].off = offset
    /\ \A r \in Slots : req[r].pc = "size" => offset <= req[r].size \/ Past(offset)
    /\ \A r \in Slots : Appends(r) =>
         LET c == req[r].chunk IN
         /\ code = "building" => c.next <= size
         /\ c.start < c.end /\ shown # <<>> => c.start = shown[Len(shown)].next
         /\ c.start = c.end => c.next = offset \/ Past(c.next)

IInv == AutoRuns /\ FirstAlone /\ ReadsReached /\ OneChain /\ GoesOn
=============================================================================
