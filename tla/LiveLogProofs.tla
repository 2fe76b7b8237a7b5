----------------------------- MODULE LiveLogProofs ----------------------------
(***************************************************************************)
(* What holds of LiveLog for any number of requests at the same time, any  *)
(* sizes of the log and of a chunk, and any number of starts and failures. *)
(***************************************************************************)
EXTENDS LiveLog, TLAPS

-----------------------------------------------------------------------------
(* Types.                                                                  *)

\* A request that was sent, or is none, is of its type.
LEMMA ReqTypes ==
  /\ Idle \in Req
  /\ \A off \in Nat, i \in BOOLEAN : LogSent(off, i) \in Req
  /\ \A q \in Req, s \in {"append", "finish", "garbled"}, c \in Chunk : LogAnswered(q, s, c) \in Req
  /\ \A off \in Nat : NoChunk(off) \in Chunk
  BY DEF Idle, LogSent, LogAnswered, Script, NoChunk, Req, Chunk

\* What a request reads is a chunk.
LEMMA ChunkTypes ==
  ASSUME NEW q \in Req
  PROVE  /\ ChunkStart(q) \in Nat /\ ChunkEnd(q) \in Nat /\ NextOffset(q) \in Nat
         /\ ChunkStart(q) <= ChunkEnd(q) /\ (ChunkStart(q) <= q.off \/ ChunkStart(q) <= q.size)
  BY LiveLogAssumption DEF ChunkStart, ChunkEnd, NextOffset, Recent, AtMost, Req

\* Initially every variable has its type.
LEMMA TypeInit == LogInit => LogTypeOK
  <1> SUFFICES ASSUME LogInit PROVE LogTypeOK
    OBVIOUS
  <1> USE LiveLogAssumption DEF LogInit
  <1>1. req \in [Slots -> Req]
    BY ReqTypes
  <1>2. page \in Page /\ code \in Codes
    BY DEF Page, Codes
  <1>3. shown \in Seq(Chunk)
    OBVIOUS
  <1>4. auto \in BOOLEAN /\ finished \in BOOLEAN /\ lastScroll \in BOOLEAN
        /\ overlap \in BOOLEAN /\ garbled \in BOOLEAN
    OBVIOUS
  <1>5. size \in 0..MaxSize /\ tracked \in Slots \cup {NoSlot} /\ timers \in Nat /\ offset \in Nat
        /\ notified \in Nat /\ starts \in 0..MaxStarts /\ trouble \in 0..MaxTrouble
    OBVIOUS
  <1> QED BY <1>1, <1>2, <1>3, <1>4, <1>5 DEF LogTypeOK

\* Every step keeps the types.
LEMMA TypeStep == LogTypeOK /\ [LogNext]_logVars => LogTypeOK'
  <1> SUFFICES ASSUME LogTypeOK, [LogNext]_logVars PROVE LogTypeOK'
    OBVIOUS
  <1> USE LiveLogAssumption DEF LogTypeOK, build, bounds, logHistory, page_vars
  <1>1. CASE LogGrows
    BY <1>1 DEF LogGrows, Codes
  <1>2. CASE BuildEnds
    BY <1>2 DEF BuildEnds, Codes
  <1>3. CASE BuildIsFinal
    BY <1>3 DEF BuildIsFinal, Codes
  <1>4. ASSUME NEW r \in Slots, NEW q \in Req, Answering(r, q), trouble' \in 0..MaxTrouble
        PROVE  LogTypeOK'
    BY <1>4 DEF Answering
  <1>5. ASSUME NEW r \in Slots, GetStatus(r) PROVE LogTypeOK'
    <2>1. [req[r] EXCEPT !.pc = "status", !.fin = (code = "final")] \in Req
      BY DEF Req
    <2> QED BY <2>1, <1>4, <1>5 DEF GetStatus
  <1>6. ASSUME NEW r \in Slots, GetSize(r) PROVE LogTypeOK'
    <2> DEFINE q == req[r]
    <2>1. q \in Req /\ size \in Nat
      OBVIOUS
    <2>2. [q EXCEPT !.pc = "size", !.size = size] \in Req
      <3> HIDE DEF q
      <3> QED BY <2>1 DEF Req
    <2> QED BY <2>2, <1>4, <1>6 DEF GetSize
  <1>7. ASSUME NEW r \in Slots, GetChunk(r) PROVE LogTypeOK'
    <2> DEFINE q == req[r]
               c == [start |-> ChunkStart(q), end |-> AtMost(ChunkEnd(q), size), next |-> NextOffset(q)]
    <2>1. q \in Req /\ q.off \in Nat
      BY DEF Req
    <2>2. c \in Chunk
      BY <2>1, ChunkTypes DEF Chunk, AtMost
    <2>3. LogAnswered(q, "append", c) \in Req /\ LogAnswered(q, "append", NoChunk(q.off)) \in Req
          /\ LogAnswered(q, "garbled", NoChunk(q.off)) \in Req
      BY <2>1, <2>2, ReqTypes
    <2> QED BY <2>3, <1>4, <1>7 DEF GetChunk
  <1>8. ASSUME NEW r \in Slots, AnswerTimesOut(r) PROVE LogTypeOK'
    <2>1. LogAnswered(req[r], "append", NoChunk(req[r].off)) \in Req
      BY ReqTypes DEF Req
    <2> QED BY <2>1, <1>4, <1>8 DEF AnswerTimesOut
  <1>9. ASSUME NEW r \in Slots, BackendError(r) PROVE LogTypeOK'
    <2>1. [req[r] EXCEPT !.fin = TRUE] \in Req /\ req[r].off \in Nat
      BY DEF Req
    <2>2. LogAnswered([req[r] EXCEPT !.fin = TRUE], "finish", NoChunk(req[r].off)) \in Req
      BY <2>1, ReqTypes
    <2> QED BY <2>2, <1>4, <1>9 DEF BackendError
  <1>10. \A rs \in [Slots -> Req] : Aborted(rs) \in [Slots -> Req]
    BY ReqTypes DEF Aborted
  <1>11. \A p \in Page : Paused(p) \in Page
    BY DEF Paused, Page
  <1>12. ASSUME NEW r \in Slots, LoadContent(r) PROVE req' \in [Slots -> Req] /\ tracked' \in Slots
    BY <1>12, ReqTypes DEF LoadContent
  <1>13. ASSUME NEW r \in Slots, StartClicked(r) PROVE LogTypeOK'
    <2>1. req' \in [Slots -> Req] /\ tracked' \in Slots \cup {NoSlot}
      BY <1>13, <1>12 DEF StartClicked
    <2>2. page' \in Page
      BY <1>13 DEF StartClicked, Page
    <2>3. starts' \in 0..MaxStarts /\ timers' \in Nat /\ overlap' \in BOOLEAN
      BY <1>13 DEF StartClicked
    <2> QED BY <2>1, <2>2, <2>3, <1>13 DEF StartClicked
  <1>14. CASE StopClicked
    BY <1>14, <1>10, <1>11 DEF StopClicked, Stop
  <1>15. CASE TimerExpires
    <2>1. req' \in [Slots -> Req] /\ tracked' \in Slots \cup {NoSlot}
      BY <1>15, <1>12 DEF TimerExpires
    <2> QED BY <2>1, <1>15 DEF TimerExpires
  <1>16. \A r \in Slots : [req EXCEPT ![r] = Idle] \in [Slots -> Req] /\ req[r].chunk \in Chunk
    BY ReqTypes DEF Req
  <1>17. ASSUME NEW r \in Slots, AppendChunk(r) PROVE LogTypeOK'
    <2> DEFINE rs == [req EXCEPT ![r] = Idle]
               p  == [page EXCEPT !.abort = TRUE]
    <2>1. p \in Page /\ rs \in [Slots -> Req] /\ req[r].chunk \in Chunk
      BY <1>16 DEF Page
    <2>2. req' \in [Slots -> Req] /\ page' \in Page /\ auto' \in BOOLEAN
          /\ tracked' \in Slots \cup {NoSlot} /\ lastScroll' \in BOOLEAN
      BY <2>1, <1>10, <1>11, <1>17 DEF AppendChunk, AutoScroll, Stop
    <2> DEFINE c == req[r].chunk
    <2>3. /\ offset' = c.next /\ timers' = timers + 1
          /\ shown' = shown \/ shown' = Append(shown, c)
      BY <1>17 DEF AppendChunk
    <2>4. c \in Chunk
      BY <2>1
    <2>5. offset' \in Nat /\ timers' \in Nat /\ shown' \in Seq(Chunk)
      <3> HIDE DEF c
      <3>1. c.next \in Nat
        BY <2>4 DEF Chunk
      <3>2. shown \in Seq(Chunk) /\ Append(shown, c) \in Seq(Chunk)
        BY <2>4 DEF LogTypeOK
      <3> QED BY <2>3, <3>1, <3>2
    <2> QED BY <2>2, <2>5, <1>17 DEF AppendChunk
  <1>18. ASSUME NEW r \in Slots, Finish(r) PROVE LogTypeOK'
    <2> DEFINE rs == [req EXCEPT ![r] = Idle]
               p  == [indicator |-> "result", button |-> "none", abort |-> FALSE]
    <2>1. p \in Page /\ rs \in [Slots -> Req] /\ req[r].chunk \in Chunk
      BY <1>16 DEF Page
    <2>2. req' \in [Slots -> Req] /\ auto' \in BOOLEAN /\ tracked' \in Slots \cup {NoSlot}
      BY <2>1, <1>10, <1>18 DEF Finish, Stop
    <2>3. page' \in Page /\ lastScroll' \in BOOLEAN
      BY <2>1, <1>11, <1>18 DEF Finish
    <2>5. shown' = shown \/ shown' = <<>> \/ shown' = <<req[r].chunk>>
      BY <1>18 DEF Finish
    <2>6. shown' \in Seq(Chunk)
      <3> DEFINE c == req[r].chunk
      <3>1. c \in Chunk /\ <<c>> \in Seq(Chunk) /\ <<>> \in Seq(Chunk)
        <4> HIDE DEF c
        <4> QED BY <2>1 DEF c
      <3> QED BY <2>5, <3>1
    <2>7. notified' \in Nat
      BY <1>18 DEF Finish
    <2>4. shown' \in Seq(Chunk) /\ notified' \in Nat
      BY <2>6, <2>7
    <2> QED BY <2>2, <2>3, <2>4, <1>18 DEF Finish
  <1>19. ASSUME NEW r \in Slots, Garbled(r) PROVE LogTypeOK'
    BY <1>19, <1>16 DEF Garbled
  <1>20. ASSUME NEW r \in Slots, RequestFails(r) PROVE LogTypeOK'
    <2> DEFINE rs == [req EXCEPT ![r] = Idle]
    <2>1. req' \in [Slots -> Req] /\ tracked' \in Slots \cup {NoSlot} /\ auto' \in BOOLEAN
      BY <1>20, <1>10, <1>16 DEF RequestFails, Stop
    <2>2. page' \in Page
      BY <1>20, <1>11 DEF RequestFails
    <2>3. trouble' \in 0..MaxTrouble
      BY <1>20 DEF RequestFails
    <2> QED BY <2>1, <2>2, <2>3, <1>20 DEF RequestFails
  <1>21. CASE UNCHANGED logVars
    BY <1>21 DEF logVars
  <1> QED BY <1>1, <1>2, <1>3, <1>5, <1>6, <1>7, <1>8, <1>9, <1>13, <1>14, <1>15, <1>17, <1>18,
    <1>19, <1>20, <1>21 DEF LogNext

\* Every variable of the page, the requests and the build keeps its type.
THEOREM TypeCorrect == LogSpec => []LogTypeOK
  BY TypeInit, TypeStep, PTL DEF LogSpec

-----------------------------------------------------------------------------
(* What the actions do to the requests and the page, field by field.       *)

\* The fields of a request that is sent, answered or gone.
LEMMA ReqFields ==
  /\ Idle.pc = "none" /\ Idle.initial = FALSE
  /\ \A off \in Nat, i \in BOOLEAN :
       LogSent(off, i).pc = "sent" /\ LogSent(off, i).off = off /\ LogSent(off, i).initial = i
  /\ \A q \in Req, s \in {"append", "finish", "garbled"}, c \in Chunk :
       LET a == LogAnswered(q, s, c) IN
       a.pc = "answered" /\ a.initial = q.initial /\ a.script = Script(q, s) /\ a.chunk = c
  /\ \A off \in Nat : NoChunk(off).start = off /\ NoChunk(off).end = off /\ NoChunk(off).next = off
  BY DEF Idle, LogSent, LogAnswered, NoChunk

\* The fields of a request that goes on, and of the page.
LEMMA EditedFields ==
  /\ \A q \in Req, b \in BOOLEAN :
       LET a == [q EXCEPT !.pc = "status", !.fin = b] IN
       a.pc = "status" /\ a.off = q.off /\ a.initial = q.initial
  /\ \A q \in Req, n \in Nat :
       LET a == [q EXCEPT !.pc = "size", !.size = n] IN
       a.pc = "size" /\ a.off = q.off /\ a.initial = q.initial /\ a.size = n
  /\ \A p \in Page : /\ Paused(p).indicator = "paused" /\ Paused(p).button = "start"
                     /\ Paused(p).abort = p.abort
  BY DEF Req, Page, Paused

Others(r) == \A s \in Slots \ {r} : req'[s] = req[s]

\* The status is read.
LEMMA StatusEffect ==
  ASSUME LogTypeOK, NEW r \in Slots, GetStatus(r)
  PROVE  /\ req[r].pc = "sent" /\ req'[r].pc = "status" /\ Others(r)
         /\ req'[r].off = req[r].off /\ req'[r].initial = req[r].initial
  <1> DEFINE q == req[r]
             a == [q EXCEPT !.pc = "status", !.fin = (code = "final")]
  <1>1. q \in Req /\ (code = "final") \in BOOLEAN
    BY DEF LogTypeOK
  <1>2. q.pc = "sent" /\ req' = [req EXCEPT ![r] = a]
    BY DEF GetStatus, Answering
  <1>3. a.pc = "status" /\ a.off = q.off /\ a.initial = q.initial
    <2> HIDE DEF q
    <2> QED BY <1>1, EditedFields
  <1> QED BY <1>2, <1>3 DEF LogTypeOK, Others

\* The size is read.
LEMMA SizeEffect ==
  ASSUME LogTypeOK, NEW r \in Slots, GetSize(r)
  PROVE  /\ req[r].pc = "status" /\ req'[r].pc = "size" /\ req'[r].size = size /\ Others(r)
         /\ req'[r].off = req[r].off /\ req'[r].initial = req[r].initial
  <1> DEFINE q == req[r]
             a == [q EXCEPT !.pc = "size", !.size = size]
  <1>1. q \in Req /\ size \in Nat
    BY LiveLogAssumption DEF LogTypeOK
  <1>2. q.pc = "status" /\ req' = [req EXCEPT ![r] = a]
    BY DEF GetSize, Answering
  <1>3. a.pc = "size" /\ a.off = q.off /\ a.initial = q.initial /\ a.size = size
    <2> HIDE DEF q
    <2> QED BY <1>1, EditedFields
  <1> QED BY <1>2, <1>3 DEF LogTypeOK, Others

\* The answer has its chunk, or none, or is not for the page to append.
LEMMA ChunkEffect ==
  ASSUME LogTypeOK, NEW r \in Slots, GetChunk(r)
  PROVE  /\ req[r].pc = "size" /\ req'[r].pc = "answered" /\ Others(r)
         /\ req'[r].initial = req[r].initial
         /\ req'[r].script = "append" =>
              LET q == req[r]
                  c == req'[r].chunk
              IN \/ /\ ChunkStart(q) <= size
                    /\ c.start = ChunkStart(q) /\ c.end = AtMost(ChunkEnd(q), size)
                    /\ c.next = NextOffset(q)
                 \/ /\ code = "building" /\ c.start = q.off /\ c.end = q.off /\ c.next = q.off
  <1> DEFINE q == req[r]
             c == [start |-> ChunkStart(q), end |-> AtMost(ChunkEnd(q), size),
                   next |-> NextOffset(q)]
  <1>1. q \in Req /\ q.off \in Nat /\ size \in Nat
    BY LiveLogAssumption DEF LogTypeOK, Req
  <1>2. c \in Chunk /\ NoChunk(q.off) \in Chunk
    BY <1>1, ChunkTypes, ReqTypes DEF Chunk, AtMost
  <1>3. q.pc = "size"
    BY DEF GetChunk
  <1>4. CASE ChunkStart(q) <= size /\ req' = [req EXCEPT ![r] = LogAnswered(q, "append", c)]
    <2>1. req'[r] = LogAnswered(q, "append", c) /\ Others(r)
      BY <1>4 DEF LogTypeOK, Others
    <2>2. req'[r].pc = "answered" /\ req'[r].initial = q.initial /\ req'[r].chunk = c
      BY <1>1, <1>2, <2>1, ReqFields
    <2> QED BY <1>3, <1>4, <2>1, <2>2
  <1>5. CASE code = "building" /\ req' = [req EXCEPT ![r] = LogAnswered(q, "append", NoChunk(q.off))]
    <2>1. req'[r] = LogAnswered(q, "append", NoChunk(q.off)) /\ Others(r)
      BY <1>5 DEF LogTypeOK, Others
    <2>2. req'[r].pc = "answered" /\ req'[r].initial = q.initial /\ req'[r].chunk = NoChunk(q.off)
      BY <1>1, <1>2, <2>1, ReqFields
    <2> QED BY <1>1, <1>3, <1>5, <2>1, <2>2, ReqFields
  <1>6. CASE req' = [req EXCEPT ![r] = LogAnswered(q, "garbled", NoChunk(q.off))]
    <2>1. req'[r] = LogAnswered(q, "garbled", NoChunk(q.off)) /\ Others(r)
      BY <1>6 DEF LogTypeOK, Others
    <2>2. req'[r].pc = "answered" /\ req'[r].initial = q.initial /\ req'[r].script = Script(q, "garbled")
      BY <1>1, <1>2, <2>1, ReqFields
    <2> QED BY <1>3, <2>1, <2>2 DEF Script
  <1> QED BY <1>4, <1>5, <1>6 DEF GetChunk, Answering

\* An answer after a timeout, or an error: no text.
LEMMA TroubleEffect ==
  ASSUME LogTypeOK, NEW r \in Slots, AnswerTimesOut(r) \/ BackendError(r)
  PROVE  /\ Reading(r) /\ req'[r].pc = "answered" /\ Others(r)
         /\ req'[r].initial = req[r].initial
         /\ req'[r].script = "append" =>
              LET q == req[r]
                  c == req'[r].chunk
              IN c.start = q.off /\ c.end = q.off /\ c.next = q.off
  <1> DEFINE q == req[r]
             f == [q EXCEPT !.fin = TRUE]
  <1>1. q \in Req /\ q.off \in Nat /\ NoChunk(q.off) \in Chunk
    BY ReqTypes DEF LogTypeOK, Req
  <1>2. f \in Req /\ f.initial = q.initial /\ f.fin
    <2> HIDE DEF q
    <2> QED BY <1>1 DEF Req
  <1>3. CASE AnswerTimesOut(r)
    <2>1. Reading(r) /\ req' = [req EXCEPT ![r] = LogAnswered(q, "append", NoChunk(q.off))]
      BY <1>3 DEF AnswerTimesOut, Answering, Reading
    <2>2. req'[r] = LogAnswered(q, "append", NoChunk(q.off)) /\ Others(r)
      BY <2>1 DEF LogTypeOK, Others
    <2>3. req'[r].pc = "answered" /\ req'[r].initial = q.initial /\ req'[r].chunk = NoChunk(q.off)
      BY <1>1, <2>2, ReqFields
    <2> QED BY <1>1, <2>1, <2>2, <2>3, ReqFields
  <1>4. CASE BackendError(r)
    <2>1. Reading(r) /\ req' = [req EXCEPT ![r] = LogAnswered(f, "finish", NoChunk(q.off))]
      BY <1>4 DEF BackendError, Answering, Reading
    <2>2. req'[r] = LogAnswered(f, "finish", NoChunk(q.off)) /\ Others(r)
      BY <2>1 DEF LogTypeOK, Others
    <2>3. req'[r].pc = "answered" /\ req'[r].initial = q.initial /\ req'[r].script = Script(f, "finish")
      <3> HIDE DEF f, q
      <3> QED BY <1>1, <1>2, <2>2, ReqFields
    <2>4. req'[r].script = "finish"
      <3> HIDE DEF f
      <3> QED BY <2>3 DEF Script
    <2> QED BY <1>2, <2>1, <2>2, <2>3, <2>4
  <1> QED BY <1>3, <1>4

\* A request is sent.
LEMMA LoadEffect ==
  ASSUME LogTypeOK, NEW r \in Slots, LoadContent(r)
  PROVE  /\ ~Busy(r) /\ req'[r].pc = "sent" /\ req'[r].off = offset /\ req'[r].initial = FALSE
         /\ tracked' = r /\ Others(r)
  <1>1. req'[r] = LogSent(offset, FALSE) /\ ~Busy(r) /\ tracked' = r /\ Others(r)
    BY DEF LoadContent, LogTypeOK, Others
  <1>2. offset \in Nat
    BY DEF LogTypeOK
  <1>3. LogSent(offset, FALSE).pc = "sent" /\ LogSent(offset, FALSE).off = offset
    BY <1>2, ReqFields
  <1>4. LogSent(offset, FALSE).initial = FALSE
    BY DEF LogSent, Idle
  <1> QED BY <1>1, <1>3, <1>4

\* The requests after a stop with the requests rs.
LEMMA StopEffect ==
  ASSUME LogTypeOK, NEW rs, Stop(rs)
  PROVE  /\ auto' = FALSE /\ tracked' = NoSlot
         /\ \A s \in Slots : req'[s] = IF s = tracked THEN Idle ELSE rs[s]
  BY DEF Stop, Aborted

\* A request that was answered is gone, and with a stop the one sent last.
LEMMA DoneEffect ==
  ASSUME LogTypeOK, NEW r \in Slots
  PROVE  /\ Garbled(r) => \A s \in Slots : req'[s] = IF s = r THEN Idle ELSE req[s]
         /\ Finish(r) \/ RequestFails(r) =>
              /\ auto' = FALSE
              /\ \A s \in Slots : req'[s] = IF s \in {r, tracked} THEN Idle ELSE req[s]
         /\ AppendChunk(r) =>
              /\ req'[r] = Idle
              /\ \A s \in Slots \ {r} : req'[s] = req[s] \/ (s = tracked /\ req'[s] = Idle)
  <1> DEFINE rs == [req EXCEPT ![r] = Idle]
  <1>1. \A s \in Slots : rs[s] = IF s = r THEN Idle ELSE req[s]
    BY DEF LogTypeOK
  <1>2. Garbled(r) => req' = rs
    BY DEF Garbled
  <1>3. Finish(r) \/ RequestFails(r) => Stop(rs)
    BY DEF Finish, RequestFails
  <1>4. AppendChunk(r) => Stop(rs) \/ req' = rs
    BY DEF AppendChunk, AutoScroll
  <1> HIDE DEF rs
  <1> QED BY <1>1, <1>2, <1>3, <1>4, StopEffect

-----------------------------------------------------------------------------
(* The parts of the inductive invariant, one after the other.              *)

\* Who is running refreshes, after every step.
LEMMA AutoRunsStep ==
  ASSUME LogTypeOK, AutoRuns, [LogNext]_logVars
  PROVE  AutoRuns'
  <1> USE DEF AutoRuns
  <1>1. \A p \in Page : Paused(p).indicator = "paused" /\ Paused(p).button = "start"
    BY EditedFields
  <1>2. page \in Page
    BY DEF LogTypeOK
  <1>3. ASSUME NEW r \in Slots, StartClicked(r) PROVE AutoRuns'
    BY <1>2, <1>3 DEF StartClicked, Page
  <1>4. CASE StopClicked
    BY <1>1, <1>2, <1>4, StopEffect DEF StopClicked
  <1>5. ASSUME NEW r \in Slots, AppendChunk(r) PROVE AutoRuns'
    <2> DEFINE p == [page EXCEPT !.abort = TRUE]
    <2>1. p \in Page /\ p.indicator = page.indicator /\ p.button = page.button
      BY <1>2 DEF Page
    <2>2. \/ auto' = FALSE /\ page' = Paused(p)
          \/ page' = p /\ auto' = auto
      BY <1>5 DEF AppendChunk, AutoScroll, Stop
    <2> HIDE DEF p
    <2> QED BY <1>1, <2>1, <2>2
  <1>6. ASSUME NEW r \in Slots, Finish(r) PROVE AutoRuns'
    <2> DEFINE p == [indicator |-> "result", button |-> "none", abort |-> FALSE]
    <2>1. p \in Page /\ p.indicator = "result"
      BY DEF Page
    <2>2. auto' = FALSE /\ (page' = Paused(p) \/ page' = p)
      BY <1>6 DEF Finish, Stop
    <2> HIDE DEF p
    <2> QED BY <1>1, <2>1, <2>2
  <1>7. ASSUME NEW r \in Slots, RequestFails(r) PROVE AutoRuns'
    BY <1>1, <1>2, <1>7 DEF RequestFails, Stop
  <1>8. CASE UNCHANGED <<page, auto>>
    BY <1>8
  <1>9. \A r \in Slots : GetStatus(r) \/ GetSize(r) \/ GetChunk(r) \/ AnswerTimesOut(r)
                         \/ BackendError(r) \/ Garbled(r) => UNCHANGED <<page, auto>>
    BY DEF GetStatus, GetSize, GetChunk, AnswerTimesOut, BackendError, Garbled, Answering
  <1>10. LogGrows \/ BuildEnds \/ BuildIsFinal \/ TimerExpires \/ UNCHANGED logVars
         => UNCHANGED <<page, auto>>
    BY DEF LogGrows, BuildEnds, BuildIsFinal, TimerExpires, page_vars, logVars
  <1> QED BY <1>3, <1>4, <1>5, <1>6, <1>7, <1>8, <1>9, <1>10 DEF LogNext

\* The actions that leave the page and its requests alone.
LEMMA BuildEffect ==
  ASSUME LogGrows \/ BuildEnds \/ BuildIsFinal \/ UNCHANGED logVars
  PROVE  UNCHANGED <<req, tracked, timers, auto, offset, finished, page, shown, lastScroll,
                     notified, starts, trouble, overlap, garbled>>
  BY DEF LogGrows, BuildEnds, BuildIsFinal, page_vars, logVars, bounds, logHistory

\* What an answer in the making leaves alone.
LEMMA AnsweringEffect ==
  ASSUME NEW r \in Slots,
         GetStatus(r) \/ GetSize(r) \/ GetChunk(r) \/ AnswerTimesOut(r) \/ BackendError(r)
  PROVE  UNCHANGED <<code, size, tracked, timers, auto, offset, finished, page, shown,
                     lastScroll, notified, starts, overlap, garbled>>
  BY DEF GetStatus, GetSize, GetChunk, AnswerTimesOut, BackendError, Answering, build, logHistory

\* The first request has come back before there is another one, after every step.
LEMMA FirstAloneStep ==
  ASSUME LogTypeOK, FirstAlone, [LogNext]_logVars
  PROVE  FirstAlone'
  <1> USE DEF FirstAlone, Busy
  <1>1. CASE LogGrows \/ BuildEnds \/ BuildIsFinal \/ UNCHANGED logVars
    BY <1>1, BuildEffect
  <1>2. ASSUME NEW r \in Slots,
               GetStatus(r) \/ GetSize(r) \/ GetChunk(r) \/ AnswerTimesOut(r) \/ BackendError(r)
        PROVE  FirstAlone'
    <2>1. Busy(r) /\ Others(r) /\ req'[r].initial = req[r].initial
      BY <1>2, StatusEffect, SizeEffect, ChunkEffect, TroubleEffect DEF Reading
    <2> QED BY <1>2, <2>1, AnsweringEffect DEF Others
  <1>3. ASSUME NEW r \in Slots, LoadContent(r), \A s \in Slots : Busy(s) => ~req[s].initial
        PROVE  FirstAlone'
    BY <1>3, LoadEffect DEF Others
  <1>4. ASSUME NEW r \in Slots, StartClicked(r) PROVE FirstAlone'
    BY <1>3, <1>4 DEF StartClicked
  <1>5. CASE TimerExpires
    <2>1. \A s \in Slots : Busy(s) => ~req[s].initial
      BY <1>5 DEF TimerExpires, LogTypeOK
    <2>2. CASE auto
      BY <1>3, <1>5, <2>1, <2>2 DEF TimerExpires
    <2>3. CASE ~auto
      BY <1>5, <2>1, <2>3 DEF TimerExpires
    <2> QED BY <2>2, <2>3
  <1>6. CASE StopClicked
    <2>1. \A s \in Slots : req'[s] = IF s = tracked THEN Idle ELSE req[s]
      BY <1>6, StopEffect DEF StopClicked
    <2> QED BY <2>1, ReqFields
  <1>7. ASSUME NEW r \in Slots, AppendChunk(r) \/ Finish(r) \/ Garbled(r) \/ RequestFails(r)
        PROVE  FirstAlone'
    <2>1. Busy(r)
      BY <1>7 DEF AppendChunk, Finish, Garbled, RequestFails
    <2>2. req'[r] = Idle /\ \A s \in Slots \ {r} : req'[s] = req[s] \/ req'[s] = Idle
      BY <1>7, DoneEffect
    <2>3. \A s \in Slots : ~(req'[s].pc # "none" /\ req'[s].initial)
      BY <2>1, <2>2, ReqFields
    <2> QED BY <2>3
  <1> QED BY <1>1, <1>2, <1>4, <1>5, <1>6, <1>7 DEF LogNext

\* A log that ended keeps its size, and what is past its end is past it for ever.
LEMMA PastStays ==
  ASSUME LogTypeOK, [LogNext]_logVars, NEW v \in Nat, Past(v)
  PROVE  Past(v)'
  <1>1. CASE LogGrows \/ BuildEnds \/ BuildIsFinal
    BY <1>1 DEF LogGrows, BuildEnds, BuildIsFinal, Past
  <1>2. CASE ~(LogGrows \/ BuildEnds \/ BuildIsFinal)
    <2>1. UNCHANGED <<code, size>>
      BY <1>2 DEF LogNext, logVars, build, GetStatus, GetSize, GetChunk, AnswerTimesOut,
        BackendError, Answering, StartClicked, AppendChunk, Finish, Garbled, RequestFails,
        StopClicked, TimerExpires
    <2> QED BY <2>1 DEF Past
  <1> QED BY <1>1, <1>2

\* What was seen stays seen while chunks are appended.
LEMMA SeenStays ==
  ASSUME LogTypeOK, NEW v \in Nat, Seen(v),
         shown' = shown \/ \E c \in Chunk : shown' = Append(shown, c)
  PROVE  Seen(v)'
  <1>1. CASE shown' = shown
    BY <1>1 DEF Seen
  <1>2. ASSUME NEW c \in Chunk, shown' = Append(shown, c) PROVE Seen(v)'
    <2>1. shown \in Seq(Chunk)
      BY DEF LogTypeOK
    <2>2. Len(shown') = Len(shown) + 1 /\ \A j \in 1..Len(shown) : shown'[j] = shown[j]
      BY <1>2, <2>1
    <2> QED BY <2>1, <2>2 DEF Seen
  <1> QED BY <1>1, <1>2

\* A chunk that was appended is seen up to its end.
LEMMA SeenNew ==
  ASSUME LogTypeOK, NEW c \in Chunk, shown' = Append(shown, c), NEW v \in Nat, v <= c.end
  PROVE  Seen(v)'
  <1>1. shown \in Seq(Chunk) /\ c.end \in Nat
    BY DEF LogTypeOK, Chunk
  <1>2. Len(shown') = Len(shown) + 1 /\ shown'[Len(shown) + 1] = c
    BY <1>1
  <1>3. Len(shown) + 1 \in 1..Len(shown')
    BY <1>1, <1>2
  <1> QED BY <1>1, <1>2, <1>3 DEF Seen

\* What is before a place that was seen was seen.
LEMMA SeenBefore ==
  ASSUME LogTypeOK, NEW v \in Nat, NEW w \in Nat, Seen(v), w <= v
  PROVE  Seen(w)
  <1>1. shown \in Seq(Chunk)
    BY DEF LogTypeOK
  <1>2. \A c \in Chunk : c.end \in Nat
    BY DEF Chunk
  <1>3. \A j \in 1..Len(shown) : shown[j].end \in Nat
    BY <1>1, <1>2
  <1> QED BY <1>1, <1>3 DEF Seen

\* The chunk of an answer begins where the text shown has reached to, or is that of
\* the first request, and ends where the next request is to read from.
LEMMA ChunkReached ==
  ASSUME LogTypeOK, NEW q \in Req, Reached(q.off), NEW c \in Chunk,
         ChunkStart(q) <= size, code = "building" => q.size <= size,
         c.start = ChunkStart(q), c.end = AtMost(ChunkEnd(q), size), c.next = NextOffset(q)
  PROVE  /\ c.start <= c.end
         /\ c.start < c.end => (q.initial \/ Seen(c.start)) /\ (c.next <= c.end \/ Past(c.next))
         /\ c.start = c.end => Reached(c.next)
  <1>1. q.off \in Nat /\ q.size \in Nat /\ size \in Nat /\ MaxChunk \in Nat \ {0}
    BY LiveLogAssumption DEF LogTypeOK, Req
  <1>2. c.start \in Nat /\ c.end \in Nat /\ c.next \in Nat
    BY DEF Chunk
  <1>3. CASE Recent(q)
    <2>1. c.start = q.size - AtMost(q.size, MaxChunk) /\ c.end = AtMost(q.size, size)
          /\ c.next = q.size /\ q.initial
      BY <1>1, <1>3 DEF Recent, ChunkStart, ChunkEnd, NextOffset, AtMost
    <2>2. c.start <= c.end
      BY <1>1, <2>1 DEF ChunkStart, AtMost
    <2>3. c.next <= c.end \/ Past(c.next)
      BY <1>1, <2>1 DEF Past, AtMost, LogTypeOK, Codes
    <2>4. c.start = c.end => Seen(c.next) \/ Past(c.next)
      <3>1. CASE q.size <= size
        BY <1>1, <2>1, <3>1 DEF AtMost, Seen
      <3>2. CASE q.size > size
        BY <1>1, <2>1, <3>2 DEF Past
      <3> QED BY <1>1, <3>1, <3>2
    <2> QED BY <2>1, <2>2, <2>3, <2>4 DEF Reached
  <1>4. CASE ~Recent(q)
    <2>1. c.start = q.off /\ c.end = AtMost(q.off + MaxChunk, size)
          /\ c.next = AtMost(q.off + MaxChunk, q.size)
      BY <1>1, <1>4 DEF ChunkStart, ChunkEnd, NextOffset
    <2>2. q.off <= size /\ Seen(q.off)
      BY <1>1, <1>4, <2>1 DEF Reached, Past, ChunkStart
    <2>3. c.start <= c.end
      BY <1>1, <2>1, <2>2 DEF AtMost
    <2>4. c.next <= c.end \/ Past(c.next)
      BY <1>1, <2>1 DEF Past, AtMost
    <2>5. c.start = c.end => c.next <= q.off \/ Past(c.next)
      BY <1>1, <2>1, <2>2 DEF Past, AtMost
    <2>6. c.start = c.end => Reached(c.next)
      BY <1>1, <1>2, <2>2, <2>5, SeenBefore DEF Reached
    <2> QED BY <2>1, <2>2, <2>3, <2>4, <2>6
  <1> QED BY <1>3, <1>4

\* What a request reads, or its answer brings, as ReadsReached has it.
ReadsFrom(r) == /\ Reading(r) => Reached(req[r].off)
                /\ req[r].pc = "size" /\ code = "building" => req[r].size <= size
                /\ Appends(r) =>
                     LET c == req[r].chunk IN
                     /\ c.start <= c.end
                     /\ c.start < c.end => /\ req[r].initial \/ Seen(c.start)
                                           /\ c.next <= c.end \/ Past(c.next)
                     /\ c.start = c.end => Reached(c.next)

\* Requests read from where the text shown has reached to, after every step.
LEMMA ReadsReachedStep ==
  ASSUME LogTypeOK, FirstAlone, ReadsReached, [LogNext]_logVars, LogTypeOK'
  PROVE  ReadsReached'
  <1> SUFFICES Reached(offset)' /\ \A r \in Slots : ReadsFrom(r)'
    BY DEF ReadsReached, ReadsFrom
  <1>1. Reached(offset) /\ \A r \in Slots : ReadsFrom(r)
    BY DEF ReadsReached, ReadsFrom
  <1> DEFINE Chunks == \A c \in Chunk : c.start \in Nat /\ c.end \in Nat /\ c.next \in Nat
  <1>2. Chunks
    BY DEF Chunk
  <1>3. /\ offset \in Nat /\ size \in Nat /\ size' \in Nat /\ \A s \in Slots : req[s] \in Req
        /\ \A q \in Req : q.off \in Nat /\ q.size \in Nat /\ q.chunk \in Chunk
    <2>1. offset \in Nat /\ size \in Nat /\ size' \in Nat /\ \A s \in Slots : req[s] \in Req
      BY LiveLogAssumption DEF LogTypeOK
    <2>2. \A q \in Req : q.off \in Nat /\ q.size \in Nat /\ q.chunk \in Chunk
      BY DEF Req
    <2> QED BY <2>1, <2>2
  <1>4. \A v \in Nat : Past(v) => Past(v)'
    BY PastStays
  <1>5. (code' = "building" => code = "building") /\ (code' = "building" => size <= size')
    <2>1. CASE LogGrows \/ BuildEnds \/ BuildIsFinal
      BY <1>3, <2>1 DEF LogGrows, BuildEnds, BuildIsFinal
    <2>2. CASE ~(LogGrows \/ BuildEnds \/ BuildIsFinal)
      <3>1. UNCHANGED <<code, size>>
        BY <2>2 DEF LogNext, logVars, build, GetStatus, GetSize, GetChunk, AnswerTimesOut,
          BackendError, Answering, StartClicked, AppendChunk, Finish, Garbled, RequestFails,
          StopClicked, TimerExpires
      <3> QED BY <1>3, <3>1
    <2> QED BY <2>1, <2>2
  \* a request that is not touched, or gone, while the text grows
  <1>6. ASSUME NEW s \in Slots, req'[s] = req[s] \/ req'[s] = Idle,
               \A v \in Nat : Seen(v) => Seen(v)'
        PROVE  ReadsFrom(s)'
    <2>1. CASE req'[s] = Idle
      BY <2>1, ReqFields DEF ReadsFrom, Reading, Appends
    <2>2. CASE req'[s] = req[s]
      <3> DEFINE q == req[s]
      <3>1. q \in Req /\ q.off \in Nat /\ q.size \in Nat /\ q.chunk \in Chunk
            /\ q.chunk.start \in Nat /\ q.chunk.end \in Nat /\ q.chunk.next \in Nat
        BY <1>2, <1>3
      <3>2. Reading(s)' => Reached(q.off)'
        BY <1>1, <1>4, <1>6, <2>2, <3>1 DEF ReadsFrom, Reading, Reached
      <3>3. req'[s].pc = "size" /\ code' = "building" => q.size <= size'
        BY <1>1, <1>3, <1>5, <2>2, <3>1 DEF ReadsFrom
      <3>4. Appends(s)' =>
              /\ q.chunk.start <= q.chunk.end
              /\ q.chunk.start < q.chunk.end =>
                   /\ q.initial \/ Seen(q.chunk.start)'
                   /\ q.chunk.next <= q.chunk.end \/ Past(q.chunk.next)'
              /\ q.chunk.start = q.chunk.end => Reached(q.chunk.next)'
        BY <1>1, <1>4, <1>6, <2>2, <3>1 DEF ReadsFrom, Appends, Reached
      <3> QED BY <2>2, <3>2, <3>3, <3>4 DEF ReadsFrom
    <2> QED BY <1>6, <2>1, <2>2
  <1>7. ASSUME shown' = shown PROVE \A v \in Nat : Seen(v) => Seen(v)'
    BY <1>7 DEF Seen
  <1>8. ASSUME shown' = shown, offset' = offset PROVE Reached(offset)'
    BY <1>1, <1>3, <1>4, <1>7, <1>8 DEF Reached
  <1>9. CASE LogGrows \/ BuildEnds \/ BuildIsFinal \/ UNCHANGED logVars
    BY <1>6, <1>7, <1>8, <1>9, BuildEffect
  <1>10. ASSUME NEW r \in Slots,
                GetStatus(r) \/ GetSize(r) \/ GetChunk(r) \/ AnswerTimesOut(r) \/ BackendError(r)
         PROVE  Reached(offset)' /\ \A s \in Slots : ReadsFrom(s)'
    <2> DEFINE q == req[r]
    <2>1. UNCHANGED <<code, size, offset, shown>>
      BY <1>10, AnsweringEffect
    <2>2. Others(r)
      BY <1>10, StatusEffect, SizeEffect, ChunkEffect, TroubleEffect
    <2>3. \A s \in Slots \ {r} : ReadsFrom(s)'
      BY <1>6, <1>7, <2>1, <2>2 DEF Others
    <2>4. CASE GetStatus(r) \/ GetSize(r)
      <3>1. Reading(r) /\ req'[r].off = q.off /\ req'[r].pc \in {"status", "size"}
            /\ (req'[r].pc = "size" => req'[r].size = size)
        BY <2>4, StatusEffect, SizeEffect DEF Reading
      <3>2. Reached(q.off) /\ Reached(q.off)'
        BY <1>1, <2>1, <3>1 DEF ReadsFrom, Reached, Seen, Past
      <3>3. ReadsFrom(r)'
        BY <1>3, <2>1, <3>1, <3>2 DEF ReadsFrom, Appends
      <3> QED BY <1>8, <2>1, <2>3, <3>3
    <2>5. CASE GetChunk(r) \/ AnswerTimesOut(r) \/ BackendError(r)
      <3> DEFINE c == req'[r].chunk
                 Fits == /\ c.start <= c.end
                         /\ c.start < c.end => /\ q.initial \/ Seen(c.start)
                                               /\ c.next <= c.end \/ Past(c.next)
                         /\ c.start = c.end => Reached(c.next)
      <3>1. Reading(r) /\ req'[r].pc = "answered" /\ req'[r].initial = q.initial
            /\ (q.pc = "size" /\ code = "building" => q.size <= size)
        BY <1>1, <2>5, ChunkEffect, TroubleEffect DEF Reading, ReadsFrom
      <3>2. Reached(q.off) /\ q \in Req /\ q.off \in Nat /\ c \in Chunk
        BY <1>1, <1>3, <3>1 DEF ReadsFrom, LogTypeOK, Req
      <3>3. ASSUME req'[r].script = "append", GetChunk(r) PROVE Fits
        <4>1. CASE ChunkStart(q) <= size /\ c.start = ChunkStart(q)
                   /\ c.end = AtMost(ChunkEnd(q), size) /\ c.next = NextOffset(q)
          <5>1. q.pc = "size"
            BY <3>3, ChunkEffect
          <5> HIDE DEF q, c
          <5> QED BY <3>1, <3>2, <4>1, <5>1, ChunkReached
        <4>2. CASE c.start = q.off /\ c.end = q.off /\ c.next = q.off
          BY <3>2, <4>2
        <4> QED BY <3>3, <4>1, <4>2, ChunkEffect
      <3>4. ASSUME req'[r].script = "append", ~GetChunk(r) PROVE Fits
        <4>1. c.start = q.off /\ c.end = q.off /\ c.next = q.off
          BY <2>5, <3>4, TroubleEffect
        <4> QED BY <3>2, <4>1
      <3>5. req'[r].script = "append" => Fits
        BY <3>3, <3>4
      <3>6. ReadsFrom(r)'
        BY <2>1, <3>1, <3>5 DEF ReadsFrom, Reading, Appends, Reached, Seen, Past
      <3> QED BY <1>8, <2>1, <2>3, <3>6
    <2> QED BY <1>10, <2>4, <2>5
  <1>11. ASSUME NEW r \in Slots, LoadContent(r), UNCHANGED <<code, size, offset, shown>>
         PROVE  Reached(offset)' /\ \A s \in Slots : ReadsFrom(s)'
    <2>1. \A s \in Slots \ {r} : ReadsFrom(s)'
      BY <1>6, <1>7, <1>11, LoadEffect DEF Others
    <2>2. Reached(offset)'
      BY <1>8, <1>11
    <2>3. ReadsFrom(r)'
      BY <1>11, <2>2, LoadEffect DEF ReadsFrom, Appends, Reached, Seen, Past
    <2> QED BY <2>1, <2>2, <2>3
  <1>12. ASSUME NEW r \in Slots, StartClicked(r)
         PROVE  Reached(offset)' /\ \A s \in Slots : ReadsFrom(s)'
    BY <1>11, <1>12 DEF StartClicked, build
  <1>13. CASE TimerExpires
    <2>1. UNCHANGED <<code, size, offset, shown>>
      BY <1>13 DEF TimerExpires, build
    <2>2. CASE auto
      BY <1>11, <1>13, <2>1, <2>2 DEF TimerExpires
    <2>3. CASE ~auto
      BY <1>6, <1>7, <1>8, <1>13, <2>1, <2>3 DEF TimerExpires
    <2> QED BY <2>2, <2>3
  <1>14. CASE StopClicked
    <2>1. UNCHANGED <<offset, shown>>
      BY <1>14 DEF StopClicked
    <2>2. \A s \in Slots : req'[s] = req[s] \/ req'[s] = Idle
      BY <1>14, StopEffect DEF StopClicked
    <2> QED BY <1>6, <1>7, <1>8, <2>1, <2>2
  <1>15. ASSUME NEW r \in Slots, Garbled(r) \/ RequestFails(r)
         PROVE  Reached(offset)' /\ \A s \in Slots : ReadsFrom(s)'
    <2>1. UNCHANGED <<offset, shown>>
      BY <1>15 DEF Garbled, RequestFails
    <2>2. \A s \in Slots : req'[s] = req[s] \/ req'[s] = Idle
      BY <1>15, DoneEffect
    <2> QED BY <1>6, <1>7, <1>8, <2>1, <2>2
  <1>16. ASSUME NEW r \in Slots, AppendChunk(r)
         PROVE  Reached(offset)' /\ \A s \in Slots : ReadsFrom(s)'
    <2> DEFINE c == req[r].chunk
    <2>1. /\ Appends(r) /\ offset' = c.next
          /\ shown' = IF c.start < c.end THEN Append(shown, c) ELSE shown
      BY <1>16 DEF AppendChunk, Appends
    <2>2. c \in Chunk /\ c.start \in Nat /\ c.end \in Nat /\ c.next \in Nat
      BY <1>2, <1>3
    <2>3. \A v \in Nat : Seen(v) => Seen(v)'
      BY <2>1, <2>2, SeenStays
    <2>4. \A s \in Slots : ReadsFrom(s)'
      BY <1>6, <1>16, <2>3, DoneEffect
    <2>5. PICK n \in Nat : n = c.next
      BY <2>2
    <2>6. CASE c.start < c.end
      <3>1. n <= c.end \/ Past(n)
        BY <1>1, <2>1, <2>5, <2>6 DEF ReadsFrom
      <3>2. n <= c.end => Seen(n)'
        <4> HIDE DEF c
        <4> QED BY <2>1, <2>2, <2>6, SeenNew
      <3>3. Seen(n)' \/ Past(n)'
        BY <1>4, <3>1, <3>2
      <3> QED BY <2>1, <2>4, <2>5, <3>3 DEF Reached, Seen, Past
    <2>7. CASE ~(c.start < c.end)
      <3>1. c.start = c.end
        BY <1>1, <2>1, <2>2, <2>7 DEF ReadsFrom
      <3>2. Seen(n) \/ Past(n)
        BY <1>1, <2>1, <2>5, <3>1 DEF ReadsFrom, Reached
      <3>3. Seen(n)' \/ Past(n)'
        BY <1>4, <2>3, <3>2
      <3> QED BY <2>1, <2>4, <2>5, <3>3 DEF Reached, Seen, Past
    <2> QED BY <2>6, <2>7
  <1>17. ASSUME NEW r \in Slots, Finish(r)
         PROVE  Reached(offset)' /\ \A s \in Slots : ReadsFrom(s)'
    <2>1. offset' = offset /\ Busy(r) /\ (req[r].initial \/ shown' = shown)
      BY <1>17 DEF Finish, Busy
    <2>2. \A s \in Slots : req'[s] = req[s] \/ req'[s] = Idle
      BY <1>17, DoneEffect
    <2>3. CASE shown' = shown
      BY <1>6, <1>7, <1>8, <2>1, <2>2, <2>3
    <2>4. CASE req[r].initial
      <3>1. shown = <<>>
        BY <2>1, <2>4 DEF FirstAlone
      <3>2. \A v \in Nat : Seen(v) => Seen(v)'
        BY <3>1 DEF Seen
      <3> QED BY <1>1, <1>3, <1>4, <1>6, <2>1, <2>2, <3>2 DEF Reached
    <2> QED BY <2>1, <2>3, <2>4
  <1> QED BY <1>9, <1>10, <1>12, <1>13, <1>14, <1>15, <1>16, <1>17 DEF LogNext

\* There is one chain of requests and timers, unless the user started a second one,
\* after every step.
LEMMA OneChainStep ==
  ASSUME LogTypeOK, AutoRuns, OneChain, [LogNext]_logVars
  PROVE  OneChain'
  <1> USE DEF OneChain, Busy
  <1>1. timers \in Nat /\ notified \in Nat /\ page \in Page /\ finished \in BOOLEAN /\ auto \in BOOLEAN
    BY DEF LogTypeOK
  <1>2. CASE LogGrows \/ BuildEnds \/ BuildIsFinal \/ UNCHANGED logVars
    BY <1>2, BuildEffect
  <1>3. ASSUME NEW r \in Slots,
               GetStatus(r) \/ GetSize(r) \/ GetChunk(r) \/ AnswerTimesOut(r) \/ BackendError(r)
        PROVE  OneChain'
    <2>1. Busy(r) /\ Others(r)
      BY <1>3, StatusEffect, SizeEffect, ChunkEffect, TroubleEffect DEF Reading
    <2> QED BY <1>3, <2>1, AnsweringEffect DEF Others
  <1>4. ASSUME NEW r \in Slots, StartClicked(r), ~overlap' PROVE OneChain'
    <2>0. overlap' = (overlap \/ timers > 0) /\ page.button = "start" /\ ~finished
      BY <1>4 DEF StartClicked
    <2>1. ~overlap /\ timers = 0 /\ ~auto /\ ~finished
      <3>1. ~overlap /\ ~(timers > 0)
        BY <1>4, <2>0
      <3>2. timers = 0
        BY <1>1, <3>1
      <3>3. ~auto
        BY <2>0 DEF AutoRuns
      <3> QED BY <2>0, <3>1, <3>2, <3>3
    <2>2. \A s \in Slots : req[s].pc = "none"
      BY <2>1
    <2>3. \A s \in Slots : req'[s].pc # "none" => s = r
      BY <1>4, <2>2, LoadEffect DEF StartClicked, Others
    <2>4. tracked' = r /\ timers' = 0 /\ auto' /\ ~finished' /\ notified' = notified
      BY <1>4, <2>1, LoadEffect DEF StartClicked
    <2> QED BY <2>1, <2>3, <2>4
  <1>5. CASE TimerExpires /\ ~overlap'
    <2>1. ~overlap /\ timers = 1 /\ timers' = 0 /\ ~finished
      BY <1>1, <1>5 DEF TimerExpires, logHistory
    <2>2. \A s \in Slots : req[s].pc = "none"
      BY <2>1
    <2>3. UNCHANGED <<auto, finished, page, notified>>
      BY <1>5 DEF TimerExpires
    <2>4. CASE auto
      <3>1. PICK r \in Slots : LoadContent(r)
        BY <1>5, <2>4 DEF TimerExpires
      <3>2. tracked' = r /\ \A s \in Slots : req'[s].pc # "none" => s = r
        BY <2>2, <3>1, LoadEffect DEF Others
      <3> QED BY <2>1, <2>3, <2>4, <3>2
    <2>5. CASE ~auto
      <3>1. req' = req
        BY <1>5, <2>5 DEF TimerExpires
      <3> QED BY <2>1, <2>2, <2>3, <3>1
    <2> QED BY <2>4, <2>5
  \* after a stop nothing is under way
  <1>6. ASSUME ~overlap,
               \A s \in Slots : req'[s] = Idle \/ (req'[s] = req[s] /\ s # tracked)
        PROVE  \A s \in Slots : req'[s].pc = "none"
    BY <1>6, ReqFields
  <1>7. CASE StopClicked /\ ~overlap'
    <2>1. ~overlap /\ UNCHANGED <<timers, finished, notified>> /\ page' = Paused(page)
      BY <1>7 DEF StopClicked, logHistory
    <2>2. auto' = FALSE /\ \A s \in Slots : req'[s] = IF s = tracked THEN Idle ELSE req[s]
      BY <1>7, StopEffect DEF StopClicked
    <2>3. \A s \in Slots : req'[s].pc = "none"
      BY <2>1, <2>2, <1>6
    <2>4. page'.abort = page.abort
      BY <1>1, <2>1, EditedFields
    <2> QED BY <2>1, <2>2, <2>3, <2>4
  <1>8. ASSUME NEW r \in Slots, RequestFails(r), ~overlap' PROVE OneChain'
    <2>1. ~overlap /\ UNCHANGED <<timers, finished, notified>> /\ page' = Paused(page)
      BY <1>8 DEF RequestFails, logHistory
    <2>2. auto' = FALSE /\ \A s \in Slots : req'[s] = IF s \in {r, tracked} THEN Idle ELSE req[s]
      BY <1>8, DoneEffect
    <2>3. \A s \in Slots : req'[s].pc = "none"
      BY <2>1, <2>2, <1>6
    <2>4. page'.abort = page.abort
      BY <1>1, <2>1, EditedFields
    <2> QED BY <2>1, <2>2, <2>3, <2>4
  <1>9. ASSUME NEW r \in Slots, Garbled(r), ~overlap' PROVE OneChain'
    <2>1. UNCHANGED <<tracked, timers, auto, finished, page, notified, overlap>>
      BY <1>9 DEF Garbled
    <2>2. \A s \in Slots : req'[s] = Idle \/ req'[s] = req[s]
      BY <1>9, DoneEffect
    <2>3. \A s \in Slots : req'[s].pc # "none" => req[s].pc # "none"
      BY <2>2, ReqFields
    <2> QED BY <1>9, <2>1, <2>3
  <1>10. ASSUME NEW r \in Slots, Finish(r), ~overlap' PROVE OneChain'
    <2> DEFINE p == [indicator |-> "result", button |-> "none", abort |-> FALSE]
    <2>1. /\ ~overlap /\ UNCHANGED timers /\ finished' /\ Busy(r)
          /\ (notified' = notified \/ notified' = notified + 1)
          /\ (page' = Paused(p) \/ page' = p)
      BY <1>10 DEF Finish, logHistory
    <2>2. auto' = FALSE /\ \A s \in Slots : req'[s] = IF s \in {r, tracked} THEN Idle ELSE req[s]
      BY <1>10, DoneEffect
    <2>3. \A s \in Slots : req'[s].pc = "none"
      BY <2>1, <2>2, <1>6
    <2>4. timers = 0 /\ auto /\ ~finished /\ notified = 0
      BY <1>1, <2>1
    <2>5. p \in Page /\ p.abort = FALSE
      BY DEF Page
    <2>6. page'.abort = FALSE
      <3> HIDE DEF p
      <3> QED BY <2>1, <2>5, EditedFields
    <2> QED BY <2>1, <2>2, <2>3, <2>4, <2>6
  <1>11. ASSUME NEW r \in Slots, AppendChunk(r), ~overlap' PROVE OneChain'
    <2>1. /\ ~overlap /\ timers' = timers + 1 /\ Busy(r) /\ UNCHANGED <<finished, notified>>
      BY <1>11 DEF AppendChunk, logHistory
    <2>2. timers = 0 /\ auto /\ ~finished /\ \A s \in Slots : Busy(s) => s = r
      BY <1>1, <2>1
    <2>4. req'[r] = Idle /\ \A s \in Slots \ {r} : req'[s] = req[s] \/ req'[s] = Idle
      BY <1>11, DoneEffect
    <2>3. \A s \in Slots : req'[s].pc = "none"
      BY <2>2, <2>4, ReqFields
    <2> QED BY <2>1, <2>2, <2>3
  <1> QED BY <1>2, <1>3, <1>4, <1>5, <1>7, <1>8, <1>9, <1>10, <1>11 DEF LogNext

\* The chunk of an answer begins where the last one shown says, and ends where the
\* next request of its chain is to read from.
LEMMA ChunkGoesOn ==
  ASSUME LogTypeOK, NEW q \in Req, q.off = offset, q.initial => offset = 0 /\ shown = <<>>,
         code = "building" => q.size <= size, offset <= q.size \/ Past(offset),
         shown # <<>> => shown[Len(shown)].next = offset \/ Past(offset),
         NEW c \in Chunk, ChunkStart(q) <= size,
         c.start = ChunkStart(q), c.end = AtMost(ChunkEnd(q), size), c.next = NextOffset(q)
  PROVE  /\ code = "building" => c.next <= size
         /\ c.start < c.end /\ shown # <<>> => c.start = shown[Len(shown)].next
         /\ c.start = c.end => c.next = offset \/ Past(c.next)
  <1>1. offset \in Nat /\ q.size \in Nat /\ size \in Nat /\ MaxChunk \in Nat \ {0}
    BY LiveLogAssumption DEF LogTypeOK, Req
  <1>2. CASE Recent(q)
    <2>1. c.start = q.size - AtMost(q.size, MaxChunk) /\ c.end = AtMost(q.size, size)
          /\ c.next = q.size /\ offset = 0 /\ shown = <<>>
      BY <1>1, <1>2 DEF Recent, ChunkStart, ChunkEnd, NextOffset, AtMost
    <2>2. c.start = c.end => c.next = offset \/ Past(c.next)
      <3>1. CASE q.size <= size
        BY <1>1, <2>1, <3>1 DEF AtMost
      <3>2. CASE q.size > size
        BY <1>1, <2>1, <3>2 DEF Past
      <3> QED BY <1>1, <3>1, <3>2
    <2> QED BY <2>1, <2>2
  <1>3. CASE ~Recent(q)
    <2>1. c.start = offset /\ c.end = AtMost(offset + MaxChunk, size)
          /\ c.next = AtMost(offset + MaxChunk, q.size)
      BY <1>1, <1>3 DEF ChunkStart, ChunkEnd, NextOffset
    <2>2. offset <= size /\ ~Past(offset)
      BY <1>1, <1>3, <2>1 DEF Past, ChunkStart
    <2>3. code = "building" => c.next <= size
      BY <1>1, <2>1 DEF AtMost
    <2>4. shown # <<>> => c.start = shown[Len(shown)].next
      BY <2>1, <2>2
    <2>5. c.start = c.end => c.next = offset \/ Past(c.next)
      <3>1. CASE q.size <= size
        BY <1>1, <2>1, <2>2, <3>1 DEF AtMost
      <3>2. CASE q.size > size
        BY <1>1, <2>1, <2>2, <3>2 DEF AtMost, Past
      <3> QED BY <1>1, <3>1, <3>2
    <2> QED BY <2>3, <2>4, <2>5
  <1> QED BY <1>2, <1>3

\* What a request reads, or its answer brings, as GoesOn has it.
GoesFrom(r) == /\ Reading(r) => req[r].off = offset
               /\ req[r].pc = "size" => offset <= req[r].size \/ Past(offset)
               /\ Appends(r) =>
                    LET c == req[r].chunk IN
                    /\ code = "building" => c.next <= size
                    /\ c.start < c.end /\ shown # <<>> => c.start = shown[Len(shown)].next
                    /\ c.start = c.end => c.next = offset \/ Past(c.next)

\* The offset and the text shown agree.
OffsetShown == /\ code = "building" => offset <= size
               /\ shown # <<>> /\ ~finished => shown[Len(shown)].next = offset \/ Past(offset)

\* One chain goes on where its last chunk ended, after every step.
LEMMA GoesOnStep ==
  ASSUME LogTypeOK, FirstAlone, ReadsReached, OneChain, GoesOn, [LogNext]_logVars,
         LogTypeOK', OneChain'
  PROVE  GoesOn'
  <1> SUFFICES ASSUME ~overlap' PROVE OffsetShown' /\ \A r \in Slots : GoesFrom(r)'
    BY DEF GoesOn, GoesFrom, OffsetShown
  <1>1. ~overlap
    <2>1. ASSUME NEW r \in Slots, StartClicked(r) PROVE ~overlap
      <3>1. overlap' = (overlap \/ timers > 0)
        BY <2>1 DEF StartClicked
      <3> QED BY <3>1
    <2>2. CASE UNCHANGED overlap
      BY <2>2
    <2> QED BY <2>1, <2>2 DEF LogNext, logVars, logHistory, LogGrows, BuildEnds, BuildIsFinal,
      page_vars, GetStatus, GetSize, GetChunk, AnswerTimesOut, BackendError, Answering,
      AppendChunk, Finish, Garbled, RequestFails, StopClicked, TimerExpires
  <1>2. OffsetShown /\ \A r \in Slots : GoesFrom(r)
    BY <1>1 DEF GoesOn, GoesFrom, OffsetShown
  <1>3. /\ offset \in Nat /\ size \in Nat /\ size' \in Nat /\ \A s \in Slots : req[s] \in Req
        /\ \A q \in Req : q.off \in Nat /\ q.size \in Nat /\ q.chunk \in Chunk
        /\ \A c \in Chunk : c.start \in Nat /\ c.end \in Nat /\ c.next \in Nat
    <2>1. offset \in Nat /\ size \in Nat /\ size' \in Nat /\ \A s \in Slots : req[s] \in Req
      BY LiveLogAssumption DEF LogTypeOK
    <2>2. \A q \in Req : q.off \in Nat /\ q.size \in Nat /\ q.chunk \in Chunk
      BY DEF Req
    <2>3. \A c \in Chunk : c.start \in Nat /\ c.end \in Nat /\ c.next \in Nat
      BY DEF Chunk
    <2> QED BY <2>1, <2>2, <2>3
  <1>4. \A v \in Nat : Past(v) => Past(v)'
    BY PastStays
  <1>5. (code' = "building" => code = "building") /\ (code' = "building" => size <= size')
    <2>1. CASE LogGrows \/ BuildEnds \/ BuildIsFinal
      BY <1>3, <2>1 DEF LogGrows, BuildEnds, BuildIsFinal
    <2>2. CASE ~(LogGrows \/ BuildEnds \/ BuildIsFinal)
      <3>1. UNCHANGED <<code, size>>
        BY <2>2 DEF LogNext, logVars, build, GetStatus, GetSize, GetChunk, AnswerTimesOut,
          BackendError, Answering, StartClicked, AppendChunk, Finish, Garbled, RequestFails,
          StopClicked, TimerExpires
      <3> QED BY <1>3, <3>1
    <2> QED BY <2>1, <2>2
  \* a request that is not touched, or gone
  <1>6. ASSUME NEW s \in Slots, req'[s] = req[s] \/ req'[s] = Idle, UNCHANGED <<offset, shown>>
        PROVE  GoesFrom(s)'
    <2>1. CASE req'[s].pc = "none"
      BY <2>1 DEF GoesFrom, Reading, Appends
    <2>2. CASE req'[s] = req[s]
      <3> DEFINE q == req[s]
      <3>1. q \in Req /\ q.off \in Nat /\ q.size \in Nat /\ q.chunk \in Chunk
            /\ q.chunk.start \in Nat /\ q.chunk.end \in Nat /\ q.chunk.next \in Nat
        BY <1>3
      <3>2. Reading(s)' => q.off = offset
        BY <1>2, <2>2 DEF GoesFrom, Reading
      <3>3. q.pc = "size" => offset <= q.size \/ Past(offset)'
        <4>1. q.pc = "size" => offset <= q.size \/ Past(offset)
          BY <1>2 DEF GoesFrom
        <4>2. Past(offset) => Past(offset)'
          BY <1>3, <1>4, <1>6
        <4> QED BY <4>1, <4>2
      <3>4. Appends(s)' =>
              /\ code' = "building" => q.chunk.next <= size'
              /\ q.chunk.start < q.chunk.end /\ shown # <<>>
                 => q.chunk.start = shown[Len(shown)].next
              /\ q.chunk.start = q.chunk.end => q.chunk.next = offset \/ Past(q.chunk.next)'
        BY <1>2, <1>3, <1>4, <1>5, <2>2, <3>1 DEF GoesFrom, Appends
      <3> QED BY <1>6, <2>2, <3>2, <3>3, <3>4 DEF GoesFrom, Past
    <2> QED BY <1>6, <2>1, <2>2, ReqFields
  <1>7. ASSUME UNCHANGED <<offset, shown, finished>> PROVE OffsetShown'
    <2>1. code' = "building" => offset <= size'
      BY <1>2, <1>3, <1>5 DEF OffsetShown
    <2>2. shown # <<>> /\ ~finished => shown[Len(shown)].next = offset \/ Past(offset)'
      <3>1. shown # <<>> /\ ~finished => shown[Len(shown)].next = offset \/ Past(offset)
        BY <1>2 DEF OffsetShown
      <3>2. Past(offset) => Past(offset)'
        BY <1>3, <1>4, <1>7
      <3> QED BY <3>1, <3>2
    <2> QED BY <1>7, <2>1, <2>2 DEF OffsetShown, Past
  <1>8. CASE LogGrows \/ BuildEnds \/ BuildIsFinal \/ UNCHANGED logVars
    BY <1>6, <1>7, <1>8, BuildEffect
  <1>9. ASSUME NEW r \in Slots,
               GetStatus(r) \/ GetSize(r) \/ GetChunk(r) \/ AnswerTimesOut(r) \/ BackendError(r)
        PROVE  OffsetShown' /\ \A s \in Slots : GoesFrom(s)'
    <2> DEFINE q == req[r]
               c == req'[r].chunk
    <2>1. UNCHANGED <<code, size, offset, shown, finished>>
      BY <1>9, AnsweringEffect
    <2>2. Others(r) /\ Reading(r)
      BY <1>9, StatusEffect, SizeEffect, ChunkEffect, TroubleEffect DEF Reading
    <2>3. OffsetShown' /\ \A s \in Slots \ {r} : GoesFrom(s)'
      BY <1>6, <1>7, <2>1, <2>2 DEF Others
    <2>4. q.off = offset /\ q \in Req
      BY <1>2, <1>3, <2>2 DEF GoesFrom
    <2>5. CASE GetStatus(r) \/ GetSize(r)
      <3>1. /\ req'[r].off = q.off /\ req'[r].pc \in {"status", "size"}
            /\ (req'[r].pc = "size" => req'[r].size = size)
        BY <2>5, StatusEffect, SizeEffect
      <3>2. offset <= size \/ Past(offset)
        BY <1>2, <1>3 DEF OffsetShown, Past
      <3> QED BY <2>1, <2>3, <2>4, <3>1, <3>2 DEF GoesFrom, Appends, Past
    <2>6. ASSUME req'[r].script = "append", GetChunk(r) \/ AnswerTimesOut(r) \/ BackendError(r)
          PROVE  /\ code = "building" => c.next <= size
                 /\ c.start < c.end /\ shown # <<>> => c.start = shown[Len(shown)].next
                 /\ c.start = c.end => c.next = offset \/ Past(c.next)
      <3>1. CASE c.start = q.off /\ c.end = q.off /\ c.next = q.off
        BY <1>2, <1>3, <2>4, <3>1 DEF OffsetShown
      <3>2. CASE /\ GetChunk(r) /\ ChunkStart(q) <= size /\ c.start = ChunkStart(q)
                 /\ c.end = AtMost(ChunkEnd(q), size) /\ c.next = NextOffset(q)
        <4>1. q.pc = "size" /\ c \in Chunk
          BY <3>2, ChunkEffect DEF LogTypeOK, Req
        <4>2. ~finished
          BY <1>1, <2>2 DEF OneChain, Busy, Reading
        <4>3. q.initial => offset = 0 /\ shown = <<>>
          BY <2>2 DEF FirstAlone, Busy, Reading
        <4>4. (code = "building" => q.size <= size) /\ (offset <= q.size \/ Past(offset))
          BY <1>2, <4>1 DEF ReadsReached, GoesFrom
        <4>5. shown # <<>> => shown[Len(shown)].next = offset \/ Past(offset)
          BY <1>2, <4>2 DEF OffsetShown
        <4> HIDE DEF q, c
        <4> QED BY <2>4, <3>2, <4>1, <4>3, <4>4, <4>5, ChunkGoesOn
      <3> QED BY <2>6, <3>1, <3>2, ChunkEffect, TroubleEffect
    <2>7. CASE GetChunk(r) \/ AnswerTimesOut(r) \/ BackendError(r)
      <3>1. req'[r].pc = "answered"
        BY <2>7, ChunkEffect, TroubleEffect
      <3>2. GoesFrom(r)'
        BY <2>1, <2>6, <2>7, <3>1 DEF GoesFrom, Reading, Appends, Past
      <3> QED BY <2>3, <3>2
    <2> QED BY <1>9, <2>5, <2>7
  <1>10. ASSUME NEW r \in Slots, LoadContent(r), UNCHANGED <<offset, shown, finished>>
         PROVE  OffsetShown' /\ \A s \in Slots : GoesFrom(s)'
    <2>1. OffsetShown' /\ \A s \in Slots \ {r} : GoesFrom(s)'
      BY <1>6, <1>7, <1>10, LoadEffect DEF Others
    <2>2. GoesFrom(r)'
      BY <1>10, LoadEffect DEF GoesFrom, Appends
    <2> QED BY <2>1, <2>2
  <1>11. ASSUME NEW r \in Slots, StartClicked(r)
         PROVE  OffsetShown' /\ \A s \in Slots : GoesFrom(s)'
    BY <1>10, <1>11 DEF StartClicked
  <1>12. CASE TimerExpires
    <2>1. UNCHANGED <<offset, shown, finished>>
      BY <1>12 DEF TimerExpires
    <2>2. CASE auto
      BY <1>10, <1>12, <2>1, <2>2 DEF TimerExpires
    <2>3. CASE ~auto
      BY <1>6, <1>7, <1>12, <2>1, <2>3 DEF TimerExpires
    <2> QED BY <2>2, <2>3
  <1>13. CASE StopClicked
    <2>1. UNCHANGED <<offset, shown, finished>>
      BY <1>13 DEF StopClicked
    <2>2. \A s \in Slots : req'[s] = req[s] \/ req'[s] = Idle
      BY <1>13, StopEffect DEF StopClicked
    <2> QED BY <1>6, <1>7, <2>1, <2>2
  <1>14. ASSUME NEW r \in Slots, Garbled(r) \/ RequestFails(r)
         PROVE  OffsetShown' /\ \A s \in Slots : GoesFrom(s)'
    <2>1. UNCHANGED <<offset, shown, finished>>
      BY <1>14 DEF Garbled, RequestFails
    <2>2. \A s \in Slots : req'[s] = req[s] \/ req'[s] = Idle
      BY <1>14, DoneEffect
    <2> QED BY <1>6, <1>7, <2>1, <2>2
  \* a chunk that is shown, or the last one, leaves no other request
  <1>15. ASSUME NEW r \in Slots, AppendChunk(r) \/ Finish(r)
         PROVE  \A s \in Slots : GoesFrom(s)'
    <2>1. Busy(r)
      BY <1>15 DEF AppendChunk, Finish, Busy
    <2>2. \A s \in Slots : Busy(s) => s = r
      BY <1>1, <2>1 DEF OneChain
    <2>3. req'[r] = Idle /\ \A s \in Slots \ {r} : req'[s] = req[s] \/ req'[s] = Idle
      BY <1>15, DoneEffect
    <2>4. \A s \in Slots : req'[s].pc = "none"
      BY <2>2, <2>3, ReqFields DEF Busy
    <2> QED BY <2>4 DEF GoesFrom, Reading, Appends
  <1>16. ASSUME NEW r \in Slots, Finish(r) PROVE OffsetShown'
    <2>1. UNCHANGED <<code, size, offset>> /\ finished'
      BY <1>16 DEF Finish, build
    <2> QED BY <1>2, <2>1 DEF OffsetShown
  <1>17. ASSUME NEW r \in Slots, AppendChunk(r) PROVE OffsetShown'
    <2> DEFINE c == req[r].chunk
    <2>1. /\ Appends(r) /\ offset' = c.next /\ UNCHANGED <<code, size, finished>>
          /\ shown' = IF c.start < c.end THEN Append(shown, c) ELSE shown
      BY <1>17 DEF AppendChunk, Appends, build
    <2>2. c \in Chunk /\ c.start \in Nat /\ c.end \in Nat /\ c.next \in Nat /\ shown \in Seq(Chunk)
      BY <1>3 DEF LogTypeOK
    <2>3. PICK n \in Nat : n = c.next
      BY <2>2
    <2>4. code' = "building" => n <= size'
      BY <1>2, <2>1, <2>3 DEF GoesFrom
    <2>5. CASE c.start < c.end
      <3>1. shown'[Len(shown')] = c
        <4> HIDE DEF c
        <4> QED BY <2>1, <2>2, <2>5
      <3>2. shown'[Len(shown')].next = n
        BY <2>3, <3>1
      <3> QED BY <2>1, <2>3, <2>4, <3>2 DEF OffsetShown
    <2>6. CASE ~(c.start < c.end)
      <3>1. c.start = c.end
        BY <2>1, <2>2, <2>6 DEF ReadsReached
      <3>2. n = offset \/ Past(n)'
        BY <1>2, <1>4, <2>1, <2>3, <3>1 DEF GoesFrom
      <3>3. shown # <<>> /\ ~finished => shown[Len(shown)].next = n \/ Past(n)'
        BY <1>2, <1>4, <2>3, <3>2 DEF OffsetShown
      <3> QED BY <2>1, <2>3, <2>4, <2>6, <3>3 DEF OffsetShown, Past
    <2> QED BY <2>5, <2>6
  <1> QED BY <1>8, <1>9, <1>11, <1>12, <1>13, <1>14, <1>15, <1>16, <1>17 DEF LogNext

-----------------------------------------------------------------------------
(* The properties.                                                         *)

\* The inductive invariant holds initially.
LEMMA IInvInit == LogInit => IInv
  <1> SUFFICES ASSUME LogInit PROVE IInv
    OBVIOUS
  <1>1. /\ timers = 0 /\ shown = <<>> /\ offset = 0 /\ ~finished /\ auto /\ notified = 0
        /\ tracked \in Slots /\ page.indicator = "running" /\ page.button = "stop" /\ size \in Nat
    BY LiveLogAssumption DEF LogInit
  <1>2. LogSent(0, TRUE).pc = "sent" /\ LogSent(0, TRUE).off = 0
    BY DEF LogSent, Idle
  <1>3. \A s \in Slots : /\ s = tracked => req[s].pc = "sent" /\ req[s].off = 0
                         /\ s # tracked => req[s].pc = "none"
    BY <1>2, ReqFields DEF LogInit
  <1>4. AutoRuns
    BY <1>1 DEF AutoRuns
  <1>5. FirstAlone
    BY <1>1, <1>3 DEF FirstAlone, Busy
  <1>6. ReadsReached
    BY <1>1, <1>3 DEF ReadsReached, Reached, Seen, Reading, Appends
  <1>7. OneChain
    BY <1>1, <1>3 DEF OneChain, Busy
  <1>8. GoesOn
    BY <1>1, <1>3 DEF GoesOn, Reading, Appends
  <1> QED BY <1>4, <1>5, <1>6, <1>7, <1>8 DEF IInv

\* Every step keeps it.
LEMMA IInvStep == LogTypeOK /\ LogTypeOK' /\ IInv /\ [LogNext]_logVars => IInv'
  BY AutoRunsStep, FirstAloneStep, ReadsReachedStep, OneChainStep, GoesOnStep DEF IInv

\* The inductive invariant of the live log: who is running refreshes, the first
\* request is alone, requests read from where the text shown has reached to, and
\* one chain goes on where its last chunk ended.
THEOREM Safety == LogSpec => []IInv
  BY TypeInit, TypeStep, TypeCorrect, IInvInit, IInvStep, PTL DEF LogSpec

\* How a step changes the text shown.
LEMMA ShownEffect ==
  ASSUME LogTypeOK, IInv, [LogNext]_logVars
  PROVE  \/ shown' = shown
         \/ \E c \in Chunk : shown' = <<c>>
         \/ shown' = <<>>
         \/ \E r \in Slots : /\ Appends(r) /\ shown' = Append(shown, req[r].chunk)
                             /\ req[r].chunk.start < req[r].chunk.end
  <1> USE DEF IInv
  <1>1. \A s \in Slots : req[s].chunk \in Chunk
    <2>1. \A q \in Req : q.chunk \in Chunk
      BY DEF Req
    <2> QED BY <2>1 DEF LogTypeOK
  <1>2. ASSUME NEW r \in Slots, AppendChunk(r)
        PROVE  \/ shown' = shown
               \/ /\ Appends(r) /\ shown' = Append(shown, req[r].chunk)
                  /\ req[r].chunk.start < req[r].chunk.end
    BY <1>2 DEF AppendChunk, Appends
  <1>3. ASSUME NEW r \in Slots, Finish(r)
        PROVE  shown' = shown \/ shown' = <<req[r].chunk>> \/ shown' = <<>>
    BY <1>3 DEF Finish
  <1>4. ASSUME NEW r \in Slots, StartClicked(r) PROVE shown' = shown
    BY <1>4 DEF StartClicked
  <1>5. CASE UNCHANGED shown
    BY <1>5
  <1> QED BY <1>1, <1>2, <1>3, <1>4, <1>5 DEF LogNext, logVars, LogGrows, BuildEnds,
    BuildIsFinal, page_vars, GetStatus, GetSize, GetChunk, AnswerTimesOut, BackendError,
    Answering, Garbled, RequestFails, StopClicked, TimerExpires

\* No part of the log is skipped after a step.
LEMMA NothingSkippedStep ==
  ASSUME LogTypeOK, IInv, NothingSkipped, [LogNext]_logVars
  PROVE  NothingSkipped'
  <1>1. CASE shown' = shown
    BY <1>1 DEF NothingSkipped
  <1>2. CASE shown' = <<>> \/ \E c \in Chunk : shown' = <<c>>
    BY <1>2 DEF NothingSkipped
  <1>3. ASSUME NEW r \in Slots, Appends(r), shown' = Append(shown, req[r].chunk),
               req[r].chunk.start < req[r].chunk.end
        PROVE  NothingSkipped'
    <2> DEFINE c == req[r].chunk
    <2>1. shown \in Seq(Chunk) /\ c \in Chunk
      BY DEF LogTypeOK, Req
    <2>2. \A d \in Chunk : d.end \in Nat
      BY DEF Chunk
    <2>3. shown = <<>> \/ Seen(c.start)
      BY <1>3 DEF IInv, ReadsReached, FirstAlone, Busy, Appends
    <2> HIDE DEF c
    <2>4. Len(shown') = Len(shown) + 1 /\ shown'[Len(shown) + 1] = c
          /\ \A j \in 1..Len(shown) : shown'[j] = shown[j]
      BY <1>3, <2>1 DEF c
    <2>5. Len(shown) \in Nat
      BY <2>1
    <2>6. ASSUME NEW i \in 1..Len(shown'), i > 1
          PROVE  \E j \in 1..(i - 1) : shown'[j].end >= shown'[i].start
      <3>1. CASE i \in 1..Len(shown)
        <4>1. PICK j \in 1..(i - 1) : shown[j].end >= shown[i].start
          BY <2>6, <3>1 DEF NothingSkipped
        <4> QED BY <2>4, <2>5, <3>1, <4>1
      <3>2. CASE i = Len(shown) + 1
        <4>1. 1 \in 1..Len(shown) /\ shown # <<>>
          BY <2>1, <2>5, <2>6, <3>2
        <4>2. \E j \in 1..Len(shown) : shown[j].end >= c.start
          <5>1. CASE c.start = 0
            BY <2>1, <2>2, <4>1, <5>1
          <5>2. CASE c.start # 0
            BY <2>3, <4>1, <5>2 DEF Seen
          <5> QED BY <5>1, <5>2
        <4> QED BY <2>4, <2>5, <3>2, <4>2
      <3> QED BY <2>4, <2>5, <2>6, <3>1, <3>2
    <2> QED BY <2>6 DEF NothingSkipped
  <1> QED BY <1>1, <1>2, <1>3, ShownEffect

\* Chunks join after a step.
LEMMA ShownInOrderStep ==
  ASSUME LogTypeOK, IInv, ShownInOrder, [LogNext]_logVars, IInv'
  PROVE  ShownInOrder'
  <1> SUFFICES ASSUME ~overlap'
               PROVE  \A i \in 1..Len(shown') : i > 1 => shown'[i].start = shown'[i - 1].next
    BY DEF ShownInOrder
  <1>1. ~overlap
    <2>1. ASSUME NEW r \in Slots, StartClicked(r) PROVE ~overlap
      <3>1. overlap' = (overlap \/ timers > 0)
        BY <2>1 DEF StartClicked
      <3> QED BY <3>1
    <2>2. CASE UNCHANGED overlap
      BY <2>2
    <2> QED BY <2>1, <2>2 DEF LogNext, logVars, logHistory, LogGrows, BuildEnds, BuildIsFinal,
      page_vars, GetStatus, GetSize, GetChunk, AnswerTimesOut, BackendError, Answering,
      AppendChunk, Finish, Garbled, RequestFails, StopClicked, TimerExpires
  <1>2. CASE shown' = shown
    BY <1>1, <1>2 DEF ShownInOrder
  <1>3. CASE shown' = <<>> \/ \E c \in Chunk : shown' = <<c>>
    BY <1>3
  <1>4. ASSUME NEW r \in Slots, Appends(r), shown' = Append(shown, req[r].chunk),
               req[r].chunk.start < req[r].chunk.end
        PROVE  \A i \in 1..Len(shown') : i > 1 => shown'[i].start = shown'[i - 1].next
    <2> DEFINE c == req[r].chunk
    <2>1. shown \in Seq(Chunk) /\ c \in Chunk
      BY DEF LogTypeOK, Req
    <2>2. shown # <<>> => c.start = shown[Len(shown)].next
      BY <1>1, <1>4 DEF IInv, GoesOn
    <2> HIDE DEF c
    <2>3. Len(shown') = Len(shown) + 1 /\ shown'[Len(shown) + 1] = c
          /\ \A j \in 1..Len(shown) : shown'[j] = shown[j]
      BY <1>4, <2>1 DEF c
    <2>4. Len(shown) \in Nat /\ (Len(shown) > 0 => shown # <<>>)
      BY <2>1
    <2>5. \A i \in 1..Len(shown) : i > 1 => shown[i].start = shown[i - 1].next
      BY <1>1 DEF ShownInOrder
    <2>6. ASSUME NEW i \in 1..Len(shown'), i > 1 PROVE shown'[i].start = shown'[i - 1].next
      <3>1. CASE i \in 1..Len(shown)
        BY <2>3, <2>4, <2>5, <2>6, <3>1
      <3>2. CASE i = Len(shown) + 1
        BY <2>2, <2>3, <2>4, <2>6, <3>2
      <3> QED BY <2>3, <2>4, <2>6, <3>1, <3>2
    <2> QED BY <2>6
  <1> QED BY <1>2, <1>3, <1>4, ShownEffect

\* No part of the log is skipped, whatever stops, restarts, times out or is cut.
THEOREM LogIsNotSkipped == LogSpec => []NothingSkipped
  <1>1. LogInit => NothingSkipped
    BY DEF LogInit, NothingSkipped
  <1>2. LogTypeOK /\ IInv /\ NothingSkipped /\ [LogNext]_logVars => NothingSkipped'
    BY NothingSkippedStep
  <1> QED BY <1>1, <1>2, TypeCorrect, Safety, PTL DEF LogSpec

\* Chunks join, as long as the user keeps to one chain of requests.
THEOREM LogIsInOrder == LogSpec => []ShownInOrder
  <1>1. LogInit => ShownInOrder
    BY DEF LogInit, ShownInOrder
  <1>2. LogTypeOK /\ IInv /\ IInv' /\ ShownInOrder /\ [LogNext]_logVars => ShownInOrder'
    BY ShownInOrderStep
  <1> QED BY <1>1, <1>2, TypeCorrect, Safety, PTL DEF LogSpec

\* A finished page is at rest and has notified the user at most once.
THEOREM EndIsAtRest == LogSpec => []EndIsFinal
  <1>1. LogTypeOK /\ IInv => EndIsFinal
    BY DEF LogTypeOK, IInv, OneChain, EndIsFinal, Polling, Busy
  <1> QED BY <1>1, TypeCorrect, Safety, PTL

\* A page that says it is running waits for an answer or a timer.
LEMMA RunningPollsStep ==
  ASSUME LogTypeOK, IInv, RunningPolls, [LogNext]_logVars, LogTypeOK'
  PROVE  RunningPolls'
  <1> USE DEF RunningPolls, Polling, Busy
  <1>1. timers \in Nat /\ page \in Page /\ \A p \in Page : Paused(p).indicator = "paused"
    BY EditedFields DEF LogTypeOK
  <1>2. CASE LogGrows \/ BuildEnds \/ BuildIsFinal \/ UNCHANGED logVars
    BY <1>2, BuildEffect
  <1>3. ASSUME NEW r \in Slots,
               GetStatus(r) \/ GetSize(r) \/ GetChunk(r) \/ AnswerTimesOut(r) \/ BackendError(r)
        PROVE  RunningPolls'
    <2>1. req'[r].pc # "none"
      BY <1>3, StatusEffect, SizeEffect, ChunkEffect, TroubleEffect
    <2> QED BY <2>1
  <1>4. ASSUME NEW r \in Slots, LoadContent(r) PROVE RunningPolls'
    BY <1>4, LoadEffect
  <1>5. ASSUME NEW r \in Slots, StartClicked(r) PROVE RunningPolls'
    BY <1>4, <1>5 DEF StartClicked
  <1>6. CASE TimerExpires
    <2>1. CASE auto
      BY <1>4, <1>6, <2>1 DEF TimerExpires
    <2>2. CASE ~auto
      BY <1>6, <2>2 DEF TimerExpires, IInv, AutoRuns
    <2> QED BY <2>1, <2>2
  <1>7. CASE StopClicked
    BY <1>1, <1>7 DEF StopClicked
  <1>8. ASSUME NEW r \in Slots, RequestFails(r) PROVE RunningPolls'
    BY <1>1, <1>8 DEF RequestFails
  <1>9. ASSUME NEW r \in Slots, Garbled(r) PROVE RunningPolls'
    BY <1>9 DEF Garbled
  <1>10. ASSUME NEW r \in Slots, Finish(r) PROVE RunningPolls'
    <2> DEFINE p == [indicator |-> "result", button |-> "none", abort |-> FALSE]
    <2>1. p \in Page /\ p.indicator = "result" /\ (page' = Paused(p) \/ page' = p)
      BY <1>10 DEF Finish, Page
    <2> HIDE DEF p
    <2> QED BY <1>1, <2>1
  <1>11. ASSUME NEW r \in Slots, AppendChunk(r) PROVE RunningPolls'
    BY <1>1, <1>11 DEF AppendChunk
  <1> QED BY <1>2, <1>3, <1>5, <1>6, <1>7, <1>8, <1>9, <1>10, <1>11 DEF LogNext

\* A page that says "Running..." goes on, unless an answer was no script.
THEOREM PageGoesOn == LogSpec => []RunningPolls
  <1>1. LogInit => RunningPolls
    <2>1. LogSent(0, TRUE).pc = "sent"
      BY DEF LogSent, Idle
    <2> QED BY <2>1 DEF LogInit, RunningPolls, Polling, Busy
  <1>2. LogTypeOK /\ LogTypeOK' /\ IInv /\ RunningPolls /\ [LogNext]_logVars => RunningPolls'
    BY RunningPollsStep
  <1> QED BY <1>1, <1>2, TypeCorrect, Safety, PTL DEF LogSpec
=============================================================================
