------------------------------- MODULE Delivery -------------------------------
(***************************************************************************)
(* One client connection of the router (buran-router, http1.rs): heads and *)
(* bodies are taken off the socket, a request goes to the application, its *)
(* answer goes back, and the connection carries the next request or closes.*)
(* Composed with the tasks a request involves: the feed, which reads a     *)
(* streamed body while the worker already runs, the pump, which writes it  *)
(* to the worker (dispatch.rs), and the worker with its own stream. Who    *)
(* claims what is the subject of Dispatch: here a worker serves one        *)
(* request and its reader keeps up.                                        *)
(*                                                                         *)
(* Bytes are pieces: the client sends a head and Size[r] body pieces for   *)
(* each request, one request behind the other. The head is piece 0.        *)
(***************************************************************************)
EXTENDS Integers, Sequences

CONSTANTS
  N,           \* requests the client sends
  Size,        \* body pieces of each, by content-length
  Stream,      \* all that the client sends
  InlineLimit, \* INLINE_BODY_LIMIT, in pieces
  Threshold,   \* STREAM_THRESHOLD, in pieces
  MaxPieces,   \* bound on the pieces of each answer
  EventCap,    \* capacity of the event channel of a request
  FeedCap,     \* capacity of the channel between feed and pump
  DownCap,     \* frames the stream to a worker holds
  Deaf         \* requests whose worker stops reading its stream

Requests == 1..N

ASSUME DeliveryAssumption ==
  /\ {N, EventCap, FeedCap, DownCap} \subseteq Nat \ {0}
  /\ {InlineLimit, Threshold} \subseteq Nat
  /\ Size \in [Requests -> Nat] /\ MaxPieces \in [Requests -> Nat] /\ Deaf \subseteq Requests

(* A piece and what the client sends behind it.                            *)
Pieces   == {p \in Requests \X Nat : p[2] <= Size[p[1]]}
After(p) == IF p[2] < Size[p[1]] THEN <<p[1], p[2] + 1>> ELSE <<p[1] + 1, 0>>

(* s is what the client sends from piece p on, to the last one.            *)
From(p, s) ==
  /\ s \in Seq(Pieces)
  /\ p = IF s = <<>> THEN <<N + 1, 0>> ELSE s[1]
  /\ \A i \in 1..Len(s) : After(s[i]) = IF i = Len(s) THEN <<N + 1, 0>> ELSE s[i + 1]

ASSUME StreamAssumption == From(<<1, 0>>, Stream)

VARIABLES
  wire,    \* what the client has sent or will send, not yet read
  buf,     \* what the connection has read and not used
  pc,      \* where the connection task is
  after,   \* what it does once the Abort is written
  cur,     \* the request it works on
  plan,    \* BodyPlan and SubmitBody of that request
  body,    \* its buffered body
  rd,      \* where the read half of the socket is
  held,    \* pieces of the answer in the response buffer
  out,     \* what has been written to the client
  files,   \* requests with a spill file on disk
  spoiled, \* requests for which write_spill failed after creating the file
  events,  \* the event channel of the current request
  open,    \* its sender is alive
  feed,    \* the feed task of the current request
  pend,    \* what the feed has read and not sent
  rest,    \* what it has to read yet
  chan,    \* the channel from the feed of r to its pump
  pump,    \* the pump task of r
  down,    \* the stream to the worker of r
  worker,  \* where the worker of r is
  said,    \* how far its answer is
  pieces,  \* pieces of it
  got      \* what it has read of the body

connVars   == <<buf, pc, after, cur, plan, body, rd, held, out>>
spillVars  == <<files, spoiled>>
eventVars  == <<events, open>>
feedVars   == <<feed, pend, rest>>
pumpVars   == <<chan, pump>>
workerVars == <<worker, said, pieces, got>>
vars == <<wire, connVars, spillVars, eventVars, feedVars, pumpVars, down, workerVars>>

BodyIn(r) == [i \in 1..Size[r] |-> <<r, i>>]

(* Frames to a worker beside the pieces: an empty one ends a body. *)
Terminator == <<>>
AbortFrame == <<"abort">>

Dispatched == {"spill", "submit", "first", "buffer", "bulk", "flushed", "abort", "reclaim"}
Listening  == {"first", "buffer", "bulk", "flushed", "abort"}
Places     == {"head", "body", "route", "closed"} \cup Dispatched

(* The receiver of the body channel: in the pending entry, then in the pump. *)
RxAlive(r) == worker[r] \in {"none", "queued"} \/ pump[r] = "run"
TxAlive(r) == r = cur /\ feed = "run"
Claimed(r) == worker[r] = "run"

Init ==
  /\ wire = Stream
  /\ buf = <<>> /\ pc = "head" /\ after = "fail" /\ cur = 0 /\ plan = "inline" /\ body = <<>>
  /\ rd = "conn" /\ held = 0 /\ out = <<>>
  /\ files = {} /\ spoiled = {}
  /\ events = <<>> /\ open = FALSE
  /\ feed = "none" /\ pend = <<>> /\ rest = 0
  /\ chan = [r \in Requests |-> <<>>] /\ pump = [r \in Requests |-> "none"]
  /\ down = [r \in Requests |-> <<>>]
  /\ worker = [r \in Requests |-> "none"] /\ said = [r \in Requests |-> "nothing"]
  /\ pieces = [r \in Requests |-> 0] /\ got = [r \in Requests |-> <<>>]

-----------------------------------------------------------------------------
(* The end of an exchange. Part is what is written last, n how many pieces  *)
(* of the answer the client then has.                                       *)
Given == IF out # <<>> /\ out[Len(out)].req = cur THEN out[Len(out)].n ELSE 0
Tell(part, n) == out' = Append(out, [req |-> cur, part |-> part, n |-> Given + n])

(* The next request, unless the connection is not kept alive or its read    *)
(* half did not come back.                                                  *)
NextRequest ==
  \/ pc' = "closed"
  \/ rd' = "conn" /\ pc' = "head"

(* ResponseStream and SpillGuard are dropped: a request nobody claimed goes, *)
(* with its body channel; so does a spill file nobody opened.               *)
Abandon == worker' = IF cur \in Requests /\ worker[cur] = "queued"
                     THEN [worker EXCEPT ![cur] = "void"] ELSE worker

\* Mutant: no guard for the file.
UnlinkNever == UNCHANGED files

Unlink == files' = files \ ({cur} \ spoiled)
Over   == body' = <<>> /\ plan' = "inline" /\ held' = 0
Hangup == events' = <<>> /\ open' = FALSE

AbortFeed ==
  IF feed = "none"
    THEN UNCHANGED <<feedVars, rd>>
    ELSE feed' = "none" /\ pend' = <<>> /\ rest' = 0 /\ rd' = "lost"

(* dispatch_to_app returns with a simple answer of its own. *)
FailWith ==
  /\ Tell("own", 0) /\ AbortFeed /\ NextRequest
  /\ Abandon /\ Unlink /\ Hangup /\ Over

\* ... or with an error, that closes the connection.
Break ==
  /\ AbortFeed /\ pc' = "closed"
  /\ Abandon /\ Unlink /\ Hangup /\ Over

-----------------------------------------------------------------------------
(* Heads and buffered bodies. *)
ReadSocket ==
  /\ pc = "head" /\ buf = <<>> /\ wire # <<>>
  /\ \E n \in 1..Len(wire) :
       buf' = SubSeq(wire, 1, n) /\ wire' = SubSeq(wire, n + 1, Len(wire))
  /\ UNCHANGED <<pc, after, cur, plan, body, rd, held, out, spillVars, eventVars, feedVars, pumpVars, down, workerVars>>

(* The client closes, idles or is too slow with a head; the shutdown. *)
CloseIdle ==
  /\ pc = "head" /\ pc' = "closed"
  /\ UNCHANGED <<wire, buf, after, cur, plan, body, rd, held, out, spillVars, eventVars, feedVars, pumpVars, down, workerVars>>

(* take_body: what came with the head, the rest stays for the next request. *)
\* Mutant: everything that came with the head is taken for the body.
TakeBufferedAll(r, b) ==
  /\ body' = b /\ buf' = <<>>
  /\ pc' = IF Len(b) >= Size[r] THEN "route" ELSE "body"

TakeBuffered(r, b) ==
  /\ body' = SubSeq(b, 1, IF Len(b) > Size[r] THEN Size[r] ELSE Len(b))
  /\ buf' = SubSeq(b, Len(body') + 1, Len(b))
  /\ pc' = IF Len(b) >= Size[r] THEN "route" ELSE "body"

ParseHead ==
  /\ pc = "head" /\ buf # <<>>
  /\ cur' = Head(buf)[1] /\ plan' = "inline"
  /\ TakeBuffered(Head(buf)[1], Tail(buf))
  /\ UNCHANGED <<wire, after, rd, held, out, spillVars, eventVars, feedVars, pumpVars, down, workerVars>>

(* A bad head, or a body that is too large: answer and close. *)
RefuseHead ==
  /\ pc = "head" /\ buf # <<>>
  /\ cur' = Head(buf)[1] /\ pc' = "closed"
  /\ out' = Append(out, [req |-> cur', part |-> "own", n |-> 0])
  /\ UNCHANGED <<wire, buf, after, plan, body, rd, held, spillVars, eventVars, feedVars, pumpVars, down, workerVars>>

(* A body that did not come whole with its head, for a pool that streams:   *)
(* the read half moves into the feed.                                       *)
StartFeed ==
  /\ pc = "head" /\ buf # <<>>
  /\ cur' = Head(buf)[1]
  /\ Len(Tail(buf)) < Size[cur']
  /\ plan' = "stream" /\ body' = <<>> /\ buf' = <<>> /\ rd' = "feed" /\ pc' = "submit"
  /\ feed' = "run" /\ pend' = Tail(buf) /\ rest' = Size[cur'] - Len(Tail(buf))
  /\ UNCHANGED <<wire, after, held, out, spillVars, eventVars, pumpVars, down, workerVars>>

ReadBody ==
  /\ pc = "body" /\ wire # <<>>
  /\ body' = Append(body, Head(wire)) /\ wire' = Tail(wire)
  /\ pc' = IF Len(body') = Size[cur] THEN "route" ELSE "body"
  /\ UNCHANGED <<buf, after, cur, plan, rd, held, out, spillVars, eventVars, feedVars, pumpVars, down, workerVars>>

(* The body stalls or is too slow (408), or the client is gone. *)
BodyStalls ==
  /\ pc = "body" /\ pc' = "closed"
  /\ Tell("own", 0) \/ UNCHANGED out
  /\ UNCHANGED <<wire, buf, after, cur, plan, body, rd, held, spillVars, eventVars, feedVars, pumpVars, down, workerVars>>

(* A return, a file, a status, no route, or a full queue. *)
AnswerHere ==
  /\ pc = "route" /\ Tell("own", 0) /\ pc' \in {"head", "closed"}
  /\ UNCHANGED <<wire, buf, after, cur, plan, body, rd, held, spillVars, eventVars, feedVars, pumpVars, down, workerVars>>

Route ==
  /\ pc = "route"
  /\ pc' = IF Len(body) > InlineLimit THEN "spill" ELSE "submit"
  /\ UNCHANGED <<wire, buf, after, cur, plan, body, rd, held, out, spillVars, eventVars, feedVars, pumpVars, down, workerVars>>

WriteSpill ==
  /\ pc = "spill" /\ pc' = "submit" /\ plan' = "file"
  /\ files' = files \cup {cur}
  /\ UNCHANGED <<wire, buf, after, cur, body, rd, held, out, spoiled, eventVars, feedVars, pumpVars, down, workerVars>>

(* write_spill fails before or after it has created the file; there is no   *)
(* guard for the file yet.                                                  *)
SpillFails ==
  /\ pc = "spill" /\ Tell("own", 0) /\ pc' \in {"head", "closed"}
  /\ \/ UNCHANGED spillVars
     \/ files' = files \cup {cur} /\ spoiled' = spoiled \cup {cur}
  /\ UNCHANGED <<wire, buf, after, cur, plan, body, rd, held, eventVars, feedVars, pumpVars, down, workerVars>>

-----------------------------------------------------------------------------
(* The request is in the table and in the work socket. *)
Submit ==
  /\ pc = "submit" /\ pc' = "first"
  /\ worker' = [worker EXCEPT ![cur] = "queued"]
  /\ events' = <<>> /\ open' = TRUE
  /\ UNCHANGED <<wire, buf, after, cur, plan, body, rd, held, out, spillVars, feedVars, pumpVars, down, said, pieces, got>>

(* No permit, no room in time, or a broken socket. *)
SubmitFails ==
  /\ pc = "submit"
  /\ FailWith
  /\ UNCHANGED <<wire, buf, after, cur, spoiled, pumpVars, down, said, pieces, got>>

NextEvent(e) == events # <<>> /\ Head(events) = e /\ events' = Tail(events) /\ UNCHANGED open
NoEvent      == events = <<>> /\ ~open  \* the sender is gone: next_event is None

(* The first event decides the status line. *)
TakeHeaders ==
  /\ pc = "first" /\ NextEvent("headers")
  /\ pc' = "buffer" /\ held' = 0
  /\ UNCHANGED <<wire, buf, after, cur, plan, body, rd, out, spillVars, feedVars, pumpVars, down, workerVars>>

(* Anything but headers is an error of the worker, and so is a status 101   *)
(* that was not offered; no event at all is a 504.                          *)
FailFirst ==
  /\ pc = "first"
  /\ events # <<>> \/ NoEvent
  /\ FailWith
  /\ UNCHANGED <<wire, buf, after, cur, spoiled, pumpVars, down, said, pieces, got>>

(* Up to the threshold the answer is buffered. *)
BufferPiece ==
  /\ pc = "buffer" /\ held < Threshold /\ NextEvent("piece")
  /\ held' = held + 1
  /\ UNCHANGED <<wire, buf, pc, after, cur, plan, body, rd, out, spillVars, feedVars, pumpVars, down, workerVars>>

(* Beyond it, or on a flush, it goes out in chunks. *)
StartChunks(n, to) ==
  /\ out' = out \o <<[req |-> cur, part |-> "status", n |-> 0], [req |-> cur, part |-> "chunk", n |-> n]>>
  /\ held' = 0 /\ pc' = to

Overflow ==
  /\ pc = "buffer" /\ held = Threshold /\ NextEvent("piece")
  /\ StartChunks(held + 1, "bulk")
  /\ UNCHANGED <<wire, buf, after, cur, plan, body, rd, spillVars, feedVars, pumpVars, down, workerVars>>

FlushBuffer ==
  /\ pc = "buffer" /\ NextEvent("flush")
  /\ StartChunks(held, "flushed")
  /\ UNCHANGED <<wire, buf, after, cur, plan, body, rd, spillVars, feedVars, pumpVars, down, workerVars>>

(* The ResponseStream is dropped, then the read half is waited for. *)
Complete(part, n) ==
  /\ Tell(part, n) /\ pc' = "reclaim" /\ open' = FALSE
  /\ UNCHANGED <<rd, feedVars>>

EndBuffered ==
  /\ pc = "buffer" /\ events # <<>> /\ Head(events) = "end"
  /\ Complete("whole", held) /\ events' = <<>>
  /\ UNCHANGED <<wire, buf, after, cur, plan, body, held, spillVars, pumpVars, down, workerVars>>

(* A failure this early gives a short body with its own length, a lost      *)
(* sender a 504.                                                            *)
FailBuffered ==
  /\ pc = "buffer"
  /\ \/ events # <<>> /\ Head(events) = "failed" /\ Tell("short", held) /\ Break
     \/ NoEvent /\ FailWith
  /\ UNCHANGED <<wire, buf, after, cur, spoiled, pumpVars, down, said, pieces, got>>

WriteChunk ==
  /\ pc \in {"bulk", "flushed"} /\ NextEvent("piece")
  /\ Tell("chunk", 1)
  /\ UNCHANGED <<wire, buf, pc, after, cur, plan, body, rd, held, spillVars, feedVars, pumpVars, down, workerVars>>

Flush ==
  /\ pc \in {"bulk", "flushed"} /\ NextEvent("flush")
  /\ pc' = "flushed"
  /\ UNCHANGED <<wire, buf, after, cur, plan, body, rd, held, out, spillVars, feedVars, pumpVars, down, workerVars>>

EndChunks ==
  /\ pc \in {"bulk", "flushed"} /\ events # <<>> /\ Head(events) = "end"
  /\ Complete("last", 0) /\ events' = <<>>
  /\ UNCHANGED <<wire, buf, after, cur, plan, body, held, spillVars, pumpVars, down, workerVars>>

(* No final chunk: the client sees that the answer is broken. *)
Truncate ==
  /\ pc \in {"bulk", "flushed"}
  /\ \/ events # <<>> /\ Head(events) = "failed"
     \/ NoEvent
  /\ Break
  /\ UNCHANGED <<wire, buf, after, cur, out, spoiled, pumpVars, down, said, pieces, got>>

-----------------------------------------------------------------------------
(* The budgets of next_event and of a silent stream, and a client that is   *)
(* gone: first the worker is told, then the client.                         *)
SendAbort(then) ==
  /\ pc' = "abort" /\ after' = then
  /\ UNCHANGED <<wire, buf, cur, plan, body, rd, held, out, spillVars, feedVars, pumpVars, down, workerVars>>

Silent == events = <<>> /\ open

ResponseTimeout ==
  /\ Silent /\ UNCHANGED eventVars
  /\ \/ pc \in {"first", "buffer"} /\ SendAbort("fail")
     \/ pc = "bulk" /\ SendAbort("break")

IdleTimeout == pc = "flushed" /\ Silent /\ SendAbort("idle") /\ UNCHANGED eventVars

(* A client that is gone is noticed when something is written. Told are     *)
(* neither the worker nor the feed, except behind a chunk (ClientGone).     *)
WriteFails ==
  /\ pc \in {"buffer", "bulk", "flushed"} /\ events # <<>>
  /\ Head(events) = "piece" => pc = "buffer" /\ held = Threshold
  /\ pc' = "closed"
  /\ Abandon /\ Unlink /\ Hangup /\ Over
  /\ UNCHANGED <<wire, buf, after, cur, rd, out, spoiled, feedVars, pumpVars, down, said, pieces, got>>

ClientGone == pc \in {"bulk", "flushed"} /\ NextEvent("piece") /\ SendAbort("break")

(* abort_task: a frame to the worker, behind whatever else is written there;*)
(* nothing if it has not claimed the request or is gone.                    *)
AbortSent ==
  /\ pc = "abort"
  /\ IF Claimed(cur)
       THEN Len(down[cur]) < DownCap /\ down' = [down EXCEPT ![cur] = Append(@, AbortFrame)]
       ELSE UNCHANGED down
  /\ \/ after = "fail" /\ FailWith
     \/ after = "break" /\ Break /\ UNCHANGED out
     \/ after = "idle" /\ Complete("idle", 0) /\ events' = <<>> /\ Abandon /\ UNCHANGED <<files, plan, body, held>>
  /\ after' = "fail"
  /\ UNCHANGED <<wire, buf, cur, spoiled, pumpVars, said, pieces, got>>

(* reclaim_rd waits for the feed; a body not fully read ends the connection. *)
Reclaim ==
  /\ pc = "reclaim" /\ feed # "run"
  /\ rd' = (IF feed = "bad" THEN "lost" ELSE "conn")
  /\ feed' = "none" /\ NextRequest /\ Unlink /\ Over
  /\ UNCHANGED <<wire, buf, after, cur, out, spoiled, eventVars, pend, rest, pumpVars, down, workerVars>>

ConnNext ==
  \/ ReadSocket \/ CloseIdle \/ ParseHead \/ RefuseHead \/ StartFeed \/ ReadBody \/ BodyStalls
  \/ AnswerHere \/ Route \/ WriteSpill \/ SpillFails \/ Submit \/ SubmitFails \/ TakeHeaders
  \/ FailFirst \/ BufferPiece \/ Overflow \/ FlushBuffer \/ EndBuffered \/ FailBuffered
  \/ WriteChunk \/ Flush \/ EndChunks \/ Truncate \/ ResponseTimeout \/ IdleTimeout \/ WriteFails
  \/ ClientGone \/ AbortSent \/ Reclaim

-----------------------------------------------------------------------------
(* The feed reads what is left of the body and passes it on. *)
FeedRead ==
  /\ feed = "run" /\ pend = <<>> /\ rest > 0 /\ wire # <<>>
  /\ pend' = <<Head(wire)>> /\ wire' = Tail(wire) /\ rest' = rest - 1
  /\ UNCHANGED <<connVars, spillVars, eventVars, feed, pumpVars, down, workerVars>>

FeedSend ==
  /\ feed = "run" /\ pend # <<>>
  /\ IF RxAlive(cur)
       THEN /\ Len(chan[cur]) < FeedCap
            /\ chan' = [chan EXCEPT ![cur] = Append(@, Head(pend))]
            /\ pend' = Tail(pend) /\ UNCHANGED feed
       ELSE feed' = "bad" /\ pend' = <<>> /\ UNCHANGED chan
  /\ UNCHANGED <<wire, connVars, spillVars, eventVars, rest, pump, down, workerVars>>

\* Mutant: only the first read has a timeout.
FeedPatient ==
  /\ feed = "run" /\ pend = <<>> /\ rest = Size[cur]
  /\ feed' = "bad"
  /\ UNCHANGED <<wire, connVars, spillVars, eventVars, pend, rest, pumpVars, down, workerVars>>

(* body_read_timeout, min_body_rate, or the client is gone. *)
FeedStalls ==
  /\ feed = "run" /\ pend = <<>> /\ rest > 0
  /\ feed' = "bad"
  /\ UNCHANGED <<wire, connVars, spillVars, eventVars, pend, rest, pumpVars, down, workerVars>>

FeedDone ==
  /\ feed = "run" /\ pend = <<>> /\ rest = 0
  /\ feed' = "ok"
  /\ UNCHANGED <<wire, connVars, spillVars, eventVars, pend, rest, pumpVars, down, workerVars>>

(* The pump writes them to the worker and always ends with a terminator. *)
PumpBody(r) ==
  /\ pump[r] = "run" /\ chan[r] # <<>>
  /\ IF worker[r] = "dead"
       THEN /\ pump' = [pump EXCEPT ![r] = "done"]
            /\ chan' = [chan EXCEPT ![r] = <<>>] /\ UNCHANGED down
       ELSE /\ Len(down[r]) < DownCap
            /\ down' = [down EXCEPT ![r] = Append(@, Head(chan[r]))]
            /\ chan' = [chan EXCEPT ![r] = Tail(@)] /\ UNCHANGED pump
  /\ UNCHANGED <<wire, connVars, spillVars, eventVars, feedVars, workerVars>>

PumpEnds(r) ==
  /\ pump[r] = "run" /\ chan[r] = <<>> /\ ~TxAlive(r)
  /\ worker[r] = "dead" \/ Len(down[r]) < DownCap
  /\ down' = IF worker[r] = "dead" THEN down ELSE [down EXCEPT ![r] = Append(@, Terminator)]
  /\ pump' = [pump EXCEPT ![r] = "done"]
  /\ UNCHANGED <<wire, connVars, spillVars, eventVars, feedVars, chan, workerVars>>

TaskNext ==
  \/ FeedRead \/ FeedSend \/ FeedStalls \/ FeedDone
  \/ \E r \in Requests : PumpBody(r) \/ PumpEnds(r)

-----------------------------------------------------------------------------
(* The worker, and its reader in the router. What it says goes to a client  *)
(* that listens, and waits for room there. What it says to nobody is not    *)
(* modelled, only that it ends.                                             *)
Heard(r) == r = cur /\ pc \in Listening /\ open

Emit(r, e) ==
  IF Heard(r)
    THEN Len(events) < EventCap /\ events' = Append(events, e)
    ELSE UNCHANGED events

Claim(r) ==
  /\ worker[r] = "queued"
  /\ worker' = [worker EXCEPT ![r] = "run"]
  /\ pump' = IF plan = "stream" THEN [pump EXCEPT ![r] = "run"] ELSE pump
  /\ UNCHANGED <<wire, connVars, spillVars, eventVars, feedVars, chan, down, said, pieces, got>>

OpenSpill(r) ==
  /\ Claimed(r) /\ r \in files
  /\ files' = files \ {r}
  /\ UNCHANGED <<wire, connVars, spoiled, eventVars, feedVars, pumpVars, down, workerVars>>

ReadStream(r) ==
  /\ worker[r] \in {"run", "done"} /\ r \notin Deaf /\ down[r] # <<>>
  /\ down' = [down EXCEPT ![r] = Tail(@)]
  /\ got' = IF Claimed(r) /\ Head(down[r]) # AbortFrame
              THEN [got EXCEPT ![r] = Append(@, Head(down[r]))] ELSE got
  /\ UNCHANGED <<wire, connVars, spillVars, eventVars, feedVars, pumpVars, worker, said, pieces>>

SayHeaders(r) ==
  /\ Claimed(r) /\ said[r] = "nothing" /\ Heard(r) /\ Emit(r, "headers")
  /\ said' = [said EXCEPT ![r] = "headers"]
  /\ UNCHANGED <<wire, connVars, spillVars, open, feedVars, pumpVars, down, worker, pieces, got>>

SayPiece(r) ==
  /\ Claimed(r) /\ said[r] \in {"headers", "flushed"} /\ pieces[r] < MaxPieces[r] /\ Heard(r) /\ Emit(r, "piece")
  /\ pieces' = [pieces EXCEPT ![r] = @ + 1]
  /\ UNCHANGED <<wire, connVars, spillVars, open, feedVars, pumpVars, down, worker, said, got>>

SayFlush(r) ==
  /\ Claimed(r) /\ said[r] = "headers" /\ Heard(r) /\ Emit(r, "flush")
  /\ said' = [said EXCEPT ![r] = "flushed"]
  /\ UNCHANGED <<wire, connVars, spillVars, open, feedVars, pumpVars, down, worker, pieces, got>>

Finish(r, e, how) ==
  /\ Claimed(r) /\ Emit(r, e)
  /\ open' = (open /\ r # cur)
  /\ said' = IF Heard(r) THEN [said EXCEPT ![r] = how] ELSE said
  /\ worker' = [worker EXCEPT ![r] = "done"]
  /\ UNCHANGED <<wire, connVars, spillVars, feedVars, pumpVars, down, pieces, got>>

SayEnd(r)   == said[r] \in {"headers", "flushed"} /\ Finish(r, "end", "end")
SayError(r) == Finish(r, "failed", "error")

(* An Abort, the connection's or the sweep's, ends a task with a Done alone. *)
SayDone(r)  == Finish(r, "end", "cut")

(* The worker dies; the clean-up of its reader does not wait for room. One  *)
(* that dies with the datagram before its Claim leaves the request queued.  *)
Die(r) ==
  /\ worker[r] \in {"run", "done"}
  /\ worker' = [worker EXCEPT ![r] = "dead"]
  /\ IF Claimed(r)
       THEN /\ events' = IF Heard(r) /\ Len(events) < EventCap THEN Append(events, "failed") ELSE events
            /\ open' = (open /\ r # cur)
       ELSE UNCHANGED eventVars
  /\ down' = [down EXCEPT ![r] = <<>>]
  /\ UNCHANGED <<wire, connVars, spillVars, feedVars, pumpVars, said, pieces, got>>

WorkerNext(r) ==
  \/ Claim(r) \/ OpenSpill(r) \/ ReadStream(r) \/ SayHeaders(r) \/ SayPiece(r) \/ SayFlush(r)
  \/ SayEnd(r) \/ SayError(r) \/ SayDone(r) \/ Die(r)

Next == ConnNext \/ TaskNext \/ \E r \in Requests : WorkerNext(r)

(* Tasks run on and timers fire; a worker that is not deaf reads. Nothing   *)
(* is expected of the client, that may stall in the middle of a body, nor   *)
(* that a worker answers, claims or lives.                                  *)
Fairness ==
  /\ WF_vars(ConnNext)
  /\ WF_vars(FeedSend \/ FeedStalls \/ FeedDone)
  /\ \A r \in Requests : WF_vars(PumpBody(r) \/ PumpEnds(r)) /\ WF_vars(ReadStream(r))

Spec     == Init /\ [][Next]_vars
FairSpec == Spec /\ Fairness

-----------------------------------------------------------------------------
(* The variables have their types. *)
TypeOK ==
  /\ pc \in Places /\ after \in {"fail", "break", "idle"} /\ cur \in 0..N
  /\ plan \in {"inline", "file", "stream"} /\ rd \in {"conn", "feed", "lost"}
  /\ held \in 0..Threshold /\ files \subseteq Requests /\ spoiled \subseteq Requests
  /\ Len(events) <= EventCap /\ open \in BOOLEAN
  /\ feed \in {"none", "run", "ok", "bad"} /\ rest \in Nat
  /\ pump \in [Requests -> {"none", "run", "done"}]
  /\ worker \in [Requests -> {"none", "queued", "void", "run", "done", "dead"}]
  /\ said \in [Requests -> {"nothing", "headers", "flushed", "end", "error", "cut"}]
  /\ \A r \in Requests : pieces[r] \in 0..MaxPieces[r]
  /\ \A r \in Requests : Len(chan[r]) <= FeedCap /\ Len(down[r]) <= DownCap

(* Beside the types: a request is parsed where a request begins, with the   *)
(* read half at hand (http1.rs:212). What the connection has not used when  *)
(* it turns to the next head is the rest of what the client sends, byte for *)
(* byte. What a worker gets is its request's own body in order: whole when  *)
(* buffered, a prefix when streamed, with one terminator behind it.         *)
RequestsIntact ==
  /\ TypeOK
  /\ pc \in {"head", "body", "route"} => rd = "conn" /\ feed = "none"
  /\ pc = "head" => From(<<cur + 1, 0>>, buf \o wire)
  /\ pc \in Dispatched /\ plan # "stream" => body = BodyIn(cur)
  /\ \A r \in Requests : \E k \in 0..Size[r] :
       got[r] \in {SubSeq(BodyIn(r), 1, k), Append(SubSeq(BodyIn(r), 1, k), Terminator)}

(* Answers go out in the order of the requests, each with an end of its own *)
(* before the next begins, and an answer that ends because its worker ended *)
(* it carries every piece the worker gave.                                  *)
Ends == {"own", "whole", "last", "idle", "short"}

ResponsesIntact ==
  /\ \A o \in {out[i] : i \in DOMAIN out} :
       o.part \in {"whole", "last"} => o.n = pieces[o.req]
  /\ \A i, j \in DOMAIN out : i < j =>
       /\ out[i].req <= out[j].req
       /\ out[i].part \in Ends => out[i].req < out[j].req
       /\ out[i].req < out[j].req =>
            \E k \in i..(j - 1) : out[k].req = out[i].req /\ out[k].part \in Ends \ {"short"}

(* Neither direction of a kept-alive connection mixes two exchanges.        *)
ExchangesIntact == RequestsIntact /\ ResponsesIntact

(* A spilled body outlives its exchange only if write_spill failed: a queue *)
(* that rejects, a worker that never claims or dies leave no file behind    *)
(* (http1.rs:672).                                                          *)
SpillsGo == files \subseteq spoiled \cup (IF pc \in Dispatched THEN {cur} ELSE {})

(* The comment at http1.rs:1002: the final chunk, or the whole length, is   *)
(* written only for an answer its worker ended.                             *)
TruncationShows ==
  \A i \in DOMAIN out : out[i].part \in {"whole", "last"} => said[out[i].req] = "end"

(* A dispatched request is always done with: whatever the worker, the feed  *)
(* and the client do, the connection task gets on (docs/applications.md).   *)
Answered == pc \in Dispatched ~> pc \in {"head", "closed"}

=============================================================================
