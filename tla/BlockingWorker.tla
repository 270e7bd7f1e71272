--------------------------- MODULE BlockingWorker ---------------------------
(***************************************************************************)
(* The SDK of blocking workers (buran-worker/src/lib.rs): one process, one *)
(* thread, one request at a time. It waits on the shared work socket and   *)
(* on its own stream at once, claims what it takes, lets a handler fill    *)
(* `out` through a Responder and writes the rest in one go. Control frames *)
(* (Ping, Abort) are read when idle and at the handler's output points.    *)
(*                                                                         *)
(* This module has the loop, the Responder's operations and the router as  *)
(* the worker sees it. What a handler calls is another module's business.  *)
(* Output is counted in frames; `written` is what reached the stream.      *)
(***************************************************************************)
EXTENDS Integers, Sequences, FiniteSets

CONSTANTS
  Requests,    \* requests the router may put in the work socket
  Garbled,     \* those whose datagram or payload does not decode
  MaxRequests, \* max_requests, 0 for none
  Limit,       \* buffered frames that force a drain (256 KiB in the code)
  MaxPings,    \* probes the router sends in a behaviour
  MayClose,    \* TRUE: the router may close the stream
  None         \* no request, no call

ASSUME WorkerAssumption ==
  /\ IsFiniteSet(Requests) /\ Garbled \subseteq Requests
  /\ Limit \in Nat \ {0} /\ {MaxRequests, MaxPings} \subseteq Nat
  /\ MayClose \in BOOLEAN
  /\ "Retire" \notin Requests /\ None \notin Requests

VARIABLES
  loop,    \* where the loop is
  ready,   \* the work socket was readable when poll returned
  cur,     \* the request in hand
  served,  \* responses written
  resp,    \* the flags of the Responder
  out,     \* frames of the request in hand, not yet on the stream
  written, \* frames on the stream, by request
  pongs,   \* Pongs on the stream, by what they say
  ctrl,    \* control frames the worker has not read
  linked,  \* the router has not closed the stream
  fresh,   \* requests not submitted yet
  work,    \* datagrams in the work socket
  pings,   \* Pings sent
  aborts   \* requests the router sent an Abort for

loopVars   == <<loop, ready, cur, served>>
replyVars  == <<resp, out>>
streamVars == <<written, pongs>>
routerVars == <<linked, fresh, pings, aborts>>
workerVars == <<loopVars, replyVars, streamVars, ctrl, routerVars, work>>

NoReply == [headers |-> FALSE, end |-> FALSE, done |-> FALSE, aborted |-> FALSE]

WorkerInit ==
  /\ loop = "hello" /\ ready = FALSE /\ cur = None /\ served = 0
  /\ resp = NoReply /\ out = <<>>
  /\ written = [r \in Requests |-> <<>>]
  /\ pongs = [busy |-> 0, idle |-> 0]
  /\ ctrl = <<>> /\ linked = TRUE
  /\ fresh = Requests /\ work = {} /\ pings = 0 /\ aborts = {}

Ping     == [kind |-> "Ping", req |-> None]
Abort(r) == [kind |-> "Abort", req |-> r]

\* The Pings among the first n control frames.
PingsIn(n) == Cardinality({i \in 1 .. n : ctrl[i] = Ping})

-----------------------------------------------------------------------------
(* The router and the other workers of the pool.                           *)

Submit(r) ==
  /\ r \in fresh
  /\ fresh' = fresh \ {r} /\ work' = work \cup {r}
  /\ UNCHANGED <<loopVars, replyVars, streamVars, ctrl, linked, pings, aborts>>

\* The janitor shrinks the pool.
Shrink ==
  /\ "Retire" \notin work /\ fresh = {}
  /\ work' = work \cup {"Retire"}
  /\ UNCHANGED <<loopVars, replyVars, streamVars, ctrl, routerVars>>

\* Another worker wins the datagram. When this one is busy that is no
\* different from the datagram never having come.
Steal(d) ==
  /\ d \in work /\ loop \in {"control", "recv"}
  /\ work' = work \ {d}
  /\ UNCHANGED <<loopVars, replyVars, streamVars, ctrl, routerVars>>

SendPing ==
  /\ linked /\ loop # "hello" /\ pings < MaxPings
  /\ ctrl' = Append(ctrl, Ping) /\ pings' = pings + 1
  /\ UNCHANGED <<loopVars, replyVars, streamVars, linked, fresh, aborts, work>>

\* The Claim was seen; an end may be on the stream that was not.
SendAbort(r) ==
  /\ linked /\ written[r] # <<>> /\ r \notin aborts
  /\ ctrl' = Append(ctrl, Abort(r)) /\ aborts' = aborts \cup {r}
  /\ UNCHANGED <<loopVars, replyVars, streamVars, linked, fresh, pings, work>>

\* What the worker has not read may be lost with the connection.
Close ==
  /\ MayClose /\ linked
  /\ linked' = FALSE /\ ctrl' \in {ctrl, <<>>}
  /\ UNCHANGED <<loopVars, replyVars, streamVars, fresh, pings, aborts, work>>

\* What the router sees of a worker that exited is the EOF.
Router ==
  /\ loop # "exited"
  /\ \/ \E r \in Requests : Submit(r) \/ SendAbort(r)
     \/ \E d \in Requests \cup {"Retire"} : Steal(d)
     \/ Shrink \/ SendPing \/ Close

-----------------------------------------------------------------------------
(* The loop.                                                               *)

\* Hello and HelloAck; an ack that does not come or does not fit ends it.
Handshake ==
  /\ loop = "hello"
  /\ \E ok \in BOOLEAN :
       /\ ok => linked
       /\ loop' = IF ok THEN "poll" ELSE "exited"
  /\ UNCHANGED <<ready, cur, served, replyVars, streamVars, ctrl, routerVars, work>>

Poll ==
  /\ loop = "poll"
  /\ work # {} \/ ctrl # <<>> \/ ~linked
  /\ ready' = (work # {})
  /\ loop' = IF ctrl # <<>> \/ ~linked THEN "control" ELSE "recv"
  /\ UNCHANGED <<cur, served, replyVars, streamVars, ctrl, routerVars, work>>

\* Mutant: with a request waiting, control frames are drained unanswered.
AnswerControlHasty ==
  /\ loop = "control"
  /\ ctrl' = <<>>
  /\ IF linked
     THEN /\ pongs' = IF ready THEN pongs ELSE [pongs EXCEPT !.idle = @ + PingsIn(Len(ctrl))]
          /\ loop' = IF ready THEN "recv" ELSE "poll"
     ELSE loop' = "exited" /\ UNCHANGED pongs
  /\ UNCHANGED <<ready, cur, served, replyVars, written, routerVars, work>>

\* answer_idle_control: a stale Abort is consumed, EOF ends the worker.
AnswerControl ==
  /\ loop = "control"
  /\ ctrl' = <<>>
  /\ IF linked
     THEN /\ pongs' = [pongs EXCEPT !.idle = @ + PingsIn(Len(ctrl))]
          /\ loop' = IF ready THEN "recv" ELSE "poll"
     ELSE loop' = "exited" /\ UNCHANGED pongs
  /\ UNCHANGED <<ready, cur, served, replyVars, written, routerVars, work>>

\* WouldBlock: poll woke several workers and another one won.
RecvNothing ==
  /\ loop = "recv" /\ work = {}
  /\ loop' = "poll"
  /\ UNCHANGED <<ready, cur, served, replyVars, streamVars, ctrl, routerVars, work>>

RecvRetire ==
  /\ loop = "recv" /\ "Retire" \in work
  /\ work' = work \ {"Retire"} /\ loop' = "exited"
  /\ UNCHANGED <<ready, cur, served, replyVars, streamVars, ctrl, routerVars>>

\* Truncated or of another kind: dropped, the router's timeout ends it. A
\* header that does not decode ends the worker.
RecvGarbled(r) ==
  /\ loop = "recv" /\ r \in work \cap Garbled
  /\ work' = work \ {r} /\ loop' \in {"poll", "exited"}
  /\ UNCHANGED <<ready, cur, served, replyVars, streamVars, ctrl, routerVars>>

\* The Claim goes out at once, ahead of the batch; then the payload is parsed.
Recv(r) ==
  /\ loop = "recv" /\ r \in work
  /\ work' = work \ {r}
  /\ IF linked
     THEN /\ written' = [written EXCEPT ![r] = <<"Claim">>]
          /\ cur' = r /\ resp' = NoReply /\ out' = <<>>
          /\ \/ loop' = "handling"
             \/ r \in Garbled /\ loop' = "exited"
     ELSE loop' = "exited" /\ UNCHANGED <<cur, replyVars, written>>
  /\ UNCHANGED <<ready, served, pongs, ctrl, routerVars>>

\* Mutant: a response that was released early is taken for finished.
FinishedOnce(o, rs) == IF rs.end THEN o ELSE o \o <<"End", "Done">>

\* Responder::finish: End unless it is there, then Done, and only once.
Finished(o, rs) ==
  CASE rs.done             -> o
    [] rs.end /\ ~rs.done  -> Append(o, "Done")
    [] ~rs.end /\ ~rs.done -> o \o <<"End", "Done">>

\* The handler is back: complete its response and write what is buffered.
Respond ==
  /\ loop \in {"returned", "failed"}
  /\ LET batch == CASE loop = "returned"              -> Finished(out, resp)
                    [] loop = "failed" /\ resp.done   -> out
                    [] loop = "failed" /\ ~resp.done  -> Append(out, "Error")
         last  == MaxRequests > 0 /\ served + 1 >= MaxRequests
     IN  IF linked
         THEN /\ written' = [written EXCEPT ![cur] = @ \o batch]
              /\ served' = served + 1
              /\ loop' = IF last THEN "exited" ELSE "poll"
         ELSE loop' = "exited" /\ UNCHANGED <<written, served>>
  /\ cur' = None /\ resp' = NoReply /\ out' = <<>>
  /\ UNCHANGED <<ready, pongs, ctrl, routerVars, work>>

Loop ==
  \/ Handshake \/ Poll \/ AnswerControl \/ RecvNothing \/ RecvRetire \/ Respond
  \/ \E r \in Requests : RecvGarbled(r) \/ Recv(r)

-----------------------------------------------------------------------------
(* The Responder, as operators on its flags, its buffer and the stream.    *)

\* Mutant: any Abort is taken for this request's.
HitsAny == {i \in 1 .. Len(ctrl) : ctrl[i].kind = "Abort"}

\* poll_control reads up to an Abort of the request in hand.
Hits == {i \in 1 .. Len(ctrl) : ctrl[i] = Abort(cur)}
ReadUpTo ==
  IF Hits = {} THEN Len(ctrl) ELSE CHOOSE i \in Hits : \A j \in Hits : i <= j

\* Its verdict and its effects: once aborted, it reads no further.
ClientGone == resp.aborted \/ Hits # {} \/ ~linked
PollControl ==
  IF resp.aborted
  THEN UNCHANGED <<ctrl, pongs>>
  ELSE /\ ctrl' = SubSeq(ctrl, ReadUpTo + 1, Len(ctrl))
       /\ pongs' = IF linked THEN [pongs EXCEPT !.busy = @ + PingsIn(ReadUpTo)] ELSE pongs

\* drain: all that is buffered, or an error that leaves it buffered.
Drained ==
  IF linked
  THEN written' = [written EXCEPT ![cur] = @ \o out] /\ out' = <<>>
  ELSE UNCHANGED <<written, out>>
=============================================================================
