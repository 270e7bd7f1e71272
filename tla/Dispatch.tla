------------------------------ MODULE Dispatch ------------------------------
(***************************************************************************)
(* The router side of one application's worker pool (buran-router,         *)
(* dispatch.rs) together with the connection task that waits for a         *)
(* response (http1.rs) and the worker processes at the other end of the    *)
(* Buran Worker Protocol.                                                  *)
(*                                                                         *)
(* A request reserves a queue permit, is entered in the table `pending`,   *)
(* and its datagram is written to one kernel socket shared by all workers. *)
(* Whichever worker receives the datagram announces it with a Claim frame  *)
(* on its private stream; one reader task per worker turns the frames of   *)
(* that stream into events on the bounded channel of the request.          *)
(*                                                                         *)
(* A request is identified with the id `submit` allocates for it: ids are  *)
(* not reused in this model (the u32 wraps after 2^32 submits).            *)
(* ResponseHeaders, ResponseBody, Flush and WsMessage frames get the same  *)
(* treatment from the reader and are one kind here, "Data".                *)
(***************************************************************************)
EXTENDS Integers, Sequences, FiniteSets

CONSTANTS
  Requests,   \* client requests that may arrive
  Workers,    \* worker ids (keys of Pool::workers)
  Faulty,     \* workers whose module is buggy: they may write any frame
  Granted,    \* concurrency granted to a worker in HelloAck
  QueueMax,   \* queue.max: permits of the pool's semaphore
  EventCap,   \* capacity of a request's event channel (8 in the code)
  WorkCap,    \* datagrams the kernel work queue holds
  StreamCap,  \* frames a worker stream buffers in the kernel
  Absent,     \* no entry in `pending`
  Unclaimed,  \* an entry whose claimed_by is None
  None        \* no event in hand

ASSUME DispatchAssumption ==
  /\ IsFiniteSet(Requests)
  /\ Faulty \subseteq Workers
  /\ {Granted, QueueMax, EventCap, WorkCap, StreamCap} \subseteq Nat \ {0}
  /\ Absent # Unclaimed
  /\ Absent \notin Workers /\ Unclaimed \notin Workers

FrameKinds == {"Claim", "Data", "End", "Done", "Error"}
Frames     == [kind : FrameKinds, req : Requests]
EventKinds == {"Data", "End", "Failed"}
Events     == [kind : EventKinds, from : Workers]
Held       == [kind : EventKinds, req : Requests]

ASSUME NoneAssumption == None \notin Held

VARIABLES
  \* connection tasks
  client,    \* where dispatch_to_app and Pool::submit are for a request
  outcome,   \* how the connection task's wait ended
  permits,   \* free permits of the pool's semaphore
  \* router tables
  pending,   \* Pool::pending: Absent, Unclaimed, or the worker in claimed_by
  inFlight,  \* Metrics::in_flight (-1 stands for u32::MAX: fetch_sub wraps)
  events,    \* the event channel of each request
  \* one reader task per worker
  reader,    \* off, reading frames, or in the clean-up after its loop
  claimed,   \* reader_task's local set
  hold,      \* the event whose send awaits room in a full channel
  \* kernel
  work,      \* datagrams queued on the shared work socket
  stream,    \* frames written by the worker and not yet read
  \* worker processes
  proc,      \* none, running, exited
  job,       \* what the worker is doing with each request
  ctl        \* requests named by an Abort the worker has not read yet

clientVars == <<client, outcome, permits>>
routerVars == <<pending, inFlight, events>>
readerVars == <<reader, claimed, hold>>
kernelVars == <<work, stream>>
workerVars == <<proc, job, ctl>>
vars == <<clientVars, routerVars, readerVars, kernelVars, workerVars>>

ClientStates == {"new", "reserved", "inserted", "sending", "open", "leaving", "done"}
Outcomes     == {"none", "ok", "failed", "closed", "gaveup", "rejected", "unsent"}

Init ==
  /\ client   = [r \in Requests |-> "new"]
  /\ outcome  = [r \in Requests |-> "none"]
  /\ permits  = QueueMax
  /\ pending  = [r \in Requests |-> Absent]
  /\ inFlight = 0
  /\ events   = [r \in Requests |-> <<>>]
  /\ reader   = [w \in Workers |-> "off"]
  /\ claimed  = [w \in Workers |-> {}]
  /\ hold     = [w \in Workers |-> None]
  /\ work     = <<>>
  /\ stream   = [w \in Workers |-> <<>>]
  /\ proc     = [w \in Workers |-> "none"]
  /\ job      = [w \in Workers |-> [r \in Requests |-> "none"]]
  /\ ctl      = [w \in Workers |-> {}]

-----------------------------------------------------------------------------
(* The connection task: try_reserve, submit, the wait for events.          *)

\* A permit is taken before any per-request work; none left is a 503.
Reserve(r) ==
  /\ client[r] = "new"
  /\ IF permits > 0
     THEN /\ permits' = permits - 1
          /\ client' = [client EXCEPT ![r] = "reserved"]
          /\ UNCHANGED outcome
     ELSE /\ client' = [client EXCEPT ![r] = "done"]
          /\ outcome' = [outcome EXCEPT ![r] = "rejected"]
          /\ UNCHANGED permits
  /\ UNCHANGED <<routerVars, readerVars, kernelVars, workerVars>>

\* Writing the spill file of a large body failed: 500, the permit is dropped.
SpillFailed(r) ==
  /\ client[r] = "reserved"
  /\ client' = [client EXCEPT ![r] = "done"]
  /\ outcome' = [outcome EXCEPT ![r] = "unsent"]
  /\ permits' = permits + 1
  /\ UNCHANGED <<routerVars, readerVars, kernelVars, workerVars>>

\* submit enters the request under the pending lock ...
Insert(r) ==
  /\ client[r] = "reserved"
  /\ client' = [client EXCEPT ![r] = "inserted"]
  /\ pending' = [pending EXCEPT ![r] = Unclaimed]
  /\ UNCHANGED <<outcome, permits, inFlight, events, readerVars, kernelVars, workerVars>>

\* ... and counts it after the lock is released.
Count(r) ==
  /\ client[r] = "inserted"
  /\ client' = [client EXCEPT ![r] = "sending"]
  /\ inFlight' = inFlight + 1
  /\ UNCHANGED <<outcome, permits, pending, events, readerVars, kernelVars, workerVars>>

Send(r) ==
  /\ client[r] = "sending"
  /\ Len(work) < WorkCap
  /\ work' = Append(work, r)
  /\ client' = [client EXCEPT ![r] = "open"]
  /\ UNCHANGED <<outcome, permits, routerVars, readerVars, stream, workerVars>>

\* remove_pending: the table entry and the counter move together.
RemovePending(r) ==
  /\ pending' = [pending EXCEPT ![r] = Absent]
  /\ inFlight' = IF pending[r] # Absent THEN inFlight - 1 ELSE inFlight

\* The send failed, or the socket stayed full for queue.timeout: 502 or 503.
SendFailed(r) ==
  /\ client[r] = "sending"
  /\ RemovePending(r)
  /\ client' = [client EXCEPT ![r] = "done"]
  /\ outcome' = [outcome EXCEPT ![r] = "unsent"]
  /\ permits' = permits + 1
  /\ events' = [events EXCEPT ![r] = <<>>]
  /\ UNCHANGED <<readerVars, kernelVars, workerVars>>

\* The connection task takes the next event; End and Failed end its wait.
Receive(r) ==
  /\ client[r] = "open"
  /\ events[r] # <<>>
  /\ events' = [events EXCEPT ![r] = Tail(@)]
  /\ LET kind == Head(events[r]).kind
     IN  IF kind = "Data"
         THEN UNCHANGED <<client, outcome>>
         ELSE /\ client' = [client EXCEPT ![r] = "leaving"]
              /\ outcome' = [outcome EXCEPT ![r] = IF kind = "End" THEN "ok" ELSE "failed"]
  /\ UNCHANGED <<permits, pending, inFlight, readerVars, kernelVars, workerVars>>

\* Senders of r's channel: the table entry, or a reader in the middle of a send.
HasSender(r) ==
  \/ pending[r] # Absent
  \/ \E w \in Workers : hold[w] # None /\ hold[w].req = r

\* recv returns None: the channel is empty and nobody can send any more.
SeeClosed(r) ==
  /\ client[r] = "open"
  /\ events[r] = <<>>
  /\ ~HasSender(r)
  /\ client' = [client EXCEPT ![r] = "leaving"]
  /\ outcome' = [outcome EXCEPT ![r] = "closed"]
  /\ UNCHANGED <<permits, routerVars, readerVars, kernelVars, workerVars>>

\* abort_task: an Abort goes to the worker that holds r, if it is still live.
AbortTask(r) ==
  ctl' = [w \in Workers |-> IF pending[r] = w /\ reader[w] # "off"
                            THEN ctl[w] \cup {r} ELSE ctl[w]]

\* The wait ends without End or Failed: a timeout or a broken client
\* connection. Most such paths send an Abort first; a failed write of the
\* response head, or a first event that is not Headers, does not.
GiveUp(r) ==
  /\ client[r] = "open"
  /\ client' = [client EXCEPT ![r] = "leaving"]
  /\ outcome' = [outcome EXCEPT ![r] = "gaveup"]
  /\ AbortTask(r) \/ UNCHANGED ctl
  /\ UNCHANGED <<permits, routerVars, readerVars, kernelVars, proc, job>>

\* Mutant: the guard of remove_if_unclaimed is missing.
DropFreesClaimed(r) ==
  /\ client[r] = "leaving"
  /\ client' = [client EXCEPT ![r] = "done"]
  /\ permits' = permits + 1
  /\ events' = [events EXCEPT ![r] = <<>>]
  /\ RemovePending(r)
  /\ UNCHANGED <<outcome, readerVars, kernelVars, workerVars>>

\* Mutant: no Drop implementation, the entry is left behind.
DropLeaks(r) ==
  /\ client[r] = "leaving"
  /\ client' = [client EXCEPT ![r] = "done"]
  /\ permits' = permits + 1
  /\ events' = [events EXCEPT ![r] = <<>>]
  /\ UNCHANGED <<outcome, pending, inFlight, readerVars, kernelVars, workerVars>>

\* Drop of the ResponseStream: an unclaimed entry goes, a claimed one stays;
\* the receiver and the permit go in either case.
Drop(r) ==
  /\ client[r] = "leaving"
  /\ client' = [client EXCEPT ![r] = "done"]
  /\ permits' = permits + 1
  /\ events' = [events EXCEPT ![r] = <<>>]
  /\ IF pending[r] = Unclaimed
     THEN RemovePending(r)
     ELSE UNCHANGED <<pending, inFlight>>
  /\ UNCHANGED <<outcome, readerVars, kernelVars, workerVars>>

-----------------------------------------------------------------------------
(* reader_task: the frames of one worker's stream.                         *)

\* The receiving end of r's channel exists.
Listening(r) == client[r] \in {"inserted", "sending", "open", "leaving"}

\* sender.send(event).await: discarded when nobody listens, queued when there
\* is room, otherwise the reader waits with the event in hand.
Deliver(w, r, kind) ==
  \/ /\ ~Listening(r)
     /\ UNCHANGED <<events, hold>>
  \/ /\ Listening(r)
     /\ Len(events[r]) < EventCap
     /\ events' = [events EXCEPT ![r] = Append(@, [kind |-> kind, from |-> w])]
     /\ UNCHANGED hold
  \/ /\ Listening(r)
     /\ Len(events[r]) >= EventCap
     /\ hold' = [hold EXCEPT ![w] = [kind |-> kind, req |-> r]]
     /\ UNCHANGED events

\* A frame the reader can take: it is in its loop and not inside a send.
CanRead(w) == reader[w] = "reading" /\ hold[w] = None /\ stream[w] # <<>>

TakeFrame(w) ==
  /\ CanRead(w)
  /\ stream' = [stream EXCEPT ![w] = Tail(@)]
  /\ UNCHANGED <<clientVars, work, workerVars>>

\* The gate: only Claim may name a request this worker does not own.
DropFrame(w) ==
  /\ TakeFrame(w)
  /\ LET f == Head(stream[w]) IN f.kind # "Claim" /\ f.req \notin claimed[w]
  /\ UNCHANGED <<routerVars, readerVars>>

\* Mutant: a later claim takes the entry over.
ReadClaimPoach(w) ==
  /\ TakeFrame(w)
  /\ Head(stream[w]).kind = "Claim"
  /\ Cardinality(claimed[w]) < Granted
  /\ LET r == Head(stream[w]).req
     IN  IF pending[r] # Absent
         THEN /\ pending' = [pending EXCEPT ![r] = w]
              /\ claimed' = [claimed EXCEPT ![w] = @ \cup {r}]
         ELSE UNCHANGED <<pending, claimed>>
  /\ UNCHANGED <<inFlight, events, reader, hold>>

\* Mutant: off by one, the grant is exceeded by one claim.
ReadClaimOneMore(w) ==
  /\ TakeFrame(w)
  /\ Head(stream[w]).kind = "Claim"
  /\ Cardinality(claimed[w]) <= Granted
  /\ LET r == Head(stream[w]).req
     IN  IF pending[r] = Unclaimed
         THEN /\ pending' = [pending EXCEPT ![r] = w]
              /\ claimed' = [claimed EXCEPT ![w] = @ \cup {r}]
         ELSE UNCHANGED <<pending, claimed>>
  /\ UNCHANGED <<inFlight, events, reader, hold>>

\* First writer wins: an unclaimed entry gets its owner. Any other claim is
\* void, and the worker serves the request without the router.
ReadClaim(w) ==
  /\ TakeFrame(w)
  /\ Head(stream[w]).kind = "Claim"
  /\ Cardinality(claimed[w]) < Granted
  /\ LET r == Head(stream[w]).req
     IN  IF pending[r] = Unclaimed
         THEN /\ pending' = [pending EXCEPT ![r] = w]
              /\ claimed' = [claimed EXCEPT ![w] = @ \cup {r}]
         ELSE UNCHANGED <<pending, claimed>>
  /\ UNCHANGED <<inFlight, events, reader, hold>>

\* A claim beyond the grant is a breach: kill the worker, leave the loop.
ReadOverClaim(w) ==
  /\ TakeFrame(w)
  /\ Head(stream[w]).kind = "Claim"
  /\ Cardinality(claimed[w]) >= Granted
  /\ reader' = [reader EXCEPT ![w] = "draining"]
  /\ UNCHANGED <<routerVars, claimed, hold>>

\* Response frames are forwarded; End too, the task keeps its slot.
ReadResponse(w) ==
  /\ TakeFrame(w)
  /\ LET f == Head(stream[w])
     IN  /\ f.kind \in {"Data", "End"}
         /\ f.req \in claimed[w]
         /\ Deliver(w, f.req, f.kind)
  /\ UNCHANGED <<pending, inFlight, reader, claimed>>

\* The two ends of a task: the slot is freed, then the client is told.
FreeSlot(w, r) ==
  /\ claimed' = [claimed EXCEPT ![w] = @ \ {r}]
  /\ RemovePending(r)

\* Mutant: Done is not subject to the gate.
ReadDoneUngated(w) ==
  /\ TakeFrame(w)
  /\ LET f == Head(stream[w])
     IN  /\ f.kind = "Done"
         /\ FreeSlot(w, f.req)
         /\ Deliver(w, f.req, "End")
  /\ UNCHANGED reader

ReadDone(w) ==
  /\ TakeFrame(w)
  /\ LET f == Head(stream[w])
     IN  /\ f.kind = "Done"
         /\ f.req \in claimed[w]
         /\ FreeSlot(w, f.req)
         /\ Deliver(w, f.req, "End")
  /\ UNCHANGED reader

ReadError(w) ==
  /\ TakeFrame(w)
  /\ LET f == Head(stream[w])
     IN  /\ f.kind = "Error"
         /\ f.req \in claimed[w]
         /\ FreeSlot(w, f.req)
         /\ Deliver(w, f.req, "Failed")
  /\ UNCHANGED reader

\* The awaited send completes: room appeared, or the receiver went away.
Unblock(w) ==
  /\ hold[w] # None
  /\ LET r == hold[w].req
     IN  \/ /\ Listening(r)
            /\ Len(events[r]) < EventCap
            /\ events' = [events EXCEPT ![r] = Append(@, [kind |-> hold[w].kind, from |-> w])]
         \/ /\ ~Listening(r)
            /\ UNCHANGED events
  /\ hold' = [hold EXCEPT ![w] = None]
  /\ UNCHANGED <<clientVars, pending, inFlight, reader, claimed, kernelVars, workerVars>>

\* End of the stream: the process is gone and every frame it wrote was read.
ReadEof(w) ==
  /\ reader[w] = "reading"
  /\ hold[w] = None
  /\ stream[w] = <<>>
  /\ proc[w] = "exited"
  /\ reader' = [reader EXCEPT ![w] = "draining"]
  /\ UNCHANGED <<clientVars, routerVars, claimed, hold, kernelVars, workerVars>>

\* Mutant: the clean-up forgets the counter.
DrainOneUncounted(w, r) ==
  /\ reader[w] = "draining"
  /\ r \in claimed[w]
  /\ claimed' = [claimed EXCEPT ![w] = @ \ {r}]
  /\ pending' = [pending EXCEPT ![r] = Absent]
  /\ IF Listening(r) /\ Len(events[r]) < EventCap
     THEN events' = [events EXCEPT ![r] = Append(@, [kind |-> "Failed", from |-> w])]
     ELSE UNCHANGED events
  /\ UNCHANGED <<clientVars, inFlight, reader, hold, kernelVars, workerVars>>

\* One turn of `for id in claimed.drain()`: try_send does not wait for room.
DrainOne(w, r) ==
  /\ reader[w] = "draining"
  /\ r \in claimed[w]
  /\ FreeSlot(w, r)
  /\ IF Listening(r) /\ Len(events[r]) < EventCap
     THEN events' = [events EXCEPT ![r] = Append(@, [kind |-> "Failed", from |-> w])]
     ELSE UNCHANGED events
  /\ UNCHANGED <<clientVars, reader, hold, kernelVars, workerVars>>

\* reader_task returns; spawn_worker removes the worker and its stream closes.
ReaderExit(w) ==
  /\ reader[w] = "draining"
  /\ claimed[w] = {}
  /\ reader' = [reader EXCEPT ![w] = "off"]
  /\ stream' = [stream EXCEPT ![w] = <<>>]
  /\ UNCHANGED <<clientVars, routerVars, claimed, hold, work, workerVars>>

-----------------------------------------------------------------------------
(* Worker processes. A crash, a kill, a recycle and a retirement all look  *)
(* the same from here: the process exits with whatever it held.            *)

\* Spawn and handshake: a fresh process and stream under id w. The slot of a
\* worker that died young is respawned under the same id.
Spawn(w) ==
  /\ reader[w] = "off"
  /\ proc[w] # "running"
  /\ proc' = [proc EXCEPT ![w] = "running"]
  /\ reader' = [reader EXCEPT ![w] = "reading"]
  /\ job' = [job EXCEPT ![w] = [r \in Requests |-> "none"]]
  /\ ctl' = [ctl EXCEPT ![w] = {}]
  /\ UNCHANGED <<clientVars, routerVars, claimed, hold, kernelVars>>

Exit(w) ==
  /\ proc[w] = "running"
  /\ proc' = [proc EXCEPT ![w] = "exited"]
  /\ job' = [job EXCEPT ![w] = [r \in Requests |-> "none"]]
  /\ ctl' = [ctl EXCEPT ![w] = {}]
  /\ UNCHANGED <<clientVars, routerVars, readerVars, kernelVars>>

\* Requests the worker holds.
Jobs(w) == {r \in Requests : job[w][r] # "none"}

\* A worker below its grant takes the next datagram off the shared socket.
Recv(w) ==
  /\ w \notin Faulty
  /\ proc[w] = "running"
  /\ work # <<>>
  /\ Cardinality(Jobs(w)) < Granted
  /\ job' = [job EXCEPT ![w][Head(work)] = "got"]
  /\ work' = Tail(work)
  /\ UNCHANGED <<clientVars, routerVars, readerVars, stream, proc, ctl>>

\* The worker writes one frame; a stream the router has closed takes nothing.
Write(w, kind, r) ==
  /\ proc[w] = "running"
  /\ IF reader[w] = "reading"
     THEN /\ Len(stream[w]) < StreamCap
          /\ stream' = [stream EXCEPT ![w] = Append(@, [kind |-> kind, req |-> r])]
     ELSE UNCHANGED stream
  /\ UNCHANGED <<clientVars, routerVars, readerVars, work, proc>>

SendClaim(w, r) ==
  /\ job[w][r] = "got"
  /\ Write(w, "Claim", r)
  /\ job' = [job EXCEPT ![w][r] = "run"]
  /\ UNCHANGED ctl

SendData(w, r) ==
  /\ job[w][r] = "run"
  /\ Write(w, "Data", r)
  /\ UNCHANGED <<job, ctl>>

\* Mutant: the worker takes End for the end of the task.
SendEndOnly(w, r) ==
  /\ job[w][r] = "run"
  /\ Write(w, "End", r)
  /\ job' = [job EXCEPT ![w][r] = "none"]
  /\ UNCHANGED ctl

\* End releases the client; the task may go on in the background until Done.
SendEnd(w, r) ==
  /\ job[w][r] = "run"
  /\ Write(w, "End", r)
  /\ job' = [job EXCEPT ![w][r] = "ended"]
  /\ UNCHANGED ctl

SendDone(w, r) ==
  /\ job[w][r] = "ended"
  /\ Write(w, "Done", r)
  /\ job' = [job EXCEPT ![w][r] = "none"]
  /\ UNCHANGED ctl

\* The handler failed: Error is terminal on its own.
SendError(w, r) ==
  /\ job[w][r] \in {"run", "ended"}
  /\ Write(w, "Error", r)
  /\ job' = [job EXCEPT ![w][r] = "none"]
  /\ UNCHANGED ctl

\* An Abort for a task in progress cancels it: Done without End.
ObeyAbort(w, r) ==
  /\ r \in ctl[w]
  /\ job[w][r] \in {"run", "ended"}
  /\ Write(w, "Done", r)
  /\ job' = [job EXCEPT ![w][r] = "none"]
  /\ ctl' = [ctl EXCEPT ![w] = @ \ {r}]

\* An Abort for anything else is stale and ignored.
IgnoreAbort(w, r) ==
  /\ r \in ctl[w]
  /\ proc[w] = "running"
  /\ job[w][r] \in {"none", "got"}
  /\ ctl' = [ctl EXCEPT ![w] = @ \ {r}]
  /\ UNCHANGED <<clientVars, routerVars, readerVars, kernelVars, proc, job>>

\* A buggy module writes a frame for any request, whoever owns it ...
FaultyFrame(w, kind, r) ==
  /\ w \in Faulty
  /\ reader[w] = "reading"
  /\ Write(w, kind, r)
  /\ UNCHANGED <<job, ctl>>

\* ... or takes datagrams it never answers.
FaultyRecv(w) ==
  /\ w \in Faulty
  /\ proc[w] = "running"
  /\ work # <<>>
  /\ work' = Tail(work)
  /\ UNCHANGED <<clientVars, routerVars, readerVars, stream, workerVars>>

-----------------------------------------------------------------------------
ClientNext(r) ==
  \/ Reserve(r) \/ SpillFailed(r) \/ Insert(r) \/ Count(r)
  \/ Send(r) \/ SendFailed(r)
  \/ Receive(r) \/ SeeClosed(r) \/ GiveUp(r) \/ Drop(r)

ReaderNext(w) ==
  \/ DropFrame(w) \/ ReadClaim(w) \/ ReadOverClaim(w) \/ ReadResponse(w)
  \/ ReadDone(w) \/ ReadError(w) \/ Unblock(w) \/ ReadEof(w)
  \/ \E r \in Requests : DrainOne(w, r)
  \/ ReaderExit(w)

WorkerNext(w) ==
  \/ Spawn(w) \/ Exit(w) \/ Recv(w) \/ FaultyRecv(w)
  \/ \E r \in Requests :
       \/ SendClaim(w, r) \/ SendData(w, r) \/ SendEnd(w, r) \/ SendDone(w, r)
       \/ SendError(w, r) \/ ObeyAbort(w, r) \/ IgnoreAbort(w, r)
       \/ \E kind \in FrameKinds : FaultyFrame(w, kind, r)

Next ==
  \/ \E r \in Requests : ClientNext(r)
  \/ \E w \in Workers : ReaderNext(w) \/ WorkerNext(w)

Spec == Init /\ [][Next]_vars

(***************************************************************************)
(* Fairness. Router tasks run whenever they can: the runtime polls every   *)
(* ready task, and each wait of the connection task has a timer; the one   *)
(* relied upon here is first_event_timeout on a request nobody claimed. A  *)
(* worker writes on (strong fairness, because its stream fills and drains) *)
(* and its handlers end their responses. Nothing is assumed of crashes,    *)
(* aborts or disconnections.                                               *)
(***************************************************************************)
Fairness ==
  /\ \A r \in Requests :
       /\ WF_vars(Count(r)) /\ WF_vars(Send(r) \/ SendFailed(r))
       /\ WF_vars(Receive(r)) /\ WF_vars(SeeClosed(r)) /\ WF_vars(Drop(r))
       /\ WF_vars(pending[r] = Unclaimed /\ GiveUp(r))
  /\ \A w \in Workers :
       /\ WF_vars(ReaderNext(w))
       /\ \A r \in Requests :
            SF_vars(SendClaim(w, r)) /\ SF_vars(SendEnd(w, r)) /\ SF_vars(SendDone(w, r))

FairSpec == Spec /\ Fairness

-----------------------------------------------------------------------------
(* Types of every variable; -1 is a wrapped in_flight. *)
TypeOK ==
  /\ client \in [Requests -> ClientStates]
  /\ outcome \in [Requests -> Outcomes]
  /\ permits \in Nat
  /\ pending \in [Requests -> Workers \cup {Absent, Unclaimed}]
  /\ inFlight \in Int
  /\ events \in [Requests -> Seq(Events)]
  /\ reader \in [Workers -> {"off", "reading", "draining"}]
  /\ claimed \in [Workers -> SUBSET Requests]
  /\ hold \in [Workers -> Held \cup {None}]
  /\ work \in Seq(Requests)
  /\ stream \in [Workers -> Seq(Frames)]
  /\ proc \in [Workers -> {"none", "running", "exited"}]
  /\ job \in [Workers -> [Requests -> {"none", "got", "run", "ended"}]]
  /\ ctl \in [Workers -> SUBSET Requests]

(* The table and the readers agree on who owns what: an entry of `pending` *)
(* names worker w exactly when the request is in the claimed set of w's    *)
(* reader. No slot is leaked and none is freed behind its owner's back.    *)
(* The exception is a buggy worker that claims an id before its datagram   *)
(* is sent: when that send fails, submit withdraws the entry regardless.   *)
SlotLedger ==
  \A r \in Requests, w \in Workers :
    /\ pending[r] = w => r \in claimed[w]
    /\ r \in claimed[w] => pending[r] = w \/ (w \in Faulty /\ outcome[r] = "unsent")

(* in_flight counts the entries of `pending`, less those inserted and not  *)
(* counted yet, whatever mix of Done, Error, drop and worker death freed   *)
(* them: no path frees an entry twice or forgets the counter.              *)
InFlightExact ==
  inFlight = Cardinality({r \in Requests : pending[r] # Absent})
           - Cardinality({r \in Requests : client[r] = "inserted"})

(* No worker, a buggy one included, owns more requests than its grant. *)
GrantRespected ==
  \A w \in Workers : Cardinality(claimed[w]) <= Granted

(* Workers with an event for r in r's channel or on its way there. *)
Answerers(r) ==
  {events[r][i].from : i \in DOMAIN events[r]}
    \cup {w \in Workers : hold[w] # None /\ hold[w].req = r}

(* A client is answered by one worker: the events of a request never come  *)
(* from two workers, even when a buggy one writes frames for ids it does   *)
(* not own (the gate at the top of reader_task).                           *)
OneAnswerer ==
  \A r \in Requests : \A v, w \in Answerers(r) : v = w

(* Entries nobody claimed are bounded by queue.max: each is held open by a *)
(* connection task with a permit, through every timeout and abandonment.   *)
BoundedBacklog ==
  Cardinality({r \in Requests : pending[r] = Unclaimed}) <= QueueMax

(* A worker that follows the protocol is never killed for over-claiming:   *)
(* when the router reads its Claim, the Done of an earlier task has been   *)
(* read already.                                                           *)
NoUnjustKill ==
  \A w \in Workers \ Faulty :
    CanRead(w) /\ Head(stream[w]).kind = "Claim" => Cardinality(claimed[w]) < Granted

(* A claimed task ends only by its owner: by that worker's own Done or     *)
(* Error, or by its reader's clean-up. Ownership is never transferred and  *)
(* a client that leaves does not free a claimed slot. (A request claimed   *)
(* by a buggy worker before it was sent can still be withdrawn by submit.) *)
OwnerEndsTask ==
  [][\A r \in Requests, w \in Workers :
       pending[r] = w /\ pending'[r] # w =>
         /\ pending'[r] = Absent
         /\ \/ reader[w] = "draining"
            \/ w \in Faulty /\ client[r] = "sending"
            \/ /\ CanRead(w)
               /\ Head(stream[w]).req = r
               /\ Head(stream[w]).kind \in {"Done", "Error"}]_vars

(* Every slot is freed in the end, through crashes, abandoned clients,     *)
(* full channels and lost datagrams.                                       *)
SlotFreed ==
  \A r \in Requests : pending[r] # Absent ~> pending[r] = Absent

(* The clean-up of reader_task: "every request it claimed but never        *)
(* finished fails". Taken at its word, a client that is still waiting is   *)
(* told Failed and never sees its channel merely close.                    *)
LossIsReported ==
  \A r \in Requests : outcome[r] # "closed"
=============================================================================
