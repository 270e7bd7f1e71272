----------------------------- MODULE EchoWorker -----------------------------
(***************************************************************************)
(* The event-loop worker (buran-echo, worker.rs), the reference for every  *)
(* runtime that serves many requests at once: a main loop that holds a     *)
(* semaphore permit before it takes a datagram, one handler task per       *)
(* request, one writer task behind a bounded channel, and one reader task  *)
(* (route_bodies) that feeds the handlers and answers Ping and Abort.      *)
(*                                                                         *)
(* The runtime has a single thread: a task runs undisturbed from one await *)
(* to the next, and such a stretch is one action here. Senders that wait   *)
(* for room in the writer's channel are served in order. That channel and  *)
(* the stream behind it are one queue, `out`; the frames a handler writes  *)
(* with one send are one entry of it. The router is its reader.            *)
(***************************************************************************)
EXTENDS Integers, Sequences, FiniteSets, SequencesExt

CONSTANTS
  Requests,    \* requests whose datagrams may arrive
  Streamed,    \* those with FLAG_BODY_STREAM
  Tunnels,     \* those with FLAG_UPGRADE
  Granted,     \* the granted concurrency: permits of the semaphore
  MaxRequests, \* limits.requests, 0 for none
  Chunks,      \* chunks that make up a whole streamed body
  BodyCap,     \* capacity of a request's inbound channel (8 in the code)
  OutCap,      \* room in the writer's channel and the stream
  DownCap,     \* frames the stream buffers on its way to the worker
  MayClose,    \* TRUE: the router may close the stream
  None         \* nothing in hand

ASSUME EchoAssumption ==
  /\ IsFiniteSet(Requests)
  /\ Streamed \subseteq Requests /\ Tunnels \subseteq Requests
  /\ Streamed \cap Tunnels = {}
  /\ {Granted, Chunks, BodyCap, OutCap, DownCap} \subseteq Nat \ {0}
  /\ MaxRequests \in Nat
  /\ MayClose \in BOOLEAN

VARIABLES
  main,      \* where the main loop is
  permits,   \* free permits of the semaphore
  served,    \* requests taken so far
  handler,   \* the handler task of each request
  got,       \* chunks a streamed request has received
  bodies,    \* BodyRoutes: requests with an inbound channel
  inflight,  \* InFlight: requests with an abort handle
  chan,      \* the inbound channel of each request
  reader,    \* the reader task
  hold,      \* the item it waits to put in a full channel
  waiting,   \* senders waiting for room, in order
  out,       \* entries written and not yet read by the router
  down,      \* frames on their way to the worker
  fresh,     \* datagrams nobody has taken
  upload,    \* what the router still has to send of a request
  slot,      \* the entry of each request in the router's pending table
  claimed,   \* reader_task's set in the router
  held,      \* history: what the stream, as far as read, says the worker holds
  linked     \* the router has not closed the stream

mainVars    == <<main, permits, served>>
handlerVars == <<handler, got, bodies, inflight, chan>>
readerVars  == <<reader, hold>>
outVars     == <<waiting, out>>
routerVars  == <<down, fresh, upload, slot, claimed, held, linked>>
vars == <<mainVars, handlerVars, readerVars, outVars, routerVars>>

MainStates    == {"acquire", "recv", "claiming", "drain", "flush", "exited"}
HandlerStates == {"none", "new", "reading", "accepting", "mirroring", "echoing",
                  "sending", "aborting"}
Inbound       == {"Chunk", "Last", "Msg", "Close"}
SlotStates    == {"awaited", "taken", "dropped"}
LastKinds     == {"Reply", "Error", "End"}
HandlerKinds  == LastKinds \cup {"Accept", "Message"}
ReaderKinds   == {"Pong", "Cancelled"}
Entries       == [kind : HandlerKinds \cup ReaderKinds \cup {"Claim"}, req : Requests]
DownFrames    == [kind : Inbound \cup {"Ping", "Abort"}, req : Requests]

\* Entries that carry the Done or the Error of a request.
Endings == LastKinds \cup {"Cancelled"}

Init ==
  /\ main = "acquire" /\ permits = Granted /\ served = 0
  /\ handler = [r \in Requests |-> "none"]
  /\ got = [r \in Requests |-> 0]
  /\ bodies = {} /\ inflight = {}
  /\ chan = [r \in Requests |-> <<>>]
  /\ reader = "reading" /\ hold = None
  /\ waiting = <<>> /\ out = <<>> /\ down = <<>>
  /\ fresh = Requests
  /\ upload = [r \in Requests |-> 0]
  /\ slot = [r \in Requests |-> "awaited"]
  /\ claimed = {} /\ held = {}
  /\ linked = TRUE

\* A task arrives at out.send(..).await.
Await(kind, r) == waiting' = Append(waiting, [kind |-> kind, req |-> r])

\* A handler that is cancelled where it waits, with one entry at most.
Without(queue, r) ==
  LET own == {i \in 1..Len(queue) : queue[i].req = r /\ queue[i].kind \in HandlerKinds}
  IN  IF own = {} THEN queue ELSE RemoveAt(queue, CHOOSE i \in own : TRUE)

\* It is the turn of a sender of this kind, and there is room.
Sends(kind, r) ==
  /\ linked /\ waiting # <<>> /\ Head(waiting) = [kind |-> kind, req |-> r]
  /\ Len(out) < OutCap
  /\ out' = Append(out, Head(waiting))

-----------------------------------------------------------------------------
(* The main loop.                                                          *)

\* No free permit, no recv.
Acquire ==
  /\ main = "acquire" /\ permits > 0
  /\ main' = "recv"
  /\ permits' = permits - 1
  /\ UNCHANGED <<served, handlerVars, readerVars, outVars, routerVars>>

\* A Request datagram: the inbound route exists before the Claim goes out.
Recv(r) ==
  /\ main = "recv" /\ r \in fresh
  /\ fresh' = fresh \ {r}
  /\ bodies' = IF r \in Streamed \cup Tunnels THEN bodies \cup {r} ELSE bodies
  /\ main' = "claiming"
  /\ Await("Claim", r)
  /\ UNCHANGED <<permits, served, handler, got, inflight, chan, readerVars, out,
                 down, upload, slot, claimed, held, linked>>

\* A datagram that cannot be decoded is dropped and the permit with it.
DropDatagram(r) ==
  /\ main = "recv" /\ r \in fresh
  /\ fresh' = fresh \ {r}
  /\ main' = "acquire" /\ permits' = permits + 1
  /\ UNCHANGED <<served, handlerVars, readerVars, outVars, down, upload, slot, claimed, held, linked>>

TakeRetire ==
  /\ main = "recv"
  /\ main' = "drain" /\ permits' = permits + 1
  /\ UNCHANGED <<served, handlerVars, readerVars, outVars, routerVars>>

\* The Claim is in the channel: spawn the handler with the permit, enter its
\* abort handle, and go on unless limits.requests is reached.
SendClaim(r) ==
  /\ Sends("Claim", r) /\ waiting' = Tail(waiting)
  /\ handler' = [handler EXCEPT ![r] = "new"]
  /\ inflight' = inflight \cup {r}
  /\ served' = served + 1
  /\ main' = IF MaxRequests > 0 /\ served + 1 >= MaxRequests THEN "drain" ELSE "acquire"
  /\ UNCHANGED <<permits, got, bodies, chan, readerVars, routerVars>>

\* Every permit is back: drop the loop's sender and wait for the writer.
Drain ==
  /\ main = "drain" /\ permits = Granted
  /\ main' = "flush"
  /\ UNCHANGED <<permits, served, handlerVars, readerVars, outVars, routerVars>>

\* The writer ends when no sender is left. The reader task owns one.
Flushed ==
  /\ main = "flush" /\ reader = "gone"
  /\ main' = "exited"
  /\ UNCHANGED <<permits, served, handlerVars, readerVars, outVars, routerVars>>

-----------------------------------------------------------------------------
(* Handlers. An aborted handler does nothing but disappear.                *)

\* First poll: a plain request is answered at once, well or badly.
Begin(r) ==
  /\ handler[r] = "new"
  /\ \/ /\ r \in Streamed
        /\ handler' = [handler EXCEPT ![r] = "reading"]
        /\ UNCHANGED waiting
     \/ /\ r \in Tunnels
        /\ handler' = [handler EXCEPT ![r] = "accepting"]
        /\ Await("Accept", r)
     \/ /\ r \notin Streamed \cup Tunnels
        /\ handler' = [handler EXCEPT ![r] = "sending"]
        /\ \E kind \in {"Reply", "Error"} : Await(kind, r)
  /\ UNCHANGED <<mainVars, got, bodies, inflight, chan, readerVars, out, routerVars>>

\* Mutant: the terminator of a body that is short is skipped.
TakeChunkSkips(r) ==
  /\ handler[r] = "reading" /\ chan[r] # <<>>
  /\ LET chunk == Head(chan[r]) = "Chunk"
     IN  /\ got' = IF chunk THEN [got EXCEPT ![r] = @ + 1] ELSE got
         /\ chan' = [chan EXCEPT ![r] = Tail(@)]
         /\ IF chunk /\ got[r] + 1 = Chunks
            THEN /\ Await("Reply", r)
                 /\ handler' = [handler EXCEPT ![r] = "sending"]
            ELSE UNCHANGED <<waiting, handler>>
  /\ UNCHANGED <<mainVars, bodies, inflight, readerVars, out, routerVars>>

\* read_body: until the body is whole or its terminator comes early.
TakeChunk(r) ==
  /\ handler[r] = "reading" /\ chan[r] # <<>>
  /\ LET whole == got[r] + 1 = Chunks
     IN  IF Head(chan[r]) = "Chunk"
         THEN /\ got' = [got EXCEPT ![r] = @ + 1]
              /\ IF whole
                 THEN /\ Await("Reply", r)
                      /\ handler' = [handler EXCEPT ![r] = "sending"]
                      /\ chan' = [chan EXCEPT ![r] = <<>>]
                 ELSE /\ chan' = [chan EXCEPT ![r] = Tail(@)]
                      /\ UNCHANGED <<waiting, handler>>
         ELSE /\ Await("Error", r)
              /\ handler' = [handler EXCEPT ![r] = "sending"]
              /\ chan' = [chan EXCEPT ![r] = <<>>]
              /\ UNCHANGED got
  /\ UNCHANGED <<mainVars, bodies, inflight, readerVars, out, routerVars>>

\* ws_session: the 101, the echo of each message, the answer to a close.
SendAccept(r) ==
  /\ Sends("Accept", r) /\ waiting' = Tail(waiting)
  /\ handler' = [handler EXCEPT ![r] = "mirroring"]
  /\ UNCHANGED <<mainVars, got, bodies, inflight, chan, readerVars, routerVars>>

TakeMessage(r) ==
  /\ handler[r] = "mirroring" /\ chan[r] # <<>>
  /\ chan' = [chan EXCEPT ![r] = Tail(@)]
  /\ LET close == Head(chan[r]) = "Close"
     IN  /\ Await(IF close THEN "End" ELSE "Message", r)
         /\ handler' = [handler EXCEPT ![r] = IF close THEN "sending" ELSE "echoing"]
  /\ UNCHANGED <<mainVars, got, bodies, inflight, readerVars, out, routerVars>>

SendMessage(r) ==
  /\ Sends("Message", r) /\ waiting' = Tail(waiting)
  /\ handler' = [handler EXCEPT ![r] = "mirroring"]
  /\ UNCHANGED <<mainVars, got, bodies, inflight, chan, readerVars, routerVars>>

\* The end of the handler's task: both tables are cleared, the permit drops.
TaskEnds(r) ==
  /\ handler' = [handler EXCEPT ![r] = "none"]
  /\ bodies' = bodies \ {r} /\ inflight' = inflight \ {r}
  /\ chan' = [chan EXCEPT ![r] = <<>>]
  /\ permits' = permits + 1

\* Mutant: the task forgets its abort handle.
SendLastStays(r) ==
  /\ \E kind \in LastKinds : Sends(kind, r)
  /\ waiting' = Tail(waiting)
  /\ handler' = [handler EXCEPT ![r] = "none"]
  /\ bodies' = bodies \ {r}
  /\ chan' = [chan EXCEPT ![r] = <<>>]
  /\ permits' = permits + 1
  /\ UNCHANGED <<main, served, got, inflight, readerVars, routerVars>>

\* The whole response, with End and Done or with Error, in one send.
SendLast(r) ==
  /\ \E kind \in LastKinds : Sends(kind, r)
  /\ waiting' = Tail(waiting)
  /\ TaskEnds(r)
  /\ UNCHANGED <<main, served, got, readerVars, routerVars>>

\* An aborted task is dropped the next time the runtime looks at it.
DropHandler(r) ==
  /\ handler[r] = "aborting"
  /\ handler' = [handler EXCEPT ![r] = "none"]
  /\ permits' = permits + 1
  /\ chan' = [chan EXCEPT ![r] = <<>>]
  /\ UNCHANGED <<main, served, got, bodies, inflight, readerVars, outVars, routerVars>>

\* The writer is gone: a send fails, the main loop breaks, a handler returns.
SendFails ==
  /\ ~linked /\ waiting # <<>>
  /\ waiting' = Tail(waiting)
  /\ LET e == Head(waiting)
     IN  \/ /\ e.kind = "Claim"
            /\ main' = "drain" /\ permits' = permits + 1
            /\ UNCHANGED <<handler, bodies, inflight, chan, reader>>
         \/ /\ e.kind \in HandlerKinds
            /\ TaskEnds(e.req)
            /\ UNCHANGED <<main, reader>>
         \/ /\ e.kind \in ReaderKinds
            /\ reader' = "reading"
            /\ UNCHANGED <<main, permits, handler, bodies, inflight, chan>>
  /\ UNCHANGED <<served, got, hold, out, routerVars>>

-----------------------------------------------------------------------------
(* route_bodies.                                                           *)

TakeDown ==
  /\ reader = "reading" /\ hold = None /\ down # <<>>
  /\ down' = Tail(down)
  /\ UNCHANGED <<fresh, upload, slot, claimed, held, linked, out>>

\* The receiving end of r's channel exists: read_body drops it when it is done.
HasReceiver(r) ==
  handler[r] \in {"new", "reading", "accepting", "mirroring", "echoing"}
    \/ (handler[r] = "sending" /\ r \in Tunnels)

\* RequestBody and WsMessage frames go to the request's channel, if any; a
\* full channel holds the reader up.
Route ==
  /\ TakeDown
  /\ LET f == Head(down)
     IN  /\ f.kind \in Inbound
         /\ \/ /\ f.req \notin bodies \/ ~HasReceiver(f.req)
               /\ UNCHANGED <<chan, hold>>
            \/ /\ f.req \in bodies /\ HasReceiver(f.req) /\ Len(chan[f.req]) < BodyCap
               /\ chan' = [chan EXCEPT ![f.req] = Append(@, f.kind)]
               /\ UNCHANGED hold
            \/ /\ f.req \in bodies /\ HasReceiver(f.req) /\ Len(chan[f.req]) >= BodyCap
               /\ hold' = f
               /\ UNCHANGED chan
  /\ UNCHANGED <<mainVars, handler, got, bodies, inflight, reader, waiting>>

Unhold ==
  /\ hold # None
  /\ \/ /\ HasReceiver(hold.req) /\ Len(chan[hold.req]) < BodyCap
        /\ chan' = [chan EXCEPT ![hold.req] = Append(@, hold.kind)]
     \/ /\ ~HasReceiver(hold.req)
        /\ UNCHANGED chan
  /\ hold' = None
  /\ UNCHANGED <<mainVars, handler, got, bodies, inflight, reader, outVars, routerVars>>

AnswerPing ==
  /\ TakeDown /\ Head(down).kind = "Ping"
  /\ reader' = "sending"
  /\ Await("Pong", Head(down).req)
  /\ UNCHANGED <<mainVars, handlerVars, hold>>

\* Mutant: the handler is aborted whether or not it is still in the table.
ObeyAbortAny ==
  /\ TakeDown /\ Head(down).kind = "Abort"
  /\ LET r == Head(down).req
     IN  /\ inflight' = inflight \ {r} /\ bodies' = bodies \ {r}
         /\ handler' = [handler EXCEPT ![r] = IF @ = "none" THEN "none" ELSE "aborting"]
         /\ waiting' = Append(Without(waiting, r), [kind |-> "Cancelled", req |-> r])
         /\ reader' = "sending"
  /\ UNCHANGED <<mainVars, got, chan, hold>>

\* Abort: take the handle out of the table, cancel the handler wherever it
\* waits, and report Done in its place. No handle: nothing to do.
ObeyAbort ==
  /\ TakeDown /\ Head(down).kind = "Abort"
  /\ LET r == Head(down).req
     IN  IF r \in inflight
         THEN /\ inflight' = inflight \ {r} /\ bodies' = bodies \ {r}
              /\ handler' = [handler EXCEPT ![r] = "aborting"]
              /\ waiting' = Append(Without(waiting, r), [kind |-> "Cancelled", req |-> r])
              /\ reader' = "sending"
         ELSE UNCHANGED <<inflight, bodies, handler, waiting, reader>>
  /\ UNCHANGED <<mainVars, got, chan, hold>>

SendFromReader(r) ==
  /\ \E kind \in ReaderKinds : Sends(kind, r)
  /\ waiting' = Tail(waiting)
  /\ reader' = "reading"
  /\ UNCHANGED <<mainVars, handlerVars, hold, routerVars>>

\* End of the stream.
ReaderEnds ==
  /\ reader = "reading" /\ hold = None /\ down = <<>> /\ ~linked
  /\ reader' = "gone"
  /\ UNCHANGED <<mainVars, handlerVars, hold, outVars, routerVars>>

-----------------------------------------------------------------------------
(* The router, as this worker sees it.                                     *)

\* remove_if_unclaimed: the client's ResponseStream is dropped (a timeout, a
\* disconnect) before a worker claims the request, and its body with it.
RouterDrops(r) ==
  /\ slot[r] = "awaited"
  /\ slot' = [slot EXCEPT ![r] = "dropped"]
  /\ UNCHANGED <<mainVars, handlerVars, readerVars, outVars, down, fresh, upload,
                 claimed, held, linked>>

\* reader_task: the Claim of a request that waits for one enters the set, any
\* other is ignored; Done and Error leave it, and frames of a request outside
\* the set are discarded. With the Claim the body can be pumped, with the 101
\* messages can be sent.
RouterReads ==
  /\ out # <<>>
  /\ out' = Tail(out)
  /\ LET e == Head(out)
         accepted == e.kind = "Claim" /\ slot[e.req] = "awaited"
     IN  /\ slot' = IF accepted THEN [slot EXCEPT ![e.req] = "taken"] ELSE slot
         /\ claimed' = IF accepted THEN claimed \cup {e.req}
                       ELSE IF e.kind \in Endings THEN claimed \ {e.req}
                       ELSE claimed
         /\ held' = IF e.kind = "Claim" THEN held \cup {e.req}
                    ELSE IF e.kind \in Endings THEN held \ {e.req}
                    ELSE held
         /\ upload' = IF \/ accepted /\ e.req \in Streamed
                         \/ e.kind = "Accept" /\ e.req \in claimed
                      THEN [upload EXCEPT ![e.req] = Chunks + 1]
                      ELSE upload
  /\ UNCHANGED <<mainVars, handlerVars, readerVars, waiting, down, fresh, linked>>

Write(kind, r) ==
  /\ linked /\ main # "exited"
  /\ Len(down) < DownCap
  /\ down' = Append(down, [kind |-> kind, req |-> r])
  /\ UNCHANGED <<mainVars, handlerVars, readerVars, outVars, fresh, slot, claimed, held, linked>>

\* pump_body: the chunks, then the terminator; early if the client leaves.
Upload(r) ==
  /\ r \in Streamed /\ upload[r] > 0
  /\ \/ /\ upload[r] > 1
        /\ Write("Chunk", r)
        /\ upload' = [upload EXCEPT ![r] = @ - 1]
     \/ /\ Write("Last", r)
        /\ upload' = [upload EXCEPT ![r] = 0]

\* send_ws: messages, then one close.
Message(r) ==
  /\ r \in Tunnels /\ upload[r] > 0
  /\ \/ Write("Msg", r) /\ UNCHANGED upload
     \/ Write("Close", r) /\ upload' = [upload EXCEPT ![r] = 0]

\* abort_task and probe: the task was claimed when they looked, and may have
\* ended by the time they have their turn to write.
Control(kind, r) ==
  /\ slot[r] = "taken"
  /\ Write(kind, r)
  /\ UNCHANGED upload

RouterCloses ==
  /\ MayClose /\ linked
  /\ linked' = FALSE
  /\ out' = <<>> /\ claimed' = {} /\ held' = {}
  /\ upload' = [r \in Requests |-> 0]
  /\ UNCHANGED <<mainVars, handlerVars, readerVars, waiting, down, fresh, slot>>

-----------------------------------------------------------------------------
MainNext ==
  \/ Acquire \/ TakeRetire \/ Drain \/ Flushed
  \/ \E r \in Requests : Recv(r) \/ DropDatagram(r) \/ SendClaim(r)

HandlerNext(r) ==
  \/ Begin(r) \/ TakeChunk(r) \/ SendAccept(r) \/ TakeMessage(r) \/ SendMessage(r)
  \/ SendLast(r) \/ DropHandler(r)

ReaderNext ==
  \/ Route \/ Unhold \/ AnswerPing \/ ObeyAbort \/ ReaderEnds
  \/ \E r \in Requests : SendFromReader(r)

RouterNext ==
  \/ RouterReads \/ RouterCloses
  \/ \E r \in Requests :
       RouterDrops(r) \/ Upload(r) \/ Message(r) \/ \E kind \in {"Ping", "Abort"} : Control(kind, r)

Next ==
  \/ MainNext \/ SendFails \/ ReaderNext \/ RouterNext
  \/ \E r \in Requests : HandlerNext(r)

Spec == Init /\ [][Next]_vars

(***************************************************************************)
(* Fairness. Ready tasks of the worker run; the router reads what the      *)
(* worker writes and, competing for room with its other writes, sends the  *)
(* rest of a body. It need not send messages, a close, Pings or Aborts.    *)
(***************************************************************************)
Fairness ==
  /\ WF_vars(Acquire) /\ WF_vars(Drain) /\ WF_vars(Flushed)
  /\ WF_vars(SendFails) /\ WF_vars(ReaderNext) /\ WF_vars(RouterReads)
  /\ \A r \in Requests :
       WF_vars(SendClaim(r)) /\ WF_vars(HandlerNext(r)) /\ SF_vars(Upload(r))

FairSpec == Spec /\ Fairness

-----------------------------------------------------------------------------
(* Types of every variable. *)
TypeOK ==
  /\ main \in MainStates /\ permits \in 0..Granted /\ served \in 0..Cardinality(Requests)
  /\ handler \in [Requests -> HandlerStates]
  /\ got \in [Requests -> 0..Chunks]
  /\ bodies \subseteq Requests /\ inflight \subseteq Requests
  /\ chan \in [Requests -> Seq(Inbound)]
  /\ reader \in {"reading", "sending", "gone"}
  /\ hold \in DownFrames \cup {None}
  /\ waiting \in Seq(Entries) /\ out \in Seq(Entries) /\ down \in Seq(DownFrames)
  /\ fresh \subseteq Requests /\ claimed \subseteq Requests /\ held \subseteq Requests
  /\ slot \in [Requests -> SlotStates]
  /\ upload \in [Requests -> 0..(Chunks + 1)]
  /\ linked \in BOOLEAN

(* The contract of buran-ipc: at no point of the stream does the worker    *)
(* hold more claimed and unfinished requests than it was granted, counting *)
(* those whose Claim the router ignores. An Abort frees a permit while its *)
(* Done still waits for room, and a Claim must not overtake that Done:     *)
(* reader_task would kill the worker.                                      *)
ClaimFits ==
  out # <<>> /\ Head(out).kind = "Claim" => Cardinality(held) < Granted

(* A request is ended once: a handler that is aborted as it finishes, or   *)
(* an Abort that comes too late, does not lead to a second Done. The Done  *)
(* or Error ends a Claim written before it, accepted by the router or not. *)
EndsOnce ==
  out # <<>> /\ Head(out).kind \in Endings => Head(out).req \in held

(* The router holds for claimed what the worker holds, except for the      *)
(* requests that were abandoned before their Claim was read.               *)
ClaimsMatch == claimed = {r \in held : slot[r] = "taken"}

(* The permits account for every handler, the aborted ones included, and   *)
(* for the request the main loop is busy with.                             *)
PermitsAccount ==
  permits + Cardinality({r \in Requests : handler[r] # "none"})
          + (IF main \in {"recv", "claiming"} THEN 1 ELSE 0) = Granted

(* An abort handle is in the table exactly while the handler can be        *)
(* aborted, so a Ping about a finished task is answered idle.              *)
HandlesMatch ==
  \A r \in Requests : r \in inflight <=> handler[r] \notin {"none", "aborting"}

(* The ledgers of both sides (the router's claims, what the stream says    *)
(* the worker holds, the semaphore, the table of handles) keep in step     *)
(* through Aborts, Retires, abandoned requests and full channels.          *)
LedgersAgree == TypeOK /\ ClaimFits /\ ClaimsMatch /\ PermitsAccount /\ HandlesMatch

(* Every claim the router holds on an upload is ended, and every plain     *)
(* request, abandoned or not, through cut bodies, full channels and Aborts.*)
ClaimsEnd ==
  /\ \A r \in Streamed : r \in claimed ~> r \notin claimed
  /\ \A r \in Requests \ (Streamed \cup Tunnels) : r \in held ~> r \notin held

(* buran-ipc on tunnels: "A close from the client arrives as               *)
(* WsMessage/WS_OP_CLOSE and the worker must answer End".                  *)
CloseAnswered ==
  \A r \in Tunnels :
    (\E i \in DOMAIN down : down[i] = [kind |-> "Close", req |-> r]) ~> r \notin claimed

(* A claim ends: a request's by itself, a tunnel's by the client's close.  *)
EveryClaimEnds == ClaimsEnd /\ CloseAnswered

(* The head of worker.rs: "stop taking work, finish every claimed request, *)
(* then exit (stream EOF tells the router)".                               *)
DrainCompletes == main = "drain" ~> main = "exited"

(* reader_task on a Claim that comes too late: "the worker serves it into   *)
(* the void". An upload or a tunnel is not served but waits for a body or  *)
(* messages that nobody will send, and no sweep ever sees it.              *)
ServedIntoVoid ==
  \A r \in Requests :
    slot[r] = "dropped" /\ handler[r] # "none" ~> handler[r] = "none" \/ ~linked

(* The comment in route_bodies: "router gone; in-flight handlers finish on *)
(* their own".                                                             *)
HandlersFinish ==
  \A r \in Requests : ~linked /\ handler[r] # "none" ~> handler[r] = "none"
=============================================================================
