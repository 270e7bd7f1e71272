------------------------------- MODULE Tunnel -------------------------------
(***************************************************************************)
(* A WebSocket tunnel from end to end: the connection task (buran-router,  *)
(* http1.rs, dispatch_to_app and ws_tunnel), the worker's reader_task with *)
(* its bounded event channels (dispatch.rs), and the event-loop worker of  *)
(* module EchoWorker, which mirrors every message it gets.                 *)
(*                                                                         *)
(* The worker's actions are those of EchoWorker; its abstract router is    *)
(* replaced by the real tasks. EchoSafety says that these tasks do nothing *)
(* the worker's model does not expect of a router.                         *)
(*                                                                         *)
(* The connection task does one thing at a time: while it waits to write   *)
(* to the worker it neither reads from the client nor takes events. Its    *)
(* writes to the client are bounded by send_timeout and are one step here, *)
(* which succeeds or fails.                                                *)
(***************************************************************************)
EXTENDS EchoWorker

CONSTANTS
  MaxMsgs,   \* messages a client sends in all
  Batch,     \* whole messages one read from the client may bring
  EventCap   \* capacity of a request's event channel (8 in the code)

ASSUME TunnelAssumption ==
  /\ Requests = Tunnels
  /\ {MaxMsgs, Batch, EventCap} \subseteq Nat \ {0}

VARIABLES
  conn,    \* the connection task of each tunnel
  inbox,   \* messages it has read and not handled
  sent,    \* messages it wrote to the worker
  back,    \* messages it wrote to the client
  events,  \* the event channel of each tunnel
  stuck,   \* the event reader_task waits to put in a full channel
  swept    \* tunnels the sweep has sent an Abort for

connVars   == <<conn, inbox, sent, back, swept>>
workerVars == <<mainVars, handlerVars, readerVars, waiting, fresh>>
tunnelVars == <<connVars, events, stuck>>
allVars    == <<vars, tunnelVars>>

ConnStates == {"offered", "open", "sending", "closing", "aborting", "closed"}
EventKinds == {"Accept", "Message", "End", "Failed"}

\* None stands for no frame and no event.
ASSUME NoneAssumption == None \notin DownFrames \cup [kind : EventKinds, req : Tunnels]

TunnelInit ==
  /\ Init
  /\ conn = [t \in Tunnels |-> "offered"]
  /\ inbox = [t \in Tunnels |-> 0]
  /\ sent = [t \in Tunnels |-> 0]
  /\ back = [t \in Tunnels |-> 0]
  /\ events = [t \in Tunnels |-> <<>>]
  /\ stuck = None
  /\ swept = {}

-----------------------------------------------------------------------------
(* reader_task.                                                            *)

\* The event a frame becomes; Done tells the client what End would.
EventOf(kind) == CASE kind = "Accept" -> "Accept" [] kind = "Message" -> "Message"
                   [] kind = "Error" -> "Failed" [] OTHER -> "End"

Listening(t) == conn[t] # "closed"

\* Mutant: a full channel loses the event.
DeliverLossy(t, kind) ==
  /\ UNCHANGED stuck
  /\ events' = IF Listening(t) /\ Len(events[t]) < EventCap
               THEN [events EXCEPT ![t] = Append(@, kind)] ELSE events

\* sender.send(event).await: dropped, queued, or in the reader's hand.
Deliver(t, kind) ==
  \/ ~Listening(t) /\ UNCHANGED <<events, stuck>>
  \/ /\ Listening(t) /\ Len(events[t]) < EventCap
     /\ events' = [events EXCEPT ![t] = Append(@, kind)]
     /\ UNCHANGED stuck
  \/ /\ Listening(t) /\ Len(events[t]) >= EventCap
     /\ stuck' = [req |-> t, kind |-> kind]
     /\ UNCHANGED events

\* One frame: Claim and Pong are for the router itself, and a frame of a
\* tunnel it does not hold for claimed is discarded.
ReaderTakes ==
  /\ stuck = None
  /\ RouterReads
  /\ LET e == Head(out)
     IN  IF e.kind \in {"Claim", "Pong"} \/ e.req \notin claimed
         THEN UNCHANGED <<events, stuck>>
         ELSE Deliver(e.req, EventOf(e.kind))
  /\ UNCHANGED connVars

ReaderUnblocks ==
  /\ stuck # None
  /\ \/ ~Listening(stuck.req) /\ UNCHANGED events
     \/ /\ Listening(stuck.req) /\ Len(events[stuck.req]) < EventCap
        /\ events' = [events EXCEPT ![stuck.req] = Append(@, stuck.kind)]
  /\ stuck' = None
  /\ UNCHANGED <<vars, connVars>>

\* The stream ends: every claimed request fails, if its channel has room.
ReaderLeaves ==
  /\ stuck = None
  /\ RouterCloses
  /\ events' = [t \in Tunnels |->
                  IF t \in claimed /\ Listening(t) /\ Len(events[t]) < EventCap
                  THEN Append(events[t], "Failed") ELSE events[t]]
  /\ UNCHANGED <<connVars, stuck>>

-----------------------------------------------------------------------------
(* The connection task.                                                    *)

\* It returns; the ResponseStream and the receiving end go with it.
Leave(t) ==
  /\ conn' = [conn EXCEPT ![t] = "closed"]
  /\ events' = [events EXCEPT ![t] = <<>>]
  /\ inbox' = [inbox EXCEPT ![t] = 0]

NextEvent(t, kind) == events[t] # <<>> /\ Head(events[t]) = kind
DropEvent(t) == events' = [events EXCEPT ![t] = Tail(@)]

\* recv returns None: nothing is queued and no sender is left.
Closed(t) ==
  events[t] = <<>> /\ t \notin claimed /\ ~(stuck # None /\ stuck.req = t)

\* dispatch_to_app: the 101 opens the tunnel, unless its own 101 cannot be
\* written; any other first event is a 502. Silence is a 504: an Abort if a worker has
\* claimed the request, or else its slot is free and a later Claim ignored.
Open(t) ==
  /\ conn[t] = "offered"
  /\ \/ /\ NextEvent(t, "Accept")
        /\ DropEvent(t)
        /\ conn' = [conn EXCEPT ![t] = "open"]
        /\ UNCHANGED inbox
     \/ events[t] # <<>> /\ Leave(t)
  /\ UNCHANGED <<vars, sent, back, stuck, swept>>

FirstEventTimeout(t) ==
  /\ conn[t] = "offered" /\ events[t] = <<>>
  /\ \/ /\ t \in claimed
        /\ conn' = [conn EXCEPT ![t] = "aborting"]
        /\ UNCHANGED <<vars, events, inbox>>
     \/ /\ t \notin claimed
        /\ Leave(t)
        /\ IF slot[t] = "awaited" THEN RouterDrops(t) ELSE UNCHANGED vars
  /\ UNCHANGED <<sent, back, stuck, swept>>

\* select!, first arm: a read brings some whole messages, all of which are
\* handled before the next select ...
ReadClient(t) ==
  /\ conn[t] = "open" /\ inbox[t] = 0
  /\ \E n \in 1..Batch :
       /\ sent[t] + n <= MaxMsgs
       /\ inbox' = [inbox EXCEPT ![t] = n]
  /\ UNCHANGED <<vars, conn, sent, back, events, stuck, swept>>

\* send_ws looks the worker up, or fails: the client gets CLOSE_INTERNAL.
SendWs(t, state) ==
  IF t \in claimed /\ linked
  THEN conn' = [conn EXCEPT ![t] = state] /\ UNCHANGED events
  ELSE conn' = [conn EXCEPT ![t] = "closed"] /\ events' = [events EXCEPT ![t] = <<>>]

\* ... text and binary go to the worker; a close, a protocol error, a client
\* that vanished (second arm of the read) and an idle tunnel all become a
\* WS_OP_CLOSE ...
TakeMsg(t) ==
  /\ conn[t] = "open" /\ inbox[t] > 0
  /\ inbox' = [inbox EXCEPT ![t] = @ - 1]
  /\ SendWs(t, "sending")
  /\ UNCHANGED <<vars, sent, back, stuck, swept>>

CloseTunnel(t) ==
  /\ conn[t] = "open"
  /\ inbox' = [inbox EXCEPT ![t] = 0]
  /\ SendWs(t, "closing")
  /\ UNCHANGED <<vars, sent, back, stuck, swept>>

\* ... and the write waits for room, with no deadline.
ToWorker(t, kind) ==
  /\ linked /\ Len(down) < DownCap
  /\ down' = Append(down, [kind |-> kind, req |-> t])
  /\ UNCHANGED <<workerVars, out, slot, claimed, held, linked, back, stuck, swept>>

WriteMsg(t) ==
  /\ conn[t] = "sending"
  /\ ToWorker(t, "Msg")
  /\ conn' = [conn EXCEPT ![t] = "open"]
  /\ sent' = [sent EXCEPT ![t] = @ + 1]
  /\ UNCHANGED <<upload, inbox, events>>

\* Mutant: the task goes on after it has sent the close.
WriteCloseStays(t) ==
  /\ conn[t] = "closing"
  /\ ToWorker(t, "Close")
  /\ conn' = [conn EXCEPT ![t] = "open"]
  /\ upload' = [upload EXCEPT ![t] = 0]
  /\ UNCHANGED <<sent, inbox, events>>

WriteClose(t) ==
  /\ conn[t] = "closing"
  /\ ToWorker(t, "Close")
  /\ Leave(t)
  /\ upload' = [upload EXCEPT ![t] = 0]
  /\ UNCHANGED sent

WriteAbort(t) ==
  /\ conn[t] = "aborting"
  /\ ToWorker(t, "Abort")
  /\ Leave(t)
  /\ UNCHANGED <<upload, sent>>

\* The stream is gone: the write fails.
WriteFails(t) ==
  /\ conn[t] \in {"sending", "closing", "aborting"} /\ ~linked
  /\ Leave(t)
  /\ UNCHANGED <<vars, sent, back, stuck, swept>>

\* select!, second arm: a message goes to the client, and the tunnel is over
\* if that fails; End, Failed and a closed channel end it.
TakeEvent(t) ==
  /\ conn[t] = "open" /\ inbox[t] = 0
  /\ \/ /\ NextEvent(t, "Message")
        /\ \/ /\ DropEvent(t)
              /\ back' = [back EXCEPT ![t] = @ + 1]
              /\ UNCHANGED <<conn, inbox>>
           \/ Leave(t) /\ UNCHANGED back
     \/ /\ NextEvent(t, "End") \/ NextEvent(t, "Failed") \/ Closed(t)
        /\ Leave(t) /\ UNCHANGED back
  /\ UNCHANGED <<vars, sent, stuck, swept>>

\* task_timeout_sweep: a claimed task over its budget gets one Abort.
SweepAborts(t) ==
  /\ t \in claimed \ swept
  /\ linked /\ Len(down) < DownCap
  /\ down' = Append(down, [kind |-> "Abort", req |-> t])
  /\ swept' = swept \cup {t}
  /\ UNCHANGED <<workerVars, out, upload, slot, claimed, held, linked, conn, inbox, sent, back,
                 events, stuck>>

-----------------------------------------------------------------------------
WorkerStep ==
  /\ MainNext \/ SendFails \/ ReaderNext \/ \E t \in Tunnels : HandlerNext(t)
  /\ UNCHANGED tunnelVars

ReaderTask == ReaderTakes \/ ReaderUnblocks \/ ReaderLeaves

Wait(t)  == Open(t) \/ FirstEventTimeout(t)
Serve(t) == ReadClient(t) \/ TakeMsg(t) \/ CloseTunnel(t) \/ TakeEvent(t)
WriteTo(t) == WriteMsg(t) \/ WriteClose(t) \/ WriteAbort(t) \/ WriteFails(t)

TunnelNext ==
  \/ WorkerStep \/ ReaderTask
  \/ \E t \in Tunnels : Wait(t) \/ Serve(t) \/ WriteTo(t) \/ SweepAborts(t)

TunnelSpec == TunnelInit /\ [][TunnelNext]_allVars

(***************************************************************************)
(* Fairness. Every ready task runs: the worker's, the reader, the          *)
(* connection tasks, the sweep. Writers to the worker take turns (strong   *)
(* fairness). The client need not send anything, nor leave.                *)
(***************************************************************************)
TunnelFairness ==
  /\ WF_allVars(Acquire /\ UNCHANGED tunnelVars)
  /\ WF_allVars(Drain /\ UNCHANGED tunnelVars)
  /\ WF_allVars(ReaderNext /\ UNCHANGED tunnelVars)
  /\ WF_allVars(ReaderTakes) /\ WF_allVars(ReaderUnblocks)
  /\ \A t \in Tunnels :
       /\ WF_allVars(SendClaim(t) /\ UNCHANGED tunnelVars)
       /\ WF_allVars(HandlerNext(t) /\ UNCHANGED tunnelVars)
       /\ WF_allVars(Open(t)) /\ WF_allVars(TakeMsg(t)) /\ WF_allVars(TakeEvent(t))
       /\ SF_allVars(WriteTo(t)) /\ SF_allVars(SweepAborts(t))

TunnelFairSpec == TunnelSpec /\ TunnelFairness

-----------------------------------------------------------------------------
(* Types of the tunnel's variables and the capacity of its channel. *)
TunnelTypeOK ==
  /\ TypeOK
  /\ conn \in [Tunnels -> ConnStates]
  /\ inbox \in [Tunnels -> 0..Batch]
  /\ sent \in [Tunnels -> 0..MaxMsgs] /\ back \in [Tunnels -> 0..MaxMsgs]
  /\ events \in [Tunnels -> Seq(EventKinds)]
  /\ \A t \in Tunnels : Len(events[t]) <= EventCap
  /\ stuck \in [req : Tunnels, kind : EventKinds] \cup {None}
  /\ swept \subseteq Tunnels

(* The router keeps to what the worker's model expects of it: messages     *)
(* only after the 101, one close, nothing after the close.                 *)
EchoSafety == Init /\ [][Next]_vars

\* Messages of t in a sequence of frames or entries.
Count(s, kind, t) == Cardinality({i \in DOMAIN s : s[i] = [kind |-> kind, req |-> t]})
Bit(b) == IF b THEN 1 ELSE 0

(* While a tunnel is open no message is lost or doubled on its way through *)
(* two sockets, four queues and five tasks: what was sent and is not back  *)
(* is in exactly one of them.                                              *)
NothingLost ==
  \A t \in Tunnels :
    conn[t] \in {"open", "sending"} /\ linked /\ handler[t] \notin {"none", "aborting"} =>
      sent[t] = back[t] + Count(down, "Msg", t)
                + Bit(hold = [kind |-> "Msg", req |-> t])
                + Cardinality({i \in DOMAIN chan[t] : chan[t][i] = "Msg"})
                + Count(waiting, "Message", t) + Count(out, "Message", t)
                + Cardinality({i \in DOMAIN events[t] : events[t][i] = "Message"})
                + Bit(stuck = [req |-> t, kind |-> "Message"])

(* docs/configuration.md on websocket.idle_timeout: "Two-way silence       *)
(* before an upgraded tunnel is closed". A connection task that waits in a *)
(* write lets nothing through either way, so it must not wait for good.    *)
SilenceEnds ==
  \A t \in Tunnels : conn[t] = "sending" ~> conn[t] # "sending"

(* docs/configuration.md: the request limits "do **not** apply to an       *)
(* upgraded tunnel". The sweep leaves open tunnels alone.                  *)
TunnelsUnlimited ==
  [][\A t \in Tunnels : conn[t] \in {"open", "sending"} => (t \in swept' => t \in swept)]_allVars
=============================================================================
