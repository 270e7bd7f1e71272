----------------------------- MODULE PhpWorker -----------------------------
(***************************************************************************)
(* The PHP module's handler (buran-php/src/worker.rs) on the blocking SDK, *)
(* with the engine behind sapi_shim.c as its environment: a script that    *)
(* sends headers, writes, flushes and finishes the request early in any    *)
(* order the engine allows. The engine itself is external; what it keeps   *)
(* to is that headers precede output, once per request (SG(headers_sent)). *)
(***************************************************************************)
EXTENDS BlockingWorker

CONSTANT Outputs \* output calls the script of each request may make

ASSUME OutputAssumption ==
  /\ Outputs \in [Requests -> Nat]
  /\ None \notin {"Body", "Flush", "End"}

VARIABLES
  script, \* "none" or "running"
  ctx,    \* RequestCtx: headers_sent, client_released, client_gone
  sg,     \* SG(headers_sent)
  call,   \* the callback whose drain is on its way to the stream
  left    \* output calls the script may still make

scriptVars == <<script, ctx, sg, call, left>>
vars == <<workerVars, scriptVars>>

NoCtx == [headers |-> FALSE, released |-> FALSE, gone |-> FALSE]

Init ==
  /\ WorkerInit
  /\ script = "none" /\ ctx = NoCtx /\ sg = FALSE /\ call = None /\ left = 0

-----------------------------------------------------------------------------
(* handle.                                                                 *)

Handling == loop = "handling" /\ script = "none"

\* A field of the request does not decode: handle returns early.
HandleFails ==
  /\ Handling /\ cur \in Garbled
  /\ loop' = "failed"
  /\ UNCHANGED <<ready, cur, served, replyVars, streamVars, ctrl, routerVars, work, scriptVars>>

\* No script to run (301, 403, 404): the module answers a page of its own.
ErrorPage ==
  /\ Handling
  /\ PollControl
  /\ IF ClientGone
     THEN /\ out' = Append(out, "Headers")
          /\ resp' = [resp EXCEPT !.headers = TRUE, !.aborted = TRUE]
          /\ loop' = "failed"
     ELSE /\ out' = Finished(out \o <<"Headers", "Body">>, resp)
          /\ resp' = [resp EXCEPT !.headers = TRUE, !.end = TRUE, !.done = TRUE]
          /\ loop' = "returned"
  /\ UNCHANGED <<ready, cur, served, written, routerVars, work, scriptVars>>

\* php_request_startup fails: the engine runs nothing, the task is an error.
EngineFails ==
  /\ Handling
  /\ out' = Append(out, "Error")
  /\ resp' = [resp EXCEPT !.end = TRUE, !.done = TRUE]
  /\ loop' = "returned"
  /\ UNCHANGED <<ready, cur, served, streamVars, ctrl, routerVars, work, scriptVars>>

StartScript ==
  /\ Handling
  /\ script' = "running" /\ ctx' = NoCtx /\ sg' = FALSE /\ left' = Outputs[cur]
  /\ UNCHANGED <<workerVars, call>>

-----------------------------------------------------------------------------
(* The callbacks, between entering and leaving bphp_sapi_request.          *)

InScript == script = "running" /\ call = None
Output   == InScript /\ sg /\ left > 0 /\ left' = left - 1

\* sapi_send_headers: headers_begin, header_line for each, headers_end.
SendHeaders ==
  /\ InScript /\ ~sg
  /\ sg' = TRUE
  /\ IF ctx.released \/ ctx.headers
     THEN UNCHANGED <<replyVars, ctx>>
     ELSE /\ out' = Append(out, "Headers")
          /\ resp' = [resp EXCEPT !.headers = TRUE]
          /\ ctx' = [ctx EXCEPT !.headers = TRUE]
  /\ UNCHANGED <<loopVars, streamVars, ctrl, routerVars, work, script, call, left>>

\* A frame of output, unless the client is gone; then a drain if so much is
\* buffered.
Push(frame, limit) ==
  /\ PollControl
  /\ IF ClientGone
     THEN /\ resp' = [resp EXCEPT !.aborted = TRUE]
          /\ ctx' = [ctx EXCEPT !.gone = TRUE]
          /\ UNCHANGED <<out, call>>
     ELSE /\ out' = Append(out, frame)
          /\ call' = IF Len(out') >= limit THEN frame ELSE None
          /\ UNCHANGED <<resp, ctx>>

Quiet == UNCHANGED <<replyVars, ctrl, pongs, ctx, call>>

\* Mutant: output after the release is not swallowed.
WriteOn ==
  /\ Output
  /\ IF ctx.gone THEN Quiet ELSE Push("Body", Limit)
  /\ UNCHANGED <<loopVars, written, routerVars, work, script, sg>>

\* ub_write: swallowed after the release, refused once the client is gone.
Write ==
  /\ Output
  /\ IF ctx.released \/ ctx.gone THEN Quiet ELSE Push("Body", Limit)
  /\ UNCHANGED <<loopVars, written, routerVars, work, script, sg>>

Flush ==
  /\ Output
  /\ IF ctx.released \/ ctx.gone THEN Quiet ELSE Push("Flush", 0)
  /\ UNCHANGED <<loopVars, written, routerVars, work, script, sg>>

\* fastcgi_finish_request: End now, the script goes on.
FinishRequest ==
  /\ Output
  /\ IF ctx.released
     THEN Quiet
     ELSE /\ out' = Append(out, "End")
          /\ resp' = [resp EXCEPT !.end = TRUE]
          /\ call' = "End"
          /\ UNCHANGED <<ctrl, pongs, ctx>>
  /\ UNCHANGED <<loopVars, written, routerVars, work, script, sg>>

\* The write of the batch returns to the callback that asked for it.
Drain ==
  /\ script = "running" /\ call # None
  /\ Drained
  /\ ctx' = CASE call = "End"             -> [ctx EXCEPT !.released = TRUE]
              [] call # "End" /\ linked   -> ctx
              [] call # "End" /\ ~linked  -> [ctx EXCEPT !.gone = TRUE]
  /\ call' = None
  /\ UNCHANGED <<loopVars, resp, pongs, ctrl, routerVars, work, script, sg, left>>

\* The engine is done with the request. A script that sent no header gets
\* them from handle.
EndScript ==
  /\ InScript
  /\ LET block == IF ctx.headers THEN out ELSE Append(out, "Headers")
     IN  out' = Finished(block, resp)
  /\ resp' = [resp EXCEPT !.headers = TRUE, !.end = TRUE, !.done = TRUE]
  /\ script' = "none" /\ ctx' = NoCtx /\ sg' = FALSE /\ left' = 0
  /\ loop' = "returned"
  /\ UNCHANGED <<ready, cur, served, streamVars, ctrl, routerVars, work, call>>

Handler ==
  \/ HandleFails \/ ErrorPage \/ EngineFails \/ StartScript
  \/ SendHeaders \/ Write \/ Flush \/ FinishRequest \/ Drain \/ EndScript

-----------------------------------------------------------------------------
Next == (Router /\ UNCHANGED scriptVars) \/ (Loop /\ UNCHANGED scriptVars) \/ Handler

Spec == Init /\ [][Next]_vars

\* The process runs whenever it can; a script makes so many calls and ends.
FairSpec ==
  /\ Spec
  /\ WF_vars(Loop /\ UNCHANGED scriptVars)
  /\ WF_vars(Handler)

-----------------------------------------------------------------------------
(* Properties.                                                             *)

(* The buffered, batched, callback-driven worker writes what the protocol  *)
(* allows: headers before output, one End, one Done or Error and nothing   *)
(* after it, and no second Claim while an exchange is open. It holds also  *)
(* for a client that leaves, an early finish, a drain that fails and an    *)
(* engine that does not start (the debug_asserts of lib.rs:95, 104, 124).  *)
Promise    == INSTANCE Exchange WITH Granted <- 1
Implements == Promise!Spec

(* poll_control: "a stale abort for a finished request is consumed and     *)
(* ignored". A handler is told its client left only if the router said so  *)
(* of the request in hand, or left itself.                                 *)
AbortsHit == resp.aborted /\ linked => cur \in aborts

(* fastcgi_finish_request "releases the client now": a script in the       *)
(* background has its End on the stream, not in the buffer.                *)
ReleasedHasEnd ==
  ctx.released /\ linked => written[cur][Len(written[cur])] = "End"

(* What the handler acts on is true: a client it takes for gone is gone,   *)
(* one it takes for served has its answer.                                 *)
BeliefsTrue == AbortsHit /\ ReleasedHasEnd

(* sweep_decide takes PONG_IDLE for a worker that lost its task. An idle   *)
(* Pong is never on the stream ahead of the end of a claimed request.      *)
IdleMeansDone ==
  [][pongs'.idle > pongs.idle => Promise!Open(written) = {}]_vars

(* Every claimed request gets its Done or Error, whatever the script did   *)
(* and whenever the client left, or the worker is gone and the router      *)
(* sees the EOF.                                                           *)
TasksEnd ==
  \A r \in Requests :
    r \in Promise!Open(written) ~> r \notin Promise!Open(written) \/ loop = "exited"

(* Every probe is answered, by poll_control or when the worker is idle     *)
(* again, also one that waits behind an Abort.                             *)
PingsAnswered ==
  pongs.busy + pongs.idle < pings ~> pongs.busy + pongs.idle = pings \/ loop = "exited"

(* A probe is answered, and what the answer says is so.                    *)
ProbesAnswered == IdleMeansDone /\ PingsAnswered
=============================================================================
