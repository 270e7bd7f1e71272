----------------------------- MODULE TaskSweep ------------------------------
(***************************************************************************)
(* The enforcement of limits.task_timeout (buran-router, dispatch.rs): the *)
(* sweep sends an Abort to the worker of a task that is over its budget;   *)
(* a task still there a grace period later is defiant; a worker with       *)
(* enough defiant tasks is probed with a Ping and, unless its Pong says    *)
(* idle, killed. Workers follow either the blocking SDK (buran-worker) or  *)
(* the event-loop reference module (buran-echo), or have stopped reading.  *)
(*                                                                         *)
(* Timers are nondeterministic: a budget, a grace or a probe deadline may  *)
(* run out at any time, but a probe does not time out while a worker that  *)
(* listens and a reader that is not held up are still to answer it.        *)
(*                                                                         *)
(* A write to a worker waits for room in its stream with the writer lock   *)
(* held; every other write to that worker waits with it. One guard says    *)
(* both here: a write happens when there is room.                          *)
(***************************************************************************)
EXTENDS Integers, Sequences, FiniteSets

CONSTANTS
  Tasks,     \* requests
  Workers,   \* worker ids
  Blocking,  \* TRUE: the blocking SDK; FALSE: an event loop
  Granted,   \* tasks a worker may hold
  Deaf,      \* workers that stop reading and finishing once they hold a task
  Faulty,    \* workers that may write a Pong nobody asked for
  Laggards,  \* workers whose reader may be held up by a slow client
  Uploads,   \* TRUE: request bodies and messages are streamed to workers
  DownCap,   \* frames a stream buffers on its way to the worker
  UpCap,     \* frames a stream buffers on its way to the router
  None       \* nobody

ASSUME SweepAssumption ==
  /\ IsFiniteSet(Tasks)
  /\ Blocking \in BOOLEAN /\ Uploads \in BOOLEAN
  /\ {Granted, DownCap, UpCap} \subseteq Nat \ {0}
  /\ Blocking => Granted = 1 /\ ~Uploads
  /\ Deaf \cup Faulty \cup Laggards \subseteq Workers
  /\ None \notin Workers \cup Tasks \cup [worker : Workers, task : Tasks]

VARIABLES
  pending,  \* the claimer of a task in Pool::pending, or None
  late,     \* tasks claimed task_timeout ago or more
  sent,     \* tasks with abort_sent
  over,     \* tasks aborted a grace period ago or more
  live,     \* workers in Pool::workers
  killReq,  \* workers with kill_requested
  held,     \* workers whose reader waits for a slow client
  sweep,    \* the sweep's program counter, its two lists, its probe
  down,     \* frames on their way to a worker
  up,       \* frames on their way to the router
  alive,    \* worker processes that run
  fresh,    \* tasks no worker has received
  job,      \* tasks a worker runs
  cancel    \* blocking workers that have seen the Abort of their task

routerVars == <<pending, late, sent, over, live, killReq, held>>
workerVars == <<alive, fresh, job, cancel>>
vars == <<routerVars, sweep, down, up, workerVars>>

DownFrames == [kind : {"Abort", "Ping", "Body"}, task : Tasks]
UpFrames   == [kind : {"Claim", "Done", "Idle", "Busy"}, task : Tasks]
Candidates == [worker : Workers, task : Tasks]
SweepPcs   == {"asleep", "aborting", "probing", "waiting", "killing"}

Init ==
  /\ pending = [t \in Tasks |-> None]
  /\ late = {} /\ sent = {} /\ over = {}
  /\ live = Workers /\ killReq = {} /\ held = {}
  /\ sweep = [pc |-> "asleep", aborts |-> {}, cands |-> {}, probe |-> None, reply |-> "none"]
  /\ down = [w \in Workers |-> <<>>]
  /\ up = [w \in Workers |-> <<>>]
  /\ alive = Workers
  /\ fresh = Tasks
  /\ job = [w \in Workers |-> {}]
  /\ cancel = {}

-----------------------------------------------------------------------------
(* Workers.                                                                *)

\* A worker that reads its stream and gets on with its tasks.
Listens(w) == w \in alive /\ (w \in Deaf => job[w] = {})

Reply(w, kind, t) ==
  /\ Len(up[w]) < UpCap
  /\ up' = [up EXCEPT ![w] = Append(@, [kind |-> kind, task |-> t])]

\* The datagram is received and claimed.
Start(w, t) ==
  /\ Listens(w) /\ t \in fresh /\ Cardinality(job[w]) < Granted
  /\ Reply(w, "Claim", t)
  /\ fresh' = fresh \ {t}
  /\ job' = [job EXCEPT ![w] = @ \cup {t}]
  /\ UNCHANGED <<routerVars, sweep, down, alive, cancel>>

Finish(w, t) ==
  /\ Listens(w) /\ t \in job[w]
  /\ Reply(w, "Done", t)
  /\ job' = [job EXCEPT ![w] = @ \ {t}]
  /\ cancel' = cancel \ {w}
  /\ UNCHANGED <<routerVars, sweep, down, alive, fresh>>

\* A control frame is next and the worker looks at it. While a task of the
\* blocking SDK runs it looks no more once it has seen its Abort.
Control(w, kind) ==
  /\ Listens(w) /\ down[w] # <<>> /\ Head(down[w]).kind = kind
  /\ ~(Blocking /\ w \in cancel)
  /\ down' = [down EXCEPT ![w] = Tail(@)]

\* A Ping names a task. The event loop looks that task up; the blocking SDK
\* answers busy while it runs any task (poll_control), idle otherwise.
AnswerPing(w) ==
  /\ Control(w, "Ping")
  /\ LET t == Head(down[w]).task
         busy == IF Blocking THEN job[w] # {} ELSE t \in job[w]
     IN  Reply(w, IF busy THEN "Busy" ELSE "Idle", t)
  /\ UNCHANGED <<routerVars, sweep, workerVars>>

\* An Abort for a task in progress: the event loop cancels it and reports
\* Done; the blocking SDK tells the handler, which may take its time. A stale
\* Abort is dropped by both.
TakeAbort(w) ==
  /\ Control(w, "Abort")
  /\ LET t == Head(down[w]).task
     IN  \/ /\ t \in job[w] /\ ~Blocking
            /\ Reply(w, "Done", t)
            /\ job' = [job EXCEPT ![w] = @ \ {t}]
            /\ UNCHANGED cancel
         \/ /\ t \in job[w] /\ Blocking
            /\ cancel' = cancel \cup {w}
            /\ UNCHANGED <<up, job>>
         \/ /\ t \notin job[w]
            /\ UNCHANGED <<up, job, cancel>>
  /\ UNCHANGED <<routerVars, sweep, alive, fresh>>

TakeBody(w) ==
  /\ Control(w, "Body")
  /\ UNCHANGED <<routerVars, sweep, up, workerVars>>

\* A buggy worker claims to be idle about any task.
ForgePong(w, t) ==
  /\ w \in Faulty /\ w \in alive
  /\ Reply(w, "Idle", t)
  /\ UNCHANGED <<routerVars, sweep, down, workerVars>>

\* The prototype delivers the kill.
Die(w) ==
  /\ w \in killReq /\ w \in alive
  /\ alive' = alive \ {w}
  /\ job' = [job EXCEPT ![w] = {}]
  /\ UNCHANGED <<routerVars, sweep, down, up, fresh, cancel>>

-----------------------------------------------------------------------------
(* The reader of a worker, clients, timers.                                *)

\* The next frame of w, unless the reader waits to hand over an earlier one.
Read(w, kind) ==
  /\ w \in live \ held /\ up[w] # <<>> /\ Head(up[w]).kind = kind
  /\ up' = [up EXCEPT ![w] = Tail(@)]

ReadClaim(w) ==
  /\ Read(w, "Claim")
  /\ pending' = [pending EXCEPT ![Head(up[w]).task] = w]
  /\ UNCHANGED <<late, sent, over, live, killReq, held, sweep, down, workerVars>>

\* The table entry goes, and with it everything the sweep noted there.
Forget(T) ==
  /\ pending' = [t \in Tasks |-> IF t \in T THEN None ELSE pending[t]]
  /\ late' = late \ T /\ sent' = sent \ T /\ over' = over \ T

ReadDone(w) ==
  /\ Read(w, "Done")
  /\ Forget({Head(up[w]).task})
  /\ UNCHANGED <<live, killReq, held, sweep, down, workerVars>>

\* Mutant: probes are looked up by task alone.
ReadPongAny(w) ==
  /\ \E kind \in {"Idle", "Busy"} :
       /\ Read(w, kind)
       /\ LET t == Head(up[w]).task
          IN  IF sweep.pc \in {"probing", "waiting"} /\ sweep.probe # None
                 /\ sweep.probe.task = t /\ sweep.reply = "none"
              THEN sweep' = [sweep EXCEPT !.reply = kind]
              ELSE UNCHANGED sweep
  /\ UNCHANGED <<routerVars, down, workerVars>>

\* A Pong completes the probe registered for this worker and this task.
ReadPong(w) ==
  /\ \E kind \in {"Idle", "Busy"} :
       /\ Read(w, kind)
       /\ LET t == Head(up[w]).task
          IN  IF sweep.probe = [worker |-> w, task |-> t] /\ sweep.reply = "none"
              THEN sweep' = [sweep EXCEPT !.reply = kind]
              ELSE UNCHANGED sweep
  /\ UNCHANGED <<routerVars, down, workerVars>>

\* End of the stream: every request of the worker fails, the worker is gone.
ReadEof(w) ==
  /\ w \in live \ held /\ up[w] = <<>> /\ w \notin alive
  /\ live' = live \ {w}
  /\ Forget({t \in Tasks : pending[t] = w})
  /\ UNCHANGED <<killReq, held, sweep, down, up, workerVars>>

\* A full event channel holds the reader up until its client reads or leaves.
Hold(w) ==
  /\ w \in Laggards \ held /\ w \in live
  /\ \E t \in Tasks : pending[t] = w
  /\ held' = held \cup {w}
  /\ UNCHANGED <<pending, late, sent, over, live, killReq, sweep, down, up, workerVars>>

Release(w) ==
  /\ w \in held
  /\ held' = held \ {w}
  /\ UNCHANGED <<pending, late, sent, over, live, killReq, sweep, down, up, workerVars>>

\* A write to a live worker waits for room.
Write(w, kind, t) ==
  /\ w \in alive
  /\ Len(down[w]) < DownCap
  /\ down' = [down EXCEPT ![w] = Append(@, [kind |-> kind, task |-> t])]

\* pump_body, send_ws.
Upload(w, t) ==
  /\ Uploads /\ pending[t] = w
  /\ Write(w, "Body", t)
  /\ UNCHANGED <<routerVars, sweep, up, workerVars>>

Expire(t) ==
  /\ pending[t] # None /\ t \notin late
  /\ late' = late \cup {t}
  /\ UNCHANGED <<pending, sent, over, live, killReq, held, sweep, down, up, workerVars>>

GraceOver(t) ==
  /\ t \in sent \ over
  /\ over' = over \cup {t}
  /\ UNCHANGED <<pending, late, sent, live, killReq, held, sweep, down, up, workerVars>>

-----------------------------------------------------------------------------
(* The sweep: sweep_decide, abort_task, probe, confirm_and_kill.           *)

Defiant(w) == {t \in sent \cap over : pending[t] = w}

Threshold == IF Granted \div 2 > 1 THEN Granted \div 2 ELSE 1

\* One pass over the table under its lock, then one over the workers.
SweepDecide ==
  /\ sweep.pc = "asleep"
  /\ LET expired == {t \in late \ sent : pending[t] # None}
         doomed  == {w \in live \ killReq : Cardinality(Defiant(w)) >= Threshold}
     IN  /\ sent' = sent \cup expired
         /\ \E sample \in [doomed -> Tasks] :
              /\ \A w \in doomed : sample[w] \in Defiant(w)
              /\ sweep' = [sweep EXCEPT !.pc = "aborting", !.aborts = expired,
                             !.cands = {[worker |-> w, task |-> sample[w]] : w \in doomed}]
  /\ UNCHANGED <<pending, late, over, live, killReq, held, down, up, workerVars>>

\* Mutant: of several tasks that expire together one gets its Abort.
SendAbortLost(t) ==
  /\ sweep.pc = "aborting" /\ t \in sweep.aborts
  /\ sweep' = [sweep EXCEPT !.aborts = {}]
  /\ LET w == pending[t]
     IN  IF w # None /\ w \in live /\ w \in alive
         THEN Write(w, "Abort", t)
         ELSE UNCHANGED down
  /\ UNCHANGED <<routerVars, up, workerVars>>

\* abort_task: to the worker that claimed the task, if both are still there.
\* A write to a process that is gone fails and is ignored.
SendAbort(t) ==
  /\ sweep.pc = "aborting" /\ t \in sweep.aborts
  /\ sweep' = [sweep EXCEPT !.aborts = @ \ {t}]
  /\ LET w == pending[t]
     IN  IF w # None /\ w \in live /\ w \in alive
         THEN Write(w, "Abort", t)
         ELSE UNCHANGED down
  /\ UNCHANGED <<routerVars, up, workerVars>>

\* The next candidate, or the end of the pass.
NextProbe ==
  /\ \/ sweep.pc = "aborting" /\ sweep.aborts = {}
     \/ sweep.pc = "probing" /\ sweep.probe = None
  /\ \/ /\ sweep.cands = {}
        /\ sweep' = [sweep EXCEPT !.pc = "asleep"]
     \/ \E c \in sweep.cands :
          sweep' = [sweep EXCEPT !.pc = "probing", !.cands = @ \ {c}, !.reply = "none",
                      !.probe = IF c.worker \in live THEN c ELSE None]
  /\ UNCHANGED <<routerVars, down, up, workerVars>>

\* The probe is registered; now its Ping is written, whatever that takes. The
\* deadline starts only after the write. A failed write is no answer.
SendPing ==
  /\ sweep.pc = "probing" /\ sweep.probe # None
  /\ LET c == sweep.probe
     IN  IF c.worker \in alive
         THEN /\ Write(c.worker, "Ping", c.task)
              /\ sweep' = [sweep EXCEPT !.pc = "waiting"]
         ELSE /\ sweep' = [sweep EXCEPT !.pc = "killing"]
              /\ UNCHANGED down
  /\ UNCHANGED <<routerVars, up, workerVars>>

\* Mutant: a probe without an answer spares the worker.
ProbeEndsLenient ==
  /\ sweep.pc = "waiting"
  /\ \/ sweep.reply # "none"
     \/ LET w == sweep.probe.worker IN ~Listens(w) \/ w \in cancel \/ w \in held
  /\ sweep' = IF sweep.reply = "Busy"
              THEN [sweep EXCEPT !.pc = "killing"]
              ELSE [sweep EXCEPT !.pc = "probing", !.probe = None]
  /\ UNCHANGED <<routerVars, down, up, workerVars>>

\* The answer came, or the deadline passed with a worker or a reader stuck.
ProbeEnds ==
  /\ sweep.pc = "waiting"
  /\ \/ sweep.reply # "none"
     \/ LET w == sweep.probe.worker IN ~Listens(w) \/ w \in cancel \/ w \in held
  /\ sweep' = IF sweep.reply = "Idle"
              THEN [sweep EXCEPT !.pc = "probing", !.probe = None]
              ELSE [sweep EXCEPT !.pc = "killing"]
  /\ UNCHANGED <<routerVars, down, up, workerVars>>

\* The swap of kill_requested lets one kill through.
Kill ==
  /\ sweep.pc = "killing"
  /\ killReq' = IF sweep.probe.worker \in live THEN killReq \cup {sweep.probe.worker}
                                               ELSE killReq
  /\ sweep' = [sweep EXCEPT !.pc = "probing", !.probe = None]
  /\ UNCHANGED <<pending, late, sent, over, live, held, down, up, workerVars>>

-----------------------------------------------------------------------------
SweepNext ==
  \/ SweepDecide \/ NextProbe \/ SendPing \/ ProbeEnds \/ Kill
  \/ \E t \in Tasks : SendAbort(t)

ReaderNext(w) ==
  \/ ReadClaim(w) \/ ReadDone(w) \/ ReadPong(w) \/ ReadEof(w)

WorkerNext(w) ==
  \/ AnswerPing(w) \/ TakeAbort(w) \/ TakeBody(w) \/ Die(w)
  \/ \E t \in Tasks : Start(w, t) \/ Finish(w, t) \/ ForgePong(w, t)

EnvNext ==
  \/ \E t \in Tasks : Expire(t) \/ GraceOver(t)
  \/ \E w \in Workers : Hold(w) \/ Release(w) \/ \E t \in Tasks : Upload(w, t)

Next ==
  \/ SweepNext \/ EnvNext
  \/ \E w \in Workers : ReaderNext(w) \/ WorkerNext(w)

Spec == Init /\ [][Next]_vars

(***************************************************************************)
(* Fairness. The sweep's timer fires and the sweep goes on when it can     *)
(* (its writes compete with uploads for room, hence strong fairness);      *)
(* budgets and graces run out; readers read; slow clients read on or are   *)
(* timed out; kills are delivered; workers that listen look at their       *)
(* control frames. No task is assumed to end by itself.                    *)
(***************************************************************************)
Fairness ==
  /\ SF_vars(SweepNext)
  /\ \A t \in Tasks : WF_vars(Expire(t)) /\ WF_vars(GraceOver(t)) /\ SF_vars(SendAbort(t))
  /\ \A w \in Workers :
       /\ SF_vars(ReaderNext(w)) /\ WF_vars(Release(w)) /\ WF_vars(Die(w))
       /\ SF_vars(AnswerPing(w)) /\ SF_vars(TakeAbort(w)) /\ SF_vars(TakeBody(w))

FairSpec == Spec /\ Fairness

-----------------------------------------------------------------------------
(* Types of every variable, and the capacity of a worker's stream. *)
TypeOK ==
  /\ pending \in [Tasks -> Workers \cup {None}]
  /\ late \subseteq Tasks /\ sent \subseteq Tasks /\ over \subseteq Tasks
  /\ live \subseteq Workers /\ killReq \subseteq Workers /\ held \subseteq Workers
  /\ sweep \in [pc : SweepPcs, aborts : SUBSET Tasks, cands : SUBSET Candidates,
                probe : Candidates \cup {None}, reply : {"none", "Idle", "Busy"}]
  /\ down \in [Workers -> Seq(DownFrames)] /\ \A w \in Workers : Len(down[w]) <= DownCap
  /\ up \in [Workers -> Seq(UpFrames)]
  /\ alive \subseteq Workers /\ fresh \subseteq Tasks /\ cancel \subseteq Workers
  /\ job \in [Workers -> SUBSET Tasks]

(* A worker that has stopped reading gets no reprieve: no other worker's   *)
(* Pong passes for its own (probes are keyed by worker and task).          *)
NoForgedReprieve ==
  sweep.probe # None /\ sweep.reply = "Idle" =>
    sweep.probe.worker \notin Deaf \ Faulty \/ job[sweep.probe.worker] = {}

(* An event loop that reads its stream is never killed for overrunning,    *)
(* however slow it is: the Abort is ahead of the Ping on the one stream,   *)
(* so by the time it answers the probe it has wound the probed task down.  *)
CooperativeSurvives == killReq \subseteq Deaf \cup Laggards

(* Every task is freed once its budget is spent, by its worker's own doing *)
(* or by the death of that worker.                                         *)
BudgetEnforced == \A t \in Tasks : t \in late ~> t \notin late

(* The comment on sweep_decide: "a candidate that is actually idle (reader *)
(* lagged behind a `Done`) is spared".                                     *)
IdleSpared ==
  [][\A w \in killReq' \ killReq : w \in alive => job[w] # {}]_vars
=============================================================================
