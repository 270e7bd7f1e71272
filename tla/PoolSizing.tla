----------------------------- MODULE PoolSizing -----------------------------
(***************************************************************************)
(* How many workers a pool runs (buran-router, dispatch.rs): growth on     *)
(* demand in submit, the janitor that shrinks an idle pool with Retire     *)
(* datagrams, and the spawn task of each worker slot, which replaces a     *)
(* worker that left and backs off from one that keeps crashing.            *)
(*                                                                         *)
(* The counters `active`, `in_flight` and `crash_streak` are separate      *)
(* atomics: nothing locks the decision of one task against the next one's. *)
(* A claimed request is in the load of its slot; what happens to it there  *)
(* is the business of module Dispatch. Time passes in ticks, so that the   *)
(* uptime of a worker can be compared with the janitor's period.           *)
(***************************************************************************)
EXTENDS Integers, Sequences, FiniteSets

CONSTANTS
  Submitters, \* concurrent connection tasks (each submits again and again)
  Slots,      \* spawn tasks the model has room for
  Fixed,      \* TRUE: processes is a number (idle_exit is None)
  MaxWorkers, \* processes.max
  Spare,      \* processes.spare, at least 1 (processes.max for a fixed pool)
  Conc,       \* concurrency of one worker once the first handshake is over
  Healthy,    \* HEALTHY_UPTIME in ticks
  Period,     \* the janitor's tick, idle_timeout / 2, in ticks
  WorkCap,    \* datagrams the kernel work queue holds
  StreakCap,  \* crash_streak is followed up to this value
  Crashing,   \* slots whose workers may crash or be killed at any time
  Retire      \* the Retire datagram

ASSUME PoolAssumption ==
  /\ IsFiniteSet(Slots) /\ IsFiniteSet(Submitters)
  /\ Fixed \in BOOLEAN
  /\ {MaxWorkers, Spare, Conc, Healthy, Period, WorkCap, StreakCap} \subseteq Nat \ {0}
  /\ Spare <= MaxWorkers /\ (Fixed => Spare = MaxWorkers)
  /\ Cardinality(Slots) >= Spare
  /\ Crashing \subseteq Slots
  /\ Retire \notin Submitters

VARIABLES
  active,   \* Metrics::active
  inFlight, \* Metrics::in_flight
  seeded,   \* Pool::granted is no longer 0
  streak,   \* Pool::crash_streak
  client,   \* where submit is
  work,     \* the shared work socket
  slot,     \* where the spawn task of a slot is
  age,      \* uptime of the slot's worker, up to Healthy
  load,     \* requests the slot's worker has claimed
  clock,    \* ticks since the janitor ran
  janitor   \* sleeping, or sending a Retire

poolVars == <<active, inFlight, seeded, streak>>
slotVars == <<slot, age, load>>
timeVars == <<clock, janitor>>
sizingVars == <<poolVars, client, work, slotVars, timeVars>>

SlotStates   == {"free", "starting", "serving", "draining", "backoff", "leaving"}
ClientStates == {"idle", "counted", "full", "growing", "sending", "queued", "claimed"}

\* Pool::start spawns the spare workers before anything else runs.
PoolInit ==
  /\ \E S \in SUBSET Slots :
       /\ Cardinality(S) = Spare
       /\ slot = [s \in Slots |-> IF s \in S THEN "starting" ELSE "free"]
  /\ active   = Spare
  /\ inFlight = 0
  /\ seeded   = FALSE
  /\ streak   = 0
  /\ client   = [c \in Submitters |-> "idle"]
  /\ work     = <<>>
  /\ age      = [s \in Slots |-> 0]
  /\ load     = [s \in Slots |-> {}]
  /\ clock    = 0
  /\ janitor  = "asleep"

\* worker_concurrency: 1 until the first handshake.
WorkerConcurrency == IF seeded THEN Conc ELSE 1

\* The floor retire_and_refill restores.
Floor == IF Fixed THEN MaxWorkers ELSE Spare

-----------------------------------------------------------------------------
(* submit: count the request, decide on growth, send the datagram.         *)

Submit(c) ==
  /\ client[c] = "idle"
  /\ inFlight' = inFlight + 1
  /\ client' = [client EXCEPT ![c] = IF Fixed THEN "sending" ELSE "counted"]
  /\ UNCHANGED <<active, seeded, streak, work, slotVars, timeVars>>

\* First conjunct of the growth test: in_flight >= capacity.
CheckDemand(c) ==
  /\ client[c] = "counted"
  /\ client' = [client EXCEPT ![c] =
                  IF inFlight >= active * WorkerConcurrency THEN "full" ELSE "sending"]
  /\ UNCHANGED <<poolVars, work, slotVars, timeVars>>

\* Second conjunct, a later load: active < max.
CheckRoom(c) ==
  /\ client[c] = "full"
  /\ client' = [client EXCEPT ![c] = IF active < MaxWorkers THEN "growing" ELSE "sending"]
  /\ UNCHANGED <<poolVars, work, slotVars, timeVars>>

\* spawn_worker: count the slot, then start its task.
SpawnWorker(s) ==
  /\ active' = active + 1
  /\ slot' = [slot EXCEPT ![s] = "starting"]

Grow(c) ==
  /\ client[c] = "growing"
  /\ client' = [client EXCEPT ![c] = "sending"]
  /\ \E s \in Slots : slot[s] = "free" /\ SpawnWorker(s)
  /\ UNCHANGED <<inFlight, seeded, streak, work, age, load, timeVars>>

Send(c) ==
  /\ client[c] = "sending"
  /\ Len(work) < WorkCap
  /\ work' = Append(work, c)
  /\ client' = [client EXCEPT ![c] = "queued"]
  /\ UNCHANGED <<poolVars, slotVars, timeVars>>

\* The socket stayed full for queue.timeout.
SendTimeout(c) ==
  /\ client[c] = "sending"
  /\ Len(work) = WorkCap
  /\ inFlight' = inFlight - 1
  /\ client' = [client EXCEPT ![c] = "idle"]
  /\ UNCHANGED <<active, seeded, streak, work, slotVars, timeVars>>

-----------------------------------------------------------------------------
(* The spawn task of a slot and the worker it watches.                     *)

\* Handshake done: the worker serves and its uptime starts. Failed spawns and
\* handshakes are retried by the same task and stay in "starting".
Ready(s) ==
  /\ slot[s] = "starting"
  /\ slot' = [slot EXCEPT ![s] = "serving"]
  /\ age' = [age EXCEPT ![s] = 0]
  /\ seeded' = TRUE
  /\ UNCHANGED <<active, inFlight, streak, client, work, load, timeVars>>

\* Below its grant a worker takes the head of the shared queue: a request, the
\* last one before it recycles (limits.requests) or not ...
Claim(s) ==
  /\ slot[s] = "serving" /\ Cardinality(load[s]) < Conc
  /\ work # <<>> /\ Head(work) # Retire
  /\ work' = Tail(work)
  /\ load' = [load EXCEPT ![s] = @ \cup {Head(work)}]
  /\ client' = [client EXCEPT ![Head(work)] = "claimed"]
  /\ \E next \in {"serving", "draining"} : slot' = [slot EXCEPT ![s] = next]
  /\ UNCHANGED <<poolVars, age, timeVars>>

\* ... or a Retire: finish what was claimed, take no more.
TakeRetire(s) ==
  /\ slot[s] = "serving" /\ Cardinality(load[s]) < Conc
  /\ work # <<>> /\ Head(work) = Retire
  /\ work' = Tail(work)
  /\ slot' = [slot EXCEPT ![s] = "draining"]
  /\ UNCHANGED <<poolVars, client, age, load, timeVars>>

\* Done or Error: the slot of the request is freed.
Finish(s, c) ==
  /\ c \in load[s]
  /\ load' = [load EXCEPT ![s] = @ \ {c}]
  /\ inFlight' = inFlight - 1
  /\ client' = [client EXCEPT ![c] = "idle"]
  /\ UNCHANGED <<active, seeded, streak, work, slot, age, timeVars>>

\* The reader's clean-up: every request claimed and not finished fails.
FailLoad(s) ==
  /\ inFlight' = inFlight - Cardinality(load[s])
  /\ client' = [c \in Submitters |-> IF c \in load[s] THEN "idle" ELSE client[c]]
  /\ load' = [load EXCEPT ![s] = {}]

\* Mutant: a crashed worker is counted once more when it is respawned.
CountExitTwice(s) ==
  IF age[s] < Healthy
  THEN /\ streak' = IF streak < StreakCap THEN streak + 1 ELSE streak
       /\ slot' = [slot EXCEPT ![s] = "backoff"]
       /\ active' = active + 1
  ELSE /\ streak' = 0
       /\ active' = active - 1
       /\ slot' = [slot EXCEPT ![s] = IF active - 1 < Floor THEN "leaving" ELSE "free"]

\* Mutant: the floor test looks at the value before the decrement.
CountExitBefore(s) ==
  IF age[s] < Healthy
  THEN /\ streak' = IF streak < StreakCap THEN streak + 1 ELSE streak
       /\ slot' = [slot EXCEPT ![s] = "backoff"]
       /\ UNCHANGED active
  ELSE /\ streak' = 0
       /\ active' = active - 1
       /\ slot' = [slot EXCEPT ![s] = IF active < Floor THEN "leaving" ELSE "free"]

\* A worker younger than HEALTHY_UPTIME counts as a crash: its slot keeps its
\* place in `active` and backs off. Otherwise the streak is cleared, the slot
\* leaves `active`, and retire_and_refill looks at the value it left behind.
CountExit(s) ==
  IF age[s] < Healthy
  THEN /\ streak' = IF streak < StreakCap THEN streak + 1 ELSE streak
       /\ slot' = [slot EXCEPT ![s] = "backoff"]
       /\ UNCHANGED active
  ELSE /\ streak' = 0
       /\ active' = active - 1
       /\ slot' = [slot EXCEPT ![s] = IF active - 1 < Floor THEN "leaving" ELSE "free"]

WorkerGone(s) ==
  /\ FailLoad(s) /\ CountExit(s)
  /\ UNCHANGED <<seeded, work, age, timeVars>>

\* A drained worker exits; one in Crashing may also crash or be killed.
Drained(s) == slot[s] = "draining" /\ load[s] = {} /\ WorkerGone(s)
Crash(s)   == s \in Crashing /\ slot[s] \in {"serving", "draining"} /\ WorkerGone(s)

\* The backoff is over: the same slot spawns again.
Respawn(s) ==
  /\ slot[s] = "backoff"
  /\ slot' = [slot EXCEPT ![s] = "starting"]
  /\ UNCHANGED <<poolVars, client, work, age, load, timeVars>>

\* Second half of retire_and_refill: a new slot for the one that left.
Refill(s) ==
  /\ slot[s] = "leaving"
  /\ SpawnWorker(s)
  /\ UNCHANGED <<inFlight, seeded, streak, client, work, age, load, timeVars>>

-----------------------------------------------------------------------------
(* The janitor of a dynamic pool, and time.                                *)

\* needed: workers for the present load (div_ceil), plus the spare ones.
Needed == (inFlight + WorkerConcurrency - 1) \div WorkerConcurrency + Spare

JanitorTick ==
  /\ ~Fixed /\ janitor = "asleep" /\ clock = Period
  /\ clock' = 0
  /\ janitor' = IF active > Needed THEN "sending" ELSE "asleep"
  /\ UNCHANGED <<poolVars, client, work, slotVars>>

\* The send waits while the socket is full.
JanitorSend ==
  /\ janitor = "sending"
  /\ Len(work) < WorkCap
  /\ work' = Append(work, Retire)
  /\ janitor' = "asleep"
  /\ UNCHANGED <<poolVars, client, slotVars, clock>>

\* The janitor is never late: time stops until it has run.
Tick ==
  /\ IF Fixed \/ janitor = "sending" THEN UNCHANGED clock
                                     ELSE clock < Period /\ clock' = clock + 1
  /\ age' = [s \in Slots |-> IF slot[s] \in {"serving", "draining"} /\ age[s] < Healthy
                             THEN age[s] + 1 ELSE age[s]]
  /\ UNCHANGED <<poolVars, client, work, slot, load, janitor>>

-----------------------------------------------------------------------------
SubmitNext(c) ==
  \/ Submit(c) \/ CheckDemand(c) \/ CheckRoom(c) \/ Grow(c)
  \/ Send(c) \/ SendTimeout(c)

SlotNext(s) ==
  \/ Ready(s) \/ Claim(s) \/ TakeRetire(s) \/ Drained(s) \/ Crash(s)
  \/ Respawn(s) \/ Refill(s)
  \/ \E c \in Submitters : Finish(s, c)

PoolNext ==
  \/ \E c \in Submitters : SubmitNext(c)
  \/ \E s \in Slots : SlotNext(s)
  \/ JanitorTick \/ JanitorSend \/ Tick

PoolSpec == PoolInit /\ [][PoolNext]_sizingVars

(***************************************************************************)
(* Fairness. Router tasks run and timers fire. Workers come up and take    *)
(* work when the kernel offers it to them again and again. FairPoolSpec    *)
(* adds that handlers end; without it a handler may run for good, as a     *)
(* tunnel does. Nothing makes clients submit or workers crash.             *)
(***************************************************************************)
PoolFairness ==
  /\ WF_sizingVars(JanitorTick) /\ SF_sizingVars(JanitorSend) /\ WF_sizingVars(Tick)
  /\ SF_sizingVars(\E s \in Slots : Claim(s))
  /\ \A c \in Submitters :
       /\ WF_sizingVars(CheckDemand(c)) /\ WF_sizingVars(CheckRoom(c)) /\ WF_sizingVars(Grow(c))
       /\ WF_sizingVars(Send(c) \/ SendTimeout(c))
  /\ \A s \in Slots :
       /\ WF_sizingVars(Ready(s)) /\ WF_sizingVars(Respawn(s)) /\ WF_sizingVars(Refill(s))
       /\ WF_sizingVars(Drained(s)) /\ SF_sizingVars(TakeRetire(s))

LongTasksSpec == PoolSpec /\ PoolFairness
FairPoolSpec == LongTasksSpec /\ \A c \in Submitters : WF_sizingVars(\E s \in Slots : Finish(s, c))

-----------------------------------------------------------------------------
(* Types of every variable. *)
PoolTypes ==
  /\ active \in Nat /\ inFlight \in Nat
  /\ seeded \in BOOLEAN
  /\ streak \in 0..StreakCap
  /\ client \in [Submitters -> ClientStates]
  /\ work \in Seq(Submitters \cup {Retire})
  /\ slot \in [Slots -> SlotStates]
  /\ age \in [Slots -> 0..Healthy]
  /\ load \in [Slots -> SUBSET Submitters]
  /\ clock \in 0..Period
  /\ janitor \in {"asleep", "sending"}

\* Slots counted in `active`.
Provisioned == {s \in Slots : slot[s] \notin {"free", "leaving"}}

(* `active` counts the provisioned slots exactly, through crashes that     *)
(* respawn in place, retirements, refills and concurrent growth.           *)
ActiveIsSlots == active = Cardinality(Provisioned)

(* The pool never sinks below its floor other than for a replacement that  *)
(* is already decided, however many workers leave at once and whatever     *)
(* else grows the pool in between.                                         *)
FloorKept == active + Cardinality({s \in Slots : slot[s] = "leaving"}) >= Floor

(* No request is left behind: a submission ends, whichever workers crash,  *)
(* recycle or retire on its way through the queue.                         *)
Served == \A c \in Submitters : client[c] # "idle" ~> client[c] = "idle"

(* docs/applications.md on limits.requests: "the worker exits cleanly and  *)
(* the pool replaces it". While the pool is below max, a request does not  *)
(* wait in the queue for good behind tasks that never end.                 *)
DemandMet ==
  \A c \in Submitters : client[c] = "queued" /\ active < MaxWorkers ~>
                        client[c] # "queued" \/ active >= MaxWorkers

(* docs/applications.md on processes.max: "hard ceiling on worker count". *)
HardCeiling == active <= MaxWorkers

(* The comment on the janitor: "one Retire datagram per surplus worker". *)
OneRetirePerSurplus ==
  Len(SelectSeq(work, LAMBDA d : d = Retire)) <= IF active > Spare THEN active - Spare ELSE 0

(* docs/applications.md on idle_timeout: "seconds before an extra idle     *)
(* worker is retired". A pool nobody uses returns to its spare workers.    *)
Shrinks ==
  <>[](\A c \in Submitters : client[c] = "idle") => []<>(active <= Spare)
=============================================================================
