# Buran in TLA+

Buran is an application server: one router process accepts HTTP and WebSocket
clients and hands requests to pools of worker processes (a PHP module, a
reference "echo" module) over Unix sockets. This directory holds TLA+ models of
its concurrent core and of the front end that decides what answers a request, the
TLC configurations that check them, and proofs about them. Paths below are relative to `src/crates/` unless they start with `src/`.

## 1. The system

### Components

| Component | Where | State | Operations | What makes it correct |
|---|---|---|---|---|
| Request dispatch | `buran-router/src/dispatch.rs` | `Pool::pending` (id to slot: event sender, `claimed_by`, times), the queue semaphore, `Metrics::in_flight`; per worker a reader task with its `claimed` set | `submit`, `Ticket` drop and abort, `reader_task` (Claim, Data, End, Done, Error, Pong), clean-up of a lost worker | a slot has one owner and ends once; the counter equals the table; grants hold; every slot is freed |
| Pool sizing | `dispatch.rs` | `active`, `in_flight`, `granted`, `crash_streak` (atomics), one spawn task per slot | growth in `submit`, `spawn_worker`, `retire_and_refill`, backoff, the janitor's Retire datagrams | the counter equals the slots; the floor is restored; a pool in use is never left without workers |
| Task budget | `dispatch.rs`, both worker kinds | `claimed_at`, `abort_sent`, `abort_sent_at`, `kill_requested`, probe table | the sweep: Abort at the budget, Ping after the grace, kill of a worker that does not answer idle | every task over budget leaves the table; a worker that winds down is not killed |
| Event-loop worker | `buran-echo/src/worker.rs` | a semaphore of permits, `BodyRoutes`, `InFlight`, the writer's channel | main loop, handler tasks, `route_bodies`, writer task, drain | the grant is never exceeded on the wire; one end per request; a drain ends |
| WebSocket tunnel | `http1.rs` `ws_tunnel`, reader, worker | inbox, event channel, worker stream | relay both ways, close handshake, idle close, abandonment | nothing lost or doubled; the slot follows the tunnel; no circular wait |
| Blocking worker SDK | `buran-worker/src/lib.rs` | one current request, the `Responder`'s flags and buffer, frames not read yet | handshake, receive, claim, respond, `poll_control`, recycle | the frames on the stream keep to the protocol; claims end; probes are answered truly; an Abort hits its own request |
| PHP module | `buran-php/src/worker.rs`, `sapi_shim.c` | `RequestCtx` of the request in hand, the engine's own flags | headers, `ub_write`, flush, `fastcgi_finish_request`, error pages | the same, whatever order a script calls in |
| Response delivery | `http1.rs` | connection state, response buffer | `dispatch_to_app`, chunking, keep-alive, two stream timeouts | the response matches the request; a broken body never looks complete |
| Body intake | `http1.rs`, `dispatch.rs` | buffer, spill file, pump | `take_body`, `feed_body`, `pump_body` | the declared length arrives, spills are removed |
| Supervisor and prototypes | `buran/src/spawn.rs`, `buran-echo/src/prototype.rs`, `buran-php/src/prototype.rs` | one prototype per pool, token to pid map | spawn, kill, restart of a dead prototype, reaping | a token is one process; a kill reaches its process and no other; a slot serves again after any fault |
| Accept loop and drain | `buran-router/src/lib.rs`, `buran/src/main.rs` | connection counter, shutdown watch | accept below the cap, drain with a deadline | permits and counter follow the connections; nobody waits below the cap; the drain waits for the last connection and no longer |
| Status | `dispatch.rs` `stats` | none of its own | a snapshot of counters, table and workers | what it may disagree with |
| Front end | `http1.rs` `handle`, `parse_request` | the head in progress | refuse, decide, re-check, answer, upgrade | what reaches a header or an application is clean; the decision is the one documented |
| Routing, configuration | `routes.rs`, `matching.rs`, `uri.rs`, `template.rs`, `buran-config/src/validate.rs` | the compiled configuration | normalise, match, rewrite, hop; validate, extract inline applications | the first step that matches wins; what is admitted can be walked to its end |
| Static files | `serve_static.rs` | an open file, what was announced of it | locate, conditions, ranges, copy | sources stay in; the bytes are those announced; validators never join two versions |
| WebSocket decoder | `ws.rs` | buffer, fragmented message | parse, reassemble, refuse | a message is its own fragments; limits hold before memory is spent |
| Access log, wire encoding, command line | the remaining files | none that outlives a call | input and output, encoding | outside this project |

### How they interact

A connection task (one per client, `http1.rs`) decides a route and calls
`Pool::submit`. Submit takes a permit, inserts a slot, counts it, and sends one
datagram into a `SOCK_DGRAM` socket all workers of the pool read: the kernel is
the scheduler. The worker that receives it answers on its own stream: Claim
(the router now knows the owner), then Data frames, End, Done. One reader task
per worker turns frames into events on the bounded channel (8) of the slot, and
the connection task awaits them. The router writes to the same stream in the
other direction: body chunks, WebSocket messages, Abort, Ping, all behind one
lock. On the other side of the stream a blocking worker collects its frames in a
buffer and reads control frames at a script's output points only. Ahead of all this
the connection task parses the head, walks the routes of a configuration that was
validated once, and may answer by itself: a status, a file, a redirect. The pool's spawn task watches the worker's stream and replaces the worker;
the janitor and the sweep are timers on the side. Supervisor and prototypes
create processes and kill them by token.

### What is hard about it

* A slot may be ended by its worker, by its client's departure, by a timeout or
  by the death of the worker, on different runtime threads, with the table lock
  released in between (`dispatch.rs:815`, `842`, `892`, `940`).
* Counters are separate atomics, read one after another by several decisions
  (`dispatch.rs:483`, `631`, `981`).
* One stream carries the frames of many requests; order across requests matters
  (Claim behind Done, Abort ahead of Ping), and a full queue anywhere holds up
  everyone behind it (`dispatch.rs:933`, `139`; `http1.rs:1117`).
* Workers are separate programs: they crash between any two steps, lose the
  datagram they hold, and may be buggy and write anything.
* Drains and closes wait for each other's ends (`buran-echo/src/worker.rs:191`,
  `342`; `buran-router/src/lib.rs:165`; `http1.rs:655`).
* A worker that batches has an exchange in its buffer, on the stream, or half of
  each when its client leaves (`buran-worker/src/lib.rs:225`), and scripts call in
  any order (`buran-php/src/worker.rs:629`).
* A target is decoded when it is checked and again by each rewrite
  (`http1.rs:375`); a file may be replaced or cut while it is served
  (`serve_static.rs:167`, `241`); fragments, control frames and reads of any length
  interleave (`ws.rs:94`).
* Three processes know a worker by three names (slot, token, pid), each of which
  outlives what it names for a while (`buran/src/spawn.rs:267`,
  `buran-echo/src/prototype.rs:126`).

`PROJECT.json` lists each hazard at its line with the properties aimed at it.

## 2. The modules

| Module | Models | Check with |
|---|---|---|
| `Dispatch` | submit, tickets, the pending table, reader tasks, the work socket, streams, workers of both kinds (with `Granted` 1 or more) and buggy ones | `MCDispatch` |
| `DispatchProofs` | types, ownership, grants, books and answers of `Dispatch` | TLAPS |
| `PoolSizing` | counters, growth, spawn tasks, janitor, time in ticks | `MCPoolSizing` |
| `TaskSweep` | the sweep, its probe, both directions of each stream, both worker kinds | `MCTaskSweep` |
| `SweepProofs` | probes and kills of `TaskSweep` | TLAPS |
| `EchoWorker` | the tasks of the event-loop worker against an abstract router | `MCEchoWorker` |
| `Tunnel` | `EchoWorker` with the real connection tasks and reader in place of the abstract router; extends `EchoWorker` and implements it | `MCTunnel` |
| `TunnelProofs` | ledgers and ends of `EchoWorker`; `Tunnel` implements it and loses nothing | TLAPS |
| `Supervisor` | the spawn task with its handshake, the spawner, a prototype and its workers, pids, reaping | `MCSupervisor` |
| `SupervisorProofs` | names, kills and profile of `Supervisor` | TLAPS |
| `Drain` | accept loops, the connection cap, connections as the shutdown sees them, the bounded drain | `MCDrain` |
| `CounterProofs` | the counter and the floor of `PoolSizing`; permits, counter and exit of `Drain` | TLAPS |
| `Delivery` | one connection: heads, bodies, spill files, feed and pump, the answer and the next request | `MCDelivery` |
| `DeliveryProofs` | requests, answers and spill files of `Delivery` | TLAPS |
| `Exchange` | abstract: which frames a worker may have on its stream, and how many exchanges open | as `Promise` in `PhpWorker` |
| `BlockingWorker` | the SDK's loop and `Responder`, and the router as the worker sees it | with `PhpWorker` |
| `PhpWorker` | the PHP handler and its callbacks on `BlockingWorker`; implements `Exchange` | `MCPhpWorker` |
| `PhpProofs` | `PhpWorker` implements `Exchange`; what its handler believes | TLAPS |
| `Routing` | operators: normalisation, templates, patterns, steps, `decide`, `validate` | with `FrontEnd` |
| `StaticFiles` | one file response, the file system and the client's copy | with `FrontEnd` |
| `WsDecoder` | the decoder under reads of any length | with `FrontEnd` |
| `FrontEnd` | a connection from head to answer, composed of `Routing`, `StaticFiles` and `WsDecoder` | `MCFrontEnd` |
| `FrontProofs` | routes, files and frames of `FrontEnd` | TLAPS |

The `MC` modules only add symmetry sets and values of constants. Every definition that stands for code
is mapped to its lines in `PROJECT.json` under `map`.

### Dispatch

`client[r]` is the position of the connection task in `submit` and
`dispatch_to_app`; `pending[r]` is the slot (`Absent`, `Unclaimed`, or the worker
in `claimed_by`); `claimed[w]`, `reader[w]`, `hold[w]` are the reader's local
state, `hold` being the event whose `send().await` waits for room; `work` and
`stream[w]` are the kernel's queues; `job[w][r]` is what the process does.
One action is what happens between two awaits or two lock sections:
`Reserve` (permit or 503), `SpillFailed`, `Insert` (slot in the table), `Count`
(in_flight), `Send`/`SendFailed`, `Receive`, `SeeClosed`, `GiveUp` (a timeout or
the client's departure, Abort sent if claimed), `Drop` (the ticket's Drop). The
reader handles one frame per action and drops every frame of a request it has no
claim on. `Faulty` workers may write any frame at any time. A worker may die in
any state; the clean-up then drains the claimed set one entry per step, with
`try_send`.

Abstractions: the removal of a slot and its `fetch_sub` are one step (the code
releases the lock between them, `dispatch.rs:506-510`, so for an instant the
counter is one too high; no decision in this module reads it). Ids are not
reused. The process of a worker the router shut down may outlive its reader.
Handshakes have succeeded. Payloads are left out: a Data frame is response
content, and parsing never fails.

### PoolSizing

A client walks through the two loads of the growth test as two steps
(`CheckDemand`, `CheckRoom`) and the increment as a third (`Grow`), because the
code does not lock them together. A slot goes starting, serving, draining, and
then either backs off in place (younger than `Healthy`) or leaves `active`, the
value left behind deciding on a refill (`CountExit`, `Refill`). Time is a tick
that ages workers and the janitor's clock; it stops until a due janitor has run.
`load[s]` stands for what `Dispatch` details. Its specification is `PoolSpec` and its
clients are `Submitters`, beside those of `Drain`, since one module proves about both.

### TaskSweep

`sweep` is the program counter of one sweep with its two lists; a probe is
keyed by worker and task, and the answer is read when the reader gets to it.
`late` and `over` mark tasks past the budget and past the grace; the model has
no clock, so both may happen at any time after the claim. `Deaf` workers stop
reading, `Faulty` ones write unasked Pongs, the reader of a `Laggard` may be held
up by a slow client, `Uploads` lets body frames fill the stream. `Blocking`
selects the SDK's answers (`poll_control`) or the event loop's.

### EchoWorker and Tunnel

`main`, `handler[r]`, `reader` are the tasks of `buran-echo`; `waiting` is the
fair queue of senders on the writer's channel and `out` what was written and not
read; the writer task's item in hand is merged into `waiting`. The router side
is abstract: it reads, uploads chunks, sends messages and a close, Pings,
Aborts, and may close the stream. `slot[r]` is its table entry as far as the worker
notices: `RouterDrops` is a request abandoned before its Claim (`remove_if_unclaimed`),
and the Claim that comes after that is ignored, starts no upload and enters no set, so
that what the worker says of the request afterwards is discarded. `claimed` is therefore the
router's view, of the Claims it accepted; `held` is history, what the stream says the
worker has claimed and not ended, accepted or not. The grant and the ends are asked of
`held`, and `ClaimsMatch` says how the two differ. `Tunnel` keeps the worker's actions and
replaces the router's by `ws_tunnel` (select between client, events and idle
timer, but a blocking write to the worker inside the loop), the reader task with
its bounded event channels, and the sweep's Abort. `FirstEventTimeout` is the connection that
gives up first: before the Claim it takes the slot with it, and `ReaderTakes` then
ignores the Claim. `EchoSafety` is
`Init /\ [][Next]_vars` of `EchoWorker`: every step of the composition is a step
the abstract router allows, or a stutter. So the safety checked for the worker
against the abstract router holds in the composition.

Left out of both: the yields of the runtime's cooperative budget, malformed
payloads, and the write timeout of the client socket (`TimedWriter`), which
bounds a client write so that it is one step that succeeds or fails.

### Supervisor

`slot[s]` is the spawn task (`Pool::spawn_worker`), `lock` the mutex of the
`PrototypeSpawner`, `guard` its `Child`, `proc` the processes by pid, `table` the token map of the
prototype's loop. `TakeLock` to `GiveUp` walk through one spawn with its single
retry; the prototype's `poll` with its reaping, its `Spawn` and its `Kill` are
actions of their own, so that it may die between any two. A pid is free as soon as
its process has been reaped and the next fork takes the lowest free one: reuse at
the worst moment is the rule, not the exception. `Foreign` is a process of the
machine that is none of ours. With `PidOne` the router also reaps whatever child it has.

### Drain

`loop[l]` is an accept loop, `held[l]` its accepted connection that waits for a
permit, `waiters` the fair queue of the semaphore. A connection is idle, reading a
head, serving, or a tunnel, and ends in three steps (`fetch_sub`, the notification
by the last one, the drop of the permit), as in the spawned task. `Check`, `Arm` and
`Wake` are the three parts of one iteration of the drain: the load, the creation of
the `Notified` future, its completion. What a request does while it is served is the
subject of `Delivery`.

### Delivery

One connection task (`pc`, `buf`, `rd`), the feed (`feed`, `pend`, `rest`), the pump
of each request (`pump[r]`, `chan[r]`), the stream to its worker (`down[r]`) and the
worker itself. Bytes are pieces, so a piece that ends up in the wrong request, or
twice, or not at all, is seen. `ReadSocket` takes any prefix of what the client sent;
`ParseHead` or `StartFeed` is the choice of the pool; the event loops of
`dispatch_to_app` are one action per event. `FailWith` is a return with an answer of
the router's own, `Break` a return with an error; both drop the ticket, the spill
guard and the feed, as the function's locals. `rd` is the read half: with the
connection, moved into the feed, or lost. What the worker says when nobody listens is
left out, and so is who may claim the request (`Dispatch`). `Stream` is everything the client sends, in
order: a constant, with the assumption (`From`) that each head is followed by as many
pieces as it declared and these by the next head. An entry of `out` carries how many
pieces of the answer the client has with it. A broken write to the
client other than a chunk ends the task without a word to the worker (`WriteFails`).

### Exchange, BlockingWorker and PhpWorker

`Exchange` is what the router's reader and connection task rely on: on the stream of
a worker each request has Claim first, then Headers, output, End and Done, or an
Error in their place, nothing behind a terminal frame, and no more requests open than
granted. It knows neither buffers nor control frames; a step may write several frames.

`loop` is the position in the SDK's loop: `Poll` waits on work socket and stream at
once and decides which is looked at, as `poll(2)` reported it; `AnswerControl` is
`answer_idle_control`; `Recv` takes a datagram and writes the Claim at once, before
the payload is parsed; `Respond` completes the handler's response, writes the rest and
recycles. `resp` and `out` are the `Responder`'s flags and buffer, `ctrl` what the
router wrote and nobody read. `poll_control`, `drain` and `finish` are operators
(`PollControl`, `Drained`, `Finished`) that the handler's actions use. `PhpWorker` adds
the handler: `handle` with its early returns (`HandleFails`, `ErrorPage`,
`EngineFails`), the script between `StartScript` and `EndScript`, the callbacks
`SendHeaders`, `Write`, `Flush`, `FinishRequest`, and the `Drain` that returns to the
callback which asked for it, in a step of its own so that Pings, Aborts and the end
of the stream come between. `Garbled` requests are those whose datagram, payload or
fields do not decode, each of which the code notices at another place. `Implements`
is `Exchange!Spec` with a grant of one and `written` for itself: the mapping is the
identity on the stream, and everything else of the worker is hidden.

Assumed of the PHP engine, which is external: it sends headers before output and once
per request. A write to the stream either takes all or fails (`write_all`); a partial
frame before the EOF ends the reader in the same way.

### Routing, StaticFiles, WsDecoder and FrontEnd

A string is a sequence of atoms; an atom is a character, a word nothing looks into, or
an escape with what it decodes to (`Decoded`), so that decoding twice differs from
decoding once. `decide` is the loop of `routes.rs` as a function over `Hops` turns
(`Turns`), each from the one before, with a `trail` of the steps taken that the code does
not keep. A rewrite is optional, and an empty template is not the same as none: it leads to
`/` without a query. `compile_match` lowers the name of a header and of an argument;
only the former is compared with names that were lowered too, and `SuitsStep`, which says
what the documentation means, takes an argument's name as it is written. `IsConfig` is the schema, what can be written down at all; `Valid` is `validate.rs` as far
as routes, listeners and actions go, the control bytes of `location` and
`response_headers` included; the limits of `http` and the checks of applications are left out.
`Extracted` moves inline applications out, fallbacks
included. An action with its nested fallbacks is a sequence.

`StaticFiles` has the versions of one file, each with the second and the length its
ETag is made of, an open descriptor that stays with its version, and a client that
keeps a copy: it resumes with If-Range and revalidates with If-None-Match and
If-Modified-Since. `Publish` renames a new file over the name, `Truncate` cuts the one
that may be open. No two versions share both second and length (`taken`): the ETag is
made of these two, so its promise is asked of files they tell apart. What `openat2`
finds below a share is given by `Tree`.

`WsDecoder` cuts frames off a buffer that grows by pieces: two bytes, the extended
length, all of it but its last byte, all of it. Every opcode from 8 is a control frame by its
bit (`IsControl`), the reserved ones too, and `Limit` is what a frame of its kind may
announce. `cut` and `out` are history: every frame cut off and every message
handed on. `Conforms` and `Message` say what RFC 6455 makes of a whole sequence of
frames, without a decoder; `MessagesWhole` compares the two.

What a pattern means by itself is `Means`: atom by atom, each `*` any text, with none of
the four shortcuts of `Pattern::compile` (literal, prefix, suffix, both ends). Several `*`
have no shortcut, there code and reference are the same `Glob` (the regular expression is
the library's). What a CIDR block means is `Block`: the same address in every bit of the
prefix (`Bit`), where the code compares whole octets and then a mask. `FirstMatchWins` says
with these what a request takes.

`FrontEnd` starts from a configuration an operator wrote: `Boot` if it is valid, `Reject`
if not. `RefuseHead` and `ReceiveHead` split on `Refusal`, the header rules and limits;
then one action per kind of answer, with the second look at a rewritten path
(`RefuseRewrite`) ahead of all of them, as in `handle`. `FilesChange` interleaves with
every step of a response. Bodies, queues and the answers of applications are
`Delivery` and `Dispatch`.

What the code does beside its documentation, as these modules have it (found while
reading, no property asks for it; what a property does ask for and the code does not keep
is in the table of section 3):

* `types` of a share match the MIME type (`serve_static.rs:103`), which the example
  `types: ["!*.php"]` in `src/docs/static-files.md:27` does not mean.
* Several `*` compile to a regular expression over bytes whose dot stops at a newline and
  at bytes that are not UTF-8 (`matching.rs:181`), against "`*` matches anything"
  (`src/docs/routing.md:67`). `NoDot` has the two, the reference for several `*` (`Means`)
  stops at them as the code does, and one head of the instance holds one.
* `src/docs/routing.md:181` names `location` a template; `write_return` sends it as it
  stands.
* A HEAD that ends in `write_simple` is answered with a body, and `response_headers`
  are not added to a 301, 304, 404 or `return`. A rewrite to the path itself decodes it
  once more, and a decoded `?` then begins the query. Formatting and headers of this kind
  are not modelled, the double decoding is.

## 3. The runs

Times on two cores:

| Run | Instance | Shows |
|---|---|---|
| `dispatch_safety` (75 s) | 2 requests, 2 workers, one of them buggy; all capacities 1; `queue.max` 1; grant 1 | `SlotLedger`, `InFlightExact`, `GrantRespected`, `OneAnswerer`, `BoundedBacklog`, `NoUnjustKill`, `OwnerEndsTask` |
| `dispatch_live` (50 s) | 2 requests, 1 worker with a grant of 2 | `SlotFreed` under fairness |
| `pool_dynamic` (30 s) | 2 clients, max 2, spare 1, room for 4 slots | `ActiveIsSlots`, `FloorKept` |
| `sweep_forge` (3 s) | event loops: one deaf, one forging Pongs, grant 2, uploads | `CooperativeSurvives`, `NoForgedReprieve` |
| `sweep_blocking` (90 s) | blocking workers: one deaf, one with a slow client | `BudgetEnforced` under fairness |
| `echo_serve` (70 s) | a plain request, an upload, a tunnel, recycling after 2; any of them may be abandoned before its Claim | `LedgersAgree`, `EndsOnce`; `EveryClaimEnds` under fairness |
| `tunnel_safe` (95 s) | 2 tunnels, 2 messages each, grant 2; a connection may give up before the Claim | `NothingLost`, `EchoSafety` |
| `supervise` (85 s) | 2 slots, 5 pids, a foreign process, 2 faults, PID 1 | `PoolIsOne`, `KillsOwn`; `ZombiesReaped`, `SlotsRecover` under fairness |
| `drain` (30 s) | 3 clients, 2 loops, a cap of 2, one failing accept, one pipelined request each | `DrainIsHonest`; `WaitsOnlyAtCap`, `ShutdownMoves` under fairness |
| `delivery` (90 s) | 2 requests, a body of 2 pieces, answers of up to 2, all limits 1 | `ExchangesIntact`, `SpillsGo`; `Answered` under fairness |
| `php_worker` (30 s) | 2 requests, one of them garbled or not, scripts of 3 and 1 output calls, a buffer of 2 frames, recycling after 2, a Ping, Aborts, a router that may leave | `Implements`, `BeliefsTrue`; `TasksEnd`, `ProbesAnswered` under fairness |
| `front_end` (20 s) | 16 configurations, 11 of which validation refuses, 32 heads, 3 versions of a file, 14 frames | `FirstMatchWins`, `NoDeadEnd`, `SinksClean`, `OneVersion`, `BodyExact`, `SourcesHeld`, `MessagesWhole`, `NeverHoards` |

Some properties are conjunctions of parts that belong together and are named on their
own in the module: `LedgersAgree` (types, claims within the grant, what the router
holds of them, permits, abort handles), `EveryClaimEnds` (claims, closes), `PoolIsOne` (types, one process per token,
one profile), `DrainIsHonest` (permits and counter, an exit that leaves nobody behind),
`ShutdownMoves` (loops, connections), `ExchangesIntact` (requests, responses),
`BeliefsTrue` (aborts, early finishes), `ProbesAnswered` (every one, and truly). Type
invariants are conjuncts of these where TLC checks them; that of `Dispatch` is proved.

Properties of the modules that no run lists end in a counterexample, each a
disagreement between the code and what its comments, its documentation or its name for
the thing promise. Those that need an instance of their own have a configuration beside
the runs; the others fail on the instance of the run named, with the property in place
of the run's own and `Spec` (`PoolSpec`) for its specification (`ServedIntoVoid` is a
liveness property and keeps the `FairSpec` of its configuration):

| Instance | Property | What happens |
|---|---|---|
| `sweep_upload.cfg` | `BudgetEnforced` | the sweep writes Aborts and Pings behind the same lock and into the same stream as uploads, with no deadline (`dispatch.rs:1017`, `139`; the probe's timeout starts after the write, `592`). A worker that stopped reading under an upload holds the whole sweep, against `dispatch.rs:995`, "a worker whose defiant slots cross the degradation threshold is killed" |
| `sweep_lag.cfg` | `IdleSpared` | the reader of an idle worker waits for a slow client and does not see its Pong (`dispatch.rs:933`) |
| that of `drain` | `WakeupComes` | the drain loads the counter and then creates the `Notified` future; the last connection may end in between, `notify_waiters` stores nothing, and the process sleeps out the 30 seconds of the grace with no connection left (`lib.rs:165`, `248`) |
| that of `drain` | `CapHolds` | each loop at the cap has accepted one connection more, against `src/docs/configuration.md:80`, "At the cap the server stops accepting" (`lib.rs:220`) |
| `dispatch_loss.cfg` | `LossIsReported` | the clean-up reports with `try_send`; a full channel drops the Failed event (`dispatch.rs:943`) and a tunnel then closes as if normally |
| that of `pool_dynamic` | `HardCeiling` | two submits pass the growth test before either has counted its worker (`dispatch.rs:483`) |
| that of `pool_dynamic` | `OneRetirePerSurplus` | the janitor does not count Retires still queued (`dispatch.rs:981`) |
| `pool_shrink.cfg` | `Shrinks` | a worker retired before `HEALTHY_UPTIME` counts as a crash and is respawned, so a pool with a short `idle_timeout` does not shrink (`dispatch.rs:676`) |
| `pool_recycle.cfg` | `DemandMet` | a worker recycled above the floor is not replaced although a request is queued (`dispatch.rs:633`) |
| `echo_drain.cfg` | `DrainCompletes` | after Retire or `limits.requests` the echo worker waits for its writer, which waits for a sender kept by `route_bodies`, which waits for the router to close; it never exits (`buran-echo/src/worker.rs:191`) |
| `echo_gone.cfg` | `HandlersFinish` | the reader of the worker ends without clearing the route table, whose senders keep handlers waiting (`buran-echo/src/worker.rs:342`) |
| that of `echo_gone.cfg` | `ServedIntoVoid` | a client that leaves before its request is claimed takes the slot; the Claim is ignored, "the worker serves it into the void" (`dispatch.rs:857`). But no pump starts, although "the zero-length terminator always follows" (`pump_body`), no close is sent, and the sweep, which `src/docs/applications.md:141` calls "the real wall-clock backstop", looks at accepted claims only: the handler of an upload or a tunnel waits for good, with its permit |
| `tunnel_flood.cfg` | `SilenceEnds` | a client that sends faster than its echoes are taken closes a circle of full queues through connection task, worker and reader; the idle timer is not polled inside the write (`http1.rs:1117`) |
| `tunnel_budget.cfg` | `TunnelsUnlimited` | the sweep treats an open tunnel like a request (`dispatch.rs:556`) |
| `supervise_orphan.cfg` | `KillLands` | a worker outlives its prototype; the one kill sent for it goes to a prototype that does not know the token, or to none (`buran/src/spawn.rs:267`) |
| `supervise_pidone.cfg` | `RestartKillsOwn` | as PID 1 the reaper collects a dead prototype; the restart then signals a pid that may be someone else's (`buran/src/main.rs:269`, `spawn.rs:186`); when the supervisor is not PID 1 the property is proved (`RestartsKillTheirOwn`) |
| that of `delivery` | `TruncationShows` | a task that ends with Done alone, as after an Abort, gets End for its client, so a cut answer closes like a whole one (`dispatch.rs:882`, against the comment at `http1.rs:1002`) |
| `front_case.cfg` | `FirstMatchWins` | the configured name of an argument is lowered (`routes.rs:131`), that in the query is not (`routes.rs:337`): a matcher on `Page` never sees `?Page=` and is met by `?page=`, where `src/docs/routing.md:52` makes only header names case-insensitive |
| that of `front_end` | `FallbackRuns` | a fallback that is a `route`, or a `share` again, passes validation and is answered 404 (`http1.rs:435`), against `validate.rs:278`, "A fallback is a full action: it may re-enter routing via `route`", and `src/docs/routing.md:211` |
| that of `front_end` | `CutCloses` | a file cut while it is sent ends the body early, and the connection goes on to the next request (`serve_static.rs:241`), whose answer the client takes for the rest |
| that of `front_end` | `SumKnownEarly` | the fragments kept and the frame in the buffer are added up once the frame is whole (`ws.rs:118`, after `199`), so a tunnel holds up to twice the message limit, where the comment at `ws.rs:192` means the limit to be known from the header |

`pool_served.cfg` holds: in a fixed pool whose handlers end, every submission ends
(`Served`).

Of the same kind, read off the lines and not checked: half of a small grant is not a
majority (`dispatch.rs:575`); the streak that sets the backoff is cleared when a healthy
worker exits, not when it has become healthy (`dispatch.rs:689`); the blocking SDK
answers a Ping busy without looking at its task (`buran-worker/src/lib.rs:173`); a
`write_spill` that fails half way leaves its file (`http1.rs:751`); behind a worker that
stopped reading the Abort, and so the 504 after it, waits without end (`http1.rs:1023`);
two tunnels over one worker can close the circle of `tunnel_flood` with few messages.

### Bounds, and why they are enough

Capacities of one or two are the interesting ones: a channel of 8 is full after
8 steps of the same kind, and nothing in the code depends on the number. Two
requests and two workers give every pairing the properties speak of (owner and
intruder, leaver and stayer, Done of one and Claim of the other); the grant is 1
beside a buggy worker, where an over-claim needs only a second request, and 2 in
`dispatch_live` and `tunnel_safe`, where frames of concurrent requests interleave.
`pool_dynamic` has room for twice `max` slots, because the growth test can
overshoot; once all are taken, `Grow` waits, which is harmless for safety and is
why `Served` is only asked of a fixed pool. `Healthy` and `Period` are one tick,
so that workers of both ages and a due janitor meet at once; `pool_shrink` makes
`Healthy` longer than the janitor's period, which is the case in question.
In `supervise`, two spawn tasks are needed for a lock and a prototype that are
shared; five pids are a prototype, its successor, two workers and the foreign process,
so that every fork after a death reuses a pid; the second fault hits the recovery
from the first. In `drain` the third client is the one that finds the cap reached, with
one loop holding a connection beyond it and one behind it in the queue. In `delivery`
the second request shows whether the first left the connection clean; two pieces are
one that comes with the head and one that has to be read, and an answer of two
overflows a threshold of one.
In `php_worker` the first script makes one output call more than the buffer holds, so
that a batch goes out in the middle of it, and the second request follows on the same
stream, whole or garbled; `MaxRequests` is 2, so that it is also the last. `front_end` has
`Hops` 3 beside a pair of routes that send a request round for ever; each configuration
puts one group of rules to work, and each refused one breaks one rule. `MaxBody` 5
separates the two declared lengths; a file of up to 2 bytes (`MaxSize`) has a range that
covers it, splits it, exceeds it or misses it, in 3 versions (`MaxVersions`) over 2 seconds
(`MaxClock` 1): one to download, one to resume on, one to revalidate against.
`MaxMessage` 3 and `MaxControl` 2 stand for the configured size and 125, below and above
what `MaxFrames` 4 frames add up to. Heads without conditions are only sent before the
first download and the first change of the file: they do not depend on either.
`StreakCap` ends the streak's count, `MaxMsgs` the messages of a client, `Chunks` an
upload. `MaxMsgs` is 8 in `tunnel_flood`: fewer do not fill every queue of the circle.
Deadlock is checked for the pool, which never stops; the others do stop, when
all requests they know of have been served, and `front_end` with a configuration
that is refused.

### Fairness

* Tasks of the router and of the event-loop worker are weakly fair: the runtime
  polls every ready task, and timers fire. `tokio` wakes the waiters of a lock or
  a channel in order, so a write competing for a stream that fills and drains is
  strongly fair.
* The kernel offers a queued datagram to workers that ask again and again, so
  claims are strongly fair.
* Workers are assumed to write on and to end their handlers only where a run says
  so (`FairSpec` of `Dispatch`, `FairPoolSpec` of `PoolSizing`); `sweep_blocking` assumes no task
  ends by itself.
* `delivery` assumes that a worker reads its stream and that timers fire, not that
  a client sends the rest of its body, reads, or that a worker claims, answers or
  lives. `drain` assumes that a head is read within its budget and a request answered
  within its timeouts, which is `Answered`; not that tunnels end, idle connections time
  out or the grace passes. `supervise` assumes that faults end (`MaxFaults`).
* `php_worker`: the process runs whenever it can, in its loop and in its handler, and a
  script makes finitely many output calls and ends. Nothing is assumed of the router:
  not that it submits, probes, aborts or stays. `front_end` has safety properties only.
* Never assumed: that clients send, read or leave, that workers crash, that an
  Abort is sent, or that a datagram taken by a worker is claimed.

## 4. The proofs

All theorems are about `Spec` (`TunnelSpec` for the tunnel, `PoolSpec` for the pool), for any
sets of requests, workers, slots, pids and clients, any grants, bounds and capacities, any
script, any set of buggy, deaf or slow workers, any configurations, heads, files, ranges and
frames, from the named assumptions of the modules alone (`DispatchAssumption`,
`NoneAssumption` of `Dispatch` and of `Tunnel`, `PoolAssumption`, `DrainAssumption`, `WorkerAssumption`,
`OutputAssumption`, `EchoAssumption`, `TunnelAssumption`, `SupervisorAssumption`, `SweepAssumption`,
`DeliveryAssumption`, `StreamAssumption`, `ConfigAssumption`, `RequestAssumption`, `StaticAssumption`,
`DecoderAssumption`). They
say that counts are naturals, that capacities are not zero (a channel of no room does not
exist), that sets of requests are finite where their members are counted, and that
`None` is none of the things it stands in for. `StreamAssumption` says of the client that
a body is as long as its `content-length` says, which is what tells a body from the next
head; it may stop sending anywhere. `ConfigAssumption` is the schema: a configuration is
lists and maps of the right fields, patterns and templates in them texts, blocks no longer
than their address (`CidrSet::compile` refuses others), and nothing is assumed of its
validity. `RequestAssumption` is what the parser makes of any head: a method, a target and
header values that are texts, and an address of octets.
`StaticAssumption` says that a path the kernel knows is a list, that a range names a first
byte, a last one or both, and that no open file is `NoFile`; `DecoderAssumption` that a
frame is as long as its length field says, which is what a frame is. Three theorems have a
hypothesis besides: `RestartsKillTheirOwn` is about a supervisor that is not PID 1,
`CooperationPays` about event-loop workers, `FirstMatchIsTaken` about configurations whose
arguments are named without capitals (`LowerNames`). The runs have instances with and
without them, and the properties without the hypothesis are false, by `supervise_pidone`,
because the SDK's handler may go on after it saw its Abort, and by `front_case`.

Each module proves one inductive invariant: first that every step keeps the types, then
one lemma per conjunct and group of actions, then the theorem from `Init`, the step and
what the invariant implies. TLC checked each invariant on the instances of the runs
before it was proved.

`DispatchProofs`:

* `TypeCorrect`: `Spec => []TypeOK`.
* `LedgerAgrees`: `Spec => []SlotLedger`. `SlotLedger` is not inductive: that a
  claim finds the slot unclaimed depends on the datagram having been sent before.
  `SentInv` says that whatever is in the work socket, in a worker that follows the
  protocol or claimed by one, was sent; `PhaseInv` ties the slot to the phase of
  its client. `LedgerInv` is their conjunction with `TypeOK` and `SlotLedger`.
* `GrantHolds`: `Spec => []GrantRespected`, from `GrantInv`: the reader's test
  before a Claim is the only place a claimed set grows, and by one.
* `OwnershipKept`: `Spec => OwnerEndsTask`, from `LedgerInv`, step by step: of the
  client's steps none removes an owned entry, of the reader's only Done, Error and
  the clean-up.

The same module, on top of `LedgerInv`:

* `CounterExact`: `Spec => []InFlightExact`. The counter is compared with
  `Entries` minus `Uncounted` (inserted, `fetch_add` still to come); each path that
  removes an entry removes one that is counted. The steps rest on lemmas about the
  cardinality of a set that gains or loses one element.
* `BacklogBounded`: `Spec => []BoundedBacklog`. `BacklogInv` says that every unclaimed
  entry belongs to one of `Holders`, the clients whose permit is out, and that free
  permits and holders make up `queue.max`.
* `OneVoice`: `Spec => []OneAnswerer`. By `AnswersOf`, for every request: whoever
  has told the client something, has it waiting in the channel or in a reader's hand
  is one worker, and the table names no other.
* `HonestSpared`: `Spec => []NoUnjustKill`. The reader tests a Claim when it reads it,
  long after it was written; `KeepsGrant` therefore says of every position of the stream
  what the router will hold by then (`HeldBy`), and that what it will hold when all is read
  the worker has in hand (`InProgress`). A Claim is written for one request more, and
  `Jobs` stay within the grant. `HandedOnce` is needed for a datagram not to fall on a
  request the worker is at.

`CounterProofs`:

* `ActiveExact`: `PoolSpec => []ActiveIsSlots`, and `FloorHolds`: `PoolSpec => []FloorKept`, both
  from `SizeInv`: the types of the slots, the counter as the number of provisioned
  slots, and the floor counted with the exits and refills still under way.
* `HonestDrain`: `Spec => []DrainIsHonest`. `DrainIsHonest` speaks of permits, counter
  and exit; inductive it becomes with `Holders` (an accepted connection is in the hands of
  its own loop, and of no other) and `Joined` (once the drain looks at the counter, every
  loop has ended). Without the first a task could be created for a connection that has one;
  without the second the counter could grow again behind the last look. The tasks are
  finitely many because each holds a permit, which is part of the invariant: the proof
  needs no finite set of clients.

`PhpProofs`:

* `ImplementsExchange`: `Spec => Implements`, the refinement of `Exchange` by `PhpWorker`.
  The promise speaks of frames on the stream; the worker decides what comes next from the
  flags of the `Responder` and of the script. `PhpInv` ties the two: `Whole`, what was
  written of the request in hand with what is still buffered, is legal, and each
  combination of flags says which frames it may end in (`InHandle`, `InRun`, `After`);
  every other request is untouched or at its end (`OneInHand`), as a datagram is handed
  out once (`HandedOnce`). A batch then is a legal continuation of the stream, whole, and
  no second request is open. Initial states and each kind of step are mapped
  separately; a step that writes nothing is a stutter.
* `HandlerKnows`: `Spec => []BeliefsTrue`, from `PhpInv` with `AbortsKnown`: an Abort on
  its way was sent, and one that was taken was for the request in hand.
* `IdlePongs`: an idle answer to a Ping is written only when no claimed request lacks its
  end, the action half of `ProbesAnswered`.

`TunnelProofs`, first about `EchoWorker` by itself:

* `LedgersKept` and `EndedOnce`: `Spec => []LedgersAgree` and `Spec => []EndsOnce`. The
  two speak of the worker's claims (`held`) when the router reads a frame, those the router
  ignores included; what the worker writes is read much later. `StreamOK` therefore says of
  every position of the stream what the worker will hold when the router gets there
  (`HeldAt`): each Claim fits, each end is of a request held, both come once. That the router's
  `claimed` is `held` without the requests that were dropped (`ClaimsMatch`) needs that a slot
  is taken or dropped once and by its Claim or before it. `Story` says which of its entries a request has behind it, by the
  state of its handler; `Queue` that a task waits for the writer once and only where it
  waits. The hard part is an Abort: it takes a handler's end out of the queue and sends
  its own later, so a Claim that waits must not have counted on that end. `NextFits`
  counts for it only the Cancelleds queued before it (`Owing`); the permits then give the
  bound, because whoever is still owed an end is a busy handler. `Counts` bounds chunks
  and served requests.

and, on top of these, about the composition:

* `RouterKeepsContract`: `TunnelSpec => EchoSafety`. The composition replaces the abstract
  router of `EchoWorker` by the connection tasks, the reader task and the sweep, and each of
  their steps has to be one of the abstract router's. A message goes out only behind an
  accepted upgrade with the close still to come, an Abort only behind a Claim that was
  accepted; a connection that gives up before its Claim is a `RouterDrops`. `TaskInv` says how a connection knows: a 101 in its inbox or in the reader's hand
  means that the Claim before it has passed (`Promise`), and the worker does not end before
  its stream does (`Link`). The step theorem uses the invariant behind `LedgersKept`,
  which the refinement in turn keeps.
* `TunnelLedgers`: grant, permits and ends agree in the composition as well, by the
  refinement and nothing else.
* `TunnelLosesNothing`: `TunnelSpec => []NothingLost`. `Balance` counts the messages of a
  tunnel in the seven places between client and client; no single step can be judged
  without the others, since a message moves from one place to the next. It is inductive
  together with the clause that a tunnel not accepted yet has nothing under way, with `Wire`
  (what goes to a worker that serves tunnels only) and with `Routed`: whoever has claimed or
  is about to has an inbound channel, so that no message is read for nobody. An Abort or a lost worker may
  drop messages, which is why both sides speak of an active tunnel. The counts are
  cardinalities of sets of positions; `TimesCut` and the lemmas behind it say what taking an
  item from anywhere in a queue does to them.

`DeliveryProofs`:

* `ExchangesKept`: `Spec => []ExchangesIntact`. `ConnInv` is the invariant. For the way to
  the worker, `Position` says that what was not used is what the client sends next: behind
  the current head, behind the pieces taken of its body, or behind the body, by whoever
  has the read half (`Halves`). That a body cut off the front leaves the rest in place
  (`TakeBuffered`) is an induction over its length; it is done by the least number it could
  fail for (`LeastNat`), for want of an induction theorem the provers can use. `Underway`
  follows the pieces through the feed's hand, the channel and the stream: some number is
  the last that was written (`Written`), the channel begins behind it (`Behind`), and
  Aborts may stand between the frames, so that the place of a frame on the stream is not
  its number (`Carries` has a function for that). For the way back, `Counted` ties three
  places: what the client was told, what is held in the buffer and the pieces among the
  queued events (`Tally`) make up what the worker said; nothing is queued behind an end.
  `Told` says that every answer before this one has its end, without which a connection
  is not kept alive. The steps are classified first (`AnswerMove`, `CountMove`,
  `BodySteps`) and the invariant is kept by the classes.
* `NoFileStays`: `Spec => []SpillsGo`, from `Kept`, where the state before `write_spill` has
  to be told from those behind it.

`SupervisorProofs`:

* `OnePool`: `Spec => []PoolIsOne`. `Naming` is what makes a token one process: it is
  with the slot that has not sent its command, in one unread command, or with one
  process, never in two of these places; it rests on `Owning` (tokens are handed out once)
  and `Locking` (one spawn task is at the prototype, a dead prototype has no commands).
  `Seeding` says for each point of a handshake what is settled of the profile.
* `KillsReachTheirOwn`: `Spec => KillsOwn`, and `RestartsKillTheirOwn`:
  `~PidOne => (Spec => RestartKillsOwn)`. From `Parenting`: a pid in the map of a living
  prototype is a child that was not reaped, so the kernel cannot have given it away; and
  the same of the prototype in the guard, unless somebody else reaps.

`SweepProofs`:

* `NoReprieve`: `Spec => []NoForgedReprieve`. A worker that stopped reading before its
  task has `Silence`: nothing but Claims on its stream, and no answer noted while it is
  the one asked about. That needs `Asked`: no sweep asks about a worker before it holds a
  task, so no old answer can be on its way; and `Claiming`, that nobody else's Claim
  puts its name to a task.
* `CooperationPays`: `~Blocking => (Spec => []CooperativeSurvives)`. `Warnings` follows an
  Abort from the moment it is noted as sent to the kill: it is on the stream as long as the
  task is in the worker's hands, and every Ping about a task is behind it (`Ahead`), so a
  worker that reads answers idle. `Killing` carries that to the decision.

`FrontProofs`, about the three parts of a connection in turn, each with an invariant that
the steps of the others leave alone:

* `RequestIsRouted`: `Spec => []RouteInv`. `ConfSound` says what `Boot` leaves: routes whose
  every action, nested fallbacks included, names a route and a pool that exist, and no
  inline application. That validation and extraction give this (`ValidIsSound`) is the
  heart of it: an application in a fallback is known only once it was moved out, so
  `Extracted` has to reach each place `Valid` looks at. `HeadSound` ties the decision to
  the request: what `decide` returned is a walk over those routes (`DecideWalks`), and
  once an answer is under way its path and query were looked at again.
* `AdmittedHasNoDeadEnd`: `Spec => []NoDeadEnd`, from `RouteInv`: routes and pools exist and
  nothing inline is left. That a fallback is walked is another matter (`FallbackRuns`).
* `NoControlByteGetsThrough`: `Spec => []SinksClean`, from `RouteInv` and `GatherInv`. `SinksClean`
  looks at the request that went to an application or a file and at the redirect to a
  directory when it is sent, whose `Location` is made of the decoded path, and at what the
  configuration adds: validation refuses a line break there (`Unbroken`), extraction leaves
  locations and headers alone (`ExtractedKeeps`), and the walk gathers headers of its steps
  only (`Gathered`).
* `WalkIsInOrder`: `Spec => []WalkInOrder`. Each hop is taken by the first step of its route
  that matches the request as the hops before it left it, the next hop starts from
  what it leaves, and the walk stops at a terminal action, where nothing matches, or at the
  limit. `decide` is recursive: that its turns exist and follow one another
  (`TurnsInOrder`) is an induction over the number of hops,
  done by the least number it could fail for (`LeastNat`).
* `FirstMatchIsTaken`: `Spec => []FirstMatchWins` for configurations in `LowerNames`, from
  `WalkIsInOrder`'s invariant, `NamesInv` (extraction brings no capital in) and
  `TextsAreCompared`: `Spec => [](RouteInv /\ TextInv)`. It takes that what `StepMatches`
  computes is what `SuitsStep` means (`StepMeaning`), in three parts. `PatternMeaning`: a
  pattern without a star, with one anywhere or with several matches the values its atoms
  allow one by one; the lemma needs that the two ends of a single star do not overlap in
  the value, which is the length test in the code, and that a text begins and ends with
  what the code compares (`GlobPrefix`, `GlobSuffix`). `CidrMeaning`: whole octets and the
  high bits of the next are the same in two addresses exactly if every bit of the prefix
  is, for every prefix (`HighBits`, halving an octet bit by bit). And the sets: a
  list of negatives alone admits what none of them hits. These hold of texts, so `TextInv`
  says that whatever the matchers are given is one: decoded and resolved paths, the
  query, arguments and host names cut from them, and what a template makes of these
  (`NormalIsList`, `ArgumentsAreLists`, `RenderIsList`). The functions of `Routing` are
  recursive; `Recursion` and `Climb` give their equations, a step at a time.
* `FileIsServed`: `Spec => []FileInv`, and from it `CopyIsOneVersion`: `Spec => []OneVersion`,
  `BodyIsExact`: `Spec => []BodyExact` (a file cut meanwhile is excepted, and then nothing is
  said: see `CutCloses`) and `SourcesAreHeld`: `Spec => []SourcesHeld`.
  `OneVersion` speaks of the copy; it becomes inductive with `TagsSound`
  (an ETag, once used, is not used again: a second and a length name one version),
  `CopySound` (the bytes kept are of the version that has the tag kept, if one still has
  it, whatever was published since), `AskSound` (the conditions of a request are about
  the copy as it was when they were sent) and `SendingSound` (bytes on their way are of
  the version they will be joined to; or of an answer that is not kept). A 206 to If-Range
  is only sent for the tag, so the descriptor is that of the version kept. For the
  lengths, `RangeMeaning` proves `parse_range` to be `Meant` for every range and size,
  suffixes, ends beyond the file and the empty file included. For sources,
  `SourceMeaning` proves that `SourceExt`, which trims and then looks at the last dot, finds
  the extension under every way of writing the name that a lenient mount takes for the
  same (`IsSource`).
* `FramesAreCut`: `Spec => []FrameInv`, and from it `MessagesAreWhole`:
  `Spec => []MessagesWhole` and `TunnelNeverHoards`: `Spec => []NeverHoards`. The reference
  (`Messages`, `Conforms`) looks at the whole sequence of frames cut so far, the decoder
  at its two fields; `DecoderSound` says that these are the fragments joined since the last
  start, if a message is begun, and nothing otherwise. `JoinedInOrder` and
  `MessagesInOrder` unfold the two recursive functions of the reference, `FrameNext` says
  what one more frame adds to each of them, for every kind of frame; and what
  `MessagesWhole` says of a refusal needs both directions: a frame is refused only if the
  sequence with it breaks a rule, and no other is taken. `NeverHoards` follows from the limits:
  a message's fragments stay within one, a frame that is waited for was not refused by its
  header, so the two together are at most twice the message limit and a header; the code
  keeps to no less (`SumKnownEarly`).

Only model-checked:

* every property with a leads-to or an eventuality, and what rests on ENABLED:
  `SlotFreed`, `BudgetEnforced`, `EveryClaimEnds`, `ZombiesReaped`, `SlotsRecover`,
  `WaitsOnlyAtCap`, `ShutdownMoves`, `Answered`, `TasksEnd`, `ProbesAnswered` (but for
  `IdlePongs`). They are beyond the prover.

Every safety invariant and every action property that a run checks is the statement of a
theorem. The regular expression that several `*` compile to is not opened by any of them.

## 5. Plan

Next, in this order:

1. `Exchange` implemented by `EchoWorker` too, so that both kinds of worker keep one
   promise, and an abstract "one answer per request" that `Delivery` implements.
2. Script resolution and the variables of a PHP request (`buran-php/src/worker.rs`,
   `resolve_script`), behind `Routing`'s paths.
3. Status: which disagreements a snapshot of counters, table and workers may show.
4. A model of the queue with a clock that tells `queue.timeout` from the first-event
   budget, and with request ids that wrap.

## 6. Not modelled

The status snapshot changes no state and is read by people
(planned nevertheless); the access log is formatting and output; wire encoding is a
conversion between two ends of one program family, and the models exchange decoded
frames; command line, module checks and configuration parsing run once at start; regular
expressions of patterns (`~`) are a library's; the benchmark program is no part of the
server. `components` in `PROJECT.json` gives the status of every part.
