------------------------------ MODULE Supervisor ------------------------------
(***************************************************************************)
(* How the workers of one application come to life and are killed: the     *)
(* spawn task of each slot and its handshake (buran-router, dispatch.rs),  *)
(* the spawner that keeps one prototype process and sends it commands over *)
(* a control socket (buran, spawn.rs), the loop of the prototype, which    *)
(* forks, kills and reaps (buran-echo and buran-php, prototype.rs), and    *)
(* the processes themselves. The pool is a fixed one: a slot whose worker  *)
(* left spawns again, in place or as its own refill (see PoolSizing).      *)
(*                                                                         *)
(* A token stands for one spawn: the command, the stream between router    *)
(* and worker, and the process. The pids are few, so the kernel reuses     *)
(* them. The kernel side (sockets, processes, wait) is modelled by what    *)
(* the code relies on.                                                     *)
(***************************************************************************)
EXTENDS Integers, Sequences, FiniteSets

CONSTANTS
  Slots,      \* spawn tasks
  Pids,       \* process ids the kernel hands out
  MaxToken,   \* bound on the tokens handed out
  ControlCap, \* commands the control socket holds
  MaxFaults,  \* bound on what goes wrong in one behaviour
  Profiles,   \* what a worker may declare: records [conc, caps]
  ConcCap,    \* applications.<name>.concurrency, 0 if absent
  DefaultCap, \* DEFAULT_CONCURRENCY_CAP
  PidOne,     \* the supervisor is PID 1 and reaps every child
  None,       \* no process, no slot
  NoHello,    \* nothing sent yet
  BadHello    \* something that is no Hello of this version

Tokens    == 1..MaxToken
Prototype == 0             \* the "token" of a prototype process
Foreign   == MaxToken + 1  \* and of a process of another application
Unbounded == 0             \* CONCURRENCY_UNBOUNDED

ASSUME SupervisorAssumption ==
  /\ {MaxToken, ControlCap, DefaultCap} \subseteq Nat \ {0}
  /\ {ConcCap, MaxFaults} \subseteq Nat /\ PidOne \in BOOLEAN
  /\ \A h \in Profiles : h.conc \in Nat /\ h.caps \in Nat \ {0}
  /\ None \notin Pids \cup Slots
  /\ {NoHello, BadHello} \cap Profiles = {} /\ NoHello # BadHello

VARIABLES
  slot,      \* where the spawn task of a slot is
  token,     \* the token it works with
  grant,     \* WorkerState::granted of its worker, 0 before
  granted,   \* Pool::granted, 0 until the first handshake
  caps,      \* Pool::caps
  killed,    \* tokens with kill_requested set
  lock,      \* the slot that holds the prototype lock
  attempt,   \* its attempt at sending the command
  nextToken, \* PrototypeSpawner::next_token
  guard,     \* pid of the Child in PrototypeSpawner::prototype, or None
  proto,     \* where the loop of that prototype is
  control,   \* commands in the control socket, unread
  table,     \* the prototype's map of tokens to pids
  proc,      \* the processes
  hello,     \* what the worker of a token has written first
  faults     \* faults left

slotVars    == <<slot, token, grant, killed>>
poolVars    == <<granted, caps>>
spawnerVars == <<lock, attempt, nextToken, guard>>
protoVars   == <<proto, control, table>>
vars == <<slotVars, poolVars, spawnerVars, protoVars, proc, hello, faults>>

SlotStates  == {"spawn", "locked", "hello", "caps", "ack", "serve", "pause"}
ProtoStates == {"boot", "reap", "wait", "dead"}
ProcStates  == {"free", "alive", "stuck", "zombie"}
Command     == [cmd : {"spawn", "kill"}, token : Tokens]

Gone    == [state |-> "free", token |-> Prototype, orphan |-> FALSE]
Born(t) == [state |-> "alive", token |-> t, orphan |-> FALSE]

Live(p)      == proc[p].state \in {"alive", "stuck"}
IsWorker(p)  == proc[p].token \in Tokens
Runs(p, t)   == Live(p) /\ proc[p].token = t
FreePids     == {p \in Pids : proc[p].state = "free"}
NewPid       == CHOOSE p \in FreePids : TRUE  \* reused as soon as it can be

(* Who still holds an end of the stream of token t. An unread command       *)
(* carries the worker's end with it.                                        *)
RouterHolds(t) == \E s \in Slots : token[s] = t /\ slot[s] \in {"hello", "caps", "ack", "serve"}
WorkerHolds(t) ==
  \/ \E p \in Pids : Runs(p, t)
  \/ \E i \in 1..Len(control) : control[i] = [cmd |-> "spawn", token |-> t]

(* A process that ends waits for its parent, or for nobody if it is an orphan. *)
Ended(p) == IF proc[p].orphan THEN Gone ELSE [proc[p] EXCEPT !.state = "zombie"]

(* What goes wrong now is one less that can. *)
Fault == faults > 0 /\ faults' = faults - 1

Init ==
  /\ slot = [s \in Slots |-> "spawn"]
  /\ token = [s \in Slots |-> Prototype]
  /\ grant = [s \in Slots |-> 0]
  /\ granted = 0 /\ caps = 0
  /\ killed = {}
  /\ lock = None /\ attempt = 0 /\ nextToken = 1 /\ guard = None
  /\ proto = "dead" /\ control = <<>>
  /\ table = [t \in Tokens |-> None]
  /\ proc = [p \in Pids |-> Gone]
  /\ hello = [t \in Tokens |-> NoHello]
  /\ faults = MaxFaults

-----------------------------------------------------------------------------
(* The spawner. spawn_worker holds the prototype lock from here on. *)
TakeLock(s) ==
  /\ slot[s] = "spawn" /\ lock = None /\ nextToken <= MaxToken
  /\ lock' = s /\ attempt' = 0
  /\ token' = [token EXCEPT ![s] = nextToken]
  /\ nextToken' = nextToken + 1
  /\ slot' = [slot EXCEPT ![s] = "locked"]
  /\ UNCHANGED <<grant, killed, poolVars, guard, protoVars, proc, hello, faults>>

(* start_prototype: a new process, a new control socket, an empty map. *)
StartPrototype(s) ==
  /\ lock = s /\ guard = None
  /\ FreePids # {}
  /\ guard' = NewPid
  /\ proc' = [proc EXCEPT ![NewPid] = Born(Prototype)]
  /\ proto' = "boot" /\ control' = <<>>
  /\ table' = [t \in Tokens |-> None]
  /\ UNCHANGED <<slotVars, poolVars, lock, attempt, nextToken, hello, faults>>

(* spawn_worker returns an error: the slot sleeps and tries again. *)
SpawnError(s) ==
  /\ lock' = None
  /\ slot' = [slot EXCEPT ![s] = "pause"]
  /\ UNCHANGED <<token, grant, killed>>

StartFails(s) ==
  /\ lock = s /\ guard = None /\ Fault
  /\ SpawnError(s)
  /\ UNCHANGED <<poolVars, attempt, nextToken, guard, protoVars, proc, hello>>

SendSpawn(s) ==
  /\ lock = s /\ guard # None /\ proto # "dead"
  /\ Len(control) < ControlCap
  /\ control' = Append(control, [cmd |-> "spawn", token |-> token[s]])
  /\ lock' = None
  /\ slot' = [slot EXCEPT ![s] = "hello"]
  /\ UNCHANGED <<token, grant, killed, poolVars, attempt, nextToken, guard, proto, table, proc, hello, faults>>

\* Mutant: the dead prototype stays in the guard for the second attempt.
RestartKeeps(s) ==
  /\ lock = s /\ guard # None /\ proto = "dead" /\ attempt = 0
  /\ attempt' = 1
  /\ proc' = [proc EXCEPT ![guard] =
       IF Live(guard) THEN Ended(guard) ELSE IF proc[guard].token = Prototype THEN Gone ELSE @]
  /\ UNCHANGED <<slotVars, poolVars, lock, nextToken, guard, protoVars, hello, faults>>

(* The prototype is gone. First attempt: kill and wait for it, by pid, and   *)
(* start another one. Second attempt: give up and leave it as it is.         *)
Restart(s) ==
  /\ lock = s /\ guard # None /\ proto = "dead" /\ attempt = 0
  /\ attempt' = 1 /\ guard' = None
  /\ proc' = [proc EXCEPT ![guard] =
       IF Live(guard) THEN Ended(guard)                        \* kill
       ELSE IF proc[guard].token = Prototype THEN Gone ELSE @] \* wait
  /\ UNCHANGED <<slotVars, poolVars, lock, nextToken, protoVars, hello, faults>>

GiveUp(s) ==
  /\ lock = s /\ guard # None /\ proto = "dead" /\ attempt = 1
  /\ SpawnError(s)
  /\ UNCHANGED <<poolVars, attempt, nextToken, guard, protoVars, proc, hello, faults>>

(* Spawner::kill, best effort: without a prototype there is no one to tell. *)
SendKill(t) ==
  /\ lock = None
  /\ IF guard = None \/ proto = "dead"
       THEN UNCHANGED control
       ELSE /\ Len(control) < ControlCap
            /\ control' = Append(control, [cmd |-> "kill", token |-> t])

-----------------------------------------------------------------------------
(* The slot: handshake, service, and the pause before the next try. *)
Pause(s) ==
  /\ slot' = [slot EXCEPT ![s] = "pause"]
  /\ grant' = [grant EXCEPT ![s] = 0]
  /\ hello' = [hello EXCEPT ![token[s]] = NoHello]  \* the stream is closed

Resume(s) ==
  /\ slot[s] = "pause"
  /\ slot' = [slot EXCEPT ![s] = "spawn"]
  /\ UNCHANGED <<token, grant, killed, poolVars, spawnerVars, protoVars, proc, hello, faults>>

(* The read of the Hello finds the stream closed, or something else in it. *)
NoHandshake(s) ==
  /\ slot[s] = "hello"
  /\ \/ hello[token[s]] = BadHello
     \/ hello[token[s]] = NoHello /\ ~WorkerHolds(token[s])
  /\ Pause(s)
  /\ UNCHANGED <<token, killed, poolVars, spawnerVars, protoVars, proc, faults>>

(* HANDSHAKE_TIMEOUT: a worker that hangs, or a good one that was too slow. *)
HandshakeTimeout(s) ==
  /\ slot[s] = "hello" /\ hello[token[s]] = NoHello
  /\ \/ UNCHANGED faults /\ \E p \in Pids : Runs(p, token[s]) /\ proc[p].state = "stuck"
     \/ Fault
  /\ SendKill(token[s])
  /\ Pause(s)
  /\ UNCHANGED <<token, killed, poolVars, spawnerVars, proto, table, proc>>

(* The concurrency a declaration is worth under this configuration. *)
Capped(n)    == IF n = Unbounded \/ (ConcCap # Unbounded /\ ConcCap < n) THEN ConcCap ELSE n
Effective(n) == IF Capped(n) = Unbounded THEN DefaultCap ELSE Capped(n)

\* Mutant: every handshake stores the capabilities.
SeedGrantAll(s) ==
  /\ slot[s] = "hello" /\ hello[token[s]] \in Profiles
  /\ granted' = IF granted = 0 THEN Effective(hello[token[s]].conc) ELSE granted
  /\ grant' = [grant EXCEPT ![s] = granted']
  /\ slot' = [slot EXCEPT ![s] = "caps"]
  /\ UNCHANGED <<token, killed, caps, spawnerVars, protoVars, proc, hello, faults>>

(* The compare_exchange on Pool::granted: the first one also stores caps, a  *)
(* step later; the others take what is there.                               *)
SeedGrant(s) ==
  /\ slot[s] = "hello" /\ hello[token[s]] \in Profiles
  /\ granted' = IF granted = 0 THEN Effective(hello[token[s]].conc) ELSE granted
  /\ grant' = [grant EXCEPT ![s] = granted']
  /\ slot' = [slot EXCEPT ![s] = IF granted = 0 THEN "caps" ELSE "ack"]
  /\ UNCHANGED <<token, killed, caps, spawnerVars, protoVars, proc, hello, faults>>

SeedCaps(s) ==
  /\ slot[s] = "caps"
  /\ caps' = hello[token[s]].caps
  /\ slot' = [slot EXCEPT ![s] = "ack"]
  /\ UNCHANGED <<token, grant, killed, granted, spawnerVars, protoVars, proc, hello, faults>>

SendAck(s) ==
  /\ slot[s] = "ack"
  /\ IF WorkerHolds(token[s])
       THEN slot' = [slot EXCEPT ![s] = "serve"] /\ UNCHANGED <<grant, hello>>
       ELSE Pause(s)
  /\ UNCHANGED <<token, killed, poolVars, spawnerVars, protoVars, proc, faults>>

(* The reader task ends with the worker. *)
ReaderEof(s) ==
  /\ slot[s] = "serve" /\ ~WorkerHolds(token[s])
  /\ Pause(s)
  /\ UNCHANGED <<token, killed, poolVars, spawnerVars, protoVars, proc, faults>>

(* The sweep asks once for the death of a worker that does not wind down     *)
(* (TaskSweep says when); it may be wrong about one that is merely slow.     *)
SweepKill(s) ==
  /\ slot[s] = "serve" /\ token[s] \notin killed
  /\ \/ UNCHANGED faults /\ \E p \in Pids : Runs(p, token[s]) /\ proc[p].state = "stuck"
     \/ Fault
  /\ killed' = killed \cup {token[s]}
  /\ SendKill(token[s])
  /\ UNCHANGED <<slot, token, grant, poolVars, spawnerVars, proto, table, proc, hello>>

(* A claim beyond the grant: kill, and stop reading at once. *)
OverClaim(s) ==
  /\ slot[s] = "serve" /\ Fault
  /\ IF token[s] \in killed THEN UNCHANGED control ELSE SendKill(token[s])
  /\ killed' = killed \cup {token[s]}
  /\ Pause(s)
  /\ UNCHANGED <<token, poolVars, spawnerVars, proto, table, proc>>

SlotNext(s) ==
  \/ TakeLock(s) \/ StartPrototype(s) \/ StartFails(s) \/ SendSpawn(s) \/ Restart(s)
  \/ GiveUp(s) \/ Resume(s) \/ NoHandshake(s) \/ HandshakeTimeout(s) \/ SeedGrant(s)
  \/ SeedCaps(s) \/ SendAck(s) \/ ReaderEof(s) \/ SweepKill(s) \/ OverClaim(s)

-----------------------------------------------------------------------------
(* The prototype: configuration, privileges, runtime; then a loop that reaps *)
(* and waits up to a second for a command.                                  *)
Boot ==
  /\ proto = "boot" /\ proto' = "reap"
  /\ UNCHANGED <<slotVars, poolVars, spawnerVars, control, table, proc, hello, faults>>

(* waitpid(-1, WNOHANG) collects its children that ended and drops their    *)
(* tokens, so that a pid in the map is always a child not reaped yet.       *)
Collected == {p \in Pids : proc[p].state = "zombie" /\ IsWorker(p)}

\* Mutant: the tokens of the children stay in the map.
ReapChildrenForgets ==
  /\ proto = "reap" /\ proto' = "wait"
  /\ proc' = [p \in Pids |-> IF p \in Collected THEN Gone ELSE proc[p]]
  /\ UNCHANGED <<slotVars, poolVars, spawnerVars, control, table, hello, faults>>

ReapChildren ==
  /\ proto = "reap" /\ proto' = "wait"
  /\ proc' = [p \in Pids |-> IF p \in Collected THEN Gone ELSE proc[p]]
  /\ table' = [t \in Tokens |-> IF table[t] \in Collected THEN None ELSE table[t]]
  /\ UNCHANGED <<slotVars, poolVars, spawnerVars, control, hello, faults>>

\* Mutant: poll waits for a command without a timeout.
PollForever ==
  /\ proto = "wait" /\ control # <<>> /\ proto' = "reap"
  /\ UNCHANGED <<slotVars, poolVars, spawnerVars, control, table, proc, hello, faults>>

PollTimeout ==
  /\ proto = "wait" /\ control = <<>> /\ proto' = "reap"
  /\ UNCHANGED <<slotVars, poolVars, spawnerVars, control, table, proc, hello, faults>>

TakeCommand(cmd) ==
  /\ proto = "wait" /\ control # <<>> /\ Head(control).cmd = cmd
  /\ control' = Tail(control) /\ proto' = "reap"
  /\ UNCHANGED <<slotVars, poolVars, spawnerVars, hello>>

Fork ==
  /\ TakeCommand("spawn") /\ FreePids # {}
  /\ proc' = [proc EXCEPT ![NewPid] = Born(Head(control).token)]
  /\ table' = [table EXCEPT ![Head(control).token] = NewPid]
  /\ UNCHANGED faults

(* fork fails, for want of a pid or otherwise: the worker's end is closed. *)
ForkFails ==
  /\ TakeCommand("spawn")
  /\ \/ FreePids = {} /\ UNCHANGED faults
     \/ Fault
  /\ UNCHANGED <<proc, table>>

KillCommand ==
  /\ TakeCommand("kill")
  /\ LET p == table[Head(control).token]
     IN  IF p # None /\ Live(p)
           THEN proc' = [proc EXCEPT ![p] = Ended(p)]
           ELSE UNCHANGED proc
  /\ UNCHANGED <<table, faults>>

(* The prototype crashes, fails to boot, or is killed: commands it has not   *)
(* read are lost with the streams they carry, its children have no parent.  *)
PrototypeDies ==
  /\ proto # "dead" /\ Fault
  /\ proto' = "dead" /\ control' = <<>>
  /\ proc' = [p \in Pids |->
       IF p = guard THEN Ended(p)
       ELSE IF p \in Collected THEN Gone
       ELSE IF IsWorker(p) /\ Live(p) THEN [proc[p] EXCEPT !.orphan = TRUE] ELSE proc[p]]
  /\ UNCHANGED <<slotVars, poolVars, spawnerVars, table, hello>>

PrototypeLoop ==
  Boot \/ ReapChildren \/ PollTimeout \/ Fork \/ ForkFails \/ KillCommand

-----------------------------------------------------------------------------
(* The processes. A worker first says Hello; without a router it ends. *)
End(p) == proc' = [proc EXCEPT ![p] = Ended(p)]

SayHello(p) ==
  /\ IsWorker(p) /\ proc[p].state = "alive" /\ hello[proc[p].token] = NoHello
  /\ RouterHolds(proc[p].token)
  /\ \/ UNCHANGED faults /\ \E h \in Profiles : hello' = [hello EXCEPT ![proc[p].token] = h]
     \/ Fault /\ hello' = [hello EXCEPT ![proc[p].token] = BadHello]
  /\ UNCHANGED <<slotVars, poolVars, spawnerVars, protoVars, proc>>

SeeEof(p) ==
  /\ IsWorker(p) /\ proc[p].state = "alive" /\ ~RouterHolds(proc[p].token)
  /\ End(p)
  /\ UNCHANGED <<slotVars, poolVars, spawnerVars, protoVars, hello, faults>>

Hang(p) ==
  /\ IsWorker(p) /\ proc[p].state = "alive" /\ Fault
  /\ proc' = [proc EXCEPT ![p].state = "stuck"]
  /\ UNCHANGED <<slotVars, poolVars, spawnerVars, protoVars, hello>>

(* A crash, a Retire, limits.requests: the process ends by itself. *)
Exit(p) ==
  /\ IsWorker(p) /\ Live(p) /\ Fault
  /\ End(p)
  /\ UNCHANGED <<slotVars, poolVars, spawnerVars, protoVars, hello>>

(* Another application of this supervisor starts a process; one will do. *)
ForeignStarts ==
  /\ FreePids # {} /\ (\A p \in Pids : proc[p].token # Foreign) /\ Fault
  /\ proc' = [proc EXCEPT ![NewPid] = [Born(Foreign) EXCEPT !.orphan = TRUE]]
  /\ UNCHANGED <<slotVars, poolVars, spawnerVars, protoVars, hello>>

(* reap_orphans_as_pid1 collects whatever child of the supervisor ended: the *)
(* prototype too, before spawn_worker gets to wait for it.                  *)
ReapAsPidOne(p) ==
  /\ PidOne
  /\ proc[p].state = "zombie" /\ proc[p].token = Prototype
  /\ proc' = [proc EXCEPT ![p] = Gone]
  /\ UNCHANGED <<slotVars, poolVars, spawnerVars, protoVars, hello, faults>>

ProcessNext(p) ==
  SayHello(p) \/ SeeEof(p) \/ Hang(p) \/ Exit(p) \/ ReapAsPidOne(p)

Next ==
  \/ \E s \in Slots : SlotNext(s)
  \/ PrototypeLoop \/ PrototypeDies \/ ForeignStarts
  \/ \E p \in Pids : ProcessNext(p)

(* Tasks of the router, the loop of a living prototype and a healthy worker  *)
(* run on. Kills, faults and the ends of processes come when they come.     *)
Fairness ==
  /\ \A s \in Slots : WF_vars(SlotNext(s) /\ ~SweepKill(s) /\ ~OverClaim(s))
  /\ WF_vars(PrototypeLoop)
  /\ \A p \in Pids : WF_vars(SayHello(p))

Spec     == Init /\ [][Next]_vars
FairSpec == Spec /\ Fairness

-----------------------------------------------------------------------------
TypeOK ==
  /\ slot \in [Slots -> SlotStates] /\ token \in [Slots -> {Prototype} \cup Tokens]
  /\ grant \in [Slots -> Nat] /\ granted \in Nat /\ caps \in Nat
  /\ killed \subseteq Tokens
  /\ lock \in Slots \cup {None} /\ attempt \in {0, 1} /\ nextToken \in 1..MaxToken + 1
  /\ guard \in Pids \cup {None} /\ proto \in ProtoStates
  /\ control \in Seq(Command) /\ Len(control) <= ControlCap
  /\ table \in [Tokens -> Pids \cup {None}]
  /\ proc \in [Pids -> [state : ProcStates, token : 0..Foreign, orphan : BOOLEAN]]
  /\ hello \in [Tokens -> Profiles \cup {NoHello, BadHello}]
  /\ faults \in 0..MaxFaults

(* spawn.rs:8, "the supervisor-assigned kill token": a token names one      *)
(* process, also when spawn_worker sends its command a second time to a     *)
(* fresh prototype, so a kill has one target and a stream one worker.       *)
OneProcessPerToken ==
  \A p, q \in Pids : Live(p) /\ Live(q) /\ p # q /\ IsWorker(p) => proc[p].token # proc[q].token

(* prototype.rs:11, "killing by the pid it forked is reuse-safe": however   *)
(* pids are reused, a kill command ends no process but the one of its token.*)
Dies(p)  == Live(p) /\ proc[p]' # proc[p]
KillStep == control # <<>> /\ Head(control).cmd = "kill" /\ control' = Tail(control) /\ proto' # "dead"

KillsOwn == [][KillStep => \A p \in Pids : Dies(p) => proc[p].token = Head(control).token]_vars

(* main.rs:266, "whoever reaps first wins, the loser gets ECHILD and moves   *)
(* on": a restart of the prototype ends no process but a prototype.         *)
RestartStep == guard # None /\ guard' = None

RestartKillsOwn == [][RestartStep => \A p \in Pids : Dies(p) => proc[p].token = Prototype]_vars

(* dispatch.rs:746, "the FIRST handshake seeds the pool-wide concurrency and *)
(* capability values": what the pool works with comes from one declaration,  *)
(* whatever other workers declare at the same time, and every worker is held *)
(* to it.                                                                   *)
OneProfile ==
  /\ caps # 0 => \E h \in Profiles : granted = Effective(h.conc) /\ caps = h.caps
  /\ \A s \in Slots : grant[s] \in {0, granted}

(* What the two locks of spawn.rs and the pool's profile protect, through    *)
(* every fault: one process for a token, one declaration for the pool.      *)
PoolIsOne == TypeOK /\ OneProcessPerToken /\ OneProfile

(* prototype.rs:116, "the timeout wakes us to reap workers": the prototype   *)
(* leaves no zombie behind, whether or not a command ever comes again.      *)
ZombiesReaped == []<>(Collected = {})

(* spawn_worker (both): once nothing more goes wrong every slot comes to     *)
(* serve, whatever state the faults left spawner, prototype and streams in. *)
SlotsRecover == <>[](\A s \in Slots : slot[s] = "serve")

(* spawn.rs:267, "if the prototype is down there is nothing to kill (its     *)
(* workers died with it)": a worker the pool wants killed ends.             *)
KillLands == \A t \in Tokens : t \in killed ~> \A p \in Pids : ~Runs(p, t)

=============================================================================
