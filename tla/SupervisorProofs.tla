--------------------------- MODULE SupervisorProofs ---------------------------
(***************************************************************************)
(* Proofs about how workers are spawned and killed, for any number of      *)
(* slots, process ids, tokens and faults: a token names one process, a     *)
(* kill ends no other, and the pool's profile is one worker's declaration. *)
(***************************************************************************)
EXTENDS Supervisor, SequenceTheorems, TLAPS

-----------------------------------------------------------------------------
(* The inductive invariant.                                                *)

\* A spawn command for t is among the commands c.
Carries(c, t) == \E i \in 1 .. Len(c) : c[i].cmd = "spawn" /\ c[i].token = t

\* No token is spawned twice by the commands c.
Distinct(c) ==
  \A i, j \in 1 .. Len(c) :
    c[i].cmd = "spawn" /\ c[j].cmd = "spawn" /\ c[i].token = c[j].token => i = j

\* The prototype lock has one owner; a dead prototype has no socket.
Locking ==
  /\ \A s \in Slots : slot[s] = "locked" <=> lock = s
  /\ guard = None => proto = "dead"
  /\ proto = "dead" => control = <<>>

\* The token of a slot is its own, and was handed out.
Owning ==
  /\ \A s \in Slots : token[s] < nextToken
  /\ \A s \in Slots : slot[s] # "spawn" => token[s] \in Tokens
  /\ \A s, u \in Slots : token[s] = token[u] => s = u \/ token[s] = Prototype

\* A token is in one place: with the slot that has not sent its command, in
\* one unread command, or with one process.
Naming ==
  /\ Distinct(control)
  /\ \A t \in Tokens : Carries(control, t) =>
       /\ t < nextToken /\ \A p \in Pids : ~Runs(p, t)
       /\ \A s \in Slots : lock = s => token[s] # t
  /\ \A p \in Pids : Live(p) /\ IsWorker(p) =>
       /\ proc[p].token < nextToken
       /\ \A s \in Slots : lock = s => token[s] # proc[p].token
  /\ OneProcessPerToken

\* A pid in the map of a living prototype is a child of it that bears the
\* token and was not reaped; the pid in the guard is a prototype's, unless
\* the supervisor reaps as PID 1.
Parenting ==
  /\ proto # "dead" => \A t \in Tokens : table[t] # None =>
       proc[table[t]].token = t /\ proc[table[t]].state # "free" /\ ~proc[table[t]].orphan
  /\ ~PidOne /\ guard # None =>
       proc[guard].token = Prototype /\ proc[guard].state # "free" /\ ~proc[guard].orphan

\* One worker seeds the profile, and the pool's grant is then settled.
Seeding ==
  /\ granted = 0 => caps = 0 /\ \A s \in Slots : grant[s] = 0 /\ slot[s] # "caps"
  /\ \A s \in Slots : slot[s] = "caps" =>
       hello[token[s]] \in Profiles /\ granted = Effective(hello[token[s]].conc)
  /\ OneProfile

SupervisorInv == TypeOK /\ Locking /\ Owning /\ Naming /\ Parenting /\ Seeding

-----------------------------------------------------------------------------
(* Processes and commands.                                                 *)

ProcRecords == [state : ProcStates, token : 0 .. Foreign, orphan : BOOLEAN]

(* What the proofs use of the constants.                                   *)
LEMMA Bounds ==
  /\ MaxToken \in Nat /\ MaxToken > 0 /\ ControlCap \in Nat /\ MaxFaults \in Nat
  /\ DefaultCap \in Nat /\ DefaultCap > 0 /\ ConcCap \in Nat
  /\ None \notin Pids /\ None \notin Slots
  /\ Prototype \notin Tokens /\ Foreign \notin Tokens /\ Prototype \in 0 .. Foreign /\ Foreign \in 0 .. Foreign
  /\ Tokens \subseteq 0 .. Foreign
BY SupervisorAssumption DEF Tokens, Prototype, Foreign

(* A fresh process takes a pid that nobody has.                            *)
LEMMA NewPidIsFree ==
  ASSUME FreePids # {}
  PROVE  NewPid \in Pids /\ proc[NewPid].state = "free"
BY DEF NewPid, FreePids

(* What processes may become.                                              *)
LEMMA Ends ==
  ASSUME proc \in [Pids -> ProcRecords], NEW p \in Pids
  PROVE  /\ Ended(p) \in ProcRecords /\ Ended(p).state \in {"free", "zombie"}
         /\ ~proc[p].orphan => Ended(p) = [state |-> "zombie", token |-> proc[p].token, orphan |-> FALSE]
<1>1. proc[p] \in ProcRecords
  OBVIOUS
<1>2. Gone \in ProcRecords /\ Gone.state = "free"
  BY Bounds DEF Gone, ProcRecords, ProcStates
<1>3. [proc[p] EXCEPT !.state = "zombie"] \in ProcRecords
  BY <1>1 DEF ProcRecords, ProcStates
<1>4. [proc[p] EXCEPT !.state = "zombie"] = [state |-> "zombie", token |-> proc[p].token, orphan |-> proc[p].orphan]
  BY <1>1 DEF ProcRecords
<1>5. CASE proc[p].orphan
  BY <1>2, <1>5 DEF Ended
<1>6. CASE ~proc[p].orphan
  <2>1. proc[p].orphan = FALSE
    BY <1>1, <1>6 DEF ProcRecords
  <2>2. QED
    BY <1>3, <1>4, <2>1 DEF Ended
<1>7. QED
  BY <1>5, <1>6

(* A process is born alive, with its token and a parent.                   *)
LEMMA BornType == \A t \in 0 .. Foreign : /\ Born(t) \in ProcRecords /\ Born(t).state = "alive"
                                          /\ Born(t).token = t /\ ~Born(t).orphan
BY DEF Born, ProcRecords, ProcStates

(* Commands come at the end of the socket and leave at its head.           *)
LEMMA CommandSent ==
  ASSUME NEW c \in Seq(Command), NEW x \in Command
  PROVE  /\ Append(c, x) \in Seq(Command) /\ Len(Append(c, x)) = Len(c) + 1
         /\ c # <<>> => Append(c, x) # Tail(c)
         /\ \A t : Carries(Append(c, x), t) <=> Carries(c, t) \/ (x.cmd = "spawn" /\ x.token = t)
         /\ Distinct(c) /\ (x.cmd = "spawn" => ~Carries(c, x.token)) => Distinct(Append(c, x))
<1> DEFINE d == Append(c, x)
<1>1. /\ d \in Seq(Command) /\ Len(d) = Len(c) + 1 /\ Len(c) \in Nat
      /\ \A i \in 1 .. Len(c) : d[i] = c[i]
      /\ d[Len(c) + 1] = x
  BY AppendProperties, LenProperties
<1> HIDE DEF d
<1>2. \A i \in 1 .. Len(d) : i \in 1 .. Len(c) \/ i = Len(c) + 1
  BY <1>1
<1>3. \A t : Carries(d, t) <=> Carries(c, t) \/ (x.cmd = "spawn" /\ x.token = t)
  BY <1>1, <1>2 DEF Carries
<1>4. ASSUME Distinct(c), x.cmd = "spawn" => ~Carries(c, x.token) PROVE Distinct(d)
  <2> SUFFICES ASSUME NEW i \in 1 .. Len(d), NEW j \in 1 .. Len(d),
                      d[i].cmd = "spawn", d[j].cmd = "spawn", d[i].token = d[j].token
               PROVE  i = j
    BY DEF Distinct
  <2>1. CASE i \in 1 .. Len(c) /\ j \in 1 .. Len(c)
    BY <1>1, <1>4, <2>1 DEF Distinct
  <2>2. CASE i \in 1 .. Len(c) /\ j = Len(c) + 1
    BY <1>1, <1>4, <2>2 DEF Carries
  <2>3. CASE i = Len(c) + 1 /\ j \in 1 .. Len(c)
    BY <1>1, <1>4, <2>3 DEF Carries
  <2>4. QED
    BY <1>2, <2>1, <2>2, <2>3
<1>5. ASSUME c # <<>> PROVE d # Tail(c)
  <2>1. Len(Tail(c)) = Len(c) - 1
    BY <1>5
  <2>2. QED
    BY <1>1, <2>1
<1>6. QED
  BY <1>1, <1>3, <1>4, <1>5 DEF d

(* The command the prototype takes leaves the others.                      *)
LEMMA CommandTaken ==
  ASSUME NEW c \in Seq(Command), c # <<>>
  PROVE  /\ Tail(c) \in Seq(Command) /\ Len(Tail(c)) = Len(c) - 1 /\ Len(Tail(c)) \in Nat
         /\ Head(c) \in Command
         /\ c # Tail(c)
         /\ \A t : Carries(Tail(c), t) => Carries(c, t)
         /\ Head(c).cmd = "spawn" => Carries(c, Head(c).token)
         /\ Distinct(c) => Distinct(Tail(c))
         /\ Distinct(c) /\ Head(c).cmd = "spawn" => ~Carries(Tail(c), Head(c).token)
<1> DEFINE d == Tail(c)
           x == Head(c)
<1>1. /\ d \in Seq(Command) /\ Len(d) = Len(c) - 1 /\ Len(d) \in Nat /\ x \in Command
      /\ \A i \in 1 .. Len(d) : d[i] = c[i + 1]
  BY HeadTailProperties, EmptySeq
<1>2. x = c[1]
  OBVIOUS
<1> HIDE DEF d, x
<1>3. 1 \in 1 .. Len(c) /\ \A i \in 1 .. Len(d) : i + 1 \in 1 .. Len(c) /\ i + 1 # 1
  BY <1>1
<1>4. \A t : Carries(d, t) => Carries(c, t)
  BY <1>1, <1>3 DEF Carries
<1>5. x.cmd = "spawn" => Carries(c, x.token)
  BY <1>2, <1>3 DEF Carries
<1>6. ASSUME Distinct(c) PROVE Distinct(d)
  <2> SUFFICES ASSUME NEW i \in 1 .. Len(d), NEW j \in 1 .. Len(d),
                      d[i].cmd = "spawn", d[j].cmd = "spawn", d[i].token = d[j].token
               PROVE  i = j
    BY DEF Distinct
  <2>1. i + 1 = j + 1
    BY <1>1, <1>3, <1>6 DEF Distinct
  <2>2. QED
    BY <2>1
<1>7. ASSUME Distinct(c), x.cmd = "spawn", Carries(d, x.token) PROVE FALSE
  <2>1. PICK i \in 1 .. Len(d) : d[i].cmd = "spawn" /\ d[i].token = x.token
    BY <1>7 DEF Carries
  <2>2. i + 1 = 1
    BY <1>1, <1>2, <1>3, <1>7, <2>1 DEF Distinct
  <2>3. QED
    BY <1>3, <2>2
<1>8. c # d
  BY <1>1
<1>9. QED
  BY <1>1, <1>4, <1>5, <1>6, <1>7, <1>8 DEF d, x

(* An empty socket carries nothing.                                        *)
LEMMA NoCommands == /\ <<>> \in Seq(Command) /\ Len(<<>>) = 0
                    /\ Distinct(<<>>) /\ \A t : ~Carries(<<>>, t)
<1>1. Len(<<>>) = 0 /\ 1 .. 0 = {} /\ <<>> \in Seq(Command)
  OBVIOUS
<1>2. QED
  BY <1>1 DEF Distinct, Carries

(* A kill that is sent is one more command, and no spawn.                  *)
LEMMA KillSent ==
  ASSUME TypeOK, NEW t \in Tokens, SendKill(t)
  PROVE  /\ control' \in Seq(Command) /\ Len(control') <= ControlCap
         /\ Distinct(control) => Distinct(control')
         /\ \A u : Carries(control', u) => Carries(control, u)
         /\ proto = "dead" => control' = control
         /\ control # <<>> => control' # Tail(control)
<1>1. control \in Seq(Command) /\ Len(control) <= ControlCap /\ Len(control) \in Nat
  BY DEF TypeOK
<1>2. CASE UNCHANGED control
  <2>1. control # <<>> => control # Tail(control)
    BY <1>1, CommandTaken
  <2>2. QED
    BY <1>1, <1>2, <2>1
<1>3. CASE ~UNCHANGED control
  <2> DEFINE x == [cmd |-> "kill", token |-> t]
  <2>1. Len(control) < ControlCap /\ control' = Append(control, x) /\ proto # "dead"
    BY <1>3 DEF SendKill
  <2>2. x \in Command /\ x.cmd # "spawn"
    BY DEF Command
  <2> HIDE DEF x
  <2>3. Len(Append(control, x)) <= ControlCap
    BY <1>1, <2>1, <2>2, CommandSent, Bounds
  <2>4. QED
    BY <1>1, <2>1, <2>2, <2>3, CommandSent
<1>4. QED
  BY <1>2, <1>3

-----------------------------------------------------------------------------
(* Every step keeps the types.                                             *)

(* A declared concurrency makes a grant of one at least.                   *)
LEMMA GrantType ==
  /\ \A h \in Profiles : h.conc \in Nat /\ h.caps \in Nat \ {0}
                         /\ Effective(h.conc) \in Nat /\ Effective(h.conc) # 0
  /\ NoHello \notin Profiles /\ BadHello \notin Profiles
<1>1. NoHello \notin Profiles /\ BadHello \notin Profiles
  BY SupervisorAssumption
<1>2. ASSUME NEW h \in Profiles
      PROVE  /\ h.conc \in Nat /\ h.caps \in Nat \ {0}
             /\ Effective(h.conc) \in Nat /\ Effective(h.conc) # 0
  <2>1. h.conc \in Nat /\ h.caps \in Nat \ {0}
    BY SupervisorAssumption
  <2>2. Capped(h.conc) \in Nat
    BY <2>1, Bounds DEF Capped
  <2>3. QED
    BY <2>1, <2>2, Bounds DEF Effective, Unbounded
<1>3. QED
  BY <1>1, <1>2

(* Faults are counted.                                                     *)
LEMMA FaultType == ASSUME TypeOK, faults' = faults \/ Fault PROVE faults' \in 0 .. MaxFaults
BY Bounds DEF TypeOK, Fault

(* A spawn given up leaves values of their types.                          *)
LEMMA PauseTypes ==
  ASSUME TypeOK, NEW s \in Slots, Pause(s)
  PROVE  /\ slot' \in [Slots -> SlotStates] /\ grant' \in [Slots -> Nat]
         /\ hello' \in [Tokens -> Profiles \cup {NoHello, BadHello}]
BY DEF TypeOK, Pause, SlotStates

(* The spawn tasks keep the types.                                         *)
LEMMA SlotTypes ==
  ASSUME TypeOK, Locking, Owning, Seeding, NEW s \in Slots, SlotNext(s)
  PROVE  TypeOK'
<1> USE DEF TypeOK
<1>1. CASE TakeLock(s)
  <2>1. nextToken \in Tokens /\ nextToken + 1 \in 1 .. MaxToken + 1
    BY <1>1, Bounds DEF TakeLock, Tokens
  <2>2. token' \in [Slots -> {Prototype} \cup Tokens] /\ slot' \in [Slots -> SlotStates]
    BY <1>1, <2>1 DEF TakeLock, SlotStates
  <2>3. QED
    BY <1>1, <2>1, <2>2 DEF TakeLock, poolVars, protoVars
<1>2. CASE StartPrototype(s)
  <2>1. NewPid \in Pids
    BY <1>2, NewPidIsFree DEF StartPrototype
  <2>2. proc' \in [Pids -> ProcRecords]
    BY <1>2, <2>1, BornType, Bounds DEF StartPrototype, ProcRecords
  <2>3. control' \in Seq(Command) /\ Len(control') <= ControlCap
    BY <1>2, NoCommands, Bounds DEF StartPrototype
  <2>4. table' \in [Tokens -> Pids \cup {None}] /\ proto' \in ProtoStates
    BY <1>2 DEF StartPrototype, ProtoStates
  <2>5. QED
    BY <1>2, <2>1, <2>2, <2>3, <2>4 DEF StartPrototype, slotVars, poolVars, ProcRecords
<1>3. CASE StartFails(s) \/ GiveUp(s)
  <2>1. slot' \in [Slots -> SlotStates] /\ faults' \in 0 .. MaxFaults
    BY <1>3, FaultType DEF StartFails, GiveUp, SpawnError, SlotStates
  <2>2. QED
    BY <1>3, <2>1 DEF StartFails, GiveUp, SpawnError, poolVars, protoVars
<1>4. CASE SendSpawn(s)
  <2>1. token[s] \in Tokens
    BY <1>4 DEF SendSpawn, Locking, Owning
  <2>2. [cmd |-> "spawn", token |-> token[s]] \in Command
    BY <2>1 DEF Command
  <2>3. control' \in Seq(Command) /\ Len(control') <= ControlCap
    <3>1. Len(control) < ControlCap /\ Len(control) \in Nat /\ Len(control') = Len(control) + 1
          /\ control' \in Seq(Command)
      BY <1>4, <2>2, CommandSent DEF SendSpawn
    <3>2. QED
      BY <3>1, Bounds
  <2>4. slot' \in [Slots -> SlotStates]
    BY <1>4 DEF SendSpawn, SlotStates
  <2>5. QED
    BY <1>4, <2>3, <2>4 DEF SendSpawn, poolVars
<1>5. CASE Restart(s)
  <2>1. guard \in Pids
    BY <1>5 DEF Restart
  <2>2. proc' \in [Pids -> ProcRecords]
    <3>1. Gone \in ProcRecords /\ Ended(guard) \in ProcRecords /\ proc \in [Pids -> ProcRecords]
      BY <2>1, Ends, Bounds DEF ProcRecords, Gone, ProcStates
    <3>2. QED
      BY <1>5, <2>1, <3>1 DEF Restart
  <2>3. QED
    BY <1>5, <2>2 DEF Restart, slotVars, poolVars, protoVars, ProcRecords
<1>6. CASE Resume(s)
  <2>1. slot' \in [Slots -> SlotStates]
    BY <1>6 DEF Resume, SlotStates
  <2>2. QED
    BY <1>6, <2>1 DEF Resume, poolVars, spawnerVars, protoVars
<1>7. CASE NoHandshake(s) \/ ReaderEof(s)
  BY <1>7, PauseTypes DEF NoHandshake, ReaderEof, poolVars, spawnerVars, protoVars
<1>8. CASE HandshakeTimeout(s) \/ OverClaim(s) \/ SweepKill(s)
  <2>1. token[s] \in Tokens
    BY <1>8 DEF HandshakeTimeout, OverClaim, SweepKill, Owning
  <2>2. control' \in Seq(Command) /\ Len(control') <= ControlCap
    BY <1>8, <2>1, KillSent DEF HandshakeTimeout, OverClaim, SweepKill
  <2>3. faults' \in 0 .. MaxFaults
    BY <1>8, FaultType DEF HandshakeTimeout, OverClaim, SweepKill
  <2>4. killed' \subseteq Tokens
    BY <1>8, <2>1 DEF HandshakeTimeout, OverClaim, SweepKill
  <2>5. /\ slot' \in [Slots -> SlotStates] /\ grant' \in [Slots -> Nat]
        /\ hello' \in [Tokens -> Profiles \cup {NoHello, BadHello}]
    BY <1>8, PauseTypes DEF HandshakeTimeout, OverClaim, SweepKill
  <2>6. QED
    BY <1>8, <2>2, <2>3, <2>4, <2>5 DEF HandshakeTimeout, OverClaim, SweepKill, poolVars, spawnerVars
<1>9. CASE SeedGrant(s)
  <2>1. granted' \in Nat
    BY <1>9, GrantType DEF SeedGrant
  <2>2. slot' \in [Slots -> SlotStates] /\ grant' \in [Slots -> Nat]
    BY <1>9, <2>1 DEF SeedGrant, SlotStates
  <2>3. QED
    BY <1>9, <2>1, <2>2 DEF SeedGrant, spawnerVars, protoVars
<1>10. CASE SeedCaps(s)
  <2>1. caps' \in Nat
    BY <1>10, GrantType DEF SeedCaps, Seeding
  <2>2. slot' \in [Slots -> SlotStates]
    BY <1>10 DEF SeedCaps, SlotStates
  <2>3. QED
    BY <1>10, <2>1, <2>2 DEF SeedCaps, spawnerVars, protoVars
<1>11. CASE SendAck(s)
  <2>1. /\ slot' \in [Slots -> SlotStates] /\ grant' \in [Slots -> Nat]
        /\ hello' \in [Tokens -> Profiles \cup {NoHello, BadHello}]
    BY <1>11, PauseTypes DEF SendAck, SlotStates
  <2>2. QED
    BY <1>11, <2>1 DEF SendAck, poolVars, spawnerVars, protoVars
<1>12. QED
  BY <1>1, <1>2, <1>3, <1>4, <1>5, <1>6, <1>7, <1>8, <1>9, <1>10, <1>11 DEF SlotNext

(* The prototype keeps the types.                                          *)
LEMMA PrototypeTypes ==
  ASSUME TypeOK, PrototypeLoop \/ PrototypeDies
  PROVE  TypeOK'
<1> USE DEF TypeOK
<1>0. proc \in [Pids -> ProcRecords] /\ Gone \in ProcRecords
  BY Bounds DEF ProcRecords, Gone, ProcStates
<1>1. CASE Boot \/ PollTimeout
  BY <1>1 DEF Boot, PollTimeout, ProtoStates, slotVars, poolVars, spawnerVars
<1>2. CASE ReapChildren
  <2>1. proc' \in [Pids -> ProcRecords]
    BY <1>0, <1>2 DEF ReapChildren
  <2>2. table' \in [Tokens -> Pids \cup {None}] /\ proto' \in ProtoStates
    BY <1>2 DEF ReapChildren, ProtoStates
  <2>3. QED
    BY <1>2, <2>1, <2>2 DEF ReapChildren, slotVars, poolVars, spawnerVars, ProcRecords
<1>3. ASSUME NEW cmd, TakeCommand(cmd)
      PROVE  /\ Head(control) \in Command /\ Head(control).token \in Tokens
             /\ control' \in Seq(Command) /\ Len(control') <= ControlCap /\ proto' \in ProtoStates
  <2>1. control # <<>> /\ control' = Tail(control) /\ proto' = "reap"
    BY <1>3 DEF TakeCommand
  <2>2. Head(control) \in Command /\ control' \in Seq(Command) /\ Len(control') = Len(control) - 1
        /\ Len(control) \in Nat
    BY <2>1, CommandTaken
  <2>3. QED
    BY <2>1, <2>2, Bounds DEF Command, ProtoStates
<1>4. CASE Fork
  <2>1. NewPid \in Pids /\ Head(control).token \in Tokens
    BY <1>3, <1>4, NewPidIsFree DEF Fork
  <2>2. proc' \in [Pids -> ProcRecords] /\ table' \in [Tokens -> Pids \cup {None}]
    <3>1. Born(Head(control).token) \in ProcRecords
      BY <2>1, BornType, Bounds
    <3>2. QED
      BY <1>0, <1>4, <2>1, <3>1 DEF Fork
  <2>3. QED
    BY <1>3, <1>4, <2>2 DEF Fork, TakeCommand, slotVars, poolVars, spawnerVars, ProcRecords
<1>5. CASE ForkFails
  BY <1>3, <1>5, FaultType DEF ForkFails, TakeCommand, slotVars, poolVars, spawnerVars
<1>6. CASE KillCommand
  <2>1. proc' \in [Pids -> ProcRecords]
    <3>1. table[Head(control).token] \in Pids \cup {None}
      BY <1>3, <1>6 DEF KillCommand
    <3> DEFINE p == table[Head(control).token]
    <3> HIDE DEF p
    <3>2. p \in Pids \cup {None} /\ (proc' = proc \/ (p # None /\ proc' = [proc EXCEPT ![p] = Ended(p)]))
      BY <1>6, <3>1 DEF KillCommand, p
    <3>3. QED
      BY <1>0, <3>2, Ends
  <2>2. QED
    BY <1>3, <1>6, <2>1 DEF KillCommand, TakeCommand, slotVars, poolVars, spawnerVars, ProcRecords
<1>7. CASE PrototypeDies
  <2>1. \A p \in Pids : /\ Ended(p) \in ProcRecords
                        /\ [proc[p] EXCEPT !.orphan = TRUE] \in ProcRecords
    <3>1. \A p \in Pids : Ended(p) \in ProcRecords
      BY <1>0, Ends
    <3>2. \A p \in Pids : proc[p] \in ProcRecords
      BY <1>0
    <3>3. QED
      BY <3>1, <3>2 DEF ProcRecords
  <2>2. proc' \in [Pids -> ProcRecords]
    BY <1>0, <1>7, <2>1 DEF PrototypeDies
  <2>3. control' \in Seq(Command) /\ Len(control') <= ControlCap
    BY <1>7, NoCommands, Bounds DEF PrototypeDies
  <2>4. faults' \in 0 .. MaxFaults
    BY <1>7, FaultType DEF PrototypeDies
  <2>5. QED
    BY <1>7, <2>2, <2>3, <2>4 DEF PrototypeDies, slotVars, poolVars, spawnerVars, ProcRecords, ProtoStates
<1>8. QED
  BY <1>1, <1>2, <1>4, <1>5, <1>6, <1>7 DEF PrototypeLoop

(* The processes keep the types.                                           *)
LEMMA ProcessTypes ==
  ASSUME TypeOK, ForeignStarts \/ \E p \in Pids : ProcessNext(p)
  PROVE  TypeOK'
<1> USE DEF TypeOK
<1>0. proc \in [Pids -> ProcRecords] /\ Gone \in ProcRecords
  BY Bounds DEF ProcRecords, Gone, ProcStates
<1>1. ASSUME NEW x \in ProcRecords, NEW p \in Pids, proc' = [proc EXCEPT ![p] = x],
             faults' = faults \/ Fault, UNCHANGED <<slotVars, poolVars, spawnerVars, protoVars, hello>>
      PROVE  TypeOK'
  <2>1. proc' \in [Pids -> ProcRecords] /\ faults' \in 0 .. MaxFaults
    BY <1>0, <1>1, FaultType
  <2>2. QED
    BY <1>1, <2>1 DEF slotVars, poolVars, spawnerVars, protoVars, ProcRecords
<1>2. CASE ForeignStarts
  <2>1. [Born(Foreign) EXCEPT !.orphan = TRUE] \in ProcRecords
    BY Bounds DEF Born, ProcRecords, ProcStates
  <2>2. NewPid \in Pids
    BY <1>2, NewPidIsFree DEF ForeignStarts
  <2>3. QED
    BY <1>1, <1>2, <2>1, <2>2 DEF ForeignStarts
<1>3. ASSUME NEW p \in Pids, SayHello(p) PROVE TypeOK'
  <2>1. hello' \in [Tokens -> Profiles \cup {NoHello, BadHello}]
    <3>1. PICK x \in Profiles \cup {BadHello} : hello' = [hello EXCEPT ![proc[p].token] = x]
      BY <1>3 DEF SayHello
    <3>2. PICK k : k = proc[p].token
      OBVIOUS
    <3>3. PICK T : T = Profiles \cup {NoHello, BadHello}
      OBVIOUS
    <3>4. hello \in [Tokens -> T] /\ x \in T
      BY <3>3 DEF TypeOK
    <3>5. hello' = [hello EXCEPT ![k] = x]
      BY <3>1, <3>2
    <3>6. hello' \in [Tokens -> T]
      BY <3>4, <3>5
    <3>7. QED
      BY <3>3, <3>6
  <2>2. faults' \in 0 .. MaxFaults
    BY <1>3, FaultType DEF SayHello
  <2>3. QED
    BY <1>3, <2>1, <2>2 DEF SayHello, slotVars, poolVars, spawnerVars, protoVars
<1>4. ASSUME NEW p \in Pids, SeeEof(p) \/ Exit(p) PROVE TypeOK'
  <2>1. Ended(p) \in ProcRecords
    BY <1>0, Ends
  <2>2. QED
    BY <1>1, <1>4, <2>1 DEF SeeEof, Exit, End
<1>5. ASSUME NEW p \in Pids, Hang(p) PROVE TypeOK'
  <2>1. [proc[p] EXCEPT !.state = "stuck"] \in ProcRecords
    <3>1. proc[p] \in ProcRecords
      BY <1>0
    <3>2. QED
      BY <3>1 DEF ProcRecords, ProcStates
  <2>2. proc' = [proc EXCEPT ![p] = [proc[p] EXCEPT !.state = "stuck"]]
    BY <1>5 DEF Hang
  <2>3. QED
    BY <1>1, <1>5, <2>1, <2>2 DEF Hang
<1>6. ASSUME NEW p \in Pids, ReapAsPidOne(p) PROVE TypeOK'
  BY <1>0, <1>1, <1>6 DEF ReapAsPidOne
<1>7. QED
  BY <1>2, <1>3, <1>4, <1>5, <1>6 DEF ProcessNext

-----------------------------------------------------------------------------
(* Every step keeps the lock, and every slot its token.                    *)

(* A slot that pauses leaves the others alone.                             *)
LEMMA PauseSlots ==
  ASSUME TypeOK, NEW s \in Slots, Pause(s)
  PROVE  slot'[s] = "pause" /\ grant'[s] = 0
         /\ \A u \in Slots \ {s} : slot'[u] = slot[u] /\ grant'[u] = grant[u]
BY DEF TypeOK, Pause

(* The mutex has one owner, and a dead prototype no commands.              *)
LEMMA LockingStep == TypeOK /\ Locking /\ [Next]_vars => Locking'
<1> SUFFICES ASSUME TypeOK, Locking, [Next]_vars PROVE Locking'
  OBVIOUS
<1>0. slot \in [Slots -> SlotStates] /\ lock \in Slots \cup {None} /\ None \notin Slots /\ None \notin Pids
  BY Bounds DEF TypeOK
<1>1. ASSUME NEW s \in Slots, slot[s] # "locked", slot'[s] # "locked",
             \A u \in Slots \ {s} : slot'[u] = slot[u],
             UNCHANGED <<lock, guard, proto>>, proto = "dead" => control' = control
      PROVE  Locking'
  <2>1. \A u \in Slots : slot'[u] = "locked" <=> slot[u] = "locked"
    BY <1>1
  <2>2. QED
    BY <1>1, <2>1 DEF Locking
<1>2. ASSUME UNCHANGED <<slot, lock, guard>>, proto' = "dead" => control' = <<>>, proto = "dead" => proto' = "dead"
      PROVE  Locking'
  BY <1>2 DEF Locking
<1>3. ASSUME NEW s \in Slots, SlotNext(s) PROVE Locking'
  <2>1. CASE TakeLock(s)
    <3>1. /\ \A u \in Slots : slot[u] # "locked"
          /\ slot'[s] = "locked" /\ \A u \in Slots \ {s} : slot'[u] = slot[u]
          /\ lock' = s /\ UNCHANGED <<guard, proto, control>>
      BY <1>0, <2>1 DEF TakeLock, Locking, protoVars
    <3>2. QED
      BY <3>1 DEF Locking
  <2>2. CASE StartPrototype(s)
    <3>1. UNCHANGED <<slot, lock>> /\ guard' \in Pids /\ proto' = "boot"
      BY <2>2, NewPidIsFree DEF StartPrototype, slotVars
    <3>2. QED
      BY <1>0, <3>1 DEF Locking
  <2>3. CASE StartFails(s) \/ GiveUp(s)
    <3>1. /\ lock = s /\ lock' = None /\ slot'[s] = "pause" /\ \A u \in Slots \ {s} : slot'[u] = slot[u]
          /\ UNCHANGED <<guard, proto, control>>
      BY <1>0, <2>3 DEF StartFails, GiveUp, SpawnError, protoVars
    <3>2. QED
      BY <1>0, <3>1 DEF Locking
  <2>4. CASE SendSpawn(s)
    <3>1. /\ lock = s /\ lock' = None /\ slot'[s] = "hello" /\ \A u \in Slots \ {s} : slot'[u] = slot[u]
          /\ UNCHANGED <<guard, proto>> /\ proto # "dead"
      BY <1>0, <2>4 DEF SendSpawn
    <3>2. QED
      BY <1>0, <3>1 DEF Locking
  <2>5. CASE Restart(s)
    BY <2>5 DEF Restart, Locking, slotVars, protoVars
  <2>6. CASE Resume(s) \/ SeedGrant(s) \/ SeedCaps(s)
    <3>1. /\ slot[s] # "locked" /\ slot'[s] # "locked" /\ \A u \in Slots \ {s} : slot'[u] = slot[u]
          /\ UNCHANGED <<lock, guard, proto, control>>
      BY <1>0, <2>6 DEF Resume, SeedGrant, SeedCaps, spawnerVars, protoVars
    <3>2. QED
      BY <1>1, <3>1
  <2>7. CASE NoHandshake(s) \/ ReaderEof(s) \/ SendAck(s)
    <3>1. /\ slot[s] # "locked" /\ slot'[s] # "locked" /\ \A u \in Slots \ {s} : slot'[u] = slot[u]
      BY <1>0, <2>7, PauseSlots DEF NoHandshake, ReaderEof, SendAck
    <3>2. UNCHANGED <<lock, guard, proto, control>>
      BY <2>7 DEF NoHandshake, ReaderEof, SendAck, spawnerVars, protoVars
    <3>3. QED
      BY <1>1, <3>1, <3>2
  <2>8. CASE HandshakeTimeout(s) \/ OverClaim(s)
    <3>1. slot[s] # "locked" /\ slot'[s] # "locked" /\ \A u \in Slots \ {s} : slot'[u] = slot[u]
      BY <1>0, <2>8, PauseSlots DEF HandshakeTimeout, OverClaim
    <3>2. UNCHANGED <<lock, guard, proto>> /\ (proto = "dead" => control' = control)
      BY <2>8 DEF HandshakeTimeout, OverClaim, spawnerVars, SendKill
    <3>3. QED
      BY <1>1, <3>1, <3>2
  <2>9. CASE SweepKill(s)
    <3>1. UNCHANGED <<slot, lock, guard, proto>> /\ (proto = "dead" => control' = control)
      BY <2>9 DEF SweepKill, spawnerVars, SendKill
    <3>2. QED
      BY <3>1 DEF Locking
  <2>10. QED
    BY <1>3, <2>1, <2>2, <2>3, <2>4, <2>5, <2>6, <2>7, <2>8, <2>9 DEF SlotNext
<1>4. CASE PrototypeLoop \/ PrototypeDies
  BY <1>2, <1>4 DEF PrototypeLoop, Boot, ReapChildren, PollTimeout, Fork, ForkFails, KillCommand,
                    TakeCommand, PrototypeDies, slotVars, spawnerVars
<1>5. CASE ForeignStarts \/ \E p \in Pids : ProcessNext(p)
  <2>1. UNCHANGED <<slot, lock, guard, proto, control>>
    BY <1>5 DEF ForeignStarts, ProcessNext, SayHello, SeeEof, Hang, Exit, ReapAsPidOne,
                slotVars, spawnerVars, protoVars
  <2>2. QED
    BY <2>1 DEF Locking
<1>6. CASE UNCHANGED vars
  BY <1>6 DEF Locking, vars, slotVars, spawnerVars, protoVars
<1>7. QED
  BY <1>3, <1>4, <1>5, <1>6 DEF Next

(* A token is handed out once.                                             *)
LEMMA OwningStep == TypeOK /\ Locking /\ Owning /\ [Next]_vars => Owning'
<1> SUFFICES ASSUME TypeOK, Locking, Owning, [Next]_vars PROVE Owning'
  OBVIOUS
<1>0. /\ slot \in [Slots -> SlotStates] /\ nextToken \in 1 .. MaxToken + 1
      /\ token \in [Slots -> {Prototype} \cup Tokens]
  BY DEF TypeOK
<1>1. ASSUME UNCHANGED <<token, nextToken>>,
             \A u \in Slots : slot'[u] # "spawn" => slot[u] # "spawn"
      PROVE  Owning'
  BY <1>1 DEF Owning
<1>2. ASSUME NEW s \in Slots, SlotNext(s) PROVE Owning'
  <2>1. CASE TakeLock(s)
    <3>1. /\ token'[s] = nextToken /\ \A u \in Slots \ {s} : token'[u] = token[u] /\ slot'[u] = slot[u]
          /\ nextToken' = nextToken + 1 /\ nextToken <= MaxToken
      BY <1>0, <2>1 DEF TakeLock
    <3>2. nextToken \in Tokens /\ nextToken \in Nat
      BY <1>0, <3>1, Bounds DEF Tokens
    <3>3. \A u \in Slots : token[u] < nextToken /\ token[u] \in Nat
      BY <1>0, Bounds DEF Owning, Tokens, Prototype
    <3>4. \A u \in Slots : token'[u] < nextToken'
      BY <3>1, <3>2, <3>3
    <3>5. \A u \in Slots : slot'[u] # "spawn" => token'[u] \in Tokens
      BY <3>1, <3>2 DEF Owning
    <3>6. \A u, v \in Slots : token'[u] = token'[v] => u = v \/ token'[u] = Prototype
      <4> SUFFICES ASSUME NEW u \in Slots, NEW v \in Slots, token'[u] = token'[v], u # v
                   PROVE  token'[u] = Prototype
        OBVIOUS
      <4>1. \A w \in Slots : token[w] # nextToken
        BY <3>2, <3>3
      <4>2. u # s /\ v # s
        BY <3>1, <4>1
      <4>3. QED
        BY <3>1, <4>2 DEF Owning
    <3>7. QED
      BY <3>4, <3>5, <3>6 DEF Owning
  <2>2. CASE ~TakeLock(s)
    <3>1. UNCHANGED <<token, nextToken>>
      BY <1>2, <2>2 DEF SlotNext, StartPrototype, StartFails, SendSpawn, Restart, GiveUp, Resume,
            NoHandshake, HandshakeTimeout, SeedGrant, SeedCaps, SendAck, ReaderEof, SweepKill, OverClaim,
            SpawnError, slotVars, spawnerVars
    <3>2. \A u \in Slots \ {s} : slot'[u] = slot[u]
      BY <1>0, <1>2, <2>2 DEF SlotNext, StartPrototype, StartFails, SendSpawn, Restart, GiveUp, Resume,
            NoHandshake, HandshakeTimeout, SeedGrant, SeedCaps, SendAck, ReaderEof, SweepKill, OverClaim,
            SpawnError, Pause, slotVars
    <3>3. slot[s] = "spawn" => slot' = slot \/ lock = s
      BY <1>2, <2>2 DEF SlotNext, StartPrototype, StartFails, SendSpawn, Restart, GiveUp, Resume,
            NoHandshake, HandshakeTimeout, SeedGrant, SeedCaps, SendAck, ReaderEof, SweepKill, OverClaim,
            slotVars
    <3>4. lock = s => slot[s] # "spawn"
      BY DEF Locking
    <3>5. \A u \in Slots : slot'[u] # "spawn" => slot[u] # "spawn"
      BY <3>2, <3>3, <3>4
    <3>6. QED
      BY <1>1, <3>1, <3>5
  <2>3. QED
    BY <2>1, <2>2
<1>3. CASE PrototypeLoop \/ PrototypeDies
  <2>1. UNCHANGED <<slot, token, nextToken>>
    BY <1>3 DEF PrototypeLoop, Boot, ReapChildren, PollTimeout, Fork, ForkFails, KillCommand,
                TakeCommand, PrototypeDies, slotVars, spawnerVars
  <2>2. QED
    BY <1>1, <2>1
<1>4. CASE ForeignStarts \/ \E p \in Pids : ProcessNext(p)
  <2>1. UNCHANGED <<slot, token, nextToken>>
    BY <1>4 DEF ForeignStarts, ProcessNext, SayHello, SeeEof, Hang, Exit, ReapAsPidOne,
                slotVars, spawnerVars
  <2>2. QED
    BY <1>1, <2>1
<1>5. CASE UNCHANGED vars
  BY <1>1, <1>5 DEF vars, slotVars, spawnerVars
<1>6. QED
  BY <1>2, <1>3, <1>4, <1>5 DEF Next

-----------------------------------------------------------------------------
(* Every step keeps the names.                                             *)

(* A step that starts no worker and sends no spawn gives no name away.     *)
LEMMA NamesFewer ==
  ASSUME TypeOK, Naming, Distinct(control'),
         \A t \in Tokens : Carries(control', t) => Carries(control, t),
         \A p \in Pids, t \in Tokens : Runs(p, t)' => Runs(p, t),
         UNCHANGED <<token, nextToken>>, lock' \in {lock, None}
  PROVE  Naming'
<1>1. \A s \in Slots : lock' = s => lock = s
  BY Bounds
<1>2. \A t \in Tokens : Carries(control, t)' =>
        /\ t < nextToken' /\ \A p \in Pids : ~Runs(p, t)'
        /\ \A s \in Slots : lock' = s => token'[s] # t
  BY <1>1 DEF Naming
<1>3. \A p \in Pids : Live(p)' /\ IsWorker(p)' =>
        proc'[p].token \in Tokens /\ Runs(p, proc'[p].token)
  <2> SUFFICES ASSUME NEW p \in Pids, Live(p)', IsWorker(p)'
               PROVE  proc'[p].token \in Tokens /\ Runs(p, proc'[p].token)
    OBVIOUS
  <2>1. PICK t \in Tokens : t = proc'[p].token
    BY DEF IsWorker
  <2>2. Runs(p, t)'
    BY <2>1 DEF Runs
  <2>3. Runs(p, t)
    BY <2>2
  <2>4. QED
    BY <2>1, <2>3
<1>4. \A p \in Pids : Live(p)' /\ IsWorker(p)' => Live(p) /\ IsWorker(p) /\ proc'[p].token = proc[p].token
  BY <1>3 DEF Runs, IsWorker
<1>5. \A p \in Pids : Live(p)' /\ IsWorker(p)' =>
        /\ proc'[p].token < nextToken'
        /\ \A s \in Slots : lock' = s => token'[s] # proc'[p].token
  BY <1>1, <1>4 DEF Naming
<1>6. OneProcessPerToken'
  <2> SUFFICES ASSUME NEW p \in Pids, NEW q \in Pids, Live(p)', Live(q)', p # q, IsWorker(p)',
                      proc'[p].token = proc'[q].token
               PROVE  FALSE
    BY DEF OneProcessPerToken
  <2>1. IsWorker(q)'
    BY DEF IsWorker
  <2>2. Live(p) /\ Live(q) /\ IsWorker(p) /\ proc[p].token = proc[q].token
    BY <1>4, <2>1
  <2>3. QED
    BY <2>2 DEF Naming, OneProcessPerToken
<1>7. QED
  BY <1>2, <1>5, <1>6 DEF Naming

\* A process as it is, ended, or not a worker.
NoNewWorker(p, x) == x.state \notin {"alive", "stuck"} \/ x.token \notin Tokens \/ (Live(p) /\ x.token = proc[p].token)

(* Without a new worker no token runs that did not run before.             *)
LEMMA NoNewRuns ==
  ASSUME \A p \in Pids : NoNewWorker(p, proc'[p])
  PROVE  \A p \in Pids, t \in Tokens : Runs(p, t)' => Runs(p, t)
BY DEF NoNewWorker, Runs, Live

(* A spawn task moves its token into the socket, or keeps it.              *)
LEMMA SlotNaming ==
  ASSUME TypeOK, Locking, Owning, Naming, NEW s \in Slots, SlotNext(s)
  PROVE  Naming'
<1>0. /\ proc \in [Pids -> ProcRecords] /\ control \in Seq(Command)
      /\ token \in [Slots -> {Prototype} \cup Tokens] /\ slot \in [Slots -> SlotStates]
      /\ nextToken \in 1 .. MaxToken + 1
  BY DEF TypeOK, ProcRecords
<1>1. \A p \in Pids : NoNewWorker(p, proc[p])
  BY DEF NoNewWorker, Live
<1>2. CASE TakeLock(s)
  <2>1. /\ lock' = s /\ token'[s] = nextToken /\ nextToken' = nextToken + 1 /\ lock = None
        /\ UNCHANGED <<control, proc>>
        /\ nextToken <= MaxToken
    BY <1>0, <1>2 DEF TakeLock, protoVars
  <2>2. \A t \in Tokens : t < nextToken => t < nextToken' /\ t # nextToken
    BY <1>0, <2>1 DEF Tokens
  <2>3. \A u \in Slots : lock' = u => token'[u] = nextToken
    BY <2>1
  <2>4. \A t \in Tokens : Carries(control', t) =>
          /\ t < nextToken' /\ \A p \in Pids : ~Runs(p, t)'
          /\ \A u \in Slots : lock' = u => token'[u] # t
    BY <2>1, <2>2, <2>3 DEF Naming, Runs, Live
  <2>5. \A p \in Pids : Live(p)' /\ IsWorker(p)' =>
          /\ proc'[p].token < nextToken'
          /\ \A u \in Slots : lock' = u => token'[u] # proc'[p].token
    <3> SUFFICES ASSUME NEW p \in Pids, Live(p), IsWorker(p)
                 PROVE  proc[p].token < nextToken' /\ proc[p].token # nextToken
      BY <2>1, <2>3 DEF Live, IsWorker
    <3>1. proc[p].token \in Tokens /\ proc[p].token < nextToken
      BY DEF IsWorker, Naming
    <3>2. QED
      BY <2>2, <3>1
  <2>6. OneProcessPerToken' /\ Distinct(control')
    BY <2>1 DEF Naming, OneProcessPerToken, Live, IsWorker
  <2>7. QED
    BY <2>4, <2>5, <2>6 DEF Naming
<1>3. CASE SendSpawn(s)
  <2> DEFINE x == [cmd |-> "spawn", token |-> token[s]]
  <2>1. /\ lock = s /\ lock' = None /\ control' = Append(control, x)
        /\ UNCHANGED <<token, nextToken, proc>>
    BY <1>3 DEF SendSpawn
  <2>2. x \in Command /\ x.cmd = "spawn" /\ x.token = token[s] /\ token[s] \in Tokens /\ token[s] < nextToken
    BY <2>1 DEF Command, Locking, Owning
  <2> HIDE DEF x
  <2>3. ~Carries(control, token[s]) /\ \A p \in Pids : ~Runs(p, token[s])
    BY <2>1, <2>2 DEF Naming, Runs, IsWorker
  <2>4. Distinct(control') /\ \A t : Carries(control', t) <=> Carries(control, t) \/ t = token[s]
    BY <1>0, <2>1, <2>2, <2>3, CommandSent DEF Naming
  <2>5. \A u \in Slots : lock' # u
    BY <2>1, Bounds
  <2>6. \A t \in Tokens : Carries(control', t) =>
          /\ t < nextToken' /\ \A p \in Pids : ~Runs(p, t)'
          /\ \A u \in Slots : lock' = u => token'[u] # t
    BY <2>1, <2>2, <2>3, <2>4, <2>5 DEF Naming, Runs, Live
  <2>7. \A p \in Pids : Live(p)' /\ IsWorker(p)' =>
          /\ proc'[p].token < nextToken'
          /\ \A u \in Slots : lock' = u => token'[u] # proc'[p].token
    BY <2>1, <2>5 DEF Naming, Live, IsWorker
  <2>8. OneProcessPerToken'
    BY <2>1 DEF Naming, OneProcessPerToken, Live, IsWorker
  <2>9. QED
    BY <2>4, <2>6, <2>7, <2>8 DEF Naming
<1>4. CASE StartPrototype(s)
  <2>1. /\ UNCHANGED <<token, nextToken, lock>> /\ control' = <<>>
        /\ NewPid \in Pids /\ proc' = [proc EXCEPT ![NewPid] = Born(Prototype)]
    BY <1>4, NewPidIsFree DEF StartPrototype, slotVars
  <2>2. \A p \in Pids : NoNewWorker(p, proc'[p])
    <3>1. NoNewWorker(NewPid, Born(Prototype))
      BY BornType, Bounds DEF NoNewWorker
    <3>2. \A p \in Pids : proc'[p] = IF p = NewPid THEN Born(Prototype) ELSE proc[p]
      BY <1>0, <2>1
    <3>3. QED
      BY <1>1, <3>1, <3>2
  <2>3. QED
    BY <2>1, <2>2, NoNewRuns, NamesFewer, NoCommands
<1>5. CASE Restart(s)
  <2>1. /\ UNCHANGED <<token, nextToken, lock, control>> /\ guard \in Pids
        /\ proc' = [proc EXCEPT ![guard] =
             IF Live(guard) THEN Ended(guard) ELSE IF proc[guard].token = Prototype THEN Gone ELSE @]
    BY <1>5 DEF Restart, slotVars, protoVars, TypeOK
  <2>2. \A p \in Pids : NoNewWorker(p, proc'[p])
    <3>1. Ended(guard).state \notin {"alive", "stuck"} /\ Gone.state \notin {"alive", "stuck"}
      BY <1>0, <2>1, Ends DEF Gone
    <3>2. \A p \in Pids : proc'[p] = proc[p] \/ proc'[p] = Ended(guard) \/ proc'[p] = Gone
      BY <1>0, <2>1
    <3>3. QED
      BY <1>1, <3>1, <3>2 DEF NoNewWorker
  <2>3. QED
    BY <2>1, <2>2, NoNewRuns, NamesFewer DEF Naming
<1>6. CASE HandshakeTimeout(s) \/ OverClaim(s) \/ SweepKill(s)
  <2>1. UNCHANGED <<token, nextToken, lock, proc>>
    BY <1>6 DEF HandshakeTimeout, OverClaim, SweepKill, spawnerVars
  <2>2. token[s] \in Tokens
    BY <1>6 DEF HandshakeTimeout, OverClaim, SweepKill, Owning
  <2>3. Distinct(control') /\ \A u : Carries(control', u) => Carries(control, u)
    BY <1>6, <2>2, KillSent DEF HandshakeTimeout, OverClaim, SweepKill, Naming
  <2>4. QED
    BY <1>1, <2>1, <2>3, NoNewRuns, NamesFewer
<1>7. CASE \/ StartFails(s) \/ GiveUp(s) \/ Resume(s) \/ NoHandshake(s) \/ SeedGrant(s)
           \/ SeedCaps(s) \/ SendAck(s) \/ ReaderEof(s)
  <2>1. UNCHANGED <<token, nextToken, control, proc>> /\ lock' \in {lock, None}
    BY <1>7 DEF StartFails, GiveUp, SpawnError, Resume, NoHandshake, SeedGrant, SeedCaps, SendAck,
                ReaderEof, spawnerVars, protoVars
  <2>2. QED
    BY <1>1, <2>1, NoNewRuns, NamesFewer DEF Naming
<1>8. QED
  BY <1>2, <1>3, <1>4, <1>5, <1>6, <1>7 DEF SlotNext

(* The fork moves the token from the command to the process.               *)
LEMMA ForkNaming ==
  ASSUME TypeOK, Owning, Naming, Fork
  PROVE  Naming'
<1> DEFINE x == Head(control)
<1>0. /\ proc \in [Pids -> ProcRecords] /\ control \in Seq(Command) /\ control # <<>>
      /\ UNCHANGED <<token, nextToken, lock>>
      /\ control' = Tail(control) /\ x.cmd = "spawn"
      /\ NewPid \in Pids /\ proc[NewPid].state = "free"
      /\ proc' = [proc EXCEPT ![NewPid] = Born(x.token)]
  BY NewPidIsFree DEF TypeOK, Fork, TakeCommand, slotVars, spawnerVars, ProcRecords
<1>1. /\ x \in Command /\ x.token \in Tokens /\ Carries(control, x.token)
      /\ ~Carries(control', x.token) /\ Distinct(control')
      /\ \A t : Carries(control', t) => Carries(control, t)
  BY <1>0, CommandTaken DEF Naming, Command
<1> HIDE DEF x
<1>2. /\ proc'[NewPid].token = x.token
      /\ \A p \in Pids \ {NewPid} : proc'[p] = proc[p]
  <2>1. x.token \in 0 .. Foreign
    BY <1>1, Bounds
  <2>2. Born(x.token).token = x.token
    BY <2>1, BornType
  <2>3. proc'[NewPid] = Born(x.token)
    BY <1>0
  <2>4. QED
    BY <1>0, <2>2, <2>3
<1>3. /\ x.token < nextToken /\ (\A p \in Pids : ~Runs(p, x.token))
      /\ \A s \in Slots : lock = s => token[s] # x.token
  BY <1>1 DEF Naming
<1>4. \A t \in Tokens : Carries(control', t) =>
        /\ t < nextToken' /\ \A p \in Pids : ~Runs(p, t)'
        /\ \A s \in Slots : lock' = s => token'[s] # t
  <2> SUFFICES ASSUME NEW t \in Tokens, Carries(control', t)
               PROVE  /\ t < nextToken /\ (\A p \in Pids : ~Runs(p, t)')
                      /\ \A s \in Slots : lock = s => token[s] # t
    BY <1>0
  <2>1. t # x.token /\ Carries(control, t)
    BY <1>1
  <2>2. \A p \in Pids : ~Runs(p, t)
    BY <2>1 DEF Naming
  <2>3. \A p \in Pids : ~Runs(p, t)'
    BY <1>2, <2>1, <2>2 DEF Runs, Live
  <2>4. QED
    BY <2>1, <2>3 DEF Naming
<1>5. \A p \in Pids : Live(p)' /\ IsWorker(p)' =>
        /\ proc'[p].token < nextToken'
        /\ \A s \in Slots : lock' = s => token'[s] # proc'[p].token
  BY <1>0, <1>2, <1>3 DEF Naming, Live, IsWorker
<1>6. OneProcessPerToken'
  <2> SUFFICES ASSUME NEW p \in Pids, NEW q \in Pids, Live(p)', Live(q)', p # q, IsWorker(p)',
                      proc'[p].token = proc'[q].token
               PROVE  FALSE
    BY DEF OneProcessPerToken
  <2>1. CASE p # NewPid /\ q # NewPid
    <3>1. Live(p) /\ Live(q) /\ IsWorker(p) /\ proc[p].token = proc[q].token
      BY <1>2, <2>1 DEF Live, IsWorker
    <3>2. QED
      BY <3>1 DEF Naming, OneProcessPerToken
  <2>2. CASE p = NewPid
    BY <1>2, <1>3, <2>2 DEF Runs, Live
  <2>3. CASE q = NewPid
    BY <1>2, <1>3, <2>3 DEF Runs, Live
  <2>4. QED
    BY <2>1, <2>2, <2>3
<1>7. QED
  BY <1>1, <1>4, <1>5, <1>6 DEF Naming

(* Nothing else gives a token to anything.                                 *)
LEMMA OtherNaming ==
  ASSUME TypeOK, Naming,
         \/ Boot \/ ReapChildren \/ PollTimeout \/ ForkFails \/ KillCommand \/ PrototypeDies
         \/ ForeignStarts \/ \E p \in Pids : ProcessNext(p)
  PROVE  Naming'
<1>0. proc \in [Pids -> ProcRecords] /\ control \in Seq(Command)
  BY DEF TypeOK, ProcRecords
<1>1. \A p \in Pids : /\ NoNewWorker(p, proc[p]) /\ NoNewWorker(p, Ended(p)) /\ NoNewWorker(p, Gone)
                      /\ NoNewWorker(p, [proc[p] EXCEPT !.orphan = TRUE]) \/ ~Live(p)
                      /\ NoNewWorker(p, [proc[p] EXCEPT !.state = "stuck"]) \/ ~Live(p)
  <2> SUFFICES ASSUME NEW p \in Pids
               PROVE  /\ NoNewWorker(p, proc[p]) /\ NoNewWorker(p, Ended(p)) /\ NoNewWorker(p, Gone)
                      /\ NoNewWorker(p, [proc[p] EXCEPT !.orphan = TRUE]) \/ ~Live(p)
                      /\ NoNewWorker(p, [proc[p] EXCEPT !.state = "stuck"]) \/ ~Live(p)
    OBVIOUS
  <2>1. Ended(p).state \notin {"alive", "stuck"} /\ Gone.state \notin {"alive", "stuck"}
    BY <1>0, Ends DEF Gone
  <2>2. /\ [proc[p] EXCEPT !.orphan = TRUE].token = proc[p].token
        /\ [proc[p] EXCEPT !.state = "stuck"].token = proc[p].token
    <3>1. proc[p] \in ProcRecords
      BY <1>0
    <3>2. QED
      BY <3>1 DEF ProcRecords
  <2>3. QED
    BY <2>1, <2>2 DEF NoNewWorker, Live
<1>2. ASSUME UNCHANGED <<token, nextToken, lock>>,
             \/ UNCHANGED control
             \/ control' = <<>>
             \/ control # <<>> /\ control' = Tail(control),
             \A p \in Pids : NoNewWorker(p, proc'[p])
      PROVE  Naming'
  <2>1. Distinct(control') /\ \A t : Carries(control', t) => Carries(control, t)
    <3>1. CASE UNCHANGED control
      BY <3>1 DEF Naming
    <3>2. CASE control' = <<>>
      BY <3>2, NoCommands
    <3>3. CASE control # <<>> /\ control' = Tail(control)
      BY <1>0, <3>3, CommandTaken DEF Naming
    <3>4. QED
      BY <1>2, <3>1, <3>2, <3>3
  <2>2. QED
    BY <1>2, <2>1, NoNewRuns, NamesFewer
<1>3. CASE Boot \/ PollTimeout
  BY <1>1, <1>2, <1>3 DEF Boot, PollTimeout, slotVars, spawnerVars
<1>4. CASE ReapChildren
  <2>1. \A p \in Pids : NoNewWorker(p, proc'[p])
    BY <1>1, <1>4 DEF ReapChildren
  <2>2. QED
    BY <1>2, <1>4, <2>1 DEF ReapChildren, slotVars, spawnerVars
<1>5. CASE ForkFails
  BY <1>1, <1>2, <1>5 DEF ForkFails, TakeCommand, slotVars, spawnerVars
<1>6. CASE KillCommand
  <2>1. \A p \in Pids : NoNewWorker(p, proc'[p])
    <3>1. \A p \in Pids : proc'[p] = proc[p] \/ proc'[p] = Ended(p)
      <4>1. \/ proc' = proc
            \/ \E q : proc' = [proc EXCEPT ![q] = Ended(q)]
        BY <1>6 DEF KillCommand
      <4>2. QED
        BY <1>0, <4>1
    <3>2. QED
      BY <1>1, <3>1
  <2>2. QED
    BY <1>2, <1>6, <2>1 DEF KillCommand, TakeCommand, slotVars, spawnerVars
<1>7. CASE PrototypeDies
  <2>1. \A p \in Pids : NoNewWorker(p, proc'[p])
    BY <1>1, <1>7 DEF PrototypeDies
  <2>2. QED
    BY <1>2, <1>7, <2>1 DEF PrototypeDies, slotVars, spawnerVars
<1>8. CASE ForeignStarts
  <2>1. NewPid \in Pids /\ proc' = [proc EXCEPT ![NewPid] = [Born(Foreign) EXCEPT !.orphan = TRUE]]
    BY <1>8, NewPidIsFree DEF ForeignStarts
  <2>2. \A p \in Pids : proc'[p] = proc[p] \/ proc'[p] = [Born(Foreign) EXCEPT !.orphan = TRUE]
    BY <1>0, <2>1
  <2>3. [Born(Foreign) EXCEPT !.orphan = TRUE].token = Foreign
    BY DEF Born
  <2>4. \A p \in Pids : NoNewWorker(p, proc'[p])
    BY <1>1, <2>2, <2>3, Bounds DEF NoNewWorker
  <2>5. QED
    BY <1>2, <1>8, <2>4 DEF ForeignStarts, slotVars, spawnerVars, protoVars
<1>9. ASSUME NEW q \in Pids, ProcessNext(q) PROVE Naming'
  <2>1. UNCHANGED <<token, nextToken, lock, control>>
    BY <1>9 DEF ProcessNext, SayHello, SeeEof, Hang, Exit, ReapAsPidOne, slotVars, spawnerVars, protoVars
  <2>2. \A p \in Pids \ {q} : proc'[p] = proc[p]
    BY <1>0, <1>9 DEF ProcessNext, SayHello, SeeEof, Hang, Exit, End, ReapAsPidOne
  <2>3. \/ proc'[q] = proc[q] \/ proc'[q] = Ended(q) \/ proc'[q] = Gone
        \/ (Live(q) /\ proc'[q] = [proc[q] EXCEPT !.state = "stuck"])
    <3>1. CASE SayHello(q) \/ SeeEof(q) \/ Exit(q) \/ ReapAsPidOne(q)
      BY <1>0, <3>1 DEF SayHello, SeeEof, Exit, End, ReapAsPidOne
    <3>2. CASE Hang(q)
      BY <1>0, <3>2 DEF Hang, Live
    <3>3. QED
      BY <1>9, <3>1, <3>2 DEF ProcessNext
  <2>4. \A p \in Pids : NoNewWorker(p, proc'[p])
    BY <1>1, <2>2, <2>3
  <2>5. QED
    BY <1>2, <2>1, <2>4
<1>10. QED
  BY <1>3, <1>4, <1>5, <1>6, <1>7, <1>8, <1>9

-----------------------------------------------------------------------------
(* Every step keeps the prototype's map and the guard true.                *)

\* A process that somebody may still wait for stays what it is.
KeepsChild(p, x) ==
  proc[p].state # "free" /\ ~proc[p].orphan =>
    x.token = proc[p].token /\ x.state # "free" /\ ~x.orphan

(* Map and guard stay true while no child they name is reaped.             *)
LEMMA ParentsKept ==
  ASSUME Parenting, UNCHANGED <<table, guard>>, proto' # "dead" => proto # "dead",
         \A p \in Pids : KeepsChild(p, proc'[p]),
         table \in [Tokens -> Pids \cup {None}], guard \in Pids \cup {None}
  PROVE  Parenting'
<1>1. ASSUME proto' # "dead", NEW t \in Tokens, table'[t] # None
      PROVE  proc'[table'[t]].token = t /\ proc'[table'[t]].state # "free" /\ ~proc'[table'[t]].orphan
  <2>1. table'[t] = table[t] /\ table[t] \in Pids
    BY <1>1
  <2>2. proc[table[t]].token = t /\ proc[table[t]].state # "free" /\ ~proc[table[t]].orphan
    BY <1>1, <2>1 DEF Parenting
  <2>3. QED
    BY <2>1, <2>2 DEF KeepsChild
<1>2. ASSUME ~PidOne, guard' # None
      PROVE  proc'[guard'].token = Prototype /\ proc'[guard'].state # "free" /\ ~proc'[guard'].orphan
  <2>1. guard \in Pids /\ proc[guard].token = Prototype /\ proc[guard].state # "free" /\ ~proc[guard].orphan
    BY <1>2 DEF Parenting
  <2>2. QED
    BY <2>1 DEF KeepsChild
<1>3. QED
  BY <1>1, <1>2 DEF Parenting

(* An ending or hanging child is still a child.                            *)
LEMMA EndsAsChild ==
  ASSUME proc \in [Pids -> ProcRecords], NEW p \in Pids
  PROVE  /\ KeepsChild(p, proc[p]) /\ KeepsChild(p, Ended(p))
         /\ KeepsChild(p, [proc[p] EXCEPT !.state = "stuck"])
         /\ \A x : proc[p].state = "free" => KeepsChild(p, x)
<1>1. proc[p] \in ProcRecords
  OBVIOUS
<1>2. KeepsChild(p, Ended(p))
  BY Ends DEF KeepsChild
<1>3. KeepsChild(p, [proc[p] EXCEPT !.state = "stuck"])
  BY <1>1 DEF KeepsChild, ProcRecords
<1>4. QED
  BY <1>2, <1>3 DEF KeepsChild

(* The spawn tasks replace a prototype only after its end.                 *)
LEMMA SlotParenting ==
  ASSUME TypeOK, Locking, Parenting, NEW s \in Slots, SlotNext(s)
  PROVE  Parenting'
<1>0. /\ proc \in [Pids -> ProcRecords] /\ table \in [Tokens -> Pids \cup {None}]
      /\ guard \in Pids \cup {None}
  BY DEF TypeOK, ProcRecords
<1>1. CASE StartPrototype(s)
  <2>1. /\ NewPid \in Pids /\ guard' = NewPid /\ \A t \in Tokens : table'[t] = None
        /\ proc' = [proc EXCEPT ![NewPid] = Born(Prototype)]
    BY <1>1, NewPidIsFree DEF StartPrototype
  <2>2. proc'[guard'] = Born(Prototype)
    BY <1>0, <2>1
  <2>3. Born(Prototype).token = Prototype /\ Born(Prototype).state # "free" /\ ~Born(Prototype).orphan
    BY BornType, Bounds
  <2>4. QED
    BY <2>1, <2>2, <2>3 DEF Parenting
<1>2. CASE Restart(s)
  BY <1>2 DEF Restart, Parenting, protoVars
<1>3. CASE ~StartPrototype(s) /\ ~Restart(s)
  <2>1. UNCHANGED <<proc, guard, table, proto>>
    BY <1>3 DEF SlotNext, TakeLock, StartFails, SendSpawn, GiveUp, Resume,
            NoHandshake, HandshakeTimeout, SeedGrant, SeedCaps, SendAck, ReaderEof, SweepKill, OverClaim,
            spawnerVars, protoVars
  <2>2. QED
    BY <1>0, <2>1, EndsAsChild, ParentsKept
<1>4. QED
  BY <1>1, <1>2, <1>3

(* The prototype enters a child when it forks and removes it when it       *)
(* reaps.                                                                  *)
LEMMA PrototypeParenting ==
  ASSUME TypeOK, Parenting, PrototypeLoop \/ PrototypeDies
  PROVE  Parenting'
<1>0. /\ proc \in [Pids -> ProcRecords] /\ table \in [Tokens -> Pids \cup {None}]
      /\ guard \in Pids \cup {None} /\ control \in Seq(Command)
  BY DEF TypeOK, ProcRecords
<1>1. CASE Boot \/ PollTimeout \/ ForkFails
  <2>1. UNCHANGED <<proc, guard, table>> /\ proto # "dead"
    BY <1>1 DEF Boot, PollTimeout, ForkFails, TakeCommand, spawnerVars
  <2>2. QED
    BY <1>0, <2>1, EndsAsChild, ParentsKept
<1>2. CASE ReapChildren
  <2>1. /\ proto # "dead" /\ guard' = guard
        /\ \A p \in Pids : proc'[p] = IF p \in Collected THEN Gone ELSE proc[p]
        /\ \A t \in Tokens : table'[t] = IF table[t] \in Collected THEN None ELSE table[t]
    BY <1>2 DEF ReapChildren, spawnerVars
  <2>2. ASSUME NEW t \in Tokens, table'[t] # None
        PROVE  proc'[table'[t]].token = t /\ proc'[table'[t]].state # "free" /\ ~proc'[table'[t]].orphan
    <3>1. table'[t] = table[t] /\ table[t] \in Pids /\ table[t] \notin Collected
      BY <1>0, <2>1, <2>2
    <3>2. proc'[table'[t]] = proc[table[t]]
      BY <2>1, <3>1
    <3>3. QED
      BY <2>1, <2>2, <3>1, <3>2 DEF Parenting
  <2>3. ASSUME ~PidOne, guard' # None
        PROVE  proc'[guard'].token = Prototype /\ proc'[guard'].state # "free" /\ ~proc'[guard'].orphan
    <3>1. /\ guard \in Pids /\ proc[guard].token = Prototype /\ proc[guard].state # "free"
          /\ ~proc[guard].orphan
      BY <1>0, <2>1, <2>3 DEF Parenting
    <3>2. guard \notin Collected
      BY <3>1, Bounds DEF Collected, IsWorker
    <3>3. QED
      BY <2>1, <3>1, <3>2
  <2>4. QED
    BY <2>2, <2>3 DEF Parenting
<1>3. CASE Fork
  <2> DEFINE x == Head(control)
  <2>1. /\ NewPid \in Pids /\ proc[NewPid].state = "free" /\ guard' = guard /\ proto # "dead"
        /\ proc' = [proc EXCEPT ![NewPid] = Born(x.token)]
        /\ table' = [table EXCEPT ![x.token] = NewPid]
        /\ control # <<>>
    BY <1>3, NewPidIsFree DEF Fork, TakeCommand, spawnerVars
  <2>2. x.token \in Tokens
    BY <1>0, <2>1, CommandTaken DEF Command
  <2> HIDE DEF x
  <2>3. Born(x.token).token = x.token /\ Born(x.token).state # "free" /\ ~Born(x.token).orphan
    <3>1. x.token \in 0 .. Foreign
      BY <2>2, Bounds
    <3>2. QED
      BY <3>1, BornType
  <2>4. /\ proc'[NewPid] = Born(x.token) /\ \A p \in Pids \ {NewPid} : proc'[p] = proc[p]
        /\ table'[x.token] = NewPid /\ \A t \in Tokens \ {x.token} : table'[t] = table[t]
    BY <1>0, <2>1, <2>2
  <2>5. ASSUME NEW t \in Tokens, table'[t] # None
        PROVE  proc'[table'[t]].token = t /\ proc'[table'[t]].state # "free" /\ ~proc'[table'[t]].orphan
    <3>1. CASE t = x.token
      BY <2>3, <2>4, <3>1
    <3>2. CASE t # x.token
      <4>1. table'[t] = table[t] /\ table[t] \in Pids
        BY <1>0, <2>4, <2>5, <3>2
      <4>2. proc[table[t]].token = t /\ proc[table[t]].state # "free" /\ ~proc[table[t]].orphan
        BY <2>1, <2>5, <4>1 DEF Parenting
      <4>3. table[t] # NewPid
        BY <2>1, <4>2
      <4>4. QED
        BY <2>4, <4>1, <4>2, <4>3
    <3>3. QED
      BY <3>1, <3>2
  <2>6. ASSUME ~PidOne, guard' # None
        PROVE  proc'[guard'].token = Prototype /\ proc'[guard'].state # "free" /\ ~proc'[guard'].orphan
    <3>1. /\ guard \in Pids /\ proc[guard].token = Prototype /\ proc[guard].state # "free"
          /\ ~proc[guard].orphan
      BY <1>0, <2>1, <2>6 DEF Parenting
    <3>2. guard # NewPid
      BY <2>1, <3>1
    <3>3. QED
      BY <2>1, <2>4, <3>1, <3>2
  <2>7. QED
    BY <2>5, <2>6 DEF Parenting
<1>4. CASE KillCommand
  <2>1. UNCHANGED <<guard, table>> /\ proto # "dead"
    BY <1>4 DEF KillCommand, TakeCommand, spawnerVars
  <2>2. \A p \in Pids : proc'[p] = proc[p] \/ proc'[p] = Ended(p)
    <3>1. \/ proc' = proc
          \/ \E q : proc' = [proc EXCEPT ![q] = Ended(q)]
      BY <1>4 DEF KillCommand
    <3>2. QED
      BY <1>0, <3>1
  <2>3. \A p \in Pids : KeepsChild(p, proc'[p])
    BY <1>0, <2>2, EndsAsChild
  <2>4. QED
    BY <1>0, <2>1, <2>3, ParentsKept
<1>5. CASE PrototypeDies
  <2>1. /\ proto' = "dead" /\ guard' = guard
        /\ guard \in Pids => proc'[guard] = Ended(guard)
    BY <1>5 DEF PrototypeDies, spawnerVars
  <2>2. guard \in Pids => KeepsChild(guard, proc'[guard])
    BY <1>0, <2>1, EndsAsChild
  <2>3. QED
    BY <1>0, <2>1, <2>2 DEF Parenting, KeepsChild
<1>6. QED
  BY <1>1, <1>2, <1>3, <1>4, <1>5 DEF PrototypeLoop

(* A process that ends waits for its parent under its own name.            *)
LEMMA ProcessParenting ==
  ASSUME TypeOK, Parenting, ForeignStarts \/ \E p \in Pids : ProcessNext(p)
  PROVE  Parenting'
<1>0. /\ proc \in [Pids -> ProcRecords] /\ table \in [Tokens -> Pids \cup {None}]
      /\ guard \in Pids \cup {None}
  BY DEF TypeOK, ProcRecords
<1>1. CASE ForeignStarts
  <2>1. /\ NewPid \in Pids /\ proc[NewPid].state = "free" /\ UNCHANGED <<guard, table, proto>>
        /\ proc' = [proc EXCEPT ![NewPid] = [Born(Foreign) EXCEPT !.orphan = TRUE]]
    BY <1>1, NewPidIsFree DEF ForeignStarts, spawnerVars, protoVars
  <2>2. \A p \in Pids : proc'[p] = proc[p] \/ p = NewPid
    BY <1>0, <2>1
  <2>3. \A p \in Pids : KeepsChild(p, proc'[p])
    BY <1>0, <2>1, <2>2, EndsAsChild
  <2>4. QED
    BY <1>0, <2>1, <2>3, ParentsKept
<1>2. ASSUME NEW q \in Pids, ProcessNext(q), ~ReapAsPidOne(q) PROVE Parenting'
  <2>1. UNCHANGED <<guard, table, proto>>
    BY <1>2 DEF ProcessNext, SayHello, SeeEof, Hang, Exit, spawnerVars, protoVars
  <2>2. \A p \in Pids : \/ proc'[p] = proc[p]
                        \/ proc'[p] = Ended(p)
                        \/ proc'[p] = [proc[p] EXCEPT !.state = "stuck"]
    <3>1. CASE SayHello(q) \/ SeeEof(q) \/ Exit(q)
      BY <1>0, <3>1 DEF SayHello, SeeEof, Exit, End
    <3>2. CASE Hang(q)
      BY <1>0, <3>2 DEF Hang
    <3>3. QED
      BY <1>2, <3>1, <3>2 DEF ProcessNext
  <2>3. \A p \in Pids : KeepsChild(p, proc'[p])
    BY <1>0, <2>2, EndsAsChild
  <2>4. QED
    BY <1>0, <2>1, <2>3, ParentsKept
<1>3. ASSUME NEW q \in Pids, ReapAsPidOne(q) PROVE Parenting'
  <2>1. /\ UNCHANGED <<guard, table, proto>> /\ PidOne /\ proc[q].token = Prototype
        /\ \A p \in Pids \ {q} : proc'[p] = proc[p]
    BY <1>0, <1>3 DEF ReapAsPidOne, spawnerVars, protoVars
  <2>2. ASSUME proto # "dead", NEW t \in Tokens, table[t] # None
        PROVE  proc'[table[t]] = proc[table[t]] /\ proc[table[t]].token = t
               /\ proc[table[t]].state # "free" /\ ~proc[table[t]].orphan
    <3>1. /\ table[t] \in Pids /\ proc[table[t]].token = t /\ proc[table[t]].state # "free"
          /\ ~proc[table[t]].orphan
      BY <1>0, <2>2 DEF Parenting
    <3>2. table[t] # q
      BY <2>1, <3>1, Bounds
    <3>3. QED
      BY <2>1, <3>1, <3>2
  <2>3. QED
    BY <2>1, <2>2 DEF Parenting
<1>4. QED
  BY <1>1, <1>2, <1>3

-----------------------------------------------------------------------------
(* Every step keeps the profile one declaration.                           *)

(* A step that declares nothing: grants stay or are given back, and the    *)
(* Hello a slot still reads from stays.                                    *)
LEMMA ProfileKept ==
  ASSUME Seeding, UNCHANGED poolVars,
         \A u \in Slots : grant'[u] \in {grant[u], 0},
         \A u \in Slots : slot'[u] = "caps" => slot[u] = "caps" /\ hello'[token'[u]] = hello[token[u]]
  PROVE  Seeding'
<1>1. granted' = granted /\ caps' = caps
  BY DEF poolVars
<1>2. granted' = 0 => caps' = 0 /\ \A u \in Slots : grant'[u] = 0 /\ slot'[u] # "caps"
  BY <1>1 DEF Seeding
<1>3. \A u \in Slots : slot'[u] = "caps" =>
        hello'[token'[u]] \in Profiles /\ granted' = Effective(hello'[token'[u]].conc)
  BY <1>1 DEF Seeding
<1>4. OneProfile'
  <2>1. \A u \in Slots : grant'[u] \in {0, granted'}
    BY <1>1 DEF Seeding, OneProfile
  <2>2. QED
    BY <1>1, <2>1 DEF Seeding, OneProfile
<1>5. QED
  BY <1>2, <1>3, <1>4 DEF Seeding

(* The stream that closes is no other slot's.                              *)
LEMMA ProfilePaused ==
  ASSUME TypeOK, Owning, Seeding, NEW s \in Slots, Pause(s), UNCHANGED <<token, poolVars>>
  PROVE  Seeding'
<1>1. /\ token \in [Slots -> {Prototype} \cup Tokens]
      /\ hello \in [Tokens -> Profiles \cup {NoHello, BadHello}]
  BY DEF TypeOK
<1>2. /\ slot'[s] = "pause" /\ grant'[s] = 0
      /\ \A u \in Slots \ {s} : slot'[u] = slot[u] /\ grant'[u] = grant[u]
  BY PauseSlots
<1>3. \A u \in Slots : slot'[u] = "caps" => slot[u] = "caps" /\ hello'[token'[u]] = hello[token[u]]
  <2> SUFFICES ASSUME NEW u \in Slots, slot'[u] = "caps"
               PROVE  slot[u] = "caps" /\ hello'[token[u]] = hello[token[u]]
    OBVIOUS
  <2>1. u # s /\ slot[u] = "caps"
    BY <1>2
  <2>2. token[u] \in Tokens /\ token[u] # token[s]
    BY <2>1, Bounds DEF Owning
  <2>3. QED
    BY <1>1, <2>1, <2>2 DEF Pause
<1>4. \A u \in Slots : grant'[u] \in {grant[u], 0}
  BY <1>2
<1>5. QED
  BY <1>3, <1>4, ProfileKept

(* The first handshake seeds the profile, the others are compared with     *)
(* it.                                                                     *)
LEMMA SlotSeeding ==
  ASSUME TypeOK, Owning, Seeding, NEW s \in Slots, SlotNext(s)
  PROVE  Seeding'
<1>0. /\ slot \in [Slots -> SlotStates] /\ token \in [Slots -> {Prototype} \cup Tokens]
      /\ grant \in [Slots -> Nat]
  BY DEF TypeOK
<1>1. CASE TakeLock(s) \/ StartPrototype(s) \/ StartFails(s) \/ SendSpawn(s) \/ Restart(s)
           \/ GiveUp(s) \/ Resume(s) \/ SweepKill(s)
  <2>1. UNCHANGED <<poolVars, grant, hello>>
    BY <1>1 DEF TakeLock, StartPrototype, StartFails, SendSpawn, Restart, GiveUp, Resume, SweepKill,
                SpawnError, slotVars
  <2>2. \A u \in Slots : slot'[u] = "caps" => slot[u] = "caps" /\ token'[u] = token[u]
    BY <1>0, <1>1 DEF TakeLock, StartPrototype, StartFails, SendSpawn, Restart, GiveUp, Resume, SweepKill,
                SpawnError, slotVars
  <2>3. QED
    BY <2>1, <2>2, ProfileKept
<1>2. CASE NoHandshake(s) \/ ReaderEof(s) \/ HandshakeTimeout(s) \/ OverClaim(s)
  BY <1>2, ProfilePaused DEF NoHandshake, ReaderEof, HandshakeTimeout, OverClaim
<1>3. CASE SendAck(s)
  <2>1. UNCHANGED <<token, poolVars>>
    BY <1>3 DEF SendAck
  <2>2. CASE Pause(s)
    BY <2>1, <2>2, ProfilePaused
  <2>3. CASE ~Pause(s)
    <3>1. slot' = [slot EXCEPT ![s] = "serve"] /\ UNCHANGED <<grant, hello>>
      BY <1>3, <2>3 DEF SendAck
    <3>2. \A u \in Slots : slot'[u] = "caps" => slot[u] = "caps"
      BY <1>0, <3>1
    <3>3. QED
      BY <2>1, <3>1, <3>2, ProfileKept
  <2>4. QED
    BY <2>2, <2>3
<1>4. CASE SeedGrant(s)
  <2> DEFINE h == hello[token[s]]
  <2>1. /\ h \in Profiles /\ UNCHANGED <<token, hello, caps>>
        /\ granted' = IF granted = 0 THEN Effective(h.conc) ELSE granted
        /\ grant' = [grant EXCEPT ![s] = granted']
        /\ slot' = [slot EXCEPT ![s] = IF granted = 0 THEN "caps" ELSE "ack"]
    BY <1>4 DEF SeedGrant
  <2> HIDE DEF h
  <2>2. Effective(h.conc) # 0
    BY <2>1, GrantType
  <2>3. granted' # 0
    BY <2>1, <2>2
  <2>4. CASE granted = 0
    <3>1. caps' = 0 /\ \A u \in Slots : grant[u] = 0 /\ slot[u] # "caps"
      BY <2>1, <2>4 DEF Seeding
    <3>2. \A u \in Slots : slot'[u] = "caps" => u = s
      BY <1>0, <2>1, <3>1
    <3>3. \A u \in Slots : grant'[u] \in {0, granted'}
      BY <1>0, <2>1, <3>1
    <3>4. OneProfile'
      BY <3>1, <3>3 DEF OneProfile
    <3>5. \A u \in Slots : slot'[u] = "caps" =>
            hello'[token'[u]] \in Profiles /\ granted' = Effective(hello'[token'[u]].conc)
      <4>1. hello'[token'[s]] = h
        BY <2>1 DEF h
      <4>2. QED
        BY <2>1, <2>4, <3>2, <4>1
    <3>6. QED
      BY <2>3, <3>4, <3>5 DEF Seeding
  <2>5. CASE granted # 0
    <3>1. granted' = granted
      BY <2>1, <2>5
    <3>2. \A u \in Slots : slot'[u] = "caps" => slot[u] = "caps"
      BY <1>0, <2>1, <2>5
    <3>3. \A u \in Slots : grant'[u] \in {0, granted'}
      BY <1>0, <2>1, <3>1 DEF Seeding, OneProfile
    <3>4. OneProfile'
      BY <2>1, <3>1, <3>3 DEF Seeding, OneProfile
    <3>5. \A u \in Slots : slot'[u] = "caps" =>
            hello'[token'[u]] \in Profiles /\ granted' = Effective(hello'[token'[u]].conc)
      BY <2>1, <3>1, <3>2 DEF Seeding
    <3>6. QED
      BY <2>3, <3>4, <3>5 DEF Seeding
  <2>6. QED
    BY <2>4, <2>5
<1>5. CASE SeedCaps(s)
  <2>1. /\ slot[s] = "caps" /\ caps' = hello[token[s]].caps /\ UNCHANGED <<token, hello, grant, granted>>
        /\ slot' = [slot EXCEPT ![s] = "ack"]
    BY <1>5 DEF SeedCaps
  <2>2. hello[token[s]] \in Profiles /\ granted = Effective(hello[token[s]].conc) /\ granted # 0
    BY <2>1 DEF Seeding
  <2>3. \A u \in Slots : slot'[u] = "caps" => slot[u] = "caps"
    BY <1>0, <2>1
  <2>4. OneProfile'
    BY <2>1, <2>2 DEF Seeding, OneProfile
  <2>5. \A u \in Slots : slot'[u] = "caps" =>
          hello'[token'[u]] \in Profiles /\ granted' = Effective(hello'[token'[u]].conc)
    BY <2>1, <2>3 DEF Seeding
  <2>6. granted' # 0
    BY <2>1, <2>2
  <2>7. QED
    BY <2>4, <2>5, <2>6 DEF Seeding
<1>6. QED
  BY <1>1, <1>2, <1>3, <1>4, <1>5 DEF SlotNext

(* Prototypes and processes leave the profile alone.                       *)
LEMMA OtherSeeding ==
  ASSUME TypeOK, Owning, Seeding,
         PrototypeLoop \/ PrototypeDies \/ ForeignStarts \/ \E p \in Pids : ProcessNext(p)
  PROVE  Seeding'
<1>1. CASE PrototypeLoop \/ PrototypeDies \/ ForeignStarts
  <2>1. UNCHANGED <<slot, token, grant, hello, poolVars>>
    BY <1>1 DEF PrototypeLoop, Boot, ReapChildren, PollTimeout, Fork, ForkFails, KillCommand,
                TakeCommand, PrototypeDies, ForeignStarts, slotVars
  <2>2. QED
    BY <2>1, ProfileKept
<1>2. ASSUME NEW p \in Pids, ProcessNext(p), ~SayHello(p) PROVE Seeding'
  <2>1. UNCHANGED <<slot, token, grant, hello, poolVars>>
    BY <1>2 DEF ProcessNext, SeeEof, Hang, Exit, ReapAsPidOne, slotVars
  <2>2. QED
    BY <2>1, ProfileKept
<1>3. ASSUME NEW p \in Pids, SayHello(p) PROVE Seeding'
  <2> DEFINE t == proc[p].token
  <2>1. /\ UNCHANGED <<slot, token, grant, poolVars>>
        /\ t \in Tokens /\ hello[t] = NoHello
        /\ \E x : hello' = [hello EXCEPT ![t] = x]
    BY <1>3 DEF SayHello, IsWorker, slotVars
  <2> HIDE DEF t
  <2>2. \A u \in Slots : slot[u] = "caps" => hello'[token[u]] = hello[token[u]]
    <3> SUFFICES ASSUME NEW u \in Slots, slot[u] = "caps" PROVE hello'[token[u]] = hello[token[u]]
      OBVIOUS
    <3>1. hello[token[u]] # NoHello
      BY GrantType DEF Seeding
    <3>2. token[u] # t
      BY <2>1, <3>1
    <3>3. token[u] \in Tokens /\ hello \in [Tokens -> Profiles \cup {NoHello, BadHello}]
      BY DEF Owning, TypeOK
    <3>4. QED
      BY <2>1, <3>2, <3>3
  <2>3. QED
    BY <2>1, <2>2, ProfileKept
<1>4. QED
  BY <1>1, <1>2, <1>3

-----------------------------------------------------------------------------
(* The theorems.                                                           *)

(* Nothing runs, nothing is spawned.                                       *)
LEMMA SupervisorInit == Init => SupervisorInv
<1> SUFFICES ASSUME Init PROVE SupervisorInv
  OBVIOUS
<1>1. /\ slot = [s \in Slots |-> "spawn"] /\ token = [s \in Slots |-> Prototype]
      /\ grant = [s \in Slots |-> 0] /\ granted = 0 /\ caps = 0 /\ killed = {}
      /\ lock = None /\ attempt = 0 /\ nextToken = 1 /\ guard = None
      /\ proto = "dead" /\ control = <<>> /\ table = [t \in Tokens |-> None]
      /\ proc = [p \in Pids |-> Gone] /\ hello = [t \in Tokens |-> NoHello] /\ faults = MaxFaults
  BY DEF Init
<1>2. TypeOK
  <2>1. Gone \in ProcRecords
    BY Bounds DEF Gone, ProcRecords, ProcStates
  <2>2. 1 \in 1 .. MaxToken + 1 /\ MaxFaults \in 0 .. MaxFaults
    BY Bounds
  <2>3. control \in Seq(Command) /\ Len(control) <= ControlCap
    BY <1>1, NoCommands, Bounds
  <2>4. QED
    BY <1>1, <2>1, <2>2, <2>3 DEF TypeOK, SlotStates, ProtoStates, ProcRecords
<1>3. Locking
  BY <1>1, Bounds DEF Locking
<1>4. Owning
  BY <1>1 DEF Owning, Prototype
<1>5. \A p \in Pids : ~Live(p)
  BY <1>1 DEF Live, Gone
<1>6. Naming
  BY <1>1, <1>5, NoCommands DEF Naming, OneProcessPerToken
<1>7. Parenting
  BY <1>1 DEF Parenting
<1>8. Seeding
  BY <1>1 DEF Seeding, OneProfile
<1>9. QED
  BY <1>2, <1>3, <1>4, <1>6, <1>7, <1>8 DEF SupervisorInv

(* Every step keeps the invariant.                                         *)
LEMMA SupervisorStep == SupervisorInv /\ [Next]_vars => SupervisorInv'
<1> SUFFICES ASSUME SupervisorInv, [Next]_vars PROVE SupervisorInv'
  OBVIOUS
<1> USE DEF SupervisorInv
<1>1. Locking' /\ Owning'
  BY LockingStep, OwningStep
<1>2. ASSUME NEW s \in Slots, SlotNext(s) PROVE TypeOK' /\ Naming' /\ Parenting' /\ Seeding'
  BY <1>2, SlotTypes, SlotNaming, SlotParenting, SlotSeeding
<1>3. CASE PrototypeLoop \/ PrototypeDies
  <2>1. Naming'
    BY <1>3, ForkNaming, OtherNaming DEF PrototypeLoop
  <2>2. QED
    BY <1>1, <1>3, <2>1, PrototypeTypes, PrototypeParenting, OtherSeeding
<1>4. CASE ForeignStarts \/ \E p \in Pids : ProcessNext(p)
  BY <1>1, <1>4, ProcessTypes, OtherNaming, ProcessParenting, OtherSeeding
<1>5. CASE UNCHANGED vars
  BY <1>5 DEF vars, slotVars, poolVars, spawnerVars, protoVars, TypeOK, Locking, Owning, Naming,
              Parenting, Seeding, OneProcessPerToken, OneProfile, Live, IsWorker, Runs
<1>6. QED
  BY <1>1, <1>2, <1>3, <1>4, <1>5 DEF Next

(* What the two locks of spawn.rs and the pool's profile protect: however  *)
(* prototypes die, forks fail, handshakes overlap and pids are reused, a   *)
(* token names one process and the pool works with one declaration.        *)
THEOREM OnePool == Spec => []PoolIsOne
<1>1. SupervisorInv => PoolIsOne
  BY DEF SupervisorInv, Naming, Seeding, PoolIsOne
<1>2. QED
  BY <1>1, SupervisorInit, SupervisorStep, PTL DEF Spec

(* prototype.rs:11: a kill command ends no process but the one of its      *)
(* token, for any number of pids and however often they are reused.        *)
THEOREM KillsReachTheirOwn == Spec => KillsOwn
<1>1. SupervisorInv /\ [Next]_vars =>
        [KillStep => \A p \in Pids : Dies(p) => proc[p].token = Head(control).token]_vars
  <2> SUFFICES ASSUME SupervisorInv, [Next]_vars, KillStep, NEW p \in Pids, Dies(p)
               PROVE  proc[p].token = Head(control).token
    OBVIOUS
  <2>0. /\ proc \in [Pids -> ProcRecords] /\ control \in Seq(Command) /\ control # <<>>
        /\ Head(control).cmd = "kill" /\ proto' # "dead" /\ proc'[p] # proc[p]
        /\ table \in [Tokens -> Pids \cup {None}]
    BY DEF SupervisorInv, TypeOK, KillStep, Dies, ProcRecords
  <2>1. Head(control).token \in Tokens /\ control' # control
    BY <2>0, CommandTaken DEF Command, KillStep
  <2>2. CASE KillCommand
    <3> DEFINE x == Head(control)
               q == table[x.token]
    <3>1. proto # "dead" /\ q # None /\ proc' = [proc EXCEPT ![q] = Ended(q)]
      BY <2>0, <2>2 DEF KillCommand, TakeCommand
    <3>2. p = q
      BY <2>0, <3>1
    <3>3. QED
      BY <2>1, <3>1, <3>2 DEF SupervisorInv, Parenting
  <2>3. ASSUME NEW s \in Slots, SlotNext(s) PROVE FALSE
    <3>1. proto # "dead" /\ guard # None
      BY <2>0 DEF SupervisorInv, Locking
    <3>2. ~StartPrototype(s) /\ ~Restart(s)
      BY <3>1 DEF StartPrototype, Restart
    <3>3. QED
      BY <2>0, <2>3, <3>2 DEF SlotNext, TakeLock, StartFails, SendSpawn, GiveUp, Resume,
            NoHandshake, HandshakeTimeout, SeedGrant, SeedCaps, SendAck, ReaderEof, SweepKill, OverClaim
  <2>4. CASE PrototypeLoop /\ ~KillCommand
    BY <2>0, <2>1, <2>4 DEF PrototypeLoop, Boot, ReapChildren, PollTimeout, Fork, ForkFails, TakeCommand
  <2>5. CASE PrototypeDies
    BY <2>0, <2>5 DEF PrototypeDies
  <2>6. CASE ForeignStarts \/ \E q \in Pids : ProcessNext(q)
    BY <2>1, <2>6 DEF ForeignStarts, ProcessNext, SayHello, SeeEof, Hang, Exit, ReapAsPidOne, protoVars
  <2>7. CASE UNCHANGED vars
    BY <2>0, <2>7 DEF vars
  <2>8. QED
    BY <2>2, <2>3, <2>4, <2>5, <2>6, <2>7 DEF Next
<1>2. QED
  BY <1>1, SupervisorInit, SupervisorStep, PTL DEF Spec, KillsOwn

(* main.rs:266: a supervisor that is not PID 1 ends no process but a       *)
(* prototype when it restarts one (as PID 1 it may, see RestartKillsOwn).  *)
THEOREM RestartsKillTheirOwn == ASSUME ~PidOne PROVE Spec => RestartKillsOwn
<1>1. SupervisorInv /\ [Next]_vars =>
        [RestartStep => \A p \in Pids : Dies(p) => proc[p].token = Prototype]_vars
  <2> SUFFICES ASSUME SupervisorInv, [Next]_vars, RestartStep, NEW p \in Pids, Dies(p)
               PROVE  proc[p].token = Prototype
    OBVIOUS
  <2>0. /\ proc \in [Pids -> ProcRecords] /\ guard # None /\ guard' = None /\ proc'[p] # proc[p]
        /\ None \notin Pids
    BY Bounds DEF SupervisorInv, TypeOK, RestartStep, Dies, ProcRecords
  <2>1. ASSUME NEW s \in Slots, SlotNext(s) PROVE proc[p].token = Prototype
    <3>1. CASE Restart(s)
      <4>1. p = guard
        BY <2>0, <3>1 DEF Restart
      <4>2. QED
        BY <2>0, <4>1 DEF SupervisorInv, Parenting
    <3>2. CASE ~Restart(s)
      <4>1. ~StartPrototype(s)
        BY <2>0, NewPidIsFree DEF StartPrototype
      <4>2. QED
        BY <2>0, <2>1, <3>2, <4>1 DEF SlotNext, TakeLock, StartFails, SendSpawn, GiveUp, Resume,
              NoHandshake, HandshakeTimeout, SeedGrant, SeedCaps, SendAck, ReaderEof, SweepKill, OverClaim
    <3>3. QED
      BY <3>1, <3>2
  <2>2. CASE PrototypeLoop \/ PrototypeDies
    BY <2>0, <2>2 DEF PrototypeLoop, Boot, ReapChildren, PollTimeout, Fork, ForkFails, KillCommand,
                      TakeCommand, PrototypeDies, spawnerVars
  <2>3. CASE ForeignStarts \/ \E q \in Pids : ProcessNext(q)
    BY <2>0, <2>3 DEF ForeignStarts, ProcessNext, SayHello, SeeEof, Hang, Exit, ReapAsPidOne, spawnerVars
  <2>4. CASE UNCHANGED vars
    BY <2>0, <2>4 DEF vars
  <2>5. QED
    BY <2>1, <2>2, <2>3, <2>4 DEF Next
<1>2. QED
  BY <1>1, SupervisorInit, SupervisorStep, PTL DEF Spec, RestartKillsOwn

=============================================================================
