---------------------------- MODULE CounterProofs ----------------------------
(***************************************************************************)
(* Proofs about the two counters of the router that are moved by many      *)
(* tasks and locked by none: the workers a pool counts (PoolSizing) and    *)
(* the connections a drain waits for (Drain). Both count what they are     *)
(* believed to count, for any number of tasks and any bounds. The two      *)
(* systems share nothing but the argument.                                 *)
(***************************************************************************)
EXTENDS Drain, PoolSizing, FiniteSetTheorems, SequenceTheorems, WellFoundedInduction, TLAPS

-----------------------------------------------------------------------------
(* PoolSizing: any number of clients and slots, any bounds on the pool and  *)
(* any timing of its janitor.                                               *)

\* Slots between retire and refill.
Leaving == {s \in Slots : slot[s] = "leaving"}

\* The part of the types the counter depends on.
SlotTypes == active \in Int /\ slot \in [Slots -> SlotStates]

SizeInv == SlotTypes /\ ActiveIsSlots /\ FloorKept

LEMMA SizesFinite ==
  /\ IsFiniteSet(Provisioned) /\ Cardinality(Provisioned) \in Nat
  /\ IsFiniteSet(Leaving) /\ Cardinality(Leaving) \in Nat
<1>1. Provisioned \subseteq Slots /\ Leaving \subseteq Slots
  BY DEF Provisioned, Leaving
<1>2. QED
  BY <1>1, PoolAssumption, FS_Subset, FS_CardinalityType

LEMMA FloorType == Floor \in Nat
BY PoolAssumption DEF Floor

(* What the two invariants say, in terms of the two sets. *)
LEMMA SizeMeaning ==
  /\ ActiveIsSlots <=> active = Cardinality(Provisioned)
  /\ FloorKept <=> active + Cardinality(Leaving) >= Floor
BY DEF ActiveIsSlots, FloorKept, Leaving

(* A slot moves from one provisioned state to another. *)
LEMMA SlotStays ==
  ASSUME SizeInv, NEW s \in Slots, NEW x \in SlotStates \ {"free", "leaving"},
         slot[s] \notin {"free", "leaving"}, slot' = [slot EXCEPT ![s] = x], UNCHANGED active
  PROVE  SizeInv'
<1> USE DEF SizeInv, SlotTypes
<1>1. Provisioned' = Provisioned /\ Leaving' = Leaving
  BY DEF Provisioned, Leaving
<1>2. Floor' = Floor
  BY DEF Floor
<1>3. QED
  BY <1>1, <1>2 DEF ActiveIsSlots, FloorKept, Leaving, SlotStates

(* spawn_worker: a slot from outside is counted. *)
LEMMA SlotEnters ==
  ASSUME SizeInv, NEW s \in Slots, slot[s] \in {"free", "leaving"}, SpawnWorker(s)
  PROVE  SizeInv'
<1> USE DEF SizeInv, SlotTypes
<1>1. active' = active + 1 /\ slot' = [slot EXCEPT ![s] = "starting"]
  BY DEF SpawnWorker
<1>2. Provisioned' = Provisioned \cup {s} /\ s \notin Provisioned
  BY <1>1 DEF Provisioned
<1>3. Cardinality(Provisioned') = Cardinality(Provisioned) + 1
  BY <1>2, SizesFinite, FS_AddElement
<1>4. ActiveIsSlots'
  BY <1>1, <1>3, SizesFinite DEF ActiveIsSlots
<1>5. Cardinality(Leaving') \in {Cardinality(Leaving), Cardinality(Leaving) - 1}
  <2>1. CASE slot[s] = "free"
    <3>1. Leaving' = Leaving
      BY <1>1, <2>1 DEF Leaving
    <3>2. QED
      BY <3>1
  <2>2. CASE slot[s] = "leaving"
    <3>1. Leaving' = Leaving \ {s} /\ s \in Leaving
      BY <1>1, <2>2 DEF Leaving
    <3>2. QED
      BY <3>1, SizesFinite, FS_RemoveElement
  <2>3. QED
    BY <2>1, <2>2
<1>6. FloorKept'
  <2>1. active + Cardinality(Leaving) >= Floor /\ Floor' = Floor
    BY SizeMeaning DEF Floor
  <2>2. active' + Cardinality(Leaving') >= Floor'
    BY <1>1, <1>5, <2>1, SizesFinite, FloorType
  <2>3. QED
    BY <2>2 DEF FloorKept, Leaving
<1>7. QED
  BY <1>1, <1>4, <1>6 DEF SlotStates

(* The end of a worker: a young one keeps its slot, an old one gives it up, *)
(* and the value left behind decides on a refill.                           *)
LEMMA SlotExits ==
  ASSUME SizeInv, NEW s \in Slots, slot[s] \in {"serving", "draining"}, CountExit(s)
  PROVE  SizeInv'
<1> USE DEF SizeInv, SlotTypes
<1>1. CASE age[s] < Healthy
  <2>1. slot' = [slot EXCEPT ![s] = "backoff"] /\ UNCHANGED active
    BY <1>1 DEF CountExit
  <2>2. QED
    BY <2>1, SlotStays DEF SlotStates
<1>2. CASE ~(age[s] < Healthy)
  <2> DEFINE next == IF active - 1 < Floor THEN "leaving" ELSE "free"
  <2>1. active' = active - 1 /\ slot' = [slot EXCEPT ![s] = next]
    BY <1>2 DEF CountExit
  <2>2. Provisioned' = Provisioned \ {s} /\ s \in Provisioned
    BY <2>1 DEF Provisioned
  <2>3. Cardinality(Provisioned') = Cardinality(Provisioned) - 1
    BY <2>2, SizesFinite, FS_RemoveElement
  <2>4. ActiveIsSlots'
    BY <2>1, <2>3, SizesFinite DEF ActiveIsSlots
  <2>5. Floor' = Floor
    BY DEF Floor
  <2>6. active' + Cardinality(Leaving') >= Floor'
    <3>1. CASE active - 1 < Floor
      <4>1. Leaving' = Leaving \cup {s} /\ s \notin Leaving
        BY <2>1, <3>1 DEF Leaving
      <4>2. Cardinality(Leaving') = Cardinality(Leaving) + 1
        BY <4>1, SizesFinite, FS_AddElement
      <4>3. active + Cardinality(Leaving) >= Floor
        BY SizeMeaning
      <4>4. QED
        BY <2>1, <2>5, <4>2, <4>3, SizesFinite, FloorType
    <3>2. CASE ~(active - 1 < Floor)
      <4>1. Leaving' = Leaving
        BY <2>1, <3>2 DEF Leaving
      <4>2. QED
        BY <2>1, <2>5, <3>2, <4>1, SizesFinite, FloorType
    <3>3. QED
      BY <3>1, <3>2
  <2>7. FloorKept'
    BY <2>6 DEF FloorKept, Leaving
  <2>8. QED
    BY <2>1, <2>4, <2>7 DEF SlotStates
<1>3. QED
  BY <1>1, <1>2

(* Steps that move neither a slot nor the counter. *)
LEMMA SizeKept ==
  ASSUME SizeInv, UNCHANGED <<active, slot>>
  PROVE  SizeInv'
BY DEF SizeInv, SlotTypes, ActiveIsSlots, FloorKept, Provisioned, Floor

LEMMA SizeStep ==
  ASSUME SizeInv, [PoolNext]_sizingVars
  PROVE  SizeInv'
<1>1. ASSUME NEW c \in Submitters, SubmitNext(c)
      PROVE  SizeInv'
  <2>1. CASE Grow(c)
    BY <2>1, SlotEnters DEF Grow
  <2>2. CASE ~Grow(c)
    <3>1. UNCHANGED <<active, slot>>
      BY <1>1, <2>2 DEF SubmitNext, Submit, CheckDemand, CheckRoom, Send, SendTimeout,
                        poolVars, slotVars
    <3>2. QED
      BY <3>1, SizeKept
  <2>3. QED
    BY <2>1, <2>2
<1>2. ASSUME NEW s \in Slots, SlotNext(s)
      PROVE  SizeInv'
  <2>1. CASE Ready(s) \/ Respawn(s) \/ Claim(s) \/ TakeRetire(s)
    <3>1. /\ slot[s] \in {"starting", "backoff", "serving"} /\ UNCHANGED active
          /\ \E x \in {"starting", "serving", "draining"} : slot' = [slot EXCEPT ![s] = x]
      BY <2>1 DEF Ready, Respawn, Claim, TakeRetire, poolVars
    <3>2. QED
      BY <3>1, SlotStays DEF SlotStates
  <2>2. CASE Drained(s) \/ Crash(s)
    BY <2>2, SlotExits DEF Drained, Crash, WorkerGone
  <2>3. CASE Refill(s)
    BY <2>3, SlotEnters DEF Refill
  <2>4. CASE \E c \in Submitters : Finish(s, c)
    BY <2>4, SizeKept DEF Finish
  <2>5. QED
    BY <1>2, <2>1, <2>2, <2>3, <2>4 DEF SlotNext
<1>3. CASE JanitorTick \/ JanitorSend \/ Tick \/ UNCHANGED sizingVars
  BY <1>3, SizeKept DEF JanitorTick, JanitorSend, Tick, sizingVars, poolVars, slotVars
<1>4. QED
  BY <1>1, <1>2, <1>3 DEF PoolNext

LEMMA SizeInit == PoolInit => SizeInv
<1> SUFFICES ASSUME PoolInit PROVE SizeInv
  OBVIOUS
<1>1. PICK S \in SUBSET Slots :
        /\ Cardinality(S) = Spare
        /\ slot = [s \in Slots |-> IF s \in S THEN "starting" ELSE "free"]
  BY DEF PoolInit
<1>2. Provisioned = S /\ Leaving = {} /\ active = Spare
  BY <1>1 DEF Provisioned, Leaving, PoolInit
<1>3. Cardinality(Leaving) = 0 /\ Spare \in Nat /\ Floor = Spare
  BY <1>2, FS_EmptySet, PoolAssumption DEF Floor
<1>4. ActiveIsSlots /\ FloorKept
  BY <1>1, <1>2, <1>3, SizeMeaning
<1>5. QED
  BY <1>1, <1>2, <1>3, <1>4 DEF SizeInv, SlotTypes, SlotStates

LEMMA SizeCorrect == PoolSpec => []SizeInv
BY SizeInit, SizeStep, PTL DEF PoolSpec

(* `active` is the number of provisioned slots at all times: crashes that   *)
(* respawn in place, retirements, refills and concurrent growth each move   *)
(* it by what they do to the slots.                                         *)
THEOREM ActiveExact == PoolSpec => []ActiveIsSlots
<1>1. SizeInv => ActiveIsSlots
  BY DEF SizeInv
<1>2. QED
  BY <1>1, SizeCorrect, PTL

(* However many workers leave at once, the slots in use and those about to  *)
(* be refilled are never fewer than the floor of the pool.                  *)
THEOREM FloorHolds == PoolSpec => []FloorKept
<1>1. SizeInv => FloorKept
  BY DEF SizeInv
<1>2. QED
  BY <1>1, SizeCorrect, PTL

-----------------------------------------------------------------------------
(* Drain: any number of clients and listeners and any cap. The permits and  *)
(* the counter stay exact through every way a connection can end, and the   *)
(* exit after a drain is clean.                                             *)

(* A set of naturals has a least element, and Min chooses it.              *)
LEMMA MinIsLeast ==
  ASSUME NEW I, I \subseteq Nat, I # {}
  PROVE  Min(I) \in I /\ \A j \in I : Min(I) <= j
<1> DEFINE Less == OpToRel(<, Nat)
<1>1. \A i, j \in Nat : <<j, i>> \in Less <=> j < i
  BY DEF OpToRel
<1> HIDE DEF Less
<1>2. IsWellFoundedOn(Less, Nat)
  BY NatLessThanWellFounded DEF Less
<1>3. PICK i \in I : \A j \in I : <<j, i>> \notin Less
  BY <1>2, WFMin
<1>4. ASSUME NEW j \in I
      PROVE  i <= j
  <2>1. i \in Nat /\ j \in Nat /\ <<j, i>> \notin Less
    BY <1>3
  <2>2. ~ (j < i)
    BY <1>1, <2>1
  <2>3. QED
    BY <2>1, <2>2
<1>5. QED
  BY <1>3, <1>4 DEF Min

(* What is left of a queue when one entry is taken out is a queue of the   *)
(* same kind of entries.                                                   *)
LEMMA RemoveFirstType ==
  ASSUME NEW S, NEW s \in Seq(S), NEW e
  PROVE  RemoveFirst(s, e) \in Seq(S)
<1>1. ASSUME NEW i \in 1 .. Len(s)
      PROVE  RemoveAt(s, i) \in Seq(S)
  <2>1. SubSeq(s, 1, i - 1) \in Seq(S)
    BY SubSeqProperties
  <2>2. SubSeq(s, i + 1, Len(s)) \in Seq(S)
    BY SubSeqProperties
  <2>3. QED
    BY <2>1, <2>2, ConcatProperties DEF RemoveAt
<1>2. CASE \E i \in 1 .. Len(s) : s[i] = e
  <2> DEFINE I == {i \in 1 .. Len(s) : s[i] = e}
  <2>1. I # {} /\ I \subseteq Nat
    BY <1>2
  <2>2. Min(I) \in 1 .. Len(s)
    BY <2>1, MinIsLeast
  <2>3. RemoveFirst(s, e) = RemoveAt(s, Min(I))
    BY <1>2, <2>1 DEF RemoveFirst, SelectInSeq
  <2>4. QED
    BY <1>1, <2>2, <2>3
<1>3. CASE ~ \E i \in 1 .. Len(s) : s[i] = e
  BY <1>3 DEF RemoveFirst
<1>4. QED
  BY <1>2, <1>3

-----------------------------------------------------------------------------
(* The accounts, and what they rest on: who holds an accepted connection,  *)
(* and that no loop is left once the drain looks at the counter.           *)

Counted == {c \in Clients : conn[c] \in Serving \cup {"leave"}}

Types ==
  /\ loop \in [Listeners -> LoopStates] /\ held \in [Listeners -> Clients \cup {None}]
  /\ waiters \in Seq(Listeners)
  /\ conn \in [Clients -> ConnStates] /\ fails \in 0..MaxFails
  /\ extra \in [Clients -> 0..MaxExtra]
  /\ shutdown \in BOOLEAN /\ main \in MainStates /\ woken \in BOOLEAN

Permits ==
  /\ IsFiniteSet(Tasks)
  /\ free \in Nat /\ free + Cardinality(Tasks) = MaxConn
  /\ count = Cardinality(Counted)

(* A connection is accepted exactly as long as its own loop holds it.      *)
Holders ==
  /\ \A l \in Listeners :
       loop[l] = "permit" =>
         held[l] \in Clients /\ conn[held[l]] = "accepted" /\ Home[held[l]] = l
  /\ \A l \in Listeners : loop[l] # "permit" => held[l] = None
  /\ \A c \in Clients :
       conn[c] = "accepted" => loop[Home[c]] = "permit" /\ held[Home[c]] = c

(* The loops are joined before the counter is loaded.                      *)
Joined ==
  /\ main # "serve" => \A l \in Listeners : loop[l] = "done"
  /\ main = "drained" => count = 0

DrainInv == Types /\ Permits /\ Holders /\ Joined

(* No connection, no permit out, every loop accepting.                     *)
LEMMA DrainInit == Init => DrainInv
<1> SUFFICES ASSUME Init PROVE DrainInv
  OBVIOUS
<1> USE DEF Init
<1>1. Types
  <2>1. fails \in 0..MaxFails /\ extra \in [Clients -> 0..MaxExtra]
    BY DrainAssumption
  <2>2. waiters \in Seq(Listeners)
    BY EmptySeq
  <2>3. QED
    BY <2>1, <2>2 DEF Types, LoopStates, ConnStates, MainStates
<1>2. Tasks = {} /\ Counted = {}
  BY DEF Tasks, Counted, Serving, Ending
<1>3. Permits
  BY <1>2, FS_EmptySet, DrainAssumption DEF Permits
<1>4. Holders /\ Joined
  BY DEF Holders, Joined
<1>5. QED
  BY <1>1, <1>3, <1>4 DEF DrainInv

(* Counted tasks are tasks, so there are finitely many of them.            *)
LEMMA Sizes ==
  ASSUME Permits
  PROVE  /\ Counted \subseteq Tasks /\ IsFiniteSet(Counted)
         /\ Cardinality(Tasks) \in Nat /\ Cardinality(Counted) \in Nat
<1>1. Counted \subseteq Tasks
  BY DEF Counted, Tasks, Ending
<1>2. QED
  BY <1>1, FS_Subset, FS_CardinalityType DEF Permits

(* Steps that create no task and end none.                                 *)
LEMMA PermitsKept ==
  ASSUME Permits, Tasks' = Tasks, Counted' = Counted, UNCHANGED <<free, count>>
  PROVE  Permits'
BY DEF Permits

(* A connection moves from one state of its task to another.               *)
LEMMA TaskMoves ==
  ASSUME DrainInv, NEW c \in Clients, NEW state \in Serving \cup {"leave"},
         conn[c] \in Serving, Goto(c, state),
         extra' \in [Clients -> 0..MaxExtra]
  PROVE  DrainInv'
<1> USE DEF DrainInv, Goto, loopVars, mainVars
<1>1. Types'
  BY DEF Types, ConnStates, Serving, Ending
<1>2. Tasks' = Tasks /\ Counted' = Counted
  BY DEF Types, Tasks, Counted, Serving, Ending
<1>3. Permits'
  BY <1>2, PermitsKept
<1>4. Holders' /\ Joined'
  BY DEF Types, Holders, Joined, Serving
<1>5. QED
  BY <1>1, <1>3, <1>4

(* What a connection does before its task ends moves it within the tasks.  *)
LEMMA ConnMoves ==
  ASSUME DrainInv, Running, NEW c \in Clients,
         \/ FirstBytes(c) \/ HeadRead(c) \/ HeadFails(c) \/ IdleEnds(c) \/ SeeShutdown(c)
         \/ Answer(c) \/ Upgrade(c) \/ TunnelEnds(c)
  PROVE  DrainInv'
<1> USE DEF Serving
<1>0. extra \in [Clients -> 0..MaxExtra] /\ MaxExtra \in Nat
  BY DrainAssumption DEF DrainInv, Types
<1>1. CASE FirstBytes(c)
  <2>1. extra' \in [Clients -> 0..MaxExtra]
    BY <1>0, <1>1 DEF FirstBytes
  <2>2. QED
    BY <1>1, <2>1, TaskMoves DEF FirstBytes
<1>2. CASE HeadRead(c) \/ HeadFails(c) \/ IdleEnds(c) \/ SeeShutdown(c) \/ Upgrade(c) \/ TunnelEnds(c)
  BY <1>0, <1>2, TaskMoves DEF HeadRead, HeadFails, IdleEnds, SeeShutdown, Upgrade, TunnelEnds
<1>3. CASE Answer(c)
  <2>1. extra' \in [Clients -> 0..MaxExtra]
    BY <1>0, <1>3 DEF Answer
  <2>2. QED
    BY <1>3, <2>1, TaskMoves DEF Answer
<1>4. QED
  BY <1>1, <1>2, <1>3

(* The end of a task: first the counter, then the permit.                  *)
LEMMA TaskUncounts ==
  ASSUME DrainInv, Running, NEW c \in Clients, Uncount(c)
  PROVE  DrainInv'
<1> USE DEF DrainInv, Uncount, loopVars, mainVars
<1>1. Types'
  BY DEF Types, ConnStates, Ending
<1>2. Tasks' = Tasks /\ Counted' = Counted \ {c} /\ c \in Counted
  BY DEF Types, Tasks, Counted, Serving, Ending
<1>3. Permits'
  <2>1. Cardinality(Counted') = Cardinality(Counted) - 1
    BY <1>2, Sizes, FS_RemoveElement
  <2>2. QED
    BY <1>2, <2>1 DEF Permits
<1>4. Holders'
  BY DEF Types, Holders
<1>5. Joined'
  BY DEF Joined, Running
<1>6. QED
  BY <1>1, <1>3, <1>4, <1>5

(* fetch_sub and the notification leave the permit with the task.          *)
LEMMA TaskNotifies ==
  ASSUME DrainInv, NEW c \in Clients, NotifyDrained(c)
  PROVE  DrainInv'
<1> USE DEF DrainInv, NotifyDrained, loopVars
<1>1. Types'
  BY DEF Types, ConnStates, Ending
<1>2. Tasks' = Tasks /\ Counted' = Counted
  BY DEF Types, Tasks, Counted, Serving, Ending
<1>3. Permits'
  BY <1>2, PermitsKept
<1>4. Holders' /\ Joined'
  BY DEF Types, Holders, Joined
<1>5. QED
  BY <1>1, <1>3, <1>4

(* The permit dropped last takes the task out of the account.              *)
LEMMA TaskReleases ==
  ASSUME DrainInv, NEW c \in Clients, Release(c)
  PROVE  DrainInv'
<1> USE DEF DrainInv, Release, loopVars, mainVars
<1>1. Types'
  BY DEF Types, ConnStates
<1>2. Tasks' = Tasks \ {c} /\ c \in Tasks /\ Counted' = Counted
  BY DEF Types, Tasks, Counted, Serving, Ending
<1>3. Permits'
  <2>1. IsFiniteSet(Tasks') /\ Cardinality(Tasks') = Cardinality(Tasks) - 1
    BY <1>2, Sizes, FS_RemoveElement DEF Permits
  <2>2. QED
    BY <1>2, <2>1, Sizes DEF Permits
<1>4. Holders' /\ Joined'
  BY DEF Types, Holders, Joined
<1>5. QED
  BY <1>1, <1>3, <1>4

(* What the loops do. A step of a loop of a drain that was joined: none.   *)
LEMMA LoopAccepts ==
  ASSUME DrainInv, NEW l \in Listeners, Accept(l)
  PROVE  DrainInv'
<1> PICK c \in Backlog(l) : /\ conn' = [conn EXCEPT ![c] = "accepted"]
                            /\ held' = [held EXCEPT ![l] = c]
  BY DEF Accept
<1> USE DEF DrainInv, Accept, Backlog, mainVars
<1>1. Types'
  <2>1. waiters' \in Seq(Listeners)
    BY AppendProperties DEF Types
  <2>2. QED
    BY <2>1 DEF Types, LoopStates, ConnStates
<1>2. Tasks' = Tasks /\ Counted' = Counted
  BY DEF Types, Tasks, Counted, Serving, Ending
<1>3. Permits'
  BY <1>2, PermitsKept
<1>4. Holders'
  BY DrainAssumption DEF Types, Holders
<1>5. Joined'
  BY DEF Types, Joined
<1>6. QED
  BY <1>1, <1>3, <1>4, <1>5

(* A loop hands its connection and its permit to a new task.               *)
LEMMA LoopSpawns ==
  ASSUME DrainInv, NEW l \in Listeners, Spawn(l)
  PROVE  DrainInv'
<1> DEFINE c == held[l]
<1> USE DEF DrainInv, Spawn, mainVars
<1>1. c \in Clients /\ conn[c] = "accepted" /\ Home[c] = l
  BY DEF Holders
<1>2. Types'
  <2>1. waiters' \in Seq(Listeners)
    BY HeadTailProperties DEF Types
  <2>2. QED
    BY <1>1, <2>1 DEF Types, LoopStates, ConnStates, Serving
<1>3. /\ Tasks' = Tasks \cup {c} /\ c \notin Tasks
      /\ Counted' = Counted \cup {c} /\ c \notin Counted
  BY <1>1 DEF Types, Tasks, Counted, Serving, Ending
<1>4. Permits'
  <2>1. /\ IsFiniteSet(Tasks') /\ Cardinality(Tasks') = Cardinality(Tasks) + 1
        /\ Cardinality(Counted') = Cardinality(Counted) + 1
    BY <1>3, Sizes, FS_AddElement DEF Permits
  <2>2. QED
    BY <2>1, Sizes DEF Permits
<1>5. Holders'
  BY <1>1, DrainAssumption DEF Types, Holders
<1>6. Joined'
  BY DEF Types, Joined
<1>7. QED
  BY <1>2, <1>4, <1>5, <1>6

(* A loop that sees the shutdown drops the connection it holds.            *)
LEMMA LoopStops ==
  ASSUME DrainInv, NEW l \in Listeners, Stop(l)
  PROVE  DrainInv'
<1> USE DEF DrainInv, Stop, Close, Backlog, mainVars
<1>1. \A c \in Clients : c = held[l] => conn[c] = "accepted"
  BY DrainAssumption DEF Types, Holders
<1>2. Types'
  <2>1. waiters' \in Seq(Listeners)
    BY RemoveFirstType DEF Types
  <2>2. QED
    BY <2>1 DEF Types, LoopStates, ConnStates
<1>3. Tasks' = Tasks /\ Counted' = Counted
  BY <1>1 DEF Types, Tasks, Counted, Serving, Ending
<1>4. Permits'
  BY <1>3, PermitsKept
<1>5. Holders'
  BY <1>1, DrainAssumption DEF Types, Holders
<1>6. Joined'
  BY DEF Types, Joined
<1>7. QED
  BY <1>2, <1>4, <1>5, <1>6

(* Steps that concern neither a task nor a connection in a loop's hands.   *)
LEMMA Others ==
  ASSUME DrainInv, Running,
         \/ \E c \in Clients : Connect(c)
         \/ \E l \in Listeners : AcceptFails(l) \/ BackoffEnds(l)
         \/ Signal \/ Join \/ Check \/ Arm \/ Wake \/ Expire \/ UNCHANGED vars
  PROVE  DrainInv'
<1> USE DEF DrainInv, Connect, AcceptFails, BackoffEnds, Signal, Join, Check, Arm, Wake, Expire,
            MainGoto, Running, loopVars, mainVars, vars
<1>1. Types'
  <2>1. CASE \E c \in Clients : Connect(c)
    BY <2>1 DEF Types, ConnStates
  <2>2. ASSUME NEW l \in Listeners, AcceptFails(l) \/ BackoffEnds(l)
        PROVE  Types'
    <3>1. fails' \in 0..MaxFails
      BY <2>2, DrainAssumption DEF Types
    <3>2. loop' \in [Listeners -> LoopStates]
      BY <2>2 DEF Types, LoopStates
    <3>3. QED
      BY <2>2, <3>1, <3>2 DEF Types
  <2>3. CASE Signal \/ Join \/ Check \/ Arm \/ Wake \/ Expire \/ UNCHANGED vars
    BY <2>3 DEF Types, MainStates
  <2>4. QED
    BY <2>1, <2>2, <2>3
<1>2. Tasks' = Tasks /\ Counted' = Counted /\ UNCHANGED <<free, count>>
  BY DEF Types, Tasks, Counted, Serving, Ending
<1>3. Permits'
  BY <1>2, PermitsKept
<1>4. Holders'
  <2>1. CASE \E c \in Clients : Connect(c)
    BY <2>1 DEF Types, Holders
  <2>2. ASSUME NEW l \in Listeners, AcceptFails(l) \/ BackoffEnds(l)
        PROVE  Holders'
    <3>1. \A m \in Listeners : loop'[m] = "permit" <=> loop[m] = "permit"
      BY <2>2 DEF Types
    <3>2. UNCHANGED <<held, conn>>
      BY <2>2
    <3>3. \A c \in Clients : Home[c] \in Listeners
      BY DrainAssumption
    <3>4. Holders
      OBVIOUS
    <3> HIDE DEF AcceptFails, BackoffEnds, Connect, Signal, Join, Check, Arm, Wake, Expire
    <3>5. QED
      BY <3>1, <3>2, <3>3, <3>4 DEF Holders
  <2>3. CASE Signal \/ Join \/ Check \/ Arm \/ Wake \/ Expire \/ UNCHANGED vars
    BY <2>3 DEF Holders
  <2>4. QED
    BY <2>1, <2>2, <2>3
<1>5. Joined'
  BY DEF Types, Joined
<1>6. QED
  BY <1>1, <1>3, <1>4, <1>5

(* Every step keeps the invariant.                                         *)
LEMMA DrainStep == DrainInv /\ [Next]_vars => DrainInv'
<1> SUFFICES ASSUME DrainInv, [Next]_vars PROVE DrainInv'
  OBVIOUS
<1>1. CASE UNCHANGED vars \/ ~Running
  <2>1. UNCHANGED vars
    BY <1>1 DEF Next
  <2>2. QED
    BY <2>1 DEF DrainInv, vars, loopVars, mainVars, Types, Permits, Tasks, Counted, Holders, Joined
<1>2. ASSUME NEW c \in Clients, Running, Connect(c) \/ ConnNext(c)
      PROVE  DrainInv'
  BY <1>2, Others, ConnMoves, TaskUncounts, TaskNotifies, TaskReleases DEF ConnNext, EndTask
<1>3. ASSUME NEW l \in Listeners, Running, LoopNext(l)
      PROVE  DrainInv'
  BY <1>3, Others, LoopAccepts, LoopSpawns, LoopStops DEF LoopNext
<1>4. CASE Running /\ (Signal \/ Join \/ Check \/ Arm \/ Wake \/ Expire)
  BY <1>4, Others
<1>5. QED
  BY <1>1, <1>2, <1>3, <1>4 DEF Next

(* A permit per task, a count per task that has not ended its count; and   *)
(* a drained exit has no connection open: the counter is zero and no loop  *)
(* holds one that it accepted.                                             *)
LEMMA DrainInvImplies == DrainInv => DrainIsHonest
<1> SUFFICES ASSUME DrainInv PROVE DrainIsHonest
  OBVIOUS
<1> USE DEF DrainInv
<1>1. TypeOK
  <2>1. free \in 0..MaxConn /\ count \in Nat
    BY Sizes, DrainAssumption DEF Permits
  <2>2. QED
    BY <2>1 DEF TypeOK, Types
<1>2. Counted = {c \in Tasks : conn[c] \in Serving \cup {"leave"}}
  BY DEF Counted, Tasks, Ending
<1>3. CleanExit
  <2> SUFFICES ASSUME main = "drained" PROVE \A c \in Clients : conn[c] \notin Serving \cup {"accepted"}
    BY DEF CleanExit
  <2>1. Counted = {}
    BY Sizes, FS_EmptySet DEF Permits, Joined
  <2>2. QED
    BY <2>1, DrainAssumption DEF Counted, Holders, Joined
<1>4. QED
  BY <1>1, <1>2, <1>3 DEF DrainIsHonest, Accounts, Permits

(* Router::serve of lib.rs: the drain waits on ConnTracker's counter and   *)
(* admits on its semaphore. Both stay exact however connections end, so    *)
(* the drain does not exit under an open one and no permit is lost.        *)
THEOREM HonestDrain == Spec => []DrainIsHonest
<1>1. DrainInv => DrainIsHonest
  BY DrainInvImplies
<1>2. QED
  BY DrainInit, DrainStep, <1>1, PTL DEF Spec
=============================================================================
