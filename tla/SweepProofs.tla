----------------------------- MODULE SweepProofs ------------------------------
(***************************************************************************)
(* Proofs about the enforcement of task_timeout, for any number of tasks   *)
(* and workers, any grant and any buffer: no Pong passes for another       *)
(* worker's, and a worker that cooperates is not killed.                   *)
(***************************************************************************)
EXTENDS TaskSweep, SequenceTheorems, TLAPS

-----------------------------------------------------------------------------
(* The inductive invariant.                                                *)

Claim(t) == [kind |-> "Claim", task |-> t]
Ping(t)  == [kind |-> "Ping", task |-> t]
Abort(t) == [kind |-> "Abort", task |-> t]

Frames(q) == {q[i] : i \in 1 .. Len(q)}

\* A Ping for t comes behind an Abort for t.
Ahead(q, t) == \A i \in 1 .. Len(q) : q[i] = Ping(t) => \E j \in 1 .. i - 1 : q[j] = Abort(t)

\* No claim is written twice.
Once(q) == \A i, j \in 1 .. Len(q) : q[i].kind = "Claim" /\ q[i] = q[j] => i = j

\* A worker ends by a kill only, and the router sees its end after that.
Living ==
  /\ Workers \ alive \subseteq killReq /\ alive \subseteq live
  /\ \A w \in Workers \ alive : job[w] = {}
  /\ held \subseteq Laggards
  /\ \A t \in sent : pending[t] # None

\* A task is claimed once, by the worker that received it.
Claiming ==
  /\ \A t \in Tasks : pending[t] # None => t \notin fresh
  /\ \A w \in Workers : Once(up[w])
  /\ \A w \in Workers, t \in Tasks : Claim(t) \in Frames(up[w]) =>
       /\ t \notin fresh /\ pending[t] = None
       /\ \A v \in Workers \ {w} : Claim(t) \notin Frames(up[v])

\* What the sweep holds at each of its steps.
Sweeping ==
  /\ sweep.pc # "aborting" => sweep.aborts = {}
  /\ sweep.pc = "asleep" => sweep.cands = {}
  /\ sweep.pc \in {"asleep", "aborting"} => sweep.probe = None
  /\ sweep.pc \in {"waiting", "killing"} => sweep.probe # None

\* The sweep asks about w, or has asked.
Asked(w) ==
  \/ \E t \in Tasks : pending[t] = w \/ Ping(t) \in Frames(down[w])
  \/ \E c \in sweep.cands : c.worker = w
  \/ sweep.probe # None /\ sweep.probe.worker = w

\* A worker that stops reading is asked about only once it holds a task, and
\* then writes nothing more.
Silence ==
  \A w \in Deaf \ Faulty :
    /\ \A f \in Frames(up[w]) : f.kind = "Claim"
    /\ sweep.probe # None /\ sweep.probe.worker = w => sweep.reply = "none"
    /\ w \in alive /\ job[w] = {} => up[w] = <<>> /\ ~Asked(w)

\* A task that the sweep gave its Abort has it on the stream still, or is
\* over.
Warned(w, t) == t \notin fresh /\ (t \in job[w] => Abort(t) \in Frames(down[w]))

\* Aborts go ahead of Pings, so no task is there when its Ping is.
Warnings ==
  /\ \A t \in sent \ sweep.aborts : \A w \in Workers : pending[t] = w => Warned(w, t)
  /\ \A c \in sweep.cands : Warned(c.worker, c.task)
  /\ sweep.probe # None => Warned(sweep.probe.worker, sweep.probe.task)
  /\ \A w \in Workers, t \in Tasks :
       /\ Ping(t) \in Frames(down[w]) => t \notin fresh
       /\ t \in job[w] => Ahead(down[w], t)
  /\ cancel = {}
  /\ \A w \in Workers : \A f \in Frames(up[w]) : f.kind # "Busy"
  /\ sweep.reply # "Busy"

\* A kill is decided about a worker that gave cause for it.
Killing ==
  /\ CooperativeSurvives
  /\ sweep.pc = "killing" => sweep.probe.worker \in Deaf \cup Laggards

SweepInv ==
  /\ TypeOK /\ Living /\ Claiming /\ Sweeping /\ Silence
  /\ ~Blocking => Warnings /\ Killing

-----------------------------------------------------------------------------
(* Streams of frames.                                                      *)

SweepRecords ==
  [pc : SweepPcs, aborts : SUBSET Tasks, cands : SUBSET Candidates,
   probe : Candidates \cup {None}, reply : {"none", "Idle", "Busy"}]

(* A frame that is written comes last.                                     *)
LEMMA Appended ==
  ASSUME NEW S, NEW q \in Seq(S), NEW x \in S
  PROVE  /\ Append(q, x) \in Seq(S) /\ Len(Append(q, x)) = Len(q) + 1
         /\ Frames(Append(q, x)) = Frames(q) \cup {x}
         /\ Once(q) /\ (x.kind = "Claim" => x \notin Frames(q)) => Once(Append(q, x))
         /\ \A t : Ahead(q, t) /\ (x = Ping(t) => Abort(t) \in Frames(q)) => Ahead(Append(q, x), t)
<1> DEFINE d == Append(q, x)
<1>1. /\ d \in Seq(S) /\ Len(d) = Len(q) + 1 /\ Len(q) \in Nat
      /\ \A i \in 1 .. Len(q) : d[i] = q[i]
      /\ d[Len(q) + 1] = x
  BY AppendProperties, LenProperties
<1> HIDE DEF d
<1>2. /\ \A i \in 1 .. Len(d) : i \in 1 .. Len(q) \/ i = Len(q) + 1
      /\ 1 .. Len(q) \subseteq 1 .. Len(d) /\ Len(q) + 1 \in 1 .. Len(d)
  BY <1>1
<1>3. Frames(d) = Frames(q) \cup {x}
  <2>1. ASSUME NEW f \in Frames(d) PROVE f \in Frames(q) \cup {x}
    BY <1>1, <1>2 DEF Frames
  <2>2. ASSUME NEW f \in Frames(q) PROVE f \in Frames(d)
    BY <1>1, <1>2 DEF Frames
  <2>3. x \in Frames(d)
    BY <1>1, <1>2 DEF Frames
  <2>4. QED
    BY <2>1, <2>2, <2>3
<1>4. ASSUME Once(q), x.kind = "Claim" => x \notin Frames(q) PROVE Once(d)
  <2> SUFFICES ASSUME NEW i \in 1 .. Len(d), NEW j \in 1 .. Len(d), d[i].kind = "Claim", d[i] = d[j]
               PROVE  i = j
    BY DEF Once
  <2>1. CASE i \in 1 .. Len(q) /\ j \in 1 .. Len(q)
    BY <1>1, <1>4, <2>1 DEF Once
  <2>2. CASE i \in 1 .. Len(q) /\ j = Len(q) + 1
    BY <1>1, <1>4, <2>2 DEF Frames
  <2>3. CASE i = Len(q) + 1 /\ j \in 1 .. Len(q)
    BY <1>1, <1>4, <2>3 DEF Frames
  <2>4. QED
    BY <1>2, <2>1, <2>2, <2>3
<1>5. ASSUME NEW t, Ahead(q, t), x = Ping(t) => Abort(t) \in Frames(q) PROVE Ahead(d, t)
  <2> SUFFICES ASSUME NEW i \in 1 .. Len(d), d[i] = Ping(t)
               PROVE  \E j \in 1 .. i - 1 : d[j] = Abort(t)
    BY DEF Ahead
  <2>1. CASE i \in 1 .. Len(q)
    <3>1. PICK j \in 1 .. i - 1 : q[j] = Abort(t)
      BY <1>1, <1>5, <2>1 DEF Ahead
    <3>2. j \in 1 .. Len(q)
      BY <1>1, <2>1
    <3>3. QED
      BY <1>1, <3>1, <3>2
  <2>2. CASE i = Len(q) + 1
    <3>1. PICK j \in 1 .. Len(q) : q[j] = Abort(t)
      BY <1>1, <1>5, <2>2 DEF Frames
    <3>2. j \in 1 .. i - 1
      BY <1>1, <2>2
    <3>3. QED
      BY <1>1, <3>1, <3>2
  <2>3. QED
    BY <1>2, <2>1, <2>2
<1>6. QED
  BY <1>1, <1>3, <1>4, <1>5 DEF d

(* A frame that is read was first.                                         *)
LEMMA Removed ==
  ASSUME NEW S, NEW q \in Seq(S), q # <<>>
  PROVE  /\ Tail(q) \in Seq(S) /\ Len(Tail(q)) = Len(q) - 1 /\ Head(q) \in S /\ Head(q) \in Frames(q)
         /\ Frames(q) = {Head(q)} \cup Frames(Tail(q))
         /\ Once(q) => Once(Tail(q)) /\ (Head(q).kind = "Claim" => Head(q) \notin Frames(Tail(q)))
         /\ \A t : Ahead(q, t) => Head(q) # Ping(t) /\ (Head(q) # Abort(t) => Ahead(Tail(q), t))
<1> DEFINE d == Tail(q)
           x == Head(q)
<1>1. /\ d \in Seq(S) /\ Len(d) = Len(q) - 1 /\ Len(d) \in Nat /\ x \in S /\ Len(q) \in Nat
      /\ \A i \in 1 .. Len(d) : d[i] = q[i + 1]
  BY HeadTailProperties, EmptySeq
<1>2. x = q[1]
  OBVIOUS
<1> HIDE DEF d, x
<1>3. /\ 1 \in 1 .. Len(q) /\ \A i \in 1 .. Len(d) : i + 1 \in 1 .. Len(q) /\ i + 1 # 1
      /\ \A i \in 1 .. Len(q) : i = 1 \/ (i - 1 \in 1 .. Len(d) /\ (i - 1) + 1 = i)
  BY <1>1
<1>4. Frames(q) = {x} \cup Frames(d)
  <2>1. ASSUME NEW f \in Frames(q) PROVE f \in {x} \cup Frames(d)
    <3>1. PICK i \in 1 .. Len(q) : f = q[i]
      BY DEF Frames
    <3>2. CASE i = 1
      BY <1>2, <3>1, <3>2
    <3>3. CASE i # 1
      <4>1. i - 1 \in 1 .. Len(d) /\ d[i - 1] = q[i]
        BY <1>1, <1>3, <3>3
      <4>2. QED
        BY <3>1, <4>1 DEF Frames
    <3>4. QED
      BY <3>2, <3>3
  <2>2. ASSUME NEW f \in Frames(d) PROVE f \in Frames(q)
    BY <1>1, <1>3 DEF Frames
  <2>3. x \in Frames(q)
    BY <1>2, <1>3 DEF Frames
  <2>4. QED
    BY <2>1, <2>2, <2>3
<1>5. ASSUME Once(q) PROVE Once(d) /\ (x.kind = "Claim" => x \notin Frames(d))
  <2>1. ASSUME NEW i \in 1 .. Len(d), NEW j \in 1 .. Len(d), d[i].kind = "Claim", d[i] = d[j]
        PROVE  i = j
    <3>1. i + 1 = j + 1
      BY <1>1, <1>3, <1>5, <2>1 DEF Once
    <3>2. QED
      BY <3>1
  <2>2. ASSUME x.kind = "Claim", x \in Frames(d) PROVE FALSE
    <3>1. PICK i \in 1 .. Len(d) : x = d[i]
      BY <2>2 DEF Frames
    <3>2. q[1] = q[i + 1] /\ q[1].kind = "Claim"
      BY <1>1, <1>2, <2>2, <3>1
    <3>3. QED
      BY <1>3, <1>5, <3>2 DEF Once
  <2>3. QED
    BY <2>1, <2>2 DEF Once
<1>6. ASSUME NEW t, Ahead(q, t) PROVE x # Ping(t) /\ (x # Abort(t) => Ahead(d, t))
  <2>1. x # Ping(t)
    BY <1>2, <1>3, <1>6 DEF Ahead
  <2>2. ASSUME x # Abort(t), NEW i \in 1 .. Len(d), d[i] = Ping(t)
        PROVE  \E j \in 1 .. i - 1 : d[j] = Abort(t)
    <3>1. PICK j \in 1 .. (i + 1) - 1 : q[j] = Abort(t)
      BY <1>1, <1>3, <1>6, <2>2 DEF Ahead
    <3>2. j # 1
      BY <1>2, <2>2, <3>1
    <3>3. j - 1 \in 1 .. i - 1 /\ j - 1 \in 1 .. Len(d) /\ (j - 1) + 1 = j
      BY <1>1, <3>2
    <3>4. d[j - 1] = Abort(t)
      BY <1>1, <3>1, <3>3
    <3>5. QED
      BY <3>3, <3>4
  <2>3. QED
    BY <2>1, <2>2 DEF Ahead
<1>7. x \in Frames(q)
  BY <1>4
<1>8. QED
  BY <1>1, <1>4, <1>5, <1>6, <1>7 DEF d, x

(* An empty stream.                                                        *)
LEMMA NoFrames == /\ Frames(<<>>) = {} /\ Once(<<>>) /\ \A t : Ahead(<<>>, t)
                  /\ \A S : <<>> \in Seq(S) /\ Len(<<>>) = 0
<1>1. Len(<<>>) = 0 /\ 1 .. 0 = {} /\ \A S : <<>> \in Seq(S)
  OBVIOUS
<1>2. QED
  BY <1>1 DEF Frames, Once, Ahead

(* What the three ways to touch a stream do to it.                         *)
LEMMA Replied ==
  ASSUME TypeOK, NEW w \in Workers, NEW kind \in {"Claim", "Done", "Idle", "Busy"}, NEW t \in Tasks,
         Reply(w, kind, t)
  PROVE  /\ up' \in [Workers -> Seq(UpFrames)]
         /\ Frames(up'[w]) = Frames(up[w]) \cup {[kind |-> kind, task |-> t]}
         /\ Once(up[w]) /\ (kind = "Claim" => Claim(t) \notin Frames(up[w])) => Once(up'[w])
         /\ \A v \in Workers \ {w} : up'[v] = up[v]
<1> DEFINE x == [kind |-> kind, task |-> t]
<1>1. x \in UpFrames /\ x.kind = kind /\ (kind = "Claim" => x = Claim(t))
  BY DEF UpFrames, Claim
<1>2. /\ up \in [Workers -> Seq(UpFrames)]
      /\ up' = [up EXCEPT ![w] = Append(up[w], x)]
  BY DEF TypeOK, Reply
<1> HIDE DEF x
<1>3. up[w] \in Seq(UpFrames) /\ up'[w] = Append(up[w], x)
  BY <1>2
<1>4. /\ Append(up[w], x) \in Seq(UpFrames)
      /\ Frames(Append(up[w], x)) = Frames(up[w]) \cup {x}
      /\ Once(up[w]) /\ (x.kind = "Claim" => x \notin Frames(up[w])) => Once(Append(up[w], x))
  BY <1>1, <1>3, Appended
<1>5. QED
  BY <1>1, <1>2, <1>3, <1>4 DEF x

(* The router's reader takes a frame off a worker's stream.                *)
LEMMA ReadFrame ==
  ASSUME TypeOK, NEW w \in Workers, NEW kind, Read(w, kind)
  PROVE  /\ up' \in [Workers -> Seq(UpFrames)] /\ w \in live
         /\ Head(up[w]).task \in Tasks /\ [kind |-> kind, task |-> Head(up[w]).task] \in Frames(up[w])
         /\ Frames(up'[w]) \subseteq Frames(up[w])
         /\ Once(up[w]) => Once(up'[w]) /\ (kind = "Claim" => Claim(Head(up[w]).task) \notin Frames(up'[w]))
         /\ \A v \in Workers \ {w} : up'[v] = up[v]
<1> DEFINE x == Head(up[w])
<1>1. /\ up \in [Workers -> Seq(UpFrames)] /\ up[w] # <<>> /\ w \in live
      /\ up' = [up EXCEPT ![w] = Tail(up[w])] /\ x.kind = kind
  BY DEF TypeOK, Read
<1>2. up[w] \in Seq(UpFrames) /\ up'[w] = Tail(up[w])
  BY <1>1
<1>3. /\ Tail(up[w]) \in Seq(UpFrames) /\ x \in UpFrames /\ x \in Frames(up[w])
      /\ Frames(up[w]) = {x} \cup Frames(Tail(up[w]))
      /\ Once(up[w]) => Once(Tail(up[w])) /\ (x.kind = "Claim" => x \notin Frames(Tail(up[w])))
  BY <1>1, <1>2, Removed
<1> HIDE DEF x
<1>4. x.task \in Tasks /\ x = [kind |-> kind, task |-> x.task] /\ (kind = "Claim" => x = Claim(x.task))
  BY <1>1, <1>3 DEF UpFrames, Claim
<1>5. QED
  BY <1>1, <1>2, <1>3, <1>4 DEF x

(* The router writes a frame to a worker.                                  *)
LEMMA Written ==
  ASSUME TypeOK, NEW w \in Workers, NEW kind \in {"Abort", "Ping", "Body"}, NEW t \in Tasks,
         Write(w, kind, t)
  PROVE  /\ down' \in [Workers -> Seq(DownFrames)] /\ \A v \in Workers : Len(down'[v]) <= DownCap
         /\ Frames(down'[w]) = Frames(down[w]) \cup {[kind |-> kind, task |-> t]}
         /\ \A u : Ahead(down[w], u) /\ (kind = "Ping" /\ u = t => Abort(u) \in Frames(down[w]))
              => Ahead(down'[w], u)
         /\ \A v \in Workers \ {w} : down'[v] = down[v]
<1> DEFINE x == [kind |-> kind, task |-> t]
<1>1. x \in DownFrames /\ \A u : x = Ping(u) => kind = "Ping" /\ u = t
  BY DEF DownFrames, Ping
<1>2. /\ down \in [Workers -> Seq(DownFrames)] /\ \A v \in Workers : Len(down[v]) <= DownCap
      /\ Len(down[w]) < DownCap /\ DownCap \in Nat
      /\ down' = [down EXCEPT ![w] = Append(down[w], x)]
  BY SweepAssumption DEF TypeOK, Write
<1> HIDE DEF x
<1>3. down[w] \in Seq(DownFrames) /\ down'[w] = Append(down[w], x)
  BY <1>2
<1>4. /\ Append(down[w], x) \in Seq(DownFrames) /\ Len(Append(down[w], x)) = Len(down[w]) + 1
      /\ Frames(Append(down[w], x)) = Frames(down[w]) \cup {x}
      /\ \A u : Ahead(down[w], u) /\ (x = Ping(u) => Abort(u) \in Frames(down[w]))
           => Ahead(Append(down[w], x), u)
  BY <1>1, <1>3, Appended
<1>5. Len(down[w]) \in Nat
  BY <1>3
<1>6. \A v \in Workers : Len(down'[v]) <= DownCap
  BY <1>2, <1>3, <1>4, <1>5
<1>7. \A u : Ahead(down[w], u) /\ (kind = "Ping" /\ u = t => Abort(u) \in Frames(down[w]))
               => Ahead(down'[w], u)
  BY <1>1, <1>3, <1>4
<1>8. QED
  BY <1>2, <1>3, <1>4, <1>6, <1>7 DEF x

(* A worker takes the next frame the router wrote.                         *)
LEMMA Controlled ==
  ASSUME TypeOK, NEW w \in Workers, NEW kind, Control(w, kind)
  PROVE  /\ down' \in [Workers -> Seq(DownFrames)] /\ \A v \in Workers : Len(down'[v]) <= DownCap
         /\ Head(down[w]).task \in Tasks /\ [kind |-> kind, task |-> Head(down[w]).task] \in Frames(down[w])
         /\ Frames(down[w]) = {[kind |-> kind, task |-> Head(down[w]).task]} \cup Frames(down'[w])
         /\ \A u : Ahead(down[w], u) =>
              /\ ~(kind = "Ping" /\ u = Head(down[w]).task)
              /\ ~(kind = "Abort" /\ u = Head(down[w]).task) => Ahead(down'[w], u)
         /\ \A v \in Workers \ {w} : down'[v] = down[v]
<1> DEFINE x == Head(down[w])
<1>1. /\ down \in [Workers -> Seq(DownFrames)] /\ \A v \in Workers : Len(down[v]) <= DownCap
      /\ down[w] # <<>> /\ DownCap \in Nat
      /\ down' = [down EXCEPT ![w] = Tail(down[w])] /\ x.kind = kind
  BY SweepAssumption DEF TypeOK, Control
<1>2. down[w] \in Seq(DownFrames) /\ down'[w] = Tail(down[w])
  BY <1>1
<1>3. /\ Tail(down[w]) \in Seq(DownFrames) /\ x \in DownFrames /\ x \in Frames(down[w])
      /\ Len(Tail(down[w])) = Len(down[w]) - 1
      /\ Frames(down[w]) = {x} \cup Frames(Tail(down[w]))
      /\ \A u : Ahead(down[w], u) => x # Ping(u) /\ (x # Abort(u) => Ahead(Tail(down[w]), u))
  BY <1>1, <1>2, Removed
<1> HIDE DEF x
<1>4. /\ x.task \in Tasks /\ x = [kind |-> kind, task |-> x.task]
      /\ \A u : x = Ping(u) <=> kind = "Ping" /\ u = x.task
      /\ \A u : x = Abort(u) <=> kind = "Abort" /\ u = x.task
  BY <1>1, <1>3 DEF DownFrames, Ping, Abort
<1>5. Len(down[w]) \in Nat
  BY <1>2
<1>6. \A v \in Workers : Len(down'[v]) <= DownCap
  BY <1>1, <1>2, <1>3, <1>5
<1>7. \A u : Ahead(down[w], u) =>
          /\ ~(kind = "Ping" /\ u = x.task)
          /\ ~(kind = "Abort" /\ u = x.task) => Ahead(down'[w], u)
  BY <1>2, <1>3, <1>4
<1>8. QED
  BY <1>1, <1>2, <1>3, <1>4, <1>6, <1>7 DEF x

-----------------------------------------------------------------------------
(* Every step keeps the types.                                             *)

(* What the proofs use of the constants.                                   *)
LEMMA Given ==
  /\ None \notin Workers /\ None \notin Tasks
  /\ Deaf \subseteq Workers /\ Laggards \subseteq Workers /\ Faulty \subseteq Workers
  /\ Blocking \in BOOLEAN /\ DownCap \in Nat /\ DownCap > 0
  /\ None \notin Candidates
BY SweepAssumption DEF Candidates

(* The workers keep the types.                                             *)
LEMMA WorkerTypes ==
  ASSUME TypeOK, NEW w \in Workers, WorkerNext(w)
  PROVE  TypeOK'
<1> USE DEF TypeOK
<1>1. ASSUME NEW t \in Tasks, Start(w, t) PROVE TypeOK'
  <2>1. up' \in [Workers -> Seq(UpFrames)]
    BY <1>1, Replied DEF Start
  <2>2. job' \in [Workers -> SUBSET Tasks] /\ fresh' \subseteq Tasks
    BY <1>1 DEF Start
  <2>3. QED
    BY <1>1, <2>1, <2>2 DEF Start, routerVars
<1>2. ASSUME NEW t \in Tasks, Finish(w, t) PROVE TypeOK'
  <2>1. up' \in [Workers -> Seq(UpFrames)]
    BY <1>2, Replied DEF Finish
  <2>2. job' \in [Workers -> SUBSET Tasks] /\ cancel' \subseteq Workers
    BY <1>2 DEF Finish
  <2>3. QED
    BY <1>2, <2>1, <2>2 DEF Finish, routerVars
<1>3. CASE AnswerPing(w)
  <2>1. /\ down' \in [Workers -> Seq(DownFrames)] /\ \A v \in Workers : Len(down'[v]) <= DownCap
        /\ Head(down[w]).task \in Tasks
    BY <1>3, Controlled DEF AnswerPing
  <2>2. \E kind \in {"Busy", "Idle"} : Reply(w, kind, Head(down[w]).task)
    BY <1>3 DEF AnswerPing
  <2>3. up' \in [Workers -> Seq(UpFrames)]
    BY <2>1, <2>2, Replied
  <2>4. QED
    BY <1>3, <2>1, <2>3 DEF AnswerPing, routerVars, workerVars
<1>4. CASE TakeAbort(w)
  <2>1. /\ down' \in [Workers -> Seq(DownFrames)] /\ \A v \in Workers : Len(down'[v]) <= DownCap
        /\ Head(down[w]).task \in Tasks
    BY <1>4, Controlled DEF TakeAbort
  <2>2. up' = up \/ Reply(w, "Done", Head(down[w]).task)
    BY <1>4 DEF TakeAbort
  <2>3. up' \in [Workers -> Seq(UpFrames)]
    BY <2>1, <2>2, Replied
  <2>4. job' \in [Workers -> SUBSET Tasks] /\ cancel' \subseteq Workers
    BY <1>4 DEF TakeAbort
  <2>5. QED
    BY <1>4, <2>1, <2>3, <2>4 DEF TakeAbort, routerVars
<1>5. CASE TakeBody(w)
  <2>1. down' \in [Workers -> Seq(DownFrames)] /\ \A v \in Workers : Len(down'[v]) <= DownCap
    BY <1>5, Controlled DEF TakeBody
  <2>2. QED
    BY <1>5, <2>1 DEF TakeBody, routerVars, workerVars
<1>6. ASSUME NEW t \in Tasks, ForgePong(w, t) PROVE TypeOK'
  <2>1. up' \in [Workers -> Seq(UpFrames)]
    BY <1>6, Replied DEF ForgePong
  <2>2. QED
    BY <1>6, <2>1 DEF ForgePong, routerVars, workerVars
<1>7. CASE Die(w)
  BY <1>7 DEF Die, routerVars
<1>8. QED
  BY <1>1, <1>2, <1>3, <1>4, <1>5, <1>6, <1>7 DEF WorkerNext

(* The sweep notes an answer.                                              *)
LEMMA PongRead ==
  ASSUME TypeOK, NEW w \in Workers, ReadPong(w)
  PROVE  /\ up' \in [Workers -> Seq(UpFrames)] /\ sweep' \in SweepRecords
         /\ \E kind \in {"Idle", "Busy"} :
              /\ Read(w, kind)
              /\ sweep' = sweep
                 \/ (sweep.probe # None /\ sweep.probe.worker = w /\ sweep' = [sweep EXCEPT !.reply = kind])
<1>1. PICK kind \in {"Idle", "Busy"} :
        /\ Read(w, kind)
        /\ IF sweep.probe = [worker |-> w, task |-> Head(up[w]).task] /\ sweep.reply = "none"
             THEN sweep' = [sweep EXCEPT !.reply = kind]
             ELSE UNCHANGED sweep
  BY DEF ReadPong
<1>2. up' \in [Workers -> Seq(UpFrames)] /\ Head(up[w]).task \in Tasks
  BY <1>1, ReadFrame
<1>3. sweep \in SweepRecords
  BY DEF TypeOK, SweepRecords
<1>4. sweep' \in SweepRecords
  <2>1. sweep' = sweep \/ sweep' = [sweep EXCEPT !.reply = kind]
    BY <1>1
  <2>2. [sweep EXCEPT !.reply = kind] \in SweepRecords
    BY <1>1, <1>3 DEF SweepRecords
  <2>3. QED
    BY <1>3, <2>1, <2>2
<1>5. sweep.probe = [worker |-> w, task |-> Head(up[w]).task] => sweep.probe # None /\ sweep.probe.worker = w
  <2>1. [worker |-> w, task |-> Head(up[w]).task] \in Candidates
    BY <1>2 DEF Candidates
  <2>2. QED
    BY <2>1, Given
<1>6. sweep' = sweep
      \/ (sweep.probe # None /\ sweep.probe.worker = w /\ sweep' = [sweep EXCEPT !.reply = kind])
  BY <1>1, <1>5
<1>7. QED
  BY <1>1, <1>2, <1>4, <1>6

(* The readers keep the types.                                             *)
LEMMA ReaderTypes ==
  ASSUME TypeOK, NEW w \in Workers, ReaderNext(w)
  PROVE  TypeOK'
<1> USE DEF TypeOK
<1>1. CASE ReadClaim(w)
  BY <1>1, ReadFrame DEF ReadClaim, workerVars
<1>2. CASE ReadDone(w)
  BY <1>2, ReadFrame DEF ReadDone, Forget, workerVars
<1>3. CASE ReadPong(w)
  <2>1. up' \in [Workers -> Seq(UpFrames)] /\ sweep' \in SweepRecords
    BY <1>3, PongRead
  <2>2. QED
    BY <1>3, <2>1 DEF ReadPong, routerVars, workerVars, SweepRecords
<1>4. CASE ReadEof(w)
  BY <1>4 DEF ReadEof, Forget, workerVars
<1>5. QED
  BY <1>1, <1>2, <1>3, <1>4 DEF ReaderNext

(* Uploads, the clock and slow clients keep the types.                     *)
LEMMA EnvTypes == ASSUME TypeOK, EnvNext PROVE TypeOK'
<1> USE DEF TypeOK
<1>1. ASSUME NEW t \in Tasks, Expire(t) \/ GraceOver(t) PROVE TypeOK'
  BY <1>1 DEF Expire, GraceOver, workerVars
<1>2. ASSUME NEW w \in Workers, Hold(w) \/ Release(w) PROVE TypeOK'
  BY <1>2 DEF Hold, Release, workerVars
<1>3. ASSUME NEW w \in Workers, NEW t \in Tasks, Upload(w, t) PROVE TypeOK'
  <2>1. down' \in [Workers -> Seq(DownFrames)] /\ \A v \in Workers : Len(down'[v]) <= DownCap
    BY <1>3, Written DEF Upload
  <2>2. QED
    BY <1>3, <2>1 DEF Upload, routerVars, workerVars
<1>4. QED
  BY <1>1, <1>2, <1>3 DEF EnvNext

(* The sweep chooses one of its defiant tasks for every doomed worker.     *)
LEMMA Decided ==
  ASSUME TypeOK, SweepDecide
  PROVE  /\ sweep.pc = "asleep" /\ sweep' \in SweepRecords
         /\ sweep'.pc = "aborting" /\ sweep'.probe = sweep.probe /\ sweep'.reply = sweep.reply
         /\ sent' = sent \cup sweep'.aborts /\ \A t \in sweep'.aborts : pending[t] # None
         /\ \A c \in sweep'.cands : c.worker \in Workers /\ c.task \in Defiant(c.worker)
         /\ UNCHANGED <<pending, late, over, live, killReq, held, down, up, workerVars>>
<1> DEFINE expired == {t \in late \ sent : pending[t] # None}
           doomed == {w \in live \ killReq : Cardinality(Defiant(w)) >= Threshold}
<1>1. /\ sweep.pc = "asleep" /\ sent' = sent \cup expired
      /\ UNCHANGED <<pending, late, over, live, killReq, held, down, up, workerVars>>
      /\ \E sample \in [doomed -> Tasks] :
           /\ \A w \in doomed : sample[w] \in Defiant(w)
           /\ sweep' = [sweep EXCEPT !.pc = "aborting", !.aborts = expired,
                          !.cands = {[worker |-> w, task |-> sample[w]] : w \in doomed}]
  BY DEF SweepDecide
<1>2. sweep \in SweepRecords /\ live \subseteq Workers /\ late \subseteq Tasks
  BY DEF TypeOK, SweepRecords
<1>3. doomed \subseteq Workers /\ expired \subseteq Tasks /\ \A t \in expired : pending[t] # None
  BY <1>2
<1> HIDE DEF doomed, expired
<1>4. PICK sample \in [doomed -> Tasks] :
           /\ \A w \in doomed : sample[w] \in Defiant(w)
           /\ sweep' = [sweep EXCEPT !.pc = "aborting", !.aborts = expired,
                          !.cands = {[worker |-> w, task |-> sample[w]] : w \in doomed}]
  BY <1>1
<1> DEFINE C == {[worker |-> w, task |-> sample[w]] : w \in doomed}
<1>5. \A w \in doomed : [worker |-> w, task |-> sample[w]] \in Candidates
  BY <1>3 DEF Candidates
<1>6. C \subseteq Candidates /\ \A c \in C : c.worker \in Workers /\ c.task \in Defiant(c.worker)
  BY <1>3, <1>4, <1>5
<1> HIDE DEF C
<1>7. sweep' = [sweep EXCEPT !.pc = "aborting", !.aborts = expired, !.cands = C]
  BY <1>4 DEF C
<1>8. /\ sweep'.pc = "aborting" /\ sweep'.aborts = expired /\ sweep'.cands = C
      /\ sweep'.probe = sweep.probe /\ sweep'.reply = sweep.reply
  BY <1>2, <1>7 DEF SweepRecords
<1>9. sweep' \in SweepRecords
  BY <1>2, <1>3, <1>6, <1>7 DEF SweepRecords, SweepPcs
<1>10. QED
  BY <1>1, <1>3, <1>6, <1>8, <1>9

(* The other steps of the sweep, field by field.                           *)
LEMMA SweepFields ==
  ASSUME TypeOK
  PROVE  /\ \A t \in Tasks : SendAbort(t) =>
              /\ sweep' \in SweepRecords /\ sweep'.aborts = sweep.aborts \ {t}
              /\ sweep.pc = "aborting" /\ sweep'.pc = sweep.pc /\ sweep'.cands = sweep.cands
              /\ sweep'.probe = sweep.probe /\ sweep'.reply = sweep.reply
         /\ NextProbe =>
              /\ sweep' \in SweepRecords /\ sweep'.aborts = sweep.aborts
              /\ sweep.pc = "aborting" => sweep.aborts = {}
              /\ sweep.pc = "probing" => sweep.probe = None
              /\ sweep.pc \in {"aborting", "probing"} /\ sweep'.pc \in {"asleep", "probing"}
              /\ sweep'.cands \subseteq sweep.cands
              /\ sweep'.pc = "asleep" =>
                   sweep'.probe = sweep.probe /\ sweep'.cands = {} /\ sweep'.reply = sweep.reply
              /\ sweep'.pc = "probing" =>
                   sweep'.reply = "none" /\ sweep'.probe \in sweep.cands \cup {None}
         /\ SendPing =>
              /\ sweep' \in SweepRecords /\ sweep'.aborts = sweep.aborts
              /\ sweep.pc = "probing" /\ sweep.probe # None
              /\ sweep'.pc = (IF sweep.probe.worker \in alive THEN "waiting" ELSE "killing")
              /\ sweep'.cands = sweep.cands
              /\ sweep'.probe = sweep.probe /\ sweep'.reply = sweep.reply
         /\ ProbeEnds =>
              /\ sweep' \in SweepRecords /\ sweep'.aborts = sweep.aborts
              /\ sweep.pc = "waiting" /\ sweep'.cands = sweep.cands /\ sweep'.reply = sweep.reply
              /\ \/ sweep'.pc = "probing" /\ sweep'.probe = None
                 \/ sweep'.pc = "killing" /\ sweep'.probe = sweep.probe /\ sweep.reply # "Idle"
         /\ Kill =>
              /\ sweep' \in SweepRecords /\ sweep'.aborts = sweep.aborts
              /\ sweep.pc = "killing" /\ sweep'.pc = "probing" /\ sweep'.cands = sweep.cands
              /\ sweep'.probe = None /\ sweep'.reply = sweep.reply
<1>0. sweep \in SweepRecords
  BY DEF TypeOK, SweepRecords
<1> USE DEF SweepRecords, SweepPcs
<1>1. ASSUME NEW t \in Tasks, SendAbort(t)
      PROVE   /\ sweep' \in SweepRecords /\ sweep'.aborts = sweep.aborts \ {t}
              /\ sweep.pc = "aborting" /\ sweep'.pc = sweep.pc /\ sweep'.cands = sweep.cands
              /\ sweep'.probe = sweep.probe /\ sweep'.reply = sweep.reply
  BY <1>0, <1>1 DEF SendAbort
<1>2. ASSUME NextProbe
      PROVE   /\ sweep' \in SweepRecords /\ sweep'.aborts = sweep.aborts
              /\ sweep.pc = "aborting" => sweep.aborts = {}
              /\ sweep.pc = "probing" => sweep.probe = None
              /\ sweep.pc \in {"aborting", "probing"} /\ sweep'.pc \in {"asleep", "probing"}
              /\ sweep'.cands \subseteq sweep.cands
              /\ sweep'.pc = "asleep" =>
                   sweep'.probe = sweep.probe /\ sweep'.cands = {} /\ sweep'.reply = sweep.reply
              /\ sweep'.pc = "probing" =>
                   sweep'.reply = "none" /\ sweep'.probe \in sweep.cands \cup {None}
  <2>1. /\ sweep.pc = "aborting" => sweep.aborts = {}
        /\ sweep.pc = "probing" => sweep.probe = None
        /\ sweep.pc \in {"aborting", "probing"}
    BY <1>2 DEF NextProbe
  <2>2. CASE sweep.cands = {} /\ sweep' = [sweep EXCEPT !.pc = "asleep"]
    BY <1>0, <2>1, <2>2
  <2>3. ASSUME NEW c \in sweep.cands,
               sweep' = [sweep EXCEPT !.pc = "probing", !.cands = @ \ {c}, !.reply = "none",
                           !.probe = IF c.worker \in live THEN c ELSE None]
        PROVE  /\ sweep' \in SweepRecords /\ sweep'.aborts = sweep.aborts
               /\ sweep'.pc = "probing" /\ sweep'.cands \subseteq sweep.cands
               /\ sweep'.reply = "none" /\ sweep'.probe \in sweep.cands \cup {None}
    <3>1. c \in Candidates
      BY <1>0
    <3>2. QED
      BY <1>0, <2>3, <3>1
  <2>4. QED
    BY <1>2, <2>1, <2>2, <2>3 DEF NextProbe
<1>3. ASSUME SendPing
      PROVE   /\ sweep' \in SweepRecords /\ sweep'.aborts = sweep.aborts
              /\ sweep.pc = "probing" /\ sweep.probe # None
              /\ sweep'.pc = (IF sweep.probe.worker \in alive THEN "waiting" ELSE "killing")
              /\ sweep'.cands = sweep.cands
              /\ sweep'.probe = sweep.probe /\ sweep'.reply = sweep.reply
  BY <1>0, <1>3 DEF SendPing
<1>4. ASSUME ProbeEnds
      PROVE   /\ sweep' \in SweepRecords /\ sweep'.aborts = sweep.aborts
              /\ sweep.pc = "waiting" /\ sweep'.cands = sweep.cands /\ sweep'.reply = sweep.reply
              /\ \/ sweep'.pc = "probing" /\ sweep'.probe = None
                 \/ sweep'.pc = "killing" /\ sweep'.probe = sweep.probe /\ sweep.reply # "Idle"
  BY <1>0, <1>4 DEF ProbeEnds
<1>5. ASSUME Kill
      PROVE   /\ sweep' \in SweepRecords /\ sweep'.aborts = sweep.aborts
              /\ sweep.pc = "killing" /\ sweep'.pc = "probing" /\ sweep'.cands = sweep.cands
              /\ sweep'.probe = None /\ sweep'.reply = sweep.reply
  BY <1>0, <1>5 DEF Kill
<1> HIDE DEF SweepRecords, SweepPcs
<1>6. QED
  BY <1>1, <1>2, <1>3, <1>4, <1>5

(* The sweep keeps the types.                                              *)
LEMMA SweepTypes == ASSUME TypeOK, Living, Sweeping, SweepNext PROVE TypeOK'
<1> USE DEF TypeOK
<1>1. CASE SweepDecide
  <2>1. sweep' \in SweepRecords /\ sent' = sent \cup sweep'.aborts
        /\ UNCHANGED <<pending, late, over, live, killReq, held, down, up, workerVars>>
    BY <1>1, Decided
  <2>2. QED
    BY <2>1 DEF SweepRecords, workerVars
<1>2. ASSUME NEW t \in Tasks, SendAbort(t) PROVE TypeOK'
  <2>1. sweep' \in SweepRecords
    BY <1>2, SweepFields
  <2>2. down' \in [Workers -> Seq(DownFrames)] /\ \A v \in Workers : Len(down'[v]) <= DownCap
    <3>1. down' = down \/ (pending[t] \in Workers /\ Write(pending[t], "Abort", t))
      BY <1>2 DEF SendAbort
    <3>2. QED
      BY <3>1, Written
  <2>3. QED
    BY <1>2, <2>1, <2>2 DEF SendAbort, routerVars, workerVars, SweepRecords
<1>3. CASE NextProbe \/ ProbeEnds
  <2>1. sweep' \in SweepRecords
    BY <1>3, SweepFields
  <2>2. QED
    BY <1>3, <2>1 DEF NextProbe, ProbeEnds, routerVars, workerVars, SweepRecords
<1>4. CASE SendPing
  <2>1. sweep' \in SweepRecords /\ sweep.probe # None
    BY <1>4, SweepFields
  <2>2. sweep.probe \in Candidates
    BY <2>1
  <2>3. sweep.probe.worker \in Workers /\ sweep.probe.task \in Tasks
    BY <2>2 DEF Candidates
  <2>4. down' \in [Workers -> Seq(DownFrames)] /\ \A v \in Workers : Len(down'[v]) <= DownCap
    <3>1. down' = down \/ Write(sweep.probe.worker, "Ping", sweep.probe.task)
      BY <1>4 DEF SendPing
    <3>2. QED
      BY <2>3, <3>1, Written
  <2>5. QED
    BY <1>4, <2>1, <2>4 DEF SendPing, routerVars, workerVars, SweepRecords
<1>5. CASE Kill
  <2>1. sweep' \in SweepRecords
    BY <1>5, SweepFields
  <2>2. killReq' \subseteq Workers
    BY <1>5 DEF Kill
  <2>3. QED
    BY <1>5, <2>1, <2>2 DEF Kill, workerVars, SweepRecords
<1>6. QED
  BY <1>1, <1>2, <1>3, <1>4, <1>5 DEF SweepNext

(* Every step keeps the types.                                             *)
LEMMA TypesStep == TypeOK /\ Living /\ Sweeping /\ [Next]_vars => TypeOK'
<1> SUFFICES ASSUME TypeOK, Living, Sweeping, [Next]_vars PROVE TypeOK'
  OBVIOUS
<1>1. CASE UNCHANGED vars
  BY <1>1 DEF TypeOK, vars, routerVars, workerVars
<1>2. QED
  BY <1>1, SweepTypes, EnvTypes, ReaderTypes, WorkerTypes DEF Next

-----------------------------------------------------------------------------
(* Every step keeps who lives and who claimed.                             *)

(* Tasks that leave the table leave what the sweep noted of them.          *)
LEMMA Forgotten ==
  ASSUME NEW T, Forget(T)
  PROVE  /\ \A t \in Tasks : t \in T => pending'[t] = None
         /\ \A t \in Tasks : t \notin T => pending'[t] = pending[t]
         /\ sent' = sent \ T
BY DEF Forget

(* A worker dies of a kill.                                                *)
LEMMA LivingStep == TypeOK /\ Living /\ [Next]_vars => Living'
<1> SUFFICES ASSUME TypeOK, Living, [Next]_vars PROVE Living'
  OBVIOUS
<1>0. /\ job \in [Workers -> SUBSET Tasks] /\ alive \subseteq Workers /\ sent \subseteq Tasks
      /\ pending \in [Tasks -> Workers \cup {None}] /\ None \notin Workers
  BY Given DEF TypeOK
<1>1. ASSUME UNCHANGED <<alive, live, held>>, killReq \subseteq killReq',
             \A w \in Workers \ alive : job'[w] = {},
             \A t \in sent' : pending'[t] # None
      PROVE  Living'
  BY <1>1 DEF Living
<1>2. ASSUME NEW w \in Workers, WorkerNext(w) PROVE Living'
  <2>1. ASSUME NEW t \in Tasks, Start(w, t) \/ Finish(w, t) PROVE Living'
    <3>1. w \in alive /\ \A v \in Workers \ {w} : job'[v] = job[v]
      BY <1>0, <2>1 DEF Start, Finish, Listens
    <3>2. UNCHANGED <<alive, live, held, killReq, sent, pending>>
      BY <2>1 DEF Start, Finish, routerVars
    <3>3. QED
      BY <1>1, <3>1, <3>2 DEF Living
  <2>2. CASE TakeAbort(w)
    <3>1. w \in alive /\ \A v \in Workers \ {w} : job'[v] = job[v]
      BY <1>0, <2>2 DEF TakeAbort, Control, Listens
    <3>2. UNCHANGED <<alive, live, held, killReq, sent, pending>>
      BY <2>2 DEF TakeAbort, routerVars
    <3>3. QED
      BY <1>1, <3>1, <3>2 DEF Living
  <2>3. CASE AnswerPing(w) \/ TakeBody(w) \/ \E t \in Tasks : ForgePong(w, t)
    BY <1>1, <2>3 DEF AnswerPing, TakeBody, ForgePong, routerVars, workerVars, Living
  <2>4. CASE Die(w)
    <3>1. /\ w \in killReq /\ alive' = alive \ {w} /\ job'[w] = {}
          /\ \A v \in Workers \ {w} : job'[v] = job[v]
          /\ UNCHANGED <<live, held, killReq, sent, pending>>
      BY <1>0, <2>4 DEF Die, routerVars
    <3>2. \A v \in Workers \ alive' : job'[v] = {}
      BY <3>1 DEF Living
    <3>3. QED
      BY <3>1, <3>2 DEF Living
  <2>5. QED
    BY <1>2, <2>1, <2>2, <2>3, <2>4 DEF WorkerNext
<1>3. ASSUME NEW w \in Workers, ReaderNext(w) PROVE Living'
  <2>1. CASE ReadClaim(w)
    <3>1. Head(up[w]).task \in Tasks
      BY <2>1, ReadFrame DEF ReadClaim
    <3>2. \A t \in Tasks : pending'[t] = pending[t] \/ pending'[t] # None
      BY <1>0, <2>1, <3>1 DEF ReadClaim
    <3>3. UNCHANGED <<alive, live, held, killReq, sent, job>>
      BY <2>1 DEF ReadClaim, workerVars
    <3>4. QED
      BY <1>0, <1>1, <3>2, <3>3 DEF Living
  <2>2. CASE ReadDone(w)
    <3>1. /\ \A t \in sent' : t \in sent /\ pending'[t] = pending[t]
          /\ UNCHANGED <<alive, live, held, killReq, job>>
      BY <1>0, <2>2, Forgotten DEF ReadDone, workerVars
    <3>2. QED
      BY <1>0, <1>1, <3>1 DEF Living
  <2>3. CASE ReadPong(w)
    BY <1>1, <2>3 DEF ReadPong, routerVars, workerVars, Living
  <2>4. CASE ReadEof(w)
    <3>1. /\ w \notin alive /\ live' = live \ {w} /\ UNCHANGED <<alive, held, killReq, job>>
          /\ \A t \in sent' : t \in sent /\ pending'[t] = pending[t]
      BY <1>0, <2>4, Forgotten DEF ReadEof, workerVars
    <3>2. QED
      BY <1>0, <3>1 DEF Living
  <2>5. QED
    BY <1>3, <2>1, <2>2, <2>3, <2>4 DEF ReaderNext
<1>4. CASE EnvNext
  <2>1. ASSUME NEW w \in Workers, Hold(w) \/ Release(w) PROVE Living'
    BY <2>1 DEF Hold, Release, workerVars, Living
  <2>2. ASSUME NEW t \in Tasks, Expire(t) \/ GraceOver(t) \/ \E w \in Workers : Upload(w, t) PROVE Living'
    BY <1>1, <2>2 DEF Expire, GraceOver, Upload, routerVars, workerVars, Living
  <2>3. QED
    BY <1>4, <2>1, <2>2 DEF EnvNext
<1>5. CASE SweepNext
  <2>1. CASE SweepDecide
    <3>1. /\ sent' = sent \cup sweep'.aborts /\ \A t \in sweep'.aborts : pending[t] # None
          /\ UNCHANGED <<pending, alive, live, held, killReq, job>>
      BY <2>1, Decided DEF workerVars
    <3>2. QED
      BY <1>1, <3>1 DEF Living
  <2>2. ASSUME NEW t \in Tasks, SendAbort(t) PROVE Living'
    BY <1>1, <2>2 DEF SendAbort, routerVars, workerVars, Living
  <2>3. CASE Kill
    BY <1>1, <2>3 DEF Kill, workerVars, Living
  <2>4. CASE NextProbe \/ SendPing \/ ProbeEnds
    BY <1>1, <2>4 DEF NextProbe, SendPing, ProbeEnds, routerVars, workerVars, Living
  <2>5. QED
    BY <1>5, <2>1, <2>2, <2>3, <2>4 DEF SweepNext
<1>6. CASE UNCHANGED vars
  BY <1>6 DEF vars, routerVars, workerVars, Living
<1>7. QED
  BY <1>2, <1>3, <1>4, <1>5, <1>6 DEF Next

(* A step in which no claim is written or read.                            *)
LEMMA ClaimsKept ==
  ASSUME Claiming, fresh' = fresh,
         \A t \in Tasks : pending'[t] \in {pending[t], None},
         \A v \in Workers : Once(up'[v]),
         \A v \in Workers, t \in Tasks : Claim(t) \in Frames(up'[v]) => Claim(t) \in Frames(up[v])
  PROVE  Claiming'
<1>1. \A t \in Tasks : pending'[t] # None => t \notin fresh'
  BY DEF Claiming
<1>2. \A v \in Workers, t \in Tasks : Claim(t) \in Frames(up'[v]) =>
        /\ t \notin fresh' /\ pending'[t] = None
        /\ \A u \in Workers \ {v} : Claim(t) \notin Frames(up'[u])
  BY DEF Claiming
<1>3. QED
  BY <1>1, <1>2 DEF Claiming

(* Any other frame may be written.                                         *)
LEMMA ClaimsReplied ==
  ASSUME TypeOK, Claiming, UNCHANGED <<fresh, pending>>, NEW w \in Workers, NEW t \in Tasks,
         NEW kind \in {"Done", "Idle", "Busy"}, Reply(w, kind, t)
  PROVE  Claiming'
<1>1. /\ Frames(up'[w]) = Frames(up[w]) \cup {[kind |-> kind, task |-> t]}
      /\ Once(up[w]) => Once(up'[w])
      /\ \A v \in Workers \ {w} : up'[v] = up[v]
  BY Replied
<1>2. \A u : Claim(u) # [kind |-> kind, task |-> t]
  BY DEF Claim
<1>3. \A v \in Workers : Once(up'[v])
  BY <1>1 DEF Claiming
<1>4. \A v \in Workers, u \in Tasks : Claim(u) \in Frames(up'[v]) => Claim(u) \in Frames(up[v])
  BY <1>1, <1>2
<1>5. QED
  BY <1>3, <1>4, ClaimsKept

(* A claim is written once, by the worker that received the task.          *)
LEMMA ClaimingStep == TypeOK /\ Claiming /\ [Next]_vars => Claiming'
<1> SUFFICES ASSUME TypeOK, Claiming, [Next]_vars PROVE Claiming'
  OBVIOUS
<1>0. pending \in [Tasks -> Workers \cup {None}] /\ None \notin Workers /\ fresh \subseteq Tasks
  BY Given DEF TypeOK
<1>1. ASSUME UNCHANGED <<fresh, pending, up>> PROVE Claiming'
  BY <1>1, ClaimsKept DEF Claiming
<1>2. ASSUME NEW w \in Workers, WorkerNext(w) PROVE Claiming'
  <2>1. ASSUME NEW t \in Tasks, Start(w, t) PROVE Claiming'
    <3>1. /\ t \in fresh /\ fresh' = fresh \ {t} /\ pending' = pending
          /\ Reply(w, "Claim", t)
      BY <2>1 DEF Start, routerVars
    <3>2. \A v \in Workers : Claim(t) \notin Frames(up[v])
      BY <3>1 DEF Claiming
    <3>3. /\ Frames(up'[w]) = Frames(up[w]) \cup {Claim(t)} /\ Once(up'[w])
          /\ \A v \in Workers \ {w} : up'[v] = up[v]
      <4>1. Once(up[w])
        BY DEF Claiming
      <4>2. QED
        BY <3>1, <3>2, <4>1, Replied DEF Claim
    <3>4. \A v \in Workers : Once(up'[v])
      BY <3>3 DEF Claiming
    <3>5. \A u : Claim(u) = Claim(t) => u = t
      BY DEF Claim
    <3>6. pending[t] = None
      BY <3>1 DEF Claiming
    <3>7. ASSUME NEW v \in Workers, NEW u \in Tasks, Claim(u) \in Frames(up'[v])
          PROVE  /\ u \notin fresh' /\ pending'[u] = None
                 /\ \A x \in Workers \ {v} : Claim(u) \notin Frames(up'[x])
      <4>1. CASE u = t
        <5>1. v = w
          BY <3>2, <3>3, <3>7, <4>1
        <5>2. QED
          BY <3>1, <3>2, <3>3, <3>6, <4>1, <5>1
      <4>2. CASE u # t
        <5>1. \A x \in Workers : Claim(u) \in Frames(up'[x]) => Claim(u) \in Frames(up[x])
          BY <3>3, <3>5, <4>2
        <5>2. QED
          BY <3>1, <3>7, <5>1 DEF Claiming
      <4>3. QED
        BY <4>1, <4>2
    <3>8. \A u \in Tasks : pending'[u] # None => u \notin fresh'
      BY <3>1 DEF Claiming
    <3>9. QED
      BY <3>4, <3>7, <3>8 DEF Claiming
  <2>2. ASSUME NEW t \in Tasks, Finish(w, t) PROVE Claiming'
    BY <2>2, ClaimsReplied DEF Finish, routerVars
  <2>3. ASSUME NEW t \in Tasks, ForgePong(w, t) PROVE Claiming'
    BY <2>3, ClaimsReplied DEF ForgePong, routerVars, workerVars
  <2>4. CASE AnswerPing(w)
    <3>1. Head(down[w]).task \in Tasks /\ UNCHANGED <<fresh, pending>>
      BY <2>4, Controlled DEF AnswerPing, routerVars, workerVars
    <3>2. \E kind \in {"Busy", "Idle"} : Reply(w, kind, Head(down[w]).task)
      BY <2>4 DEF AnswerPing
    <3>3. QED
      BY <3>1, <3>2, ClaimsReplied
  <2>5. CASE TakeAbort(w)
    <3>1. Head(down[w]).task \in Tasks /\ UNCHANGED <<fresh, pending>>
      BY <2>5, Controlled DEF TakeAbort, routerVars
    <3>2. up' = up \/ Reply(w, "Done", Head(down[w]).task)
      BY <2>5 DEF TakeAbort
    <3>3. QED
      BY <1>1, <3>1, <3>2, ClaimsReplied
  <2>6. CASE TakeBody(w) \/ Die(w)
    BY <1>1, <2>6 DEF TakeBody, Die, routerVars, workerVars
  <2>7. QED
    BY <1>2, <2>1, <2>2, <2>3, <2>4, <2>5, <2>6 DEF WorkerNext
<1>3. ASSUME NEW w \in Workers, NEW kind, Read(w, kind)
      PROVE  /\ \A v \in Workers : Once(up'[v]) /\ Frames(up'[v]) \subseteq Frames(up[v])
             /\ Head(up[w]).task \in Tasks
             /\ kind = "Claim" => Claim(Head(up[w]).task) \in Frames(up[w]) \ Frames(up'[w])
  <2>1. /\ Head(up[w]).task \in Tasks /\ [kind |-> kind, task |-> Head(up[w]).task] \in Frames(up[w])
        /\ Frames(up'[w]) \subseteq Frames(up[w])
        /\ Once(up[w]) => Once(up'[w]) /\ (kind = "Claim" => Claim(Head(up[w]).task) \notin Frames(up'[w]))
        /\ \A v \in Workers \ {w} : up'[v] = up[v]
    BY <1>3, ReadFrame
  <2>2. kind = "Claim" => Claim(Head(up[w]).task) \in Frames(up[w])
    BY <2>1 DEF Claim
  <2>3. \A v \in Workers : Once(up[v])
    BY DEF Claiming
  <2>4. QED
    BY <2>1, <2>2, <2>3
<1>4. ASSUME NEW w \in Workers, ReadClaim(w) PROVE Claiming'
  <2> DEFINE t == Head(up[w]).task
  <2>1. /\ t \in Tasks /\ Claim(t) \in Frames(up[w]) /\ Claim(t) \notin Frames(up'[w])
        /\ \A v \in Workers : Once(up'[v]) /\ Frames(up'[v]) \subseteq Frames(up[v])
    BY <1>3, <1>4 DEF ReadClaim
  <2>2. fresh' = fresh /\ pending' = [pending EXCEPT ![t] = w]
    BY <1>4 DEF ReadClaim, workerVars
  <2> HIDE DEF t
  <2>3. t \notin fresh /\ \A v \in Workers \ {w} : Claim(t) \notin Frames(up[v])
    BY <2>1 DEF Claiming
  <2>4. \A u \in Tasks : u # t => pending'[u] = pending[u]
    BY <1>0, <2>2
  <2>5. \A u \in Tasks : pending'[u] # None => u \notin fresh'
    BY <2>2, <2>3, <2>4 DEF Claiming
  <2>6. ASSUME NEW v \in Workers, NEW u \in Tasks, Claim(u) \in Frames(up'[v])
        PROVE  /\ u \notin fresh' /\ pending'[u] = None
               /\ \A x \in Workers \ {v} : Claim(u) \notin Frames(up'[x])
    <3>1. u # t /\ Claim(u) \in Frames(up[v])
      BY <2>1, <2>3, <2>6
    <3>2. QED
      BY <2>1, <2>2, <2>4, <3>1 DEF Claiming
  <2>7. QED
    BY <2>1, <2>5, <2>6 DEF Claiming
<1>5. ASSUME NEW w \in Workers, ReadDone(w) PROVE Claiming'
  <2>1. /\ \A t \in Tasks : pending'[t] \in {pending[t], None}
        /\ fresh' = fresh /\ Read(w, "Done")
    BY <1>5 DEF ReadDone, Forget, workerVars
  <2>2. QED
    BY <1>3, <2>1, ClaimsKept
<1>6. ASSUME NEW w \in Workers, ReadPong(w) PROVE Claiming'
  <2>1. PICK kind : Read(w, kind)
    BY <1>6 DEF ReadPong
  <2>2. UNCHANGED <<fresh, pending>>
    BY <1>6 DEF ReadPong, routerVars, workerVars
  <2>3. QED
    BY <1>3, <2>1, <2>2, ClaimsKept
<1>7. ASSUME NEW w \in Workers, ReadEof(w) PROVE Claiming'
  <2>1. /\ \A t \in Tasks : pending'[t] \in {pending[t], None}
        /\ UNCHANGED <<fresh, up>>
    BY <1>7 DEF ReadEof, Forget, workerVars
  <2>2. QED
    BY <2>1, ClaimsKept DEF Claiming
<1>8. CASE SweepNext \/ EnvNext
  BY <1>1, <1>8 DEF SweepNext, SweepDecide, SendAbort, NextProbe, SendPing, ProbeEnds, Kill,
                    EnvNext, Expire, GraceOver, Hold, Release, Upload, routerVars, workerVars
<1>9. CASE UNCHANGED vars
  BY <1>1, <1>9 DEF vars, routerVars, workerVars
<1>10. QED
  BY <1>2, <1>4, <1>5, <1>6, <1>7, <1>8, <1>9 DEF Next, ReaderNext

-----------------------------------------------------------------------------
(* Every step keeps the order of the sweep and the silence of the deaf.    *)

(* The sweep goes through its steps in order.                              *)
LEMMA SweepingStep == TypeOK /\ Sweeping /\ [Next]_vars => Sweeping'
<1> SUFFICES ASSUME TypeOK, Sweeping, [Next]_vars PROVE Sweeping'
  OBVIOUS
<1>0. sweep \in SweepRecords
  BY DEF TypeOK, SweepRecords
<1>1. CASE UNCHANGED sweep
  BY <1>1 DEF Sweeping
<1>2. CASE SweepNext
  <2>1. CASE SweepDecide
    BY <2>1, Decided DEF Sweeping
  <2>2. ASSUME NEW t \in Tasks, SendAbort(t) PROVE Sweeping'
    BY <2>2, SweepFields DEF Sweeping
  <2>3. CASE NextProbe
    BY <2>3, SweepFields DEF Sweeping
  <2>4. CASE SendPing
    BY <2>4, SweepFields DEF Sweeping
  <2>5. CASE ProbeEnds
    BY <2>5, SweepFields DEF Sweeping
  <2>6. CASE Kill
    BY <2>6, SweepFields DEF Sweeping
  <2>7. QED
    BY <1>2, <2>1, <2>2, <2>3, <2>4, <2>5, <2>6 DEF SweepNext
<1>3. ASSUME NEW w \in Workers, ReadPong(w) PROVE Sweeping'
  <2>1. PICK kind : \/ sweep' = sweep
                    \/ sweep.probe # None /\ sweep' = [sweep EXCEPT !.reply = kind]
    BY <1>3, PongRead
  <2>2. /\ sweep'.pc = sweep.pc /\ sweep'.aborts = sweep.aborts /\ sweep'.cands = sweep.cands
        /\ sweep'.probe = sweep.probe
    BY <1>0, <2>1 DEF SweepRecords
  <2>3. QED
    BY <2>2 DEF Sweeping
<1>4. CASE EnvNext
  BY <1>1, <1>4 DEF EnvNext, Expire, GraceOver, Hold, Release, Upload
<1>5. ASSUME NEW w \in Workers, ReadClaim(w) \/ ReadDone(w) \/ ReadEof(w) PROVE Sweeping'
  BY <1>1, <1>5 DEF ReadClaim, ReadDone, ReadEof
<1>6. ASSUME NEW w \in Workers, WorkerNext(w) PROVE Sweeping'
  BY <1>1, <1>6 DEF WorkerNext, Start, Finish, AnswerPing, TakeAbort, TakeBody, ForgePong, Die
<1>7. CASE UNCHANGED vars
  BY <1>1, <1>7 DEF vars
<1>8. QED
  BY <1>2, <1>3, <1>4, <1>5, <1>6, <1>7 DEF Next, ReaderNext

\* What Silence says of one worker.
Silent(w) ==
  /\ \A f \in Frames(up[w]) : f.kind = "Claim"
  /\ sweep.probe # None /\ sweep.probe.worker = w => sweep.reply = "none"
  /\ w \in alive /\ job[w] = {} => up[w] = <<>> /\ ~Asked(w)

(* A step that asks about nobody new, and hears nothing new.               *)
LEMMA SilenceKept ==
  ASSUME NEW w \in Workers, Silent(w),
         w \in alive' => w \in alive,
         w \in alive' /\ job'[w] = {} => job[w] = {},
         \A t \in Tasks : pending'[t] = w => pending[t] = w \/ up[w] # <<>>,
         \A t \in Tasks : Ping(t) \in Frames(down'[w]) => Ping(t) \in Frames(down[w]) \/ Asked(w),
         \A c \in sweep'.cands : c.worker = w => Asked(w),
         sweep'.probe # None /\ sweep'.probe.worker = w =>
           Asked(w) /\ (sweep'.reply = "none" \/ (sweep'.reply = sweep.reply /\ sweep'.probe = sweep.probe)),
         up'[w] = up[w] \/ (up[w] # <<>> /\ Frames(up'[w]) \subseteq Frames(up[w]))
  PROVE  Silent(w)'
<1>1. \A f \in Frames(up'[w]) : f.kind = "Claim"
  BY DEF Silent
<1>2. sweep'.probe # None /\ sweep'.probe.worker = w => sweep'.reply = "none"
  BY DEF Silent
<1>3. ASSUME w \in alive', job'[w] = {} PROVE up'[w] = <<>> /\ ~Asked(w)'
  <2>1. up[w] = <<>> /\ ~Asked(w)
    BY <1>3 DEF Silent
  <2>2. \A t \in Tasks : pending[t] # w /\ Ping(t) \notin Frames(down[w])
    BY <2>1 DEF Asked
  <2>3. \A t \in Tasks : pending'[t] # w /\ Ping(t) \notin Frames(down'[w])
    BY <2>1, <2>2
  <2>4. /\ \A c \in sweep'.cands : c.worker # w
        /\ ~(sweep'.probe # None /\ sweep'.probe.worker = w)
    BY <2>1
  <2>5. up'[w] = <<>>
    BY <2>1
  <2>6. QED
    BY <2>3, <2>4, <2>5 DEF Asked
<1>4. QED
  BY <1>1, <1>2, <1>3 DEF Silent

(* A worker that reads nothing answers nothing.                            *)
LEMMA SilentWorkers ==
  ASSUME TypeOK, NEW w \in Deaf \ Faulty, Silent(w), NEW v \in Workers, WorkerNext(v)
  PROVE  Silent(w)'
<1>0. /\ w \in Workers /\ job \in [Workers -> SUBSET Tasks] /\ alive \subseteq Workers
      /\ up \in [Workers -> Seq(UpFrames)] /\ down \in [Workers -> Seq(DownFrames)]
  BY Given DEF TypeOK
<1>1. ASSUME UNCHANGED <<pending, sweep>>, alive' \subseteq alive, UNCHANGED up[w],
             w \in alive' /\ job'[w] = {} => job[w] = {},
             \A t \in Tasks : Ping(t) \in Frames(down'[w]) => Ping(t) \in Frames(down[w])
      PROVE  Silent(w)'
  <2>1. sweep.probe # None /\ sweep.probe.worker = w => Asked(w)
    BY DEF Asked
  <2>2. \A c \in sweep.cands : c.worker = w => Asked(w)
    BY DEF Asked
  <2>3. QED
    BY <1>0, <1>1, <2>1, <2>2, SilenceKept
<1>2. Listens(w) => w \in alive /\ job[w] = {}
  BY DEF Listens
<1>3. ASSUME NEW t \in Tasks, Start(v, t) PROVE Silent(w)'
  <2>1. CASE v # w
    <3>1. UNCHANGED <<pending, sweep, alive, up[w], job[w], down>>
      BY <1>0, <1>3, <2>1 DEF Start, Reply, routerVars
    <3>2. QED
      BY <1>1, <3>1
  <2>2. CASE v = w
    <3>1. /\ UNCHANGED sweep /\ job'[w] # {}
          /\ Frames(up'[w]) = Frames(up[w]) \cup {Claim(t)}
      BY <1>0, <1>3, <2>2, Replied DEF Start, Claim
    <3>2. \A f \in Frames(up'[w]) : f.kind = "Claim"
      BY <3>1 DEF Silent, Claim
    <3>3. QED
      BY <3>1, <3>2 DEF Silent
  <2>3. QED
    BY <2>1, <2>2
<1>4. ASSUME NEW t \in Tasks, Finish(v, t) PROVE Silent(w)'
  <2>1. v # w
    BY <1>2, <1>4 DEF Finish
  <2>2. UNCHANGED <<pending, sweep, alive, up[w], job[w], down>>
    BY <1>0, <1>4, <2>1 DEF Finish, Reply, routerVars
  <2>3. QED
    BY <1>1, <2>2
<1>5. ASSUME NEW t \in Tasks, ForgePong(v, t) PROVE Silent(w)'
  <2>1. v # w
    BY <1>5 DEF ForgePong
  <2>2. UNCHANGED <<pending, sweep, alive, up[w], job, down>>
    BY <1>0, <1>5, <2>1 DEF ForgePong, Reply, routerVars, workerVars
  <2>3. QED
    BY <1>1, <2>2
<1>6. CASE AnswerPing(v)
  <2>1. v # w
    <3>1. /\ Listens(v) /\ Head(down[v]).task \in Tasks
          /\ Ping(Head(down[v]).task) \in Frames(down[v])
      BY <1>6, Controlled DEF AnswerPing, Control, Ping
    <3>2. QED
      BY <1>2, <3>1 DEF Silent, Asked
  <2>2. UNCHANGED <<pending, sweep, alive, up[w], job, down[w]>>
    BY <1>0, <1>6, <2>1 DEF AnswerPing, Control, Reply, routerVars, workerVars
  <2>3. QED
    BY <1>1, <2>2
<1>7. CASE TakeAbort(v)
  <2>1. UNCHANGED <<pending, sweep, alive>> /\ Listens(v)
    BY <1>7 DEF TakeAbort, Control, routerVars
  <2>2. UNCHANGED <<job[w], up[w]>>
    <3>1. CASE v # w
      BY <1>0, <1>7, <3>1 DEF TakeAbort, Reply
    <3>2. CASE v = w
      BY <1>2, <1>7, <2>1, <3>2 DEF TakeAbort
    <3>3. QED
      BY <3>1, <3>2
  <2>3. Frames(down'[w]) \subseteq Frames(down[w])
    <3>1. CASE v # w
      BY <1>0, <1>7, <3>1 DEF TakeAbort, Control
    <3>2. CASE v = w
      BY <1>7, <3>2, Controlled DEF TakeAbort
    <3>3. QED
      BY <3>1, <3>2
  <2>4. QED
    BY <1>1, <2>1, <2>2, <2>3
<1>8. CASE TakeBody(v)
  <2>1. UNCHANGED <<pending, sweep, alive, up, job>>
    BY <1>8 DEF TakeBody, routerVars, workerVars
  <2>2. Frames(down'[w]) \subseteq Frames(down[w])
    <3>1. CASE v # w
      BY <1>0, <1>8, <3>1 DEF TakeBody, Control
    <3>2. CASE v = w
      BY <1>8, <3>2, Controlled DEF TakeBody
    <3>3. QED
      BY <3>1, <3>2
  <2>3. QED
    BY <1>1, <2>1, <2>2
<1>9. CASE Die(v)
  <2>1. UNCHANGED <<pending, sweep, up, down>> /\ alive' = alive \ {v}
    BY <1>9 DEF Die, routerVars
  <2>2. w \in alive' /\ job'[w] = {} => job[w] = {}
    BY <1>0, <1>9 DEF Die
  <2>3. QED
    BY <1>1, <2>1, <2>2
<1>10. QED
  BY <1>3, <1>4, <1>5, <1>6, <1>7, <1>8, <1>9 DEF WorkerNext

(* What another worker writes decides no probe of this one.                *)
LEMMA SilentReaders ==
  ASSUME TypeOK, NEW w \in Deaf \ Faulty, Silent(w), NEW v \in Workers, ReaderNext(v)
  PROVE  Silent(w)'
<1>0. /\ w \in Workers /\ up \in [Workers -> Seq(UpFrames)]
      /\ pending \in [Tasks -> Workers \cup {None}] /\ None \notin Workers /\ sweep \in SweepRecords
  BY Given DEF TypeOK, SweepRecords
<1>1. /\ sweep.probe # None /\ sweep.probe.worker = w => Asked(w)
      /\ \A c \in sweep.cands : c.worker = w => Asked(w)
  BY DEF Asked
<1>2. ASSUME UNCHANGED <<alive, job, down>>, sweep' = sweep,
             \A t \in Tasks : pending'[t] = w => pending[t] = w \/ up[w] # <<>>,
             up'[w] = up[w] \/ (up[w] # <<>> /\ Frames(up'[w]) \subseteq Frames(up[w]))
      PROVE  Silent(w)'
  BY <1>0, <1>1, <1>2, SilenceKept
<1>3. ASSUME NEW kind, Read(v, kind)
      PROVE  /\ up'[w] = up[w] \/ (up[w] # <<>> /\ Frames(up'[w]) \subseteq Frames(up[w]))
             /\ v = w => kind = "Claim" /\ up[w] # <<>>
  <2>1. CASE v # w
    BY <1>0, <1>3, <2>1, ReadFrame
  <2>2. CASE v = w
    <3>1. /\ up[w] # <<>> /\ Frames(up'[w]) \subseteq Frames(up[w])
          /\ [kind |-> kind, task |-> Head(up[w]).task] \in Frames(up[w])
      BY <1>3, <2>2, ReadFrame DEF Read
    <3>2. kind = "Claim"
      BY <3>1 DEF Silent
    <3>3. QED
      BY <3>1, <3>2
  <2>3. QED
    BY <2>1, <2>2
<1>4. CASE ReadClaim(v)
  <2>1. Read(v, "Claim") /\ UNCHANGED <<alive, job, down, sweep>>
    BY <1>4 DEF ReadClaim, workerVars
  <2>2. \A t \in Tasks : pending'[t] = w => pending[t] = w \/ v = w
    BY <1>0, <1>4 DEF ReadClaim
  <2>3. QED
    BY <1>2, <1>3, <2>1, <2>2
<1>5. CASE ReadDone(v)
  <2>1. Read(v, "Done") /\ UNCHANGED <<alive, job, down, sweep>>
    BY <1>5 DEF ReadDone, workerVars
  <2>2. \A t \in Tasks : pending'[t] = w => pending[t] = w
    BY <1>0, <1>5 DEF ReadDone, Forget
  <2>3. QED
    BY <1>2, <1>3, <2>1, <2>2
<1>6. CASE ReadEof(v)
  <2>1. UNCHANGED <<alive, job, down, sweep, up>>
    BY <1>6 DEF ReadEof, workerVars
  <2>2. \A t \in Tasks : pending'[t] = w => pending[t] = w
    BY <1>0, <1>6 DEF ReadEof, Forget
  <2>3. QED
    BY <1>2, <2>1, <2>2
<1>7. CASE ReadPong(v)
  <2>1. PICK kind \in {"Idle", "Busy"} :
          /\ Read(v, kind)
          /\ sweep' = sweep
             \/ (sweep.probe # None /\ sweep.probe.worker = v /\ sweep' = [sweep EXCEPT !.reply = kind])
    BY <1>7, PongRead
  <2>2. v # w
    BY <1>3, <2>1
  <2>3. UNCHANGED <<alive, job, down, pending>>
    BY <1>7 DEF ReadPong, routerVars, workerVars
  <2>4. CASE sweep' = sweep
    BY <1>2, <1>3, <2>1, <2>3, <2>4
  <2>5. CASE sweep' # sweep
    <3>1. sweep'.probe = sweep.probe /\ sweep'.cands = sweep.cands /\ sweep.probe.worker = v
      BY <1>0, <2>1, <2>5 DEF SweepRecords
    <3>2. UNCHANGED up[w]
      BY <1>3, <2>1, <2>2, ReadFrame, <1>0
    <3>3. ~(sweep'.probe # None /\ sweep'.probe.worker = w)
      BY <2>2, <3>1
    <3>4. \A c \in sweep'.cands : c.worker = w => Asked(w)
      BY <1>1, <3>1
    <3>5. QED
      BY <1>0, <2>3, <3>2, <3>3, <3>4, SilenceKept
  <2>6. QED
    BY <2>4, <2>5
<1>8. QED
  BY <1>4, <1>5, <1>6, <1>7 DEF ReaderNext

(* The sweep asks about workers that hold a task.                          *)
LEMMA SilentSweep ==
  ASSUME TypeOK, Sweeping, NEW w \in Deaf \ Faulty, Silent(w), SweepNext
  PROVE  Silent(w)'
<1>0. /\ w \in Workers /\ down \in [Workers -> Seq(DownFrames)]
      /\ pending \in [Tasks -> Workers \cup {None}] /\ None \notin Workers /\ sweep \in SweepRecords
      /\ None \notin Candidates /\ sent \subseteq Tasks
  BY Given DEF TypeOK, SweepRecords
<1>1. /\ sweep.probe # None /\ sweep.probe.worker = w => Asked(w)
      /\ \A c \in sweep.cands : c.worker = w => Asked(w)
  BY DEF Asked
<1>2. ASSUME UNCHANGED <<alive, job, pending, up>>,
             \A t \in Tasks : Ping(t) \in Frames(down'[w]) => Ping(t) \in Frames(down[w]) \/ Asked(w),
             \A c \in sweep'.cands : c.worker = w => Asked(w),
             sweep'.probe # None /\ sweep'.probe.worker = w =>
               Asked(w) /\ (sweep'.reply = "none" \/ (sweep'.reply = sweep.reply /\ sweep'.probe = sweep.probe))
      PROVE  Silent(w)'
  BY <1>0, <1>2, SilenceKept
<1>3. CASE SweepDecide
  <2>1. /\ sweep'.probe = sweep.probe /\ sweep'.reply = sweep.reply
        /\ \A c \in sweep'.cands : c.worker \in Workers /\ c.task \in Defiant(c.worker)
        /\ UNCHANGED <<alive, job, pending, up, down>>
    BY <1>3, Decided DEF workerVars
  <2>2. \A c \in sweep'.cands : c.worker = w => Asked(w)
    BY <1>0, <2>1 DEF Defiant, Asked
  <2>3. QED
    BY <1>1, <1>2, <2>1, <2>2
<1>4. ASSUME NEW t \in Tasks, SendAbort(t) PROVE Silent(w)'
  <2>1. /\ sweep'.probe = sweep.probe /\ sweep'.reply = sweep.reply /\ sweep'.cands = sweep.cands
        /\ UNCHANGED <<alive, job, pending, up>>
    BY <1>4, SweepFields DEF SendAbort, routerVars, workerVars
  <2>2. \A u \in Tasks : Ping(u) \in Frames(down'[w]) => Ping(u) \in Frames(down[w])
    <3>1. CASE UNCHANGED down
      BY <3>1
    <3>2. CASE Write(pending[t], "Abort", t)
      <4>1. CASE pending[t] = w
        <5>1. Frames(down'[w]) = Frames(down[w]) \cup {[kind |-> "Abort", task |-> t]}
          BY <1>0, <3>2, <4>1, Written
        <5>2. QED
          BY <5>1 DEF Ping
      <4>2. CASE pending[t] # w
        BY <1>0, <3>2, <4>2 DEF Write
      <4>3. QED
        BY <4>1, <4>2
    <3>3. QED
      BY <1>4, <3>1, <3>2 DEF SendAbort
  <2>3. QED
    BY <1>1, <1>2, <2>1, <2>2
<1>5. CASE NextProbe
  <2>1. UNCHANGED <<alive, job, pending, up, down>>
    BY <1>5 DEF NextProbe, routerVars, workerVars
  <2>2. /\ sweep'.pc \in {"asleep", "probing"} /\ sweep'.cands \subseteq sweep.cands
        /\ sweep'.pc = "asleep" => sweep'.probe = sweep.probe /\ sweep'.reply = sweep.reply
        /\ sweep'.pc = "probing" => sweep'.reply = "none" /\ sweep'.probe \in sweep.cands \cup {None}
    BY <1>5, SweepFields
  <2>3. QED
    BY <1>1, <1>2, <2>1, <2>2
<1>6. CASE SendPing
  <2>1. /\ UNCHANGED <<alive, job, pending, up>>
        /\ sweep.probe # None /\ sweep'.cands = sweep.cands
        /\ sweep'.probe = sweep.probe /\ sweep'.reply = sweep.reply
    BY <1>6, SweepFields DEF SendPing, routerVars, workerVars
  <2>2. ASSUME NEW u \in Tasks, Ping(u) \in Frames(down'[w]), Ping(u) \notin Frames(down[w])
        PROVE  Asked(w)
    <3>1. down' # down /\ Write(sweep.probe.worker, "Ping", sweep.probe.task)
      BY <1>6, <2>2 DEF SendPing
    <3>2. sweep.probe.worker = w
      BY <1>0, <2>2, <3>1 DEF Write
    <3>3. QED
      BY <1>1, <2>1, <3>2
  <2>3. QED
    BY <1>1, <1>2, <2>1, <2>2
<1>7. CASE ProbeEnds
  <2>1. UNCHANGED <<alive, job, pending, up, down>>
    BY <1>7 DEF ProbeEnds, routerVars, workerVars
  <2>2. /\ sweep'.cands = sweep.cands /\ sweep'.reply = sweep.reply
        /\ sweep'.probe = None \/ sweep'.probe = sweep.probe
    BY <1>7, SweepFields
  <2>3. QED
    BY <1>1, <1>2, <2>1, <2>2
<1>8. CASE Kill
  <2>1. UNCHANGED <<alive, job, pending, up, down>>
    BY <1>8 DEF Kill, workerVars
  <2>2. sweep'.cands = sweep.cands /\ sweep'.probe = None
    BY <1>8, SweepFields
  <2>3. QED
    BY <1>1, <1>2, <2>1, <2>2
<1>9. QED
  BY <1>3, <1>4, <1>5, <1>6, <1>7, <1>8 DEF SweepNext

(* Every step keeps the silence.                                           *)
LEMMA SilenceStep == TypeOK /\ Sweeping /\ Silence /\ [Next]_vars => Silence'
<1> SUFFICES ASSUME TypeOK, Sweeping, Silence, [Next]_vars, NEW w \in Deaf \ Faulty PROVE Silent(w)'
  BY DEF Silence, Silent
<1>0. Silent(w)
  BY DEF Silence, Silent
<1>1. w \in Workers /\ down \in [Workers -> Seq(DownFrames)]
  BY Given DEF TypeOK
<1>2. CASE EnvNext
  <2>1. UNCHANGED <<alive, job, pending, up, sweep>>
    BY <1>2 DEF EnvNext, Expire, GraceOver, Hold, Release, Upload, routerVars, workerVars
  <2>2. \A u \in Tasks : Ping(u) \in Frames(down'[w]) => Ping(u) \in Frames(down[w])
    <3>1. CASE UNCHANGED down
      BY <3>1
    <3>2. ASSUME NEW v \in Workers, NEW t \in Tasks, Upload(v, t)
          PROVE  \A u \in Tasks : Ping(u) \in Frames(down'[w]) => Ping(u) \in Frames(down[w])
      <4>1. CASE v = w
        <5>1. Frames(down'[w]) = Frames(down[w]) \cup {[kind |-> "Body", task |-> t]}
          BY <3>2, <4>1, Written DEF Upload
        <5>2. QED
          BY <5>1 DEF Ping
      <4>2. CASE v # w
        BY <1>1, <3>2, <4>2 DEF Upload, Write
      <4>3. QED
        BY <4>1, <4>2
    <3>3. QED
      BY <1>2, <3>1, <3>2 DEF EnvNext, Expire, GraceOver, Hold, Release
  <2>3. /\ sweep.probe # None /\ sweep.probe.worker = w => Asked(w)
        /\ \A c \in sweep.cands : c.worker = w => Asked(w)
    BY DEF Asked
  <2>4. QED
    BY <1>0, <1>1, <2>1, <2>2, <2>3, SilenceKept
<1>3. CASE UNCHANGED vars
  BY <1>0, <1>3 DEF vars, routerVars, workerVars, Silent, Asked
<1>4. QED
  BY <1>0, <1>2, <1>3, SilentWorkers, SilentReaders, SilentSweep DEF Next

-----------------------------------------------------------------------------
(* Every step keeps the Aborts ahead of the Pings.                         *)

(* Frames of different kinds or tasks differ.                              *)
LEMMA Tagged ==
  /\ \A t, u : Ping(t) # Abort(u)
  /\ \A t, u : (Ping(t) = Ping(u) => t = u) /\ (Abort(t) = Abort(u) => t = u)
  /\ \A t, u : [kind |-> "Body", task |-> u] # Ping(t) /\ [kind |-> "Body", task |-> u] # Abort(t)
BY DEF Ping, Abort

(* Where no Ping is, none is ahead of its Abort.                           *)
LEMMA NoPing == ASSUME NEW q, NEW t, Ping(t) \notin Frames(q) PROVE Ahead(q, t)
BY DEF Ahead, Frames

(* A step that adds neither a Ping nor a decision keeps the warnings.      *)
LEMMA WarningsKept ==
  ASSUME TypeOK, Warnings,
         \A w \in Workers, t \in Tasks : Warned(w, t) => Warned(w, t)',
         \A t \in sent' \ sweep'.aborts : \A w \in Workers :
           pending'[t] = w => (t \in sent \ sweep.aborts /\ pending[t] = w) \/ Warned(w, t)',
         \A c \in sweep'.cands : c \in sweep.cands \/ Warned(c.worker, c.task)',
         sweep'.probe # None => sweep'.probe = sweep.probe \/ sweep'.probe \in sweep.cands,
         \A w \in Workers, t \in Tasks :
           (Ping(t) \in Frames(down'[w]) => t \notin fresh') /\ (t \in job'[w] => Ahead(down'[w], t)),
         cancel' = {},
         \A w \in Workers : \A f \in Frames(up'[w]) : f \in Frames(up[w]) \/ f.kind # "Busy",
         sweep'.reply # "Busy"
  PROVE  Warnings'
<1>0. /\ sent \subseteq Tasks /\ sweep.cands \subseteq Candidates
      /\ sweep.probe # None => sweep.probe \in Candidates
  BY DEF TypeOK
<1>1. \A c \in Candidates : c.worker \in Workers /\ c.task \in Tasks
  BY DEF Candidates
<1>2. \A t \in sent' \ sweep'.aborts : \A w \in Workers : pending'[t] = w => Warned(w, t)'
  BY <1>0 DEF Warnings
<1>3. \A c \in sweep'.cands : Warned(c.worker, c.task)'
  BY <1>0, <1>1 DEF Warnings
<1>4. (sweep.probe # None => Warned(sweep.probe.worker, sweep.probe.task))'
  <2> SUFFICES ASSUME sweep'.probe # None PROVE Warned(sweep.probe.worker, sweep.probe.task)'
    OBVIOUS
  <2>1. PICK c \in Candidates : c = sweep'.probe /\ Warned(c.worker, c.task)
    BY <1>0 DEF Warnings
  <2>2. Warned(c.worker, c.task)'
    BY <1>1, <2>1
  <2>3. QED
    BY <2>1, <2>2 DEF Warned
<1>5. \A w \in Workers : \A f \in Frames(up'[w]) : f.kind # "Busy"
  BY DEF Warnings
<1>6. QED
  BY <1>2, <1>3, <1>4, <1>5 DEF Warnings

(* The step touches one worker's stream at most, and no task begins.       *)
LEMMA StreamKept ==
  ASSUME TypeOK, Warnings, NEW w \in Workers, UNCHANGED fresh,
         \A v \in Workers \ {w} : down'[v] = down[v] /\ job'[v] \subseteq job[v],
         job'[w] \subseteq job[w],
         \A t \in job'[w] : Abort(t) \in Frames(down[w]) => Abort(t) \in Frames(down'[w]),
         \A t \in job'[w] : Ahead(down[w], t) => Ahead(down'[w], t),
         \A t \in Tasks : Ping(t) \in Frames(down'[w]) => Ping(t) \in Frames(down[w]) \/ t \notin fresh
  PROVE  /\ \A v \in Workers, t \in Tasks : Warned(v, t) => Warned(v, t)'
         /\ \A v \in Workers, t \in Tasks :
              (Ping(t) \in Frames(down'[v]) => t \notin fresh') /\ (t \in job'[v] => Ahead(down'[v], t))
<1>1. ASSUME NEW v \in Workers, NEW t \in Tasks, Warned(v, t) PROVE Warned(v, t)'
  BY <1>1 DEF Warned
<1>2. ASSUME NEW v \in Workers, NEW t \in Tasks
      PROVE  (Ping(t) \in Frames(down'[v]) => t \notin fresh') /\ (t \in job'[v] => Ahead(down'[v], t))
  BY DEF Warnings
<1>3. QED
  BY <1>1, <1>2

(* A worker reads the Abort before the Ping, and lets go of the task.      *)
LEMMA WarnedWorkers ==
  ASSUME TypeOK, ~Blocking, Warnings, NEW w \in Workers, WorkerNext(w)
  PROVE  Warnings'
<1>0. /\ job \in [Workers -> SUBSET Tasks] /\ cancel = {} /\ sweep.reply # "Busy"
      /\ up \in [Workers -> Seq(UpFrames)] /\ down \in [Workers -> Seq(DownFrames)]
  BY DEF TypeOK, Warnings
<1>1. ASSUME UNCHANGED <<pending, sent, sweep>>,
             \A v \in Workers, t \in Tasks : Warned(v, t) => Warned(v, t)',
             \A v \in Workers, t \in Tasks :
               (Ping(t) \in Frames(down'[v]) => t \notin fresh') /\ (t \in job'[v] => Ahead(down'[v], t)),
             cancel' = {},
             \A v \in Workers : \A f \in Frames(up'[v]) : f \in Frames(up[v]) \/ f.kind # "Busy"
      PROVE  Warnings'
  BY <1>0, <1>1, WarningsKept
<1>2. ASSUME NEW t \in Tasks, NEW kind \in {"Claim", "Done", "Idle"}, Reply(w, kind, t)
      PROVE  \A v \in Workers : \A f \in Frames(up'[v]) : f \in Frames(up[v]) \/ f.kind # "Busy"
  <2>1. /\ Frames(up'[w]) = Frames(up[w]) \cup {[kind |-> kind, task |-> t]}
        /\ \A v \in Workers \ {w} : up'[v] = up[v]
    <3>1. TypeOK /\ kind \in {"Claim", "Done", "Idle", "Busy"}
      BY <1>2 DEF Warnings
    <3>2. QED
      BY <1>2, <3>1, Replied
  <2>2. [kind |-> kind, task |-> t].kind # "Busy"
    BY <1>2
  <2>3. QED
    BY <2>1, <2>2
<1>3. ASSUME NEW t \in Tasks, Start(w, t) PROVE Warnings'
  <2>1. /\ t \in fresh /\ fresh' = fresh \ {t} /\ UNCHANGED <<pending, sent, sweep, down, cancel>>
        /\ job' = [job EXCEPT ![w] = job[w] \cup {t}] /\ Reply(w, "Claim", t)
    BY <1>3 DEF Start, routerVars
  <2>2. \A v \in Workers : job'[v] \subseteq job[v] \cup {t}
    BY <1>0, <2>1
  <2>3. \A v \in Workers, u \in Tasks : Warned(v, u) => Warned(v, u)'
    BY <2>1, <2>2 DEF Warned
  <2>4. \A v \in Workers, u \in Tasks : u \in job'[v] => Ahead(down'[v], u)
    <3> SUFFICES ASSUME NEW v \in Workers, NEW u \in Tasks, u \in job'[v] PROVE Ahead(down[v], u)
      BY <2>1
    <3>1. CASE u \in job[v]
      BY <3>1 DEF Warnings
    <3>2. CASE u = t
      <4>1. Ping(t) \notin Frames(down[v])
        BY <2>1 DEF Warnings
      <4>2. QED
        BY <3>2, <4>1, NoPing
    <3>3. QED
      BY <2>2, <3>1, <3>2
  <2>5. \A v \in Workers, u \in Tasks : Ping(u) \in Frames(down'[v]) => u \notin fresh'
    BY <2>1 DEF Warnings
  <2>6. QED
    BY <1>0, <1>1, <1>2, <2>1, <2>3, <2>4, <2>5
<1>4. ASSUME NEW t \in Tasks, Finish(w, t) PROVE Warnings'
  <2>1. /\ UNCHANGED <<pending, sent, sweep, down, fresh>> /\ cancel' = {} /\ Reply(w, "Done", t)
        /\ \A v \in Workers : job'[v] \subseteq job[v]
    BY <1>0, <1>4 DEF Finish, routerVars
  <2>2. /\ \A v \in Workers, u \in Tasks : Warned(v, u) => Warned(v, u)'
        /\ \A v \in Workers, u \in Tasks :
             (Ping(u) \in Frames(down'[v]) => u \notin fresh') /\ (u \in job'[v] => Ahead(down'[v], u))
    BY <2>1, StreamKept
  <2>3. QED
    BY <1>1, <1>2, <2>1, <2>2
<1>5. ASSUME NEW t \in Tasks, ForgePong(w, t) PROVE Warnings'
  <2>1. /\ UNCHANGED <<pending, sent, sweep, down, fresh, job>> /\ cancel' = {} /\ Reply(w, "Idle", t)
    BY <1>0, <1>5 DEF ForgePong, routerVars, workerVars
  <2>2. /\ \A v \in Workers, u \in Tasks : Warned(v, u) => Warned(v, u)'
        /\ \A v \in Workers, u \in Tasks :
             (Ping(u) \in Frames(down'[v]) => u \notin fresh') /\ (u \in job'[v] => Ahead(down'[v], u))
    BY <2>1, StreamKept
  <2>3. QED
    BY <1>1, <1>2, <2>1, <2>2
<1>6. ASSUME NEW kind, Control(w, kind), kind # "Abort", UNCHANGED <<fresh, job>>
      PROVE  /\ \A v \in Workers, u \in Tasks : Warned(v, u) => Warned(v, u)'
             /\ \A v \in Workers, u \in Tasks :
                 (Ping(u) \in Frames(down'[v]) => u \notin fresh') /\ (u \in job'[v] => Ahead(down'[v], u))
  <2>1. /\ Frames(down[w]) = {[kind |-> kind, task |-> Head(down[w]).task]} \cup Frames(down'[w])
        /\ \A u : Ahead(down[w], u) => Ahead(down'[w], u)
        /\ \A v \in Workers \ {w} : down'[v] = down[v]
    BY <1>6, Controlled
  <2>2. \A u : Abort(u) # [kind |-> kind, task |-> Head(down[w]).task]
    BY <1>6 DEF Abort
  <2>3. QED
    BY <1>6, <2>1, <2>2, StreamKept
<1>7. CASE AnswerPing(w)
  <2> DEFINE t == Head(down[w]).task
  <2>1. /\ Control(w, "Ping") /\ UNCHANGED <<pending, sent, sweep, fresh, job, cancel>>
        /\ Reply(w, IF t \in job[w] THEN "Busy" ELSE "Idle", t)
    BY <1>7 DEF AnswerPing, routerVars, workerVars
  <2>2. t \in Tasks /\ ~Ahead(down[w], t)
    BY <2>1, Controlled
  <2>3. t \notin job[w]
    BY <2>2 DEF Warnings
  <2>4. Reply(w, "Idle", t)
    BY <2>1, <2>3
  <2> HIDE DEF t
  <2>5. QED
    BY <1>0, <1>1, <1>2, <1>6, <2>1, <2>2, <2>4
<1>8. CASE TakeAbort(w)
  <2> DEFINE t == Head(down[w]).task
  <2>1. /\ Control(w, "Abort") /\ UNCHANGED <<pending, sent, sweep, fresh>>
        /\ \/ /\ Reply(w, "Done", t) /\ job' = [job EXCEPT ![w] = job[w] \ {t}] /\ UNCHANGED cancel
           \/ t \notin job[w] /\ UNCHANGED <<up, job, cancel>>
    BY <1>8 DEF TakeAbort, routerVars
  <2>2. /\ t \in Tasks
        /\ Frames(down[w]) = {[kind |-> "Abort", task |-> t]} \cup Frames(down'[w])
        /\ \A u : Ahead(down[w], u) => u = t \/ Ahead(down'[w], u)
        /\ \A v \in Workers \ {w} : down'[v] = down[v]
    BY <2>1, Controlled
  <2> HIDE DEF t
  <2>3. /\ job'[w] \subseteq job[w] \ {t} /\ \A v \in Workers \ {w} : job'[v] = job[v]
    BY <1>0, <2>1
  <2>4. \A u \in job'[w] : Abort(u) \in Frames(down[w]) => Abort(u) \in Frames(down'[w])
    BY <2>2, <2>3 DEF Abort
  <2>5. \A u \in job'[w] : Ahead(down[w], u) => Ahead(down'[w], u)
    BY <2>2, <2>3
  <2>6. /\ \A v \in Workers, u \in Tasks : Warned(v, u) => Warned(v, u)'
        /\ \A v \in Workers, u \in Tasks :
             (Ping(u) \in Frames(down'[v]) => u \notin fresh') /\ (u \in job'[v] => Ahead(down'[v], u))
    BY <2>1, <2>2, <2>3, <2>4, <2>5, StreamKept
  <2>7. \A v \in Workers : \A f \in Frames(up'[v]) : f \in Frames(up[v]) \/ f.kind # "Busy"
    BY <1>2, <2>1, <2>2
  <2>8. QED
    BY <1>0, <1>1, <2>1, <2>6, <2>7
<1>9. CASE TakeBody(w)
  <2>1. Control(w, "Body") /\ UNCHANGED <<pending, sent, sweep, fresh, job, cancel, up>>
    BY <1>9 DEF TakeBody, routerVars, workerVars
  <2>2. QED
    BY <1>0, <1>1, <1>6, <2>1
<1>10. CASE Die(w)
  <2>1. /\ UNCHANGED <<pending, sent, sweep, fresh, down, cancel, up>>
        /\ \A v \in Workers : job'[v] \subseteq job[v]
    BY <1>0, <1>10 DEF Die, routerVars
  <2>2. /\ \A v \in Workers, u \in Tasks : Warned(v, u) => Warned(v, u)'
        /\ \A v \in Workers, u \in Tasks :
             (Ping(u) \in Frames(down'[v]) => u \notin fresh') /\ (u \in job'[v] => Ahead(down'[v], u))
    BY <2>1, StreamKept
  <2>3. QED
    BY <1>0, <1>1, <2>1, <2>2
<1>11. QED
  BY <1>3, <1>4, <1>5, <1>7, <1>8, <1>9, <1>10 DEF WorkerNext

(* What the reader forgets needs no warning.                               *)
LEMMA WarnedReaders ==
  ASSUME TypeOK, Living, Claiming, Warnings, NEW w \in Workers, ReaderNext(w)
  PROVE  Warnings'
<1>0. /\ pending \in [Tasks -> Workers \cup {None}] /\ None \notin Workers /\ sent \subseteq Tasks
      /\ cancel = {} /\ sweep.reply # "Busy" /\ sweep \in SweepRecords
      /\ \A v \in Workers : \A f \in Frames(up[v]) : f.kind # "Busy"
  BY Given DEF TypeOK, Warnings, SweepRecords
<1>1. ASSUME UNCHANGED <<fresh, job, down, cancel>>, sent' \subseteq sent,
             sweep'.aborts = sweep.aborts, sweep'.cands = sweep.cands, sweep'.probe = sweep.probe,
             sweep'.reply # "Busy",
             \A t \in sent' \ sweep.aborts : pending'[t] = pending[t],
             \A v \in Workers : Frames(up'[v]) \subseteq Frames(up[v])
      PROVE  Warnings'
  <2>1. \A v \in Workers, t \in Tasks : Warned(v, t) => Warned(v, t)'
    BY <1>1 DEF Warned
  <2>2. \A v \in Workers, t \in Tasks :
          (Ping(t) \in Frames(down'[v]) => t \notin fresh') /\ (t \in job'[v] => Ahead(down'[v], t))
    BY <1>1 DEF Warnings
  <2>3. QED
    BY <1>0, <1>1, <2>1, <2>2, WarningsKept
<1>2. ASSUME NEW kind, Read(w, kind)
      PROVE  /\ \A v \in Workers : Frames(up'[v]) \subseteq Frames(up[v])
             /\ Head(up[w]).task \in Tasks
             /\ [kind |-> kind, task |-> Head(up[w]).task] \in Frames(up[w])
  BY <1>2, ReadFrame
<1>3. CASE ReadClaim(w)
  <2> DEFINE t == Head(up[w]).task
  <2>1. /\ t \in Tasks /\ Claim(t) \in Frames(up[w])
        /\ \A v \in Workers : Frames(up'[v]) \subseteq Frames(up[v])
    BY <1>2, <1>3 DEF ReadClaim, Claim
  <2>2. /\ UNCHANGED <<fresh, job, down, cancel, sent, sweep>> /\ pending' = [pending EXCEPT ![t] = w]
    BY <1>3 DEF ReadClaim, workerVars
  <2> HIDE DEF t
  <2>3. t \notin sent
    BY <2>1 DEF Claiming, Living
  <2>4. \A u \in sent : pending'[u] = pending[u]
    BY <1>0, <2>2, <2>3
  <2>5. QED
    BY <1>0, <1>1, <2>1, <2>2, <2>4
<1>4. CASE ReadDone(w)
  <2>1. /\ UNCHANGED <<fresh, job, down, cancel, sweep>> /\ Read(w, "Done")
        /\ sent' \subseteq sent /\ \A t \in sent' : pending'[t] = pending[t]
    BY <1>0, <1>4 DEF ReadDone, Forget, workerVars
  <2>2. QED
    BY <1>0, <1>1, <1>2, <2>1
<1>5. CASE ReadEof(w)
  <2>1. /\ UNCHANGED <<fresh, job, down, cancel, sweep, up>>
        /\ sent' \subseteq sent /\ \A t \in sent' : pending'[t] = pending[t]
    BY <1>0, <1>5 DEF ReadEof, Forget, workerVars
  <2>2. QED
    BY <1>0, <1>1, <2>1
<1>6. CASE ReadPong(w)
  <2>1. PICK kind \in {"Idle", "Busy"} :
          /\ Read(w, kind)
          /\ sweep' = sweep \/ sweep' = [sweep EXCEPT !.reply = kind]
    BY <1>6, PongRead
  <2>2. kind # "Busy"
    <3>1. [kind |-> kind, task |-> Head(up[w]).task] \in Frames(up[w])
      BY <1>2, <2>1
    <3>2. [kind |-> kind, task |-> Head(up[w]).task].kind = kind
      OBVIOUS
    <3>3. QED
      BY <1>0, <3>1, <3>2
  <2>3. /\ sweep'.aborts = sweep.aborts /\ sweep'.cands = sweep.cands /\ sweep'.probe = sweep.probe
        /\ sweep'.reply # "Busy"
    BY <1>0, <2>1, <2>2 DEF SweepRecords
  <2>4. UNCHANGED <<fresh, job, down, cancel, sent, pending>>
    BY <1>6 DEF ReadPong, routerVars, workerVars
  <2>5. QED
    BY <1>1, <1>2, <2>1, <2>3, <2>4
<1>7. QED
  BY <1>3, <1>4, <1>5, <1>6 DEF ReaderNext

(* The sweep writes the Abort before it notes it, and asks after that.     *)
LEMMA WarnedSweep ==
  ASSUME TypeOK, Living, Claiming, Sweeping, Warnings, SweepNext
  PROVE  Warnings'
<1>0. /\ pending \in [Tasks -> Workers \cup {None}] /\ None \notin Workers /\ sent \subseteq Tasks
      /\ cancel = {} /\ sweep.reply # "Busy" /\ sweep \in SweepRecords /\ None \notin Candidates
      /\ down \in [Workers -> Seq(DownFrames)] /\ job \in [Workers -> SUBSET Tasks]
  BY Given DEF TypeOK, Warnings, SweepRecords
<1>1. ASSUME UNCHANGED <<fresh, job, down, cancel, up, pending>>,
             \A t \in sent' \ sweep'.aborts : t \in sent \ sweep.aborts,
             \A c \in sweep'.cands : c \in sweep.cands \/ Warned(c.worker, c.task),
             sweep'.probe # None => sweep'.probe = sweep.probe \/ sweep'.probe \in sweep.cands,
             sweep'.reply # "Busy"
      PROVE  Warnings'
  <2>1. \A v, t : Warned(v, t) <=> Warned(v, t)'
    BY <1>1 DEF Warned
  <2>2. \A v \in Workers, t \in Tasks :
          (Ping(t) \in Frames(down'[v]) => t \notin fresh') /\ (t \in job'[v] => Ahead(down'[v], t))
    BY <1>1 DEF Warnings
  <2>3. QED
    BY <1>0, <1>1, <2>1, <2>2, WarningsKept
<1>2. CASE SweepDecide
  <2>1. /\ sweep.pc = "asleep" /\ sweep'.probe = sweep.probe /\ sweep'.reply = sweep.reply
        /\ sent' = sent \cup sweep'.aborts
        /\ \A c \in sweep'.cands : c.worker \in Workers /\ c.task \in Defiant(c.worker)
        /\ UNCHANGED <<fresh, job, down, cancel, up, pending>>
    BY <1>2, Decided DEF workerVars
  <2>2. sweep.aborts = {}
    BY <2>1 DEF Sweeping
  <2>3. \A c \in sweep'.cands : Warned(c.worker, c.task)
    BY <2>1, <2>2 DEF Defiant, Warnings
  <2>4. QED
    BY <1>0, <1>1, <2>1, <2>2, <2>3
<1>3. CASE NextProbe
  <2>1. UNCHANGED <<fresh, job, down, cancel, up, pending, sent>>
    BY <1>3 DEF NextProbe, routerVars, workerVars
  <2>2. /\ sweep'.pc \in {"asleep", "probing"} /\ sweep'.cands \subseteq sweep.cands
        /\ sweep'.aborts = sweep.aborts
        /\ sweep'.pc = "asleep" => sweep'.probe = sweep.probe /\ sweep'.reply = sweep.reply
        /\ sweep'.pc = "probing" => sweep'.reply = "none" /\ sweep'.probe \in sweep.cands \cup {None}
    BY <1>3, SweepFields
  <2>3. QED
    BY <1>0, <1>1, <2>1, <2>2
<1>4. CASE ProbeEnds \/ Kill
  <2>1. UNCHANGED <<fresh, job, down, cancel, up, pending, sent>>
    BY <1>4 DEF ProbeEnds, Kill, routerVars, workerVars
  <2>2. /\ sweep'.aborts = sweep.aborts /\ sweep'.cands = sweep.cands /\ sweep'.reply = sweep.reply
        /\ sweep'.probe = None \/ sweep'.probe = sweep.probe
    BY <1>4, SweepFields
  <2>3. QED
    BY <1>0, <1>1, <2>1, <2>2
<1>5. CASE SendPing
  <2> DEFINE w == sweep.probe.worker
             t == sweep.probe.task
  <2>1. /\ sweep.probe # None /\ sweep'.aborts = sweep.aborts /\ sweep'.cands = sweep.cands
        /\ sweep'.probe = sweep.probe /\ sweep'.reply = sweep.reply
    BY <1>5, SweepFields
  <2>2. w \in Workers /\ t \in Tasks /\ Warned(w, t)
    BY <1>0, <2>1 DEF SweepRecords, Candidates, Warnings
  <2>3. UNCHANGED <<fresh, job, cancel, up, pending, sent>> /\ (down' = down \/ Write(w, "Ping", t))
    BY <1>5 DEF SendPing, routerVars, workerVars
  <2> HIDE DEF w, t
  <2>4. CASE down' = down
    BY <1>0, <1>1, <2>1, <2>3, <2>4
  <2>5. CASE Write(w, "Ping", t)
    <3>1. /\ Frames(down'[w]) = Frames(down[w]) \cup {Ping(t)}
          /\ \A u : Ahead(down[w], u) /\ (u = t => Abort(u) \in Frames(down[w])) => Ahead(down'[w], u)
          /\ \A v \in Workers \ {w} : down'[v] = down[v]
      BY <2>2, <2>5, Written DEF Ping
    <3>2. \A u \in job'[w] : Ahead(down[w], u) => Ahead(down'[w], u)
      BY <2>2, <2>3, <3>1 DEF Warned
    <3>3. \A u \in Tasks : Ping(u) \in Frames(down'[w]) => Ping(u) \in Frames(down[w]) \/ u \notin fresh
      BY <2>2, <3>1, Tagged DEF Warned
    <3>4. /\ \A v \in Workers, u \in Tasks : Warned(v, u) => Warned(v, u)'
          /\ \A v \in Workers, u \in Tasks :
             (Ping(u) \in Frames(down'[v]) => u \notin fresh') /\ (u \in job'[v] => Ahead(down'[v], u))
      BY <2>2, <2>3, <3>1, <3>2, <3>3, StreamKept
    <3>5. QED
      BY <1>0, <2>1, <2>3, <3>4, WarningsKept
  <2>6. QED
    BY <2>3, <2>4, <2>5
<1>6. ASSUME NEW t \in Tasks, SendAbort(t) PROVE Warnings'
  <2> DEFINE w == pending[t]
  <2>1. /\ sweep'.aborts = sweep.aborts \ {t} /\ sweep'.cands = sweep.cands
        /\ sweep'.probe = sweep.probe /\ sweep'.reply = sweep.reply
        /\ UNCHANGED <<fresh, job, cancel, up, pending, sent>>
        /\ IF w # None /\ w \in live /\ w \in alive THEN Write(w, "Abort", t) ELSE UNCHANGED down
    BY <1>6, SweepFields DEF SendAbort, routerVars, workerVars
  <2>2. w # None => w \in Workers /\ t \notin fresh
    BY <1>0 DEF Claiming
  <2> HIDE DEF w
  <2>3. CASE Write(w, "Abort", t) /\ w # None
    <3>1. /\ Frames(down'[w]) = Frames(down[w]) \cup {Abort(t)}
          /\ \A u : Ahead(down[w], u) => Ahead(down'[w], u)
          /\ \A v \in Workers \ {w} : down'[v] = down[v]
      BY <2>2, <2>3, Written DEF Abort
    <3>2. \A u \in Tasks : Ping(u) \in Frames(down'[w]) => Ping(u) \in Frames(down[w])
      BY <3>1, Tagged
    <3>3. /\ \A v \in Workers, u \in Tasks : Warned(v, u) => Warned(v, u)'
          /\ \A v \in Workers, u \in Tasks :
             (Ping(u) \in Frames(down'[v]) => u \notin fresh') /\ (u \in job'[v] => Ahead(down'[v], u))
      BY <2>1, <2>2, <2>3, <3>1, <3>2, StreamKept
    <3>4. \A v \in Workers : v = w => Warned(v, t)'
      BY <2>1, <2>2, <2>3, <3>1 DEF Warned
    <3>5. \A u \in sent' \ sweep'.aborts : \A v \in Workers :
            pending'[u] = v => (u \in sent \ sweep.aborts /\ pending[u] = v) \/ Warned(v, u)'
      BY <2>1, <3>4 DEF w
    <3>6. QED
      BY <1>0, <2>1, <3>3, <3>5, WarningsKept
  <2>4. CASE ~(w # None /\ w \in live /\ w \in alive)
    <3>1. down' = down
      BY <2>1, <2>4
    <3>2. w # None => w \in Workers \ alive /\ job[w] = {}
      BY <2>2, <2>4 DEF Living
    <3>3. /\ \A v \in Workers, u \in Tasks : Warned(v, u) => Warned(v, u)'
          /\ \A v \in Workers, u \in Tasks :
             (Ping(u) \in Frames(down'[v]) => u \notin fresh') /\ (u \in job'[v] => Ahead(down'[v], u))
      BY <2>1, <3>1 DEF Warned, Warnings
    <3>4. \A v \in Workers : v = w => Warned(v, t)'
      BY <1>0, <2>1, <2>2, <3>2 DEF Warned
    <3>5. \A u \in sent' \ sweep'.aborts : \A v \in Workers :
            pending'[u] = v => (u \in sent \ sweep.aborts /\ pending[u] = v) \/ Warned(v, u)'
      BY <1>0, <2>1, <3>4 DEF w
    <3>6. QED
      BY <1>0, <2>1, <3>3, <3>5, WarningsKept
  <2>5. QED
    BY <2>1, <2>3, <2>4
<1>7. QED
  BY <1>2, <1>3, <1>4, <1>5, <1>6 DEF SweepNext

(* Nothing else writes an Abort or a Ping.                                 *)
LEMMA WarnedOthers ==
  ASSUME TypeOK, Warnings, EnvNext \/ UNCHANGED vars
  PROVE  Warnings'
<1>0. cancel = {} /\ sweep.reply # "Busy" /\ down \in [Workers -> Seq(DownFrames)]
  BY DEF TypeOK, Warnings
<1>1. ASSUME UNCHANGED <<fresh, job, cancel, up, pending, sent, sweep>>,
             \A v \in Workers, t \in Tasks : Warned(v, t) => Warned(v, t)',
             \A v \in Workers, t \in Tasks :
               (Ping(t) \in Frames(down'[v]) => t \notin fresh') /\ (t \in job'[v] => Ahead(down'[v], t))
      PROVE  Warnings'
  BY <1>0, <1>1, WarningsKept
<1>2. ASSUME NEW w \in Workers, NEW t \in Tasks, Upload(w, t) PROVE Warnings'
  <2>1. UNCHANGED <<fresh, job, cancel, up, pending, sent, sweep>> /\ Write(w, "Body", t)
    BY <1>2 DEF Upload, routerVars, workerVars
  <2>2. /\ Frames(down'[w]) = Frames(down[w]) \cup {[kind |-> "Body", task |-> t]}
        /\ \A u : Ahead(down[w], u) => Ahead(down'[w], u)
        /\ \A v \in Workers \ {w} : down'[v] = down[v]
    BY <2>1, Written
  <2>3. QED
    BY <1>1, <2>1, <2>2, Tagged, StreamKept
<1>3. CASE UNCHANGED down /\ UNCHANGED <<fresh, job, cancel, up, pending, sent, sweep>>
  BY <1>1, <1>3 DEF Warned, Warnings
<1>4. QED
  BY <1>2, <1>3 DEF EnvNext, Expire, GraceOver, Hold, Release, routerVars, workerVars, vars

(* Every step keeps the warnings.                                          *)
LEMMA WarningsStep ==
  TypeOK /\ Living /\ Claiming /\ Sweeping /\ Warnings /\ ~Blocking /\ [Next]_vars => Warnings'
BY WarnedWorkers, WarnedReaders, WarnedSweep, WarnedOthers DEF Next

-----------------------------------------------------------------------------
(* Every step keeps the cooperative ones unharmed.                         *)

(* The sweep kills the deaf and those whose reader is held up.             *)
LEMMA KillingStep ==
  TypeOK /\ Living /\ Sweeping /\ Warnings /\ Killing /\ ~Blocking /\ [Next]_vars => Killing'
<1> SUFFICES ASSUME TypeOK, Living, Sweeping, Warnings, Killing, ~Blocking, [Next]_vars PROVE Killing'
  OBVIOUS
<1>0. sweep \in SweepRecords
  BY DEF TypeOK, SweepRecords
<1>1. ASSUME UNCHANGED killReq, sweep'.pc = "killing" => sweep'.probe.worker \in Deaf \cup Laggards
      PROVE  Killing'
  BY <1>1 DEF Killing, CooperativeSurvives
<1>2. ASSUME UNCHANGED <<killReq, sweep>> PROVE Killing'
  BY <1>2 DEF Killing, CooperativeSurvives
<1>3. CASE SweepNext
  <2>1. CASE SweepDecide
    BY <1>1, <2>1, Decided
  <2>2. ASSUME NEW t \in Tasks, SendAbort(t) PROVE Killing'
    BY <1>1, <2>2, SweepFields DEF SendAbort, routerVars
  <2>3. CASE NextProbe
    BY <1>1, <2>3, SweepFields DEF NextProbe, routerVars
  <2>4. CASE SendPing
    <3>1. /\ sweep.probe # None /\ sweep'.probe = sweep.probe
          /\ sweep'.pc = "killing" => sweep.probe.worker \notin alive
      BY <2>4, SweepFields
    <3>2. sweep.probe.worker \in Workers
      BY <1>0, <3>1 DEF SweepRecords, Candidates
    <3>3. sweep.probe.worker \notin alive => sweep.probe.worker \in Deaf \cup Laggards
      BY <3>2 DEF Living, Killing, CooperativeSurvives
    <3>4. UNCHANGED killReq
      BY <2>4 DEF SendPing, routerVars
    <3>5. QED
      BY <1>1, <3>1, <3>3, <3>4
  <2>5. CASE ProbeEnds
    <3>1. CASE sweep'.pc # "killing"
      BY <1>1, <2>5, <3>1 DEF ProbeEnds, routerVars
    <3>2. CASE sweep'.pc = "killing"
      <4>1. /\ sweep.pc = "waiting" /\ sweep'.probe = sweep.probe /\ sweep.reply # "Idle"
        BY <2>5, <3>2, SweepFields
      <4>2. sweep.probe # None
        BY <4>1 DEF Sweeping
      <4>3. sweep.reply = "none"
        BY <1>0, <4>1 DEF SweepRecords, Warnings
      <4> DEFINE w == sweep.probe.worker
      <4>4. w \in Workers
        BY <1>0, <4>2 DEF SweepRecords, Candidates
      <4>5. ~Listens(w) \/ w \in cancel \/ w \in held
        BY <2>5, <4>3 DEF ProbeEnds
      <4> HIDE DEF w
      <4>6. w \notin cancel /\ (w \in held => w \in Laggards)
        BY DEF Warnings, Living
      <4>7. ~Listens(w) => w \in Deaf \/ w \notin alive
        BY DEF Listens
      <4>8. w \notin alive => w \in Deaf \cup Laggards
        BY <4>4 DEF Living, Killing, CooperativeSurvives
      <4>9. w \in Deaf \cup Laggards
        BY <4>5, <4>6, <4>7, <4>8
      <4>10. UNCHANGED killReq
        BY <2>5 DEF ProbeEnds, routerVars
      <4>11. QED
        BY <1>1, <4>1, <4>9, <4>10 DEF w
    <3>3. QED
      BY <3>1, <3>2
  <2>6. CASE Kill
    <3>1. sweep.pc = "killing" /\ sweep'.pc = "probing" /\ killReq' \subseteq killReq \cup {sweep.probe.worker}
      BY <2>6, SweepFields DEF Kill
    <3>2. QED
      BY <3>1 DEF Killing, CooperativeSurvives
  <2>7. QED
    BY <1>3, <2>1, <2>2, <2>3, <2>4, <2>5, <2>6 DEF SweepNext
<1>4. ASSUME NEW w \in Workers, ReadPong(w) PROVE Killing'
  <2>1. PICK kind : sweep' = sweep \/ sweep' = [sweep EXCEPT !.reply = kind]
    BY <1>4, PongRead
  <2>2. sweep'.pc = sweep.pc /\ sweep'.probe = sweep.probe
    BY <1>0, <2>1 DEF SweepRecords
  <2>3. UNCHANGED killReq
    BY <1>4 DEF ReadPong, routerVars
  <2>4. QED
    BY <1>1, <2>2, <2>3 DEF Killing
<1>5. ASSUME NEW w \in Workers, ReadClaim(w) \/ ReadDone(w) \/ ReadEof(w) PROVE Killing'
  BY <1>2, <1>5 DEF ReadClaim, ReadDone, ReadEof
<1>6. ASSUME NEW w \in Workers, WorkerNext(w) PROVE Killing'
  BY <1>2, <1>6 DEF WorkerNext, Start, Finish, AnswerPing, TakeAbort, TakeBody, ForgePong, Die, routerVars
<1>7. CASE EnvNext
  BY <1>2, <1>7 DEF EnvNext, Expire, GraceOver, Hold, Release, Upload, routerVars
<1>8. CASE UNCHANGED vars
  BY <1>2, <1>8 DEF vars, routerVars
<1>9. QED
  BY <1>3, <1>4, <1>5, <1>6, <1>7, <1>8 DEF Next, ReaderNext

-----------------------------------------------------------------------------
(* The theorems.                                                           *)

(* No task is received, and the sweep sleeps.                              *)
LEMMA SweepInit == Init => SweepInv
<1> SUFFICES ASSUME Init PROVE SweepInv
  OBVIOUS
<1>1. /\ pending = [t \in Tasks |-> None] /\ late = {} /\ sent = {} /\ over = {}
      /\ live = Workers /\ killReq = {} /\ held = {}
      /\ sweep = [pc |-> "asleep", aborts |-> {}, cands |-> {}, probe |-> None, reply |-> "none"]
      /\ down = [w \in Workers |-> <<>>] /\ up = [w \in Workers |-> <<>>]
      /\ alive = Workers /\ fresh = Tasks /\ job = [w \in Workers |-> {}] /\ cancel = {}
  BY DEF Init
<1>2. sweep \in SweepRecords
  BY <1>1 DEF SweepRecords, SweepPcs
<1>3. /\ down \in [Workers -> Seq(DownFrames)] /\ up \in [Workers -> Seq(UpFrames)]
      /\ \A w \in Workers : Len(down[w]) <= DownCap
  <2>1. <<>> \in Seq(DownFrames) /\ <<>> \in Seq(UpFrames) /\ Len(<<>>) <= DownCap
    BY NoFrames, Given
  <2>2. QED
    BY <1>1, <2>1
<1>4. TypeOK
  BY <1>1, <1>2, <1>3 DEF TypeOK, SweepRecords
<1>5. \A w \in Workers : /\ Frames(up[w]) = {} /\ Frames(down[w]) = {}
                         /\ Once(up[w]) /\ \A t : Ahead(down[w], t)
  BY <1>1, NoFrames
<1>6. Living /\ Claiming /\ Sweeping
  BY <1>1, <1>5 DEF Living, Claiming, Sweeping
<1>7. Silence
  BY <1>1, <1>5, Given DEF Silence, Asked
<1>8. Warnings /\ Killing
  BY <1>1, <1>5 DEF Warnings, Killing, CooperativeSurvives
<1>9. QED
  BY <1>4, <1>6, <1>7, <1>8 DEF SweepInv

(* Every step keeps the invariant.                                         *)
LEMMA SweepStep == SweepInv /\ [Next]_vars => SweepInv'
BY TypesStep, LivingStep, ClaimingStep, SweepingStep, SilenceStep, WarningsStep, KillingStep DEF SweepInv

(* dispatch.rs keys its probes by worker and task: a worker that stopped   *)
(* reading is never spared on the word of another, nor on an answer that   *)
(* it gave before, however many workers forge Pongs.                       *)
THEOREM NoReprieve == Spec => []NoForgedReprieve
<1>1. SweepInv => NoForgedReprieve
  BY DEF SweepInv, Silence, NoForgedReprieve
<1>2. QED
  BY <1>1, SweepInit, SweepStep, PTL DEF Spec

(* The event loop of buran-echo is never killed for overrunning its budget *)
(* while it reads and is read: its Abort is ahead of every Ping about the  *)
(* task, so the answer to the Ping is idle. A blocking worker has no such  *)
(* promise: its handler may go on after it saw the Abort.                  *)
THEOREM CooperationPays == ASSUME ~Blocking PROVE Spec => []CooperativeSurvives
<1>1. SweepInv => CooperativeSurvives
  BY DEF SweepInv, Killing
<1>2. QED
  BY <1>1, SweepInit, SweepStep, PTL DEF Spec

=============================================================================
