--------------------------- MODULE DispatchProofs ---------------------------
(***************************************************************************)
(* Proofs about the router's dispatcher, for any number of requests and    *)
(* workers, any grant and any channel capacity, with any set of buggy      *)
(* workers: types, ownership and grants; then the books that rest on them, *)
(* the in_flight counter and the permits of the queue; the answers that    *)
(* are passed on; and the grant as an honest worker keeps it.              *)
(***************************************************************************)
EXTENDS Dispatch, FiniteSetTheorems, TLAPS

(* A step of some actor, or none: the case split every proof below uses. *)
LEMMA StepCases ==
  ASSUME [Next]_vars, NEW P,
         \A r \in Requests : ClientNext(r) => P,
         \A w \in Workers : ReaderNext(w) => P,
         \A w \in Workers : WorkerNext(w) => P,
         UNCHANGED vars => P
  PROVE  P
BY DEF Next

(* What a send into a channel may change, and how. *)
LEMMA DeliverType ==
  ASSUME TypeOK, NEW w \in Workers, NEW r \in Requests, NEW kind \in EventKinds,
         Deliver(w, r, kind)
  PROVE  /\ events' \in [Requests -> Seq(Events)]
         /\ hold' \in [Workers -> Held \cup {None}]
<1>1. [kind |-> kind, from |-> w] \in Events
  BY DEF Events
<1>2. [kind |-> kind, req |-> r] \in Held
  BY DEF Held
<1>3. events[r] \in Seq(Events)
  BY DEF TypeOK
<1>4. Append(events[r], [kind |-> kind, from |-> w]) \in Seq(Events)
  BY <1>1, <1>3
<1>5. QED
  BY <1>1, <1>2, <1>4 DEF Deliver, TypeOK

(* A frame the reader takes is a frame, and the streams keep their type. *)
LEMMA TakeFrameType ==
  ASSUME TypeOK, NEW w \in Workers, TakeFrame(w)
  PROVE  /\ Head(stream[w]) \in Frames
         /\ Head(stream[w]).kind \in FrameKinds
         /\ Head(stream[w]).req \in Requests
         /\ stream' \in [Workers -> Seq(Frames)]
<1>1. stream[w] \in Seq(Frames) /\ stream[w] # <<>>
  BY DEF TypeOK, TakeFrame, CanRead
<1>2. Head(stream[w]) \in Frames /\ Tail(stream[w]) \in Seq(Frames)
  BY <1>1
<1>3. QED
  BY <1>2 DEF TypeOK, TakeFrame, Frames

(* The frames a worker writes are frames. *)
LEMMA WriteType ==
  ASSUME TypeOK, NEW w \in Workers, NEW r \in Requests, NEW kind \in FrameKinds,
         Write(w, kind, r)
  PROVE  stream' \in [Workers -> Seq(Frames)]
<1>1. stream[w] \in Seq(Frames) /\ [kind |-> kind, req |-> r] \in Frames
  BY DEF TypeOK, Frames
<1>2. Append(stream[w], [kind |-> kind, req |-> r]) \in Seq(Frames)
  BY <1>1
<1>3. QED
  BY <1>2 DEF Write, TypeOK

(* Removing an entry keeps the table and the counter typed. *)
LEMMA RemovePendingType ==
  ASSUME TypeOK, NEW r \in Requests, RemovePending(r)
  PROVE  /\ pending' \in [Requests -> Workers \cup {Absent, Unclaimed}]
         /\ inFlight' \in Int
<1>1. inFlight \in Int /\ pending \in [Requests -> Workers \cup {Absent, Unclaimed}]
  BY DEF TypeOK
<1>2. QED
  BY <1>1 DEF RemovePending

(* Connection tasks keep the types.                                        *)
LEMMA ClientType ==
  ASSUME TypeOK, NEW r \in Requests, ClientNext(r)
  PROVE  TypeOK'
<1> USE DEF TypeOK, clientVars, routerVars, readerVars, kernelVars, workerVars,
            ClientStates, Outcomes
<1>1. CASE Reserve(r)
  <2>1. client' \in [Requests -> ClientStates] /\ outcome' \in [Requests -> Outcomes]
    BY <1>1 DEF Reserve
  <2>2. permits' \in Nat
    <3>1. permits \in Nat
      OBVIOUS
    <3>2. CASE permits > 0
      <4>1. permits' = permits - 1
        BY <1>1, <3>2 DEF Reserve
      <4>2. QED
        BY <3>1, <3>2, <4>1
    <3>3. CASE ~(permits > 0)
      BY <1>1, <3>1, <3>3 DEF Reserve
    <3>4. QED
      BY <3>2, <3>3
  <2>3. QED
    BY <1>1, <2>1, <2>2 DEF Reserve
<1>2. CASE SpillFailed(r)
  BY <1>2 DEF SpillFailed
<1>3. CASE Insert(r)
  BY <1>3 DEF Insert
<1>4. CASE Count(r)
  BY <1>4 DEF Count
<1>5. CASE Send(r)
  <2>1. work' \in Seq(Requests)
    BY <1>5 DEF Send
  <2>2. QED
    BY <1>5, <2>1 DEF Send
<1>6. CASE SendFailed(r)
  BY <1>6 DEF SendFailed, RemovePending
<1>7. CASE Receive(r)
  <2>1. events[r] \in Seq(Events) /\ events[r] # <<>>
    BY <1>7 DEF Receive
  <2>2. Tail(events[r]) \in Seq(Events)
    BY <2>1
  <2>3. QED
    BY <1>7, <2>2 DEF Receive
<1>8. CASE SeeClosed(r)
  BY <1>8 DEF SeeClosed
<1>9. CASE GiveUp(r)
  <2>1. ctl' \in [Workers -> SUBSET Requests]
    <3>1. CASE AbortTask(r)
      <4>1. \A w \in Workers : ctl[w] \in SUBSET Requests /\ ctl[w] \cup {r} \in SUBSET Requests
        OBVIOUS
      <4>2. QED
        BY <3>1, <4>1 DEF AbortTask
    <3>2. CASE UNCHANGED ctl
      BY <3>2
    <3>3. QED
      BY <1>9, <3>1, <3>2 DEF GiveUp
  <2>2. QED
    BY <1>9, <2>1 DEF GiveUp
<1>10. CASE Drop(r)
  <2>1. /\ pending' \in [Requests -> Workers \cup {Absent, Unclaimed}]
        /\ inFlight' \in Int
    <3>1. CASE pending[r] = Unclaimed
      BY <1>10, <3>1, RemovePendingType DEF Drop
    <3>2. CASE pending[r] # Unclaimed
      BY <1>10, <3>2 DEF Drop
    <3>3. QED
      BY <3>1, <3>2
  <2>2. events' \in [Requests -> Seq(Events)] /\ permits' \in Nat
    BY <1>10 DEF Drop
  <2>3. client' \in [Requests -> ClientStates]
    BY <1>10 DEF Drop
  <2>4. UNCHANGED <<outcome, reader, claimed, hold, work, stream, proc, job, ctl>>
    BY <1>10 DEF Drop
  <2>5. QED
    BY <2>1, <2>2, <2>3, <2>4
<1>11. QED
  BY <1>1, <1>2, <1>3, <1>4, <1>5, <1>6, <1>7, <1>8, <1>9, <1>10 DEF ClientNext

(* Readers keep the types.                                                 *)
LEMMA ReaderType ==
  ASSUME TypeOK, NEW w \in Workers, ReaderNext(w)
  PROVE  TypeOK'
<1> USE DEF clientVars, routerVars, readerVars, kernelVars, workerVars
<1>1. CASE DropFrame(w)
  BY <1>1, TakeFrameType DEF DropFrame, TakeFrame, TypeOK
<1>2. CASE ReadClaim(w)
  <2>1. TakeFrame(w)
    BY <1>2 DEF ReadClaim
  <2>2. /\ pending' \in [Requests -> Workers \cup {Absent, Unclaimed}]
        /\ claimed' \in [Workers -> SUBSET Requests]
    <3> DEFINE r == Head(stream[w]).req
    <3>1. r \in Requests
      BY <2>1, TakeFrameType
    <3>2. CASE pending[r] = Unclaimed
      <4>1. /\ pending' = [pending EXCEPT ![r] = w]
            /\ claimed' = [claimed EXCEPT ![w] = @ \cup {r}]
        BY <1>2, <3>2 DEF ReadClaim
      <4>2. QED
        BY <3>1, <4>1 DEF TypeOK
    <3>3. CASE pending[r] # Unclaimed
      <4>1. UNCHANGED <<pending, claimed>>
        BY <1>2, <3>3 DEF ReadClaim
      <4>2. QED
        BY <4>1 DEF TypeOK
    <3>4. QED
      BY <3>2, <3>3
  <2>3. QED
    BY <1>2, <2>1, <2>2, TakeFrameType DEF ReadClaim, TakeFrame, TypeOK
<1>3. CASE ReadOverClaim(w)
  BY <1>3, TakeFrameType DEF ReadOverClaim, TakeFrame, TypeOK
<1>4. CASE ReadResponse(w)
  <2>1. TakeFrame(w)
    BY <1>4 DEF ReadResponse
  <2>2. Head(stream[w]).kind \in EventKinds
    BY <1>4 DEF ReadResponse, EventKinds
  <2>3. events' \in [Requests -> Seq(Events)] /\ hold' \in [Workers -> Held \cup {None}]
    BY <1>4, <2>1, <2>2, TakeFrameType, DeliverType DEF ReadResponse
  <2>4. QED
    BY <1>4, <2>1, <2>3, TakeFrameType DEF ReadResponse, TakeFrame, TypeOK
<1>5. CASE ReadDone(w)
  <2>1. TakeFrame(w)
    BY <1>5 DEF ReadDone
  <2>2. events' \in [Requests -> Seq(Events)] /\ hold' \in [Workers -> Held \cup {None}]
    BY <1>5, <2>1, TakeFrameType, DeliverType DEF ReadDone, EventKinds
  <2>3. /\ claimed' \in [Workers -> SUBSET Requests]
        /\ RemovePending(Head(stream[w]).req)
    BY <1>5, <2>1, TakeFrameType DEF ReadDone, FreeSlot, TypeOK
  <2>4. /\ pending' \in [Requests -> Workers \cup {Absent, Unclaimed}]
        /\ inFlight' \in Int
    BY <2>1, <2>3, TakeFrameType, RemovePendingType
  <2>5. QED
    BY <1>5, <2>1, <2>2, <2>3, <2>4, TakeFrameType DEF ReadDone, TakeFrame, TypeOK
<1>6. CASE ReadError(w)
  <2>1. TakeFrame(w)
    BY <1>6 DEF ReadError
  <2>2. events' \in [Requests -> Seq(Events)] /\ hold' \in [Workers -> Held \cup {None}]
    BY <1>6, <2>1, TakeFrameType, DeliverType DEF ReadError, EventKinds
  <2>3. /\ claimed' \in [Workers -> SUBSET Requests]
        /\ RemovePending(Head(stream[w]).req)
    BY <1>6, <2>1, TakeFrameType DEF ReadError, FreeSlot, TypeOK
  <2>4. /\ pending' \in [Requests -> Workers \cup {Absent, Unclaimed}]
        /\ inFlight' \in Int
    BY <2>1, <2>3, TakeFrameType, RemovePendingType
  <2>5. QED
    BY <1>6, <2>1, <2>2, <2>3, <2>4, TakeFrameType DEF ReadError, TakeFrame, TypeOK
<1>7. CASE Unblock(w)
  <2>1. hold[w] \in Held
    BY <1>7 DEF Unblock, TypeOK
  <2>2. hold[w].req \in Requests /\ [kind |-> hold[w].kind, from |-> w] \in Events
    BY <2>1 DEF Held, Events
  <2>3. events[hold[w].req] \in Seq(Events)
    BY <2>2 DEF TypeOK
  <2>4. Append(events[hold[w].req], [kind |-> hold[w].kind, from |-> w]) \in Seq(Events)
    BY <2>2, <2>3
  <2>5. events' \in [Requests -> Seq(Events)]
    BY <1>7, <2>2, <2>4 DEF Unblock, TypeOK
  <2>6. hold' \in [Workers -> Held \cup {None}]
    BY <1>7 DEF Unblock, TypeOK
  <2>7. QED
    BY <1>7, <2>5, <2>6 DEF Unblock, TypeOK
<1>8. CASE ReadEof(w)
  BY <1>8 DEF ReadEof, TypeOK
<1>9. CASE \E r \in Requests : DrainOne(w, r)
  <2>1. PICK r \in Requests : DrainOne(w, r)
    BY <1>9
  <2>2. events[r] \in Seq(Events) /\ [kind |-> "Failed", from |-> w] \in Events
    BY DEF TypeOK, Events, EventKinds
  <2>3. Append(events[r], [kind |-> "Failed", from |-> w]) \in Seq(Events)
    BY <2>2
  <2>4. claimed' \in [Workers -> SUBSET Requests] /\ RemovePending(r)
    BY <2>1 DEF DrainOne, FreeSlot, TypeOK
  <2>5. /\ pending' \in [Requests -> Workers \cup {Absent, Unclaimed}]
        /\ inFlight' \in Int
    BY <2>4, RemovePendingType
  <2>6. events' \in [Requests -> Seq(Events)]
    BY <2>1, <2>3 DEF DrainOne, TypeOK
  <2>7. QED
    BY <2>1, <2>4, <2>5, <2>6 DEF DrainOne, TypeOK
<1>10. CASE ReaderExit(w)
  BY <1>10 DEF ReaderExit, TypeOK
<1>11. QED
  BY <1>1, <1>2, <1>3, <1>4, <1>5, <1>6, <1>7, <1>8, <1>9, <1>10 DEF ReaderNext

(* Worker processes keep the types.                                        *)
LEMMA WorkerType ==
  ASSUME TypeOK, NEW w \in Workers, WorkerNext(w)
  PROVE  TypeOK'
<1> USE DEF clientVars, routerVars, readerVars, kernelVars, workerVars
<1>1. CASE Spawn(w)
  BY <1>1 DEF Spawn, TypeOK
<1>2. CASE Exit(w)
  BY <1>2 DEF Exit, TypeOK
<1>3. CASE Recv(w)
  <2>1. work \in Seq(Requests) /\ work # <<>>
    BY <1>3 DEF Recv, TypeOK
  <2>2. Head(work) \in Requests /\ Tail(work) \in Seq(Requests)
    BY <2>1
  <2>3. QED
    BY <1>3, <2>2 DEF Recv, TypeOK
<1>4. CASE FaultyRecv(w)
  <2>1. work \in Seq(Requests) /\ work # <<>>
    BY <1>4 DEF FaultyRecv, TypeOK
  <2>2. Tail(work) \in Seq(Requests)
    BY <2>1
  <2>3. QED
    BY <1>4, <2>2 DEF FaultyRecv, TypeOK
<1>5. ASSUME NEW r \in Requests, SendClaim(w, r)
      PROVE  TypeOK'
  BY <1>5, WriteType DEF SendClaim, Write, TypeOK, FrameKinds
<1>6. ASSUME NEW r \in Requests, SendData(w, r)
      PROVE  TypeOK'
  BY <1>6, WriteType DEF SendData, Write, TypeOK, FrameKinds
<1>7. ASSUME NEW r \in Requests, SendEnd(w, r)
      PROVE  TypeOK'
  BY <1>7, WriteType DEF SendEnd, Write, TypeOK, FrameKinds
<1>8. ASSUME NEW r \in Requests, SendDone(w, r)
      PROVE  TypeOK'
  BY <1>8, WriteType DEF SendDone, Write, TypeOK, FrameKinds
<1>9. ASSUME NEW r \in Requests, SendError(w, r)
      PROVE  TypeOK'
  BY <1>9, WriteType DEF SendError, Write, TypeOK, FrameKinds
<1>10. ASSUME NEW r \in Requests, ObeyAbort(w, r)
       PROVE  TypeOK'
  BY <1>10, WriteType DEF ObeyAbort, Write, TypeOK, FrameKinds
<1>11. ASSUME NEW r \in Requests, IgnoreAbort(w, r)
       PROVE  TypeOK'
  BY <1>11 DEF IgnoreAbort, TypeOK
<1>12. ASSUME NEW r \in Requests, NEW kind \in FrameKinds, FaultyFrame(w, kind, r)
       PROVE  TypeOK'
  BY <1>12, WriteType DEF FaultyFrame, Write, TypeOK
<1>13. QED
  BY <1>1, <1>2, <1>3, <1>4, <1>5, <1>6, <1>7, <1>8, <1>9, <1>10, <1>11, <1>12
     DEF WorkerNext

(* Nothing happens.                                                        *)
LEMMA StutterType ==
  ASSUME TypeOK, UNCHANGED vars
  PROVE  TypeOK'
BY DEF TypeOK, vars, clientVars, routerVars, readerVars, kernelVars, workerVars

(* The types of an empty dispatcher.                                       *)
LEMMA InitType == Init => TypeOK
<1> SUFFICES ASSUME Init PROVE TypeOK
  OBVIOUS
<1>1. <<>> \in Seq(Events) /\ <<>> \in Seq(Frames) /\ <<>> \in Seq(Requests)
  OBVIOUS
<1>2. QED
  BY <1>1, DispatchAssumption DEF Init, TypeOK, ClientStates, Outcomes

(* Every variable of the dispatcher keeps its type, so the tables never    *)
(* name a request or a worker that does not exist and the semaphore never  *)
(* goes below zero, whatever the workers write.                            *)
THEOREM TypeCorrect == Spec => []TypeOK
<1>1. TypeOK /\ [Next]_vars => TypeOK'
  BY ClientType, ReaderType, WorkerType, StutterType, StepCases
<1>2. QED
  BY InitType, <1>1, PTL DEF Spec

-----------------------------------------------------------------------------
(***************************************************************************)
(* Ownership. SlotLedger is not inductive alone: that submit's withdrawal  *)
(* of an entry cannot hit a request a well-behaved worker owns rests on    *)
(* the order of events, a datagram is received, and so claimed, only after *)
(* it was sent. Sent follows the request through the kernel queue, the     *)
(* worker and its stream.                                                  *)
(***************************************************************************)
Sent(r) == client[r] \in {"open", "leaving", "done"} /\ outcome[r] # "unsent"

SentInv ==
  /\ \A i \in 1..Len(work) : Sent(work[i])
  /\ \A w \in Workers \ Faulty :
       /\ \A r \in Requests : job[w][r] # "none" => Sent(r)
       /\ \A i \in 1..Len(stream[w]) :
            stream[w][i].kind = "Claim" => Sent(stream[w][i].req)
       /\ \A r \in claimed[w] : Sent(r)

PhaseInv ==
  \A r \in Requests :
    /\ client[r] \in {"new", "reserved"} => pending[r] = Absent
    /\ outcome[r] = "unsent" => client[r] = "done" /\ pending[r] = Absent

LedgerInv == TypeOK /\ SentInv /\ PhaseInv /\ SlotLedger

(* A request once sent stays sent: no step takes it back. *)
LEMMA SentStable ==
  ASSUME TypeOK, [Next]_vars, NEW r \in Requests, Sent(r)
  PROVE  Sent(r)'
<1> USE DEF clientVars, routerVars, readerVars, kernelVars, workerVars
<1>1. ASSUME NEW q \in Requests, ClientNext(q)
      PROVE  Sent(r)'
  BY <1>1 DEF ClientNext, Reserve, SpillFailed, Insert, Count, Send, SendFailed,
              Receive, SeeClosed, GiveUp, Drop, Sent, TypeOK
<1>2. ASSUME NEW w \in Workers, ReaderNext(w)
      PROVE  Sent(r)'
  <2>1. UNCHANGED <<client, outcome>>
    BY <1>2 DEF ReaderNext, DropFrame, ReadClaim, ReadOverClaim, ReadResponse,
                ReadDone, ReadError, Unblock, ReadEof, DrainOne, ReaderExit, TakeFrame
  <2>2. QED
    BY <2>1 DEF Sent
<1>3. ASSUME NEW w \in Workers, WorkerNext(w)
      PROVE  Sent(r)'
  <2>1. UNCHANGED <<client, outcome>>
    BY <1>3 DEF WorkerNext, Spawn, Exit, Recv, FaultyRecv, SendClaim, SendData, SendEnd,
                SendDone, SendError, ObeyAbort, IgnoreAbort, FaultyFrame, Write
  <2>2. QED
    BY <2>1 DEF Sent
<1>4. CASE UNCHANGED vars
  BY <1>4 DEF vars, Sent
<1>5. QED
  BY <1>1, <1>2, <1>3, <1>4, StepCases

(* What connection tasks leave alone. *)
LEMMA ClientFrame ==
  ASSUME NEW r \in Requests, ClientNext(r)
  PROVE  UNCHANGED <<reader, claimed, hold, stream, proc, job>>
BY DEF ClientNext, Reserve, SpillFailed, Insert, Count, Send, SendFailed, Receive,
       SeeClosed, GiveUp, Drop, clientVars, routerVars, readerVars, kernelVars, workerVars

(* What reader tasks leave alone; a reader touches its own stream only, and *)
(* either takes the frame at its head or closes it.                         *)
LEMMA ReaderFrame ==
  ASSUME TypeOK, NEW w \in Workers, ReaderNext(w)
  PROVE  /\ UNCHANGED <<client, outcome, permits, work, proc, job, ctl>>
         /\ \/ UNCHANGED stream
            \/ stream' = [stream EXCEPT ![w] = <<>>]
            \/ TakeFrame(w)
BY DEF ReaderNext, DropFrame, ReadClaim, ReadOverClaim, ReadResponse, ReadDone, ReadError,
       Unblock, ReadEof, DrainOne, ReaderExit, TakeFrame,
       clientVars, routerVars, readerVars, kernelVars, workerVars

(* What worker processes leave alone. *)
LEMMA WorkerFrame ==
  ASSUME NEW w \in Workers, WorkerNext(w)
  PROVE  UNCHANGED <<client, outcome, permits, pending, inFlight, events, claimed, hold>>
BY DEF WorkerNext, Spawn, Exit, Recv, FaultyRecv, SendClaim, SendData, SendEnd,
       SendDone, SendError, ObeyAbort, IgnoreAbort, FaultyFrame, Write,
       clientVars, routerVars, readerVars, kernelVars, workerVars

(* A reader's claimed set grows only by the Claim it takes. *)
LEMMA ReaderClaims ==
  ASSUME TypeOK, NEW w \in Workers, ReaderNext(w), NEW v \in Workers, NEW r \in claimed'[v]
  PROVE  \/ r \in claimed[v]
         \/ /\ v = w /\ stream[w] # <<>>
            /\ Head(stream[w]).kind = "Claim" /\ Head(stream[w]).req = r
<1> USE DEF clientVars, routerVars, readerVars, kernelVars, workerVars
<1>1. CASE ReadClaim(w)
  <2>1. stream[w] # <<>> /\ Head(stream[w]).kind = "Claim"
    BY <1>1 DEF ReadClaim, TakeFrame, CanRead
  <2>2. \/ UNCHANGED claimed
        \/ claimed' = [claimed EXCEPT ![w] = @ \cup {Head(stream[w]).req}]
    BY <1>1 DEF ReadClaim
  <2>3. QED
    BY <2>1, <2>2 DEF TypeOK
<1>2. CASE ReadDone(w) \/ ReadError(w) \/ \E q \in Requests : DrainOne(w, q)
  <2>1. \E q : claimed' = [claimed EXCEPT ![w] = @ \ {q}]
    BY <1>2 DEF ReadDone, ReadError, DrainOne, FreeSlot
  <2>2. QED
    BY <2>1 DEF TypeOK
<1>3. CASE ~(ReadClaim(w) \/ ReadDone(w) \/ ReadError(w) \/ \E q \in Requests : DrainOne(w, q))
  <2>1. UNCHANGED claimed
    BY <1>3 DEF ReaderNext, DropFrame, ReadOverClaim, ReadResponse, Unblock, ReadEof, ReaderExit
  <2>2. QED
    BY <2>1
<1>4. QED
  BY <1>1, <1>2, <1>3

(* A worker starts on a request only by receiving its datagram. *)
LEMMA WorkerJobs ==
  ASSUME TypeOK, NEW w \in Workers, WorkerNext(w),
         NEW v \in Workers, NEW r \in Requests, job'[v][r] # "none"
  PROVE  job[v][r] # "none" \/ (work # <<>> /\ r = Head(work))
<1> USE DEF clientVars, routerVars, readerVars, kernelVars, workerVars
<1>1. CASE Spawn(w) \/ Exit(w)
  <2>1. job' = [job EXCEPT ![w] = [q \in Requests |-> "none"]]
    BY <1>1 DEF Spawn, Exit
  <2>2. v # w
    BY <2>1 DEF TypeOK
  <2>3. QED
    BY <2>1, <2>2 DEF TypeOK
<1>2. CASE Recv(w)
  <2>1. work # <<>> /\ job' = [job EXCEPT ![w][Head(work)] = "got"]
    BY <1>2 DEF Recv
  <2>2. Head(work) \in Requests
    BY <2>1 DEF TypeOK
  <2>3. QED
    BY <2>1, <2>2 DEF TypeOK
<1>3. CASE FaultyRecv(w)
  BY <1>3 DEF FaultyRecv
<1>4. ASSUME NEW q \in Requests, SendClaim(w, q) \/ SendEnd(w, q) \/ SendDone(w, q)
                                 \/ SendError(w, q) \/ ObeyAbort(w, q)
      PROVE  job[v][r] # "none"
  <2>1. job[w][q] # "none" /\ \E x : job' = [job EXCEPT ![w][q] = x]
    BY <1>4 DEF SendClaim, SendEnd, SendDone, SendError, ObeyAbort
  <2>2. QED
    BY <2>1 DEF TypeOK
<1>5. ASSUME NEW q \in Requests, SendData(w, q) \/ IgnoreAbort(w, q)
                                 \/ \E kind \in FrameKinds : FaultyFrame(w, kind, q)
      PROVE  job[v][r] # "none"
  BY <1>5 DEF SendData, IgnoreAbort, FaultyFrame
<1>6. QED
  BY <1>1, <1>2, <1>3, <1>4, <1>5 DEF WorkerNext

(* What a well-behaved worker writes: a Claim only for a datagram it got. *)
LEMMA WorkerWrites ==
  ASSUME TypeOK, NEW w \in Workers, WorkerNext(w)
  PROVE  \/ UNCHANGED stream
         \/ \E kind \in FrameKinds, r \in Requests :
              /\ stream' = [stream EXCEPT ![w] = Append(@, [kind |-> kind, req |-> r])]
              /\ kind = "Claim" /\ w \notin Faulty => job[w][r] = "got"
<1> DEFINE Goal ==
      \/ UNCHANGED stream
      \/ \E kind \in FrameKinds, r \in Requests :
           /\ stream' = [stream EXCEPT ![w] = Append(@, [kind |-> kind, req |-> r])]
           /\ kind = "Claim" /\ w \notin Faulty => job[w][r] = "got"
<1> USE DEF clientVars, routerVars, readerVars, kernelVars, workerVars
<1>1. CASE Spawn(w) \/ Exit(w) \/ Recv(w) \/ FaultyRecv(w)
  BY <1>1 DEF Spawn, Exit, Recv, FaultyRecv
<1>2. ASSUME NEW q \in Requests, NEW kind \in FrameKinds, Write(w, kind, q),
             kind = "Claim" /\ w \notin Faulty => job[w][q] = "got"
      PROVE  Goal
  BY <1>2 DEF Write
<1> HIDE DEF Goal
<1>3. ASSUME NEW q \in Requests, SendClaim(w, q)
      PROVE  Goal
  BY <1>2, <1>3 DEF SendClaim, FrameKinds
<1>4. ASSUME NEW q \in Requests,
             SendData(w, q) \/ SendEnd(w, q) \/ SendDone(w, q) \/ SendError(w, q)
             \/ ObeyAbort(w, q)
      PROVE  Goal
  <2>1. PICK kind \in FrameKinds \ {"Claim"} : Write(w, kind, q)
    BY <1>4 DEF SendData, SendEnd, SendDone, SendError, ObeyAbort, FrameKinds
  <2>2. QED
    BY <1>2, <2>1
<1>5. ASSUME NEW q \in Requests, IgnoreAbort(w, q)
      PROVE  Goal
  BY <1>5 DEF IgnoreAbort, Goal
<1>6. ASSUME NEW q \in Requests, NEW kind \in FrameKinds, FaultyFrame(w, kind, q)
      PROVE  Goal
  BY <1>2, <1>6 DEF FaultyFrame
<1>7. Goal
  <2>1. CASE Spawn(w) \/ Exit(w) \/ Recv(w) \/ FaultyRecv(w)
    BY <1>1, <2>1 DEF Goal
  <2>2. QED
    BY <1>3, <1>4, <1>5, <1>6, <2>1 DEF WorkerNext
<1>8. QED
  BY <1>7 DEF Goal

(* The shared queue: a sender appends the request it just sent, a worker   *)
(* takes the head, nobody else touches it.                                 *)
LEMMA WorkSteps ==
  ASSUME TypeOK, [Next]_vars
  PROVE  \/ UNCHANGED work
         \/ work # <<>> /\ work' = Tail(work)
         \/ \E r \in Requests :
              work' = Append(work, r) /\ client'[r] = "open" /\ UNCHANGED outcome
              /\ client[r] = "sending"
<1> USE DEF clientVars, routerVars, readerVars, kernelVars, workerVars
<1>1. ASSUME NEW q \in Requests, ClientNext(q)
      PROVE  \/ UNCHANGED work
             \/ \E r \in Requests :
                  work' = Append(work, r) /\ client'[r] = "open" /\ UNCHANGED outcome
                  /\ client[r] = "sending"
  BY <1>1 DEF ClientNext, Reserve, SpillFailed, Insert, Count, Send, SendFailed,
              Receive, SeeClosed, GiveUp, Drop, TypeOK
<1>2. ASSUME NEW w \in Workers, ReaderNext(w)
      PROVE  UNCHANGED work
  BY <1>2, ReaderFrame
<1>3. ASSUME NEW w \in Workers, WorkerNext(w)
      PROVE  UNCHANGED work \/ (work # <<>> /\ work' = Tail(work))
  BY <1>3 DEF WorkerNext, Spawn, Exit, Recv, FaultyRecv, SendClaim, SendData, SendEnd,
              SendDone, SendError, ObeyAbort, IgnoreAbort, FaultyFrame, Write
<1>4. QED
  BY <1>1, <1>2, <1>3 DEF Next, vars

(* Every step keeps the trail of a request that was sent.                  *)
LEMMA SentInvStep ==
  ASSUME TypeOK, SentInv, PhaseInv, [Next]_vars
  PROVE  SentInv'
<1> DEFINE Queued == \A i \in 1..Len(work) : Sent(work[i])
           Started(w) == \A r \in Requests : job[w][r] # "none" => Sent(r)
           Announced(w) == \A i \in 1..Len(stream[w]) :
                             stream[w][i].kind = "Claim" => Sent(stream[w][i].req)
           Owned(w) == \A r \in claimed[w] : Sent(r)
<1>1. \A r \in Requests : Sent(r) => Sent(r)'
  BY SentStable
<1>2. work \in Seq(Requests) /\ \A w \in Workers : stream[w] \in Seq(Frames)
  BY DEF TypeOK
<1>3. \A f \in Frames : f.req \in Requests
  BY DEF Frames
<1>4. Queued'
  <2>1. CASE UNCHANGED work
    BY <1>1, <1>2, <2>1 DEF SentInv
  <2>2. CASE work # <<>> /\ work' = Tail(work)
    BY <1>1, <1>2, <2>2 DEF SentInv
  <2>3. CASE \E r \in Requests : /\ work' = Append(work, r) /\ client'[r] = "open"
                                 /\ UNCHANGED outcome /\ client[r] = "sending"
    <3>1. PICK r \in Requests : /\ work' = Append(work, r) /\ client'[r] = "open"
                                /\ UNCHANGED outcome /\ client[r] = "sending"
      BY <2>3
    <3>2. outcome[r] # "unsent"
      BY <3>1 DEF PhaseInv
    <3>3. Sent(r)'
      BY <3>1, <3>2 DEF Sent
    <3>4. QED
      BY <1>1, <1>2, <3>1, <3>3 DEF SentInv
  <2>4. QED
    BY <2>1, <2>2, <2>3, WorkSteps
<1>5. ASSUME NEW q \in Requests, ClientNext(q), NEW w \in Workers \ Faulty
      PROVE  Started(w)' /\ Announced(w)' /\ Owned(w)'
  <2>1. UNCHANGED <<job, stream, claimed>>
    BY <1>5, ClientFrame
  <2>2. Started(w)'
    BY <1>1, <2>1 DEF SentInv
  <2>3. Announced(w)'
    BY <1>1, <1>2, <1>3, <2>1 DEF SentInv
  <2>4. Owned(w)'
    BY <1>1, <2>1 DEF SentInv, TypeOK
  <2>5. QED
    BY <2>2, <2>3, <2>4
<1>6. ASSUME NEW v \in Workers, ReaderNext(v), NEW w \in Workers \ Faulty
      PROVE  Started(w)' /\ Announced(w)' /\ Owned(w)'
  <2>1. UNCHANGED job
    BY <1>6, ReaderFrame
  <2>2. Started(w)'
    BY <1>1, <2>1 DEF SentInv
  <2>3. \/ stream'[w] = stream[w]
        \/ stream'[w] = <<>>
        \/ stream[w] # <<>> /\ stream'[w] = Tail(stream[w])
    <3>1. \/ UNCHANGED stream
          \/ stream' = [stream EXCEPT ![v] = <<>>]
          \/ stream[v] # <<>> /\ stream' = [stream EXCEPT ![v] = Tail(@)]
      BY <1>6, ReaderFrame DEF TakeFrame, CanRead
    <3>2. QED
      BY <3>1 DEF TypeOK
  <2>4. Announced(w)'
    <3>1. Announced(w)
      BY DEF SentInv
    <3>2. ASSUME NEW i \in 1..Len(stream'[w])
          PROVE  \E j \in 1..Len(stream[w]) : stream'[w][i] = stream[w][j]
      <4>1. CASE stream'[w] = stream[w]
        BY <4>1
      <4>2. CASE stream'[w] = <<>>
        BY <4>2
      <4>3. CASE stream[w] # <<>> /\ stream'[w] = Tail(stream[w])
        BY <1>2, <4>3
      <4>4. QED
        BY <2>3, <4>1, <4>2, <4>3
    <3>3. \A j \in 1..Len(stream[w]) : stream[w][j] \in Frames
      BY <1>2
    <3>4. QED
      BY <1>1, <1>3, <3>1, <3>2, <3>3
  <2>5. Owned(w)'
    <3>1. SUFFICES ASSUME NEW r \in claimed'[w]
                   PROVE  Sent(r)'
      OBVIOUS
    <3>2. CASE r \in claimed[w]
      BY <1>1, <3>2 DEF SentInv, TypeOK
    <3>3. CASE /\ stream[w] # <<>>
               /\ Head(stream[w]).kind = "Claim" /\ Head(stream[w]).req = r
      <4>1. 1 \in 1..Len(stream[w]) /\ Head(stream[w]) = stream[w][1]
        BY <1>2, <3>3
      <4>2. Sent(r) /\ stream[w][1] \in Frames
        BY <1>2, <3>3, <4>1 DEF SentInv
      <4>3. QED
        BY <1>1, <1>3, <3>3, <4>1, <4>2
    <3>4. QED
      BY <1>6, <3>2, <3>3, ReaderClaims
  <2>6. QED
    BY <2>2, <2>4, <2>5
<1>7. ASSUME NEW v \in Workers, WorkerNext(v), NEW w \in Workers \ Faulty
      PROVE  Started(w)' /\ Announced(w)' /\ Owned(w)'
  <2>1. Started(w)'
    <3>1. SUFFICES ASSUME NEW r \in Requests, job'[w][r] # "none"
                   PROVE  Sent(r)'
      OBVIOUS
    <3>2. CASE job[w][r] # "none"
      BY <1>1, <3>2 DEF SentInv
    <3>3. CASE work # <<>> /\ r = Head(work)
      <4>1. 1 \in 1..Len(work) /\ Head(work) = work[1]
        BY <1>2, <3>3
      <4>2. QED
        BY <1>1, <3>3, <4>1 DEF SentInv
    <3>4. QED
      BY <1>7, <3>1, <3>2, <3>3, WorkerJobs
  <2>2. Announced(w)'
    <3>1. CASE UNCHANGED stream
      BY <1>1, <1>2, <1>3, <3>1 DEF SentInv
    <3>2. ASSUME NEW kind \in FrameKinds, NEW r \in Requests,
                 stream' = [stream EXCEPT ![v] = Append(@, [kind |-> kind, req |-> r])],
                 kind = "Claim" /\ v \notin Faulty => job[v][r] = "got"
          PROVE  Announced(w)'
      <4>1. CASE v = w
        <5>1. /\ stream'[w] = Append(stream[w], [kind |-> kind, req |-> r])
              /\ stream[w] \in Seq(Frames)
          BY <3>2, <4>1, <1>2 DEF TypeOK
        <5>2. kind = "Claim" => Sent(r)'
          BY <1>1, <3>2, <4>1 DEF SentInv
        <5>3. QED
          BY <1>1, <1>3, <5>1, <5>2 DEF SentInv
      <4>2. CASE v # w
        <5>1. stream'[w] = stream[w]
          BY <3>2, <4>2 DEF TypeOK
        <5>2. QED
          BY <1>1, <1>2, <1>3, <5>1 DEF SentInv
      <4>3. QED
        BY <4>1, <4>2
    <3>3. QED
      BY <1>7, <3>1, <3>2, WorkerWrites
  <2>3. Owned(w)'
    BY <1>1, <1>7, WorkerFrame DEF SentInv, TypeOK
  <2>4. QED
    BY <2>1, <2>2, <2>3
<1>8. ASSUME UNCHANGED vars, NEW w \in Workers \ Faulty
      PROVE  Started(w)' /\ Announced(w)' /\ Owned(w)'
  BY <1>8, <1>1, <1>2, <1>3
     DEF vars, clientVars, routerVars, readerVars, kernelVars, workerVars, SentInv, TypeOK
<1>9. ASSUME NEW w \in Workers \ Faulty
      PROVE  Started(w)' /\ Announced(w)' /\ Owned(w)'
  BY <1>5, <1>6, <1>7, <1>8 DEF Next
<1>10. QED
  BY <1>4, <1>9 DEF SentInv

(* The three things a reader does to the ledger: nothing, take an unclaimed *)
(* entry within its grant, or free an entry of its own.                     *)
LEMMA ReaderLedger ==
  ASSUME TypeOK, NEW w \in Workers, ReaderNext(w)
  PROVE  \/ UNCHANGED <<pending, claimed>>
         \/ \E r \in Requests :
              /\ pending[r] = Unclaimed
              /\ pending' = [pending EXCEPT ![r] = w]
              /\ claimed' = [claimed EXCEPT ![w] = @ \cup {r}]
              /\ Cardinality(claimed[w]) < Granted
         \/ \E r \in claimed[w] :
              /\ pending' = [pending EXCEPT ![r] = Absent]
              /\ claimed' = [claimed EXCEPT ![w] = @ \ {r}]
              /\ \/ reader[w] = "draining"
                 \/ /\ CanRead(w) /\ Head(stream[w]).req = r
                    /\ Head(stream[w]).kind \in {"Done", "Error"}
<1> USE DEF clientVars, routerVars, readerVars, kernelVars, workerVars
<1>1. CASE ReadClaim(w)
  <2>1. Head(stream[w]).req \in Requests
    BY <1>1, TakeFrameType DEF ReadClaim
  <2>2. QED
    BY <1>1, <2>1 DEF ReadClaim
<1>2. CASE ReadDone(w) \/ ReadError(w)
  BY <1>2 DEF ReadDone, ReadError, FreeSlot, RemovePending, TakeFrame
<1>3. CASE \E q \in Requests : DrainOne(w, q)
  BY <1>3 DEF DrainOne, FreeSlot, RemovePending
<1>4. CASE ~(ReadClaim(w) \/ ReadDone(w) \/ ReadError(w) \/ \E q \in Requests : DrainOne(w, q))
  BY <1>4 DEF ReaderNext, DropFrame, ReadOverClaim, ReadResponse, Unblock, ReadEof, ReaderExit
<1>5. QED
  BY <1>1, <1>2, <1>3, <1>4

(* Connection tasks keep the table in step with the readers.               *)
LEMMA ClientLedger ==
  ASSUME LedgerInv, NEW q \in Requests, ClientNext(q)
  PROVE  PhaseInv' /\ SlotLedger'
<1> USE DispatchAssumption DEF LedgerInv, PhaseInv
<1>1. UNCHANGED claimed
  BY ClientFrame
<1>2. CASE Insert(q)
  <2>1. pending[q] = Absent /\ pending' = [pending EXCEPT ![q] = Unclaimed]
    BY <1>2 DEF Insert
  <2>2. \A w \in Workers : q \notin claimed[w]
    BY <1>2, <2>1 DEF Insert, SlotLedger
  <2>3. client' = [client EXCEPT ![q] = "inserted"] /\ UNCHANGED outcome
    BY <1>2 DEF Insert
  <2>4. PhaseInv'
    BY <1>2, <2>1, <2>3 DEF Insert, TypeOK
  <2>5. SlotLedger'
    BY <1>1, <2>1, <2>2, <2>3 DEF SlotLedger, TypeOK
  <2>6. QED
    BY <2>4, <2>5
<1>3. CASE SendFailed(q)
  <2>1. /\ pending' = [pending EXCEPT ![q] = Absent] /\ client[q] = "sending"
        /\ client' = [client EXCEPT ![q] = "done"]
        /\ outcome' = [outcome EXCEPT ![q] = "unsent"]
    BY <1>3 DEF SendFailed, RemovePending
  <2>2. \A w \in Workers : q \in claimed[w] => w \in Faulty
    BY <2>1 DEF SentInv, Sent
  <2>3. PhaseInv'
    BY <2>1 DEF TypeOK
  <2>4. SlotLedger'
    BY <1>1, <2>1, <2>2 DEF SlotLedger, TypeOK
  <2>5. QED
    BY <2>3, <2>4
<1>4. CASE Drop(q)
  <2>1. /\ client[q] = "leaving" /\ client' = [client EXCEPT ![q] = "done"]
        /\ UNCHANGED outcome
        /\ \/ UNCHANGED pending
           \/ pending[q] = Unclaimed /\ pending' = [pending EXCEPT ![q] = Absent]
    BY <1>4 DEF Drop, RemovePending
  <2>2. PhaseInv'
    BY <2>1 DEF TypeOK
  <2>3. SlotLedger'
    BY <1>1, <2>1 DEF SlotLedger, TypeOK
  <2>4. QED
    BY <2>2, <2>3
<1>5. CASE Reserve(q) \/ SpillFailed(q)
  <2>1. /\ UNCHANGED pending /\ client[q] \in {"new", "reserved"}
        /\ \E c \in ClientStates : client' = [client EXCEPT ![q] = c]
        /\ \/ UNCHANGED outcome
           \/ outcome' = [outcome EXCEPT ![q] = "rejected"]
           \/ /\ outcome' = [outcome EXCEPT ![q] = "unsent"]
              /\ client' = [client EXCEPT ![q] = "done"]
    BY <1>5 DEF Reserve, SpillFailed, routerVars, ClientStates
  <2>2. pending[q] = Absent /\ outcome[q] # "unsent"
    BY <2>1
  <2>3. PhaseInv'
    BY <2>1, <2>2 DEF TypeOK
  <2>4. SlotLedger'
    BY <1>1, <2>1, <2>2 DEF SlotLedger, TypeOK
  <2>5. QED
    BY <2>3, <2>4
<1>6. CASE Count(q) \/ Send(q) \/ Receive(q) \/ SeeClosed(q) \/ GiveUp(q)
  <2>1. /\ UNCHANGED pending /\ client[q] \in {"inserted", "sending", "open"}
        /\ \/ UNCHANGED client
           \/ \E c \in {"sending", "open", "leaving"} : client' = [client EXCEPT ![q] = c]
        /\ \/ UNCHANGED outcome
           \/ \E o \in Outcomes \ {"unsent"} : outcome' = [outcome EXCEPT ![q] = o]
    BY <1>6 DEF Count, Send, Receive, SeeClosed, GiveUp, routerVars, Outcomes
  <2>2. outcome[q] # "unsent"
    BY <2>1
  <2>3. PhaseInv'
    BY <2>1, <2>2 DEF TypeOK
  <2>4. SlotLedger'
    BY <1>1, <2>1, <2>2 DEF SlotLedger, TypeOK
  <2>5. QED
    BY <2>3, <2>4
<1>7. QED
  BY <1>2, <1>3, <1>4, <1>5, <1>6 DEF ClientNext

(* Readers keep their sets in step with the table.                         *)
LEMMA ReaderKeepsLedger ==
  ASSUME LedgerInv, NEW w \in Workers, ReaderNext(w)
  PROVE  PhaseInv' /\ SlotLedger'
<1> USE DispatchAssumption DEF LedgerInv
<1>1. UNCHANGED <<client, outcome>>
  BY ReaderFrame
<1>2. CASE UNCHANGED <<pending, claimed>>
  BY <1>1, <1>2 DEF PhaseInv, SlotLedger
<1>3. ASSUME NEW r \in Requests, pending[r] = Unclaimed,
             pending' = [pending EXCEPT ![r] = w],
             claimed' = [claimed EXCEPT ![w] = @ \cup {r}]
      PROVE  PhaseInv' /\ SlotLedger'
  <2>1. PhaseInv'
    BY <1>1, <1>3 DEF PhaseInv, TypeOK
  <2>2. \A v \in Workers : r \notin claimed[v]
    BY <1>3 DEF PhaseInv, SlotLedger
  <2>3. SlotLedger'
    BY <1>1, <1>3, <2>2 DEF SlotLedger, TypeOK
  <2>4. QED
    BY <2>1, <2>3
<1>4. ASSUME NEW r \in claimed[w],
             pending' = [pending EXCEPT ![r] = Absent],
             claimed' = [claimed EXCEPT ![w] = @ \ {r}]
      PROVE  PhaseInv' /\ SlotLedger'
  <2>1. r \in Requests
    BY <1>4 DEF TypeOK
  <2>2. PhaseInv'
    BY <1>1, <1>4, <2>1 DEF PhaseInv, TypeOK
  <2>3. pending[r] = w \/ outcome[r] = "unsent"
    BY <1>4, <2>1 DEF SlotLedger
  <2>4. SlotLedger'
    BY <1>1, <1>4, <2>1, <2>3 DEF SlotLedger, TypeOK, PhaseInv
  <2>5. QED
    BY <2>2, <2>4
<1>5. QED
  BY <1>2, <1>3, <1>4, ReaderLedger

(* Every step keeps the invariant.                                         *)
LEMMA LedgerStep ==
  ASSUME LedgerInv, [Next]_vars
  PROVE  LedgerInv'
<1>1. TypeOK'
  BY ClientType, ReaderType, WorkerType, StutterType, StepCases DEF LedgerInv
<1>2. SentInv'
  BY SentInvStep DEF LedgerInv
<1>3. ASSUME NEW w \in Workers, WorkerNext(w)
      PROVE  PhaseInv' /\ SlotLedger'
  <2>1. UNCHANGED <<client, outcome, pending, claimed>>
    BY <1>3, WorkerFrame DEF clientVars, routerVars, readerVars
  <2>2. QED
    BY <2>1 DEF LedgerInv, PhaseInv, SlotLedger
<1>4. ASSUME UNCHANGED vars
      PROVE  PhaseInv' /\ SlotLedger'
  <2>1. UNCHANGED <<client, outcome, pending, claimed>>
    BY <1>4 DEF vars, clientVars, routerVars, readerVars
  <2>2. QED
    BY <2>1 DEF LedgerInv, PhaseInv, SlotLedger
<1>5. PhaseInv' /\ SlotLedger'
  BY <1>3, <1>4, ClientLedger, ReaderKeepsLedger, StepCases
<1>6. QED
  BY <1>1, <1>2, <1>5 DEF LedgerInv

(* The table is empty.                                                     *)
LEMMA LedgerInit == Init => LedgerInv
<1> SUFFICES ASSUME Init PROVE LedgerInv
  OBVIOUS
<1>1. SentInv
  BY DEF Init, SentInv
<1>2. PhaseInv
  BY DEF Init, PhaseInv
<1>3. SlotLedger
  BY DispatchAssumption DEF Init, SlotLedger
<1>4. QED
  BY <1>1, <1>2, <1>3, InitType DEF LedgerInv

(* The invariant of ownership.                                             *)
LEMMA LedgerCorrect == Spec => []LedgerInv
<1>1. LedgerInv /\ [Next]_vars => LedgerInv'
  BY LedgerStep
<1>2. QED
  BY LedgerInit, <1>1, PTL DEF Spec

(* The table `pending` and the claimed sets of the readers never disagree   *)
(* about the owner of a request.                                            *)
THEOREM LedgerAgrees == Spec => []SlotLedger
<1>1. LedgerInv => SlotLedger
  BY DEF LedgerInv
<1>2. QED
  BY LedgerCorrect, <1>1, PTL

-----------------------------------------------------------------------------
(* The grant: a reader refuses the claim that would exceed it.             *)
GrantInv == TypeOK /\ GrantRespected

(* A reader takes a Claim below the grant only.                            *)
LEMMA ReaderKeepsGrant ==
  ASSUME GrantInv, NEW w \in Workers, ReaderNext(w)
  PROVE  GrantRespected'
<1> USE DispatchAssumption DEF GrantInv, GrantRespected
<1>1. \A v \in Workers : IsFiniteSet(claimed[v]) /\ Cardinality(claimed[v]) \in Nat
  BY FS_Subset, FS_CardinalityType DEF TypeOK
<1>2. CASE UNCHANGED claimed
  BY <1>2
<1>3. ASSUME NEW r \in Requests, Cardinality(claimed[w]) < Granted,
             claimed' = [claimed EXCEPT ![w] = @ \cup {r}]
      PROVE  GrantRespected'
  <2>1. Cardinality(claimed[w] \cup {r}) \in {Cardinality(claimed[w]), Cardinality(claimed[w]) + 1}
    BY <1>1, FS_AddElement
  <2>2. Cardinality(claimed[w] \cup {r}) <= Granted
    BY <1>1, <1>3, <2>1
  <2>3. QED
    BY <1>3, <2>2 DEF TypeOK
<1>4. ASSUME NEW r \in claimed[w], claimed' = [claimed EXCEPT ![w] = @ \ {r}]
      PROVE  GrantRespected'
  <2>1. Cardinality(claimed[w] \ {r}) = Cardinality(claimed[w]) - 1
    BY <1>1, FS_RemoveElement
  <2>2. Cardinality(claimed[w] \ {r}) <= Granted
    BY <1>1, <2>1
  <2>3. QED
    BY <1>4, <2>2 DEF TypeOK
<1>5. QED
  BY <1>2, <1>3, <1>4, ReaderLedger

(* Nobody else touches a reader's set.                                     *)
LEMMA GrantStep ==
  ASSUME GrantInv, [Next]_vars
  PROVE  GrantInv'
<1>1. TypeOK'
  BY ClientType, ReaderType, WorkerType, StutterType, StepCases DEF GrantInv
<1>2. ASSUME UNCHANGED claimed
      PROVE  GrantRespected'
  BY <1>2 DEF GrantInv, GrantRespected
<1>3. ASSUME UNCHANGED vars
      PROVE  GrantRespected'
  BY <1>2, <1>3 DEF vars, readerVars
<1>4. GrantRespected'
  BY <1>2, <1>3, ReaderKeepsGrant, ClientFrame, WorkerFrame, StepCases
<1>5. QED
  BY <1>1, <1>4 DEF GrantInv

(* No worker, a buggy one included, ever owns more requests than the grant *)
(* it was given in the handshake.                                           *)
THEOREM GrantHolds == Spec => []GrantRespected
<1>1. Init => GrantInv
  <2>1. Init => GrantRespected
    BY DispatchAssumption, FS_EmptySet DEF Init, GrantRespected
  <2>2. QED
    BY <2>1, InitType DEF GrantInv
<1>2. GrantInv /\ [Next]_vars => GrantInv'
  BY GrantStep
<1>3. GrantInv => GrantRespected
  BY DEF GrantInv
<1>4. QED
  BY <1>1, <1>2, <1>3, PTL DEF Spec

-----------------------------------------------------------------------------
(* Ownership is given up by the owner alone.                                *)
EndedByOwner(r, w) ==
  pending[r] = w /\ pending'[r] # w =>
    /\ pending'[r] = Absent
    /\ \/ reader[w] = "draining"
       \/ w \in Faulty /\ client[r] = "sending"
       \/ /\ CanRead(w)
          /\ Head(stream[w]).req = r
          /\ Head(stream[w]).kind \in {"Done", "Error"}

(* A connection task removes no claimed entry, but for a send that         *)
(* failed.                                                                 *)
LEMMA ClientLeavesOwned ==
  ASSUME LedgerInv, NEW q \in Requests, ClientNext(q), NEW r \in Requests, NEW w \in Workers
  PROVE  EndedByOwner(r, w)
<1> USE DispatchAssumption DEF LedgerInv, EndedByOwner
<1>1. CASE Insert(q)
  <2>1. pending[q] = Absent /\ pending' = [pending EXCEPT ![q] = Unclaimed]
    BY <1>1 DEF Insert, PhaseInv
  <2>2. QED
    BY <2>1 DEF TypeOK
<1>2. CASE SendFailed(q)
  <2>1. client[q] = "sending" /\ pending' = [pending EXCEPT ![q] = Absent]
    BY <1>2 DEF SendFailed, RemovePending
  <2>2. ~Sent(q)
    BY <2>1 DEF Sent
  <2>3. ASSUME pending[q] = w, w \notin Faulty
        PROVE  FALSE
    BY <2>2, <2>3 DEF SentInv, SlotLedger
  <2>4. QED
    BY <2>1, <2>3 DEF TypeOK
<1>3. CASE Drop(q)
  <2>1. CASE pending[q] = Unclaimed
    <3>1. pending' = [pending EXCEPT ![q] = Absent]
      BY <1>3, <2>1 DEF Drop, RemovePending
    <3>2. QED
      BY <2>1, <3>1 DEF TypeOK
  <2>2. CASE pending[q] # Unclaimed
    BY <1>3, <2>2 DEF Drop
  <2>3. QED
    BY <2>1, <2>2
<1>4. CASE ~(Insert(q) \/ SendFailed(q) \/ Drop(q))
  BY <1>4 DEF ClientNext, Reserve, SpillFailed, Count, Send, Receive, SeeClosed, GiveUp, routerVars
<1>5. QED
  BY <1>1, <1>2, <1>3, <1>4

(* A reader removes what its worker ended, or all when it drains.          *)
LEMMA ReaderLeavesOwned ==
  ASSUME LedgerInv, NEW v \in Workers, ReaderNext(v), NEW r \in Requests, NEW w \in Workers
  PROVE  EndedByOwner(r, w)
<1> USE DispatchAssumption DEF LedgerInv, EndedByOwner
<1>1. CASE UNCHANGED pending
  BY <1>1
<1>2. ASSUME NEW q \in Requests, pending[q] = Unclaimed, pending' = [pending EXCEPT ![q] = v]
      PROVE  EndedByOwner(r, w)
  BY <1>2 DEF TypeOK
<1>3. ASSUME NEW q \in claimed[v], pending' = [pending EXCEPT ![q] = Absent],
             \/ reader[v] = "draining"
             \/ /\ CanRead(v) /\ Head(stream[v]).req = q
                /\ Head(stream[v]).kind \in {"Done", "Error"}
      PROVE  EndedByOwner(r, w)
  <2>1. CASE q # r
    BY <1>3, <2>1 DEF TypeOK
  <2>2. ASSUME q = r, pending[r] = w
        PROVE  v = w
    <3>1. r \in claimed[v] /\ (pending[r] = v \/ outcome[r] = "unsent")
      BY <1>3, <2>2 DEF SlotLedger
    <3>2. outcome[r] # "unsent"
      BY <2>2 DEF PhaseInv
    <3>3. QED
      BY <2>2, <3>1, <3>2
  <2>3. QED
    BY <1>3, <2>1, <2>2 DEF TypeOK
<1>4. QED
  BY <1>1, <1>2, <1>3, ReaderLedger

(* A claimed task ends only by its owner's Done or Error or by the clean-up *)
(* after its owner: no other worker and no departing client frees or takes  *)
(* its slot.                                                                *)
THEOREM OwnershipKept == Spec => OwnerEndsTask
<1> DEFINE A == \A r \in Requests, w \in Workers : EndedByOwner(r, w)
<1>1. LedgerInv /\ [Next]_vars => A
  <2> SUFFICES ASSUME LedgerInv, [Next]_vars, NEW r \in Requests, NEW w \in Workers
               PROVE  EndedByOwner(r, w)
    OBVIOUS
  <2>1. ASSUME UNCHANGED pending
        PROVE  EndedByOwner(r, w)
    BY <2>1 DEF EndedByOwner
  <2>2. ASSUME UNCHANGED vars
        PROVE  EndedByOwner(r, w)
    BY <2>1, <2>2 DEF vars, routerVars
  <2>3. QED
    BY <2>1, <2>2, ClientLeavesOwned, ReaderLeavesOwned, WorkerFrame, StepCases
<1>2. QED
  BY LedgerCorrect, <1>1, PTL DEF Spec, OwnerEndsTask, EndedByOwner

-----------------------------------------------------------------------------
(* The counter. Entries are in the table; an uncounted one is between its   *)
(* insertion and the fetch_add that follows.                                *)
Entries   == {r \in Requests : pending[r] # Absent}
Uncounted == {r \in Requests : client[r] = "inserted"}

CountInv == LedgerInv /\ inFlight = Cardinality(Entries) - Cardinality(Uncounted)

(* Entries are requests, so they can be counted.                           *)
LEMMA EntriesFinite ==
  /\ IsFiniteSet(Entries) /\ Cardinality(Entries) \in Nat
  /\ IsFiniteSet(Uncounted) /\ Cardinality(Uncounted) \in Nat
<1>1. Entries \subseteq Requests /\ Uncounted \subseteq Requests
  BY DEF Entries, Uncounted
<1>2. QED
  BY <1>1, DispatchAssumption, FS_Subset, FS_CardinalityType

(* An entry that goes takes one off the counter; what is not there does not. *)
LEMMA RemovalCounts ==
  ASSUME CountInv, NEW r \in Requests, RemovePending(r), Uncounted' = Uncounted
  PROVE  inFlight' = Cardinality(Entries') - Cardinality(Uncounted')
<1> USE DEF CountInv, LedgerInv
<1>1. pending' = [pending EXCEPT ![r] = Absent]
  BY DEF RemovePending
<1>2. CASE pending[r] = Absent
  <2>1. Entries' = Entries
    BY <1>1, <1>2 DEF Entries, TypeOK
  <2>2. inFlight' = inFlight
    BY <1>2 DEF RemovePending
  <2>3. QED
    BY <2>1, <2>2
<1>3. CASE pending[r] # Absent
  <2>1. Entries' = Entries \ {r} /\ r \in Entries
    BY <1>1, <1>3 DEF Entries, TypeOK
  <2>2. Cardinality(Entries \ {r}) = Cardinality(Entries) - 1
    BY <2>1, EntriesFinite, FS_RemoveElement
  <2>3. inFlight' = inFlight - 1
    BY <1>3 DEF RemovePending
  <2>4. QED
    BY <2>1, <2>2, <2>3, EntriesFinite
<1>4. QED
  BY <1>2, <1>3

(* Connection tasks keep the counter: submit, its failure, the drop of an  *)
(* entry.                                                                  *)
LEMMA ClientCounts ==
  ASSUME CountInv, NEW q \in Requests, ClientNext(q)
  PROVE  inFlight' = Cardinality(Entries') - Cardinality(Uncounted')
<1> USE DEF CountInv, LedgerInv
<1>1. CASE Insert(q)
  <2>1. /\ client[q] = "reserved" /\ client' = [client EXCEPT ![q] = "inserted"]
        /\ pending[q] = Absent /\ pending' = [pending EXCEPT ![q] = Unclaimed]
        /\ UNCHANGED inFlight
    BY <1>1 DEF Insert, PhaseInv
  <2>2. Entries' = Entries \cup {q} /\ q \notin Entries
    BY <2>1, DispatchAssumption DEF Entries, TypeOK
  <2>3. Uncounted' = Uncounted \cup {q} /\ q \notin Uncounted
    BY <2>1 DEF Uncounted, TypeOK
  <2>4. Cardinality(Entries \cup {q}) = Cardinality(Entries) + 1
    BY <2>2, EntriesFinite, FS_AddElement
  <2>5. Cardinality(Uncounted \cup {q}) = Cardinality(Uncounted) + 1
    BY <2>3, EntriesFinite, FS_AddElement
  <2>6. QED
    BY <2>1, <2>2, <2>3, <2>4, <2>5, EntriesFinite
<1>2. CASE Count(q)
  <2>1. /\ client[q] = "inserted" /\ client' = [client EXCEPT ![q] = "sending"]
        /\ UNCHANGED pending /\ inFlight' = inFlight + 1
    BY <1>2 DEF Count
  <2>2. Entries' = Entries
    BY <2>1 DEF Entries
  <2>3. Uncounted' = Uncounted \ {q} /\ q \in Uncounted
    BY <2>1 DEF Uncounted, TypeOK
  <2>4. Cardinality(Uncounted \ {q}) = Cardinality(Uncounted) - 1
    BY <2>3, EntriesFinite, FS_RemoveElement
  <2>5. QED
    BY <2>1, <2>2, <2>3, <2>4, EntriesFinite
<1>3. ASSUME ~Insert(q), ~Count(q)
      PROVE  Uncounted' = Uncounted
  <2>1. /\ client[q] # "inserted"
        /\ \/ UNCHANGED client
           \/ \E c \in ClientStates \ {"inserted"} : client' = [client EXCEPT ![q] = c]
    BY <1>3 DEF ClientNext, Reserve, SpillFailed, Send, SendFailed, Receive, SeeClosed, GiveUp,
                Drop, ClientStates
  <2>2. QED
    BY <2>1 DEF Uncounted, TypeOK
<1>4. CASE SendFailed(q) \/ (Drop(q) /\ pending[q] = Unclaimed)
  <2>1. RemovePending(q)
    BY <1>4 DEF SendFailed, Drop
  <2>2. ~Insert(q) /\ ~Count(q)
    BY <1>4 DEF SendFailed, Drop, Insert, Count
  <2>3. QED
    BY <1>3, <2>1, <2>2, RemovalCounts
<1>5. CASE /\ ~Insert(q) /\ ~Count(q) /\ ~SendFailed(q)
           /\ ~(Drop(q) /\ pending[q] = Unclaimed)
  <2>1. UNCHANGED <<pending, inFlight>>
    BY <1>5 DEF ClientNext, Reserve, SpillFailed, Send, Receive, SeeClosed, GiveUp, Drop, routerVars
  <2>2. Entries' = Entries
    BY <2>1 DEF Entries
  <2>3. QED
    BY <1>3, <1>5, <2>1, <2>2
<1>6. QED
  BY <1>1, <1>2, <1>4, <1>5

(* Readers keep the counter: Done, Error, the clean-up.                    *)
LEMMA ReaderCounts ==
  ASSUME CountInv, NEW w \in Workers, ReaderNext(w)
  PROVE  inFlight' = Cardinality(Entries') - Cardinality(Uncounted')
<1> USE DEF CountInv, LedgerInv
<1>1. Uncounted' = Uncounted
  BY ReaderFrame DEF Uncounted
<1>2. CASE ReadDone(w) \/ ReadError(w) \/ \E q \in Requests : DrainOne(w, q)
  <2>1. \E r \in Requests : RemovePending(r)
    <3>1. CASE ReadDone(w) \/ ReadError(w)
      BY <3>1, TakeFrameType DEF ReadDone, ReadError, FreeSlot
    <3>2. CASE \E q \in Requests : DrainOne(w, q)
      BY <3>2 DEF DrainOne, FreeSlot
    <3>3. QED
      BY <1>2, <3>1, <3>2
  <2>2. QED
    BY <1>1, <2>1, RemovalCounts
<1>3. CASE ReadClaim(w)
  <2>1. /\ UNCHANGED inFlight
        /\ \/ UNCHANGED pending
           \/ \E r \in Requests : pending[r] = Unclaimed /\ pending' = [pending EXCEPT ![r] = w]
    BY <1>3, TakeFrameType DEF ReadClaim
  <2>2. Entries' = Entries
    BY <2>1, DispatchAssumption DEF Entries, TypeOK
  <2>3. QED
    BY <1>1, <2>1, <2>2
<1>4. CASE ~(ReadClaim(w) \/ ReadDone(w) \/ ReadError(w) \/ \E q \in Requests : DrainOne(w, q))
  <2>1. UNCHANGED <<pending, inFlight>>
    BY <1>4 DEF ReaderNext, DropFrame, ReadOverClaim, ReadResponse, Unblock, ReadEof, ReaderExit,
                routerVars
  <2>2. Entries' = Entries
    BY <2>1 DEF Entries
  <2>3. QED
    BY <1>1, <2>1, <2>2
<1>5. QED
  BY <1>2, <1>3, <1>4

(* in_flight is the number of entries in the table, less those a submit has *)
(* inserted and is about to count: the counter growth, the janitor and the  *)
(* status page read cannot drift, whatever mix of Done, Error, withdrawal,  *)
(* abandonment and worker death ends the requests.                          *)
THEOREM CounterExact == Spec => []InFlightExact
<1>1. Init => CountInv
  <2> SUFFICES ASSUME Init PROVE CountInv
    OBVIOUS
  <2>1. Entries = {} /\ Uncounted = {} /\ inFlight = 0
    BY DEF Init, Entries, Uncounted
  <2>2. QED
    BY <2>1, LedgerInit, FS_EmptySet DEF CountInv
<1>2. CountInv /\ [Next]_vars => CountInv'
  <2> SUFFICES ASSUME CountInv, [Next]_vars PROVE CountInv'
    OBVIOUS
  <2> DEFINE Exact == inFlight = Cardinality(Entries) - Cardinality(Uncounted)
  <2>1. ASSUME UNCHANGED <<client, pending, inFlight>>
        PROVE  Exact'
    BY <2>1 DEF CountInv, Entries, Uncounted
  <2>2. ASSUME UNCHANGED vars
        PROVE  Exact'
    BY <2>1, <2>2 DEF vars, clientVars, routerVars
  <2>3. Exact'
    <3> HIDE DEF Exact
    <3>1. \A q \in Requests : ClientNext(q) => Exact'
      BY ClientCounts DEF Exact
    <3>2. \A w \in Workers : ReaderNext(w) => Exact'
      BY ReaderCounts DEF Exact
    <3>3. \A w \in Workers : WorkerNext(w) => Exact'
      BY <2>1, WorkerFrame
    <3>4. QED
      BY <2>2, <3>1, <3>2, <3>3, StepCases
  <2>4. QED
    BY <2>3, LedgerStep DEF CountInv
<1>3. CountInv => InFlightExact
  BY DEF CountInv, InFlightExact, Entries, Uncounted
<1>4. QED
  BY <1>1, <1>2, <1>3, PTL DEF Spec
-----------------------------------------------------------------------------
(* The queue. A connection task holds a permit from Reserve to Drop, and an *)
(* entry nobody claimed has such a task behind it.                          *)
Holders == {r \in Requests : client[r] \in {"reserved", "inserted", "sending", "open", "leaving"}}

BacklogInv ==
  /\ LedgerInv
  /\ permits + Cardinality(Holders) = QueueMax
  /\ \A r \in Requests : pending[r] = Unclaimed => r \in Holders

(* Permits are held by finitely many.                                      *)
LEMMA HoldersFinite == IsFiniteSet(Holders) /\ Cardinality(Holders) \in Nat
<1>1. Holders \subseteq Requests
  BY DEF Holders
<1>2. QED
  BY <1>1, DispatchAssumption, FS_Subset, FS_CardinalityType

(* Taking a permit, returning one, and moving on with it. *)
LEMMA PermitMoves ==
  ASSUME BacklogInv, NEW q \in Requests,
         \/ /\ Holders' = Holders \cup {q} /\ q \notin Holders /\ permits' = permits - 1
         \/ /\ Holders' = Holders \ {q} /\ q \in Holders /\ permits' = permits + 1
         \/ /\ Holders' = Holders /\ permits' = permits
  PROVE  permits' + Cardinality(Holders') = QueueMax
<1>1. permits \in Nat /\ QueueMax \in Nat
  BY DispatchAssumption DEF BacklogInv, LedgerInv, TypeOK
<1>2. q \notin Holders => Cardinality(Holders \cup {q}) = Cardinality(Holders) + 1
  BY HoldersFinite, FS_AddElement
<1>3. q \in Holders => Cardinality(Holders \ {q}) = Cardinality(Holders) - 1
  BY HoldersFinite, FS_RemoveElement
<1>4. Cardinality(Holders) \in Nat /\ permits + Cardinality(Holders) = QueueMax
  BY HoldersFinite DEF BacklogInv
<1>5. CASE Holders' = Holders \cup {q} /\ q \notin Holders /\ permits' = permits - 1
  <2>1. Cardinality(Holders') = Cardinality(Holders) + 1
    BY <1>2, <1>5
  <2>2. QED
    BY <1>1, <1>4, <1>5, <2>1
<1>6. CASE Holders' = Holders \ {q} /\ q \in Holders /\ permits' = permits + 1
  <2>1. Cardinality(Holders') = Cardinality(Holders) - 1
    BY <1>3, <1>6
  <2>2. QED
    BY <1>1, <1>4, <1>6, <2>1
<1>7. CASE Holders' = Holders /\ permits' = permits
  BY <1>4, <1>7
<1>8. QED
  BY <1>5, <1>6, <1>7

(* Connection tasks keep permits and entries in step.                      *)
LEMMA ClientBacklog ==
  ASSUME BacklogInv, NEW q \in Requests, ClientNext(q)
  PROVE  /\ permits' + Cardinality(Holders') = QueueMax
         /\ \A r \in Requests : pending'[r] = Unclaimed => r \in Holders'
<1> USE DispatchAssumption DEF BacklogInv, LedgerInv
<1> DEFINE Backed == \A r \in Requests : pending'[r] = Unclaimed => r \in Holders'
<1>1. CASE Reserve(q)
  <2>1. client[q] = "new" /\ UNCHANGED pending /\ pending[q] = Absent
    BY <1>1 DEF Reserve, routerVars, PhaseInv
  <2>2. CASE permits > 0
    <3>1. client' = [client EXCEPT ![q] = "reserved"] /\ permits' = permits - 1
      BY <1>1, <2>2 DEF Reserve
    <3>2. Holders' = Holders \cup {q} /\ q \notin Holders
      BY <2>1, <3>1 DEF Holders, TypeOK
    <3>3. QED
      BY <2>1, <3>1, <3>2, PermitMoves
  <2>3. CASE ~(permits > 0)
    <3>1. client' = [client EXCEPT ![q] = "done"] /\ permits' = permits
      BY <1>1, <2>3 DEF Reserve
    <3>2. Holders' = Holders
      BY <2>1, <3>1 DEF Holders, TypeOK
    <3>3. QED
      BY <2>1, <3>1, <3>2, PermitMoves
  <2>4. QED
    BY <2>2, <2>3
<1>2. CASE SpillFailed(q) \/ SendFailed(q) \/ Drop(q)
  <2>1. /\ client[q] \in {"reserved", "sending", "leaving"}
        /\ client' = [client EXCEPT ![q] = "done"] /\ permits' = permits + 1
    BY <1>2 DEF SpillFailed, SendFailed, Drop
  <2>2. Holders' = Holders \ {q} /\ q \in Holders
    BY <2>1 DEF Holders, TypeOK
  <2>3. /\ pending'[q] # Unclaimed
        /\ \A r \in Requests \ {q} : pending'[r] = pending[r]
    <3>1. CASE SpillFailed(q)
      BY <3>1 DEF SpillFailed, routerVars, PhaseInv
    <3>2. CASE SendFailed(q) \/ (Drop(q) /\ pending[q] = Unclaimed)
      <4>1. pending' = [pending EXCEPT ![q] = Absent]
        BY <3>2 DEF SendFailed, Drop, RemovePending
      <4>2. QED
        BY <4>1 DEF TypeOK
    <3>3. CASE Drop(q) /\ pending[q] # Unclaimed
      BY <3>3 DEF Drop
    <3>4. QED
      BY <1>2, <3>1, <3>2, <3>3
  <2>4. Backed
    BY <2>2, <2>3
  <2>5. QED
    BY <2>1, <2>2, <2>4, PermitMoves
<1>3. CASE \/ Insert(q) \/ Count(q) \/ Send(q) \/ Receive(q) \/ SeeClosed(q) \/ GiveUp(q)
  <2>1. /\ client[q] \in {"reserved", "inserted", "sending", "open"} /\ UNCHANGED permits
        /\ \/ UNCHANGED client
           \/ \E c \in {"inserted", "sending", "open", "leaving"} : client' = [client EXCEPT ![q] = c]
    BY <1>3 DEF Insert, Count, Send, Receive, SeeClosed, GiveUp
  <2>2. Holders' = Holders /\ q \in Holders
    BY <2>1 DEF Holders, TypeOK
  <2>3. UNCHANGED pending \/ pending' = [pending EXCEPT ![q] = Unclaimed]
    BY <1>3 DEF Insert, Count, Send, Receive, SeeClosed, GiveUp, routerVars
  <2>4. Backed
    BY <2>2, <2>3 DEF TypeOK
  <2>5. QED
    BY <2>1, <2>2, <2>4, PermitMoves
<1>4. QED
  BY <1>1, <1>2, <1>3 DEF ClientNext

(* Readers make no entry unclaimed.                                        *)
LEMMA ReaderBacklog ==
  ASSUME BacklogInv, NEW w \in Workers, ReaderNext(w)
  PROVE  /\ permits' + Cardinality(Holders') = QueueMax
         /\ \A r \in Requests : pending'[r] = Unclaimed => r \in Holders'
<1> USE DispatchAssumption DEF BacklogInv, LedgerInv
<1>1. UNCHANGED permits /\ Holders' = Holders
  BY ReaderFrame DEF Holders
<1>2. \A r \in Requests : pending'[r] = Unclaimed => pending[r] = Unclaimed
  <2>1. ASSUME NEW q, NEW x \in {w, Absent}, pending' = [pending EXCEPT ![q] = x]
        PROVE  \A r \in Requests : pending'[r] = Unclaimed => pending[r] = Unclaimed
    BY <2>1 DEF TypeOK
  <2>2. QED
    BY <2>1, ReaderLedger
<1>3. QED
  BY <1>1, <1>2

(* The requests nobody has claimed yet are never more than queue.max: the   *)
(* permit that admitted each is held until its entry is claimed or gone,    *)
(* through timeouts, failed sends and clients that leave.                   *)
THEOREM BacklogBounded == Spec => []BoundedBacklog
<1> DEFINE Books == /\ permits + Cardinality(Holders) = QueueMax
                    /\ \A r \in Requests : pending[r] = Unclaimed => r \in Holders
<1>1. Init => BacklogInv
  <2> SUFFICES ASSUME Init PROVE BacklogInv
    OBVIOUS
  <2>1. Holders = {} /\ permits = QueueMax
    BY DEF Init, Holders
  <2>2. \A r \in Requests : pending[r] # Unclaimed
    BY DispatchAssumption DEF Init
  <2>3. QED
    BY <2>1, <2>2, LedgerInit, FS_EmptySet, DispatchAssumption DEF BacklogInv
<1>2. BacklogInv /\ [Next]_vars => BacklogInv'
  <2> SUFFICES ASSUME BacklogInv, [Next]_vars PROVE BacklogInv'
    OBVIOUS
  <2>1. ASSUME UNCHANGED <<client, permits, pending>>
        PROVE  Books'
    BY <2>1 DEF BacklogInv, Holders
  <2>2. ASSUME UNCHANGED vars
        PROVE  Books'
    BY <2>1, <2>2 DEF vars, clientVars, routerVars
  <2>3. Books'
    <3> HIDE DEF Books
    <3>1. \A q \in Requests : ClientNext(q) => Books'
      BY ClientBacklog DEF Books
    <3>2. \A w \in Workers : ReaderNext(w) => Books'
      BY ReaderBacklog DEF Books
    <3>3. \A w \in Workers : WorkerNext(w) => Books'
      BY <2>1, WorkerFrame
    <3>4. QED
      BY <2>2, <3>1, <3>2, <3>3, StepCases
  <2>4. QED
    BY <2>3, LedgerStep DEF BacklogInv
<1>3. BacklogInv => BoundedBacklog
  <2> SUFFICES ASSUME BacklogInv PROVE BoundedBacklog
    OBVIOUS
  <2>1. {r \in Requests : pending[r] = Unclaimed} \subseteq Holders
    BY DEF BacklogInv
  <2>2. /\ Cardinality({r \in Requests : pending[r] = Unclaimed}) <= Cardinality(Holders)
        /\ Cardinality({r \in Requests : pending[r] = Unclaimed}) \in Nat
    BY <2>1, HoldersFinite, FS_Subset, FS_CardinalityType
  <2>3. permits \in Nat /\ QueueMax \in Nat
    BY DispatchAssumption DEF BacklogInv, LedgerInv, TypeOK
  <2>4. QED
    BY <2>2, <2>3, HoldersFinite DEF BacklogInv, BoundedBacklog
<1>4. QED
  BY <1>1, <1>2, <1>3, PTL DEF Spec

-----------------------------------------------------------------------------
(* The answers. A worker whose event is in the channel of a request, or on  *)
(* its way there, owns the request or owned it when the entry went away.    *)
AnswersOf(r) ==
  \A v \in Answerers(r) :
    /\ client[r] \notin {"new", "reserved"}
    /\ pending[r] \in {Absent, v}
    /\ \A w \in Answerers(r) : v = w

AnswerInv == LedgerInv /\ \A r \in Requests : AnswersOf(r)

(* What a channel holds comes from what was put there. *)
LEMMA ChannelFrom ==
  ASSUME NEW s \in Seq(Events), NEW e \in Events
  PROVE  /\ {Append(s, e)[i].from : i \in DOMAIN Append(s, e)}
              = {s[i].from : i \in DOMAIN s} \cup {e.from}
         /\ s # <<>> => {Tail(s)[i].from : i \in DOMAIN Tail(s)} \subseteq {s[i].from : i \in DOMAIN s}
<1>1. /\ DOMAIN Append(s, e) = DOMAIN s \cup {Len(s) + 1}
      /\ \A i \in DOMAIN s : Append(s, e)[i] = s[i]
      /\ Append(s, e)[Len(s) + 1] = e
  OBVIOUS
<1>2. {Append(s, e)[i].from : i \in DOMAIN Append(s, e)} = {s[i].from : i \in DOMAIN s} \cup {e.from}
  BY <1>1
<1>3. s # <<>> => \A i \in DOMAIN Tail(s) : i + 1 \in DOMAIN s /\ Tail(s)[i] = s[i + 1]
  OBVIOUS
<1>4. ASSUME s # <<>>, NEW v \in {Tail(s)[i].from : i \in DOMAIN Tail(s)}
      PROVE  v \in {s[i].from : i \in DOMAIN s}
  <2>1. PICK i \in DOMAIN Tail(s) : v = Tail(s)[i].from
    BY <1>4
  <2>2. i + 1 \in DOMAIN s /\ v = s[i + 1].from
    BY <1>3, <1>4, <2>1
  <2>3. QED
    BY <2>2
<1>5. QED
  BY <1>2, <1>4

(* Events come from workers.                                               *)
LEMMA AnswerersAreWorkers ==
  ASSUME TypeOK, NEW r \in Requests
  PROVE  Answerers(r) \subseteq Workers
<1>1. events[r] \in Seq(Events)
  BY DEF TypeOK
<1>2. \A i \in DOMAIN events[r] : events[r][i] \in Events
  BY <1>1
<1>3. QED
  BY <1>2 DEF Answerers, Events

(* Who answers depends on the channel and on the readers' hands alone. *)
LEMMA AnswerersKept ==
  ASSUME UNCHANGED <<client, pending, events, hold>>, NEW r, AnswersOf(r)
  PROVE  AnswersOf(r)'
BY DEF AnswersOf, Answerers

(* Connection tasks only take events out.                                  *)
LEMMA ClientAnswers ==
  ASSUME AnswerInv, NEW q \in Requests, ClientNext(q), NEW r \in Requests
  PROVE  AnswersOf(r)'
<1> USE DEF AnswerInv, LedgerInv
<1>1. UNCHANGED hold
  BY ClientFrame
<1>2. \/ UNCHANGED events
      \/ events' = [events EXCEPT ![q] = <<>>]
      \/ events[q] # <<>> /\ events' = [events EXCEPT ![q] = Tail(@)]
  BY DEF ClientNext, Reserve, SpillFailed, Insert, Count, Send, SendFailed, Receive, SeeClosed,
         GiveUp, Drop, routerVars
<1>3. Answerers(r)' \subseteq Answerers(r)
  <2>1. CASE UNCHANGED events \/ q # r
    <3>1. events'[r] = events[r]
      BY <1>2, <2>1 DEF TypeOK
    <3>2. QED
      BY <1>1, <3>1 DEF Answerers
  <2>2. CASE q = r /\ events' = [events EXCEPT ![q] = <<>>]
    <3>1. events'[r] = <<>>
      BY <2>2 DEF TypeOK
    <3>2. QED
      BY <1>1, <3>1 DEF Answerers
  <2>3. CASE q = r /\ events[q] # <<>> /\ events' = [events EXCEPT ![q] = Tail(@)]
    <3>1. events[r] \in Seq(Events) /\ events[r] # <<>> /\ events'[r] = Tail(events[r])
      BY <2>3 DEF TypeOK
    <3>2. events[r][1] \in Events
      BY <3>1
    <3>3. {Tail(events[r])[i].from : i \in DOMAIN Tail(events[r])}
             \subseteq {events[r][i].from : i \in DOMAIN events[r]}
      BY <3>1, <3>2, ChannelFrom
    <3>4. QED
      BY <1>1, <3>1, <3>3 DEF Answerers
  <2>4. QED
    BY <1>2, <2>1, <2>2, <2>3
<1>4. client'[r] \in {"new", "reserved"} => client[r] \in {"new", "reserved"}
  BY DEF ClientNext, Reserve, SpillFailed, Insert, Count, Send, SendFailed, Receive, SeeClosed,
         GiveUp, Drop, TypeOK
<1>5. \/ pending'[r] \in {pending[r], Absent}
      \/ client[r] = "reserved"
  BY DEF ClientNext, Reserve, SpillFailed, Insert, Count, Send, SendFailed, Receive, SeeClosed,
         GiveUp, Drop, RemovePending, TypeOK, routerVars
<1>6. QED
  BY <1>3, <1>4, <1>5 DEF AnswersOf

(* A request with a listener belongs to the reader that has claimed it, and *)
(* so do all its answers.                                                   *)
LEMMA OwnerAnswers ==
  ASSUME AnswerInv, NEW w \in Workers, NEW r \in claimed[w], Listening(r)
  PROVE  r \in Requests /\ pending[r] = w /\ Answerers(r) \subseteq {w}
<1>1. r \in Requests
  BY DEF AnswerInv, LedgerInv, TypeOK
<1>2. outcome[r] # "unsent"
  BY <1>1 DEF AnswerInv, LedgerInv, PhaseInv, Listening
<1>3. pending[r] = w
  BY <1>1, <1>2 DEF AnswerInv, LedgerInv, SlotLedger
<1>4. \A v \in Answerers(r) : v = w
  BY <1>1, <1>3, DispatchAssumption DEF AnswerInv, AnswersOf
<1>5. QED
  BY <1>1, <1>3, <1>4

(* What a send adds to the answers of any request. *)
LEMMA DeliverAnswers ==
  ASSUME AnswerInv, NEW w \in Workers, hold[w] = None, NEW q \in Requests, NEW kind \in EventKinds,
         Deliver(w, q, kind), NEW r \in Requests
  PROVE  Answerers(r)' \subseteq Answerers(r) \cup {v \in {w} : r = q /\ Listening(q)}
<1> USE DEF AnswerInv, LedgerInv
<1>0. Len(events[q]) \in Nat /\ EventCap \in Nat
  <2>1. events[q] \in Seq(Events)
    BY DEF TypeOK
  <2>2. QED
    BY <2>1, DispatchAssumption
<1>1. CASE ~Listening(q)
  BY <1>1 DEF Deliver, Answerers
<1>2. CASE Listening(q) /\ Len(events[q]) < EventCap
  <2>1. events' = [events EXCEPT ![q] = Append(@, [kind |-> kind, from |-> w])] /\ UNCHANGED hold
    BY <1>0, <1>2 DEF Deliver
  <2>2. CASE r # q
    <3>1. events'[r] = events[r]
      BY <2>1, <2>2 DEF TypeOK
    <3>2. QED
      BY <2>1, <3>1 DEF Answerers
  <2>3. CASE r = q
    <3>1. events[r] \in Seq(Events) /\ events'[r] = Append(events[r], [kind |-> kind, from |-> w])
      BY <2>1, <2>3 DEF TypeOK
    <3>2. [kind |-> kind, from |-> w] \in Events
      BY DEF Events
    <3>3. {events'[r][i].from : i \in DOMAIN events'[r]} = {events[r][i].from : i \in DOMAIN events[r]} \cup {w}
      BY <3>1, <3>2, ChannelFrom
    <3>4. QED
      BY <1>2, <2>1, <2>3, <3>3 DEF Answerers
  <2>4. QED
    BY <2>2, <2>3
<1>3. CASE Listening(q) /\ Len(events[q]) >= EventCap
  <2>1. hold' = [hold EXCEPT ![w] = [kind |-> kind, req |-> q]] /\ UNCHANGED events
    BY <1>0, <1>3 DEF Deliver
  <2>2. \A v \in Workers : v # w => hold'[v] = hold[v]
    BY <2>1 DEF TypeOK
  <2>3. hold'[w].req = q
    BY <2>1 DEF TypeOK
  <2>4. QED
    BY <1>3, <2>1, <2>2, <2>3 DEF Answerers
<1>4. QED
  BY <1>0, <1>1, <1>2, <1>3

(* A send of the owner, with or without the end of its slot, keeps the      *)
(* answers in one hand.                                                     *)
LEMMA OwnerSends ==
  ASSUME AnswerInv, NEW w \in Workers, NEW q \in claimed[w], UNCHANGED client,
         UNCHANGED pending \/ pending' = [pending EXCEPT ![q] = Absent],
         \A r \in Requests :
           Answerers(r)' \subseteq Answerers(r) \cup {v \in {w} : r = q /\ Listening(q)},
         NEW r \in Requests
  PROVE  AnswersOf(r)'
<1> USE DEF AnswerInv, LedgerInv
<1>1. pending'[r] \in {pending[r], Absent}
  BY DEF TypeOK
<1>2. CASE r = q /\ Listening(q)
  <2>1. pending[r] = w /\ Answerers(r)' \subseteq {w}
    BY <1>2, OwnerAnswers
  <2>2. client'[r] \notin {"new", "reserved"}
    BY <1>2 DEF Listening
  <2>3. QED
    BY <1>1, <2>1, <2>2 DEF AnswersOf
<1>3. CASE ~(r = q /\ Listening(q))
  <2>1. Answerers(r)' \subseteq Answerers(r)
    BY <1>3
  <2>2. QED
    BY <1>1, <2>1 DEF AnswersOf
<1>4. QED
  BY <1>2, <1>3

(* A reader sends events for what it owns.                                 *)
LEMMA ReaderAnswers ==
  ASSUME AnswerInv, NEW w \in Workers, ReaderNext(w), NEW r \in Requests
  PROVE  AnswersOf(r)'
<1> USE DEF AnswerInv, LedgerInv
<1>1. UNCHANGED client
  BY ReaderFrame
<1>2. CASE ReadResponse(w) \/ ReadDone(w) \/ ReadError(w)
  <2> DEFINE q == Head(stream[w]).req
  <2>1. /\ q \in claimed[w] /\ hold[w] = None
        /\ \E kind \in EventKinds : Deliver(w, q, kind)
        /\ UNCHANGED pending \/ pending' = [pending EXCEPT ![q] = Absent]
    BY <1>2 DEF ReadResponse, ReadDone, ReadError, FreeSlot, RemovePending, TakeFrame, CanRead,
                EventKinds
  <2>2. q \in Requests
    BY <2>1 DEF TypeOK
  <2>3. \A p \in Requests :
          Answerers(p)' \subseteq Answerers(p) \cup {v \in {w} : p = q /\ Listening(q)}
    BY <2>1, <2>2, DeliverAnswers
  <2> HIDE DEF q
  <2>4. QED
    BY <1>1, <2>1, <2>3, OwnerSends
<1>3. CASE \E q \in Requests : DrainOne(w, q)
  <2>1. PICK q \in Requests : DrainOne(w, q)
    BY <1>3
  <2>2. /\ q \in claimed[w] /\ UNCHANGED hold
        /\ pending' = [pending EXCEPT ![q] = Absent]
        /\ \/ UNCHANGED events
           \/ /\ Listening(q)
              /\ events' = [events EXCEPT ![q] = Append(@, [kind |-> "Failed", from |-> w])]
    BY <2>1 DEF DrainOne, FreeSlot, RemovePending
  <2>3. ASSUME NEW p \in Requests
        PROVE  Answerers(p)' \subseteq Answerers(p) \cup {v \in {w} : p = q /\ Listening(q)}
    <3>1. CASE events'[p] = events[p]
      BY <2>2, <3>1 DEF Answerers
    <3>2. CASE events'[p] # events[p]
      <4>1. /\ p = q /\ Listening(q) /\ events[p] \in Seq(Events)
            /\ events'[p] = Append(events[p], [kind |-> "Failed", from |-> w])
        BY <2>2, <3>2 DEF TypeOK
      <4>2. [kind |-> "Failed", from |-> w] \in Events
        BY DEF Events, EventKinds
      <4>3. {events'[p][i].from : i \in DOMAIN events'[p]}
              = {events[p][i].from : i \in DOMAIN events[p]} \cup {w}
        BY <4>1, <4>2, ChannelFrom
      <4>4. QED
        BY <2>2, <4>1, <4>3 DEF Answerers
    <3>3. QED
      BY <3>1, <3>2
  <2>4. QED
    BY <1>1, <2>2, <2>3, OwnerSends
<1>4. CASE Unblock(w)
  <2>1. UNCHANGED pending
    BY <1>4 DEF Unblock
  <2>2. Answerers(r)' \subseteq Answerers(r)
    <3>1. /\ hold[w] # None /\ hold' = [hold EXCEPT ![w] = None]
          /\ \/ UNCHANGED events
             \/ events' = [events EXCEPT ![hold[w].req] =
                             Append(@, [kind |-> hold[w].kind, from |-> w])]
      BY <1>4 DEF Unblock
    <3>2. hold[w] \in Held
      BY <3>1 DEF TypeOK
    <3>3. \A v \in Workers : hold'[v] # None => hold'[v] = hold[v]
      BY <3>1 DEF TypeOK
    <3>4. CASE events'[r] = events[r]
      BY <3>3, <3>4 DEF Answerers
    <3>5. CASE events'[r] # events[r]
      <4>1. /\ hold[w].req = r /\ events[r] \in Seq(Events)
            /\ events'[r] = Append(events[r], [kind |-> hold[w].kind, from |-> w])
        BY <3>1, <3>2, <3>5 DEF TypeOK
      <4>2. [kind |-> hold[w].kind, from |-> w] \in Events
        BY <3>2 DEF Held, Events
      <4>3. {events'[r][i].from : i \in DOMAIN events'[r]}
              = {events[r][i].from : i \in DOMAIN events[r]} \cup {w}
        BY <4>1, <4>2, ChannelFrom
      <4>4. w \in Answerers(r)
        BY <3>1, <4>1 DEF Answerers
      <4>5. QED
        BY <3>3, <4>3, <4>4 DEF Answerers
    <3>6. QED
      BY <3>4, <3>5
  <2>3. QED
    BY <1>1, <2>1, <2>2 DEF AnswersOf
<1>5. CASE ReadClaim(w)
  <2>1. UNCHANGED <<events, hold>>
    BY <1>5 DEF ReadClaim
  <2>2. \/ pending'[r] = pending[r]
        \/ pending[r] = Unclaimed
    BY <1>5 DEF ReadClaim, TypeOK
  <2>3. Answerers(r)' = Answerers(r)
    BY <2>1 DEF Answerers
  <2>4. pending[r] = Unclaimed => Answerers(r) = {}
    BY AnswerersAreWorkers, DispatchAssumption DEF AnswersOf
  <2>5. QED
    BY <1>1, <2>2, <2>3, <2>4 DEF AnswersOf
<1>6. CASE DropFrame(w) \/ ReadOverClaim(w) \/ ReadEof(w) \/ ReaderExit(w)
  BY <1>1, <1>6, AnswerersKept
     DEF DropFrame, ReadOverClaim, ReadEof, ReaderExit, routerVars, readerVars
<1>7. QED
  BY <1>2, <1>3, <1>4, <1>5, <1>6 DEF ReaderNext

(* All the events a client gets for its request come from one worker, even  *)
(* among workers that write frames for requests they were never given: no   *)
(* response is stolen, overwritten or mixed.                                *)
THEOREM OneVoice == Spec => []OneAnswerer
<1>1. Init => AnswerInv
  BY LedgerInit DEF Init, AnswerInv, AnswersOf, Answerers
<1>2. AnswerInv /\ [Next]_vars => AnswerInv'
  <2> SUFFICES ASSUME AnswerInv, [Next]_vars PROVE AnswerInv'
    OBVIOUS
  <2>1. ASSUME NEW r \in Requests
        PROVE  AnswersOf(r)'
    <3>1. \A q \in Requests : ClientNext(q) => AnswersOf(r)'
      BY ClientAnswers
    <3>2. \A w \in Workers : ReaderNext(w) => AnswersOf(r)'
      BY ReaderAnswers
    <3>3. \A w \in Workers : WorkerNext(w) => AnswersOf(r)'
      BY WorkerFrame, AnswerersKept DEF AnswerInv
    <3>4. UNCHANGED vars => AnswersOf(r)'
      BY AnswerersKept DEF AnswerInv, vars, clientVars, routerVars, readerVars
    <3>5. QED
      BY <3>1, <3>2, <3>3, <3>4, StepCases
  <2>2. QED
    BY <2>1, LedgerStep DEF AnswerInv
<1>3. AnswerInv => OneAnswerer
  BY DEF AnswerInv, AnswersOf, OneAnswerer
<1>4. QED
  BY <1>1, <1>2, <1>3, PTL DEF Spec

-----------------------------------------------------------------------------
(* The grant as a worker keeps it. The router reads a Claim long after it   *)
(* was written, so what it will hold by then is said of every position of   *)
(* the stream.                                                              *)
Ends == {"Done", "Error"}

\* Among frames a to b of s is an end of r.
EndIn(s, r, a, b) == \E k \in a .. b : s[k].kind \in Ends /\ s[k].req = r

\* The router holds no more than this for claimed when it has read n frames
\* of s, and c was its set before.
HeldBy(c, s, n) ==
  {r \in Requests :
     \/ r \in c /\ ~EndIn(s, r, 1, n)
     \/ \E j \in 1 .. n : s[j].kind = "Claim" /\ s[j].req = r /\ ~EndIn(s, r, j + 1, n)}

\* Each Claim of s will fit into the grant.
Fits(c, s) ==
  \A i \in 1 .. Len(s) : s[i].kind = "Claim" => Cardinality(HeldBy(c, s, i - 1)) < Granted

\* A datagram is on the socket once, and no worker has the request yet.
HandedOnce ==
  /\ \A i, j \in 1 .. Len(work) : work[i] = work[j] => i = j
  /\ \A i \in 1 .. Len(work), w \in Workers \ Faulty : job[w][work[i]] = "none"

InProgress(w) == {r \in Requests : job[w][r] \in {"run", "ended"}}

\* A worker that keeps the protocol has at most its grant in hand, and what
\* the router will hold of it when all is read it has in hand still.
KeepsGrant(w) ==
  /\ Cardinality(Jobs(w)) <= Granted
  /\ reader[w] = "off" => stream[w] = <<>> /\ claimed[w] = {}
  /\ reader[w] = "reading" => Fits(claimed[w], stream[w])
  /\ reader[w] = "reading" /\ proc[w] = "running" =>
       HeldBy(claimed[w], stream[w], Len(stream[w])) \subseteq InProgress(w)

HonestInv == LedgerInv /\ HandedOnce /\ \A w \in Workers \ Faulty : KeepsGrant(w)

(* Requests are finitely many, so whatever is held or in hand is.           *)
LEMMA HandFinite ==
  /\ \A c, s, n : IsFiniteSet(HeldBy(c, s, n))
  /\ \A w \in Workers : IsFiniteSet(Jobs(w))
<1>1. /\ \A c, s, n : HeldBy(c, s, n) \subseteq Requests
      /\ \A w \in Workers : Jobs(w) \subseteq Requests
  BY DEF HeldBy, Jobs
<1>2. QED
  BY <1>1, DispatchAssumption, FS_Subset

(* Before the frame just written the stream is what it was.                 *)
LEMMA HeldBefore ==
  ASSUME NEW c, NEW s \in Seq(Frames), NEW f \in Frames, NEW t, t = Append(s, f),
         NEW n \in 0 .. Len(s)
  PROVE  HeldBy(c, t, n) = HeldBy(c, s, n)
<1>1. Len(s) \in Nat /\ \A i \in 1 .. Len(s) : t[i] = s[i]
  OBVIOUS
<1>2. \A r \in Requests, a \in Nat : a > 0 => (EndIn(t, r, a, n) <=> EndIn(s, r, a, n))
  BY <1>1 DEF EndIn
<1>3. ASSUME NEW r \in Requests PROVE r \in HeldBy(c, t, n) <=> r \in HeldBy(c, s, n)
  <2>1. EndIn(t, r, 1, n) <=> EndIn(s, r, 1, n)
    BY <1>2
  <2>2. \A j \in 1 .. n : /\ j \in 1 .. Len(s) /\ t[j] = s[j]
                          /\ EndIn(t, r, j + 1, n) <=> EndIn(s, r, j + 1, n)
    BY <1>1, <1>2
  <2>3. QED
    BY <2>1, <2>2 DEF HeldBy
<1>4. QED
  BY <1>3 DEF HeldBy

(* A frame written moves the router's set at the end of the stream only.    *)
LEMMA HeldWritten ==
  ASSUME NEW c, NEW s \in Seq(Frames), NEW f \in Frames, NEW t, t = Append(s, f)
  PROVE  /\ HeldBy(c, t, Len(t)) \subseteq
              (HeldBy(c, s, Len(s)) \cup (IF f.kind = "Claim" THEN {f.req} ELSE {}))
         /\ f.kind \in Ends => f.req \notin HeldBy(c, t, Len(t))
<1>1. /\ t \in Seq(Frames) /\ Len(t) = Len(s) + 1 /\ Len(s) \in Nat
      /\ t[Len(s) + 1] = f /\ \A i \in 1 .. Len(s) : t[i] = s[i]
  OBVIOUS
<1>2. ASSUME NEW r \in HeldBy(c, t, Len(t)), r \notin HeldBy(c, s, Len(s))
      PROVE  f.kind = "Claim" /\ f.req = r
  <2>1. \A a \in Nat : a > 0 /\ ~EndIn(t, r, a, Len(t)) => ~EndIn(s, r, a, Len(s))
    BY <1>1 DEF EndIn
  <2>2. r \in Requests /\ ~(r \in c /\ ~EndIn(t, r, 1, Len(t)))
    BY <1>2, <2>1 DEF HeldBy
  <2>3. PICK j \in 1 .. Len(t) : t[j].kind = "Claim" /\ t[j].req = r /\ ~EndIn(t, r, j + 1, Len(t))
    BY <1>2, <2>2 DEF HeldBy
  <2>4. CASE j \in 1 .. Len(s)
    <3>1. s[j].kind = "Claim" /\ s[j].req = r /\ ~EndIn(s, r, j + 1, Len(s))
      BY <1>1, <2>1, <2>3, <2>4
    <3>2. QED
      BY <1>2, <2>2, <2>4, <3>1 DEF HeldBy
  <2>5. QED
    BY <1>1, <2>3, <2>4
<1>3. ASSUME f.kind \in Ends, f.req \in HeldBy(c, t, Len(t)) PROVE FALSE
  <2>1. \A a \in 1 .. Len(t) : EndIn(t, f.req, a, Len(t))
    BY <1>1, <1>3 DEF EndIn
  <2>2. \A j \in 1 .. Len(t) : t[j].kind = "Claim" => j + 1 \in 1 .. Len(t)
    BY <1>1, <1>3 DEF Ends
  <2>3. QED
    BY <1>1, <1>3, <2>1, <2>2 DEF HeldBy
<1>4. QED
  BY <1>1, <1>2, <1>3

(* A frame read moves the router's set, and no more than the stream said.   *)
LEMMA HeldRead ==
  ASSUME NEW c, NEW d, NEW s \in Seq(Frames), s # <<>>,
         \A r \in d : r \in c \/ (Head(s).kind = "Claim" /\ Head(s).req = r),
         Head(s).kind \in Ends => Head(s).req \notin d
  PROVE  LET t == Tail(s) IN
         /\ t \in Seq(Frames) /\ Len(t) + 1 = Len(s) /\ Len(t) \in Nat
         /\ \A i \in 1 .. Len(t) : t[i] = s[i + 1]
         /\ \A n \in 0 .. Len(t) : HeldBy(d, t, n) \subseteq HeldBy(c, s, n + 1)
<1> DEFINE t == Tail(s)
<1>1. /\ t \in Seq(Frames) /\ Len(t) + 1 = Len(s) /\ Len(t) \in Nat
      /\ \A i \in 1 .. Len(t) : t[i] = s[i + 1]
      /\ Head(s) = s[1]
  OBVIOUS
<1> HIDE DEF t
<1>2. ASSUME NEW n \in 0 .. Len(t), NEW r \in HeldBy(d, t, n)
      PROVE  r \in HeldBy(c, s, n + 1)
  <2>1. \A a \in Nat : a > 0 /\ EndIn(s, r, a + 1, n + 1) => EndIn(t, r, a, n)
    <3> SUFFICES ASSUME NEW a \in Nat, a > 0, NEW k \in a + 1 .. n + 1,
                        s[k].kind \in Ends, s[k].req = r
                 PROVE  EndIn(t, r, a, n)
      BY DEF EndIn
    <3>1. k - 1 \in a .. n /\ k - 1 \in 1 .. Len(t) /\ t[k - 1] = s[k]
      BY <1>1
    <3>2. QED
      BY <3>1 DEF EndIn
  <2>2. CASE r \in d /\ ~EndIn(t, r, 1, n)
    <3>1. ~EndIn(s, r, 2, n + 1)
      BY <2>1, <2>2
    <3>2. ~EndIn(s, r, 1, n + 1)
      <4> SUFFICES ASSUME NEW k \in 1 .. n + 1, s[k].kind \in Ends, s[k].req = r
                   PROVE  FALSE
        BY DEF EndIn
      <4>1. CASE k = 1
        BY <1>1, <2>2, <4>1
      <4>2. CASE k \in 2 .. n + 1
        BY <3>1, <4>2 DEF EndIn
      <4>3. QED
        BY <4>1, <4>2
    <3>3. r \in c \/ (s[1].kind = "Claim" /\ s[1].req = r)
      BY <1>1, <2>2
    <3>4. 1 \in 1 .. n + 1 /\ 1 + 1 = 2 /\ r \in Requests
      BY <1>2 DEF HeldBy
    <3>5. QED
      BY <3>1, <3>2, <3>3, <3>4 DEF HeldBy
  <2>3. ASSUME NEW j \in 1 .. n, t[j].kind = "Claim", t[j].req = r, ~EndIn(t, r, j + 1, n)
        PROVE  r \in HeldBy(c, s, n + 1)
    <3>1. j + 1 \in 1 .. n + 1 /\ s[j + 1] = t[j]
      BY <1>1
    <3>2. ~EndIn(s, r, j + 1 + 1, n + 1)
      BY <2>1, <2>3
    <3>3. QED
      BY <1>2, <2>3, <3>1, <3>2 DEF HeldBy
  <2>4. QED
    BY <1>2, <2>2, <2>3 DEF HeldBy
<1>3. QED
  BY <1>1, <1>2 DEF t

(* Steps that touch neither the worker's stream nor what it has in hand.    *)
LEMMA GrantUntouched ==
  ASSUME NEW w \in Workers, KeepsGrant(w), job'[w] = job[w], claimed'[w] = claimed[w],
         stream'[w] = stream[w], reader'[w] = reader[w],
         proc'[w] = "running" => proc[w] = "running"
  PROVE  KeepsGrant(w)'
<1>1. Jobs(w)' = Jobs(w) /\ InProgress(w)' = InProgress(w)
  BY DEF Jobs, InProgress
<1>2. /\ Fits(claimed[w], stream[w])' <=> Fits(claimed[w], stream[w])
      /\ HeldBy(claimed[w], stream[w], Len(stream[w]))' = HeldBy(claimed[w], stream[w], Len(stream[w]))
  BY DEF Fits, HeldBy, EndIn
<1>3. QED
  BY <1>1, <1>2 DEF KeepsGrant

(* A step of a worker hands out a datagram, or starts no request.           *)
LEMMA WorkerHands ==
  ASSUME TypeOK, NEW w \in Workers, WorkerNext(w)
  PROVE  \/ Recv(w)
         \/ /\ UNCHANGED work \/ (work # <<>> /\ work' = Tail(work))
            /\ \A v \in Workers, r \in Requests : job[v][r] = "none" => job'[v][r] = "none"
<1> DEFINE Starts == \E v \in Workers, r \in Requests : job[v][r] = "none" /\ job'[v][r] # "none"
<1> USE DEF clientVars, routerVars, readerVars, kernelVars, workerVars
<1>1. CASE Spawn(w) \/ Exit(w)
  <2>1. UNCHANGED work /\ job' = [job EXCEPT ![w] = [r \in Requests |-> "none"]]
    BY <1>1 DEF Spawn, Exit
  <2>2. \A v \in Workers, r \in Requests : job[v][r] = "none" => job'[v][r] = "none"
    BY <2>1 DEF TypeOK
  <2>3. QED
    BY <2>1, <2>2
<1>2. CASE FaultyRecv(w)
  BY <1>2 DEF FaultyRecv
<1>3. ASSUME NEW q \in Requests, SendClaim(w, q) \/ SendEnd(w, q) \/ SendDone(w, q)
                                 \/ SendError(w, q) \/ ObeyAbort(w, q)
      PROVE  UNCHANGED work /\ ~Starts
  <2>1. UNCHANGED work /\ job[w][q] # "none" /\ \E x : job' = [job EXCEPT ![w][q] = x]
    BY <1>3 DEF SendClaim, SendEnd, SendDone, SendError, ObeyAbort, Write
  <2>2. QED
    BY <2>1 DEF TypeOK
<1>4. ASSUME NEW q \in Requests, SendData(w, q) \/ IgnoreAbort(w, q)
                                 \/ \E kind \in FrameKinds : FaultyFrame(w, kind, q)
      PROVE  UNCHANGED work /\ ~Starts
  BY <1>4 DEF SendData, IgnoreAbort, FaultyFrame, Write
<1>5. QED
  BY <1>1, <1>2, <1>3, <1>4 DEF WorkerNext

(* submit sends a request once, and one receiver takes it off the socket.   *)
LEMMA HandedStep ==
  ASSUME HonestInv, [Next]_vars
  PROVE  HandedOnce'
<1> USE DEF HonestInv
<1>1. /\ work \in Seq(Requests) /\ job \in [Workers -> [Requests -> {"none", "got", "run", "ended"}]]
      /\ \A i \in 1 .. Len(work) : work[i] \in Requests
  BY DEF LedgerInv, TypeOK
<1>2. ASSUME UNCHANGED <<work, job>> PROVE HandedOnce'
  BY <1>2 DEF HandedOnce
<1>3. ASSUME NEW r \in Requests, client[r] = "sending", work' = Append(work, r), UNCHANGED job
      PROVE  HandedOnce'
  <2>1. ~Sent(r)
    BY <1>3 DEF Sent
  <2>2. /\ \A i \in 1 .. Len(work) : work[i] # r
        /\ \A w \in Workers \ Faulty : job[w][r] = "none"
    BY <2>1 DEF LedgerInv, SentInv
  <2>3. /\ Len(work') = Len(work) + 1 /\ Len(work) \in Nat
        /\ work'[Len(work) + 1] = r /\ \A i \in 1 .. Len(work) : work'[i] = work[i]
    BY <1>1, <1>3
  <2>4. QED
    BY <1>3, <2>2, <2>3 DEF HandedOnce
<1>4. ASSUME work # <<>>, work' = Tail(work)
      PROVE  /\ \A i \in 1 .. Len(work') :
                  i + 1 \in 1 .. Len(work) /\ work'[i] = work[i + 1] /\ work'[i] # Head(work)
             /\ \A i, j \in 1 .. Len(work') : work'[i] = work'[j] => i = j
  <2>1. /\ Len(work') + 1 = Len(work) /\ Len(work') \in Nat /\ Head(work) = work[1]
        /\ \A i \in 1 .. Len(work') : work'[i] = work[i + 1]
    BY <1>1, <1>4
  <2>2. \A i \in 1 .. Len(work') : i + 1 \in 1 .. Len(work) /\ i + 1 # 1 /\ 1 \in 1 .. Len(work)
    BY <2>1
  <2>3. \A i, j \in 1 .. Len(work') : i + 1 = j + 1 => i = j
    BY <2>1
  <2>4. \A i \in 1 .. Len(work') : work'[i] # Head(work)
    BY <2>1, <2>2 DEF HandedOnce
  <2>5. ASSUME NEW i \in 1 .. Len(work'), NEW j \in 1 .. Len(work'), work'[i] = work'[j]
        PROVE  i = j
    <3>1. i + 1 \in 1 .. Len(work) /\ j + 1 \in 1 .. Len(work) /\ work[i + 1] = work[j + 1]
      BY <2>1, <2>2, <2>5
    <3>2. i + 1 = j + 1
      BY <3>1 DEF HandedOnce
    <3>3. QED
      BY <2>3, <3>2
  <2>6. QED
    BY <2>1, <2>2, <2>4, <2>5
<1>5. ASSUME NEW w \in Workers, WorkerNext(w) PROVE HandedOnce'
  <2>1. CASE Recv(w)
    <3>1. work # <<>> /\ work' = Tail(work) /\ job' = [job EXCEPT ![w][Head(work)] = "got"]
      BY <2>1 DEF Recv, kernelVars
    <3>2. \A i \in 1 .. Len(work'), v \in Workers : job'[v][work'[i]] = job[v][work'[i]]
      BY <1>1, <1>4, <3>1
    <3>3. QED
      BY <1>4, <3>1, <3>2 DEF HandedOnce
  <2>2. CASE ~Recv(w)
    <3>1. /\ UNCHANGED work \/ (work # <<>> /\ work' = Tail(work))
          /\ \A v \in Workers, r \in Requests : job[v][r] = "none" => job'[v][r] = "none"
      BY <1>5, <2>2, WorkerHands DEF LedgerInv
    <3>2. CASE UNCHANGED work
      BY <1>1, <3>1, <3>2 DEF HandedOnce
    <3>3. CASE work # <<>> /\ work' = Tail(work)
      BY <1>1, <1>4, <3>1, <3>3 DEF HandedOnce
    <3>4. QED
      BY <3>1, <3>2, <3>3
  <2>3. QED
    BY <2>1, <2>2
<1>6. ASSUME NEW r \in Requests, ClientNext(r) PROVE HandedOnce'
  <2>1. UNCHANGED job
    BY <1>6, ClientFrame
  <2>2. UNCHANGED work \/ (client[r] = "sending" /\ work' = Append(work, r))
    BY <1>6 DEF ClientNext, Reserve, SpillFailed, Insert, Count, Send, SendFailed, Receive,
                SeeClosed, GiveUp, Drop, clientVars, routerVars, readerVars, kernelVars, workerVars
  <2>3. QED
    BY <1>2, <1>3, <2>1, <2>2
<1>7. ASSUME NEW w \in Workers, ReaderNext(w) PROVE HandedOnce'
  BY <1>2, <1>7, ReaderFrame DEF LedgerInv
<1>8. ASSUME UNCHANGED vars PROVE HandedOnce'
  BY <1>2, <1>8 DEF vars, kernelVars, workerVars
<1>9. QED
  BY <1>5, <1>6, <1>7, <1>8, StepCases

(* What a worker writes fits into its grant: it has in hand what the router *)
(* will hold of it by then, and the request of a Claim is one more.         *)
LEMMA WriteKeeps ==
  ASSUME TypeOK, NEW w \in Workers, KeepsGrant(w),
         NEW kind \in FrameKinds, NEW r \in Requests, Write(w, kind, r),
         Jobs(w)' \subseteq Jobs(w),
         \A q \in InProgress(w) : q \in InProgress(w)' \/ (q = r /\ kind \in Ends),
         kind = "Claim" => job[w][r] = "got" /\ r \in InProgress(w)'
  PROVE  KeepsGrant(w)'
<1>1. /\ proc[w] = "running" /\ proc'[w] = "running" /\ reader' = reader /\ claimed' = claimed
      /\ reader[w] = "reading" =>
           stream' = [stream EXCEPT ![w] = Append(stream[w], [kind |-> kind, req |-> r])]
      /\ reader[w] # "reading" => stream' = stream
  BY DEF Write, TypeOK, clientVars, routerVars, readerVars
<1>2. Cardinality(Jobs(w)') <= Cardinality(Jobs(w)) /\ Cardinality(Jobs(w)) \in Nat
      /\ Cardinality(Jobs(w)') \in Nat /\ Granted \in Nat
  BY HandFinite, FS_Subset, FS_CardinalityType, DispatchAssumption
<1>3. CASE reader[w] # "reading"
  BY <1>1, <1>2, <1>3 DEF KeepsGrant
<1>4. CASE reader[w] = "reading"
  <2>a. PICK f \in Frames : f = [kind |-> kind, req |-> r] /\ f.kind = kind /\ f.req = r
    <3>1. [kind |-> kind, req |-> r] \in Frames
      BY DEF Frames
    <3>2. QED
      BY <3>1
  <2>b. PICK s \in Seq(Frames) : s = stream[w]
    BY DEF TypeOK
  <2>c. PICK c : c = claimed[w]
    OBVIOUS
  <2>d. PICK t : t = Append(s, f)
    OBVIOUS
  <2>1. /\ stream'[w] = t /\ HeldBy(c, s, Len(s)) \subseteq InProgress(w) /\ Fits(c, s)
        /\ Cardinality(Jobs(w)) <= Granted
    BY <1>1, <1>4, <2>a, <2>b, <2>c, <2>d DEF KeepsGrant, TypeOK
  <2>2. /\ Len(t) = Len(s) + 1 /\ Len(s) \in Nat
        /\ t[Len(s) + 1] = f /\ \A i \in 1 .. Len(s) : t[i] = s[i]
        /\ \A n \in 0 .. Len(s) : HeldBy(c, t, n) = HeldBy(c, s, n)
        /\ HeldBy(c, t, Len(t)) \subseteq
             (HeldBy(c, s, Len(s)) \cup (IF kind = "Claim" THEN {r} ELSE {}))
        /\ kind \in Ends => r \notin HeldBy(c, t, Len(t))
    <3>1. /\ Len(t) = Len(s) + 1 /\ Len(s) \in Nat
          /\ t[Len(s) + 1] = f /\ \A i \in 1 .. Len(s) : t[i] = s[i]
      BY <2>d
    <3>2. \A n \in 0 .. Len(s) : HeldBy(c, t, n) = HeldBy(c, s, n)
      BY <2>d, HeldBefore
    <3>3. HeldBy(c, t, Len(t)) \subseteq
            (HeldBy(c, s, Len(s)) \cup (IF f.kind = "Claim" THEN {f.req} ELSE {}))
      BY <2>d, HeldWritten
    <3>4. f.kind \in Ends => f.req \notin HeldBy(c, t, Len(t))
      BY <2>d, HeldWritten
    <3>5. QED
      BY <2>a, <3>1, <3>2, <3>3, <3>4
  <2>3. kind = "Claim" => Cardinality(HeldBy(c, s, Len(s))) < Granted
    <3> SUFFICES ASSUME kind = "Claim" PROVE Cardinality(HeldBy(c, s, Len(s))) < Granted
      OBVIOUS
    <3>1. HeldBy(c, s, Len(s)) \subseteq Jobs(w) \ {r} /\ r \in Jobs(w)
      BY <2>1 DEF InProgress, Jobs
    <3>2. Cardinality(HeldBy(c, s, Len(s))) <= Cardinality(Jobs(w) \ {r})
          /\ Cardinality(HeldBy(c, s, Len(s))) \in Nat
      BY <3>1, HandFinite, FS_Subset, FS_CardinalityType
    <3>3. Cardinality(Jobs(w) \ {r}) = Cardinality(Jobs(w)) - 1
      BY <3>1, HandFinite, FS_RemoveElement
    <3>4. QED
      BY <1>2, <2>1, <3>2, <3>3
  <2>4. Fits(c, t)
    <3> SUFFICES ASSUME NEW i \in 1 .. Len(t), t[i].kind = "Claim"
                 PROVE  Cardinality(HeldBy(c, t, i - 1)) < Granted
      BY DEF Fits
    <3>1. CASE i \in 1 .. Len(s)
      BY <2>1, <2>2, <3>1 DEF Fits
    <3>2. CASE i = Len(s) + 1
      <4>1. kind = "Claim" /\ i - 1 = Len(s)
        BY <2>a, <2>2, <3>2
      <4>2. QED
        BY <2>2, <2>3, <4>1
    <3>3. QED
      BY <2>2, <3>1, <3>2
  <2>5. HeldBy(c, t, Len(t)) \subseteq InProgress(w)'
    BY <2>1, <2>2
  <2>6. claimed'[w] = c /\ Fits(claimed[w], stream[w])'
        /\ HeldBy(claimed[w], stream[w], Len(stream[w]))' \subseteq InProgress(w)'
    <3>1. claimed'[w] = c
      BY <1>1, <2>c
    <3>2. Fits(claimed[w], stream[w])' <=> Fits(c, t)
      BY <2>1, <3>1 DEF Fits, HeldBy, EndIn
    <3>3. HeldBy(claimed[w], stream[w], Len(stream[w]))' = HeldBy(c, t, Len(t))
      BY <2>1, <3>1 DEF HeldBy, EndIn
    <3>4. QED
      BY <2>4, <2>5, <3>1, <3>2, <3>3
  <2>7. QED
    BY <1>1, <1>2, <1>4, <2>1, <2>6 DEF KeepsGrant
<1>5. QED
  BY <1>3, <1>4

(* A worker that keeps the protocol stays within its grant.                 *)
LEMMA WorkerKeeps ==
  ASSUME HonestInv, NEW w \in Workers, WorkerNext(w), NEW v \in Workers \ Faulty
  PROVE  KeepsGrant(v)'
<1> USE DEF clientVars, routerVars, readerVars, kernelVars, workerVars
<1>1. TypeOK /\ KeepsGrant(v) /\ HandedOnce /\ v \in Workers /\ v \notin Faulty
  BY DEF HonestInv, LedgerInv
<1>2. Granted \in Nat /\ Granted > 0 /\ Cardinality({}) = 0
  BY DispatchAssumption, FS_EmptySet
<1>3. CASE v # w
  <2>1. claimed' = claimed
    BY WorkerFrame
  <2>2. stream'[v] = stream[v]
    <3>1. UNCHANGED stream \/ \E x : stream' = [stream EXCEPT ![w] = x]
      BY <1>1, WorkerWrites
    <3>2. QED
      BY <1>1, <1>3, <3>1 DEF TypeOK
  <2>3. job'[v] = job[v] /\ reader'[v] = reader[v] /\ proc'[v] = proc[v]
    BY <1>1, <1>3 DEF WorkerNext, Spawn, Exit, Recv, FaultyRecv, SendClaim, SendData, SendEnd,
         SendDone, SendError, ObeyAbort, IgnoreAbort, FaultyFrame, Write, TypeOK
  <2>4. QED
    BY <1>1, <2>1, <2>2, <2>3, GrantUntouched
<1>4. CASE Spawn(v)
  <2>1. /\ stream'[v] = <<>> /\ claimed'[v] = {} /\ reader'[v] = "reading"
        /\ job'[v] = [r \in Requests |-> "none"]
    BY <1>1, <1>4 DEF Spawn, KeepsGrant, TypeOK
  <2>2. Jobs(v)' = {}
    BY <2>1 DEF Jobs
  <2>3. Fits(claimed[v], stream[v])' /\ HeldBy(claimed[v], stream[v], Len(stream[v]))' = {}
    BY <2>1 DEF Fits, HeldBy
  <2>4. QED
    BY <1>2, <2>1, <2>2, <2>3 DEF KeepsGrant
<1>5. CASE Exit(v)
  <2>1. /\ stream'[v] = stream[v] /\ claimed'[v] = claimed[v] /\ reader'[v] = reader[v]
        /\ proc'[v] = "exited" /\ job'[v] = [r \in Requests |-> "none"]
    BY <1>1, <1>5 DEF Exit, TypeOK
  <2>2. Jobs(v)' = {}
    BY <2>1 DEF Jobs
  <2>3. Fits(claimed[v], stream[v])' <=> Fits(claimed[v], stream[v])
    BY <2>1 DEF Fits, HeldBy, EndIn
  <2>4. QED
    BY <1>1, <1>2, <2>1, <2>2, <2>3 DEF KeepsGrant
<1>6. CASE Recv(v)
  <2> DEFINE r == Head(work)
  <2>1. /\ work \in Seq(Requests) /\ work # <<>> /\ r \in Requests /\ Len(work) > 0
        /\ Len(work) \in Nat /\ r = work[1] /\ Cardinality(Jobs(v)) < Granted
        /\ job' = [job EXCEPT ![v][r] = "got"]
        /\ UNCHANGED <<stream, claimed, reader, proc>>
    BY <1>1, <1>6 DEF Recv, TypeOK
  <2>2. job[v][r] = "none"
    BY <1>1, <2>1 DEF HandedOnce
  <2> HIDE DEF r
  <2>3. Jobs(v)' = Jobs(v) \cup {r} /\ InProgress(v)' = InProgress(v)
    BY <1>1, <2>1, <2>2 DEF Jobs, InProgress, TypeOK
  <2>4. Cardinality(Jobs(v)') <= Granted
    <3>1. IsFiniteSet(Jobs(v)) /\ r \notin Jobs(v)
      BY <1>1, <2>2, HandFinite DEF Jobs
    <3>2. Cardinality(Jobs(v) \cup {r}) = Cardinality(Jobs(v)) + 1 /\ Cardinality(Jobs(v)) \in Nat
      BY <3>1, FS_AddElement, FS_CardinalityType
    <3>3. QED
      BY <1>2, <2>1, <2>3, <3>2
  <2>5. /\ Fits(claimed[v], stream[v])' <=> Fits(claimed[v], stream[v])
        /\ HeldBy(claimed[v], stream[v], Len(stream[v]))' = HeldBy(claimed[v], stream[v], Len(stream[v]))
    BY <2>1 DEF Fits, HeldBy, EndIn
  <2>6. QED
    BY <1>1, <2>1, <2>3, <2>4, <2>5 DEF KeepsGrant
<1>7. ASSUME NEW r \in Requests, SendClaim(v, r) PROVE KeepsGrant(v)'
  <2>1. job[v][r] = "got" /\ Write(v, "Claim", r) /\ job' = [job EXCEPT ![v][r] = "run"]
    BY <1>7 DEF SendClaim
  <2>2. /\ Jobs(v)' \subseteq Jobs(v) /\ r \in InProgress(v)'
        /\ \A q \in InProgress(v) : q \in InProgress(v)'
    BY <1>1, <2>1 DEF Jobs, InProgress, TypeOK
  <2>3. QED
    BY <1>1, <2>1, <2>2, WriteKeeps DEF FrameKinds
<1>8. ASSUME NEW r \in Requests, SendData(v, r) PROVE KeepsGrant(v)'
  <2>1. Write(v, "Data", r) /\ job' = job
    BY <1>8 DEF SendData
  <2>2. Jobs(v)' = Jobs(v) /\ InProgress(v)' = InProgress(v)
    BY <2>1 DEF Jobs, InProgress
  <2>3. QED
    BY <1>1, <2>1, <2>2, WriteKeeps DEF FrameKinds
<1>9. ASSUME NEW r \in Requests, SendEnd(v, r) PROVE KeepsGrant(v)'
  <2>1. job[v][r] = "run" /\ Write(v, "End", r) /\ job' = [job EXCEPT ![v][r] = "ended"]
    BY <1>9 DEF SendEnd
  <2>2. Jobs(v)' = Jobs(v) /\ InProgress(v)' = InProgress(v)
    BY <1>1, <2>1 DEF Jobs, InProgress, TypeOK
  <2>3. QED
    BY <1>1, <2>1, <2>2, WriteKeeps DEF FrameKinds
<1>10. ASSUME NEW r \in Requests, SendDone(v, r) \/ SendError(v, r) \/ ObeyAbort(v, r)
       PROVE  KeepsGrant(v)'
  <2>1. PICK kind \in Ends : Write(v, kind, r)
    BY <1>10 DEF SendDone, SendError, ObeyAbort, Ends
  <2>2. job' = [job EXCEPT ![v][r] = "none"]
    BY <1>10 DEF SendDone, SendError, ObeyAbort
  <2>3. /\ Jobs(v)' \subseteq Jobs(v)
        /\ \A q \in InProgress(v) : q \in InProgress(v)' \/ q = r
    BY <1>1, <2>2 DEF Jobs, InProgress, TypeOK
  <2>4. kind \in FrameKinds /\ kind # "Claim"
    BY DEF Ends, FrameKinds
  <2>5. QED
    BY <1>1, <2>1, <2>3, <2>4, WriteKeeps
<1>11. ASSUME NEW r \in Requests, IgnoreAbort(v, r) PROVE KeepsGrant(v)'
  BY <1>1, <1>11, GrantUntouched DEF IgnoreAbort
<1>12. CASE v = w
  BY <1>1, <1>4, <1>5, <1>6, <1>7, <1>8, <1>9, <1>10, <1>11, <1>12
     DEF WorkerNext, FaultyRecv, FaultyFrame
<1>13. QED
  BY <1>3, <1>12

(* A frame read brings the router's set one position on.                    *)
LEMMA ReadKeeps ==
  ASSUME TypeOK, NEW w \in Workers, KeepsGrant(w), TakeFrame(w), reader'[w] = reader[w],
         \A r \in claimed'[w] :
           r \in claimed[w] \/ (Head(stream[w]).kind = "Claim" /\ Head(stream[w]).req = r),
         Head(stream[w]).kind \in Ends => Head(stream[w]).req \notin claimed'[w]
  PROVE  KeepsGrant(w)'
<1> DEFINE s == stream[w]
           c == claimed[w]
           t == Tail(s)
           d == claimed'[w]
<1>1. /\ s \in Seq(Frames) /\ s # <<>> /\ stream'[w] = t /\ job' = job /\ proc' = proc
      /\ reader[w] = "reading" /\ reader'[w] = "reading"
  BY DEF TakeFrame, CanRead, TypeOK, workerVars
<1>2. /\ Len(t) + 1 = Len(s) /\ Len(t) \in Nat
      /\ \A i \in 1 .. Len(t) : t[i] = s[i + 1]
      /\ \A n \in 0 .. Len(t) : HeldBy(d, t, n) \subseteq HeldBy(c, s, n + 1)
  BY <1>1, HeldRead
<1>3. Fits(claimed[w], stream[w])' <=> Fits(d, t)
  BY <1>1 DEF Fits, HeldBy, EndIn
<1>4. HeldBy(claimed[w], stream[w], Len(stream[w]))' = HeldBy(d, t, Len(t))
  BY <1>1 DEF HeldBy, EndIn
<1>5. Jobs(w)' = Jobs(w) /\ InProgress(w)' = InProgress(w)
  BY <1>1 DEF Jobs, InProgress
<1>6. Fits(c, s) /\ (proc[w] = "running" => HeldBy(c, s, Len(s)) \subseteq InProgress(w))
  BY <1>1 DEF KeepsGrant
<1> HIDE DEF s, c, t, d
<1>7. Fits(d, t)
  <2> SUFFICES ASSUME NEW i \in 1 .. Len(t), t[i].kind = "Claim"
               PROVE  Cardinality(HeldBy(d, t, i - 1)) < Granted
    BY DEF Fits
  <2>1. /\ i + 1 \in 1 .. Len(s) /\ i + 1 - 1 = i /\ s[i + 1].kind = "Claim"
        /\ i - 1 \in 0 .. Len(t) /\ (i - 1) + 1 = i
    BY <1>2
  <2>2. Cardinality(HeldBy(c, s, i)) < Granted
    BY <1>6, <2>1 DEF Fits
  <2>3. HeldBy(d, t, i - 1) \subseteq HeldBy(c, s, i)
    BY <1>2, <2>1
  <2>4. /\ Cardinality(HeldBy(d, t, i - 1)) <= Cardinality(HeldBy(c, s, i))
        /\ Cardinality(HeldBy(d, t, i - 1)) \in Nat /\ Cardinality(HeldBy(c, s, i)) \in Nat
    BY <2>3, HandFinite, FS_Subset, FS_CardinalityType
  <2>5. QED
    BY <2>2, <2>4, DispatchAssumption
<1>8. proc[w] = "running" => HeldBy(d, t, Len(t)) \subseteq InProgress(w)
  BY <1>2, <1>6
<1>9. QED
  BY <1>1, <1>3, <1>4, <1>5, <1>7, <1>8 DEF KeepsGrant

(* The reader reads on, or is done with the worker and its stream.          *)
LEMMA ReaderKeeps ==
  ASSUME HonestInv, NEW w \in Workers, ReaderNext(w), NEW v \in Workers \ Faulty
  PROVE  KeepsGrant(v)'
<1> USE DEF clientVars, routerVars, readerVars, kernelVars, workerVars
<1>1. TypeOK /\ KeepsGrant(v) /\ v \in Workers
  BY DEF HonestInv, LedgerInv
<1>2. job' = job /\ proc' = proc
  BY <1>1, ReaderFrame
<1>3. Jobs(v)' = Jobs(v)
  BY <1>2 DEF Jobs
<1>4. CASE v # w
  <2>1. stream'[v] = stream[v]
    BY <1>1, <1>4, ReaderFrame DEF TypeOK, TakeFrame
  <2>2. claimed'[v] = claimed[v]
    <3>1. UNCHANGED claimed \/ \E x : claimed' = [claimed EXCEPT ![w] = x]
      BY <1>1, ReaderLedger
    <3>2. QED
      BY <1>1, <1>4, <3>1 DEF TypeOK
  <2>3. reader'[v] = reader[v]
    BY <1>1, <1>4 DEF ReaderNext, DropFrame, ReadClaim, ReadOverClaim, ReadResponse, ReadDone,
         ReadError, Unblock, ReadEof, DrainOne, ReaderExit, TypeOK
  <2>4. QED
    BY <1>1, <1>2, <2>1, <2>2, <2>3, GrantUntouched
<1>5. CASE DropFrame(v) \/ ReadResponse(v)
  <2>1. TakeFrame(v) /\ UNCHANGED <<claimed, reader>>
    BY <1>5 DEF DropFrame, ReadResponse
  <2>2. Head(stream[v]).kind \in Ends => Head(stream[v]).req \notin claimed'[v]
    BY <1>5 DEF DropFrame, ReadResponse, Ends
  <2>3. QED
    BY <1>1, <2>1, <2>2, ReadKeeps
<1>6. CASE ReadClaim(v)
  <2>1. TakeFrame(v) /\ UNCHANGED reader /\ Head(stream[v]).kind = "Claim"
        /\ (claimed' = claimed \/ claimed' = [claimed EXCEPT ![v] = @ \cup {Head(stream[v]).req}])
    BY <1>6 DEF ReadClaim
  <2>2. \A r \in claimed'[v] : r \in claimed[v] \/ Head(stream[v]).req = r
    BY <1>1, <2>1 DEF TypeOK
  <2>3. Head(stream[v]).kind \notin Ends
    BY <2>1 DEF Ends
  <2>4. QED
    BY <1>1, <2>1, <2>2, <2>3, ReadKeeps
<1>7. CASE ReadDone(v) \/ ReadError(v)
  <2>1. TakeFrame(v) /\ UNCHANGED reader
        /\ claimed' = [claimed EXCEPT ![v] = @ \ {Head(stream[v]).req}]
    BY <1>7 DEF ReadDone, ReadError, FreeSlot
  <2>2. claimed'[v] = claimed[v] \ {Head(stream[v]).req}
    BY <1>1, <2>1 DEF TypeOK
  <2>3. QED
    BY <1>1, <2>1, <2>2, ReadKeeps
<1>8. CASE ReadOverClaim(v) \/ ReadEof(v) \/ \E r \in Requests : DrainOne(v, r)
  <2>1. reader'[v] = "draining"
    BY <1>1, <1>8 DEF ReadOverClaim, ReadEof, DrainOne, TypeOK
  <2>2. QED
    BY <1>1, <1>3, <2>1 DEF KeepsGrant
<1>9. CASE Unblock(v)
  BY <1>1, <1>9, GrantUntouched DEF Unblock
<1>10. CASE ReaderExit(v)
  <2>1. reader'[v] = "off" /\ stream'[v] = <<>> /\ claimed'[v] = {}
    BY <1>1, <1>10 DEF ReaderExit, TypeOK
  <2>2. QED
    BY <1>1, <1>3, <2>1 DEF KeepsGrant
<1>11. CASE v = w
  BY <1>5, <1>6, <1>7, <1>8, <1>9, <1>10, <1>11 DEF ReaderNext
<1>12. QED
  BY <1>4, <1>11

(* Every step keeps the invariant.                                          *)
LEMMA HonestStep == HonestInv /\ [Next]_vars => HonestInv'
<1> SUFFICES ASSUME HonestInv, [Next]_vars PROVE HonestInv'
  OBVIOUS
<1>1. ASSUME NEW v \in Workers \ Faulty PROVE KeepsGrant(v)'
  <2>1. KeepsGrant(v)
    BY DEF HonestInv
  <2>2. ASSUME NEW r \in Requests, ClientNext(r) PROVE KeepsGrant(v)'
    BY <2>1, <2>2, ClientFrame, GrantUntouched
  <2>3. ASSUME UNCHANGED vars PROVE KeepsGrant(v)'
    BY <2>1, <2>3, GrantUntouched DEF vars, readerVars, kernelVars, workerVars
  <2>4. QED
    BY <2>2, <2>3, ReaderKeeps, WorkerKeeps, StepCases
<1>2. LedgerInv'
  BY LedgerStep DEF HonestInv
<1>3. QED
  BY <1>1, <1>2, HandedStep DEF HonestInv

(* reader_task kills a worker for a Claim beyond its grant, while the ends  *)
(* of earlier tasks are on the way. A worker that counts what it has in     *)
(* hand is never the one: each of its Claims finds room when it is read.    *)
THEOREM HonestSpared == Spec => []NoUnjustKill
<1>1. Init => HonestInv
  <2> SUFFICES ASSUME Init PROVE HonestInv
    OBVIOUS
  <2>1. HandedOnce
    BY DEF Init, HandedOnce
  <2>2. ASSUME NEW w \in Workers PROVE KeepsGrant(w)
    <3>1. Jobs(w) = {} /\ reader[w] = "off" /\ stream[w] = <<>> /\ claimed[w] = {}
      BY DEF Init, Jobs
    <3>2. QED
      BY <3>1, DispatchAssumption, FS_EmptySet DEF KeepsGrant
  <2>3. QED
    BY <2>1, <2>2, LedgerInit DEF HonestInv
<1>2. HonestInv => NoUnjustKill
  <2> SUFFICES ASSUME HonestInv, NEW w \in Workers \ Faulty, CanRead(w),
                      Head(stream[w]).kind = "Claim"
               PROVE  Cardinality(claimed[w]) < Granted
    BY DEF NoUnjustKill
  <2>1. /\ stream[w] \in Seq(Frames) /\ stream[w] # <<>> /\ claimed[w] \subseteq Requests
        /\ Fits(claimed[w], stream[w])
    BY DEF HonestInv, LedgerInv, TypeOK, KeepsGrant, CanRead
  <2>2. 1 \in 1 .. Len(stream[w]) /\ stream[w][1].kind = "Claim" /\ 1 - 1 = 0
    BY <2>1
  <2>3. Cardinality(HeldBy(claimed[w], stream[w], 0)) < Granted
    BY <2>1, <2>2 DEF Fits
  <2>4. HeldBy(claimed[w], stream[w], 0) = claimed[w]
    BY <2>1 DEF HeldBy, EndIn
  <2>5. QED
    BY <2>3, <2>4
<1>3. QED
  BY <1>1, <1>2, HonestStep, PTL DEF Spec
=============================================================================
