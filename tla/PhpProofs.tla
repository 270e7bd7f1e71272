----------------------------- MODULE PhpProofs -----------------------------
(***************************************************************************)
(* Proofs about the blocking worker with its PHP handler, for any set of   *)
(* requests, any script and any moment the client or the router leaves:    *)
(* it keeps what Exchange promises, and what its handler acts on is true.  *)
(***************************************************************************)
EXTENDS PhpWorker, FiniteSetTheorems, SequenceTheorems, WellFoundedInduction, TLAPS

Frames == Promise!Frames

-----------------------------------------------------------------------------
(* The frames of one request.                                              *)

\* A legal stream of frames that ends in one of F.
Good(s, F) == s \in Seq(Frames) /\ s # <<>> /\ Promise!Legal(s) /\ s[Len(s)] \in F

\* Nothing of a request is on the stream, or its end is.
Closed(s) == s = <<>> \/ s[Len(s)] \in {"Done", "Error"}

(* The frames of an exchange.                                              *)
LEMMA FrameSet ==
  Frames = {"Claim", "Headers", "Body", "Flush", "End", "Done", "Error"}
BY DEF Frames, Promise!Frames, Promise!Follows

(* What may follow what, as far as the handler makes use of it.            *)
LEMMA FollowsMeaning ==
  /\ {"Headers", "Error"} \subseteq Promise!Follows["Claim"]
  /\ \A g \in {"Headers", "Body", "Flush"} :
       {"Body", "Flush", "End", "Error"} \subseteq Promise!Follows[g]
  /\ "Done" \in Promise!Follows["End"]
BY DEF Promise!Follows

(* A frame that may follow the last one keeps a stream legal.              *)
LEMMA GoodAppend ==
  ASSUME NEW s, NEW F, Good(s, F), NEW f \in Frames,
         \A g \in F : f \in Promise!Follows[g]
  PROVE  Good(Append(s, f), {f})
<1> DEFINE t == Append(s, f)
<1>1. /\ t \in Seq(Frames) /\ t # <<>> /\ Len(t) = Len(s) + 1
      /\ \A i \in 1 .. Len(s) : t[i] = s[i]
      /\ t[Len(s) + 1] = f
  BY AppendProperties DEF Good
<1>2. Len(s) \in Nat \ {0}
  BY EmptySeq DEF Good
<1>3. t[1] = "Claim"
  BY <1>1, <1>2 DEF Good, Promise!Legal
<1>4. ASSUME NEW i \in 1 .. Len(t) - 1
      PROVE  t[i + 1] \in Promise!Follows[t[i]]
  <2>1. CASE i = Len(s)
    BY <1>1, <1>2, <2>1 DEF Good
  <2>2. CASE i # Len(s)
    <3>1. i \in 1 .. Len(s) - 1 /\ i + 1 \in 1 .. Len(s) /\ i \in 1 .. Len(s)
      BY <1>1, <1>2, <2>2
    <3>2. s[i + 1] \in Promise!Follows[s[i]]
      BY <3>1 DEF Good, Promise!Legal
    <3>3. QED
      BY <1>1, <3>1, <3>2
  <2>3. QED
    BY <2>1, <2>2
<1>5. Promise!Legal(t)
  BY <1>3, <1>4 DEF Promise!Legal
<1>6. QED
  BY <1>1, <1>5 DEF Good

(* The same of a stream whose last part is still in the buffer.            *)
LEMMA BufferAppend ==
  ASSUME NEW a \in Seq(Frames), NEW b \in Seq(Frames), NEW F, Good(a \o b, F),
         NEW f \in Frames, \A g \in F : f \in Promise!Follows[g]
  PROVE  /\ Append(b, f) \in Seq(Frames) /\ Append(b, f) # <<>>
         /\ Good(a \o Append(b, f), {f})
<1>1. Append(b, f) = b \o <<f>> /\ Append(a \o b, f) = (a \o b) \o <<f>>
  BY AppendIsConcat, ConcatProperties
<1>2. <<f>> \in Seq(Frames)
  OBVIOUS
<1>3. a \o Append(b, f) = Append(a \o b, f)
  BY <1>1, <1>2, ConcatAssociative
<1>4. QED
  BY <1>3, AppendProperties, GoodAppend

(* Two frames at once: Responder::finish of a response that has no End.    *)
LEMMA BufferFinish ==
  ASSUME NEW a \in Seq(Frames), NEW b \in Seq(Frames),
         Good(a \o b, {"Headers", "Body", "Flush"})
  PROVE  /\ b \o <<"End", "Done">> \in Seq(Frames) /\ b \o <<"End", "Done">> # <<>>
         /\ Good(a \o (b \o <<"End", "Done">>), {"Done"})
<1> DEFINE c == Append(b, "End")
<1>1. c \in Seq(Frames) /\ Good(a \o c, {"End"})
  BY BufferAppend, FrameSet, FollowsMeaning
<1> HIDE DEF c
<1>2. /\ Append(c, "Done") \in Seq(Frames) /\ Append(c, "Done") # <<>>
      /\ Good(a \o Append(c, "Done"), {"Done"})
  BY <1>1, BufferAppend, FrameSet, FollowsMeaning
<1>3. Append(c, "Done") = b \o <<"End", "Done">>
  BY DEF c
<1>4. QED
  BY <1>2, <1>3

(* A set within a singleton has one element at most.                       *)
LEMMA AtMostOne ==
  ASSUME NEW x, NEW S, S \subseteq {x}
  PROVE  Cardinality(S) <= 1
<1>1. IsFiniteSet({x}) /\ Cardinality({x}) = 1
  BY FS_Singleton
<1>2. S \in SUBSET {x}
  OBVIOUS
<1>3. QED
  BY <1>1, <1>2, FS_Subset, FS_CardinalityType

(* The instance has the module FiniteSets of its own.                      *)
LEMMA SameCardinality ==
  ASSUME NEW S
  PROVE  Promise!Cardinality(S) = Cardinality(S)
BY DEF Promise!Cardinality, Cardinality

(* Frames added to the stream of one request only: what Exchange allows.   *)
LEMMA AddsFrames ==
  ASSUME written \in [Requests -> Seq(Frames)], NEW r \in Requests, NEW b \in Seq(Frames),
         b # <<>>, Promise!Legal(written[r] \o b),
         \A s \in Requests \ {r} : Closed(written[s]),
         written' = [written EXCEPT ![r] = written[r] \o b]
  PROVE  Promise!Next
<1>1. \A s \in Requests \ {r} : written'[s] = written[s]
  OBVIOUS
<1>2. written'[r] = written[r] \o b
  OBVIOUS
<1>3. Len(written[r]) \in Nat /\ Len(written'[r]) = Len(written[r]) + Len(b) /\ Len(b) \in Nat \ {0}
  BY <1>2, ConcatProperties, EmptySeq, LenProperties
<1>4. SubSeq(written'[r], 1, Len(written[r])) = written[r]
  <2>1. SubSeq(written'[r], 1, Len(written[r])) \in Seq(Frames)
    BY <1>2, <1>3, ConcatProperties, SubSeqProperties
  <2>2. /\ Len(SubSeq(written'[r], 1, Len(written[r]))) = Len(written[r])
        /\ \A i \in 1 .. Len(written[r]) :
             SubSeq(written'[r], 1, Len(written[r]))[i] = written[r][i]
    BY <1>2, <1>3, ConcatProperties, SubSeqProperties
  <2>3. QED
    BY <2>1, <2>2, SeqEqual
<1>5. Cardinality(Promise!Open(written')) <= 1
  <2>1. Promise!Open(written') \subseteq {r}
    BY <1>1 DEF Closed, Promise!Open
  <2>2. QED
    BY <2>1, AtMostOne
<1>6. Len(written[r]) < Len(written'[r]) /\ Promise!Legal(written'[r])
  BY <1>2, <1>3
<1>7. Promise!Write(r)
  BY <1>1, <1>4, <1>5, <1>6, SameCardinality DEF Promise!Write
<1>8. QED
  BY <1>7 DEF Promise!Next

-----------------------------------------------------------------------------
(* The inductive invariant.                                                *)

Idle    == {"hello", "poll", "control", "recv"}
Holding == {"handling", "returned", "failed"}

\* What was written of the request in hand, and what is still buffered.
Whole == written[cur] \o out

Types ==
  /\ loop \in Idle \cup Holding \cup {"exited"}
  /\ cur \in Requests \cup {None}
  /\ resp \in [headers : BOOLEAN, end : BOOLEAN, done : BOOLEAN, aborted : BOOLEAN]
  /\ out \in Seq(Frames)
  /\ written \in [Requests -> Seq(Frames)]
  /\ pongs \in [busy : Nat, idle : Nat]
  /\ ctrl \in Seq([kind : {"Ping", "Abort"}, req : Requests \cup {None}])
  /\ linked \in BOOLEAN
  /\ fresh \subseteq Requests /\ work \subseteq Requests \cup {"Retire"}
  /\ script \in {"none", "running"}
  /\ ctx \in [headers : BOOLEAN, released : BOOLEAN, gone : BOOLEAN]
  /\ sg \in BOOLEAN
  /\ call \in {None, "Body", "Flush", "End"}

\* A request is handed out once, so nothing of one that waits was written.
HandedOnce ==
  /\ fresh \cap work = {}
  /\ \A r \in Requests : r \in fresh \cup work => written[r] = <<>>

\* The worker holds no request but the one in hand.
OneInHand ==
  /\ loop \in Idle => cur = None
  /\ loop \in Holding => cur \in Requests /\ written[cur] # <<>>
  /\ loop # "exited" => \A r \in Requests \ {cur} : Closed(written[r])

\* The flags of the Responder and of the script say how far the answer is.
Before == script = "none" => ctx = NoCtx /\ call = None /\ ~sg
InHandle ==
  loop = "handling" /\ script = "none" =>
    resp = NoReply /\ out = <<>> /\ Good(Whole, {"Claim"})
InRun ==
  script = "running" =>
    /\ loop = "handling" /\ ~resp.done
    /\ sg = ctx.headers
    /\ resp.end <=> ctx.released \/ call = "End"
    /\ ~sg => Good(Whole, {"Claim"}) /\ ~resp.end /\ call = None
    /\ sg /\ ~resp.end => Good(Whole, {"Headers", "Body", "Flush"})
    /\ resp.end => sg /\ Good(Whole, {"End"})
    /\ ctx.released /\ linked => out = <<>>
After ==
  /\ loop = "returned" => resp.done /\ out # <<>> /\ Good(Whole, {"Done", "Error"})
  /\ loop = "failed" => ~resp.done /\ Good(Whole, {"Claim", "Headers"})
  /\ loop \in Idle \cup {"exited"} => resp = NoReply
  /\ loop # "handling" => script = "none"

\* An Abort on its way was sent, and one that was taken was for this request.
AbortsKnown ==
  /\ \A i \in 1 .. Len(ctrl) : ctrl[i].kind = "Abort" => ctrl[i].req \in aborts
  /\ resp.aborted /\ linked => cur \in aborts

PhpInv ==
  /\ Types /\ HandedOnce /\ OneInHand
  /\ Before /\ InHandle /\ InRun /\ After
  /\ AbortsKnown

-----------------------------------------------------------------------------
(* Control frames.                                                         *)

CtrlFrames == [kind : {"Ping", "Abort"}, req : Requests \cup {None}]

\* Every Abort among these frames is for a request in R.
AbortsIn(frames, R) == \A i \in 1 .. Len(frames) : frames[i].kind = "Abort" => frames[i].req \in R

(* A set of naturals has a least element.                                  *)
LEMMA LeastExists ==
  ASSUME NEW I, I \subseteq Nat, I # {}
  PROVE  \E i \in I : \A j \in I : i <= j
<1> DEFINE Less == OpToRel(<, Nat)
<1>1. \A i, j \in Nat : <<j, i>> \in Less <=> j < i
  BY DEF OpToRel
<1> HIDE DEF Less
<1>2. IsWellFoundedOn(Less, Nat)
  BY NatLessThanWellFounded DEF Less
<1>3. PICK i \in I : \A j \in I : <<j, i>> \notin Less
  BY <1>2, WFMin
<1>4. ASSUME NEW j \in I
      PROVE  i <= j
  <2>1. i \in Nat /\ j \in Nat /\ <<j, i>> \notin Less
    BY <1>3
  <2>2. ~ (j < i)
    BY <1>1, <2>1
  <2>3. QED
    BY <2>1, <2>2
<1>5. QED
  BY <1>3, <1>4

(* Pings are counted in naturals.                                          *)
LEMMA PingsInType ==
  ASSUME NEW n \in Nat
  PROVE  PingsIn(n) \in Nat
<1>1. IsFiniteSet(1 .. n)
  BY FS_Interval
<1>2. {i \in 1 .. n : ctrl[i] = Ping} \in SUBSET (1 .. n)
  OBVIOUS
<1>3. QED
  BY <1>1, <1>2, FS_Subset, FS_CardinalityType DEF PingsIn

(* poll_control stops within the frames there are.                         *)
LEMMA ReadUpToType ==
  ASSUME ctrl \in Seq(CtrlFrames)
  PROVE  ReadUpTo \in 0 .. Len(ctrl)
<1>1. Len(ctrl) \in Nat /\ Hits \subseteq 1 .. Len(ctrl)
  BY LenProperties DEF Hits
<1>2. CASE Hits = {}
  BY <1>1, <1>2 DEF ReadUpTo
<1>3. CASE Hits # {}
  <2>1. \E i \in Hits : \A j \in Hits : i <= j
    <3>1. Hits \subseteq Nat
      BY <1>1
    <3>2. QED
      BY <1>3, <3>1, LeastExists
  <2>2. ReadUpTo \in Hits
    BY <1>3, <2>1 DEF ReadUpTo
  <2>3. QED
    BY <1>1, <2>2
<1>4. QED
  BY <1>2, <1>3

(* poll_control: what is left of the control frames are control frames,    *)
(* and it answers no probe as an idle worker.                              *)
LEMMA PollControlEffect ==
  ASSUME Types, AbortsIn(ctrl, aborts), PollControl
  PROVE  /\ ctrl' \in Seq(CtrlFrames) /\ AbortsIn(ctrl', aborts)
         /\ pongs' \in [busy : Nat, idle : Nat] /\ pongs'.idle = pongs.idle
<1>1. CASE resp.aborted
  BY <1>1 DEF PollControl, Types, CtrlFrames
<1>2. CASE ~resp.aborted
  <2> DEFINE n == ReadUpTo
  <2>1. ctrl \in Seq(CtrlFrames) /\ Len(ctrl) \in Nat
    BY LenProperties DEF Types, CtrlFrames
  <2>2. n \in 0 .. Len(ctrl) /\ n \in Nat
    BY <2>1, ReadUpToType
  <2>3. PingsIn(n) \in Nat
    BY <2>2, PingsInType
  <2>4. ctrl' = SubSeq(ctrl, n + 1, Len(ctrl))
    BY <1>2 DEF PollControl
  <2>5. pongs' \in {pongs, [pongs EXCEPT !.busy = @ + PingsIn(n)]}
    BY <1>2 DEF PollControl
  <2> HIDE DEF n
  <2>6. /\ ctrl' \in Seq(CtrlFrames) /\ Len(ctrl') = Len(ctrl) - n
        /\ \A i \in 1 .. Len(ctrl') : ctrl'[i] = ctrl[n + i]
    <3>1. \A i \in n + 1 .. Len(ctrl) : ctrl[i] \in CtrlFrames
      BY <2>1, <2>2, ElementOfSeq
    <3>2. /\ SubSeq(ctrl, n + 1, Len(ctrl)) \in Seq(CtrlFrames)
          /\ Len(SubSeq(ctrl, n + 1, Len(ctrl))) =
               IF n + 1 <= Len(ctrl) THEN Len(ctrl) - (n + 1) + 1 ELSE 0
          /\ \A i \in 1 .. Len(ctrl) - (n + 1) + 1 :
               SubSeq(ctrl, n + 1, Len(ctrl))[i] = ctrl[(n + 1) + i - 1]
      BY <2>1, <2>2, <3>1, SubSeqProperties
    <3>3. Len(ctrl') = Len(ctrl) - n
      BY <2>1, <2>2, <2>4, <3>2
    <3>4. ASSUME NEW i \in 1 .. Len(ctrl')
          PROVE  ctrl'[i] = ctrl[n + i]
      <4>1. (n + 1) + i - 1 = n + i /\ i \in 1 .. Len(ctrl) - (n + 1) + 1
        BY <2>1, <2>2, <3>3
      <4>2. QED
        BY <2>4, <3>2, <4>1
    <3>5. QED
      BY <2>4, <3>2, <3>3, <3>4
  <2>7. AbortsIn(ctrl', aborts)
    <3>1. \A i \in 1 .. Len(ctrl') : n + i \in 1 .. Len(ctrl)
      BY <2>1, <2>2, <2>6
    <3>2. QED
      BY <2>6, <3>1 DEF AbortsIn
  <2>8. pongs' \in [busy : Nat, idle : Nat] /\ pongs'.idle = pongs.idle
    BY <2>3, <2>5 DEF Types
  <2>9. QED
    BY <2>6, <2>7, <2>8
<1>3. QED
  BY <1>1, <1>2

(* The handler is told that the client left: it left, or the link is down. *)
LEMMA GoneIsTrue ==
  ASSUME PhpInv, ClientGone, linked
  PROVE  cur \in aborts
<1>1. CASE resp.aborted
  BY <1>1 DEF PhpInv, AbortsKnown
<1>2. CASE Hits # {}
  BY <1>2 DEF PhpInv, AbortsKnown, Hits, Abort
<1>3. QED
  BY <1>1, <1>2 DEF ClientGone

-----------------------------------------------------------------------------
(* The router and the loop.                                                *)

\* What the parts of the invariant about the answer speak of.
answerVars == <<loop, cur, resp, out, written, script, ctx, sg, call>>

(* A step that leaves the answer alone keeps what is said about it.        *)
LEMMA AnswerKept ==
  ASSUME PhpInv, UNCHANGED answerVars, linked' => linked
  PROVE  OneInHand' /\ Before' /\ InHandle' /\ InRun' /\ After'
<1> USE DEF PhpInv, answerVars
<1>1. Whole' = Whole
  BY DEF Whole
<1>2. QED
  BY <1>1 DEF OneInHand, Before, InHandle, InRun, After

(* What the router sends or closes touches no answer.                      *)
LEMMA RouterStep ==
  ASSUME PhpInv, Router, UNCHANGED scriptVars
  PROVE  PhpInv' /\ UNCHANGED written
<1> USE DEF PhpInv, scriptVars, loopVars, replyVars, streamVars, routerVars
<1>1. UNCHANGED answerVars /\ UNCHANGED pongs
  BY DEF Router, Submit, SendAbort, Steal, Shrink, SendPing, Close, answerVars
<1>2. linked' \in BOOLEAN /\ (linked' => linked)
  <2>1. linked \in BOOLEAN
    BY DEF Types
  <2>2. linked' = linked \/ linked' = FALSE
    BY DEF Router, Submit, SendAbort, Steal, Shrink, SendPing, Close
  <2>3. CASE linked' = linked
    BY <2>1, <2>3
  <2>4. CASE linked' = FALSE
    BY <2>4
  <2>5. QED
    BY <2>2, <2>3, <2>4
<1>3. HandedOnce' /\ fresh' \subseteq Requests /\ work' \subseteq Requests \cup {"Retire"}
  BY <1>1, WorkerAssumption
     DEF Router, Submit, SendAbort, Steal, Shrink, SendPing, Close, Types, HandedOnce, answerVars
<1>4. ctrl' \in Seq(CtrlFrames) /\ AbortsIn(ctrl', aborts') /\ aborts \subseteq aborts'
  <2>1. ctrl \in Seq(CtrlFrames) /\ AbortsIn(ctrl, aborts)
    BY DEF Types, CtrlFrames, AbortsKnown, AbortsIn
  <2>2. ASSUME NEW f \in CtrlFrames, ctrl' = Append(ctrl, f), aborts \subseteq aborts',
               f.kind = "Abort" => f.req \in aborts'
        PROVE  ctrl' \in Seq(CtrlFrames) /\ AbortsIn(ctrl', aborts')
    <3>1. /\ ctrl' \in Seq(CtrlFrames) /\ Len(ctrl') = Len(ctrl) + 1
          /\ \A i \in 1 .. Len(ctrl) : ctrl'[i] = ctrl[i]
          /\ ctrl'[Len(ctrl) + 1] = f
      BY <2>1, <2>2, AppendProperties
    <3>2. Len(ctrl) \in Nat
      BY <2>1, LenProperties
    <3>3. QED
      BY <2>1, <2>2, <3>1, <3>2 DEF AbortsIn
  <2>3. CASE \E r \in Requests : SendAbort(r)
    <3>1. PICK r \in Requests : SendAbort(r)
      BY <2>3
    <3>2. Abort(r) \in CtrlFrames /\ Abort(r).req = r
      BY DEF Abort, CtrlFrames
    <3>3. ctrl' = Append(ctrl, Abort(r)) /\ aborts' = aborts \cup {r}
      BY <3>1 DEF SendAbort
    <3>4. QED
      BY <2>2, <3>2, <3>3
  <2>4. CASE SendPing
    <3>1. Ping \in CtrlFrames /\ Ping.kind = "Ping"
      BY DEF Ping, CtrlFrames
    <3>2. ctrl' = Append(ctrl, Ping) /\ aborts' = aborts
      BY <2>4 DEF SendPing
    <3>3. QED
      BY <2>2, <3>1, <3>2
  <2>5. CASE Close
    <3>1. ctrl' \in {ctrl, <<>>} /\ aborts' = aborts
      BY <2>5 DEF Close
    <3>2. <<>> \in Seq(CtrlFrames) /\ AbortsIn(<<>>, aborts)
      BY EmptySeq DEF AbortsIn
    <3>3. QED
      BY <2>1, <3>1, <3>2
  <2>6. CASE UNCHANGED <<ctrl, aborts>>
    BY <2>1, <2>6 DEF AbortsIn
  <2>7. QED
    BY <2>3, <2>4, <2>5, <2>6 DEF Router, Submit, Steal, Shrink
<1>5. Types'
  BY <1>1, <1>2, <1>3, <1>4 DEF Types, CtrlFrames, answerVars
<1>6. AbortsKnown'
  BY <1>1, <1>2, <1>4 DEF AbortsKnown, AbortsIn, answerVars
<1>7. QED
  BY <1>1, <1>2, <1>3, <1>5, <1>6, AnswerKept DEF answerVars

(* Steps of an idle loop that write nothing of a request.                  *)
LEMMA IdleStep ==
  ASSUME PhpInv, UNCHANGED scriptVars,
         Handshake \/ Poll \/ AnswerControl \/ RecvNothing \/ RecvRetire
           \/ \E r \in Requests : RecvGarbled(r)
  PROVE  PhpInv' /\ UNCHANGED written
<1> USE DEF PhpInv, scriptVars, loopVars, replyVars, streamVars, routerVars
<1>1. /\ loop \in Idle /\ loop' \in Idle \cup {"exited"}
      /\ UNCHANGED <<cur, resp, out, written, script, ctx, sg, call, fresh, linked, aborts>>
      /\ work' \subseteq work
  BY DEF Handshake, Poll, AnswerControl, RecvNothing, RecvRetire, RecvGarbled, Idle
<1>2. /\ ctrl' \in {ctrl, <<>>}
      /\ pongs' \in {pongs, [pongs EXCEPT !.idle = @ + PingsIn(Len(ctrl))]}
  BY DEF Handshake, Poll, AnswerControl, RecvNothing, RecvRetire, RecvGarbled
<1>3. pongs' \in [busy : Nat, idle : Nat]
  <2>1. PingsIn(Len(ctrl)) \in Nat
    BY PingsInType, LenProperties DEF Types
  <2>2. QED
    BY <1>2, <2>1 DEF Types
<1>4. Types'
  <2>1. ctrl' \in Seq(CtrlFrames)
    <3>1. ctrl \in Seq(CtrlFrames) /\ <<>> \in Seq(CtrlFrames)
      BY EmptySeq DEF Types, CtrlFrames
    <3>2. QED
      BY <1>2, <3>1
  <2>2. loop' \in Idle \cup Holding \cup {"exited"} /\ work' \subseteq Requests \cup {"Retire"}
    BY <1>1 DEF Types
  <2>3. QED
    BY <1>1, <1>3, <2>1, <2>2 DEF Types, CtrlFrames
<1>5. HandedOnce'
  BY <1>1 DEF HandedOnce
<1>6. script = "none" /\ resp = NoReply /\ cur = None
  BY <1>1 DEF After, OneInHand, Idle
<1>7. OneInHand' /\ Before' /\ InHandle' /\ InRun' /\ After'
  <2>1. loop' # "handling" /\ loop' # "returned" /\ loop' # "failed" /\ loop # "exited"
    BY <1>1 DEF Idle
  <2>2. OneInHand'
    BY <1>1, <1>6, <2>1 DEF OneInHand, Holding
  <2>3. Before' /\ InHandle' /\ InRun'
    BY <1>1, <1>6, <2>1 DEF Before, InHandle, InRun
  <2>4. After'
    BY <1>1, <1>6, <2>1 DEF After
  <2>5. QED
    BY <2>2, <2>3, <2>4
<1>8. AbortsKnown'
  <2>1. ctrl' = <<>> => Len(ctrl') = 0
    OBVIOUS
  <2>2. QED
    BY <1>1, <1>2, <2>1 DEF AbortsKnown
<1>9. QED
  BY <1>1, <1>4, <1>5, <1>7, <1>8

(* The Claim of a request nothing was written of.                          *)
LEMMA RecvStep ==
  ASSUME PhpInv, UNCHANGED scriptVars, NEW r \in Requests, Recv(r)
  PROVE  PhpInv' /\ (UNCHANGED written \/ Promise!Next)
<1> USE DEF PhpInv, scriptVars, replyVars, routerVars, Recv
<1>1. /\ cur = None /\ resp = NoReply /\ script = "none" /\ written[r] = <<>>
      /\ \A s \in Requests : Closed(written[s])
  BY WorkerAssumption DEF OneInHand, Idle, After, HandedOnce
<1>2. CASE ~linked
  <2>1. loop' = "exited" /\ UNCHANGED <<cur, resp, out, written>> /\ work' \subseteq work
    BY <1>2
  <2>2. Types'
    BY <2>1 DEF Types
  <2>3. HandedOnce' /\ OneInHand'
    BY <2>1 DEF HandedOnce, OneInHand, Idle, Holding
  <2>4. Before' /\ InHandle' /\ InRun' /\ After'
    BY <1>1, <2>1 DEF Before, InHandle, InRun, After
  <2>5. AbortsKnown'
    BY <2>1 DEF AbortsKnown
  <2>6. QED
    BY <2>1, <2>2, <2>3, <2>4, <2>5
<1>3. CASE linked
  <2> DEFINE w == <<"Claim">>
  <2>1. /\ written' = [written EXCEPT ![r] = w] /\ cur' = r /\ resp' = NoReply /\ out' = <<>>
        /\ loop' \in {"handling", "exited"} /\ work' = work \ {r}
    BY <1>3
  <2>2. w \in Seq(Frames) /\ w # <<>> /\ Len(w) = 1 /\ w[1] = "Claim"
    BY FrameSet
  <2>3. Good(w, {"Claim"})
    BY <2>2 DEF Good, Promise!Legal
  <2>4. written[r] \o w = w /\ w \o <<>> = w
    BY <1>1, <2>2, ConcatEmptySeq
  <2> HIDE DEF w
  <2>5. written' = [written EXCEPT ![r] = written[r] \o w] /\ Promise!Legal(written[r] \o w)
    BY <2>1, <2>3, <2>4 DEF Good
  <2>6. Promise!Next
    BY <1>1, <2>2, <2>5, AddsFrames DEF Types
  <2>7. Types'
    BY <2>1, <2>2, EmptySeq DEF Types, NoReply, Idle, Holding
  <2>8. HandedOnce'
    BY <2>1 DEF HandedOnce, Types
  <2>9. OneInHand'
    BY <1>1, <2>1, <2>2 DEF OneInHand, Idle, Holding, Types
  <2>10. Whole' = w
    BY <2>1, <2>4 DEF Whole, Types
  <2>11. Before' /\ InHandle' /\ InRun' /\ After'
    BY <1>1, <2>1, <2>3, <2>10 DEF Before, InHandle, InRun, After, Idle
  <2>12. AbortsKnown'
    BY <2>1 DEF AbortsKnown, NoReply
  <2>13. QED
    BY <2>6, <2>7, <2>8, <2>9, <2>11, <2>12
<1>4. QED
  BY <1>2, <1>3 DEF Types

(* The end of a request: what was buffered, with its Done or Error.        *)
LEMMA RespondStep ==
  ASSUME PhpInv, UNCHANGED scriptVars, Respond
  PROVE  PhpInv' /\ (UNCHANGED written \/ Promise!Next)
<1> USE DEF PhpInv, scriptVars, routerVars
<1>1. /\ cur \in Requests /\ script = "none" /\ written[cur] \in Seq(Frames) /\ out \in Seq(Frames)
      /\ written[cur] # <<>> /\ \A s \in Requests \ {cur} : Closed(written[s])
  BY DEF Respond, OneInHand, Holding, After, Types
<1>2. /\ cur' = None /\ resp' = NoReply /\ out' = <<>> /\ loop' \in {"poll", "exited"}
      /\ UNCHANGED <<pongs, ctrl, linked, fresh, aborts, work>>
  BY DEF Respond
<1>3. /\ \/ UNCHANGED written /\ loop' = "exited"
         \/ Promise!Next /\ \A s \in Requests : Closed(written'[s])
      /\ written' \in [Requests -> Seq(Frames)]
      /\ \A s \in Requests : written'[s] = <<>> => written[s] = <<>>
  <2>1. CASE ~linked
    BY <2>1 DEF Respond, Types
  <2>2. CASE linked
    <3> DEFINE batch == CASE loop = "returned"              -> Finished(out, resp)
                          [] loop = "failed" /\ resp.done   -> out
                          [] loop = "failed" /\ ~resp.done  -> Append(out, "Error")
    <3>1. written' = [written EXCEPT ![cur] = written[cur] \o batch]
      BY <2>2 DEF Respond
    <3>2. batch \in Seq(Frames) /\ batch # <<>> /\ Good(written[cur] \o batch, {"Done", "Error"})
      <4>1. CASE loop = "returned"
        <5>1. batch = out
          BY <4>1 DEF Finished, After
        <5>2. QED
          BY <1>1, <4>1, <5>1 DEF After, Whole
      <4>2. CASE loop = "failed"
        <5>1. batch = Append(out, "Error")
          BY <4>2 DEF After
        <5>2. Good(written[cur] \o out, {"Claim", "Headers"})
          BY <4>2 DEF After, Whole
        <5>3. \A g \in {"Claim", "Headers"} : "Error" \in Promise!Follows[g]
          BY FollowsMeaning
        <5>4. /\ Append(out, "Error") \in Seq(Frames) /\ Append(out, "Error") # <<>>
              /\ Good(written[cur] \o Append(out, "Error"), {"Error"})
          BY <1>1, <5>2, <5>3, BufferAppend, FrameSet
        <5>5. QED
          BY <5>1, <5>4 DEF Good
      <4>3. QED
        BY <4>1, <4>2 DEF Respond
    <3> HIDE DEF batch
    <3>3. Promise!Next
      BY <1>1, <3>1, <3>2, AddsFrames DEF Types, Good
    <3>4. written' \in [Requests -> Seq(Frames)]
      BY <1>1, <3>1, <3>2 DEF Types, Good
    <3>5. \A s \in Requests : Closed(written'[s])
      BY <1>1, <3>1, <3>2 DEF Types, Good, Closed
    <3>6. \A s \in Requests : written'[s] = <<>> => written[s] = <<>>
      BY <1>1, <3>1, <3>2 DEF Types, Good
    <3>7. QED
      BY <3>3, <3>4, <3>5, <3>6
  <2>3. QED
    BY <2>1, <2>2 DEF Types
<1>4. Types'
  BY <1>2, <1>3, EmptySeq DEF Types, NoReply, Idle
<1>5. HandedOnce'
  <2>1. ASSUME NEW r \in Requests, r \in fresh \cup work
        PROVE  written'[r] = <<>>
    BY <2>1, <1>1, <1>2 DEF HandedOnce, Respond, Types
  <2>2. QED
    BY <1>2, <2>1 DEF HandedOnce
<1>6. OneInHand'
  BY <1>2, <1>3, WorkerAssumption DEF OneInHand, Idle, Holding
<1>7. Before' /\ InHandle' /\ InRun' /\ After'
  BY <1>1, <1>2 DEF Before, InHandle, InRun, After, Idle
<1>8. AbortsKnown'
  BY <1>2 DEF AbortsKnown, NoReply
<1>9. QED
  BY <1>3, <1>4, <1>5, <1>6, <1>7, <1>8

-----------------------------------------------------------------------------
(* The handler.                                                            *)

(* Its steps stay with the request in hand.                                *)
LEMMA HandlerFrame ==
  ASSUME PhpInv, loop = "handling", loop' \in Holding,
         UNCHANGED <<cur, written, linked, fresh, work>>
  PROVE  HandedOnce' /\ OneInHand'
BY DEF PhpInv, HandedOnce, OneInHand, Idle, Holding

(* Steps of handle without a script: out, resp and loop change.            *)
LEMMA HandleFailsStep ==
  ASSUME PhpInv, HandleFails
  PROVE  PhpInv' /\ UNCHANGED written
<1> USE DEF PhpInv, HandleFails, Handling, replyVars, streamVars, routerVars, scriptVars
<1>1. HandedOnce' /\ OneInHand'
  BY HandlerFrame DEF Holding
<1>2. Types'
  BY DEF Types, Holding
<1>3. Whole' = Whole
  BY DEF Whole
<1>4. Before' /\ InHandle' /\ InRun' /\ After'
  BY <1>3 DEF Before, InHandle, InRun, After, Idle, NoReply, Good
<1>5. AbortsKnown'
  BY DEF AbortsKnown
<1>6. QED
  BY <1>1, <1>2, <1>4, <1>5

(* An engine that does not start makes the task an error.                  *)
LEMMA EngineFailsStep ==
  ASSUME PhpInv, EngineFails
  PROVE  PhpInv' /\ UNCHANGED written
<1> USE DEF PhpInv, EngineFails, Handling, streamVars, routerVars, scriptVars
<1>1. HandedOnce' /\ OneInHand'
  BY HandlerFrame DEF Holding
<1>2. cur \in Requests /\ written[cur] \in Seq(Frames) /\ out \in Seq(Frames)
  BY DEF OneInHand, Holding, Types
<1>3. Good(written[cur] \o out, {"Claim"}) /\ resp = NoReply
  BY DEF InHandle, Whole
<1>4. \A g \in {"Claim"} : "Error" \in Promise!Follows[g]
  BY FollowsMeaning
<1>5. out' \in Seq(Frames) /\ out' # <<>> /\ Good(written[cur] \o out', {"Error"})
  BY <1>2, <1>3, <1>4, BufferAppend, FrameSet
<1>6. Good(Whole', {"Done", "Error"})
  BY <1>5 DEF Whole, Good
<1>7. Types'
  BY <1>5 DEF Types, Holding
<1>8. After'
  BY <1>3, <1>5, <1>6 DEF After, Types, Idle
<1>9. Before' /\ InHandle' /\ InRun'
  BY DEF Before, InHandle, InRun
<1>10. AbortsKnown'
  BY <1>3 DEF AbortsKnown, NoReply
<1>11. QED
  BY <1>1, <1>7, <1>8, <1>9, <1>10

(* A request without a script gets a page of the module's own.             *)
LEMMA ErrorPageStep ==
  ASSUME PhpInv, ErrorPage
  PROVE  PhpInv' /\ UNCHANGED written
<1> USE DEF PhpInv, ErrorPage, Handling, routerVars, scriptVars
<1>1. loop' \in {"failed", "returned"}
  OBVIOUS
<1>2. HandedOnce' /\ OneInHand'
  BY <1>1, HandlerFrame DEF Holding
<1>3. cur \in Requests /\ written[cur] \in Seq(Frames) /\ out \in Seq(Frames)
  BY DEF OneInHand, Holding, Types
<1>4. Good(written[cur] \o out, {"Claim"}) /\ resp = NoReply
  BY DEF InHandle, Whole
<1>5. /\ ctrl' \in Seq(CtrlFrames) /\ AbortsIn(ctrl', aborts)
      /\ pongs' \in [busy : Nat, idle : Nat] /\ pongs'.idle = pongs.idle
  BY PollControlEffect DEF AbortsKnown, AbortsIn
<1> DEFINE o == Append(out, "Headers")
<1>6. o \in Seq(Frames) /\ Good(written[cur] \o o, {"Headers"})
  <2>1. \A g \in {"Claim"} : "Headers" \in Promise!Follows[g]
    BY FollowsMeaning
  <2>2. QED
    BY <1>3, <1>4, <2>1, BufferAppend, FrameSet
<1> HIDE DEF o
<1>7. /\ out' \in Seq(Frames) /\ resp' \in [headers : BOOLEAN, end : BOOLEAN, done : BOOLEAN, aborted : BOOLEAN]
      /\ loop' = "returned" => resp'.done /\ out' # <<>> /\ Good(Whole', {"Done", "Error"}) /\ ~resp'.aborted
      /\ loop' = "failed" => ~resp'.done /\ Good(Whole', {"Claim", "Headers"})
  <2>1. CASE ClientGone
    <3>1. out' = o /\ loop' = "failed" /\ resp' = [resp EXCEPT !.headers = TRUE, !.aborted = TRUE]
      BY <2>1 DEF o
    <3>2. QED
      BY <1>4, <1>6, <3>1 DEF Types, NoReply, Whole, Good
  <2>2. CASE ~ClientGone
    <3> DEFINE p == Append(o, "Body")
    <3>1. p \in Seq(Frames) /\ Good(written[cur] \o p, {"Body"})
      <4>1. \A g \in {"Headers"} : "Body" \in Promise!Follows[g]
        BY FollowsMeaning
      <4>2. QED
        BY <1>3, <1>6, <4>1, BufferAppend, FrameSet
    <3>2. out \o <<"Headers", "Body">> = p
      BY <1>3 DEF o
    <3> HIDE DEF p
    <3>3. Good(written[cur] \o p, {"Headers", "Body", "Flush"})
      BY <3>1 DEF Good
    <3>4. out' = p \o <<"End", "Done">>
      BY <1>4, <2>2, <3>2 DEF Finished, NoReply
    <3>5. out' \in Seq(Frames) /\ out' # <<>> /\ Good(written[cur] \o out', {"Done"})
      BY <1>3, <3>1, <3>3, <3>4, BufferFinish
    <3>6. loop' = "returned" /\ resp' = [resp EXCEPT !.headers = TRUE, !.end = TRUE, !.done = TRUE]
      BY <2>2
    <3>7. QED
      BY <1>4, <3>5, <3>6 DEF Types, NoReply, Whole, Good
  <2>3. QED
    BY <2>1, <2>2
<1>8. Types'
  BY <1>1, <1>5, <1>7 DEF Types, Holding, CtrlFrames
<1>9. Before' /\ InHandle' /\ InRun'
  BY <1>1 DEF Before, InHandle, InRun
<1>10. After'
  BY <1>1, <1>7 DEF After, Idle
<1>11. AbortsKnown'
  <2>1. CASE ClientGone
    BY <1>5, <2>1, GoneIsTrue DEF AbortsKnown, AbortsIn
  <2>2. CASE ~ClientGone
    BY <1>5, <1>7, <2>2 DEF AbortsKnown, AbortsIn
  <2>3. QED
    BY <2>1, <2>2
<1>12. QED
  BY <1>2, <1>8, <1>9, <1>10, <1>11

(* The script starts behind the Claim.                                     *)
LEMMA StartScriptStep ==
  ASSUME PhpInv, StartScript
  PROVE  PhpInv' /\ UNCHANGED written
<1> USE DEF PhpInv, StartScript, Handling, workerVars, loopVars, replyVars, streamVars, routerVars
<1>1. HandedOnce' /\ OneInHand'
  BY HandlerFrame DEF Holding
<1>2. Types'
  BY DEF Types, NoCtx
<1>3. Whole' = Whole
  BY DEF Whole
<1>4. call = None /\ resp = NoReply /\ Good(Whole, {"Claim"})
  BY DEF Before, InHandle
<1>5. Before' /\ InHandle' /\ After'
  BY DEF Before, InHandle, After, Idle
<1>6. InRun'
  BY <1>3, <1>4, OutputAssumption DEF InRun, NoReply, NoCtx
<1>7. AbortsKnown'
  BY DEF AbortsKnown
<1>8. QED
  BY <1>1, <1>2, <1>5, <1>6, <1>7

-----------------------------------------------------------------------------
(* The script.                                                             *)

(* A script runs for the request in hand only.                             *)
LEMMA InRunMeans ==
  ASSUME PhpInv, script = "running"
  PROVE  /\ loop = "handling" /\ cur \in Requests
         /\ written[cur] \in Seq(Frames) /\ out \in Seq(Frames)
BY DEF PhpInv, InRun, OneInHand, Holding, Types

(* A script that goes on: what InRun' needs, and nothing else moves.       *)
LEMMA RunGoesOn ==
  ASSUME PhpInv, script = "running", UNCHANGED <<script, loopVars, written, routerVars, work>>,
         Types', InRun', AbortsKnown'
  PROVE  PhpInv' /\ UNCHANGED written
<1>1. loop = "handling"
  BY InRunMeans
<1>2. HandedOnce' /\ OneInHand'
  BY <1>1, HandlerFrame DEF loopVars, routerVars, Holding
<1>3. Before' /\ InHandle' /\ After'
  BY <1>1 DEF Before, InHandle, After, loopVars, Idle
<1>4. QED
  BY <1>2, <1>3 DEF PhpInv

(* The engine sends the headers, once.                                     *)
LEMMA SendHeadersStep ==
  ASSUME PhpInv, SendHeaders
  PROVE  PhpInv' /\ UNCHANGED written
<1> USE DEF SendHeaders, InScript, streamVars
<1>1. script = "running" /\ UNCHANGED <<script, loopVars, written, routerVars, work>>
  OBVIOUS
<1>2. /\ ~resp.done /\ ~resp.end /\ ~ctx.headers /\ ~ctx.released /\ call = None
      /\ Good(written[cur] \o out, {"Claim"})
  BY DEF PhpInv, InRun, Types, Whole
<1>3. /\ out' = Append(out, "Headers") /\ resp' = [resp EXCEPT !.headers = TRUE]
      /\ ctx' = [ctx EXCEPT !.headers = TRUE] /\ sg' = TRUE /\ UNCHANGED <<call, cur, written, pongs, ctrl>>
  BY <1>2 DEF loopVars
<1>4. \A g \in {"Claim"} : "Headers" \in Promise!Follows[g]
  BY FollowsMeaning
<1>5. out' \in Seq(Frames) /\ Good(written[cur] \o out', {"Headers"})
  BY <1>2, <1>3, <1>4, InRunMeans, BufferAppend, FrameSet
<1>6. Good(Whole', {"Headers", "Body", "Flush"})
  BY <1>3, <1>5 DEF Whole, Good
<1>7. Types'
  BY <1>1, <1>3, <1>5 DEF PhpInv, Types, loopVars, routerVars
<1>8. InRun'
  <2>1. resp'.done = resp.done /\ resp'.end = resp.end
    BY <1>3 DEF PhpInv, Types
  <2>2. ctx'.headers = TRUE /\ ctx'.released = ctx.released
    BY <1>3 DEF PhpInv, Types
  <2>3. loop' = "handling" /\ call' = None
    BY <1>1, <1>2, <1>3, InRunMeans DEF loopVars
  <2>4. QED
    BY <1>2, <1>3, <1>6, <2>1, <2>2, <2>3, OutputAssumption DEF InRun
<1>9. AbortsKnown'
  BY <1>1, <1>3 DEF PhpInv, AbortsKnown, Types, routerVars, loopVars
<1>10. QED
  BY <1>1, <1>7, <1>8, <1>9, RunGoesOn

(* A call that is swallowed or refused.                                    *)
LEMMA QuietStep ==
  ASSUME PhpInv, InScript, Quiet, UNCHANGED <<loopVars, written, routerVars, work, script, sg>>
  PROVE  PhpInv' /\ UNCHANGED written
<1> USE DEF InScript, Quiet, replyVars, loopVars, routerVars
<1>1. Whole' = Whole
  BY DEF Whole
<1>2. Types'
  BY DEF PhpInv, Types
<1>3. InRun'
  BY <1>1 DEF PhpInv, InRun
<1>4. AbortsKnown'
  BY DEF PhpInv, AbortsKnown
<1>5. QED
  BY <1>2, <1>3, <1>4, RunGoesOn

(* A frame of output before the End, or the news that the client is gone.  *)
LEMMA PushStep ==
  ASSUME PhpInv, InScript, sg, ~ctx.released,
         NEW frame \in {"Body", "Flush"}, NEW limit, Push(frame, limit),
         UNCHANGED <<loopVars, written, routerVars, work, script, sg>>
  PROVE  PhpInv' /\ UNCHANGED written
<1> USE DEF InScript
<1>1. script = "running" /\ UNCHANGED <<script, loopVars, written, routerVars, work>>
  OBVIOUS
<1>2. /\ ~resp.done /\ ~resp.end /\ ctx.headers
      /\ Good(written[cur] \o out, {"Headers", "Body", "Flush"})
  BY OutputAssumption DEF PhpInv, InRun, Types, Whole
<1>3. /\ ctrl' \in Seq(CtrlFrames) /\ AbortsIn(ctrl', aborts)
      /\ pongs' \in [busy : Nat, idle : Nat] /\ pongs'.idle = pongs.idle
  BY PollControlEffect DEF Push, PhpInv, AbortsKnown, AbortsIn
<1>4. loop = "handling" /\ UNCHANGED <<loop, cur, written, linked, aborts>>
  BY <1>1, InRunMeans DEF loopVars, routerVars
<1>5. CASE ClientGone
  <2>1. /\ resp' = [resp EXCEPT !.aborted = TRUE] /\ ctx' = [ctx EXCEPT !.gone = TRUE]
        /\ UNCHANGED <<out, call>>
    BY <1>5 DEF Push
  <2>2. Types'
    BY <1>1, <1>3, <2>1 DEF PhpInv, Types, loopVars, routerVars, CtrlFrames
  <2>3. Whole' = Whole
    BY <1>4, <2>1 DEF Whole
  <2>4. InRun'
    <3>1. resp'.done = resp.done /\ resp'.end = resp.end
      BY <2>1 DEF PhpInv, Types
    <3>2. ctx'.headers = ctx.headers /\ ctx'.released = ctx.released
      BY <2>1 DEF PhpInv, Types
    <3>3. QED
      BY <1>1, <1>4, <2>1, <2>3, <3>1, <3>2 DEF PhpInv, InRun
  <2>5. AbortsKnown'
    BY <1>3, <1>4, <1>5, GoneIsTrue DEF AbortsKnown, AbortsIn
  <2>6. QED
    BY <1>1, <2>2, <2>4, <2>5, RunGoesOn
<1>6. CASE ~ClientGone
  <2>1. /\ out' = Append(out, frame) /\ call' \in {frame, None} /\ UNCHANGED <<resp, ctx>>
    BY <1>6 DEF Push
  <2>2. out' \in Seq(Frames) /\ Good(written[cur] \o out', {frame})
    <3>1. \A g \in {"Headers", "Body", "Flush"} : frame \in Promise!Follows[g]
      BY FollowsMeaning
    <3>2. frame \in Frames
      BY FrameSet
    <3>3. QED
      BY <1>2, <2>1, <3>1, <3>2, InRunMeans, BufferAppend
  <2>3. Good(Whole', {"Headers", "Body", "Flush"})
    BY <1>4, <2>2 DEF Whole, Good
  <2>4. Types'
    BY <1>1, <1>3, <2>1, <2>2 DEF PhpInv, Types, loopVars, routerVars, CtrlFrames
  <2>5. InRun'
    <3>1. call' # "End"
      BY <2>1, OutputAssumption
    <3>2. QED
      BY <1>1, <1>2, <1>4, <2>1, <2>3, <3>1 DEF PhpInv, InRun
  <2>6. AbortsKnown'
    BY <1>3, <1>4, <2>1 DEF PhpInv, AbortsKnown, AbortsIn
  <2>7. QED
    BY <1>1, <2>4, <2>5, <2>6, RunGoesOn
<1>7. QED
  BY <1>5, <1>6

(* fastcgi_finish_request ends the response, and the script goes on.       *)
LEMMA FinishRequestStep ==
  ASSUME PhpInv, FinishRequest
  PROVE  PhpInv' /\ UNCHANGED written
<1> USE DEF FinishRequest, Output, InScript
<1>1. script = "running" /\ UNCHANGED <<script, loopVars, written, routerVars, work>>
  OBVIOUS
<1>2. CASE ctx.released
  BY <1>2, QuietStep
<1>3. CASE ~ctx.released
  <2>1. /\ out' = Append(out, "End") /\ resp' = [resp EXCEPT !.end = TRUE] /\ call' = "End"
        /\ UNCHANGED <<ctrl, pongs, ctx, sg>> /\ sg
    BY <1>3
  <2>2. ~resp.done /\ ~resp.end /\ Good(written[cur] \o out, {"Headers", "Body", "Flush"})
    BY <1>3, OutputAssumption DEF PhpInv, InRun, Types, Whole
  <2>3. out' \in Seq(Frames) /\ Good(written[cur] \o out', {"End"})
    <3>1. \A g \in {"Headers", "Body", "Flush"} : "End" \in Promise!Follows[g]
      BY FollowsMeaning
    <3>2. PICK a, b : a = written[cur] /\ b = out
      OBVIOUS
    <3>3. a \in Seq(Frames) /\ b \in Seq(Frames) /\ "End" \in Frames
      BY <1>1, <3>2, InRunMeans, FrameSet
    <3>4. Good(a \o b, {"Headers", "Body", "Flush"})
      BY <2>2, <3>2
    <3>5. Append(b, "End") \in Seq(Frames) /\ Good(a \o Append(b, "End"), {"End"})
      BY <3>1, <3>3, <3>4, BufferAppend
    <3>6. QED
      BY <2>1, <3>2, <3>5
  <2>4. loop = "handling" /\ UNCHANGED <<loop, cur, written, linked, aborts>>
    BY <1>1, InRunMeans DEF loopVars, routerVars
  <2>5. Good(Whole', {"End"})
    BY <2>3, <2>4 DEF Whole
  <2>6. Types'
    BY <1>1, <2>1, <2>3 DEF PhpInv, Types, loopVars, routerVars
  <2>7. InRun'
    <3>1. ~resp'.done /\ resp'.end
      BY <2>1, <2>2 DEF PhpInv, Types
    <3>2. sg' /\ sg' = ctx'.headers /\ ~ctx'.released /\ call' = "End" /\ loop' = "handling"
      <4>1. sg = ctx.headers
        BY <1>1 DEF PhpInv, InRun
      <4>2. sg' = sg /\ ctx' = ctx /\ call' = "End" /\ loop' = "handling" /\ sg
        BY <2>1, <2>4
      <4>3. QED
        BY <1>3, <4>1, <4>2, Zenon
    <3>3. QED
      BY <2>5, <3>1, <3>2, Zenon DEF InRun
  <2>8. AbortsKnown'
    BY <2>1, <2>4 DEF PhpInv, AbortsKnown, Types
  <2>9. QED
    BY <1>1, <2>6, <2>7, <2>8, RunGoesOn
<1>4. QED
  BY <1>2, <1>3

(* The write of a batch: on the stream, or the link is down and it stays.  *)
LEMMA DrainStep ==
  ASSUME PhpInv, Drain
  PROVE  PhpInv' /\ (UNCHANGED written \/ Promise!Next)
<1> USE DEF Drain
<1>1. /\ script = "running" /\ script' = "running" /\ call' = None /\ call # None
      /\ UNCHANGED <<loop, cur, resp, pongs, ctrl, linked, fresh, aborts, work, sg>>
  BY DEF loopVars, routerVars
<1>2. /\ loop = "handling" /\ cur \in Requests
      /\ written[cur] \in Seq(Frames) /\ out \in Seq(Frames)
      /\ written \in [Requests -> Seq(Frames)] /\ linked \in BOOLEAN
      /\ ctx \in [headers : BOOLEAN, released : BOOLEAN, gone : BOOLEAN]
  BY <1>1, InRunMeans DEF PhpInv, Types
<1>3. /\ ~resp.done /\ sg = ctx.headers /\ sg
      /\ resp.end <=> ctx.released \/ call = "End"
      /\ ~resp.end => Good(Whole, {"Headers", "Body", "Flush"})
      /\ resp.end => Good(Whole, {"End"})
  BY <1>1 DEF PhpInv, InRun, Types
<1>4. Whole \in Seq(Frames) /\ Promise!Legal(Whole)
  BY <1>3 DEF Good
<1>5. /\ ctx' \in [headers : BOOLEAN, released : BOOLEAN, gone : BOOLEAN]
      /\ ctx'.headers = ctx.headers
      /\ ctx'.released <=> ctx.released \/ call = "End"
  <2>1. CASE call = "End"
    <3>1. ctx' = [ctx EXCEPT !.released = TRUE]
      BY <2>1
    <3>2. QED
      BY <1>2, <2>1, <3>1
  <2>2. CASE call # "End"
    <3>1. ctx' = ctx \/ ctx' = [ctx EXCEPT !.gone = TRUE]
      BY <1>2, <2>2
    <3>2. QED
      BY <1>2, <2>2, <3>1
  <2>3. QED
    BY <2>1, <2>2
<1>6. /\ written' \in [Requests -> Seq(Frames)] /\ out' \in Seq(Frames)
      /\ \A s \in Requests \ {cur} : written'[s] = written[s]
      /\ written[cur] # <<>> => written'[cur] # <<>>
      /\ Whole' = Whole
      /\ linked => out' = <<>>
      /\ UNCHANGED written \/ Promise!Next
  <2>1. CASE linked
    <3>1. written' = [written EXCEPT ![cur] = written[cur] \o out] /\ out' = <<>>
      BY <2>1 DEF Drained
    <3>2. written[cur] \o out \in Seq(Frames) /\ (written[cur] \o out) \o <<>> = written[cur] \o out
      BY <1>2, ConcatProperties, ConcatEmptySeq
    <3>3. Whole' = Whole
      BY <1>1, <1>2, <3>1, <3>2 DEF Whole
    <3>4. UNCHANGED written \/ Promise!Next
      <4>1. CASE out = <<>>
        <5>1. written[cur] \o out = written[cur]
          BY <1>2, <4>1, ConcatEmptySeq
        <5>2. QED
          BY <1>2, <3>1, <5>1
      <4>2. CASE out # <<>>
        <5>1. \A s \in Requests \ {cur} : Closed(written[s])
          BY <1>2 DEF PhpInv, OneInHand
        <5>2. QED
          BY <1>2, <1>4, <3>1, <4>2, <5>1, AddsFrames DEF Whole
      <4>3. QED
        BY <4>1, <4>2
    <3>5. written[cur] # <<>> => written'[cur] # <<>>
      BY <1>2, <3>1, ConcatProperties, EmptySeq
    <3>6. QED
      BY <1>2, <3>1, <3>2, <3>3, <3>4, <3>5, EmptySeq
  <2>2. CASE ~linked
    BY <1>1, <1>2, <2>2 DEF Drained, Whole
  <2>3. QED
    BY <2>1, <2>2
<1>7. Types'
  BY <1>1, <1>5, <1>6 DEF PhpInv, Types
<1>8. HandedOnce' /\ OneInHand'
  BY <1>1, <1>2, <1>6 DEF PhpInv, HandedOnce, OneInHand, Idle, Holding
<1>9. InRun'
  <2>1. loop' = "handling" /\ ~resp'.done /\ sg' = ctx'.headers /\ sg' /\ call' # "End"
    BY <1>1, <1>2, <1>3, <1>5, OutputAssumption
  <2>2. resp'.end <=> ctx'.released \/ call' = "End"
    BY <1>1, <1>3, <1>5, <2>1
  <2>3. /\ ~resp'.end => Good(Whole', {"Headers", "Body", "Flush"})
        /\ resp'.end => Good(Whole', {"End"})
    BY <1>1, <1>3, <1>6
  <2>4. linked' => out' = <<>>
    BY <1>1, <1>6
  <2>5. QED
    BY <2>1, <2>2, <2>3, <2>4, Zenon DEF InRun
<1>10. Before' /\ InHandle' /\ After'
  BY <1>1, <1>2 DEF Before, InHandle, After, Idle
<1>11. AbortsKnown'
  BY <1>1 DEF PhpInv, AbortsKnown
<1>12. QED
  BY <1>6, <1>7, <1>8, <1>9, <1>10, <1>11 DEF PhpInv

(* The end of the script: headers if it sent none, End unless it is there, *)
(* and Done.                                                               *)
LEMMA EndScriptStep ==
  ASSUME PhpInv, EndScript
  PROVE  PhpInv' /\ UNCHANGED written
<1>1. /\ script = "running" /\ script' = "none" /\ call = None /\ loop' = "returned"
      /\ UNCHANGED <<call, cur, written, pongs, ctrl, linked, fresh, aborts, work>>
  BY DEF EndScript, InScript, streamVars, routerVars
<1>2. /\ loop = "handling" /\ cur \in Requests
      /\ written[cur] \in Seq(Frames) /\ out \in Seq(Frames)
  BY <1>1, InRunMeans
<1>3. /\ ~resp.done /\ sg = ctx.headers
      /\ ~sg => Good(written[cur] \o out, {"Claim"}) /\ ~resp.end
      /\ sg /\ ~resp.end => Good(written[cur] \o out, {"Headers", "Body", "Flush"})
      /\ resp.end => sg /\ Good(written[cur] \o out, {"End"})
  BY <1>1, Zenon DEF PhpInv, InRun, Whole
<1> DEFINE block == IF ctx.headers THEN out ELSE Append(out, "Headers")
<1>4. out' = Finished(block, resp)
  BY DEF EndScript
<1>5. /\ block \in Seq(Frames)
      /\ ~resp.end => Good(written[cur] \o block, {"Headers", "Body", "Flush"})
      /\ resp.end => Good(written[cur] \o block, {"End"})
  <2>1. CASE sg
    <3>1. block = out
      BY <1>3, <2>1
    <3>2. QED
      BY <1>2, <1>3, <2>1, <3>1
  <2>2. CASE ~sg
    <3>1. block = Append(out, "Headers") /\ ~resp.end /\ Good(written[cur] \o out, {"Claim"})
      BY <1>3, <2>2
    <3>2. \A g \in {"Claim"} : "Headers" \in Promise!Follows[g]
      BY FollowsMeaning
    <3>3. block \in Seq(Frames) /\ Good(written[cur] \o block, {"Headers"})
      BY <1>2, <3>1, <3>2, BufferAppend, FrameSet
    <3>4. QED
      BY <3>1, <3>3 DEF Good
  <2>3. QED
    BY <2>1, <2>2
<1> HIDE DEF block
<1>6. out' \in Seq(Frames) /\ out' # <<>> /\ Good(written[cur] \o out', {"Done"})
  <2>1. CASE resp.end
    <3>1. out' = Append(block, "Done")
      BY <1>3, <1>4, <2>1 DEF Finished
    <3>2. \A g \in {"End"} : "Done" \in Promise!Follows[g]
      BY FollowsMeaning
    <3>3. Good(written[cur] \o block, {"End"}) /\ block \in Seq(Frames) /\ "Done" \in Frames
      BY <1>5, <2>1, FrameSet
    <3>4. PICK a : a = written[cur] /\ a \in Seq(Frames)
      BY <1>2
    <3>5. Append(block, "Done") # <<>> /\ Append(block, "Done") \in Seq(Frames)
          /\ Good(a \o Append(block, "Done"), {"Done"})
      BY <3>2, <3>3, <3>4, BufferAppend
    <3>6. QED
      BY <3>1, <3>4, <3>5
  <2>2. CASE ~resp.end
    <3>1. out' = block \o <<"End", "Done">>
      BY <1>3, <1>4, <2>2 DEF Finished
    <3>2. QED
      BY <1>2, <1>5, <2>2, <3>1, BufferFinish
  <2>3. QED
    BY <2>1, <2>2
<1>7. Good(Whole', {"Done", "Error"})
  BY <1>1, <1>6 DEF Whole, Good
<1>8. resp' = [resp EXCEPT !.headers = TRUE, !.end = TRUE, !.done = TRUE] /\ ctx' = NoCtx /\ sg' = FALSE
  BY DEF EndScript
<1>9. Types'
  <2>1. /\ resp' \in [headers : BOOLEAN, end : BOOLEAN, done : BOOLEAN, aborted : BOOLEAN]
        /\ ctx' \in [headers : BOOLEAN, released : BOOLEAN, gone : BOOLEAN]
    BY <1>8 DEF PhpInv, Types, NoCtx
  <2>2. QED
    BY <1>1, <1>6, <1>8, <2>1 DEF PhpInv, Types, Holding
<1>10. HandedOnce' /\ OneInHand'
  BY <1>1, <1>2, HandlerFrame DEF Holding
<1>11. Before' /\ InHandle' /\ InRun'
  BY <1>1, <1>8 DEF Before, InHandle, InRun
<1>12. After'
  <2>1. resp'.done
    BY <1>8 DEF PhpInv, Types
  <2>2. QED
    BY <1>1, <1>6, <1>7, <2>1 DEF After, Idle
<1>13. AbortsKnown'
  BY <1>1, <1>8 DEF PhpInv, AbortsKnown, Types
<1>14. QED
  BY <1>1, <1>9, <1>10, <1>11, <1>12, <1>13 DEF PhpInv

-----------------------------------------------------------------------------
(* Nothing is written of any request.                                      *)
LEMMA PhpInit == Init => PhpInv /\ Promise!Init
<1> SUFFICES ASSUME Init PROVE PhpInv /\ Promise!Init
  OBVIOUS
<1> USE DEF Init, WorkerInit
<1>1. Types
  BY EmptySeq DEF Types, NoReply, NoCtx, Idle
<1>2. HandedOnce /\ OneInHand
  BY WorkerAssumption DEF HandedOnce, OneInHand, Idle, Holding, Closed
<1>3. Before /\ InHandle /\ InRun /\ After
  BY DEF Before, InHandle, InRun, After
<1>4. Len(ctrl) = 0
  BY EmptySeq
<1>5. AbortsKnown
  BY <1>4 DEF AbortsKnown, NoReply
<1>6. QED
  BY <1>1, <1>2, <1>3, <1>5 DEF PhpInv, Promise!Init

(* Every step keeps the invariant and is a step of the exchange.           *)
LEMMA PhpStep ==
  ASSUME PhpInv, [Next]_vars
  PROVE  PhpInv' /\ [Promise!Next]_written
<1>1. CASE Router /\ UNCHANGED scriptVars
  BY <1>1, RouterStep
<1>2. CASE Loop /\ UNCHANGED scriptVars
  BY <1>2, IdleStep, RecvStep, RespondStep DEF Loop
<1>3. CASE Handler
  <2>1. CASE HandleFails \/ ErrorPage \/ EngineFails \/ StartScript
    BY <2>1, HandleFailsStep, ErrorPageStep, EngineFailsStep, StartScriptStep
  <2>2. CASE SendHeaders \/ FinishRequest \/ Drain \/ EndScript
    BY <2>2, SendHeadersStep, FinishRequestStep, DrainStep, EndScriptStep
  <2>3. CASE Write
    BY <2>3, QuietStep, PushStep DEF Write, Output
  <2>4. CASE Flush
    BY <2>4, QuietStep, PushStep DEF Flush, Output
  <2>5. QED
    BY <1>3, <2>1, <2>2, <2>3, <2>4 DEF Handler
<1>4. CASE UNCHANGED vars
  <2>1. UNCHANGED answerVars /\ UNCHANGED <<pongs, ctrl, linked, fresh, work, aborts>>
    BY <1>4 DEF vars, workerVars, loopVars, replyVars, streamVars, routerVars, scriptVars, answerVars
  <2>2. OneInHand' /\ Before' /\ InHandle' /\ InRun' /\ After'
    BY <2>1, AnswerKept
  <2>3. Types' /\ HandedOnce' /\ AbortsKnown'
    BY <2>1 DEF answerVars, PhpInv, Types, HandedOnce, AbortsKnown
  <2>4. QED
    BY <2>1, <2>2, <2>3 DEF PhpInv, answerVars
<1>5. QED
  BY <1>1, <1>2, <1>3, <1>4 DEF Next

(* lib.rs:95, 104, 124 assert the order of the calls of one Responder; the *)
(* router relies on the order of the frames. The worker with its buffer,   *)
(* its batches and its callbacks implements Exchange.                      *)
THEOREM ImplementsExchange == Spec => Implements
<1>1. Init => PhpInv /\ Promise!Init
  BY PhpInit
<1>2. PhpInv /\ [Next]_vars => PhpInv' /\ [Promise!Next]_written
  BY PhpStep
<1>3. QED
  BY <1>1, <1>2, PTL DEF Spec, Implements, Promise!Spec

(* poll_control and fastcgi_finish_request: what the handler and the       *)
(* script believe of their client is so, in every state.                   *)
THEOREM HandlerKnows == Spec => []BeliefsTrue
<1>1. ASSUME PhpInv
      PROVE  BeliefsTrue
  <2>1. AbortsHit
    BY <1>1 DEF PhpInv, AbortsKnown, AbortsHit
  <2>2. ReleasedHasEnd
    <3> SUFFICES ASSUME ctx.released, linked PROVE written[cur][Len(written[cur])] = "End"
      BY DEF ReleasedHasEnd
    <3>1. script = "running"
      BY <1>1 DEF PhpInv, Before, NoCtx, Types
    <3>2. out = <<>> /\ Good(Whole, {"End"})
      BY <1>1, <3>1 DEF PhpInv, InRun
    <3>3. Whole = written[cur]
      BY <1>1, <3>1, <3>2, InRunMeans, ConcatEmptySeq DEF Whole
    <3>4. QED
      BY <3>2, <3>3 DEF Good
  <2>3. QED
    BY <2>1, <2>2 DEF BeliefsTrue
<1>2. Init => PhpInv
  BY PhpInit
<1>3. PhpInv /\ [Next]_vars => PhpInv'
  BY PhpStep
<1>4. QED
  BY <1>1, <1>2, <1>3, PTL DEF Spec

(* answer_idle_control against poll_control: sweep_decide takes a Pong     *)
(* that says idle for a worker that lost its task, so none goes on the     *)
(* stream while a claimed request has no end on it.                        *)
THEOREM IdlePongs == Spec => IdleMeansDone
<1>1. ASSUME PhpInv, [Next]_vars, pongs'.idle > pongs.idle
      PROVE  Promise!Open(written) = {}
  <2>1. CASE AnswerControl
    <3>1. cur = None /\ \A r \in Requests \ {cur} : Closed(written[r])
      BY <1>1, <2>1 DEF PhpInv, OneInHand, AnswerControl, Idle
    <3>2. QED
      BY <3>1, WorkerAssumption DEF Promise!Open, Closed
  <2>2. CASE ~AnswerControl
    <3>1. pongs' = pongs \/ PollControl
      BY <1>1, <2>2
         DEF Next, Router, Submit, SendAbort, Steal, Shrink, SendPing, Close,
             Loop, Handshake, Poll, RecvNothing, RecvRetire, RecvGarbled, Recv, Respond,
             Handler, HandleFails, ErrorPage, EngineFails, StartScript, SendHeaders, Write, Flush,
             Push, Quiet, FinishRequest, Drain, EndScript, vars, workerVars, streamVars
    <3>2. pongs.idle \in Nat
      BY <1>1 DEF PhpInv, Types
    <3>3. pongs'.idle = pongs.idle
      BY <1>1, <3>1, PollControlEffect DEF PhpInv, AbortsKnown, AbortsIn
    <3>4. QED
      BY <1>1, <3>2, <3>3
  <2>3. QED
    BY <2>1, <2>2
<1>2. Init => PhpInv
  BY PhpInit
<1>3. PhpInv /\ [Next]_vars => PhpInv'
  BY PhpStep
<1>4. PhpInv /\ [Next]_vars => [pongs'.idle > pongs.idle => Promise!Open(written) = {}]_vars
  BY <1>1
<1>5. QED
  BY <1>2, <1>3, <1>4, PTL DEF Spec, IdleMeansDone

=============================================================================
