---------------------------- MODULE TunnelProofs ----------------------------
(***************************************************************************)
(* Proofs about the event-loop worker, for any set of requests, any granted*)
(* concurrency and any capacity of its channels: it writes neither a Claim *)
(* too many, for which the router would kill it, nor an end too many, also *)
(* where the router ignores a Claim that comes too late. On top of them,   *)
(* proofs about the tunnel from end to end, for any set of tunnels and any *)
(* capacity of the queues between client and worker: the router's tasks do *)
(* nothing the worker does not expect of them, and no message is lost.     *)
(***************************************************************************)
EXTENDS Tunnel, FiniteSetTheorems, SequenceTheorems, FunctionTheorems, TLAPS

-----------------------------------------------------------------------------
(* The stream, as a sequence of entries the router has still to read.      *)

\* Among the first n entries of s: a Claim, an end, a report of an Abort.
InFirst(s, K, r, n) == \E j \in 1 .. n : s[j].kind \in K /\ s[j].req = r
ClaimIn(s, r, n)  == InFirst(s, {"Claim"}, r, n)
EndIn(s, r, n)    == InFirst(s, Endings, r, n)
CancelIn(s, r, n) == InFirst(s, {"Cancelled"}, r, n)

\* What the worker holds, by the stream, when the router has read n entries
\* of s and c was the set before.
HeldAt(c, s, n) == {r \in Requests : (r \in c \/ ClaimIn(s, r, n)) /\ ~EndIn(s, r, n)}

\* One Claim and one end of a request, in this order, and no Claim too many.
StreamOK(c, s) ==
  /\ \A i, j \in 1 .. Len(s) :
       s[i].kind = "Claim" /\ s[j].kind = "Claim" /\ s[i].req = s[j].req => i = j
  /\ \A i, j \in 1 .. Len(s) :
       s[i].kind \in Endings /\ s[j].kind \in Endings /\ s[i].req = s[j].req => i = j
  /\ \A i \in 1 .. Len(s) : s[i].kind = "Claim" => s[i].req \notin c
  /\ \A i \in 1 .. Len(s) :
       s[i].kind \in Endings => s[i].req \in c \/ ClaimIn(s, s[i].req, i - 1)
  /\ \A i \in 1 .. Len(s) :
       s[i].kind = "Claim" => Cardinality(HeldAt(c, s, i - 1)) < Granted

\* Who waits with an entry: the main loop, a handler, the reader.
SameSender(a, b) ==
  \/ a.kind = "Claim" /\ b.kind = "Claim"
  \/ a.kind \in HandlerKinds /\ b.kind \in HandlerKinds /\ a.req = b.req
  \/ a.kind \in ReaderKinds /\ b.kind \in ReaderKinds

\* Nobody waits twice.
Sole(w) == \A i, j \in 1 .. Len(w) : SameSender(w[i], w[j]) => i = j

-----------------------------------------------------------------------------
(* The inductive invariant.                                                *)

Started(r)  == r \in held \/ ClaimIn(out, r, Len(out))
Ended(r)    == EndIn(out, r, Len(out))
Claiming(r) == ClaimIn(waiting, r, Len(waiting))
Reported(r) == CancelIn(waiting, r, Len(waiting))
Active(r)   == handler[r] \notin {"none", "aborting"}

Types ==
  /\ main \in MainStates /\ permits \in Nat /\ served \in Nat
  /\ handler \in [Requests -> HandlerStates]
  /\ got \in [Requests -> 0..Chunks]
  /\ bodies \subseteq Requests /\ inflight \subseteq Requests
  /\ chan \in [Requests -> Seq(Inbound)]
  /\ reader \in {"reading", "sending", "gone"}
  /\ hold \in DownFrames \cup {None}
  /\ waiting \in Seq(Entries) /\ out \in Seq(Entries) /\ down \in Seq(DownFrames)
  /\ fresh \subseteq Requests /\ claimed \subseteq Requests /\ held \subseteq Requests
  /\ slot \in [Requests -> SlotStates]
  /\ upload \in [Requests -> 0..(Chunks + 1)]
  /\ linked \in BOOLEAN

\* Bounds of what counts up.
Counts ==
  /\ served + (IF main = "claiming" THEN 1 ELSE 0) <= Cardinality(Requests \ fresh)
  /\ \A r \in Requests :
       /\ handler[r] = "reading" => got[r] < Chunks
       /\ handler[r] = "new" \/ r \in fresh \/ Claiming(r) => got[r] = 0
  /\ hold # None => hold.kind \in Inbound

\* A task waits there, main loop m, handlers h or reader d, with entry e.
Waits(m, h, d, e) ==
  /\ e.kind = "Claim" => m = "claiming"
  /\ e.kind = "Accept" => h[e.req] = "accepting"
  /\ e.kind = "Message" => h[e.req] = "echoing"
  /\ e.kind \in LastKinds => h[e.req] = "sending"
  /\ e.kind \in ReaderKinds => d = "sending"

\* Every entry in the queue is of a task that waits there, once.
QueueOK(w, m, h, d) == Sole(w) /\ \A i \in 1 .. Len(w) : Waits(m, h, d, w[i])
Queue == QueueOK(waiting, main, handler, reader)

\* What a request has gone through, its entries tell.
StoryOf(r) ==
  /\ r \in fresh => handler[r] = "none" /\ ~Started(r) /\ ~Claiming(r) /\ ~Reported(r)
  /\ Claiming(r) => handler[r] = "none" /\ ~Started(r) /\ ~Reported(r)
  /\ Active(r) => ~Ended(r) /\ ~Reported(r) /\ (linked => Started(r))
  /\ Reported(r) => ~Ended(r) /\ (linked => Started(r))
  /\ Started(r) => Active(r) \/ Ended(r) \/ Reported(r)
Story == \A r \in Requests : StoryOf(r)

\* The Claim that waits will fit. The ends of handlers that wait before it
\* are not counted on: an Abort may take them back.
Owing(c, s, w, k) == {r \in HeldAt(c, s, Len(s)) : ~CancelIn(w, r, k - 1)}
Fits(c, s, w) ==
  \A k \in 1 .. Len(w) : w[k].kind = "Claim" => Cardinality(Owing(c, s, w, k)) < Granted
NextFits == linked => Fits(held, out, waiting)

Cut == ~linked => out = <<>> /\ held = {}

\* The handlers that hold a permit.
Busy(h) == {r \in Requests : h[r] # "none"}

Ledgers ==
  /\ Queue /\ Story /\ NextFits /\ Cut
  /\ StreamOK(held, out) /\ PermitsAccount /\ HandlesMatch

\* The Claim of r has been read by the router.
PastClaim(r) == r \notin fresh /\ ~Claiming(r) /\ ~ClaimIn(out, r, Len(out))

\* A request is taken with its Claim, which comes once.
Slots == ClaimsMatch /\ \A r \in Requests : slot[r] = "taken" => PastClaim(r)

EchoInv == Types /\ Counts /\ Ledgers /\ Slots

-----------------------------------------------------------------------------
(* Entries come at the end of a queue and leave at its head.               *)

(* An entry written leaves the first entries as they were.                 *)
LEMMA AppendFirst ==
  ASSUME NEW s \in Seq(Entries), NEW e \in Entries, NEW K, NEW r
  PROVE  LET t == Append(s, e)
         IN  /\ t \in Seq(Entries) /\ Len(t) = Len(s) + 1 /\ Len(s) \in Nat
             /\ \A i \in 1 .. Len(s) : t[i] = s[i]
             /\ t[Len(s) + 1] = e
             /\ \A n \in 0 .. Len(s) : InFirst(t, K, r, n) <=> InFirst(s, K, r, n)
             /\ InFirst(t, K, r, Len(t)) <=> InFirst(s, K, r, Len(s)) \/ (e.kind \in K /\ e.req = r)
<1> DEFINE t == Append(s, e)
<1>1. /\ t \in Seq(Entries) /\ Len(t) = Len(s) + 1 /\ Len(s) \in Nat
      /\ \A i \in 1 .. Len(s) : t[i] = s[i]
      /\ t[Len(s) + 1] = e
  BY AppendProperties, LenProperties
<1> HIDE DEF t
<1>2. \A n \in 0 .. Len(s) : InFirst(t, K, r, n) <=> InFirst(s, K, r, n)
  BY <1>1 DEF InFirst
<1>3. InFirst(t, K, r, Len(t)) <=> InFirst(s, K, r, Len(s)) \/ (e.kind \in K /\ e.req = r)
  BY <1>1 DEF InFirst
<1>4. QED
  BY <1>1, <1>2, <1>3 DEF t

(* An entry read moves the others one place ahead.                         *)
LEMMA TailFirst ==
  ASSUME NEW s \in Seq(Entries), s # <<>>, NEW K, NEW r
  PROVE  LET t == Tail(s)
             e == Head(s)
         IN  /\ t \in Seq(Entries) /\ Len(t) = Len(s) - 1 /\ Len(t) \in Nat
             /\ e \in Entries /\ e = s[1]
             /\ \A i \in 1 .. Len(t) : t[i] = s[i + 1]
             /\ \A n \in 0 .. Len(t) :
                  InFirst(s, K, r, n + 1) <=> InFirst(t, K, r, n) \/ (e.kind \in K /\ e.req = r)
             /\ InFirst(s, K, r, Len(s)) <=> InFirst(t, K, r, Len(t)) \/ (e.kind \in K /\ e.req = r)
<1> DEFINE t == Tail(s)
           e == Head(s)
<1>1. /\ t \in Seq(Entries) /\ Len(t) = Len(s) - 1 /\ Len(t) \in Nat
      /\ e \in Entries
      /\ \A i \in 1 .. Len(t) : t[i] = s[i + 1]
  BY HeadTailProperties, EmptySeq
<1>2. e = s[1]
  OBVIOUS
<1> HIDE DEF t, e
<1>3. ASSUME NEW n \in 0 .. Len(t)
      PROVE  InFirst(s, K, r, n + 1) <=> InFirst(t, K, r, n) \/ (e.kind \in K /\ e.req = r)
  <2>1. ASSUME InFirst(t, K, r, n) PROVE InFirst(s, K, r, n + 1)
    <3>1. PICK j \in 1 .. n : t[j].kind \in K /\ t[j].req = r
      BY <2>1 DEF InFirst
    <3>2. j + 1 \in 1 .. n + 1 /\ t[j] = s[j + 1]
      BY <1>1, <3>1
    <3>3. QED
      BY <3>1, <3>2 DEF InFirst
  <2>2. ASSUME e.kind \in K, e.req = r PROVE InFirst(s, K, r, n + 1)
    BY <1>1, <1>2, <2>2 DEF InFirst
  <2>3. ASSUME InFirst(s, K, r, n + 1) PROVE InFirst(t, K, r, n) \/ (e.kind \in K /\ e.req = r)
    <3>1. PICK j \in 1 .. n + 1 : s[j].kind \in K /\ s[j].req = r
      BY <2>3 DEF InFirst
    <3>2. CASE j = 1
      BY <1>2, <3>1, <3>2
    <3>3. CASE j # 1
      <4>1. j - 1 \in 1 .. n /\ t[j - 1] = s[j]
        BY <1>1, <3>1, <3>3
      <4>2. QED
        BY <3>1, <4>1 DEF InFirst
    <3>4. QED
      BY <3>2, <3>3
  <2>4. QED
    BY <2>1, <2>2, <2>3
<1>4. InFirst(s, K, r, Len(s)) <=> InFirst(t, K, r, Len(t)) \/ (e.kind \in K /\ e.req = r)
  <2>1. Len(t) \in 0 .. Len(t) /\ Len(t) + 1 = Len(s)
    BY <1>1, LenProperties
  <2>2. QED
    BY <1>3, <2>1
<1>5. QED
  BY <1>1, <1>2, <1>3, <1>4 DEF t, e

(* One entry taken out of the middle: the others keep their order.         *)
LEMMA RemoveAtEntries ==
  ASSUME NEW s \in Seq(Entries), NEW p \in 1 .. Len(s)
  PROVE  LET t == RemoveAt(s, p)
         IN  /\ t \in Seq(Entries) /\ Len(t) = Len(s) - 1 /\ Len(t) \in Nat
             /\ \A i \in 1 .. Len(t) : t[i] = IF i < p THEN s[i] ELSE s[i + 1]
<1> DEFINE a == SubSeq(s, 1, p - 1)
           b == SubSeq(s, p + 1, Len(s))
<1>0. Len(s) \in Nat /\ p \in Int
  BY LenProperties
<1>1. /\ a \in Seq(Entries) /\ Len(a) = p - 1
      /\ \A i \in 1 .. p - 1 : a[i] = s[i]
  <2>1. \A i \in 1 .. p - 1 : s[i] \in Entries
    BY <1>0, ElementOfSeq
  <2>2. /\ a \in Seq(Entries) /\ Len(a) = IF 1 <= p - 1 THEN (p - 1) - 1 + 1 ELSE 0
        /\ \A i \in 1 .. (p - 1) - 1 + 1 : a[i] = s[1 + i - 1]
    BY <1>0, <2>1, SubSeqProperties
  <2> HIDE DEF a
  <2>3. (p - 1) - 1 + 1 = p - 1 /\ \A i \in 1 .. p - 1 : 1 + i - 1 = i
    BY <1>0
  <2>4. Len(a) = p - 1
    BY <1>0, <2>2
  <2>5. QED
    BY <2>2, <2>3, <2>4
<1>2. /\ b \in Seq(Entries) /\ Len(b) = Len(s) - p
      /\ \A i \in 1 .. Len(s) - p : b[i] = s[p + i]
  <2>1. \A i \in p + 1 .. Len(s) : s[i] \in Entries
    BY <1>0, ElementOfSeq
  <2>2. /\ b \in Seq(Entries)
        /\ Len(b) = IF p + 1 <= Len(s) THEN Len(s) - (p + 1) + 1 ELSE 0
        /\ \A i \in 1 .. Len(s) - (p + 1) + 1 : b[i] = s[(p + 1) + i - 1]
    BY <1>0, <2>1, SubSeqProperties
  <2> HIDE DEF b
  <2>3. Len(s) - (p + 1) + 1 = Len(s) - p /\ \A i \in 1 .. Len(s) - p : (p + 1) + i - 1 = p + i
    BY <1>0
  <2>4. Len(b) = Len(s) - p
    BY <1>0, <2>2
  <2>5. QED
    BY <2>2, <2>3, <2>4
<1> HIDE DEF a, b
<1>3. /\ a \o b \in Seq(Entries) /\ Len(a \o b) = Len(s) - 1
      /\ \A i \in 1 .. Len(s) - 1 : (a \o b)[i] = IF i <= p - 1 THEN a[i] ELSE b[i - (p - 1)]
  <2>1. /\ a \o b \in Seq(Entries) /\ Len(a \o b) = Len(a) + Len(b)
        /\ \A i \in 1 .. Len(a) + Len(b) : (a \o b)[i] = IF i <= Len(a) THEN a[i] ELSE b[i - Len(a)]
    BY <1>1, <1>2, ConcatProperties
  <2>2. Len(a) = p - 1 /\ Len(a) + Len(b) = Len(s) - 1
    BY <1>0, <1>1, <1>2
  <2>3. QED
    BY <2>1, <2>2
<1>4. ASSUME NEW i \in 1 .. Len(s) - 1
      PROVE  (a \o b)[i] = IF i < p THEN s[i] ELSE s[i + 1]
  <2>1. CASE i < p
    BY <1>0, <1>1, <1>3, <2>1
  <2>2. CASE ~(i < p)
    <3>1. i - (p - 1) \in 1 .. Len(s) - p /\ p + (i - (p - 1)) = i + 1 /\ ~(i <= p - 1)
      BY <1>0, <2>2
    <3>2. QED
      BY <1>2, <1>3, <2>2, <3>1
  <2>3. QED
    BY <2>1, <2>2
<1>5. RemoveAt(s, p) = a \o b
  BY DEF RemoveAt, a, b
<1>6. Len(s) - 1 \in Nat
  BY <1>0
<1> DEFINE t == RemoveAt(s, p)
<1>7. /\ t \in Seq(Entries) /\ Len(t) = Len(s) - 1 /\ Len(t) \in Nat
      /\ \A i \in 1 .. Len(s) - 1 : t[i] = IF i < p THEN s[i] ELSE s[i + 1]
  BY <1>3, <1>4, <1>5, <1>6
<1> HIDE DEF t
<1>8. QED
  BY <1>7 DEF t

(* A handler that is cancelled leaves the queue, with the one entry it may *)
(* have there; no other entry is touched and none overtakes another.       *)
LEMMA WithoutEntries ==
  ASSUME NEW w \in Seq(Entries), Sole(w), NEW r \in Requests
  PROVE  LET t == Without(w, r)
         IN  /\ t \in Seq(Entries) /\ Len(t) \in Nat /\ Sole(t)
             /\ \A i \in 1 .. Len(t) : ~(t[i].kind \in HandlerKinds /\ t[i].req = r)
             /\ \A i \in 1 .. Len(t) : \E j \in 1 .. Len(w) : t[i] = w[j]
             /\ \A K, q : K \cap HandlerKinds = {} =>
                  (InFirst(t, K, q, Len(t)) <=> InFirst(w, K, q, Len(w)))
             /\ \A k \in 1 .. Len(t) : t[k].kind = "Claim" =>
                  \E m \in 1 .. Len(w) :
                    /\ w[m].kind = "Claim"
                    /\ \A q : CancelIn(w, q, m - 1) => CancelIn(t, q, k - 1)
<1> DEFINE t == Without(w, r)
           own == {i \in 1 .. Len(w) : w[i].req = r /\ w[i].kind \in HandlerKinds}
<1>0. Len(w) \in Nat
  BY LenProperties
<1>1. CASE own = {}
  <2>1. t = w
    BY <1>1 DEF Without
  <2>2. \A i \in 1 .. Len(w) : ~(w[i].kind \in HandlerKinds /\ w[i].req = r)
    BY <1>1
  <2> HIDE DEF t, own
  <2>3. \A i \in 1 .. Len(t) : \E j \in 1 .. Len(w) : t[i] = w[j]
    BY <2>1
  <2>4. QED
    BY <1>0, <2>1, <2>2, <2>3 DEF t
<1>2. CASE own # {}
  <2> DEFINE p == CHOOSE i \in own : TRUE
  <2>1. p \in own
    BY <1>2
  <2>2. t = RemoveAt(w, p)
    BY <1>2 DEF Without
  <2> HIDE DEF t, p
  <2>3. p \in 1 .. Len(w) /\ w[p].req = r /\ w[p].kind \in HandlerKinds
    BY <2>1
  <2> HIDE DEF own
  <2>4. /\ t \in Seq(Entries) /\ Len(t) = Len(w) - 1 /\ Len(t) \in Nat
        /\ \A i \in 1 .. Len(t) : t[i] = IF i < p THEN w[i] ELSE w[i + 1]
    BY <2>2, <2>3, RemoveAtEntries
  <2> DEFINE at(i) == IF i < p THEN i ELSE i + 1
  <2>5. \A i \in 1 .. Len(t) : at(i) \in 1 .. Len(w) /\ t[i] = w[at(i)] /\ at(i) # p
    BY <1>0, <2>3, <2>4
  <2>6. \A i, j \in 1 .. Len(t) : at(i) = at(j) => i = j
    BY <1>0, <2>3, <2>4
  <2>7. \A j \in 1 .. Len(w) : j # p => \E i \in 1 .. Len(t) : at(i) = j
    <3> SUFFICES ASSUME NEW j \in 1 .. Len(w), j # p PROVE \E i \in 1 .. Len(t) : at(i) = j
      OBVIOUS
    <3>1. CASE j < p
      BY <1>0, <2>3, <2>4, <3>1
    <3>2. CASE ~(j < p)
      <4>1. j - 1 \in 1 .. Len(t) /\ at(j - 1) = j
        BY <1>0, <2>3, <2>4, <3>2
      <4>2. QED
        BY <4>1
    <3>3. QED
      BY <3>1, <3>2
  <2>8. \A i, j \in 1 .. Len(t) : at(j) < at(i) => j < i
    BY <1>0, <2>3, <2>4
  <2> HIDE DEF at
  <2>9. Sole(t)
    BY <2>5, <2>6 DEF Sole
  <2>10. ASSUME NEW i \in 1 .. Len(t), t[i].kind \in HandlerKinds, t[i].req = r PROVE FALSE
    <3>1. SameSender(w[at(i)], w[p])
      BY <2>3, <2>5, <2>10 DEF SameSender
    <3>2. QED
      BY <2>3, <2>5, <3>1 DEF Sole
  <2>11. \A i \in 1 .. Len(t) : \E j \in 1 .. Len(w) : t[i] = w[j]
    BY <2>5
  <2>12. ASSUME NEW K, NEW q, K \cap HandlerKinds = {}
         PROVE  InFirst(t, K, q, Len(t)) <=> InFirst(w, K, q, Len(w))
    <3>1. InFirst(t, K, q, Len(t)) => InFirst(w, K, q, Len(w))
      BY <2>5 DEF InFirst
    <3>2. ASSUME NEW j \in 1 .. Len(w), w[j].kind \in K, w[j].req = q PROVE InFirst(t, K, q, Len(t))
      <4>1. j # p
        BY <2>3, <2>12, <3>2
      <4>2. PICK i \in 1 .. Len(t) : at(i) = j
        BY <2>7, <4>1
      <4>3. QED
        BY <2>5, <3>2, <4>2 DEF InFirst
    <3>3. QED
      BY <3>1, <3>2 DEF InFirst
  <2>13. ASSUME NEW k \in 1 .. Len(t), t[k].kind = "Claim"
         PROVE  \E m \in 1 .. Len(w) :
                  /\ w[m].kind = "Claim"
                  /\ \A q : CancelIn(w, q, m - 1) => CancelIn(t, q, k - 1)
    <3>1. at(k) \in 1 .. Len(w) /\ w[at(k)].kind = "Claim"
      BY <2>5, <2>13
    <3>2. ASSUME NEW q, CancelIn(w, q, at(k) - 1) PROVE CancelIn(t, q, k - 1)
      <4>1. PICK j \in 1 .. at(k) - 1 : w[j].kind = "Cancelled" /\ w[j].req = q
        BY <3>2 DEF CancelIn, InFirst
      <4>2. j \in 1 .. Len(w) /\ j < at(k)
        BY <1>0, <3>1, <4>1
      <4>3. j # p
        BY <2>3, <4>1 DEF HandlerKinds, LastKinds
      <4>4. PICK i \in 1 .. Len(t) : at(i) = j
        BY <2>7, <4>2, <4>3
      <4>5. i < k
        BY <2>8, <4>2, <4>4
      <4>6. i \in 1 .. k - 1
        BY <2>4, <4>5
      <4>7. t[i] = w[j]
        BY <2>5, <4>4
      <4>8. QED
        BY <4>1, <4>6, <4>7 DEF CancelIn, InFirst
    <3>3. QED
      BY <3>1, <3>2
  <2>14. QED
    BY <2>4, <2>9, <2>10, <2>11, <2>12, <2>13 DEF t
<1>3. QED
  BY <1>1, <1>2

-----------------------------------------------------------------------------
(* The queue of senders.                                                   *)

(* Who was at the head of the queue waits no longer.                       *)
LEMMA SoleTail ==
  ASSUME NEW w \in Seq(Entries), w # <<>>, Sole(w)
  PROVE  /\ Sole(Tail(w))
         /\ \A i \in 1 .. Len(Tail(w)) : ~SameSender(Tail(w)[i], Head(w))
<1> DEFINE t == Tail(w)
           e == Head(w)
<1>1. /\ Len(t) = Len(w) - 1 /\ Len(t) \in Nat /\ e = w[1]
      /\ \A i \in 1 .. Len(t) : t[i] = w[i + 1]
  BY TailFirst
<1> HIDE DEF t, e
<1>2. Sole(t)
  <2> SUFFICES ASSUME NEW i \in 1 .. Len(t), NEW j \in 1 .. Len(t), SameSender(t[i], t[j]) PROVE i = j
    BY DEF Sole
  <2>1. i + 1 \in 1 .. Len(w) /\ j + 1 \in 1 .. Len(w) /\ t[i] = w[i + 1] /\ t[j] = w[j + 1]
    BY <1>1
  <2>2. i + 1 = j + 1
    BY <2>1 DEF Sole
  <2>3. QED
    BY <2>2
<1>3. ASSUME NEW i \in 1 .. Len(t), SameSender(t[i], e) PROVE FALSE
  <2>1. i + 1 \in 1 .. Len(w) /\ 1 \in 1 .. Len(w) /\ t[i] = w[i + 1]
    BY <1>1
  <2>2. i + 1 = 1
    BY <1>1, <1>3, <2>1 DEF Sole
  <2>3. QED
    BY <2>2
<1>4. QED
  BY <1>2, <1>3 DEF t, e

(* A task that did not wait may wait.                                      *)
LEMMA SoleAppend ==
  ASSUME NEW w \in Seq(Entries), NEW e \in Entries, Sole(w),
         \A i \in 1 .. Len(w) : ~SameSender(w[i], e)
  PROVE  Sole(Append(w, e))
<1> DEFINE t == Append(w, e)
<1>1. /\ Len(t) = Len(w) + 1 /\ Len(w) \in Nat
      /\ \A i \in 1 .. Len(w) : t[i] = w[i]
      /\ t[Len(w) + 1] = e
  BY AppendFirst
<1> HIDE DEF t
<1>2. \A a, b : SameSender(a, b) => SameSender(b, a)
  BY DEF SameSender
<1>3. ASSUME NEW i \in 1 .. Len(t), NEW j \in 1 .. Len(t), SameSender(t[i], t[j]) PROVE i = j
  <2>1. CASE i \in 1 .. Len(w) /\ j \in 1 .. Len(w)
    BY <1>1, <1>3, <2>1 DEF Sole
  <2>2. CASE i \in 1 .. Len(w) /\ j = Len(w) + 1
    BY <1>1, <1>3, <2>2
  <2>3. CASE i = Len(w) + 1 /\ j \in 1 .. Len(w)
    BY <1>1, <1>2, <1>3, <2>3
  <2>4. QED
    BY <1>1, <2>1, <2>2, <2>3
<1>4. QED
  BY <1>3 DEF Sole, t

-----------------------------------------------------------------------------
(* What the router holds, and will hold.                                   *)

(* Fewer than fit, fit.                                                    *)
LEMMA FewerFit ==
  ASSUME NEW S, NEW T, IsFiniteSet(T), S \subseteq T, Cardinality(T) < Granted
  PROVE  Cardinality(S) < Granted
<1>1. IsFiniteSet(S) /\ Cardinality(S) <= Cardinality(T)
  BY FS_Subset
<1>2. Cardinality(S) \in Nat /\ Cardinality(T) \in Nat
  BY <1>1, FS_CardinalityType
<1>3. Granted \in Nat
  BY EchoAssumption
<1>4. QED
  BY <1>1, <1>2, <1>3

(* What the router holds, or is owed, are requests: finitely many.         *)
LEMMA HeldFinite ==
  ASSUME NEW c, NEW s, NEW w, NEW n
  PROVE  IsFiniteSet(HeldAt(c, s, n)) /\ IsFiniteSet(Owing(c, s, w, n))
<1>1. HeldAt(c, s, n) \subseteq Requests /\ Owing(c, s, w, n) \subseteq Requests
  BY DEF HeldAt, Owing
<1>2. IsFiniteSet(Requests)
  BY EchoAssumption
<1>3. QED
  BY <1>1, <1>2, FS_Subset

(* Fewer are owed to the Claim that waits, so it still fits.               *)
LEMMA StillFits ==
  ASSUME NEW c, NEW s, NEW w, NEW c2, NEW s2, NEW w2, Fits(c, s, w),
         \A k \in 1 .. Len(w2) : w2[k].kind = "Claim" =>
           \E m \in 1 .. Len(w) : w[m].kind = "Claim" /\ Owing(c2, s2, w2, k) \subseteq Owing(c, s, w, m)
  PROVE  Fits(c2, s2, w2)
<1> SUFFICES ASSUME NEW k \in 1 .. Len(w2), w2[k].kind = "Claim"
             PROVE  Cardinality(Owing(c2, s2, w2, k)) < Granted
  BY DEF Fits
<1>1. PICK m \in 1 .. Len(w) : w[m].kind = "Claim" /\ Owing(c2, s2, w2, k) \subseteq Owing(c, s, w, m)
  OBVIOUS
<1>2. Cardinality(Owing(c, s, w, m)) < Granted
  BY <1>1 DEF Fits
<1>3. IsFiniteSet(Owing(c, s, w, m))
  BY HeldFinite
<1>4. QED
  BY <1>1, <1>2, <1>3, FewerFit

(* An entry written: a Claim of a request that is new and fits, or an end  *)
(* of one that is held, keeps the stream in order.                         *)
LEMMA StreamGrows ==
  ASSUME NEW c, NEW s \in Seq(Entries), NEW e \in Entries, StreamOK(c, s),
         e.kind = "Claim" => /\ e.req \notin c /\ ~ClaimIn(s, e.req, Len(s))
                             /\ Cardinality(HeldAt(c, s, Len(s))) < Granted,
         e.kind \in Endings => /\ e.req \in c \/ ClaimIn(s, e.req, Len(s))
                               /\ ~EndIn(s, e.req, Len(s))
  PROVE  StreamOK(c, Append(s, e))
<1> DEFINE t == Append(s, e)
<1>1. /\ t \in Seq(Entries) /\ Len(t) = Len(s) + 1 /\ Len(s) \in Nat
      /\ \A i \in 1 .. Len(s) : t[i] = s[i]
      /\ t[Len(s) + 1] = e
  BY AppendFirst
<1>2. \A r : \A n \in 0 .. Len(s) : ClaimIn(t, r, n) <=> ClaimIn(s, r, n)
  BY AppendFirst DEF ClaimIn
<1>3. \A r : \A n \in 0 .. Len(s) : EndIn(t, r, n) <=> EndIn(s, r, n)
  BY AppendFirst DEF EndIn
<1> HIDE DEF t
<1>4. \A n \in 0 .. Len(s) : HeldAt(c, t, n) = HeldAt(c, s, n)
  BY <1>2, <1>3 DEF HeldAt
<1>5. \A i \in 1 .. Len(t) : i \in 1 .. Len(s) \/ (i = Len(s) + 1 /\ t[i] = e)
  BY <1>1
<1>6. \A i \in 1 .. Len(t) : i - 1 \in 0 .. Len(s)
  BY <1>1
<1>7. ASSUME NEW i \in 1 .. Len(t), NEW j \in 1 .. Len(t),
             t[i].kind = "Claim", t[j].kind = "Claim", t[i].req = t[j].req
      PROVE  i = j
  <2>1. CASE i \in 1 .. Len(s) /\ j \in 1 .. Len(s)
    BY <1>1, <1>7, <2>1 DEF StreamOK
  <2>2. e.kind = "Claim" => \A k \in 1 .. Len(s) : ~(s[k].kind = "Claim" /\ s[k].req = e.req)
    BY DEF ClaimIn, InFirst
  <2>3. QED
    BY <1>1, <1>5, <1>7, <2>1, <2>2
<1>8. ASSUME NEW i \in 1 .. Len(t), NEW j \in 1 .. Len(t),
             t[i].kind \in Endings, t[j].kind \in Endings, t[i].req = t[j].req
      PROVE  i = j
  <2>1. CASE i \in 1 .. Len(s) /\ j \in 1 .. Len(s)
    BY <1>1, <1>8, <2>1 DEF StreamOK
  <2>2. e.kind \in Endings => \A k \in 1 .. Len(s) : ~(s[k].kind \in Endings /\ s[k].req = e.req)
    BY DEF EndIn, InFirst
  <2>3. QED
    BY <1>1, <1>5, <1>8, <2>1, <2>2
<1>9. \A i \in 1 .. Len(t) : t[i].kind = "Claim" => t[i].req \notin c
  BY <1>1, <1>5 DEF StreamOK
<1>10. ASSUME NEW i \in 1 .. Len(t), t[i].kind \in Endings
       PROVE  t[i].req \in c \/ ClaimIn(t, t[i].req, i - 1)
  <2>1. CASE i \in 1 .. Len(s)
    BY <1>1, <1>2, <1>6, <1>10, <2>1 DEF StreamOK
  <2>2. CASE i = Len(s) + 1
    <3>1. i - 1 = Len(s) /\ t[i] = e
      BY <1>1, <2>2
    <3>2. QED
      BY <1>2, <1>6, <1>10, <3>1
  <2>3. QED
    BY <1>5, <2>1, <2>2
<1>11. ASSUME NEW i \in 1 .. Len(t), t[i].kind = "Claim"
       PROVE  Cardinality(HeldAt(c, t, i - 1)) < Granted
  <2>1. HeldAt(c, t, i - 1) = HeldAt(c, s, i - 1)
    BY <1>4, <1>6
  <2>2. CASE i \in 1 .. Len(s)
    BY <1>1, <1>11, <2>1, <2>2 DEF StreamOK
  <2>3. CASE i = Len(s) + 1
    <3>1. i - 1 = Len(s) /\ t[i] = e
      BY <1>1, <2>3
    <3>2. QED
      BY <1>11, <2>1, <3>1
  <2>4. QED
    BY <1>5, <2>2, <2>3
<1>12. StreamOK(c, t)
  BY <1>7, <1>8, <1>9, <1>10, <1>11 DEF StreamOK
<1>13. QED
  BY <1>12 DEF t

(* An entry read: the router's set moves along with the stream.            *)
HeldNext(c, e) == IF e.kind = "Claim" THEN c \cup {e.req}
                  ELSE IF e.kind \in Endings THEN c \ {e.req} ELSE c

(* The stream behind its first entry is in order for the set that          *)
(* results.                                                                *)
LEMMA StreamReads ==
  ASSUME NEW c, NEW s \in Seq(Entries), s # <<>>, StreamOK(c, s)
  PROVE  LET t  == Tail(s)
             e  == Head(s)
             c2 == HeldNext(c, e)
         IN  /\ StreamOK(c2, t)
             /\ \A n \in 0 .. Len(t) : HeldAt(c2, t, n) = HeldAt(c, s, n + 1)
             /\ \A r : r \in c2 \/ ClaimIn(t, r, Len(t)) =>
                  /\ r \in c \/ ClaimIn(s, r, Len(s))
                  /\ ~(e.kind \in Endings /\ e.req = r)
             /\ \A r : r \in c \/ ClaimIn(s, r, Len(s)) =>
                  r \in c2 \/ ClaimIn(t, r, Len(t)) \/ EndIn(s, r, Len(s))
<1> DEFINE t  == Tail(s)
           e  == Head(s)
           c2 == HeldNext(c, e)
<1>1. /\ t \in Seq(Entries) /\ Len(t) = Len(s) - 1 /\ Len(t) \in Nat
      /\ e \in Entries /\ e = s[1]
      /\ \A i \in 1 .. Len(t) : t[i] = s[i + 1]
  BY TailFirst
<1>2. \A r : \A n \in 0 .. Len(t) :
        ClaimIn(s, r, n + 1) <=> ClaimIn(t, r, n) \/ (e.kind = "Claim" /\ e.req = r)
  <2> SUFFICES ASSUME NEW r, NEW n \in 0 .. Len(t)
               PROVE  ClaimIn(s, r, n + 1) <=> ClaimIn(t, r, n) \/ (e.kind = "Claim" /\ e.req = r)
    OBVIOUS
  <2> DEFINE K == {"Claim"}
  <2>1. e.kind \in K <=> e.kind = "Claim"
    OBVIOUS
  <2> HIDE DEF K
  <2>2. InFirst(s, K, r, n + 1) <=> InFirst(t, K, r, n) \/ (e.kind \in K /\ e.req = r)
    BY TailFirst
  <2> HIDE DEF e
  <2>3. QED
    BY <2>1, <2>2 DEF ClaimIn, K
<1>3. \A r : \A n \in 0 .. Len(t) :
        EndIn(s, r, n + 1) <=> EndIn(t, r, n) \/ (e.kind \in Endings /\ e.req = r)
  BY TailFirst DEF EndIn
<1>4. c2 = IF e.kind = "Claim" THEN c \cup {e.req}
           ELSE IF e.kind \in Endings THEN c \ {e.req} ELSE c
  BY DEF HeldNext
<1>5. ~(e.kind = "Claim" /\ e.kind \in Endings)
  BY DEF Endings, LastKinds
<1> HIDE DEF t, e, c2
<1>6. Len(s) \in Nat /\ 1 \in 1 .. Len(s)
  BY <1>1
<1>7. \A i \in 1 .. Len(t) : i + 1 \in 1 .. Len(s) /\ i + 1 # 1 /\ (i + 1) - 1 = (i - 1) + 1
      /\ i - 1 \in 0 .. Len(t)
  BY <1>1
<1>8. e.kind \in Endings => e.req \in c
  BY <1>1, <1>6 DEF StreamOK, ClaimIn, InFirst
<1>9. e.kind = "Claim" => e.req \notin c
  BY <1>1, <1>6 DEF StreamOK
<1>10. \A r : \A n \in 0 .. Len(t) : ClaimIn(t, r, n) => r \notin c
  <2> SUFFICES ASSUME NEW r, NEW n \in 0 .. Len(t), NEW j \in 1 .. n, t[j].kind = "Claim", t[j].req = r
               PROVE  r \notin c
    BY DEF ClaimIn, InFirst
  <2>1. j \in 1 .. Len(t)
    BY <1>1
  <2>2. s[j + 1].kind = "Claim" /\ s[j + 1].req = r /\ j + 1 \in 1 .. Len(s)
    BY <1>1, <1>7, <2>1
  <2>3. QED
    BY <2>2 DEF StreamOK
<1>11. \A n \in 0 .. Len(t) : HeldAt(c2, t, n) = HeldAt(c, s, n + 1)
  <2> SUFFICES ASSUME NEW n \in 0 .. Len(t), NEW r \in Requests
               PROVE  r \in HeldAt(c2, t, n) <=> r \in HeldAt(c, s, n + 1)
    BY DEF HeldAt
  <2>1. r \in HeldAt(c2, t, n) <=> (r \in c2 \/ ClaimIn(t, r, n)) /\ ~EndIn(t, r, n)
    BY DEF HeldAt
  <2>2. r \in HeldAt(c, s, n + 1) <=>
          /\ r \in c \/ ClaimIn(t, r, n) \/ (e.kind = "Claim" /\ e.req = r)
          /\ ~(EndIn(t, r, n) \/ (e.kind \in Endings /\ e.req = r))
    BY <1>2, <1>3 DEF HeldAt
  <2>3. QED
    BY <1>4, <1>5, <1>8, <1>10, <2>1, <2>2
<1>12. \A i, j \in 1 .. Len(t) : t[i].kind = "Claim" /\ t[j].kind = "Claim" /\ t[i].req = t[j].req => i = j
  <2> SUFFICES ASSUME NEW i \in 1 .. Len(t), NEW j \in 1 .. Len(t),
                      t[i].kind = "Claim", t[j].kind = "Claim", t[i].req = t[j].req
               PROVE  i = j
    OBVIOUS
  <2>1. /\ i + 1 \in 1 .. Len(s) /\ j + 1 \in 1 .. Len(s)
        /\ s[i + 1] = t[i] /\ s[j + 1] = t[j]
    BY <1>1, <1>7
  <2>2. \A a, b \in 1 .. Len(s) :
          s[a].kind = "Claim" /\ s[b].kind = "Claim" /\ s[a].req = s[b].req => a = b
    BY DEF StreamOK
  <2>3. i + 1 = j + 1
    BY <2>1, <2>2
  <2>4. QED
    BY <2>3
<1>13. \A i, j \in 1 .. Len(t) : t[i].kind \in Endings /\ t[j].kind \in Endings
       /\ t[i].req = t[j].req => i = j
  <2> SUFFICES ASSUME NEW i \in 1 .. Len(t), NEW j \in 1 .. Len(t),
                      t[i].kind \in Endings, t[j].kind \in Endings, t[i].req = t[j].req
               PROVE  i = j
    OBVIOUS
  <2>1. /\ i + 1 \in 1 .. Len(s) /\ j + 1 \in 1 .. Len(s)
        /\ s[i + 1] = t[i] /\ s[j + 1] = t[j]
    BY <1>1, <1>7
  <2>2. i + 1 = j + 1
    BY <2>1 DEF StreamOK
  <2>3. QED
    BY <2>2
<1>14. ASSUME NEW i \in 1 .. Len(t), t[i].kind = "Claim" PROVE t[i].req \notin c2
  <2>1. t[i].req \notin c
    BY <1>1, <1>7, <1>14 DEF StreamOK
  <2>2. ~(e.kind = "Claim" /\ t[i].req = e.req)
    BY <1>1, <1>6, <1>7, <1>14 DEF StreamOK
  <2>3. QED
    BY <1>4, <2>1, <2>2
<1>15. ASSUME NEW i \in 1 .. Len(t), t[i].kind \in Endings
       PROVE  t[i].req \in c2 \/ ClaimIn(t, t[i].req, i - 1)
  <2>1. t[i].req \in c \/ ClaimIn(s, t[i].req, (i - 1) + 1)
    BY <1>1, <1>7, <1>15 DEF StreamOK
  <2>2. ClaimIn(s, t[i].req, (i - 1) + 1) <=> ClaimIn(t, t[i].req, i - 1) \/ (e.kind = "Claim"
        /\ e.req = t[i].req)
    BY <1>2, <1>7
  <2>3. ~(e.kind \in Endings /\ t[i].req = e.req)
    BY <1>1, <1>6, <1>7, <1>15 DEF StreamOK
  <2>4. QED
    BY <1>4, <2>1, <2>2, <2>3
<1>16. ASSUME NEW i \in 1 .. Len(t), t[i].kind = "Claim" PROVE Cardinality(HeldAt(c2, t, i - 1)) < Granted
  <2>1. HeldAt(c2, t, i - 1) = HeldAt(c, s, (i + 1) - 1)
    BY <1>7, <1>11
  <2>2. QED
    BY <1>1, <1>7, <1>16, <2>1 DEF StreamOK
<1>17. StreamOK(c2, t)
  BY <1>12, <1>13, <1>14, <1>15, <1>16 DEF StreamOK
<1>18. Len(t) \in 0 .. Len(t) /\ Len(t) + 1 = Len(s)
  BY <1>1
<1>19. ASSUME NEW r, r \in c2 \/ ClaimIn(t, r, Len(t))
       PROVE  (r \in c \/ ClaimIn(s, r, Len(s))) /\ ~(e.kind \in Endings /\ e.req = r)
  BY <1>2, <1>4, <1>5, <1>8, <1>10, <1>18, <1>19
<1>20. ASSUME NEW r, r \in c \/ ClaimIn(s, r, Len(s))
       PROVE  r \in c2 \/ ClaimIn(t, r, Len(t)) \/ EndIn(s, r, Len(s))
  BY <1>2, <1>3, <1>4, <1>18, <1>20
<1>21. QED
  BY <1>11, <1>17, <1>19, <1>20 DEF t, e, c2

-----------------------------------------------------------------------------
(* Who waits, and what it means for the Claim that waits.                  *)

AtSend == {"accepting", "echoing", "sending"}

(* A task that does not wait yet is not in the queue.                      *)
LEMMA QueueGrows ==
  ASSUME NEW w \in Seq(Entries), NEW e \in Entries,
         NEW m, NEW h, NEW d, NEW m2, NEW h2, NEW d2, QueueOK(w, m, h, d),
         e.kind = "Claim" => m # "claiming",
         e.kind \in HandlerKinds => h[e.req] \notin AtSend,
         e.kind \in ReaderKinds => d # "sending",
         m = "claiming" => m2 = "claiming",
         d = "sending" => d2 = "sending",
         \A q \in Requests : h[q] \in AtSend => h2[q] = h[q],
         Waits(m2, h2, d2, e)
  PROVE  QueueOK(Append(w, e), m2, h2, d2)
<1> DEFINE t == Append(w, e)
<1>1. /\ Len(t) = Len(w) + 1 /\ Len(w) \in Nat
      /\ \A i \in 1 .. Len(w) : t[i] = w[i]
      /\ t[Len(w) + 1] = e
  BY AppendFirst
<1>2. \A i \in 1 .. Len(w) : w[i] \in Entries
  BY ElementOfSeq
<1>3. \A i \in 1 .. Len(w) : w[i].req \in Requests
  BY <1>2 DEF Entries
<1>4. \A i \in 1 .. Len(w) : w[i].kind \in HandlerKinds => h[w[i].req] \in AtSend
  BY DEF QueueOK, Waits, HandlerKinds, LastKinds, AtSend
<1>5. \A i \in 1 .. Len(w) : ~SameSender(w[i], e)
  BY <1>4 DEF QueueOK, Waits, SameSender
<1>6. Sole(t)
  BY <1>5, SoleAppend DEF QueueOK
<1> HIDE DEF t
<1>7. ASSUME NEW i \in 1 .. Len(w) PROVE Waits(m2, h2, d2, w[i])
  <2>1. Waits(m, h, d, w[i])
    BY DEF QueueOK
  <2>2. w[i].kind \in HandlerKinds => h2[w[i].req] = h[w[i].req]
    BY <1>3, <1>4
  <2>3. QED
    BY <2>1, <2>2 DEF Waits, HandlerKinds
<1>8. \A i \in 1 .. Len(t) : i \in 1 .. Len(w) \/ i = Len(w) + 1
  BY <1>1
<1>9. \A i \in 1 .. Len(t) : Waits(m2, h2, d2, t[i])
  BY <1>1, <1>7, <1>8
<1>10. QED
  BY <1>6, <1>9 DEF QueueOK, t

(* One sender goes on; the others still wait.                              *)
LEMMA QueueShrinks ==
  ASSUME NEW w \in Seq(Entries), w # <<>>,
         NEW m, NEW h, NEW d, NEW m2, NEW h2, NEW d2, QueueOK(w, m, h, d),
         \A e \in Entries : ~SameSender(e, Head(w)) /\ Waits(m, h, d, e) => Waits(m2, h2, d2, e)
  PROVE  QueueOK(Tail(w), m2, h2, d2)
<1> DEFINE t == Tail(w)
<1>1. /\ t \in Seq(Entries) /\ Len(t) = Len(w) - 1 /\ Len(t) \in Nat
      /\ \A i \in 1 .. Len(t) : t[i] = w[i + 1]
  BY TailFirst
<1>2. Sole(t) /\ \A i \in 1 .. Len(t) : ~SameSender(t[i], Head(w))
  BY SoleTail DEF QueueOK
<1> HIDE DEF t
<1>3. ASSUME NEW i \in 1 .. Len(t) PROVE Waits(m2, h2, d2, t[i])
  <2>1. i + 1 \in 1 .. Len(w) /\ t[i] = w[i + 1]
    BY <1>1
  <2>2. Waits(m, h, d, t[i])
    BY <2>1 DEF QueueOK
  <2>3. t[i] \in Entries
    BY <1>1, ElementOfSeq
  <2>4. QED
    BY <1>2, <2>2, <2>3
<1>4. QED
  BY <1>2, <1>3 DEF QueueOK, t

(* A sender that is no Claim takes nothing from the Claim that waits.      *)
LEMMA FitsGrows ==
  ASSUME NEW w \in Seq(Entries), NEW e \in Entries, NEW c, NEW s,
         Fits(c, s, w),
         e.kind = "Claim" =>
           Cardinality({q \in HeldAt(c, s, Len(s)) : ~CancelIn(w, q, Len(w))}) < Granted
  PROVE  Fits(c, s, Append(w, e))
<1> DEFINE t == Append(w, e)
<1>1. /\ Len(t) = Len(w) + 1 /\ Len(w) \in Nat
      /\ \A i \in 1 .. Len(w) : t[i] = w[i]
      /\ t[Len(w) + 1] = e
  BY AppendFirst
<1>2. \A q : \A n \in 0 .. Len(w) : CancelIn(t, q, n) <=> CancelIn(w, q, n)
  BY AppendFirst DEF CancelIn
<1> HIDE DEF t
<1>3. ASSUME NEW k \in 1 .. Len(t), t[k].kind = "Claim" PROVE Cardinality(Owing(c, s, t, k)) < Granted
  <2>1. k - 1 \in 0 .. Len(w)
    BY <1>1
  <2>2. Owing(c, s, t, k) = {q \in HeldAt(c, s, Len(s)) : ~CancelIn(w, q, k - 1)}
    BY <1>2, <2>1 DEF Owing
  <2>3. CASE k \in 1 .. Len(w)
    BY <1>1, <1>3, <2>2, <2>3 DEF Fits, Owing
  <2>4. CASE k = Len(w) + 1
    <3>1. k - 1 = Len(w) /\ t[k] = e
      BY <1>1, <2>4
    <3>2. QED
      BY <1>3, <2>2, <3>1
  <2>5. QED
    BY <1>1, <2>3, <2>4
<1>4. QED
  BY <1>3 DEF Fits, t

(* The head of the queue went into the stream: a request whose Cancelled   *)
(* it was is no longer held.                                               *)
LEMMA FitsShrinks ==
  ASSUME NEW w \in Seq(Entries), w # <<>>, NEW c, NEW s, NEW c2, NEW s2,
         Fits(c, s, w), Sole(w),
         Head(w).kind # "Claim" =>
           \A q \in HeldAt(c2, s2, Len(s2)) :
             q \in HeldAt(c, s, Len(s)) /\ ~(Head(w).kind = "Cancelled" /\ Head(w).req = q)
  PROVE  Fits(c2, s2, Tail(w))
<1> DEFINE t == Tail(w)
           e == Head(w)
<1>1. /\ Len(t) = Len(w) - 1 /\ Len(t) \in Nat /\ \A i \in 1 .. Len(t) : t[i] = w[i + 1]
  BY TailFirst
<1>2. \A i \in 1 .. Len(t) : ~SameSender(t[i], e)
  BY SoleTail
<1>3. \A q : \A n \in 0 .. Len(t) :
        CancelIn(w, q, n + 1) => CancelIn(t, q, n) \/ (e.kind = "Cancelled" /\ e.req = q)
  <2> SUFFICES ASSUME NEW q, NEW n \in 0 .. Len(t), CancelIn(w, q, n + 1)
               PROVE  CancelIn(t, q, n) \/ (e.kind = "Cancelled" /\ e.req = q)
    OBVIOUS
  <2> DEFINE K == {"Cancelled"}
  <2>1. e.kind \in K => e.kind = "Cancelled"
    OBVIOUS
  <2> HIDE DEF K
  <2>2. InFirst(w, K, q, n + 1) => InFirst(t, K, q, n) \/ (e.kind \in K /\ e.req = q)
    BY TailFirst
  <2> HIDE DEF e, t
  <2>3. QED
    BY <2>1, <2>2 DEF CancelIn, K
<1> HIDE DEF t, e
<1>4. ASSUME NEW k \in 1 .. Len(t), t[k].kind = "Claim"
      PROVE  \E m \in 1 .. Len(w) : w[m].kind = "Claim" /\ Owing(c2, s2, t, k) \subseteq Owing(c, s, w, m)
  <2>1. k + 1 \in 1 .. Len(w) /\ w[k + 1].kind = "Claim" /\ (k + 1) - 1 = (k - 1) + 1 /\ k - 1 \in 0 .. Len(t)
    BY <1>1, <1>4
  <2>2. e.kind # "Claim"
    BY <1>2, <1>4 DEF SameSender
  <2>3. ASSUME NEW q \in Owing(c2, s2, t, k) PROVE q \in Owing(c, s, w, k + 1)
    <3>1. q \in HeldAt(c2, s2, Len(s2)) /\ ~CancelIn(t, q, k - 1)
      BY DEF Owing
    <3>2. q \in HeldAt(c, s, Len(s)) /\ ~(e.kind = "Cancelled" /\ e.req = q)
      BY <2>2, <3>1 DEF e
    <3>3. ~CancelIn(w, q, (k - 1) + 1)
      BY <1>3, <2>1, <3>1, <3>2
    <3>4. QED
      BY <2>1, <3>2, <3>3 DEF Owing
  <2>4. QED
    BY <2>1, <2>3
<1>5. QED
  BY <1>4, StillFits DEF t

(* A handler that is cancelled in the queue: the others wait as before.    *)
LEMMA QueueThins ==
  ASSUME NEW w \in Seq(Entries), NEW r \in Requests,
         NEW m, NEW h, NEW d, NEW h2, NEW c, NEW s, QueueOK(w, m, h, d),
         \A q \in Requests \ {r} : h2[q] = h[q]
  PROVE  /\ QueueOK(Without(w, r), m, h2, d)
         /\ Fits(c, s, w) => Fits(c, s, Without(w, r))
<1> DEFINE t == Without(w, r)
<1>1. /\ t \in Seq(Entries) /\ Len(t) \in Nat /\ Sole(t)
      /\ \A i \in 1 .. Len(t) : ~(t[i].kind \in HandlerKinds /\ t[i].req = r)
      /\ \A i \in 1 .. Len(t) : \E j \in 1 .. Len(w) : t[i] = w[j]
      /\ \A k \in 1 .. Len(t) : t[k].kind = "Claim" =>
           \E n \in 1 .. Len(w) : w[n].kind = "Claim" /\ \A q : CancelIn(w, q, n - 1) => CancelIn(t, q, k - 1)
  BY WithoutEntries DEF QueueOK
<1> HIDE DEF t
<1>2. \A i \in 1 .. Len(t) : t[i] \in Entries
  BY <1>1, ElementOfSeq
<1>3. \A i \in 1 .. Len(t) : t[i].req \in Requests
  BY <1>2 DEF Entries
<1>4. ASSUME NEW i \in 1 .. Len(t) PROVE Waits(m, h2, d, t[i])
  <2>1. Waits(m, h, d, t[i])
    BY <1>1 DEF QueueOK
  <2>2. t[i].kind \in HandlerKinds => h2[t[i].req] = h[t[i].req]
    BY <1>1, <1>3
  <2>3. QED
    BY <2>1, <2>2 DEF Waits, HandlerKinds
<1>5. ASSUME Fits(c, s, w) PROVE Fits(c, s, t)
  <2>1. ASSUME NEW k \in 1 .. Len(t), t[k].kind = "Claim"
        PROVE  \E n \in 1 .. Len(w) : w[n].kind = "Claim" /\ Owing(c, s, t, k) \subseteq Owing(c, s, w, n)
    <3>1. PICK n \in 1 .. Len(w) : w[n].kind = "Claim"
          /\ \A q : CancelIn(w, q, n - 1) => CancelIn(t, q, k - 1)
      BY <1>1, <2>1
    <3>2. QED
      BY <3>1 DEF Owing
  <2>2. QED
    BY <1>5, <2>1, StillFits
<1>6. QED
  BY <1>1, <1>4, <1>5 DEF QueueOK, t

-----------------------------------------------------------------------------
(* The state.                                                              *)

(* What the proofs use of the constants.                                   *)
LEMMA Rooms ==
  Granted \in Nat /\ Granted > 0 /\ Chunks \in Nat /\ Chunks > 0 /\ IsFiniteSet(Requests)
BY EchoAssumption

(* The permits that are out, as handlers come and go.                      *)
LEMMA BusyChanges ==
  ASSUME NEW h \in [Requests -> HandlerStates], NEW r \in Requests, NEW x \in HandlerStates
  PROVE  LET h2 == [h EXCEPT ![r] = x]
         IN  /\ IsFiniteSet(Busy(h)) /\ Cardinality(Busy(h)) \in Nat
             /\ (h[r] = "none") = (x = "none") => Busy(h2) = Busy(h)
             /\ h[r] = "none" /\ x # "none" => Cardinality(Busy(h2)) = Cardinality(Busy(h)) + 1
             /\ h[r] # "none" /\ x = "none" => Cardinality(Busy(h2)) = Cardinality(Busy(h)) - 1
<1> DEFINE h2 == [h EXCEPT ![r] = x]
<1>1. IsFiniteSet(Busy(h)) /\ Cardinality(Busy(h)) \in Nat
  <2>1. Busy(h) \subseteq Requests
    BY DEF Busy
  <2>2. QED
    BY <2>1, Rooms, FS_Subset, FS_CardinalityType
<1>2. h2[r] = x /\ \A q \in Requests \ {r} : h2[q] = h[q]
  OBVIOUS
<1> HIDE DEF h2
<1>3. ASSUME (h[r] = "none") = (x = "none") PROVE Busy(h2) = Busy(h)
  <2>1. CASE x = "none"
    <3>1. h[r] = "none"
      BY <1>3, <2>1
    <3>2. QED
      BY <1>2, <2>1, <3>1 DEF Busy
  <2>2. CASE x # "none"
    <3>1. h[r] # "none"
      BY <1>3, <2>2
    <3>2. QED
      BY <1>2, <2>2, <3>1 DEF Busy
  <2>3. QED
    BY <2>1, <2>2
<1>4. ASSUME h[r] = "none", x # "none" PROVE Cardinality(Busy(h2)) = Cardinality(Busy(h)) + 1
  <2>1. Busy(h2) = Busy(h) \cup {r} /\ r \notin Busy(h)
    BY <1>2, <1>4 DEF Busy
  <2>2. QED
    BY <1>1, <2>1, FS_AddElement
<1>5. ASSUME h[r] # "none", x = "none" PROVE Cardinality(Busy(h2)) = Cardinality(Busy(h)) - 1
  <2>1. Busy(h2) = Busy(h) \ {r} /\ r \in Busy(h)
    BY <1>2, <1>5 DEF Busy
  <2>2. QED
    BY <1>1, <2>1, FS_RemoveElement
<1>6. QED
  BY <1>1, <1>3, <1>4, <1>5 DEF h2

(* An entry awaits its turn at the end of the queue.                       *)
LEMMA Enters ==
  ASSUME NEW w \in Seq(Entries), NEW e \in Entries, waiting' = Append(w, e), NEW q
  PROVE  /\ waiting' \in Seq(Entries)
         /\ Claiming(q)' <=> ClaimIn(w, q, Len(w)) \/ (e.kind = "Claim" /\ e.req = q)
         /\ Reported(q)' <=> CancelIn(w, q, Len(w)) \/ (e.kind = "Cancelled" /\ e.req = q)
<1> DEFINE K == {"Claim"}
           L == {"Cancelled"}
<1>1. (e.kind \in K <=> e.kind = "Claim") /\ (e.kind \in L <=> e.kind = "Cancelled")
  OBVIOUS
<1> HIDE DEF K, L
<1>2. /\ waiting' \in Seq(Entries)
      /\ InFirst(waiting', K, q, Len(waiting')) <=> InFirst(w, K, q, Len(w)) \/ (e.kind \in K /\ e.req = q)
      /\ InFirst(waiting', L, q, Len(waiting')) <=> InFirst(w, L, q, Len(w)) \/ (e.kind \in L /\ e.req = q)
  BY AppendFirst
<1>3. QED
  BY <1>1, <1>2 DEF Claiming, Reported, ClaimIn, CancelIn, K, L

(* The entry at the head of the queue has had its turn.                    *)
LEMMA Leaves ==
  ASSUME Types, Queue, waiting # <<>>, waiting' = Tail(waiting), NEW q
  PROVE  /\ waiting' \in Seq(Entries) /\ Head(waiting) \in Entries
         /\ Waits(main, handler, reader, Head(waiting))
         /\ Claiming(q) <=> Claiming(q)' \/ (Head(waiting).kind = "Claim" /\ Head(waiting).req = q)
         /\ Reported(q) <=> Reported(q)' \/ (Head(waiting).kind = "Cancelled" /\ Head(waiting).req = q)
         /\ Head(waiting).kind = "Claim" => ~Claiming(q)'
         /\ Head(waiting).kind = "Cancelled" => ~Reported(q)'
<1> DEFINE e == Head(waiting)
           K == {"Claim"}
           L == {"Cancelled"}
<1>1. (e.kind \in K <=> e.kind = "Claim") /\ (e.kind \in L <=> e.kind = "Cancelled")
  OBVIOUS
<1>2. waiting \in Seq(Entries) /\ Sole(waiting)
  BY DEF Types, Queue, QueueOK
<1> HIDE DEF K, L
<1>3. /\ waiting' \in Seq(Entries) /\ e \in Entries /\ e = waiting[1] /\ Len(waiting') = Len(waiting) - 1
      /\ Len(waiting') \in Nat
      /\ InFirst(waiting, K, q, Len(waiting)) <=> InFirst(waiting', K, q, Len(waiting')) \/ (e.kind \in K /\ e.req = q)
      /\ InFirst(waiting, L, q, Len(waiting)) <=> InFirst(waiting', L, q, Len(waiting')) \/ (e.kind \in L /\ e.req = q)
  BY <1>2, TailFirst
<1>4. \A i \in 1 .. Len(waiting') : ~SameSender(waiting'[i], e)
  BY <1>2, SoleTail
<1> HIDE DEF e
<1>5. Waits(main, handler, reader, e)
  <2>1. 1 \in 1 .. Len(waiting)
    BY <1>3
  <2>2. QED
    BY <1>3, <2>1 DEF Queue, QueueOK
<1>6. e.kind = "Claim" => ~Claiming(q)'
  BY <1>4 DEF SameSender, Claiming, ClaimIn, InFirst
<1>7. e.kind = "Cancelled" => ~Reported(q)'
  BY <1>4 DEF SameSender, Reported, CancelIn, InFirst, ReaderKinds
<1>8. QED
  BY <1>1, <1>3, <1>5, <1>6, <1>7 DEF Claiming, Reported, ClaimIn, CancelIn, K, L, e

(* An entry goes out on the stream.                                        *)
LEMMA GoesOut ==
  ASSUME Types, NEW e \in Entries, out' = Append(out, e), held' = held, NEW q
  PROVE  /\ out' \in Seq(Entries)
         /\ Started(q)' <=> Started(q) \/ (e.kind = "Claim" /\ e.req = q)
         /\ Ended(q)' <=> Ended(q) \/ (e.kind \in Endings /\ e.req = q)
<1> DEFINE K == {"Claim"}
<1>1. e.kind \in K <=> e.kind = "Claim"
  OBVIOUS
<1> HIDE DEF K
<1>2. out \in Seq(Entries)
  BY DEF Types
<1>3. /\ out' \in Seq(Entries)
      /\ InFirst(out', K, q, Len(out')) <=> InFirst(out, K, q, Len(out)) \/ (e.kind \in K /\ e.req = q)
      /\ InFirst(out', Endings, q, Len(out')) <=> InFirst(out, Endings, q, Len(out)) \/ (e.kind \in Endings /\ e.req = q)
  BY <1>2, AppendFirst
<1>4. QED
  BY <1>1, <1>3 DEF Started, Ended, ClaimIn, EndIn, K

-----------------------------------------------------------------------------
(* Every step keeps the types.                                             *)

(* The reader takes a control frame or a piece of a body.                  *)
LEMMA TakesDown ==
  ASSUME Types, TakeDown
  PROVE  /\ Head(down) \in DownFrames /\ Head(down).req \in Requests
         /\ down' \in Seq(DownFrames)
<1>1. down \in Seq(DownFrames) /\ down # <<>>
  BY DEF Types, TakeDown
<1>2. Head(down) \in DownFrames /\ Tail(down) \in Seq(DownFrames)
  BY <1>1
<1>3. QED
  BY <1>2 DEF TakeDown, DownFrames

(* What a sender puts in the queue is an entry.                            *)
LEMMA AwaitEnters ==
  ASSUME Types, NEW kind \in HandlerKinds \cup ReaderKinds \cup {"Claim"}, NEW r \in Requests,
         Await(kind, r)
  PROVE  /\ [kind |-> kind, req |-> r] \in Entries
         /\ waiting \in Seq(Entries)
         /\ waiting' = Append(waiting, [kind |-> kind, req |-> r])
         /\ waiting' \in Seq(Entries)
<1>1. [kind |-> kind, req |-> r] \in Entries
  BY DEF Entries
<1>2. waiting \in Seq(Entries)
  BY DEF Types
<1>3. QED
  BY <1>1, <1>2 DEF Await

(* A sender whose turn it is.                                              *)
LEMMA SendsHead ==
  ASSUME Types, NEW kind, NEW r, Sends(kind, r), waiting' = Tail(waiting)
  PROVE  /\ linked /\ waiting # <<>>
         /\ Head(waiting) \in Entries
         /\ Head(waiting) = [kind |-> kind, req |-> r]
         /\ Head(waiting).kind = kind /\ Head(waiting).req = r
         /\ out' = Append(out, Head(waiting))
         /\ waiting \in Seq(Entries) /\ waiting' \in Seq(Entries) /\ out' \in Seq(Entries)
<1>1. waiting \in Seq(Entries) /\ waiting # <<>> /\ out \in Seq(Entries)
  BY DEF Types, Sends
<1>2. Head(waiting) \in Entries /\ Tail(waiting) \in Seq(Entries)
  BY <1>1
<1>3. QED
  BY <1>1, <1>2 DEF Sends

(* The main loop keeps the types.                                          *)
LEMMA MainTypes == Types /\ MainNext => Types'
<1> SUFFICES ASSUME Types, MainNext PROVE Types'
  OBVIOUS
<1> USE DEF Types, MainStates
<1>1. CASE Acquire
  BY <1>1 DEF Acquire, handlerVars, readerVars, outVars, routerVars
<1>2. CASE TakeRetire
  BY <1>2 DEF TakeRetire, handlerVars, readerVars, outVars, routerVars
<1>3. CASE Drain
  BY <1>3 DEF Drain, handlerVars, readerVars, outVars, routerVars
<1>4. CASE Flushed
  BY <1>4 DEF Flushed, handlerVars, readerVars, outVars, routerVars
<1>5. ASSUME NEW r \in Requests, Recv(r) PROVE Types'
  <2>1. waiting' \in Seq(Entries)
    BY <1>5, AwaitEnters DEF Recv
  <2>2. bodies' \subseteq Requests
    BY <1>5 DEF Recv
  <2>3. QED
    BY <1>5, <2>1, <2>2 DEF Recv, readerVars
<1>6. ASSUME NEW r \in Requests, DropDatagram(r) PROVE Types'
  BY <1>6 DEF DropDatagram, handlerVars, readerVars, outVars
<1>7. ASSUME NEW r \in Requests, SendClaim(r) PROVE Types'
  <2>1. waiting' \in Seq(Entries) /\ out' \in Seq(Entries)
    BY <1>7, SendsHead DEF SendClaim
  <2>2. handler' \in [Requests -> HandlerStates] /\ main' \in MainStates /\ inflight' \subseteq Requests
    BY <1>7 DEF SendClaim, HandlerStates
  <2>3. QED
    BY <1>7, <2>1, <2>2 DEF SendClaim, readerVars, routerVars
<1>8. QED
  BY <1>1, <1>2, <1>3, <1>4, <1>5, <1>6, <1>7 DEF MainNext

(* The handlers keep the types.                                            *)
LEMMA HandlerTypes ==
  ASSUME Types, Counts, NEW r \in Requests, HandlerNext(r)
  PROVE  Types'
<1> USE DEF Types
<1>1. CASE Begin(r)
  <2>1. handler' \in [Requests -> HandlerStates]
    BY <1>1 DEF Begin, HandlerStates
  <2>2. waiting' \in Seq(Entries)
    BY <1>1, AwaitEnters DEF Begin, HandlerKinds, LastKinds
  <2>3. QED
    BY <1>1, <2>1, <2>2 DEF Begin, mainVars, readerVars, routerVars
<1>2. CASE TakeChunk(r)
  <2>1. handler' \in [Requests -> HandlerStates]
    BY <1>2 DEF TakeChunk, HandlerStates
  <2>2. waiting' \in Seq(Entries)
    BY <1>2, AwaitEnters DEF TakeChunk, HandlerKinds, LastKinds
  <2>3. got' \in [Requests -> 0 .. Chunks]
    <3>1. got[r] < Chunks /\ got[r] \in 0 .. Chunks
      BY <1>2 DEF TakeChunk, Counts
    <3>2. got[r] + 1 \in 0 .. Chunks
      BY <3>1, Rooms
    <3>3. QED
      BY <1>2, <3>2 DEF TakeChunk
  <2>4. chan' \in [Requests -> Seq(Inbound)]
    <3>1. chan[r] \in Seq(Inbound) /\ chan[r] # <<>>
      BY <1>2 DEF TakeChunk
    <3>2. Tail(chan[r]) \in Seq(Inbound) /\ <<>> \in Seq(Inbound)
      BY <3>1
    <3>3. QED
      BY <1>2, <3>2 DEF TakeChunk
  <2>5. QED
    BY <1>2, <2>1, <2>2, <2>3, <2>4 DEF TakeChunk, mainVars, readerVars, routerVars
<1>3. CASE TakeMessage(r)
  <2>1. handler' \in [Requests -> HandlerStates]
    BY <1>3 DEF TakeMessage, HandlerStates
  <2>2. waiting' \in Seq(Entries)
    BY <1>3, AwaitEnters DEF TakeMessage, HandlerKinds, LastKinds
  <2>3. chan' \in [Requests -> Seq(Inbound)]
    <3>1. chan[r] \in Seq(Inbound) /\ chan[r] # <<>>
      BY <1>3 DEF TakeMessage
    <3>2. Tail(chan[r]) \in Seq(Inbound)
      BY <3>1
    <3>3. QED
      BY <1>3, <3>2 DEF TakeMessage
  <2>4. QED
    BY <1>3, <2>1, <2>2, <2>3 DEF TakeMessage, mainVars, readerVars, routerVars
<1>4. CASE SendAccept(r) \/ SendMessage(r)
  <2>1. waiting' \in Seq(Entries) /\ out' \in Seq(Entries)
    BY <1>4, SendsHead DEF SendAccept, SendMessage
  <2>2. handler' \in [Requests -> HandlerStates]
    BY <1>4 DEF SendAccept, SendMessage, HandlerStates
  <2>3. QED
    BY <1>4, <2>1, <2>2 DEF SendAccept, SendMessage, mainVars, readerVars, routerVars
<1>5. CASE SendLast(r)
  <2>1. waiting' \in Seq(Entries) /\ out' \in Seq(Entries)
    BY <1>5, SendsHead DEF SendLast
  <2>2. handler' \in [Requests -> HandlerStates] /\ chan' \in [Requests -> Seq(Inbound)]
    BY <1>5 DEF SendLast, TaskEnds, HandlerStates
  <2>3. QED
    BY <1>5, <2>1, <2>2 DEF SendLast, TaskEnds, readerVars, routerVars
<1>6. CASE DropHandler(r)
  <2>1. handler' \in [Requests -> HandlerStates] /\ chan' \in [Requests -> Seq(Inbound)]
    BY <1>6 DEF DropHandler, HandlerStates
  <2>2. QED
    BY <1>6, <2>1 DEF DropHandler, readerVars, outVars, routerVars
<1>7. QED
  BY <1>1, <1>2, <1>3, <1>4, <1>5, <1>6 DEF HandlerNext

(* The reader keeps the types.                                             *)
LEMMA ReaderTypes == Types /\ Queue /\ Counts /\ ReaderNext => Types'
<1> SUFFICES ASSUME Types, Queue, Counts, ReaderNext PROVE Types'
  OBVIOUS
<1> USE DEF Types
<1>1. CASE Route
  <2> DEFINE f == Head(down)
  <2>1. f \in DownFrames /\ f.req \in Requests /\ down' \in Seq(DownFrames)
    BY <1>1, TakesDown DEF Route
  <2>2. f.kind \in Inbound
    BY <1>1 DEF Route
  <2> HIDE DEF f
  <2>3. Append(chan[f.req], f.kind) \in Seq(Inbound)
    BY <2>1, <2>2
  <2>4. chan' \in [Requests -> Seq(Inbound)] /\ hold' \in DownFrames \cup {None}
    BY <1>1, <2>1, <2>3 DEF Route, f
  <2>5. QED
    BY <1>1, <2>1, <2>4 DEF Route, TakeDown, mainVars
<1>2. CASE Unhold
  <2>1. chan' \in [Requests -> Seq(Inbound)]
    <3>1. hold.req \in Requests /\ hold.kind \in Inbound
      BY <1>2 DEF Unhold, DownFrames, Counts
    <3>2. Append(chan[hold.req], hold.kind) \in Seq(Inbound)
      BY <3>1
    <3>3. QED
      BY <1>2, <3>2 DEF Unhold
  <2>2. QED
    BY <1>2, <2>1 DEF Unhold, mainVars, outVars, routerVars
<1>3. CASE AnswerPing
  <2>1. Head(down).req \in Requests /\ down' \in Seq(DownFrames)
    BY <1>3, TakesDown DEF AnswerPing
  <2>2. waiting' \in Seq(Entries)
    BY <1>3, <2>1, AwaitEnters DEF AnswerPing, ReaderKinds
  <2>3. QED
    BY <1>3, <2>1, <2>2 DEF AnswerPing, TakeDown, mainVars, handlerVars
<1>4. CASE ObeyAbort
  <2> DEFINE r == Head(down).req
  <2>1. r \in Requests /\ down' \in Seq(DownFrames)
    BY <1>4, TakesDown DEF ObeyAbort
  <2>2. waiting' \in Seq(Entries)
    <3>1. Without(waiting, r) \in Seq(Entries)
      BY <2>1, WithoutEntries DEF Queue, QueueOK
    <3>2. [kind |-> "Cancelled", req |-> r] \in Entries
      BY <2>1 DEF Entries, ReaderKinds
    <3> HIDE DEF r
    <3>3. Append(Without(waiting, r), [kind |-> "Cancelled", req |-> r]) \in Seq(Entries)
      BY <3>1, <3>2
    <3>4. QED
      BY <1>4, <3>3 DEF ObeyAbort, r
  <2>3. handler' \in [Requests -> HandlerStates]
    BY <1>4 DEF ObeyAbort, HandlerStates
  <2>4. QED
    BY <1>4, <2>1, <2>2, <2>3 DEF ObeyAbort, TakeDown, mainVars
<1>5. CASE ReaderEnds
  BY <1>5 DEF ReaderEnds, mainVars, handlerVars, outVars, routerVars
<1>6. ASSUME NEW r \in Requests, SendFromReader(r) PROVE Types'
  <2>1. waiting' \in Seq(Entries) /\ out' \in Seq(Entries)
    BY <1>6, SendsHead DEF SendFromReader
  <2>2. QED
    BY <1>6, <2>1 DEF SendFromReader, mainVars, handlerVars, routerVars
<1>7. QED
  BY <1>1, <1>2, <1>3, <1>4, <1>5, <1>6 DEF ReaderNext

(* The router keeps the types.                                             *)
LEMMA RouterTypes == Types /\ RouterNext => Types'
<1> SUFFICES ASSUME Types, RouterNext PROVE Types'
  OBVIOUS
<1> USE DEF Types
<1>1. CASE RouterReads
  <2> DEFINE e == Head(out)
  <2>1. e \in Entries /\ Tail(out) \in Seq(Entries)
    BY <1>1 DEF RouterReads
  <2>2. e.req \in Requests
    BY <2>1 DEF Entries
  <2> HIDE DEF e
  <2>3. /\ held' \subseteq Requests /\ claimed' \subseteq Requests
        /\ slot' \in [Requests -> SlotStates]
    BY <1>1, <2>2 DEF RouterReads, SlotStates, e
  <2>4. upload' \in [Requests -> 0 .. Chunks + 1]
    <3>1. Chunks + 1 \in 0 .. Chunks + 1
      BY Rooms
    <3>2. QED
      BY <1>1, <3>1 DEF RouterReads
  <2>5. QED
    BY <1>1, <2>1, <2>3, <2>4 DEF RouterReads, mainVars, handlerVars, readerVars
<1>2. CASE RouterCloses
  <2>1. upload' \in [Requests -> 0 .. Chunks + 1]
    BY <1>2, Rooms DEF RouterCloses
  <2>2. out' \in Seq(Entries) /\ held' \subseteq Requests /\ claimed' \subseteq Requests
    BY <1>2 DEF RouterCloses
  <2>3. linked' \in BOOLEAN
    BY <1>2 DEF RouterCloses
  <2>4. QED
    BY <1>2, <2>1, <2>2, <2>3 DEF RouterCloses, mainVars, handlerVars, readerVars
<1>3. ASSUME NEW r \in Requests, NEW kind \in Inbound \cup {"Ping", "Abort"}, Write(kind, r),
             upload' \in [Requests -> 0 .. Chunks + 1]
      PROVE  Types'
  <2>1. [kind |-> kind, req |-> r] \in DownFrames
    BY DEF DownFrames
  <2>2. Append(down, [kind |-> kind, req |-> r]) \in Seq(DownFrames)
    BY <2>1
  <2>3. QED
    BY <1>3, <2>2 DEF Write, mainVars, handlerVars, readerVars, outVars
<1>4. ASSUME NEW r \in Requests, Upload(r) PROVE Types'
  <2>1. upload' \in [Requests -> 0 .. Chunks + 1]
    <3>1. upload[r] \in 0 .. Chunks + 1 /\ upload[r] > 0
      BY <1>4 DEF Upload
    <3>2. upload[r] - 1 \in 0 .. Chunks + 1 /\ 0 \in 0 .. Chunks + 1
      BY <3>1, Rooms
    <3>3. QED
      BY <1>4, <3>2 DEF Upload
  <2>2. QED
    BY <1>3, <1>4, <2>1 DEF Upload, Inbound
<1>5. ASSUME NEW r \in Requests, Message(r) PROVE Types'
  <2>1. upload' \in [Requests -> 0 .. Chunks + 1]
    <3>1. 0 \in 0 .. Chunks + 1
      BY Rooms
    <3>2. QED
      BY <1>5, <3>1 DEF Message
  <2>2. QED
    BY <1>3, <1>5, <2>1 DEF Message, Inbound
<1>6. ASSUME NEW r \in Requests, NEW kind \in {"Ping", "Abort"}, Control(kind, r) PROVE Types'
  BY <1>3, <1>6 DEF Control
<1>7. ASSUME NEW r \in Requests, RouterDrops(r) PROVE Types'
  BY <1>7 DEF RouterDrops, SlotStates, mainVars, handlerVars, readerVars, outVars
<1>8. QED
  BY <1>1, <1>2, <1>4, <1>5, <1>6, <1>7 DEF RouterNext

(* A send that fails keeps the types.                                      *)
LEMMA FailTypes == Types /\ SendFails => Types'
<1> SUFFICES ASSUME Types, SendFails PROVE Types'
  OBVIOUS
<1> USE DEF Types
<1>1. waiting' \in Seq(Entries)
  BY DEF SendFails
<1>2. ASSUME NEW r, TaskEnds(r)
      PROVE  /\ handler' \in [Requests -> HandlerStates] /\ chan' \in [Requests -> Seq(Inbound)]
             /\ bodies' \subseteq Requests /\ inflight' \subseteq Requests /\ permits' \in Nat
  <2>1. handler' \in [Requests -> HandlerStates]
    BY <1>2 DEF TaskEnds, HandlerStates
  <2>2. chan' \in [Requests -> Seq(Inbound)]
    <3>1. <<>> \in Seq(Inbound)
      OBVIOUS
    <3>2. chan' = [chan EXCEPT ![r] = <<>>]
      BY <1>2 DEF TaskEnds
    <3>3. QED
      BY <3>1, <3>2
  <2>3. QED
    BY <1>2, <2>1, <2>2 DEF TaskEnds
<1>3. handler' \in [Requests -> HandlerStates] /\ chan' \in [Requests -> Seq(Inbound)]
  BY <1>2 DEF SendFails
<1>4. permits' \in Nat /\ main' \in MainStates /\ reader' \in {"reading", "sending", "gone"}
      /\ bodies' \subseteq Requests /\ inflight' \subseteq Requests
  BY <1>2 DEF SendFails, MainStates
<1>5. QED
  BY <1>1, <1>3, <1>4 DEF SendFails, routerVars

-----------------------------------------------------------------------------
(* Every step keeps the ledgers. First the steps that leave them alone.    *)

(* A step that moves no handler and writes no entry.                       *)
LEMMA Quiet ==
  ASSUME EchoInv,
         UNCHANGED <<handler, inflight, waiting, out, held, linked>>, fresh' \subseteq fresh,
         PermitsAccount', main = "claiming" => main' = "claiming",
         reader = "sending" => reader' = "sending"
  PROVE  Ledgers'
<1>1. Queue'
  <2>1. \A i \in 1 .. Len(waiting) : Waits(main', handler, reader', waiting[i])
    BY DEF EchoInv, Ledgers, Queue, QueueOK, Waits
  <2>2. QED
    BY <2>1 DEF EchoInv, Ledgers, Queue, QueueOK
<1>2. Story'
  <2>1. ASSUME NEW q \in Requests PROVE StoryOf(q)'
    <3>1. /\ Started(q)' = Started(q) /\ Ended(q)' = Ended(q) /\ Claiming(q)' = Claiming(q)
          /\ Reported(q)' = Reported(q) /\ Active(q)' = Active(q)
      BY DEF Started, Ended, Claiming, Reported, Active
    <3>2. StoryOf(q) /\ linked' = linked /\ handler' = handler
      BY DEF EchoInv, Ledgers, Story
    <3> HIDE DEF Started, Ended, Claiming, Reported, Active
    <3>3. QED
      BY <3>1, <3>2 DEF StoryOf
  <2>2. QED
    BY <2>1 DEF Story
<1>3. NextFits' /\ Cut' /\ StreamOK(held, out)' /\ HandlesMatch'
  BY DEF EchoInv, Ledgers, NextFits, Cut, HandlesMatch
<1>4. QED
  BY <1>1, <1>2, <1>3 DEF Ledgers

(* The steps of that kind.                                                 *)
LEMMA QuietSteps ==
  ASSUME EchoInv,
         \/ Acquire \/ TakeRetire \/ Drain \/ Flushed \/ Route \/ Unhold \/ ReaderEnds
         \/ \E r \in Requests : \/ DropDatagram(r) \/ RouterDrops(r) \/ Upload(r) \/ Message(r)
                                \/ \E kind \in {"Ping", "Abort"} : Control(kind, r)
  PROVE  Ledgers'
<1> DEFINE n == Cardinality(Busy(handler))
<1>1. PermitsAccount <=> permits + n + (IF main \in {"recv", "claiming"} THEN 1 ELSE 0) = Granted
  BY DEF PermitsAccount, Busy
<1>2. ASSUME handler' = handler
      PROVE  PermitsAccount' <=> permits' + n + (IF main' \in {"recv", "claiming"} THEN 1 ELSE 0) = Granted
  BY <1>2 DEF PermitsAccount, Busy
<1>3. n \in Nat /\ permits \in Nat /\ Granted \in Nat /\ PermitsAccount
      /\ handler \in [Requests -> HandlerStates]
  <2>1. handler \in [Requests -> HandlerStates] /\ permits \in Nat /\ PermitsAccount
    BY DEF EchoInv, Types, Ledgers
  <2>2. Busy(handler) \subseteq Requests
    BY DEF Busy
  <2>3. QED
    BY <2>1, <2>2, Rooms, FS_Subset, FS_CardinalityType
<1> HIDE DEF n
<1>4. CASE Acquire
  <2>1. PermitsAccount'
    BY <1>1, <1>2, <1>3, <1>4 DEF Acquire, handlerVars
  <2>2. QED
    BY <1>4, <2>1, Quiet DEF Acquire, handlerVars, readerVars, outVars, routerVars
<1>5. CASE TakeRetire \/ \E r \in Requests : DropDatagram(r)
  <2>1. PermitsAccount'
    BY <1>1, <1>2, <1>3, <1>5 DEF TakeRetire, DropDatagram, handlerVars
  <2>2. QED
    BY <1>5, <2>1, Quiet DEF TakeRetire, DropDatagram, handlerVars, readerVars, outVars, routerVars
<1>6. CASE Drain \/ Flushed
  <2>1. PermitsAccount'
    BY <1>1, <1>2, <1>3, <1>6 DEF Drain, Flushed, handlerVars
  <2>2. QED
    BY <1>6, <2>1, Quiet DEF Drain, Flushed, handlerVars, readerVars, outVars, routerVars
<1>7. CASE Route
  <2>1. /\ UNCHANGED <<handler, inflight, waiting, out, held, linked, fresh, main, permits, reader>>
    BY <1>7 DEF Route, TakeDown, mainVars
  <2>2. QED
    BY <1>1, <1>2, <1>3, <2>1, Quiet
<1>8. CASE Unhold
  <2>1. /\ UNCHANGED <<handler, inflight, waiting, out, held, linked, fresh, main, permits, reader>>
    BY <1>8 DEF Unhold, mainVars, outVars, routerVars
  <2>2. QED
    BY <1>1, <1>2, <1>3, <2>1, Quiet
<1>9. CASE ReaderEnds
  <2>1. /\ UNCHANGED <<handler, inflight, waiting, out, held, linked, fresh, main, permits>>
        /\ reader = "reading"
    BY <1>9 DEF ReaderEnds, mainVars, handlerVars, outVars, routerVars
  <2>2. QED
    BY <1>1, <1>2, <1>3, <2>1, Quiet
<1>10. CASE \E r \in Requests : RouterDrops(r) \/ Upload(r) \/ Message(r)
            \/ \E kind \in {"Ping", "Abort"} : Control(kind, r)
  <2>1. /\ UNCHANGED <<handler, inflight, waiting, out, held, linked, fresh, main, permits, reader>>
    BY <1>10 DEF RouterDrops, Upload, Message, Control, Write, mainVars, handlerVars, readerVars, outVars
  <2>2. QED
    BY <1>1, <1>2, <1>3, <2>1, Quiet
<1>11. QED
  BY <1>4, <1>5, <1>6, <1>7, <1>8, <1>9, <1>10

(* A datagram is taken: its Claim waits, and a permit is behind it.        *)
LEMMA RecvStep ==
  ASSUME EchoInv, NEW r \in Requests, Recv(r)
  PROVE  Ledgers'
<1> DEFINE e == [kind |-> "Claim", req |-> r]
<1>1. e \in Entries /\ waiting \in Seq(Entries) /\ waiting' = Append(waiting, e)
  BY AwaitEnters DEF Recv, EchoInv
<1>2. e.kind = "Claim" /\ e.req = r
  OBVIOUS
<1>3. /\ main = "recv" /\ main' = "claiming" /\ r \in fresh /\ fresh' = fresh \ {r}
      /\ UNCHANGED <<handler, permits, inflight, reader, out, held, linked>>
  BY DEF Recv, readerVars
<1> HIDE DEF e
<1>4. Queue'
  <2>1. Waits(main', handler, reader, e)
    BY <1>2, <1>3 DEF Waits, LastKinds, ReaderKinds
  <2>2. QueueOK(waiting, main, handler, reader)
    BY DEF EchoInv, Ledgers, Queue
  <2>3. QueueOK(waiting', main', handler, reader)
    BY <1>1, <1>2, <1>3, <2>1, <2>2, QueueGrows DEF HandlerKinds, LastKinds, ReaderKinds
  <2>4. QED
    BY <1>3, <2>3 DEF Queue
<1>5. Story'
  <2>1. ASSUME NEW q \in Requests PROVE StoryOf(q)'
    <3>1. /\ Started(q)' = Started(q) /\ Ended(q)' = Ended(q) /\ Active(q)' = Active(q)
      BY <1>3 DEF Started, Ended, Active
    <3>2. Claiming(q)' <=> Claiming(q) \/ r = q
      BY <1>1, <1>2, Enters DEF Claiming
    <3>3. Reported(q)' <=> Reported(q)
      BY <1>1, <1>2, Enters DEF Reported
    <3>4. StoryOf(q)
      BY DEF EchoInv, Ledgers, Story
    <3>5. QED
      BY <1>3, <3>1, <3>2, <3>3, <3>4 DEF StoryOf
  <2>2. QED
    BY <2>1 DEF Story
<1>6. NextFits'
  <2> SUFFICES ASSUME linked PROVE Fits(held, out, waiting')
    BY <1>3 DEF NextFits
  <2> DEFINE owed == {q \in HeldAt(held, out, Len(out)) : ~CancelIn(waiting, q, Len(waiting))}
  <2>1. owed \subseteq Busy(handler)
    <3> SUFFICES ASSUME NEW q \in owed PROVE q \in Busy(handler)
      OBVIOUS
    <3>1. q \in Requests /\ Started(q) /\ ~Ended(q) /\ ~Reported(q)
      BY DEF HeldAt, Started, Ended, Reported
    <3>2. Active(q)
      BY <3>1 DEF EchoInv, Ledgers, Story, StoryOf
    <3>3. QED
      BY <3>1, <3>2 DEF Active, Busy
  <2>2. /\ IsFiniteSet(Busy(handler)) /\ Cardinality(Busy(handler)) \in Nat
    <3>1. Busy(handler) \subseteq Requests
      BY DEF Busy
    <3>2. QED
      BY <3>1, Rooms, FS_Subset, FS_CardinalityType
  <2>3. Cardinality(Busy(handler)) < Granted
    <3>1. permits + Cardinality(Busy(handler)) + 1 = Granted /\ permits \in Nat
      BY <1>3 DEF EchoInv, Ledgers, Types, PermitsAccount, Busy
    <3>2. QED
      BY <2>2, <3>1, Rooms
  <2> HIDE DEF owed
  <2>4. Cardinality(owed) < Granted
    BY <2>1, <2>2, <2>3, FewerFit
  <2>5. Fits(held, out, waiting)
    BY DEF EchoInv, Ledgers, NextFits
  <2>6. QED
    BY <1>1, <2>4, <2>5, FitsGrows DEF owed
<1>7. PermitsAccount' /\ Cut' /\ StreamOK(held, out)' /\ HandlesMatch'
  BY <1>3 DEF EchoInv, Ledgers, PermitsAccount, Cut, HandlesMatch
<1>8. QED
  BY <1>4, <1>5, <1>6, <1>7 DEF Ledgers

(* What a change of one handler leaves in step: it was active and still is.*)
LEMMA StillActive ==
  ASSUME Types, PermitsAccount, HandlesMatch, NEW r \in Requests, Active(r),
         NEW x \in HandlerStates \ {"none", "aborting"}, handler' = [handler EXCEPT ![r] = x],
         UNCHANGED <<permits, main, inflight>>
  PROVE  PermitsAccount' /\ HandlesMatch' /\ \A q \in Requests : Active(q)' <=> Active(q)
<1>1. handler[r] # "none" /\ x # "none" /\ handler \in [Requests -> HandlerStates] /\ x \in HandlerStates
  BY DEF Active, Types
<1>2. Busy(handler') = Busy(handler)
  <2>1. (handler[r] = "none") = (x = "none")
    BY <1>1
  <2>2. QED
    BY <1>1, <2>1, BusyChanges
<1>3. PermitsAccount'
  BY <1>2 DEF PermitsAccount, Busy
<1>4. \A q \in Requests : Active(q)' <=> Active(q)
  BY <1>1 DEF Active
<1>5. HandlesMatch'
  BY <1>1, <1>4 DEF HandlesMatch, Active
<1>6. QED
  BY <1>3, <1>4, <1>5

(* A handler turns to the writer, or only starts to read.                  *)
LEMMA HandlerAwaits ==
  ASSUME EchoInv, NEW r \in Requests, handler[r] \in {"new", "reading", "mirroring"},
         NEW x \in HandlerStates \ {"none", "aborting"}, handler' = [handler EXCEPT ![r] = x],
         \/ UNCHANGED waiting
         \/ \E kind \in HandlerKinds : /\ Await(kind, r)
                                       /\ kind = "Accept" => x = "accepting"
                                       /\ kind = "Message" => x = "echoing"
                                       /\ kind \in LastKinds => x = "sending",
         UNCHANGED <<permits, main, inflight, reader, out, held, linked, fresh>>
  PROVE  Ledgers'
<1>1. Types /\ Queue /\ Story /\ PermitsAccount /\ HandlesMatch /\ handler \in [Requests -> HandlerStates]
  BY DEF EchoInv, Ledgers, Types
<1>2. Active(r) /\ handler'[r] = x /\ \A q \in Requests \ {r} : handler'[q] = handler[q]
  BY <1>1 DEF Active
<1>3. PermitsAccount' /\ HandlesMatch' /\ \A q \in Requests : Active(q)' <=> Active(q)
  BY <1>1, <1>2, StillActive
<1>4. Cut' /\ StreamOK(held, out)'
  BY DEF EchoInv, Ledgers, Cut
<1>5. \A q \in Requests : /\ Started(q)' = Started(q) /\ Ended(q)' = Ended(q)
                          /\ handler'[q] = "none" <=> handler[q] = "none"
  BY <1>2 DEF Started, Ended, Active
<1>6. \A q \in Requests : handler[q] \in AtSend => handler'[q] = handler[q]
  BY <1>2 DEF AtSend
<1>7. ASSUME \A q \in Requests : (Claiming(q)' <=> Claiming(q)) /\ (Reported(q)' <=> Reported(q))
      PROVE  Story'
  <2>1. ASSUME NEW q \in Requests PROVE StoryOf(q)'
    <3>1. StoryOf(q)
      BY <1>1 DEF Story
    <3>2. QED
      BY <1>3, <1>5, <1>7, <3>1 DEF StoryOf
  <2>2. QED
    BY <2>1 DEF Story
<1>8. CASE UNCHANGED waiting
  <2>1. Story'
    BY <1>7, <1>8 DEF Claiming, Reported
  <2>2. NextFits'
    BY <1>8 DEF EchoInv, Ledgers, NextFits
  <2>3. Queue'
    <3>1. waiting \in Seq(Entries)
      BY <1>1 DEF Types
    <3>2. ASSUME NEW i \in 1 .. Len(waiting) PROVE Waits(main, handler', reader, waiting[i])
      <4>1. waiting[i] \in Entries
        BY <3>1, ElementOfSeq
      <4>2. waiting[i].req \in Requests /\ Waits(main, handler, reader, waiting[i])
        BY <1>1, <4>1 DEF Queue, QueueOK, Entries
      <4>3. QED
        BY <1>6, <4>2 DEF Waits, AtSend
    <3>3. QED
      BY <1>1, <1>8, <3>2 DEF Queue, QueueOK
  <2>4. QED
    BY <1>3, <1>4, <2>1, <2>2, <2>3 DEF Ledgers
<1>9. CASE ~UNCHANGED waiting
  <2>1. PICK kind \in HandlerKinds : /\ Await(kind, r)
                                     /\ kind = "Accept" => x = "accepting"
                                     /\ kind = "Message" => x = "echoing"
                                     /\ kind \in LastKinds => x = "sending"
    BY <1>9
  <2> DEFINE e == [kind |-> kind, req |-> r]
  <2>2. e \in Entries /\ waiting \in Seq(Entries) /\ waiting' = Append(waiting, e)
    BY <1>1, <2>1, AwaitEnters
  <2>3. e.kind = kind /\ e.req = r /\ e.kind # "Claim" /\ e.kind # "Cancelled" /\ e.kind \notin ReaderKinds
    BY DEF HandlerKinds, LastKinds, ReaderKinds
  <2> HIDE DEF e
  <2>4. Story'
    <3>1. \A q : (Claiming(q)' <=> Claiming(q)) /\ (Reported(q)' <=> Reported(q))
      BY <2>2, <2>3, Enters DEF Claiming, Reported
    <3>2. QED
      BY <1>7, <3>1
  <2>5. NextFits'
    BY <2>2, <2>3, FitsGrows DEF EchoInv, Ledgers, NextFits
  <2>6. Queue'
    <3>1. Waits(main, handler', reader, e)
      BY <1>2, <2>1, <2>3 DEF Waits
    <3>2. handler[e.req] \notin AtSend
      BY <2>3 DEF AtSend
    <3>3. QueueOK(waiting', main, handler', reader)
      BY <1>1, <1>6, <2>2, <2>3, <3>1, <3>2, QueueGrows DEF Queue
    <3>4. QED
      BY <3>3 DEF Queue
  <2>7. QED
    BY <1>3, <1>4, <2>4, <2>5, <2>6 DEF Ledgers
<1>10. QED
  BY <1>8, <1>9

(* A handler begins, takes a chunk or a message: it may wait for the       *)
(* writer now.                                                             *)
LEMMA AwaitSteps ==
  ASSUME EchoInv, NEW r \in Requests, Begin(r) \/ TakeChunk(r) \/ TakeMessage(r)
  PROVE  Ledgers'
<1> DEFINE Turns(x) ==
      /\ handler' = [handler EXCEPT ![r] = x]
      /\ \/ UNCHANGED waiting
         \/ \E kind \in HandlerKinds : /\ Await(kind, r)
                                       /\ kind = "Accept" => x = "accepting"
                                       /\ kind = "Message" => x = "echoing"
                                       /\ kind \in LastKinds => x = "sending"
<1>1. handler \in [Requests -> HandlerStates]
  BY DEF EchoInv, Types
<1>2. CASE Begin(r)
  <2>1. UNCHANGED <<permits, main, inflight, reader, out, held, linked, fresh>> /\ handler[r] = "new"
    BY <1>2 DEF Begin, mainVars, readerVars, routerVars
  <2>2. Turns("reading") \/ Turns("accepting") \/ Turns("sending")
    <3>1. {"Accept", "Reply", "Error"} \subseteq HandlerKinds /\ "Accept" \notin LastKinds
      BY DEF HandlerKinds, LastKinds
    <3>2. QED
      BY <1>2, <3>1 DEF Begin
  <2>3. {"reading", "accepting", "sending"} \subseteq HandlerStates \ {"none", "aborting"}
    BY DEF HandlerStates
  <2>4. QED
    BY <2>1, <2>2, <2>3, HandlerAwaits
<1>3. CASE TakeChunk(r)
  <2>1. UNCHANGED <<permits, main, inflight, reader, out, held, linked, fresh>> /\ handler[r] = "reading"
    BY <1>3 DEF TakeChunk, mainVars, readerVars, routerVars
  <2>2. Turns("sending") \/ Turns("reading")
    <3>1. {"Reply", "Error"} \subseteq HandlerKinds
      BY DEF HandlerKinds, LastKinds
    <3>2. handler' = handler => handler' = [handler EXCEPT ![r] = "reading"]
      BY <1>1, <2>1
    <3>3. QED
      BY <1>3, <3>1, <3>2 DEF TakeChunk
  <2>3. {"reading", "sending"} \subseteq HandlerStates \ {"none", "aborting"}
    BY DEF HandlerStates
  <2>4. QED
    BY <2>1, <2>2, <2>3, HandlerAwaits
<1>4. CASE TakeMessage(r)
  <2>1. UNCHANGED <<permits, main, inflight, reader, out, held, linked, fresh>> /\ handler[r] = "mirroring"
    BY <1>4 DEF TakeMessage, mainVars, readerVars, routerVars
  <2>2. Turns("sending") \/ Turns("echoing")
    <3>1. {"End", "Message"} \subseteq HandlerKinds /\ "Message" \notin LastKinds /\ "End" \in LastKinds
      BY DEF HandlerKinds, LastKinds
    <3>2. QED
      BY <1>4, <3>1 DEF TakeMessage
  <2>3. {"sending", "echoing"} \subseteq HandlerStates \ {"none", "aborting"}
    BY DEF HandlerStates
  <2>4. QED
    BY <2>1, <2>2, <2>3, HandlerAwaits
<1>5. QED
  BY <1>2, <1>3, <1>4

(* The head of the queue goes out on the stream: the stream stays in order *)
(* and the Claim that waits still fits.                                    *)
LEMMA HeadGoesOut ==
  ASSUME EchoInv, linked, waiting # <<>>, waiting' = Tail(waiting),
         out' = Append(out, Head(waiting)), UNCHANGED <<held, linked>>
  PROVE  /\ StreamOK(held, out)' /\ NextFits' /\ Cut'
         /\ Head(waiting) \in Entries /\ Waits(main, handler, reader, Head(waiting))
         /\ Head(waiting).kind = "Claim" => Claiming(Head(waiting).req) /\ ~Ended(Head(waiting).req)
         /\ Head(waiting).kind = "Cancelled" => Reported(Head(waiting).req)
<1> DEFINE e == Head(waiting)
<1>1. Types /\ Queue /\ Story /\ StreamOK(held, out) /\ Sole(waiting) /\ Fits(held, out, waiting)
      /\ waiting \in Seq(Entries) /\ out \in Seq(Entries)
  BY DEF EchoInv, Ledgers, Types, Queue, QueueOK, NextFits
<1>2. /\ e \in Entries /\ e = waiting[1] /\ 1 \in 1 .. Len(waiting)
      /\ Waits(main, handler, reader, e)
      /\ e.kind = "Claim" => Claiming(e.req)
      /\ e.kind = "Cancelled" => Reported(e.req)
  <2>1. e \in Entries /\ e = waiting[1] /\ Len(Tail(waiting)) = Len(waiting) - 1 /\ Len(Tail(waiting)) \in Nat
    BY <1>1, TailFirst
  <2> HIDE DEF e
  <2>2. 1 \in 1 .. Len(waiting)
    BY <1>1, <2>1
  <2>3. QED
    BY <1>1, <2>1, <2>2 DEF Queue, QueueOK, Claiming, ClaimIn, Reported, CancelIn, InFirst
<1> HIDE DEF e
<1>3. e.req \in Requests
  BY <1>2 DEF Entries
<1>4. StoryOf(e.req)
  BY <1>1, <1>3 DEF Story
<1>5. Ended(e.req) => Started(e.req)
  <2> SUFFICES ASSUME NEW j \in 1 .. Len(out), out[j].kind \in Endings, out[j].req = e.req
               PROVE  Started(e.req)
    BY DEF Ended, EndIn, InFirst
  <2>1. e.req \in held \/ ClaimIn(out, e.req, j - 1)
    BY <1>1 DEF StreamOK
  <2>2. \A i \in 1 .. j - 1 : i \in 1 .. Len(out)
    BY <1>1
  <2>3. QED
    BY <2>1, <2>2 DEF Started, ClaimIn, InFirst
<1>6. e.kind = "Claim" => /\ e.req \notin held /\ ~ClaimIn(out, e.req, Len(out)) /\ ~Ended(e.req)
                          /\ Cardinality(HeldAt(held, out, Len(out))) < Granted
  <2> SUFFICES ASSUME e.kind = "Claim"
               PROVE  /\ e.req \notin held /\ ~ClaimIn(out, e.req, Len(out)) /\ ~Ended(e.req)
                      /\ Cardinality(HeldAt(held, out, Len(out))) < Granted
    OBVIOUS
  <2>1. ~Started(e.req)
    BY <1>2, <1>4 DEF StoryOf
  <2>2. Cardinality(Owing(held, out, waiting, 1)) < Granted
    BY <1>1, <1>2 DEF Fits
  <2>3. Owing(held, out, waiting, 1) = HeldAt(held, out, Len(out))
    <3>1. \A q : ~CancelIn(waiting, q, 1 - 1)
      BY DEF CancelIn, InFirst
    <3>2. QED
      BY <3>1 DEF Owing, HeldAt
  <2>4. QED
    BY <1>5, <2>1, <2>2, <2>3 DEF Started
<1>7. e.kind \in Endings => Started(e.req) /\ ~Ended(e.req)
  <2>1. CASE e.kind \in LastKinds
    <3>1. Active(e.req)
      BY <1>2, <2>1 DEF Waits, Active
    <3>2. QED
      BY <1>4, <3>1 DEF StoryOf
  <2>2. CASE e.kind = "Cancelled"
    BY <1>2, <1>4, <2>2 DEF StoryOf
  <2>3. QED
    BY <2>1, <2>2 DEF Endings
<1>8. StreamOK(held, out')
  BY <1>1, <1>2, <1>6, <1>7, StreamGrows DEF Started, Ended, e
<1>9. Fits(held, out', waiting')
  <2>1. ASSUME e.kind # "Claim", NEW q \in HeldAt(held, out', Len(out'))
        PROVE  q \in HeldAt(held, out, Len(out)) /\ ~(e.kind = "Cancelled" /\ e.req = q)
    <3>1. q \in Requests /\ Started(q)' /\ ~Ended(q)'
      BY <2>1 DEF HeldAt, Started, Ended
    <3>2. Started(q) /\ ~Ended(q) /\ ~(e.kind \in Endings /\ e.req = q)
      BY <1>1, <1>2, <2>1, <3>1, GoesOut DEF e
    <3>3. QED
      BY <3>1, <3>2 DEF HeldAt, Started, Ended, Endings
  <2>2. QED
    BY <1>1, <2>1, FitsShrinks DEF e
<1>10. StreamOK(held, out)' /\ NextFits' /\ Cut'
  BY <1>8, <1>9 DEF NextFits, Cut
<1>11. QED
  BY <1>2, <1>6, <1>10 DEF e

(* The Claim goes out: the request is the router's, and its handler        *)
(* starts.                                                                 *)
LEMMA SendClaimStep ==
  ASSUME EchoInv, NEW r \in Requests, SendClaim(r)
  PROVE  Ledgers'
<1> DEFINE e == Head(waiting)
<1>1. /\ Types /\ Queue /\ Story /\ PermitsAccount /\ HandlesMatch
      /\ waiting \in Seq(Entries) /\ handler \in [Requests -> HandlerStates]
  BY DEF EchoInv, Ledgers, Types
<1>2. /\ linked /\ waiting # <<>> /\ e \in Entries /\ e.kind = "Claim" /\ e.req = r
      /\ waiting' = Tail(waiting) /\ out' = Append(out, e)
      /\ handler' = [handler EXCEPT ![r] = "new"] /\ inflight' = inflight \cup {r}
      /\ main' \in {"drain", "acquire"}
      /\ UNCHANGED <<permits, reader, held, linked, fresh>>
  BY <1>1, SendsHead DEF SendClaim, readerVars, routerVars
<1> HIDE DEF e
<1>3. /\ StreamOK(held, out)' /\ NextFits' /\ Cut'
      /\ Waits(main, handler, reader, e) /\ Claiming(r) /\ ~Ended(r)
  BY <1>2, HeadGoesOut DEF e
<1>4. main = "claiming" /\ handler[r] = "none" /\ r \notin fresh /\ ~Started(r) /\ ~Reported(r)
  <2>1. StoryOf(r)
    BY <1>1 DEF Story
  <2>2. QED
    BY <1>2, <1>3, <2>1 DEF Waits, StoryOf
<1>5. handler'[r] = "new" /\ \A q \in Requests \ {r} : handler'[q] = handler[q]
  BY <1>1, <1>2
<1>6. Queue'
  <2>1. ASSUME NEW a \in Entries, ~SameSender(a, e), Waits(main, handler, reader, a)
        PROVE  Waits(main', handler', reader, a)
    <3>1. a.kind # "Claim" /\ a.req \in Requests
      BY <1>2, <2>1 DEF SameSender, Entries
    <3>2. a.kind \in HandlerKinds => handler'[a.req] = handler[a.req]
      BY <1>4, <1>5, <2>1, <3>1 DEF Waits, HandlerKinds
    <3>3. QED
      BY <2>1, <3>1, <3>2 DEF Waits, HandlerKinds
  <2>2. QueueOK(waiting, main, handler, reader)
    BY <1>1 DEF Queue
  <2>3. QueueOK(Tail(waiting), main', handler', reader)
    BY <1>1, <1>2, <2>1, <2>2, QueueShrinks DEF e
  <2>4. QED
    BY <1>2, <2>3 DEF Queue
<1>7. Story'
  <2>1. ASSUME NEW q \in Requests PROVE StoryOf(q)'
    <3>1. Started(q)' <=> Started(q) \/ q = r
      BY <1>1, <1>2, GoesOut
    <3>2. Ended(q)' <=> Ended(q)
      BY <1>1, <1>2, GoesOut DEF Endings, LastKinds
    <3>3. ~Claiming(q)' /\ (Reported(q)' <=> Reported(q))
      BY <1>1, <1>2, Leaves DEF e
    <3>4. StoryOf(q)
      BY <1>1 DEF Story
    <3>5. Active(q)' <=> Active(q) \/ q = r
      BY <1>4, <1>5 DEF Active
    <3>6. CASE q = r
      BY <1>2, <1>3, <1>4, <3>1, <3>2, <3>3, <3>5, <3>6 DEF StoryOf
    <3>7. CASE q # r
      BY <1>2, <1>5, <3>1, <3>2, <3>3, <3>4, <3>5, <3>7 DEF StoryOf
    <3>8. QED
      BY <3>6, <3>7
  <2>2. QED
    BY <2>1 DEF Story
<1>8. PermitsAccount'
  <2>1. Cardinality(Busy(handler)) \in Nat /\ Cardinality(Busy(handler')) = Cardinality(Busy(handler)) + 1
    BY <1>1, <1>2, <1>4, BusyChanges DEF HandlerStates
  <2>2. permits + Cardinality(Busy(handler)) + 1 = Granted /\ permits \in Nat
    BY <1>1, <1>4 DEF PermitsAccount, Busy, Types
  <2>3. permits' + Cardinality(Busy(handler')) + 0 = Granted
    BY <1>2, <2>1, <2>2
  <2>4. main' \notin {"recv", "claiming"}
    BY <1>2
  <2>5. QED
    BY <2>3, <2>4 DEF PermitsAccount, Busy
<1>9. HandlesMatch'
  BY <1>1, <1>2, <1>5 DEF HandlesMatch
<1>10. QED
  BY <1>3, <1>6, <1>7, <1>8, <1>9 DEF Ledgers

(* The 101 and the echo of a message: the session goes on.                 *)
LEMMA SendOnStep ==
  ASSUME EchoInv, NEW r \in Requests, SendAccept(r) \/ SendMessage(r)
  PROVE  Ledgers'
<1> DEFINE e == Head(waiting)
<1>1. /\ Types /\ Queue /\ Story /\ PermitsAccount /\ HandlesMatch
      /\ waiting \in Seq(Entries) /\ handler \in [Requests -> HandlerStates]
  BY DEF EchoInv, Ledgers, Types
<1>2. /\ linked /\ waiting # <<>> /\ e \in Entries /\ e.kind \in {"Accept", "Message"} /\ e.req = r
      /\ waiting' = Tail(waiting) /\ out' = Append(out, e)
      /\ handler' = [handler EXCEPT ![r] = "mirroring"]
      /\ UNCHANGED <<main, permits, inflight, reader, held, linked, fresh>>
  BY <1>1, SendsHead DEF SendAccept, SendMessage, mainVars, readerVars, routerVars
<1> HIDE DEF e
<1>3. /\ StreamOK(held, out)' /\ NextFits' /\ Cut'
      /\ Waits(main, handler, reader, e)
  BY <1>2, HeadGoesOut DEF e
<1>4. Active(r)
  BY <1>2, <1>3 DEF Waits, Active
<1>5. handler'[r] = "mirroring" /\ \A q \in Requests \ {r} : handler'[q] = handler[q]
  BY <1>1, <1>2
<1>6. PermitsAccount' /\ HandlesMatch' /\ \A q \in Requests : Active(q)' <=> Active(q)
  BY <1>1, <1>2, <1>4, StillActive DEF HandlerStates
<1>7. Queue'
  <2>1. ASSUME NEW a \in Entries, ~SameSender(a, e), Waits(main, handler, reader, a)
        PROVE  Waits(main, handler', reader, a)
    <3>1. a.req \in Requests /\ (a.kind \in HandlerKinds => a.req # r)
      BY <1>2, <2>1 DEF SameSender, Entries, HandlerKinds
    <3>2. a.kind \in HandlerKinds => handler'[a.req] = handler[a.req]
      BY <1>5, <3>1
    <3>3. QED
      BY <2>1, <3>2 DEF Waits, HandlerKinds
  <2>2. QueueOK(Tail(waiting), main, handler', reader)
    BY <1>1, <1>2, <2>1, QueueShrinks DEF e, Queue
  <2>3. QED
    BY <1>2, <2>2 DEF Queue
<1>8. Story'
  <2>1. ASSUME NEW q \in Requests PROVE StoryOf(q)'
    <3>1. (Started(q)' <=> Started(q)) /\ (Ended(q)' <=> Ended(q))
      BY <1>1, <1>2, GoesOut DEF Endings, LastKinds
    <3>2. (Claiming(q)' <=> Claiming(q)) /\ (Reported(q)' <=> Reported(q))
      BY <1>1, <1>2, Leaves DEF e
    <3>3. StoryOf(q)
      BY <1>1 DEF Story
    <3>4. handler'[q] = "none" <=> handler[q] = "none"
      BY <1>4, <1>5 DEF Active
    <3>5. QED
      BY <1>2, <1>6, <3>1, <3>2, <3>3, <3>4 DEF StoryOf
  <2>2. QED
    BY <2>1 DEF Story
<1>9. QED
  BY <1>3, <1>6, <1>7, <1>8 DEF Ledgers

(* The permit of a handler that is gone is back.                           *)
LEMMA PermitBack ==
  ASSUME Types, PermitsAccount, NEW r \in Requests, handler[r] # "none",
         handler' = [handler EXCEPT ![r] = "none"], permits' = permits + 1, UNCHANGED main
  PROVE  PermitsAccount'
<1>1. handler \in [Requests -> HandlerStates] /\ permits \in Nat /\ "none" \in HandlerStates
  BY DEF Types, HandlerStates
<1>2. Cardinality(Busy(handler)) \in Nat /\ Cardinality(Busy(handler')) = Cardinality(Busy(handler)) - 1
  BY <1>1, BusyChanges
<1>3. permits + Cardinality(Busy(handler)) + (IF main \in {"recv", "claiming"} THEN 1 ELSE 0) = Granted
  BY DEF PermitsAccount, Busy
<1>4. permits' + Cardinality(Busy(handler')) + (IF main' \in {"recv", "claiming"} THEN 1 ELSE 0) = Granted
  BY <1>1, <1>2, <1>3
<1>5. QED
  BY <1>4 DEF PermitsAccount, Busy

(* The last send of a handler ends its request and its task.               *)
LEMMA SendLastStep ==
  ASSUME EchoInv, NEW r \in Requests, SendLast(r)
  PROVE  Ledgers'
<1> DEFINE e == Head(waiting)
<1>1. /\ Types /\ Queue /\ Story /\ PermitsAccount /\ HandlesMatch
      /\ waiting \in Seq(Entries) /\ handler \in [Requests -> HandlerStates]
  BY DEF EchoInv, Ledgers, Types
<1>2. /\ linked /\ waiting # <<>> /\ e \in Entries /\ e.kind \in LastKinds /\ e.req = r
      /\ waiting' = Tail(waiting) /\ out' = Append(out, e)
      /\ handler' = [handler EXCEPT ![r] = "none"] /\ inflight' = inflight \ {r}
      /\ permits' = permits + 1
      /\ UNCHANGED <<main, reader, held, linked, fresh>>
  BY <1>1, SendsHead DEF SendLast, TaskEnds, readerVars, routerVars
<1> HIDE DEF e
<1>3. /\ StreamOK(held, out)' /\ NextFits' /\ Cut'
      /\ Waits(main, handler, reader, e)
  BY <1>2, HeadGoesOut DEF e
<1>4. handler[r] = "sending" /\ Active(r)
  BY <1>2, <1>3 DEF Waits, Active
<1>5. handler'[r] = "none" /\ \A q \in Requests \ {r} : handler'[q] = handler[q]
  BY <1>1, <1>2
<1>6. PermitsAccount' /\ HandlesMatch'
  <2>1. PermitsAccount'
    BY <1>1, <1>2, <1>4, PermitBack
  <2>2. HandlesMatch'
    BY <1>1, <1>2, <1>5 DEF HandlesMatch
  <2>3. QED
    BY <2>1, <2>2
<1>7. Queue'
  <2>1. ASSUME NEW a \in Entries, ~SameSender(a, e), Waits(main, handler, reader, a)
        PROVE  Waits(main, handler', reader, a)
    <3>1. a.req \in Requests /\ (a.kind \in HandlerKinds => a.req # r)
      BY <1>2, <2>1 DEF SameSender, Entries, HandlerKinds
    <3>2. a.kind \in HandlerKinds => handler'[a.req] = handler[a.req]
      BY <1>5, <3>1
    <3>3. QED
      BY <2>1, <3>2 DEF Waits, HandlerKinds
  <2>2. QueueOK(Tail(waiting), main, handler', reader)
    BY <1>1, <1>2, <2>1, QueueShrinks DEF e, Queue
  <2>3. QED
    BY <1>2, <2>2 DEF Queue
<1>8. Story'
  <2>1. ASSUME NEW q \in Requests PROVE StoryOf(q)'
    <3>1. (Started(q)' <=> Started(q)) /\ (Ended(q)' <=> Ended(q) \/ q = r)
      BY <1>1, <1>2, GoesOut DEF Endings, LastKinds
    <3>2. (Claiming(q)' <=> Claiming(q)) /\ (Reported(q)' <=> Reported(q))
      BY <1>1, <1>2, Leaves DEF e, LastKinds
    <3>3. StoryOf(q) /\ (q = r => Active(q))
      BY <1>1, <1>4 DEF Story
    <3>4. Active(q)' <=> Active(q) /\ q # r
      BY <1>5 DEF Active
    <3>5. handler[q] = "none" => handler'[q] = "none"
      BY <1>5
    <3>6. CASE q = r
      <4>1. ~Active(q)' /\ handler'[q] = "none" /\ Ended(q)' /\ ~Claiming(q)' /\ ~Reported(q)'
            /\ q \notin fresh'
        BY <1>2, <1>4, <1>5, <3>1, <3>2, <3>3, <3>4, <3>6 DEF StoryOf
      <4>2. QED
        BY <4>1 DEF StoryOf
    <3>7. CASE q # r
      BY <1>2, <3>1, <3>2, <3>3, <3>4, <3>5, <3>7 DEF StoryOf
    <3>8. QED
      BY <3>6, <3>7
  <2>2. QED
    BY <2>1 DEF Story
<1>9. QED
  BY <1>3, <1>6, <1>7, <1>8 DEF Ledgers

(* An aborted handler disappears; its Cancelled waits or is out already.   *)
LEMMA DropHandlerStep ==
  ASSUME EchoInv, NEW r \in Requests, DropHandler(r)
  PROVE  Ledgers'
<1>1. /\ Types /\ Queue /\ Story /\ PermitsAccount /\ HandlesMatch
      /\ waiting \in Seq(Entries) /\ handler \in [Requests -> HandlerStates]
  BY DEF EchoInv, Ledgers, Types
<1>2. /\ handler[r] = "aborting" /\ handler' = [handler EXCEPT ![r] = "none"]
      /\ permits' = permits + 1
      /\ UNCHANGED <<main, inflight, reader, waiting, out, held, linked, fresh>>
  BY DEF DropHandler, readerVars, outVars, routerVars
<1>3. handler'[r] = "none" /\ \A q \in Requests \ {r} : handler'[q] = handler[q]
  BY <1>1, <1>2
<1>4. StreamOK(held, out)' /\ NextFits' /\ Cut'
  BY <1>2 DEF EchoInv, Ledgers, NextFits, Cut
<1>5. PermitsAccount'
  BY <1>1, <1>2, PermitBack
<1>6. HandlesMatch'
  BY <1>1, <1>2, <1>3 DEF HandlesMatch
<1>7. Queue'
  <2>1. ASSUME NEW i \in 1 .. Len(waiting) PROVE Waits(main, handler', reader, waiting[i])
    <3>1. waiting[i] \in Entries
      BY <1>1, ElementOfSeq
    <3>2. waiting[i].req \in Requests /\ Waits(main, handler, reader, waiting[i])
      BY <1>1, <3>1 DEF Queue, QueueOK, Entries
    <3>3. QED
      BY <1>2, <1>3, <3>2 DEF Waits
  <2>2. QED
    BY <1>1, <1>2, <2>1 DEF Queue, QueueOK
<1>8. Story'
  <2>1. ASSUME NEW q \in Requests PROVE StoryOf(q)'
    <3>1. /\ Started(q)' = Started(q) /\ Ended(q)' = Ended(q)
          /\ Claiming(q)' = Claiming(q) /\ Reported(q)' = Reported(q)
      BY <1>2 DEF Started, Ended, Claiming, Reported
    <3>2. StoryOf(q)
      BY <1>1 DEF Story
    <3>3. (Active(q)' <=> Active(q)) /\ (handler[q] = "none" => handler'[q] = "none")
      BY <1>2, <1>3 DEF Active
    <3>4. QED
      BY <1>2, <3>1, <3>2, <3>3 DEF StoryOf
  <2>2. QED
    BY <2>1 DEF Story
<1>9. QED
  BY <1>4, <1>5, <1>6, <1>7, <1>8 DEF Ledgers

(* The reader's Pong or Cancelled goes out.                                *)
LEMMA SendFromReaderStep ==
  ASSUME EchoInv, NEW r \in Requests, SendFromReader(r)
  PROVE  Ledgers'
<1> DEFINE e == Head(waiting)
<1>1. /\ Types /\ Queue /\ Story /\ PermitsAccount /\ HandlesMatch
      /\ waiting \in Seq(Entries) /\ handler \in [Requests -> HandlerStates]
  BY DEF EchoInv, Ledgers, Types
<1>2. /\ linked /\ waiting # <<>> /\ e \in Entries /\ e.kind \in ReaderKinds /\ e.req = r
      /\ waiting' = Tail(waiting) /\ out' = Append(out, e) /\ reader' = "reading"
      /\ UNCHANGED <<main, permits, handler, inflight, held, linked, fresh>>
  BY <1>1, SendsHead DEF SendFromReader, mainVars, handlerVars, routerVars
<1> HIDE DEF e
<1>3. /\ StreamOK(held, out)' /\ NextFits' /\ Cut'
      /\ e.kind = "Cancelled" => Reported(r)
  BY <1>2, HeadGoesOut DEF e
<1>4. PermitsAccount' /\ HandlesMatch'
  BY <1>1, <1>2 DEF PermitsAccount, HandlesMatch
<1>5. Queue'
  <2>1. ASSUME NEW a \in Entries, ~SameSender(a, e), Waits(main, handler, reader, a)
        PROVE  Waits(main, handler, reader', a)
    BY <1>2, <2>1 DEF SameSender, Waits
  <2>2. QueueOK(Tail(waiting), main, handler, reader')
    BY <1>1, <1>2, <2>1, QueueShrinks DEF e, Queue
  <2>3. QED
    BY <1>2, <2>2 DEF Queue
<1>6. Story'
  <2>1. ASSUME NEW q \in Requests PROVE StoryOf(q)'
    <3>1. /\ Started(q)' <=> Started(q)
          /\ Ended(q)' <=> Ended(q) \/ (e.kind = "Cancelled" /\ q = r)
      BY <1>1, <1>2, GoesOut DEF Endings, LastKinds, ReaderKinds
    <3>2. /\ Claiming(q)' <=> Claiming(q)
          /\ Reported(q) <=> Reported(q)' \/ (e.kind = "Cancelled" /\ q = r)
          /\ e.kind = "Cancelled" => ~Reported(q)'
      BY <1>1, <1>2, Leaves DEF e, ReaderKinds
    <3>3. StoryOf(q) /\ (Active(q)' <=> Active(q))
      BY <1>1, <1>2 DEF Story, Active
    <3>4. CASE e.kind = "Cancelled" /\ q = r
      BY <1>2, <3>1, <3>2, <3>3, <3>4 DEF StoryOf
    <3>5. CASE ~(e.kind = "Cancelled" /\ q = r)
      BY <1>2, <3>1, <3>2, <3>3, <3>5 DEF StoryOf
    <3>6. QED
      BY <3>4, <3>5
  <2>2. QED
    BY <2>1 DEF Story
<1>7. QED
  BY <1>3, <1>4, <1>5, <1>6 DEF Ledgers

(* A Ping: the reader turns to the writer.                                 *)
LEMMA AnswerPingStep ==
  ASSUME EchoInv, AnswerPing
  PROVE  Ledgers'
<1> DEFINE r == Head(down).req
           e == [kind |-> "Pong", req |-> r]
<1>1. /\ Types /\ Queue /\ Story /\ PermitsAccount /\ HandlesMatch /\ Types
  BY DEF EchoInv, Ledgers
<1>2. r \in Requests
  BY <1>1, TakesDown DEF AnswerPing
<1>3. e \in Entries /\ waiting \in Seq(Entries) /\ waiting' = Append(waiting, e)
  BY <1>1, <1>2, AwaitEnters DEF AnswerPing, ReaderKinds
<1>4. e.kind = "Pong"
  OBVIOUS
<1>5. /\ reader = "reading" /\ reader' = "sending"
      /\ UNCHANGED <<main, permits, handler, inflight, out, held, linked, fresh>>
  BY DEF AnswerPing, TakeDown, mainVars, handlerVars
<1> HIDE DEF e
<1>6. Queue'
  <2>1. Waits(main, handler, reader', e)
    BY <1>4, <1>5 DEF Waits, LastKinds
  <2>2. QueueOK(waiting', main, handler, reader')
    BY <1>1, <1>3, <1>4, <1>5, <2>1, QueueGrows DEF HandlerKinds, LastKinds, Queue
  <2>3. QED
    BY <1>5, <2>2 DEF Queue
<1>7. Story'
  <2>1. ASSUME NEW q \in Requests PROVE StoryOf(q)'
    <3>1. Started(q)' = Started(q) /\ Ended(q)' = Ended(q) /\ Active(q)' = Active(q)
      BY <1>5 DEF Started, Ended, Active
    <3>2. (Claiming(q)' <=> Claiming(q)) /\ (Reported(q)' <=> Reported(q))
      BY <1>3, <1>4, Enters DEF Claiming, Reported
    <3>3. StoryOf(q)
      BY <1>1 DEF Story
    <3>4. QED
      BY <1>5, <3>1, <3>2, <3>3 DEF StoryOf
  <2>2. QED
    BY <2>1 DEF Story
<1>8. NextFits'
  <2>1. Fits(held, out, waiting) => Fits(held, out, waiting')
    BY <1>3, <1>4, FitsGrows
  <2>2. QED
    BY <1>5, <2>1 DEF EchoInv, Ledgers, NextFits
<1>9. PermitsAccount' /\ Cut' /\ StreamOK(held, out)' /\ HandlesMatch'
  BY <1>5 DEF EchoInv, Ledgers, PermitsAccount, Cut, HandlesMatch
<1>10. QED
  BY <1>6, <1>7, <1>8, <1>9 DEF Ledgers

(* An Abort: the handler leaves the queue and its Cancelled enters at the  *)
(* end. A Claim that waits before it has not counted on it.                *)
LEMMA ObeyAbortStep ==
  ASSUME EchoInv, ObeyAbort
  PROVE  Ledgers'
<1> DEFINE r == Head(down).req
           e == [kind |-> "Cancelled", req |-> r]
           w == Without(waiting, r)
<1>1. /\ Types /\ Queue /\ Story /\ PermitsAccount /\ HandlesMatch /\ Sole(waiting)
      /\ waiting \in Seq(Entries) /\ handler \in [Requests -> HandlerStates]
  BY DEF EchoInv, Ledgers, Types, Queue, QueueOK
<1>2. r \in Requests
  BY <1>1, TakesDown DEF ObeyAbort
<1>3. /\ reader = "reading"
      /\ UNCHANGED <<main, permits, out, held, linked, fresh>>
  BY DEF ObeyAbort, TakeDown, mainVars
<1>4. CASE r \notin inflight
  <2>1. UNCHANGED <<inflight, handler, waiting, reader>>
    BY <1>4 DEF ObeyAbort
  <2>2. PermitsAccount'
    BY <1>1, <1>3, <2>1 DEF PermitsAccount
  <2>3. QED
    BY <1>3, <2>1, <2>2, Quiet
<1>5. CASE r \in inflight
  <2>1. /\ inflight' = inflight \ {r} /\ handler' = [handler EXCEPT ![r] = "aborting"]
        /\ waiting' = Append(w, e) /\ reader' = "sending"
    BY <1>5 DEF ObeyAbort
  <2>2. e \in Entries /\ e.kind = "Cancelled" /\ e.req = r
    BY <1>2 DEF Entries, ReaderKinds
  <2> HIDE DEF r, e
  <2>3. handler'[r] = "aborting" /\ \A q \in Requests \ {r} : handler'[q] = handler[q]
    BY <1>1, <1>2, <2>1
  <2>4. Active(r)
    BY <1>1, <1>2, <1>5 DEF HandlesMatch, Active
  <2>5. /\ w \in Seq(Entries)
        /\ \A q : (ClaimIn(w, q, Len(w)) <=> Claiming(q)) /\ (CancelIn(w, q, Len(w)) <=> Reported(q))
    <3> DEFINE K == {"Claim"}
               L == {"Cancelled"}
    <3>1. K \cap HandlerKinds = {} /\ L \cap HandlerKinds = {}
      BY DEF HandlerKinds, LastKinds
    <3> HIDE DEF K, L
    <3>2. /\ w \in Seq(Entries)
          /\ \A J, q : J \cap HandlerKinds = {} =>
               (InFirst(w, J, q, Len(w)) <=> InFirst(waiting, J, q, Len(waiting)))
      BY <1>1, <1>2, WithoutEntries
    <3> HIDE DEF w
    <3>3. \A q : /\ InFirst(w, K, q, Len(w)) <=> InFirst(waiting, K, q, Len(waiting))
                 /\ InFirst(w, L, q, Len(w)) <=> InFirst(waiting, L, q, Len(waiting))
      BY <3>1, <3>2
    <3>4. QED
      BY <3>2, <3>3 DEF ClaimIn, CancelIn, Claiming, Reported, K, L
  <2>6. QueueOK(w, main, handler', reader) /\ (Fits(held, out, waiting) => Fits(held, out, w))
    BY <1>1, <1>2, <2>3, QueueThins DEF Queue
  <2> HIDE DEF w
  <2>7. Queue'
    <3>1. Waits(main, handler', reader', e)
      BY <2>1, <2>2 DEF Waits, LastKinds
    <3>2. QueueOK(waiting', main, handler', reader')
      BY <1>3, <2>1, <2>2, <2>5, <2>6, <3>1, QueueGrows DEF HandlerKinds, LastKinds
    <3>3. QED
      BY <1>3, <3>2 DEF Queue
  <2>8. Story'
    <3>1. ASSUME NEW q \in Requests PROVE StoryOf(q)'
      <4>1. Started(q)' = Started(q) /\ Ended(q)' = Ended(q)
        BY <1>3 DEF Started, Ended
      <4>2. (Claiming(q)' <=> Claiming(q)) /\ (Reported(q)' <=> Reported(q) \/ q = r)
        BY <2>1, <2>2, <2>5, Enters
      <4>3. StoryOf(q)
        BY <1>1 DEF Story
      <4>4. (Active(q)' <=> Active(q) /\ q # r) /\ (handler[q] = "none" => handler'[q] = "none")
        BY <2>3, <2>4 DEF Active
      <4>5. CASE q = r
        BY <1>3, <2>4, <4>1, <4>2, <4>3, <4>4, <4>5 DEF StoryOf, Active
      <4>6. CASE q # r
        BY <1>3, <4>1, <4>2, <4>3, <4>4, <4>6 DEF StoryOf
      <4>7. QED
        BY <4>5, <4>6
    <3>2. QED
      BY <3>1 DEF Story
  <2>9. NextFits'
    <3>1. Fits(held, out, w) => Fits(held, out, waiting')
      BY <2>1, <2>2, <2>5, FitsGrows
    <3>2. QED
      BY <1>3, <2>6, <3>1 DEF EchoInv, Ledgers, NextFits
  <2>10. PermitsAccount'
    <3>1. (handler[r] = "none") = ("aborting" = "none")
      BY <2>4 DEF Active
    <3>2. Busy(handler') = Busy(handler)
      BY <1>1, <1>2, <2>1, <3>1, BusyChanges DEF HandlerStates
    <3>3. QED
      BY <1>1, <1>3, <3>2 DEF PermitsAccount, Busy
  <2>11. HandlesMatch'
    BY <1>1, <2>1, <2>3 DEF HandlesMatch
  <2>12. Cut' /\ StreamOK(held, out)'
    BY <1>3 DEF EchoInv, Ledgers, Cut
  <2>13. QED
    BY <2>7, <2>8, <2>9, <2>10, <2>11, <2>12 DEF Ledgers
<1>6. QED
  BY <1>4, <1>5

(* The router reads: its set moves along with the stream.                  *)
LEMMA RouterReadsStep ==
  ASSUME EchoInv, RouterReads
  PROVE  Ledgers'
<1> DEFINE e == Head(out)
<1>1. /\ Types /\ Queue /\ Story /\ PermitsAccount /\ HandlesMatch /\ StreamOK(held, out)
      /\ out \in Seq(Entries) /\ out # <<>>
  BY DEF EchoInv, Ledgers, Types, RouterReads
<1>2. /\ out' = Tail(out) /\ held' = HeldNext(held, e)
      /\ UNCHANGED <<main, permits, handler, inflight, reader, waiting, linked, fresh>>
  BY DEF RouterReads, HeldNext, mainVars, handlerVars, readerVars
<1>3. linked
  BY <1>1 DEF EchoInv, Ledgers, Cut
<1>4. /\ StreamOK(held', out')
      /\ \A n \in 0 .. Len(out') : HeldAt(held', out', n) = HeldAt(held, out, n + 1)
      /\ \A q : Started(q)' => Started(q) /\ ~(e.kind \in Endings /\ e.req = q)
      /\ \A q : Started(q) => Started(q)' \/ Ended(q)
  BY <1>1, <1>2, StreamReads DEF Started, Ended
<1>5. Len(out') \in 0 .. Len(out') /\ Len(out') + 1 = Len(out)
  <2>1. Len(Tail(out)) = Len(out) - 1 /\ Len(Tail(out)) \in Nat
    BY <1>1, TailFirst
  <2>2. QED
    BY <1>1, <1>2, <2>1
<1>6. \A q : Ended(q) <=> Ended(q)' \/ (e.kind \in Endings /\ e.req = q)
  BY <1>1, <1>2, TailFirst DEF Ended, EndIn
<1> HIDE DEF e
<1>7. Story'
  <2>1. ASSUME NEW q \in Requests PROVE StoryOf(q)'
    <3>1. (Claiming(q)' <=> Claiming(q)) /\ (Reported(q)' <=> Reported(q)) /\ (Active(q)' <=> Active(q))
      BY <1>2 DEF Claiming, Reported, Active
    <3>2. StoryOf(q)
      BY <1>1 DEF Story
    <3>3. /\ Started(q)' => Started(q) /\ (Ended(q) => Ended(q)')
          /\ Started(q) => Started(q)' \/ Ended(q)
          /\ Ended(q)' => Ended(q)
      BY <1>4, <1>6
    <3>4. QED
      BY <1>2, <3>1, <3>2, <3>3 DEF StoryOf
  <2>2. QED
    BY <2>1 DEF Story
<1>8. NextFits'
  <2>1. HeldAt(held', out', Len(out')) = HeldAt(held, out, Len(out))
    BY <1>4, <1>5
  <2>2. Fits(held, out, waiting)
    BY <1>3 DEF EchoInv, Ledgers, NextFits
  <2>3. Fits(held', out', waiting)
    BY <2>1, <2>2 DEF Fits, Owing
  <2>4. QED
    BY <1>2, <2>3 DEF NextFits
<1>9. Cut'
  BY <1>2, <1>3 DEF Cut
<1>10. Queue' /\ PermitsAccount' /\ HandlesMatch'
  BY <1>1, <1>2 DEF Queue, PermitsAccount, HandlesMatch
<1>11. QED
  BY <1>4, <1>7, <1>8, <1>9, <1>10 DEF Ledgers

(* The stream is cut: nothing is held, and nothing is on its way.          *)
LEMMA NothingSent ==
  /\ StreamOK({}, <<>>)
  /\ \A q, n : ~ClaimIn(<<>>, q, Len(<<>>)) /\ ~EndIn(<<>>, q, Len(<<>>)) /\ ~CancelIn(<<>>, q, Len(<<>>))
<1>1. Len(<<>>) = 0 /\ 1 .. 0 = {}
  OBVIOUS
<1>2. QED
  BY <1>1 DEF StreamOK, ClaimIn, EndIn, CancelIn, InFirst

(* The router closes the stream; what was on it is lost with its set.      *)
LEMMA RouterClosesStep ==
  ASSUME EchoInv, RouterCloses
  PROVE  Ledgers'
<1>1. Queue /\ Story /\ PermitsAccount /\ HandlesMatch
  BY DEF EchoInv, Ledgers
<1>2. /\ ~linked' /\ out' = <<>> /\ held' = {}
      /\ UNCHANGED <<main, permits, handler, inflight, reader, waiting, fresh>>
  BY DEF RouterCloses, mainVars, handlerVars, readerVars
<1>3. \A q : ~Started(q)' /\ ~Ended(q)'
  BY <1>2, NothingSent DEF Started, Ended
<1>4. Story'
  <2>1. ASSUME NEW q \in Requests PROVE StoryOf(q)'
    <3>1. (Claiming(q)' <=> Claiming(q)) /\ (Reported(q)' <=> Reported(q)) /\ (Active(q)' <=> Active(q))
      BY <1>2 DEF Claiming, Reported, Active
    <3>2. StoryOf(q)
      BY <1>1 DEF Story
    <3>3. QED
      BY <1>2, <1>3, <3>1, <3>2 DEF StoryOf
  <2>2. QED
    BY <2>1 DEF Story
<1>5. StreamOK(held, out)' /\ Cut' /\ NextFits'
  BY <1>2, NothingSent DEF Cut, NextFits
<1>6. Queue' /\ PermitsAccount' /\ HandlesMatch'
  BY <1>1, <1>2 DEF Queue, PermitsAccount, HandlesMatch
<1>7. QED
  BY <1>4, <1>5, <1>6 DEF Ledgers

(* The writer is gone: the one whose send fails gives its permit back.     *)
LEMMA SendFailsStep ==
  ASSUME EchoInv, SendFails
  PROVE  Ledgers'
<1> DEFINE e == Head(waiting)
           r == e.req
<1>1. /\ Types /\ Queue /\ Story /\ PermitsAccount /\ HandlesMatch
      /\ waiting \in Seq(Entries) /\ handler \in [Requests -> HandlerStates] /\ permits \in Nat
  BY DEF EchoInv, Ledgers, Types
<1>2. /\ ~linked /\ waiting # <<>> /\ waiting' = Tail(waiting)
      /\ UNCHANGED <<out, held, linked, fresh>>
  BY DEF SendFails, routerVars
<1>3. /\ e \in Entries /\ r \in Requests /\ Waits(main, handler, reader, e)
      /\ \A q : /\ Claiming(q) <=> Claiming(q)' \/ (e.kind = "Claim" /\ e.req = q)
                /\ Reported(q) <=> Reported(q)' \/ (e.kind = "Cancelled" /\ e.req = q)
  BY <1>1, <1>2, Leaves DEF Entries
<1>4. \A q : ~Started(q) /\ ~Started(q)' /\ ~Ended(q) /\ ~Ended(q)'
  <2>1. out = <<>> /\ held = {}
    BY <1>2 DEF EchoInv, Ledgers, Cut
  <2>2. QED
    BY <1>2, <2>1, NothingSent DEF Started, Ended
<1>5. StreamOK(held, out)' /\ Cut' /\ NextFits'
  BY <1>2 DEF EchoInv, Ledgers, Cut, NextFits
<1>6. ASSUME NEW m, NEW h, NEW d, main' = m, handler' = h, reader' = d,
             \A a \in Entries : ~SameSender(a, e) /\ Waits(main, handler, reader, a) => Waits(m, h, d, a)
      PROVE  Queue'
  <2>1. QueueOK(Tail(waiting), m, h, d)
    BY <1>1, <1>2, <1>6, QueueShrinks DEF Queue
  <2>2. QED
    BY <1>2, <1>6, <2>1 DEF Queue
<1>7. ASSUME \A q \in Requests : /\ Active(q)' => Active(q)
                                 /\ handler[q] = "none" => handler'[q] = "none"
      PROVE  Story'
  <2>1. ASSUME NEW q \in Requests PROVE StoryOf(q)'
    <3>1. StoryOf(q)
      BY <1>1 DEF Story
    <3>2. /\ Active(q)' => Active(q)
          /\ handler[q] = "none" => handler'[q] = "none"
          /\ Claiming(q)' => Claiming(q)
          /\ Reported(q)' => Reported(q)
      BY <1>3, <1>7
    <3>3. QED
      BY <1>2, <1>4, <3>1, <3>2 DEF StoryOf
  <2>2. QED
    BY <2>1 DEF Story
<1>8. CASE e.kind = "Claim"
  <2>1. main = "claiming" /\ main' = "drain" /\ permits' = permits + 1
        /\ UNCHANGED <<handler, inflight, reader>>
    BY <1>3, <1>8 DEF SendFails, Waits, HandlerKinds, LastKinds, ReaderKinds
  <2>2. Queue'
    <3>1. \A a : ~SameSender(a, e) /\ Waits(main, handler, reader, a) => Waits(main', handler, reader, a)
      BY <1>8 DEF SameSender, Waits
    <3>2. QED
      BY <1>6, <2>1, <3>1
  <2>3. Story'
    BY <1>7, <2>1 DEF Active
  <2>4. PermitsAccount'
    <3>1. permits + Cardinality(Busy(handler)) + 1 = Granted
      BY <1>1, <2>1 DEF PermitsAccount, Busy
    <3>2. Cardinality(Busy(handler)) \in Nat
      <4>1. Busy(handler) \subseteq Requests
        BY DEF Busy
      <4>2. QED
        BY <4>1, Rooms, FS_Subset, FS_CardinalityType
    <3>3. permits' + Cardinality(Busy(handler)) + 0 = Granted
      BY <1>1, <2>1, <3>1, <3>2
    <3>4. QED
      BY <2>1, <3>3 DEF PermitsAccount, Busy
  <2>5. HandlesMatch'
    BY <1>1, <2>1 DEF HandlesMatch
  <2>6. QED
    BY <1>5, <2>2, <2>3, <2>4, <2>5 DEF Ledgers
<1>9. CASE e.kind \in HandlerKinds
  <2>1. /\ handler' = [handler EXCEPT ![r] = "none"] /\ inflight' = inflight \ {r}
        /\ permits' = permits + 1 /\ UNCHANGED <<main, reader>>
    BY <1>9 DEF SendFails, TaskEnds, HandlerKinds, LastKinds, ReaderKinds
  <2>2. handler[r] \in AtSend
    BY <1>3, <1>9 DEF Waits, HandlerKinds, AtSend, LastKinds
  <2>3. handler'[r] = "none" /\ \A q \in Requests \ {r} : handler'[q] = handler[q]
    BY <1>1, <1>3, <2>1
  <2>4. Queue'
    <3>1. ASSUME NEW a \in Entries, ~SameSender(a, e), Waits(main, handler, reader, a)
          PROVE  Waits(main, handler', reader, a)
      <4>1. a.req \in Requests /\ (a.kind \in HandlerKinds => a.req # r)
        BY <1>9, <3>1 DEF SameSender, Entries
      <4>2. a.kind \in HandlerKinds => handler'[a.req] = handler[a.req]
        BY <2>3, <4>1
      <4>3. QED
        BY <3>1, <4>2 DEF Waits, HandlerKinds
    <3>2. QED
      BY <1>6, <2>1, <3>1
  <2>5. Story'
    BY <1>7, <2>3 DEF Active
  <2>6. PermitsAccount'
    <3>1. handler[r] # "none"
      BY <2>2 DEF AtSend
    <3>2. QED
      BY <1>1, <1>3, <2>1, <3>1, PermitBack
  <2>7. HandlesMatch'
    BY <1>1, <2>1, <2>3 DEF HandlesMatch
  <2>8. QED
    BY <1>5, <2>4, <2>5, <2>6, <2>7 DEF Ledgers
<1>10. CASE e.kind \in ReaderKinds
  <2>1. reader' = "reading" /\ UNCHANGED <<main, permits, handler, inflight>>
    BY <1>10 DEF SendFails, HandlerKinds, LastKinds, ReaderKinds
  <2>2. Queue'
    <3>1. \A a : ~SameSender(a, e) /\ Waits(main, handler, reader, a) => Waits(main, handler, reader', a)
      BY <1>10 DEF SameSender, Waits
    <3>2. QED
      BY <1>6, <2>1, <3>1
  <2>3. Story'
    BY <1>7, <2>1 DEF Active
  <2>4. PermitsAccount' /\ HandlesMatch'
    BY <1>1, <2>1 DEF PermitsAccount, HandlesMatch
  <2>5. QED
    BY <1>5, <2>2, <2>3, <2>4 DEF Ledgers
<1>11. QED
  BY <1>8, <1>9, <1>10 DEF SendFails

-----------------------------------------------------------------------------
(* Every step keeps the counts.                                            *)

\* The parts of Counts.
Taken == served + (IF main = "claiming" THEN 1 ELSE 0) <= Cardinality(Requests \ fresh)
Pieces ==
  \A q \in Requests : /\ handler[q] = "reading" => got[q] < Chunks
                      /\ handler[q] = "new" \/ q \in fresh \/ Claiming(q) => got[q] = 0
Held == hold # None => hold.kind \in Inbound

(* Of the steps of the queue only the main loop's adds a Claim.            *)
LEMMA NoNewClaim ==
  ASSUME Types, Queue, NEW q,
         \/ UNCHANGED waiting
         \/ waiting # <<>> /\ waiting' = Tail(waiting)
         \/ \E kind \in HandlerKinds \cup ReaderKinds, r \in Requests : Await(kind, r)
         \/ \E r \in Requests :
              waiting' = Append(Without(waiting, r), [kind |-> "Cancelled", req |-> r])
  PROVE  Claiming(q)' => Claiming(q)
<1>1. CASE UNCHANGED waiting
  BY <1>1 DEF Claiming
<1>2. CASE waiting # <<>> /\ waiting' = Tail(waiting)
  BY <1>2, Leaves
<1>3. ASSUME NEW kind \in HandlerKinds \cup ReaderKinds, NEW r \in Requests, Await(kind, r)
      PROVE  Claiming(q)' => Claiming(q)
  <2> DEFINE e == [kind |-> kind, req |-> r]
  <2>1. e \in Entries /\ waiting \in Seq(Entries) /\ waiting' = Append(waiting, e)
    BY <1>3, AwaitEnters
  <2>2. e.kind # "Claim"
    BY DEF HandlerKinds, LastKinds, ReaderKinds
  <2> HIDE DEF e
  <2>3. QED
    BY <2>1, <2>2, Enters DEF Claiming
<1>4. ASSUME NEW r \in Requests,
             waiting' = Append(Without(waiting, r), [kind |-> "Cancelled", req |-> r])
      PROVE  Claiming(q)' => Claiming(q)
  <2> DEFINE e == [kind |-> "Cancelled", req |-> r]
             w == Without(waiting, r)
             K == {"Claim"}
  <2>1. e \in Entries /\ e.kind # "Claim" /\ waiting' = Append(w, e)
    BY <1>4 DEF Entries, ReaderKinds
  <2>2. K \cap HandlerKinds = {}
    BY DEF HandlerKinds, LastKinds
  <2> HIDE DEF e, K
  <2>3. w \in Seq(Entries) /\ (InFirst(w, K, q, Len(w)) <=> InFirst(waiting, K, q, Len(waiting)))
    BY <2>2, WithoutEntries DEF Types, Queue, QueueOK
  <2> HIDE DEF w
  <2>4. QED
    BY <2>1, <2>3, Enters DEF Claiming, ClaimIn, K
<1>5. QED
  BY <1>1, <1>2, <1>3, <1>4

(* Each request taken off the work socket is served or about to be.        *)
LEMMA TakenStep == EchoInv /\ [Next]_vars => Taken'
<1> SUFFICES ASSUME EchoInv, [Next]_vars PROVE Taken'
  OBVIOUS
<1>1. /\ Taken /\ Types /\ Queue /\ served \in Nat /\ fresh \subseteq Requests /\ fresh \in SUBSET Requests
  BY DEF EchoInv, Counts, Taken, Types, Ledgers
<1>2. \A S \in SUBSET Requests : IsFiniteSet(Requests \ S) /\ Cardinality(Requests \ S) \in Nat
  <2>1. \A S \in SUBSET Requests : Requests \ S \subseteq Requests
    OBVIOUS
  <2>2. QED
    BY <2>1, Rooms, FS_Subset, FS_CardinalityType
<1>3. ASSUME NEW r \in fresh, fresh' = fresh \ {r}
      PROVE  Cardinality(Requests \ fresh') = Cardinality(Requests \ fresh) + 1
  <2>1. Requests \ fresh' = (Requests \ fresh) \cup {r} /\ r \notin Requests \ fresh
    BY <1>1, <1>3
  <2>2. QED
    BY <1>1, <1>2, <2>1, FS_AddElement
<1>4. ASSUME UNCHANGED <<served, fresh>>, main' = "claiming" => main = "claiming" PROVE Taken'
  BY <1>1, <1>2, <1>4 DEF Taken
<1>5. ASSUME NEW r \in Requests, Recv(r) PROVE Taken'
  <2>1. main = "recv" /\ main' = "claiming" /\ served' = served /\ r \in fresh /\ fresh' = fresh \ {r}
    BY <1>5 DEF Recv
  <2>2. Cardinality(Requests \ fresh') = Cardinality(Requests \ fresh) + 1
    BY <1>3, <2>1
  <2>3. served <= Cardinality(Requests \ fresh)
    BY <1>1, <1>2, <2>1 DEF Taken
  <2>4. served + 1 <= Cardinality(Requests \ fresh) + 1
    BY <1>1, <1>2, <2>3
  <2>5. QED
    BY <2>1, <2>2, <2>4 DEF Taken
<1>6. ASSUME NEW r \in Requests, DropDatagram(r) PROVE Taken'
  BY <1>1, <1>2, <1>3, <1>6 DEF DropDatagram, Taken
<1>7. ASSUME NEW r \in Requests, SendClaim(r) PROVE Taken'
  <2>1. Head(waiting).kind = "Claim" /\ waiting # <<>> /\ waiting' = Tail(waiting)
    BY <1>1, <1>7, SendsHead DEF SendClaim
  <2>2. main = "claiming"
    BY <1>1, <2>1, Leaves DEF Waits
  <2>3. served' = served + 1 /\ fresh' = fresh /\ main' # "claiming"
    BY <1>7 DEF SendClaim, routerVars
  <2>4. QED
    BY <1>1, <1>2, <2>2, <2>3 DEF Taken
<1>8. ASSUME MainNext PROVE Taken'
  <2>1. CASE Acquire \/ TakeRetire \/ Drain \/ Flushed
    BY <1>4, <2>1 DEF Acquire, TakeRetire, Drain, Flushed, routerVars
  <2>2. QED
    BY <1>5, <1>6, <1>7, <1>8, <2>1 DEF MainNext
<1>9. ASSUME NEW r \in Requests, HandlerNext(r) PROVE Taken'
  <2>1. UNCHANGED <<main, served, fresh>>
    BY <1>9 DEF HandlerNext, Begin, TakeChunk, SendAccept, TakeMessage, SendMessage, SendLast,
                DropHandler, mainVars, routerVars
  <2>2. QED
    BY <1>4, <2>1
<1>10. ASSUME ReaderNext PROVE Taken'
  <2>1. UNCHANGED <<main, served, fresh>>
    BY <1>10 DEF ReaderNext, Route, Unhold, AnswerPing, ObeyAbort, ReaderEnds, SendFromReader,
                 TakeDown, mainVars, routerVars
  <2>2. QED
    BY <1>4, <2>1
<1>11. ASSUME RouterNext PROVE Taken'
  <2>1. UNCHANGED <<main, served, fresh>>
    BY <1>11 DEF RouterNext, RouterReads, RouterCloses, RouterDrops, Upload, Message, Control, Write, mainVars
  <2>2. QED
    BY <1>4, <2>1
<1>12. ASSUME SendFails PROVE Taken'
  <2>1. UNCHANGED <<served, fresh>> /\ main' \in {main, "drain"}
    BY <1>12 DEF SendFails, TaskEnds, routerVars
  <2>2. QED
    BY <1>4, <2>1
<1>13. CASE UNCHANGED vars
  BY <1>4, <1>13 DEF vars, mainVars, routerVars
<1>14. QED
  BY <1>8, <1>9, <1>10, <1>11, <1>12, <1>13 DEF Next

(* A handler that reads has a piece to come.                               *)
LEMMA PiecesStep == EchoInv /\ [Next]_vars => Pieces'
<1> SUFFICES ASSUME EchoInv, [Next]_vars PROVE Pieces'
  OBVIOUS
<1>1. /\ Pieces /\ Types /\ Queue /\ Story
      /\ handler \in [Requests -> HandlerStates] /\ got \in [Requests -> 0 .. Chunks]
  BY DEF EchoInv, Counts, Pieces, Types, Ledgers
<1>2. \A q \in Requests : Claiming(q) \/ q \in fresh => handler[q] = "none"
  BY <1>1 DEF Story, StoryOf
<1>3. ASSUME got' = got, fresh' \subseteq fresh,
             \A q \in Requests : Claiming(q)' => Claiming(q) \/ q \in fresh,
             \A q \in Requests : /\ handler'[q] = "reading" => handler[q] \in {"reading", "new"}
                                 /\ handler'[q] = "new" => handler[q] = "new" \/ Claiming(q)
      PROVE  Pieces'
  <2>1. ASSUME NEW q \in Requests
        PROVE  /\ handler'[q] = "reading" => got'[q] < Chunks
               /\ handler'[q] = "new" \/ q \in fresh' \/ Claiming(q)' => got'[q] = 0
    <3>1. /\ handler[q] = "reading" => got[q] < Chunks
          /\ handler[q] = "new" \/ q \in fresh \/ Claiming(q) => got[q] = 0
      BY <1>1 DEF Pieces
    <3>2. 0 < Chunks
      BY Rooms
    <3>3. handler'[q] = "reading" => got[q] < Chunks
      BY <1>3, <3>1, <3>2
    <3>4. handler'[q] = "new" \/ q \in fresh' \/ Claiming(q)' => got[q] = 0
      BY <1>3, <3>1
    <3>5. QED
      BY <1>3, <3>3, <3>4
  <2>2. QED
    BY <2>1 DEF Pieces
<1> DEFINE Others ==
      \/ UNCHANGED waiting
      \/ waiting # <<>> /\ waiting' = Tail(waiting)
      \/ \E kind \in HandlerKinds \cup ReaderKinds, r \in Requests : Await(kind, r)
      \/ \E r \in Requests :
           waiting' = Append(Without(waiting, r), [kind |-> "Cancelled", req |-> r])
<1>4. ASSUME Others PROVE \A q \in Requests : Claiming(q)' => Claiming(q)
  BY <1>1, <1>4, NoNewClaim
<1>5. ASSUME MainNext PROVE Pieces'
  <2>1. CASE Acquire \/ TakeRetire \/ Drain \/ Flushed \/ \E r \in Requests : DropDatagram(r)
    <3>1. UNCHANGED <<got, handler, waiting>> /\ fresh' \subseteq fresh
      BY <2>1 DEF Acquire, TakeRetire, Drain, Flushed, DropDatagram, handlerVars, outVars, routerVars
    <3>2. QED
      BY <1>3, <1>4, <3>1
  <2>2. ASSUME NEW r \in Requests, Recv(r) PROVE Pieces'
    <3> DEFINE e == [kind |-> "Claim", req |-> r]
    <3>1. e \in Entries /\ e.req = r /\ waiting \in Seq(Entries) /\ waiting' = Append(waiting, e)
      BY <1>1, <2>2, AwaitEnters DEF Recv
    <3>2. UNCHANGED <<got, handler>> /\ fresh' \subseteq fresh /\ r \in fresh
      BY <2>2 DEF Recv
    <3> HIDE DEF e
    <3>3. \A q \in Requests : Claiming(q)' => Claiming(q) \/ q \in fresh
      BY <3>1, <3>2, Enters DEF Claiming
    <3>4. QED
      BY <1>3, <3>2, <3>3
  <2>3. ASSUME NEW r \in Requests, SendClaim(r) PROVE Pieces'
    <3>1. /\ Head(waiting).kind = "Claim" /\ Head(waiting).req = r
          /\ waiting # <<>> /\ waiting' = Tail(waiting)
      BY <1>1, <2>3, SendsHead DEF SendClaim
    <3>2. Claiming(r)
      BY <1>1, <3>1, Leaves
    <3>3. UNCHANGED <<got, fresh>> /\ handler' = [handler EXCEPT ![r] = "new"]
      BY <2>3 DEF SendClaim, routerVars
    <3>4. \A q \in Requests : handler'[q] = IF q = r THEN "new" ELSE handler[q]
      BY <1>1, <3>3
    <3>5. QED
      BY <1>3, <1>4, <3>1, <3>2, <3>3, <3>4
  <2>4. QED
    BY <1>5, <2>1, <2>2, <2>3 DEF MainNext
<1>6. ASSUME NEW r \in Requests, HandlerNext(r) PROVE Pieces'
  <2>1. Others
    <3>1. LastKinds \cup {"Accept", "Message"} \subseteq HandlerKinds \cup ReaderKinds
      BY DEF HandlerKinds
    <3>2. CASE Begin(r) \/ TakeChunk(r) \/ TakeMessage(r)
      BY <3>1, <3>2 DEF Begin, TakeChunk, TakeMessage, LastKinds
    <3>3. CASE SendAccept(r) \/ SendMessage(r) \/ SendLast(r)
      BY <3>3 DEF SendAccept, SendMessage, SendLast, Sends
    <3>4. CASE DropHandler(r)
      BY <3>4 DEF DropHandler, outVars
    <3>5. QED
      BY <1>6, <3>2, <3>3, <3>4 DEF HandlerNext
  <2>2. CASE Begin(r)
    <3>1. UNCHANGED <<got, fresh>> /\ handler[r] = "new"
          /\ \E x \in {"reading", "accepting", "sending"} : handler' = [handler EXCEPT ![r] = x]
      BY <2>2 DEF Begin, routerVars
    <3>2. handler'[r] # "new" /\ \A q \in Requests \ {r} : handler'[q] = handler[q]
      BY <1>1, <3>1
    <3>3. QED
      BY <1>3, <1>4, <2>1, <3>1, <3>2
  <2>3. CASE TakeChunk(r)
    <3>1. /\ handler[r] = "reading" /\ fresh' = fresh
          /\ got' = [got EXCEPT ![r] = @ + 1] \/ got' = got
          /\ handler' = [handler EXCEPT ![r] = "sending"]
               \/ (handler' = handler /\ got[r] + 1 # Chunks)
      BY <2>3 DEF TakeChunk, routerVars
    <3>2. ASSUME NEW q \in Requests
          PROVE  /\ handler'[q] = "reading" => got'[q] < Chunks
                 /\ handler'[q] = "new" \/ q \in fresh' \/ Claiming(q)' => got'[q] = 0
      <4>1. CASE q # r
        <5>1. got'[q] = got[q] /\ handler'[q] = handler[q]
          BY <1>1, <3>1, <4>1
        <5>2. QED
          BY <1>1, <1>4, <2>1, <3>1, <5>1 DEF Pieces
      <4>2. CASE q = r
        <5>1. handler'[r] \in {"reading", "sending"} /\ r \notin fresh' /\ ~Claiming(r)'
          BY <1>1, <1>2, <1>4, <2>1, <3>1
        <5>2. handler'[r] = "reading" => handler' = handler /\ got[r] + 1 # Chunks
          BY <1>1, <3>1
        <5>3. got[r] \in Nat /\ got[r] < Chunks
          BY <1>1, <3>1, Rooms DEF Pieces
        <5>4. got'[r] = got[r] + 1 \/ got'[r] = got[r]
          BY <1>1, <3>1
        <5>5. handler'[r] = "reading" => got'[r] < Chunks
          BY <5>2, <5>3, <5>4, Rooms
        <5>6. QED
          BY <4>2, <5>1, <5>5
      <4>3. QED
        BY <4>1, <4>2
    <3>3. QED
      BY <3>2 DEF Pieces
  <2>4. CASE SendAccept(r) \/ TakeMessage(r) \/ SendMessage(r) \/ SendLast(r) \/ DropHandler(r)
    <3>1. UNCHANGED <<got, fresh>>
          /\ \E x \in {"mirroring", "sending", "echoing", "none"} : handler' = [handler EXCEPT ![r] = x]
      BY <2>4 DEF SendAccept, TakeMessage, SendMessage, SendLast, TaskEnds, DropHandler, routerVars
    <3>2. handler'[r] \notin {"new", "reading"} /\ \A q \in Requests \ {r} : handler'[q] = handler[q]
      BY <1>1, <3>1
    <3>3. QED
      BY <1>3, <1>4, <2>1, <3>1, <3>2
  <2>5. QED
    BY <1>6, <2>2, <2>3, <2>4 DEF HandlerNext
<1>7. ASSUME ReaderNext PROVE Pieces'
  <2>1. CASE Route \/ Unhold \/ ReaderEnds
    <3>1. UNCHANGED <<got, handler, waiting, fresh>>
      BY <2>1 DEF Route, Unhold, ReaderEnds, TakeDown, handlerVars, outVars, routerVars
    <3>2. QED
      BY <1>3, <1>4, <3>1
  <2>2. CASE AnswerPing
    <3>1. UNCHANGED <<got, handler, fresh>>
      BY <2>2 DEF AnswerPing, TakeDown, handlerVars
    <3>2. Others
      BY <1>1, <2>2, TakesDown DEF AnswerPing, ReaderKinds
    <3>3. QED
      BY <1>3, <1>4, <3>1, <3>2
  <2>3. CASE ObeyAbort
    <3> DEFINE r == Head(down).req
    <3>1. /\ UNCHANGED <<got, fresh>>
          /\ handler' = handler \/ handler' = [handler EXCEPT ![r] = "aborting"]
      BY <2>3 DEF ObeyAbort, TakeDown
    <3>2. r \in Requests
      BY <1>1, <2>3, TakesDown DEF ObeyAbort
    <3>3. Others
      BY <2>3, <3>2 DEF ObeyAbort
    <3> HIDE DEF r
    <3>4. \A q \in Requests : handler'[q] = handler[q] \/ handler'[q] = "aborting"
      BY <1>1, <3>1, <3>2
    <3>5. \A q \in Requests : Claiming(q)' => Claiming(q)
      BY <1>4, <3>3
    <3>6. \A q \in Requests : /\ handler'[q] = "reading" => handler[q] \in {"reading", "new"}
                              /\ handler'[q] = "new" => handler[q] = "new" \/ Claiming(q)
      BY <3>4
    <3>7. QED
      BY <1>3, <3>1, <3>5, <3>6
  <2>4. ASSUME NEW r \in Requests, SendFromReader(r) PROVE Pieces'
    <3>1. UNCHANGED <<got, handler, fresh>> /\ Others
      BY <2>4 DEF SendFromReader, Sends, handlerVars, routerVars
    <3>2. QED
      BY <1>3, <1>4, <3>1
  <2>5. QED
    BY <1>7, <2>1, <2>2, <2>3, <2>4 DEF ReaderNext
<1>8. ASSUME RouterNext PROVE Pieces'
  <2>1. UNCHANGED <<got, handler, waiting, fresh>>
    BY <1>8 DEF RouterNext, RouterReads, RouterCloses, RouterDrops, Upload, Message, Control, Write,
                handlerVars, outVars
  <2>2. QED
    BY <1>3, <1>4, <2>1
<1>9. ASSUME SendFails PROVE Pieces'
  <2>1. /\ UNCHANGED <<got, fresh>> /\ Others
        /\ handler' = handler \/ \E r : handler' = [handler EXCEPT ![r] = "none"]
    BY <1>9 DEF SendFails, TaskEnds, routerVars
  <2>2. \A q \in Requests : handler'[q] = handler[q] \/ handler'[q] = "none"
    BY <1>1, <2>1
  <2>3. \A q \in Requests : Claiming(q)' => Claiming(q)
    BY <1>4, <2>1
  <2>4. \A q \in Requests : /\ handler'[q] = "reading" => handler[q] \in {"reading", "new"}
                            /\ handler'[q] = "new" => handler[q] = "new" \/ Claiming(q)
    BY <2>2
  <2>5. QED
    BY <1>3, <2>1, <2>3, <2>4
<1>10. CASE UNCHANGED vars
  <2>1. UNCHANGED <<got, handler, waiting, fresh>>
    BY <1>10 DEF vars, handlerVars, outVars, routerVars
  <2>2. QED
    BY <1>3, <1>4, <2>1
<1>11. QED
  BY <1>5, <1>6, <1>7, <1>8, <1>9, <1>10 DEF Next

(* The reader holds back nothing but pieces.                               *)
LEMMA HeldStep == EchoInv /\ [Next]_vars => Held'
<1> SUFFICES ASSUME EchoInv, [Next]_vars PROVE Held'
  OBVIOUS
<1>1. Held
  BY DEF EchoInv, Counts, Held
<1>2. ASSUME UNCHANGED hold PROVE Held'
  BY <1>1, <1>2 DEF Held
<1>3. CASE MainNext
  BY <1>2, <1>3 DEF MainNext, Acquire, TakeRetire, Drain, Flushed, Recv, DropDatagram, SendClaim, readerVars
<1>4. ASSUME NEW r \in Requests, HandlerNext(r) PROVE Held'
  BY <1>2, <1>4 DEF HandlerNext, Begin, TakeChunk, SendAccept, TakeMessage, SendMessage, SendLast,
                    DropHandler, readerVars
<1>5. CASE Route
  <2>1. hold' = hold \/ (hold' = Head(down) /\ Head(down).kind \in Inbound)
    BY <1>5 DEF Route
  <2>2. QED
    BY <1>1, <2>1 DEF Held
<1>6. CASE Unhold
  BY <1>6 DEF Unhold, Held
<1>7. CASE AnswerPing \/ ObeyAbort \/ ReaderEnds \/ \E r \in Requests : SendFromReader(r)
  BY <1>2, <1>7 DEF AnswerPing, ObeyAbort, ReaderEnds, SendFromReader
<1>8. CASE RouterNext
  BY <1>2, <1>8 DEF RouterNext, RouterReads, RouterCloses, RouterDrops, Upload, Message, Control,
     Write, readerVars
<1>9. CASE SendFails \/ UNCHANGED vars
  BY <1>2, <1>9 DEF SendFails, vars, readerVars
<1>10. QED
  BY <1>3, <1>4, <1>5, <1>6, <1>7, <1>8, <1>9 DEF Next, ReaderNext

-----------------------------------------------------------------------------
(* The invariant.                                                          *)

(* Once read, a Claim does not come again.                                 *)
LEMMA PastStays ==
  ASSUME EchoInv, [Next]_vars, NEW t \in Requests, PastClaim(t)
  PROVE  PastClaim(t)'
<1>1. Types /\ Queue /\ out \in Seq(Entries) /\ waiting \in Seq(Entries)
  BY DEF EchoInv, Ledgers, Types
<1>2. t \notin fresh /\ ~Claiming(t) /\ ~ClaimIn(out, t, Len(out))
  BY DEF PastClaim
<1> DEFINE Others ==
      \/ UNCHANGED waiting
      \/ waiting # <<>> /\ waiting' = Tail(waiting)
      \/ \E kind \in HandlerKinds \cup ReaderKinds, r \in Requests : Await(kind, r)
      \/ \E r \in Requests :
           waiting' = Append(Without(waiting, r), [kind |-> "Cancelled", req |-> r])
           Goes == \E e \in Entries : out' = Append(out, e) /\ (e.kind = "Claim" => e.req # t)
<1>3. ASSUME Others PROVE ~Claiming(t)'
  BY <1>1, <1>2, <1>3, NoNewClaim
<1>4. ASSUME out' = out \/ out' = <<>> \/ (out # <<>> /\ out' = Tail(out)) \/ Goes
      PROVE  ~ClaimIn(out', t, Len(out'))
  <2> DEFINE K == {"Claim"}
  <2>1. \A k : k \in K <=> k = "Claim"
    OBVIOUS
  <2> HIDE DEF K
  <2>2. CASE out' = <<>>
    BY <2>2, NothingSent
  <2>3. CASE out # <<>> /\ out' = Tail(out)
    BY <1>1, <1>2, <2>3, TailFirst DEF ClaimIn
  <2>4. ASSUME NEW e \in Entries, out' = Append(out, e), e.kind = "Claim" => e.req # t
        PROVE  ~ClaimIn(out', t, Len(out'))
    <3>1. InFirst(out', K, t, Len(out')) <=> InFirst(out, K, t, Len(out)) \/ (e.kind \in K /\ e.req = t)
      BY <1>1, <2>4, AppendFirst
    <3>2. QED
      BY <1>2, <2>1, <2>4, <3>1 DEF ClaimIn, K
  <2>5. QED
    BY <1>2, <1>4, <2>2, <2>3, <2>4
<1>5. ASSUME NEW kind, NEW r \in Requests, Sends(kind, r), waiting' = Tail(waiting), kind # "Claim" \/ r # t
      PROVE  Goes
  <2>1. Head(waiting) \in Entries /\ Head(waiting).kind = kind /\ Head(waiting).req = r
        /\ out' = Append(out, Head(waiting))
    BY <1>1, <1>5, SendsHead
  <2>2. QED
    BY <1>5, <2>1
<1> HIDE DEF Goes
<1>6. CASE MainNext
  <2>1. CASE Acquire \/ TakeRetire \/ Drain \/ Flushed \/ \E r \in Requests : DropDatagram(r)
    <3>1. UNCHANGED <<waiting, out>> /\ fresh' \subseteq fresh
      BY <2>1 DEF Acquire, TakeRetire, Drain, Flushed, DropDatagram, outVars, routerVars
    <3>2. QED
      BY <1>2, <1>3, <1>4, <3>1 DEF PastClaim
  <2>2. ASSUME NEW r \in Requests, Recv(r) PROVE PastClaim(t)'
    <3>1. r # t /\ fresh' \subseteq fresh /\ out' = out
      BY <1>2, <2>2 DEF Recv
    <3> DEFINE e == [kind |-> "Claim", req |-> r]
    <3>2. e \in Entries /\ e.req = r /\ waiting' = Append(waiting, e)
      BY <1>1, <2>2, AwaitEnters DEF Recv
    <3> HIDE DEF e
    <3>3. ~Claiming(t)'
      BY <1>1, <1>2, <3>1, <3>2, Enters DEF Claiming
    <3>4. QED
      BY <1>2, <1>4, <3>1, <3>3 DEF PastClaim
  <2>3. ASSUME NEW r \in Requests, SendClaim(r) PROVE PastClaim(t)'
    <3>1. /\ Head(waiting).kind = "Claim" /\ Head(waiting).req = r
          /\ waiting # <<>> /\ waiting' = Tail(waiting) /\ Sends("Claim", r)
      BY <1>1, <2>3, SendsHead DEF SendClaim
    <3>2. r # t
      BY <1>1, <1>2, <3>1, Leaves
    <3>3. Goes /\ fresh' = fresh
      BY <1>5, <2>3, <3>1, <3>2 DEF SendClaim, routerVars
    <3>4. QED
      BY <1>2, <1>3, <1>4, <3>1, <3>3 DEF PastClaim
  <2>4. QED
    BY <1>6, <2>1, <2>2, <2>3 DEF MainNext
<1>7. ASSUME NEW r \in Requests, HandlerNext(r) PROVE PastClaim(t)'
  <2>1. LastKinds \cup {"Accept", "Message"} \subseteq HandlerKinds \cup ReaderKinds
        /\ "Claim" \notin LastKinds
    BY DEF HandlerKinds, LastKinds
  <2>2. CASE Begin(r) \/ TakeChunk(r) \/ TakeMessage(r) \/ DropHandler(r)
    <3>1. Others /\ out' = out /\ fresh' = fresh
      BY <2>1, <2>2 DEF Begin, TakeChunk, TakeMessage, DropHandler, LastKinds, outVars, routerVars
    <3>2. QED
      BY <1>2, <1>3, <1>4, <3>1 DEF PastClaim
  <2>3. CASE SendAccept(r) \/ SendMessage(r) \/ SendLast(r)
    <3>1. waiting # <<>> /\ waiting' = Tail(waiting) /\ fresh' = fresh
      BY <2>3 DEF SendAccept, SendMessage, SendLast, Sends, routerVars
    <3>2. PICK kind \in LastKinds \cup {"Accept", "Message"} : Sends(kind, r)
      BY <2>3 DEF SendAccept, SendMessage, SendLast
    <3>3. Goes
      BY <1>5, <2>1, <3>1, <3>2
    <3>4. QED
      BY <1>2, <1>3, <1>4, <3>1, <3>3 DEF PastClaim
  <2>4. QED
    BY <1>7, <2>2, <2>3 DEF HandlerNext
<1>8. CASE ReaderNext
  <2>1. CASE Route \/ Unhold \/ ReaderEnds \/ AnswerPing
    <3>1. Others /\ out' = out /\ fresh' = fresh
      BY <1>1, <2>1, TakesDown DEF Route, Unhold, ReaderEnds, AnswerPing, TakeDown, ReaderKinds,
         outVars, routerVars
    <3>2. QED
      BY <1>2, <1>3, <1>4, <3>1 DEF PastClaim
  <2>2. CASE ObeyAbort
    <3>1. Head(down).req \in Requests /\ out' = out /\ fresh' = fresh
      BY <1>1, <2>2, TakesDown DEF ObeyAbort, TakeDown
    <3>2. Others
      BY <2>2, <3>1 DEF ObeyAbort
    <3>3. QED
      BY <1>2, <1>3, <1>4, <3>1, <3>2 DEF PastClaim
  <2>3. ASSUME NEW r \in Requests, SendFromReader(r) PROVE PastClaim(t)'
    <3>1. waiting # <<>> /\ waiting' = Tail(waiting) /\ fresh' = fresh
      BY <2>3 DEF SendFromReader, Sends, routerVars
    <3>2. PICK kind \in ReaderKinds : Sends(kind, r)
      BY <2>3 DEF SendFromReader
    <3>3. Goes
      BY <1>5, <3>1, <3>2 DEF ReaderKinds
    <3>4. QED
      BY <1>2, <1>3, <1>4, <3>1, <3>3 DEF PastClaim
  <2>4. QED
    BY <1>8, <2>1, <2>2, <2>3 DEF ReaderNext
<1>9. CASE RouterNext \/ SendFails \/ UNCHANGED vars
  <2>1. /\ fresh' = fresh
        /\ waiting' = waiting \/ (waiting # <<>> /\ waiting' = Tail(waiting))
        /\ out' = out \/ out' = <<>> \/ (out # <<>> /\ out' = Tail(out))
    BY <1>9 DEF RouterNext, RouterReads, RouterCloses, RouterDrops, Upload, Message, Control, Write,
       SendFails,
                vars, outVars, routerVars
  <2>2. QED
    BY <1>2, <1>3, <1>4, <2>1 DEF PastClaim
<1>10. QED
  BY <1>6, <1>7, <1>8, <1>9 DEF Next

(* The router holds for claimed what the worker holds and it has taken.    *)
LEMMA SlotsStep ==
  ASSUME EchoInv, [Next]_vars, Ledgers'
  PROVE  Slots'
<1>1. Types /\ Slots /\ Cut
  BY DEF EchoInv, Ledgers
<1>2. ASSUME UNCHANGED <<slot, claimed, held>> PROVE Slots'
  BY <1>1, <1>2, PastStays DEF Slots, ClaimsMatch
<1>3. CASE RouterReads
  <2> DEFINE e == Head(out)
             accepted == e.kind = "Claim" /\ slot[e.req] = "awaited"
  <2>1. out # <<>> /\ e = out[1] /\ 1 \in 1 .. Len(out) /\ e.req \in Requests
    <3>1. out # <<>> /\ out \in Seq(Entries) /\ e \in Entries
      BY <1>1, <1>3 DEF RouterReads, Types
    <3>2. Len(Tail(out)) = Len(out) - 1 /\ Len(Tail(out)) \in Nat /\ Head(out) = out[1]
      BY <3>1, TailFirst
    <3>3. Len(out) \in Nat /\ Len(out) # 0
      BY <3>1
    <3>4. QED
      BY <3>1, <3>2, <3>3 DEF Entries
  <2>2. /\ slot' = IF accepted THEN [slot EXCEPT ![e.req] = "taken"] ELSE slot
        /\ claimed' = IF accepted THEN claimed \cup {e.req}
                      ELSE IF e.kind \in Endings THEN claimed \ {e.req} ELSE claimed
        /\ held' = IF e.kind = "Claim" THEN held \cup {e.req}
                   ELSE IF e.kind \in Endings THEN held \ {e.req} ELSE held
    BY <1>3 DEF RouterReads
  <2>3. e.kind = "Claim" => slot[e.req] # "taken"
    <3>1. e.kind = "Claim" => ClaimIn(out, e.req, Len(out))
      BY <2>1 DEF ClaimIn, InFirst
    <3>2. QED
      BY <1>1, <2>1, <3>1 DEF Slots, PastClaim
  <2>4. slot \in [Requests -> SlotStates] /\ "Claim" \notin Endings
    BY <1>1 DEF Types, Endings, LastKinds
  <2> HIDE DEF e
  <2>5. ClaimsMatch'
    <3>1. claimed = {r \in held : slot[r] = "taken"}
      BY <1>1 DEF Slots, ClaimsMatch
    <3>2. CASE accepted
      BY <2>1, <2>2, <2>4, <3>1, <3>2 DEF ClaimsMatch
    <3>3. CASE ~accepted
      BY <2>1, <2>2, <2>3, <2>4, <3>1, <3>3 DEF ClaimsMatch
    <3>4. QED
      BY <3>2, <3>3
  <2>6. ASSUME NEW r \in Requests, slot'[r] = "taken" PROVE PastClaim(r)'
    <3>1. CASE slot[r] = "taken"
      BY <1>1, <3>1, PastStays DEF Slots
    <3>2. CASE slot[r] # "taken"
      <4>1. r \in held'
        BY <2>1, <2>2, <2>4, <2>6, <3>2
      <4>2. Started(r)' /\ ~ClaimIn(out', r, Len(out'))
        BY <4>1 DEF Ledgers, StreamOK, Started, ClaimIn, InFirst
      <4>3. r \notin fresh' /\ ~Claiming(r)'
        BY <4>2 DEF Ledgers, Story, StoryOf
      <4>4. QED
        BY <4>2, <4>3 DEF PastClaim
    <3>3. QED
      BY <3>1, <3>2
  <2>7. QED
    BY <2>5, <2>6 DEF Slots
<1>4. ASSUME NEW q \in Requests, RouterDrops(q) PROVE Slots'
  <2>1. /\ slot[q] = "awaited" /\ slot' = [slot EXCEPT ![q] = "dropped"]
        /\ claimed' = claimed /\ held' = held /\ slot \in [Requests -> SlotStates] /\ held \subseteq Requests
    BY <1>1, <1>4 DEF RouterDrops, Types
  <2>2. \A r \in Requests : slot'[r] = "taken" <=> slot[r] = "taken"
    BY <2>1
  <2>3. QED
    BY <1>1, <2>1, <2>2, PastStays DEF Slots, ClaimsMatch
<1>5. CASE RouterCloses
  <2>1. slot' = slot /\ claimed' = {} /\ held' = {}
    BY <1>5 DEF RouterCloses
  <2>2. QED
    BY <1>1, <2>1, PastStays DEF Slots, ClaimsMatch
<1>6. CASE MainNext
  BY <1>2, <1>6 DEF MainNext, Acquire, TakeRetire, Drain, Flushed, Recv, DropDatagram, SendClaim, routerVars
<1>7. ASSUME NEW r \in Requests, HandlerNext(r) PROVE Slots'
  BY <1>2, <1>7 DEF HandlerNext, Begin, TakeChunk, SendAccept, TakeMessage, SendMessage, SendLast,
                    DropHandler, routerVars
<1>8. CASE ReaderNext
  BY <1>2, <1>8 DEF ReaderNext, Route, Unhold, AnswerPing, ObeyAbort, ReaderEnds, SendFromReader,
                    TakeDown, routerVars
<1>9. ASSUME NEW r \in Requests, Upload(r) \/ Message(r) \/ \E kind \in {"Ping", "Abort"} : Control(kind, r)
      PROVE  Slots'
  BY <1>2, <1>9 DEF Upload, Message, Control, Write
<1>10. CASE SendFails \/ UNCHANGED vars
  BY <1>2, <1>10 DEF SendFails, vars, routerVars
<1>11. QED
  BY <1>3, <1>4, <1>5, <1>6, <1>7, <1>8, <1>9, <1>10 DEF Next, RouterNext

(* What is taken stays taken.                                              *)
LEMMA TakenStays ==
  ASSUME Types, [Next]_vars, NEW t \in Requests, slot[t] = "taken"
  PROVE  slot'[t] = "taken"
<1>1. slot \in [Requests -> SlotStates]
  BY DEF Types
<1>2. CASE slot' = slot
  BY <1>2
<1>3. CASE RouterReads
  <2>1. slot' = slot \/ slot' = [slot EXCEPT ![Head(out).req] = "taken"]
    BY <1>3 DEF RouterReads
  <2>2. QED
    BY <1>1, <2>1
<1>4. ASSUME NEW r \in Requests, RouterDrops(r) PROVE slot'[t] = "taken"
  BY <1>1, <1>4 DEF RouterDrops
<1>5. CASE MainNext
  BY <1>2, <1>5 DEF MainNext, Acquire, TakeRetire, Drain, Flushed, Recv, DropDatagram, SendClaim, routerVars
<1>6. ASSUME NEW r \in Requests, HandlerNext(r) PROVE slot'[t] = "taken"
  BY <1>2, <1>6 DEF HandlerNext, Begin, TakeChunk, SendAccept, TakeMessage, SendMessage, SendLast,
                    DropHandler, routerVars
<1>7. CASE ReaderNext
  BY <1>2, <1>7 DEF ReaderNext, Route, Unhold, AnswerPing, ObeyAbort, ReaderEnds, SendFromReader,
                    TakeDown, routerVars
<1>8. ASSUME NEW r \in Requests, Upload(r) \/ Message(r) \/ \E kind \in {"Ping", "Abort"} : Control(kind, r)
      PROVE  slot'[t] = "taken"
  BY <1>2, <1>8 DEF Upload, Message, Control, Write
<1>9. CASE RouterCloses \/ SendFails \/ UNCHANGED vars
  BY <1>2, <1>9 DEF RouterCloses, SendFails, vars, routerVars
<1>10. QED
  BY <1>3, <1>4, <1>5, <1>6, <1>7, <1>8, <1>9 DEF Next, RouterNext

(* Nothing is claimed, nothing waits, all permits are in.                  *)
LEMMA EchoInit == Init => EchoInv
<1> SUFFICES ASSUME Init PROVE EchoInv
  OBVIOUS
<1> USE DEF Init
<1>1. Types
  <2>1. <<>> \in Seq(Entries) /\ <<>> \in Seq(DownFrames) /\ <<>> \in Seq(Inbound)
    OBVIOUS
  <2>2. 0 \in 0 .. Chunks /\ 0 \in 0 .. Chunks + 1 /\ Granted \in Nat
    BY Rooms
  <2>3. QED
    BY <2>1, <2>2 DEF Types, MainStates, HandlerStates, SlotStates
<1>2. \A q : ~Started(q) /\ ~Ended(q) /\ ~Claiming(q) /\ ~Reported(q)
  BY NothingSent DEF Started, Ended, Claiming, Reported
<1>3. Counts
  <2>1. Cardinality(Requests \ fresh) \in Nat
    <3>1. Requests \ fresh \subseteq Requests
      OBVIOUS
    <3>2. QED
      BY <3>1, Rooms, FS_Subset, FS_CardinalityType
  <2>2. QED
    BY <2>1, <1>2 DEF Counts
<1>4. Story
  BY <1>2 DEF Story, StoryOf, Active
<1>5. Queue /\ NextFits /\ Cut /\ StreamOK(held, out)
  <2>1. Len(<<>>) = 0 /\ 1 .. 0 = {}
    OBVIOUS
  <2>2. QED
    BY <2>1, NothingSent DEF Queue, QueueOK, Sole, NextFits, Fits, Cut
<1>6. PermitsAccount
  <2>1. {r \in Requests : handler[r] # "none"} = {}
    OBVIOUS
  <2>2. Cardinality({}) = 0
    BY FS_EmptySet
  <2>3. permits = Granted /\ main \notin {"recv", "claiming"}
    OBVIOUS
  <2>4. Granted + 0 + 0 = Granted
    BY Rooms
  <2>5. QED
    BY <2>1, <2>2, <2>3, <2>4 DEF PermitsAccount
<1>7. HandlesMatch
  BY DEF HandlesMatch
<1>8. Slots
  BY DEF Slots, ClaimsMatch
<1>9. QED
  BY <1>1, <1>3, <1>4, <1>5, <1>6, <1>7, <1>8 DEF EchoInv, Ledgers

(* Every step keeps the invariant.                                         *)
LEMMA EchoStep == EchoInv /\ [Next]_vars => EchoInv'
<1> SUFFICES ASSUME EchoInv, [Next]_vars PROVE EchoInv'
  OBVIOUS
<1>1. Types /\ Counts /\ Queue
  BY DEF EchoInv, Ledgers
<1>2. Types'
  <2>1. CASE UNCHANGED vars
    BY <1>1, <2>1 DEF Types, vars, mainVars, handlerVars, readerVars, outVars, routerVars
  <2>2. QED
    BY <1>1, <2>1, MainTypes, HandlerTypes, ReaderTypes, RouterTypes, FailTypes DEF Next
<1>3. Counts'
  BY TakenStep, PiecesStep, HeldStep DEF Counts, Taken, Pieces, Held
<1>4. Ledgers'
  <2>1. CASE MainNext
    BY <2>1, QuietSteps, RecvStep, SendClaimStep DEF MainNext
  <2>2. ASSUME NEW r \in Requests, HandlerNext(r) PROVE Ledgers'
    BY <2>2, AwaitSteps, SendOnStep, SendLastStep, DropHandlerStep DEF HandlerNext
  <2>3. CASE ReaderNext
    BY <2>3, QuietSteps, AnswerPingStep, ObeyAbortStep, SendFromReaderStep DEF ReaderNext
  <2>4. CASE RouterNext
    BY <2>4, QuietSteps, RouterReadsStep, RouterClosesStep DEF RouterNext
  <2>5. CASE SendFails
    BY <2>5, SendFailsStep
  <2>6. CASE UNCHANGED vars
    BY <2>6, Quiet DEF EchoInv, Ledgers, PermitsAccount, vars, mainVars, handlerVars, readerVars,
       outVars, routerVars
  <2>7. QED
    BY <2>1, <2>2, <2>3, <2>4, <2>5, <2>6 DEF Next
<1>5. Slots'
  BY <1>4, SlotsStep
<1>6. QED
  BY <1>2, <1>3, <1>4, <1>5 DEF EchoInv

(* The invariant says what the two properties say.                         *)
LEMMA EchoSound == EchoInv => LedgersAgree /\ EndsOnce
<1> SUFFICES ASSUME EchoInv PROVE LedgersAgree /\ EndsOnce
  OBVIOUS
<1>1. Types /\ Counts /\ StreamOK(held, out) /\ PermitsAccount /\ HandlesMatch /\ ClaimsMatch
      /\ out \in Seq(Entries)
  BY DEF EchoInv, Ledgers, Slots, Types
<1>2. TypeOK
  <2>1. permits \in 0 .. Granted
    <3>1. Cardinality(Busy(handler)) \in Nat
      <4>1. Busy(handler) \subseteq Requests
        BY DEF Busy
      <4>2. QED
        BY <4>1, Rooms, FS_Subset, FS_CardinalityType
    <3>2. permits + Cardinality(Busy(handler)) + (IF main \in {"recv", "claiming"} THEN 1 ELSE 0) = Granted
      BY <1>1 DEF PermitsAccount, Busy
    <3>3. permits \in Nat
      BY <1>1 DEF Types
    <3>4. QED
      BY <3>1, <3>2, <3>3, Rooms
  <2>2. served \in 0 .. Cardinality(Requests)
    <3>1. Requests \ fresh \subseteq Requests
      OBVIOUS
    <3>2. /\ Cardinality(Requests \ fresh) \in Nat /\ Cardinality(Requests) \in Nat
          /\ Cardinality(Requests \ fresh) <= Cardinality(Requests)
      BY <3>1, Rooms, FS_Subset, FS_CardinalityType
    <3>3. served \in Nat /\ served + (IF main = "claiming" THEN 1 ELSE 0) <= Cardinality(Requests \ fresh)
      BY <1>1 DEF Types, Counts
    <3>4. QED
      BY <3>2, <3>3
  <2>3. QED
    BY <1>1, <2>1, <2>2 DEF TypeOK, Types
<1>3. ASSUME out # <<>>
      PROVE  /\ Head(out).kind = "Claim" => Cardinality(held) < Granted
             /\ Head(out).kind \in Endings => Head(out).req \in held
  <2>1. Head(out) = out[1] /\ 1 \in 1 .. Len(out)
    <3>1. Len(Tail(out)) = Len(out) - 1 /\ Len(Tail(out)) \in Nat /\ Head(out) = out[1]
      BY <1>1, <1>3, TailFirst
    <3>2. Len(out) \in Nat /\ Len(out) # 0
      BY <1>1, <1>3
    <3>3. QED
      BY <3>1, <3>2
  <2>2. \A q : ~ClaimIn(out, q, 1 - 1) /\ ~EndIn(out, q, 1 - 1)
    BY DEF ClaimIn, EndIn, InFirst
  <2>3. HeldAt(held, out, 1 - 1) = held
    BY <1>1, <2>2 DEF HeldAt, Types
  <2>4. QED
    BY <1>1, <2>1, <2>2, <2>3 DEF StreamOK
<1>4. QED
  BY <1>1, <1>2, <1>3 DEF LedgersAgree, ClaimFits, EndsOnce

(* The ledgers of worker.rs agree: at no point of the stream does the      *)
(* worker hold more claims than were granted, counting those the router    *)
(* ignored, whose request was abandoned before; the router holds exactly   *)
(* the others for claimed; the permits account for every handler, and an   *)
(* abort handle is in the table exactly while its handler runs.            *)
THEOREM LedgersKept == Spec => []LedgersAgree
<1>1. Init => EchoInv
  BY EchoInit
<1>2. EchoInv /\ [Next]_vars => EchoInv'
  BY EchoStep
<1>3. EchoInv => LedgersAgree
  BY EchoSound
<1>4. QED
  BY <1>1, <1>2, <1>3, PTL DEF Spec

(* A request is ended once: every Done and every Error on the stream ends  *)
(* a Claim written before it that nothing has ended yet, whether the       *)
(* router accepted that Claim or ignored it.                               *)
THEOREM EndedOnce == Spec => []EndsOnce
<1>1. Init => EchoInv
  BY EchoInit
<1>2. EchoInv /\ [Next]_vars => EchoInv'
  BY EchoStep
<1>3. EchoInv => EndsOnce
  BY EchoSound
<1>4. QED
  BY <1>1, <1>2, <1>3, PTL DEF Spec


-----------------------------------------------------------------------------
(* What the router's tasks have to know of the worker and of each other.   *)

TaskTypes ==
  /\ conn \in [Tunnels -> ConnStates]
  /\ sent \in [Tunnels -> Nat] /\ back \in [Tunnels -> Nat]
  /\ events \in [Tunnels -> Seq(EventKinds)]
  /\ stuck \in [req : Tunnels, kind : EventKinds] \cup {None}

\* The worker exits when the router has closed the stream, not before.
Link == reader = "gone" \/ main = "exited" => ~linked

\* The 101 is on its way to the connection task, or it has come.
AcceptComes(t) ==
  \/ \E i \in 1 .. Len(events[t]) : events[t][i] = "Accept"
  \/ stuck # None /\ stuck.req = t /\ stuck.kind = "Accept"
Accepted(t) ==
  \/ conn[t] \in {"open", "sending", "closing"}
  \/ conn[t] # "closed" /\ AcceptComes(t)

\* An accepted tunnel may still be closed; who aborts has seen it taken.
Promise(t) ==
  /\ Accepted(t) /\ linked => upload[t] > 0
  /\ Accepted(t) \/ conn[t] = "aborting" => slot[t] = "taken"

TaskInv == TaskTypes /\ Link /\ \A t \in Tunnels : Promise(t)

-----------------------------------------------------------------------------
(* The tunnel's steps are steps of the worker and its router.              *)

(* The requests are the tunnels.                                           *)
LEMMA AllTunnels == Requests = Tunnels /\ Streamed = {}
BY TunnelAssumption, EchoAssumption

(* A write to the worker is a write of its router.                         *)
LEMMA WritesToWorker ==
  ASSUME TaskInv, EchoInv, NEW t \in Tunnels, NEW kind, ToWorker(t, kind)
  PROVE  Write(kind, t)
<1>1. linked /\ main # "exited"
  BY DEF ToWorker, TaskInv, Link
<1>2. QED
  BY <1>1 DEF ToWorker, Write, workerVars, mainVars, handlerVars, readerVars, outVars

(* Every step of the tunnel is one of the worker's module, or leaves its   *)
(* variables alone.                                                        *)
LEMMA TunnelRefines ==
  ASSUME TaskInv, EchoInv, [TunnelNext]_allVars
  PROVE  [Next]_vars
<1>1. CASE UNCHANGED allVars
  BY <1>1 DEF allVars
<1>2. CASE WorkerStep
  BY <1>2, AllTunnels DEF WorkerStep, Next
<1>3. CASE ReaderTask
  BY <1>3 DEF ReaderTask, ReaderTakes, ReaderUnblocks, ReaderLeaves, Next, RouterNext
<1>4. ASSUME NEW t \in Tunnels, Wait(t) \/ Serve(t) PROVE [Next]_vars
  <2>1. CASE FirstEventTimeout(t)
    BY <2>1, AllTunnels DEF FirstEventTimeout, Next, RouterNext
  <2>2. CASE Open(t) \/ Serve(t)
    BY <2>2 DEF Serve, Open, ReadClient, TakeMsg, CloseTunnel, TakeEvent
  <2>3. QED
    BY <1>4, <2>1, <2>2 DEF Wait
<1>5. ASSUME NEW t \in Tunnels, WriteTo(t) PROVE [Next]_vars
  <2>1. CASE WriteMsg(t) \/ WriteClose(t)
    <3>1. upload[t] > 0
      BY <2>1 DEF TaskInv, Promise, Accepted, WriteMsg, WriteClose, ToWorker
    <3>2. Message(t)
      BY <2>1, <3>1, WritesToWorker DEF WriteMsg, WriteClose, Message
    <3>3. QED
      BY <3>2, AllTunnels DEF Next, RouterNext
  <2>2. CASE WriteAbort(t)
    <3>1. slot[t] = "taken"
      BY <2>2 DEF TaskInv, Promise, WriteAbort
    <3>2. Control("Abort", t)
      BY <2>2, <3>1, WritesToWorker DEF WriteAbort, Control
    <3>3. QED
      BY <3>2, AllTunnels DEF Next, RouterNext
  <2>3. CASE WriteFails(t)
    BY <2>3 DEF WriteFails
  <2>4. QED
    BY <1>5, <2>1, <2>2, <2>3 DEF WriteTo
<1>6. ASSUME NEW t \in Tunnels, SweepAborts(t) PROVE [Next]_vars
  <2>1. slot[t] = "taken"
    BY <1>6 DEF SweepAborts, EchoInv, Slots, ClaimsMatch
  <2>2. Write("Abort", t) /\ UNCHANGED upload
    BY <1>6 DEF SweepAborts, Write, workerVars, mainVars, handlerVars, readerVars, outVars, TaskInv, Link
  <2>3. Control("Abort", t)
    BY <2>1, <2>2 DEF Control
  <2>4. QED
    BY <2>3, AllTunnels DEF Next, RouterNext
<1>7. QED
  BY <1>1, <1>2, <1>3, <1>4, <1>5, <1>6 DEF TunnelNext

-----------------------------------------------------------------------------
(* Every step keeps what they know.                                        *)

(* The worker ends after its stream.                                       *)
LEMMA LinkStep ==
  ASSUME Link, [Next]_vars
  PROVE  Link' /\ (linked' => linked)
<1>1. CASE MainNext \/ \E r \in Requests : HandlerNext(r)
  BY <1>1 DEF Link, MainNext, Acquire, TakeRetire, Drain, Flushed, Recv, DropDatagram, SendClaim, HandlerNext,
              Begin, TakeChunk, SendAccept, TakeMessage, SendMessage, SendLast, DropHandler, mainVars, readerVars, routerVars
<1>2. CASE ReaderNext
  BY <1>2 DEF Link, ReaderNext, Route, Unhold, AnswerPing, ObeyAbort, ReaderEnds, SendFromReader, TakeDown,
              mainVars, routerVars
<1>3. CASE RouterNext
  <2>1. UNCHANGED <<reader, main>>
    BY <1>3 DEF RouterNext, RouterReads, RouterCloses, RouterDrops, Upload, Message, Control, Write,
       mainVars, readerVars
  <2>2. linked' = linked \/ linked' = FALSE
    BY <1>3 DEF RouterNext, RouterReads, RouterCloses, RouterDrops, Upload, Message, Control, Write
  <2>3. QED
    BY <2>1, <2>2 DEF Link
<1>4. CASE SendFails
  BY <1>4 DEF Link, SendFails, routerVars
<1>5. CASE UNCHANGED vars
  BY <1>5 DEF Link, vars, mainVars, readerVars, routerVars
<1>6. QED
  BY <1>1, <1>2, <1>3, <1>4, <1>5 DEF Next

(* The types of the tasks' variables.                                      *)
LEMMA TaskTypesStep ==
  ASSUME EchoInv, TaskTypes, [TunnelNext]_allVars
  PROVE  TaskTypes'
<1> DEFINE Ev == events \in [Tunnels -> Seq(EventKinds)]
           Co == conn \in [Tunnels -> ConnStates]
           Nu == sent \in [Tunnels -> Nat] /\ back \in [Tunnels -> Nat]
           St == stuck \in [req : Tunnels, kind : EventKinds] \cup {None}
<1>1. Ev /\ Co /\ Nu /\ St
  BY DEF TaskTypes
<1>2. \A t \in Tunnels : events[t] # <<>> => Tail(events[t]) \in Seq(EventKinds)
  BY <1>1
<1>3. <<>> \in Seq(EventKinds)
  OBVIOUS
<1>4. \A t \in Tunnels, k \in EventKinds : Append(events[t], k) \in Seq(EventKinds)
  BY <1>1
<1>5. \A k : EventOf(k) \in EventKinds
  BY DEF EventOf, EventKinds
<1>6. CASE WorkerStep \/ UNCHANGED allVars
  BY <1>6, <1>1 DEF WorkerStep, allVars, tunnelVars, connVars, TaskTypes
<1>7. CASE ReaderTask
  <2>1. UNCHANGED connVars
    BY <1>7 DEF ReaderTask, ReaderTakes, ReaderUnblocks, ReaderLeaves
  <2>2. Ev' /\ St'
    <3>1. CASE ReaderTakes
      <4> DEFINE e == Head(out)
      <4>1. e \in Entries /\ e.req \in Tunnels
        <5>1. out # <<>> /\ out \in Seq(Entries)
          BY <3>1 DEF ReaderTakes, RouterReads, EchoInv, Types
        <5>2. Head(out) \in Entries
          BY <5>1
        <5>3. QED
          BY <5>2, AllTunnels DEF Entries
      <4>2. UNCHANGED <<events, stuck>> \/ Deliver(e.req, EventOf(e.kind))
        BY <3>1 DEF ReaderTakes
      <4> HIDE DEF e
      <4>3. PICK k \in EventKinds : UNCHANGED <<events, stuck>> \/ Deliver(e.req, k)
        BY <1>5, <4>2
      <4>4. CASE UNCHANGED <<events, stuck>>
        BY <1>1, <4>4
      <4>5. CASE Deliver(e.req, k)
        <5>1. PICK q \in Tunnels : q = e.req
          BY <4>1
        <5>2. Append(events[q], k) \in Seq(EventKinds)
              /\ [req |-> q, kind |-> k] \in [req : Tunnels, kind : EventKinds]
          BY <1>4
        <5>3. Deliver(q, k)
          BY <4>5, <5>1
        <5>4. events' = events \/ events' = [events EXCEPT ![q] = Append(@, k)]
          BY <5>3 DEF Deliver
        <5>5. stuck' = stuck \/ stuck' = [req |-> q, kind |-> k]
          BY <5>3 DEF Deliver
        <5>6. QED
          BY <1>1, <5>2, <5>4, <5>5
      <4>6. QED
        BY <4>3, <4>4, <4>5
    <3>2. CASE ReaderUnblocks
      <4>1. stuck.req \in Tunnels /\ stuck.kind \in EventKinds /\ stuck' = None
        BY <1>1, <3>2 DEF ReaderUnblocks
      <4>2. QED
        BY <1>1, <1>4, <3>2, <4>1 DEF ReaderUnblocks
    <3>3. CASE ReaderLeaves
      <4>1. "Failed" \in EventKinds
        BY DEF EventKinds
      <4>2. QED
        BY <1>1, <1>4, <3>3, <4>1 DEF ReaderLeaves
    <3>4. QED
      BY <1>7, <3>1, <3>2, <3>3 DEF ReaderTask
  <2>3. QED
    BY <1>1, <2>1, <2>2 DEF TaskTypes, connVars
<1>8. ASSUME NEW t \in Tunnels, Wait(t) \/ Serve(t) \/ WriteTo(t) \/ SweepAborts(t) PROVE TaskTypes'
  <2>1. Ev'
    <3>1. \/ events' = events \/ events' = [events EXCEPT ![t] = <<>>]
          \/ (events[t] # <<>> /\ events' = [events EXCEPT ![t] = Tail(@)])
      BY <1>8 DEF Wait, Serve, WriteTo, SweepAborts, Open, FirstEventTimeout, RouterDrops, ReadClient,
                  TakeMsg, CloseTunnel, TakeEvent, WriteMsg, WriteClose, WriteAbort, WriteFails, SendWs,
                  Leave, DropEvent, NextEvent
    <3>2. QED
      BY <1>1, <1>2, <1>3, <3>1
  <2>2. Co'
    <3>1. conn' = conn \/ \E x \in ConnStates : conn' = [conn EXCEPT ![t] = x]
      BY <1>8 DEF Wait, Serve, WriteTo, SweepAborts, Open, FirstEventTimeout, RouterDrops, ReadClient,
                  TakeMsg, CloseTunnel, TakeEvent, WriteMsg, WriteClose, WriteAbort, WriteFails, SendWs,
                  Leave, ConnStates
    <3>2. QED
      BY <1>1, <3>1
  <2>3. Nu'
    <3>1. /\ sent' = sent \/ sent' = [sent EXCEPT ![t] = @ + 1]
          /\ back' = back \/ back' = [back EXCEPT ![t] = @ + 1]
      BY <1>8 DEF Wait, Serve, WriteTo, SweepAborts, Open, FirstEventTimeout, RouterDrops, ReadClient,
                  TakeMsg, CloseTunnel, TakeEvent, WriteMsg, WriteClose, WriteAbort, WriteFails,
                  ToWorker
    <3>2. \A f \in [Tunnels -> Nat] : [f EXCEPT ![t] = @ + 1] \in [Tunnels -> Nat]
      OBVIOUS
    <3>3. QED
      BY <1>1, <3>1, <3>2
  <2>4. stuck' = stuck
    BY <1>8 DEF Wait, Serve, WriteTo, SweepAborts, Open, FirstEventTimeout, RouterDrops, ReadClient,
                TakeMsg, CloseTunnel, TakeEvent, WriteMsg, WriteClose, WriteAbort, WriteFails, ToWorker
  <2>5. QED
    BY <1>1, <2>1, <2>2, <2>3, <2>4 DEF TaskTypes
<1>9. QED
  BY <1>6, <1>7, <1>8 DEF TunnelNext

(* What a step does to the 101 on its way: only the reader task, when it   *)
(* reads it for a claimed request, puts it there.                          *)
LEMMA AcceptMoves ==
  ASSUME EchoInv, TaskTypes, [TunnelNext]_allVars, NEW t \in Tunnels
  PROVE  /\ Accepted(t)' => \/ Accepted(t)
                            \/ RouterReads /\ Head(out).kind = "Accept" /\ Head(out).req = t /\ t \in claimed
         /\ conn'[t] = "aborting" => conn[t] = "aborting" \/ t \in claimed
<1> DEFINE Ev == \E i \in 1 .. Len(events[t]) : events[t][i] = "Accept"
           St == stuck # None /\ stuck.req = t /\ stuck.kind = "Accept"
           New == RouterReads /\ Head(out).kind = "Accept" /\ Head(out).req = t /\ t \in claimed
<1>1. /\ conn \in [Tunnels -> ConnStates] /\ events \in [Tunnels -> Seq(EventKinds)]
      /\ stuck \in [req : Tunnels, kind : EventKinds] \cup {None}
  BY DEF TaskTypes
<1>2. events[t] # <<>> => /\ Tail(events[t]) \in Seq(EventKinds) /\ Len(Tail(events[t])) = Len(events[t]) - 1
                          /\ Len(events[t]) \in Nat /\ Head(events[t]) = events[t][1]
                          /\ \A i \in 1 .. Len(Tail(events[t])) : Tail(events[t])[i] = events[t][i + 1]
  BY <1>1, HeadTailProperties
<1>3. \A k \in EventKinds :
        /\ Len(Append(events[t], k)) = Len(events[t]) + 1 /\ Len(events[t]) \in Nat
        /\ \A i \in 1 .. Len(events[t]) : Append(events[t], k)[i] = events[t][i]
        /\ Append(events[t], k)[Len(events[t]) + 1] = k
  BY <1>1, AppendProperties, LenProperties
<1>4. ASSUME NEW s, s = events[t] \/ s = <<>> \/ (events[t] # <<>> /\ s = Tail(events[t])),
             \E i \in 1 .. Len(s) : s[i] = "Accept"
      PROVE  Ev
  <2>1. CASE s = <<>>
    BY <1>4, <2>1
  <2>2. CASE events[t] # <<>> /\ s = Tail(events[t])
    <3>1. PICK i \in 1 .. Len(s) : s[i] = "Accept"
      BY <1>4
    <3>2. i + 1 \in 1 .. Len(events[t]) /\ events[t][i + 1] = "Accept"
      BY <1>2, <2>2, <3>1
    <3>3. QED
      BY <3>2
  <2>3. QED
    BY <1>4, <2>1, <2>2
<1>5. ASSUME NEW k \in EventKinds, \E i \in 1 .. Len(Append(events[t], k)) : Append(events[t], k)[i] = "Accept"
      PROVE  Ev \/ k = "Accept"
  <2>1. PICK i \in 1 .. Len(Append(events[t], k)) : Append(events[t], k)[i] = "Accept"
    BY <1>5
  <2>2. i \in 1 .. Len(events[t]) \/ i = Len(events[t]) + 1
    BY <1>3, <2>1
  <2>3. QED
    BY <1>3, <2>1, <2>2
<1> HIDE DEF Ev
<1>6. Accepted(t) <=> conn[t] \in {"open", "sending", "closing"} \/ (conn[t] # "closed" /\ (Ev \/ St))
  BY DEF Accepted, AcceptComes, Ev
<1>7. Accepted(t)' <=> conn'[t] \in {"open", "sending", "closing"} \/ (conn'[t] # "closed" /\ (Ev' \/ St'))
  BY DEF Accepted, AcceptComes, Ev
<1>8. CASE WorkerStep \/ UNCHANGED allVars
  BY <1>8 DEF WorkerStep, allVars, tunnelVars, connVars, Accepted, AcceptComes
<1>9. CASE ReaderTask
  <2>1. conn' = conn
    BY <1>9 DEF ReaderTask, ReaderTakes, ReaderUnblocks, ReaderLeaves, connVars
  <2>2. Ev' \/ St' => Ev \/ St \/ New
    <3>1. CASE ReaderTakes
      <4> DEFINE e == Head(out)
      <4>1. RouterReads
        BY <3>1 DEF ReaderTakes
      <4>2. CASE UNCHANGED <<events, stuck>>
        BY <4>2 DEF Ev
      <4>3. CASE e.req \in claimed /\ Deliver(e.req, EventOf(e.kind))
        <5>1. PICK k : k = EventOf(e.kind)
          OBVIOUS
        <5>2. k \in EventKinds /\ (k = "Accept" <=> e.kind = "Accept")
          BY <5>1 DEF EventOf, EventKinds
        <5>3. PICK q : q = e.req
          OBVIOUS
        <5>4. q \in Tunnels /\ q \in claimed /\ Deliver(q, k)
          BY <4>3, <5>1, <5>3, AllTunnels DEF EchoInv, Types
        <5>5. CASE q # t
          <6>1. events'[t] = events[t] /\ (St' => St)
            BY <1>1, <5>4, <5>5 DEF Deliver
          <6>2. QED
            BY <6>1 DEF Ev
        <5>6. CASE q = t
          <6>1. k # "Accept" => (Ev' => Ev) /\ (St' => St)
            <7>1. events'[t] = events[t] \/ events'[t] = Append(events[t], k)
              BY <1>1, <5>4, <5>6 DEF Deliver
            <7>2. Ev' => Ev \/ k = "Accept"
              BY <1>5, <5>2, <7>1 DEF Ev
            <7>3. St' => St \/ k = "Accept"
              BY <5>4, <5>6 DEF Deliver
            <7>4. QED
              BY <7>2, <7>3
          <6>2. QED
            BY <4>1, <5>2, <5>3, <5>4, <5>6, <6>1
        <5>7. QED
          BY <5>5, <5>6
      <4>4. QED
        BY <3>1, <4>2, <4>3 DEF ReaderTakes
    <3>2. CASE ReaderUnblocks
      <4>1. stuck # None /\ stuck.req \in Tunnels /\ stuck.kind \in EventKinds /\ stuck' = None
        BY <1>1, <3>2 DEF ReaderUnblocks
      <4>2. events'[t] = events[t] \/ (stuck.req = t /\ events'[t] = Append(events[t], stuck.kind))
        BY <1>1, <3>2, <4>1 DEF ReaderUnblocks
      <4>3. Ev' => Ev \/ St
        BY <1>5, <4>1, <4>2 DEF Ev
      <4>4. QED
        BY <4>1, <4>3
    <3>3. CASE ReaderLeaves
      <4>1. stuck' = stuck /\ (events'[t] = events[t] \/ events'[t] = Append(events[t], "Failed"))
        BY <1>1, <3>3 DEF ReaderLeaves
      <4>2. "Failed" \in EventKinds
        BY DEF EventKinds
      <4>3. Ev' => Ev
        BY <1>5, <4>1, <4>2 DEF Ev
      <4>4. QED
        BY <4>1, <4>3
    <3>4. QED
      BY <1>9, <3>1, <3>2, <3>3 DEF ReaderTask
  <2>3. QED
    BY <1>6, <1>7, <2>1, <2>2
<1>10. ASSUME NEW u \in Tunnels, Wait(u) \/ Serve(u) \/ WriteTo(u) \/ SweepAborts(u)
       PROVE  /\ Accepted(t)' => Accepted(t)
              /\ conn'[t] = "aborting" => conn[t] = "aborting" \/ t \in claimed
  <2>1. stuck' = stuck
    BY <1>10 DEF Wait, Serve, WriteTo, SweepAborts, Open, FirstEventTimeout, RouterDrops, ReadClient,
                 TakeMsg, CloseTunnel, TakeEvent, WriteMsg, WriteClose, WriteAbort, WriteFails, ToWorker
  <2>2. \/ events' = events \/ events' = [events EXCEPT ![u] = <<>>]
        \/ (events[u] # <<>> /\ events' = [events EXCEPT ![u] = Tail(@)])
    BY <1>10 DEF Wait, Serve, WriteTo, SweepAborts, Open, FirstEventTimeout, RouterDrops, ReadClient,
                 TakeMsg, CloseTunnel, TakeEvent, WriteMsg, WriteClose, WriteAbort, WriteFails, SendWs,
                 Leave, DropEvent, NextEvent
  <2>3. Ev' => Ev
    <3>1. events'[t] = events[t] \/ events'[t] = <<>> \/ (events[t] # <<>> /\ events'[t] = Tail(events[t]))
      BY <1>1, <2>2
    <3>2. QED
      BY <1>4, <3>1 DEF Ev
  <2>4. \/ conn' = conn
        \/ conn' = [conn EXCEPT ![u] = "closed"]
        \/ \E x \in {"open", "sending", "closing"} : conn' = [conn EXCEPT ![u] = x] /\ conn[u] \in {"open", "sending"}
        \/ conn' = [conn EXCEPT ![u] = "open"] /\ conn[u] = "offered" /\ NextEvent(u, "Accept")
        \/ conn' = [conn EXCEPT ![u] = "aborting"] /\ conn[u] = "offered" /\ events' = events /\ u \in claimed
    BY <1>10 DEF Wait, Serve, WriteTo, SweepAborts, Open, FirstEventTimeout, RouterDrops, ReadClient,
                 TakeMsg, CloseTunnel, TakeEvent, WriteMsg, WriteClose, WriteAbort, WriteFails, SendWs,
                 Leave
  <2>5. NextEvent(t, "Accept") => Ev
    <3>1. ASSUME NextEvent(t, "Accept") PROVE events[t][1] = "Accept" /\ 1 \in 1 .. Len(events[t])
      <4>1. events[t] # <<>> /\ Head(events[t]) = "Accept"
        BY <3>1 DEF NextEvent
      <4>2. Len(events[t]) \in Nat /\ Len(events[t]) # 0
        BY <1>1, <4>1
      <4>3. QED
        BY <1>2, <4>1, <4>2
    <3>2. QED
      BY <3>1 DEF Ev
  <2>6. /\ conn'[t] \in {"open", "sending", "closing"} =>
             \/ conn[t] \in {"open", "sending", "closing"}
             \/ conn[t] # "closed" /\ Ev
        /\ conn[t] = "closed" => conn'[t] = "closed"
        /\ conn'[t] = "aborting" => conn[t] = "aborting" \/ t \in claimed
    BY <1>1, <2>4, <2>5
  <2>7. QED
    BY <1>6, <1>7, <2>1, <2>3, <2>6
<1>11. QED
  BY <1>8, <1>9, <1>10 DEF TunnelNext

(* A tunnel that is accepted can be closed: what the router may still send *)
(* of it is used up by the close only, and then the task is gone.          *)
LEMMA CanClose ==
  ASSUME EchoInv, TaskInv, [TunnelNext]_allVars, NEW t \in Tunnels
  PROVE  Accepted(t)' /\ linked' => upload'[t] > 0
<1> SUFFICES ASSUME Accepted(t)', linked' PROVE upload'[t] > 0
  OBVIOUS
<1>1. upload \in [Requests -> 0 .. Chunks + 1] /\ t \in Requests /\ Chunks + 1 > 0 /\ out \in Seq(Entries)
  BY AllTunnels, Rooms DEF EchoInv, Types
<1>2. linked
  BY TunnelRefines, LinkStep DEF TaskInv
<1>3. \/ upload[t] > 0
      \/ RouterReads /\ Head(out).kind = "Accept" /\ Head(out).req = t /\ t \in claimed
  BY <1>2, AcceptMoves DEF TaskInv, Promise
<1>4. CASE RouterReads
  <2>1. PICK q : q = Head(out).req
    OBVIOUS
  <2>2. upload' = upload \/ upload' = [upload EXCEPT ![q] = Chunks + 1]
    BY <1>4, <2>1 DEF RouterReads
  <2>3. Head(out).kind = "Accept" /\ q \in claimed => upload' = [upload EXCEPT ![q] = Chunks + 1]
    BY <1>4, <2>1 DEF RouterReads
  <2>4. CASE upload[t] > 0
    BY <1>1, <2>2, <2>4
  <2>5. CASE Head(out).kind = "Accept" /\ Head(out).req = t /\ t \in claimed
    BY <1>1, <2>1, <2>3, <2>5
  <2>6. QED
    BY <1>3, <2>4, <2>5
<1>5. ASSUME ~RouterReads PROVE upload'[t] > 0
  <2>1. upload[t] > 0
    BY <1>3, <1>5
  <2>2. CASE upload' = upload
    BY <2>1, <2>2
  <2>3. ASSUME NEW u \in Tunnels, WriteClose(u) PROVE upload'[t] > 0
    <3>1. conn' = [conn EXCEPT ![u] = "closed"] /\ upload' = [upload EXCEPT ![u] = 0]
      BY <2>3 DEF WriteClose, Leave
    <3>2. u # t
      BY <3>1 DEF Accepted, TaskInv, TaskTypes
    <3>3. QED
      BY <1>1, <2>1, <3>1, <3>2
  <2>4. upload' = upload \/ \E u \in Tunnels : WriteClose(u)
    <3>1. CASE WorkerStep
      <4>1. CASE MainNext
        BY <4>1 DEF MainNext, Acquire, TakeRetire, Drain, Flushed, Recv, DropDatagram, SendClaim, routerVars
      <4>2. CASE ReaderNext
        BY <4>2 DEF ReaderNext, Route, Unhold, AnswerPing, ObeyAbort, ReaderEnds, SendFromReader,
           TakeDown, routerVars
      <4>3. CASE SendFails
        BY <4>3 DEF SendFails, routerVars
      <4>4. ASSUME NEW u \in Tunnels, HandlerNext(u) PROVE upload' = upload
        BY <4>4 DEF HandlerNext, Begin, TakeChunk, SendAccept, TakeMessage, SendMessage, SendLast,
           DropHandler, routerVars
      <4>5. QED
        BY <3>1, <4>1, <4>2, <4>3, <4>4 DEF WorkerStep
    <3>2. CASE ReaderTask
      BY <1>5, <3>2 DEF ReaderTask, ReaderTakes, ReaderUnblocks, ReaderLeaves, RouterCloses, vars, routerVars
    <3>3. ASSUME NEW u \in Tunnels, Wait(u) \/ Serve(u) \/ SweepAborts(u) PROVE upload' = upload
      BY <3>3 DEF Wait, Serve, SweepAborts, Open, FirstEventTimeout, RouterDrops, ReadClient, TakeMsg,
                  CloseTunnel, TakeEvent, vars, routerVars
    <3>4. ASSUME NEW u \in Tunnels, WriteMsg(u) \/ WriteAbort(u) \/ WriteFails(u) PROVE upload' = upload
      BY <3>4 DEF WriteMsg, WriteAbort, WriteFails, vars, routerVars
    <3>5. CASE UNCHANGED allVars
      BY <3>5 DEF allVars, vars, routerVars
    <3>6. QED
      BY <3>1, <3>2, <3>3, <3>4, <3>5 DEF TunnelNext, WriteTo
  <2>5. QED
    BY <2>2, <2>3, <2>4
<1>6. QED
  BY <1>4, <1>5

(* The tasks of the router keep their part.                                *)
LEMMA TaskStep ==
  ASSUME EchoInv, TaskInv, [TunnelNext]_allVars
  PROVE  TaskInv'
<1>1. [Next]_vars
  BY TunnelRefines
<1>2. TaskTypes' /\ Link'
  BY <1>1, TaskTypesStep, LinkStep DEF TaskInv
<1>3. ASSUME NEW t \in Tunnels PROVE Promise(t)'
  <2>1. Accepted(t)' /\ linked' => upload'[t] > 0
    BY CanClose
  <2>2. Accepted(t)' \/ conn'[t] = "aborting" => slot[t] = "taken"
    <3>1. t \in claimed => slot[t] = "taken"
      BY DEF EchoInv, Slots, ClaimsMatch
    <3>2. Accepted(t) \/ conn[t] = "aborting" => slot[t] = "taken"
      BY DEF TaskInv, Promise
    <3>3. QED
      BY <3>1, <3>2, AcceptMoves DEF TaskInv
  <2>3. slot[t] = "taken" => slot'[t] = "taken"
    BY <1>1, TakenStays, AllTunnels DEF EchoInv
  <2>4. QED
    BY <2>1, <2>2, <2>3 DEF Promise
<1>4. QED
  BY <1>2, <1>3 DEF TaskInv

(* Nothing has been offered yet.                                           *)
LEMMA TaskInit == TunnelInit => TaskInv
<1> SUFFICES ASSUME TunnelInit PROVE TaskInv
  OBVIOUS
<1>1. TaskTypes
  <2>1. <<>> \in Seq(EventKinds) /\ "offered" \in ConnStates
    BY DEF ConnStates
  <2>2. QED
    BY <2>1 DEF TunnelInit, TaskTypes
<1>2. Link
  BY DEF TunnelInit, Init, Link
<1>3. \A t \in Tunnels : conn[t] = "offered" /\ events[t] = <<>> /\ stuck = None
  BY DEF TunnelInit
<1>4. \A t \in Tunnels : ~Accepted(t)
  BY <1>3 DEF Accepted, AcceptComes
<1>5. QED
  BY <1>1, <1>2, <1>3, <1>4 DEF TaskInv, Promise

-----------------------------------------------------------------------------
(* The composition implements the worker's model.                          *)

(* The connection tasks, the reader task and the sweep do nothing that the *)
(* event-loop worker does not expect of its router: messages go out only   *)
(* after the 101, one close ends them, and no Abort comes for a request    *)
(* the router has not taken with its Claim. A connection task that gives   *)
(* up before the Claim frees the slot, and the late Claim is ignored.      *)
THEOREM RouterKeepsContract == TunnelSpec => EchoSafety
<1>1. TunnelInit => Init /\ EchoInv /\ TaskInv
  BY EchoInit, TaskInit DEF TunnelInit
<1>2. EchoInv /\ TaskInv /\ [TunnelNext]_allVars => (EchoInv /\ TaskInv)' /\ [Next]_vars
  BY TunnelRefines, EchoStep, TaskStep
<1>3. QED
  BY <1>1, <1>2, PTL DEF TunnelSpec, EchoSafety

(* So the worker's ledgers agree in the tunnel as well.                    *)
THEOREM TunnelLedgers == TunnelSpec => [](LedgersAgree /\ EndsOnce)
<1>1. EchoSafety => [](LedgersAgree /\ EndsOnce)
  BY LedgersKept, EndedOnce, PTL DEF EchoSafety, Spec
<1>2. QED
  BY <1>1, RouterKeepsContract, PTL

-----------------------------------------------------------------------------
(* How often an item is in a queue.                                        *)

Times(s, x) == Cardinality({i \in DOMAIN s : s[i] = x})

(* It is there a number of times.                                          *)
LEMMA TimesNat ==
  ASSUME NEW S, NEW s \in Seq(S), NEW x
  PROVE  /\ IsFiniteSet({i \in DOMAIN s : s[i] = x}) /\ Times(s, x) \in Nat
         /\ s = <<>> => Times(s, x) = 0
<1>1. DOMAIN s = 1 .. Len(s) /\ Len(s) \in Nat
  BY LenProperties
<1>2. IsFiniteSet(1 .. Len(s))
  BY <1>1, FS_Interval
<1>3. {i \in DOMAIN s : s[i] = x} \in SUBSET (1 .. Len(s))
  BY <1>1
<1>4. IsFiniteSet({i \in DOMAIN s : s[i] = x}) /\ Times(s, x) \in Nat
  BY <1>2, <1>3, FS_Subset, FS_CardinalityType DEF Times
<1>5. ASSUME s = <<>> PROVE Times(s, x) = 0
  <2>1. {i \in DOMAIN s : s[i] = x} = {}
    BY <1>5
  <2>2. QED
    BY <2>1, FS_EmptySet DEF Times
<1>6. QED
  BY <1>4, <1>5

\* t is s without its place p.
CutAt(s, t, p) ==
  /\ p \in 1 .. Len(s) /\ Len(t) = Len(s) - 1
  /\ \A i \in 1 .. Len(t) : t[i] = IF i < p THEN s[i] ELSE s[i + 1]

(* One place less.                                                         *)
LEMMA TimesCut ==
  ASSUME NEW S, NEW s \in Seq(S), NEW t \in Seq(S), NEW p, CutAt(s, t, p), NEW x
  PROVE  /\ s[p] = x => Times(s, x) = Times(t, x) + 1
         /\ s[p] # x => Times(s, x) = Times(t, x)
<1> DEFINE A == {i \in DOMAIN t : t[i] = x}
           B == {i \in DOMAIN s : s[i] = x}
           C == B \ {p}
           f == [i \in A |-> IF i < p THEN i ELSE i + 1]
<1>1. /\ DOMAIN s = 1 .. Len(s) /\ Len(s) \in Nat /\ p \in Int
      /\ DOMAIN t = 1 .. Len(t) /\ Len(t) \in Nat
      /\ p \in 1 .. Len(s) /\ Len(t) = Len(s) - 1
      /\ \A i \in 1 .. Len(t) : t[i] = IF i < p THEN s[i] ELSE s[i + 1]
  BY LenProperties DEF CutAt
<1>2. f \in [A -> C]
  BY <1>1
<1>3. \A a, b \in A : f[a] = f[b] => a = b
  BY <1>1
<1>4. ASSUME NEW j \in C PROVE \E a \in A : f[a] = j
  <2>1. j \in 1 .. Len(s) /\ s[j] = x /\ j # p
    BY <1>1
  <2>2. CASE j < p
    <3>1. j \in A /\ f[j] = j
      BY <1>1, <2>1, <2>2
    <3>2. QED
      BY <3>1
  <2>3. CASE ~(j < p)
    <3>1. j - 1 \in 1 .. Len(t) /\ ~(j - 1 < p) /\ (j - 1) + 1 = j
      BY <1>1, <2>1, <2>3
    <3>2. j - 1 \in A
      BY <1>1, <2>1, <3>1
    <3>3. f[j - 1] = j
      BY <3>1, <3>2
    <3>4. QED
      BY <3>2, <3>3
  <2>4. QED
    BY <2>2, <2>3
<1> HIDE DEF f
<1>5. f \in Bijection(A, C)
  BY <1>2, <1>3, <1>4, Fun_IsBij
<1>6. ExistsBijection(A, C)
  BY <1>5 DEF ExistsBijection
<1>7. IsFiniteSet(A) /\ IsFiniteSet(B) /\ Cardinality(B) \in Nat /\ Times(t, x) = Cardinality(A)
      /\ Times(s, x) = Cardinality(B)
  <2>1. IsFiniteSet(A) /\ IsFiniteSet(B)
    BY TimesNat
  <2>2. QED
    BY <2>1, FS_CardinalityType DEF Times
<1>8. Cardinality(C) = Cardinality(A)
  BY <1>6, <1>7, FS_Bijection
<1>9. Cardinality(C) = IF p \in B THEN Cardinality(B) - 1 ELSE Cardinality(B)
  BY <1>7, FS_RemoveElement
<1>10. p \in B <=> s[p] = x
  BY <1>1
<1> HIDE DEF A, B, C
<1>11. QED
  BY <1>7, <1>8, <1>9, <1>10

(* At the end of a queue and at its head.                                  *)
LEMMA TimesAppend ==
  ASSUME NEW S, NEW s \in Seq(S), NEW e \in S, NEW x
  PROVE  Times(Append(s, e), x) = Times(s, x) + Bit(e = x)
<1> DEFINE t == Append(s, e)
<1>1. /\ t \in Seq(S) /\ Len(t) = Len(s) + 1 /\ Len(s) \in Nat
      /\ \A i \in 1 .. Len(s) : t[i] = s[i]
      /\ t[Len(s) + 1] = e
  BY AppendProperties, LenProperties
<1> HIDE DEF t
<1> DEFINE p == Len(s) + 1
<1>2. CutAt(t, s, p)
  BY <1>1 DEF CutAt
<1> HIDE DEF p
<1>3. Times(s, x) \in Nat
  BY TimesNat
<1>4. /\ t[p] = x => Times(t, x) = Times(s, x) + 1
      /\ t[p] # x => Times(t, x) = Times(s, x)
  BY <1>1, <1>2, TimesCut
<1>5. QED
  BY <1>1, <1>3, <1>4 DEF t, p, Bit

(* The item at the head is gone.                                           *)
LEMMA TimesTail ==
  ASSUME NEW S, NEW s \in Seq(S), s # <<>>, NEW x
  PROVE  Times(s, x) = Times(Tail(s), x) + Bit(Head(s) = x)
<1> DEFINE t == Tail(s)
<1>1. /\ t \in Seq(S) /\ Len(t) = Len(s) - 1 /\ Len(t) \in Nat /\ Head(s) = s[1]
      /\ \A i \in 1 .. Len(t) : t[i] = s[i + 1]
  BY HeadTailProperties
<1> HIDE DEF t
<1>2. CutAt(s, t, 1)
  BY <1>1 DEF CutAt
<1>3. Times(t, x) \in Nat
  BY <1>1, TimesNat
<1>4. /\ s[1] = x => Times(s, x) = Times(t, x) + 1
      /\ s[1] # x => Times(s, x) = Times(t, x)
  BY <1>1, <1>2, TimesCut
<1>5. QED
  BY <1>1, <1>3, <1>4 DEF t, Bit

(* A cancelled handler takes its own entry with it and no other.           *)
LEMMA TimesWithout ==
  ASSUME NEW w \in Seq(Entries), NEW r, NEW q, NEW kind
  PROVE  LET x == [kind |-> kind, req |-> q]
         IN  /\ Times(Without(w, r), x) <= Times(w, x)
             /\ q # r => Times(Without(w, r), x) = Times(w, x)
<1> DEFINE x == [kind |-> kind, req |-> q]
           own == {i \in 1 .. Len(w) : w[i].req = r /\ w[i].kind \in HandlerKinds}
           t == Without(w, r)
<1>1. Times(w, x) \in Nat
  BY TimesNat
<1>2. CASE own = {}
  <2>1. t = w
    BY <1>2 DEF Without
  <2>2. QED
    BY <1>1, <2>1
<1>3. CASE own # {}
  <2>1. PICK p : p = CHOOSE i \in own : TRUE
    OBVIOUS
  <2>2. p \in own /\ t = RemoveAt(w, p)
    BY <1>3, <2>1 DEF Without
  <2>3. p \in 1 .. Len(w) /\ w[p].req = r
    BY <2>2
  <2>4. PICK u : u = t
    OBVIOUS
  <2>5. PICK y : y = x
    OBVIOUS
  <2>6. u \in Seq(Entries) /\ CutAt(w, u, p)
    BY <2>2, <2>3, <2>4, RemoveAtEntries DEF CutAt
  <2>7. w[p] = y => q = r
    BY <2>3, <2>5
  <2> HIDE DEF x, t, own
  <2>8. /\ w[p] = y => Times(w, y) = Times(u, y) + 1
        /\ w[p] # y => Times(w, y) = Times(u, y)
    BY <2>6, TimesCut
  <2>9. Times(u, y) \in Nat
    BY <2>6, TimesNat
  <2>10. Times(u, y) <= Times(w, y) /\ (q # r => Times(u, y) = Times(w, y))
    BY <1>1, <2>5, <2>7, <2>8, <2>9
  <2>11. QED
    BY <2>4, <2>5, <2>10 DEF t, x
<1>4. QED
  BY <1>2, <1>3

-----------------------------------------------------------------------------
(* Where the messages of a tunnel can be.                                  *)

Msg(t)  == [kind |-> "Msg", req |-> t]
Echo(t) == [kind |-> "Message", req |-> t]

InDown(t)    == Times(down, Msg(t))
InHold(t)    == Bit(hold = Msg(t))
InChan(t)    == Times(chan[t], "Msg")
InWaiting(t) == Times(waiting, Echo(t))
InOut(t)     == Times(out, Echo(t))
InEvents(t)  == Times(events[t], "Message")
InStuck(t)   == Bit(stuck = [req |-> t, kind |-> "Message"])

InWorker(t) == InDown(t) + InHold(t) + InChan(t) + InWaiting(t) + InOut(t)
InRouter(t) == InEvents(t) + InStuck(t)

\* What goes to a worker that serves tunnels only.
Wire ==
  /\ down \in Seq([kind : {"Msg", "Close", "Abort"}, req : Tunnels])
  /\ hold \in [kind : {"Msg", "Close"}, req : Tunnels] \cup {None}
  /\ chan \in [Tunnels -> Seq({"Msg", "Close"})]

\* Its handlers have their inbound channels, from the Claim on.
Routed ==
  \A t \in Tunnels : handler[t] # "reading" /\ (Active(t) \/ Claiming(t) => t \in bodies)

\* Before the 101 there is no message; then each has one place.
BalanceOf(t) ==
  /\ conn[t] = "offered" => sent[t] = 0 /\ back[t] = 0 /\ InWorker(t) = 0 /\ InRouter(t) = 0
  /\ conn[t] \in {"open", "sending"} /\ linked /\ Active(t) =>
       sent[t] = back[t] + InWorker(t) + InRouter(t)
Balance == \A t \in Tunnels : BalanceOf(t)

(* Each place holds a number of them.                                      *)
LEMMA Amounts ==
  ASSUME Types, TaskTypes, NEW t \in Tunnels
  PROVE  /\ InDown(t) \in Nat /\ InHold(t) \in {0, 1} /\ InChan(t) \in Nat
         /\ InWaiting(t) \in Nat /\ InOut(t) \in Nat
         /\ InEvents(t) \in Nat /\ InStuck(t) \in {0, 1}
         /\ InWorker(t) \in Nat /\ InRouter(t) \in Nat
<1>1. /\ down \in Seq(DownFrames) /\ chan[t] \in Seq(Inbound) /\ waiting \in Seq(Entries)
      /\ out \in Seq(Entries) /\ events[t] \in Seq(EventKinds)
  BY AllTunnels DEF Types, TaskTypes
<1>2. InDown(t) \in Nat /\ InChan(t) \in Nat /\ InWaiting(t) \in Nat /\ InOut(t) \in Nat
      /\ InEvents(t) \in Nat
  BY <1>1, TimesNat DEF InDown, InChan, InWaiting, InOut, InEvents
<1>3. InHold(t) \in {0, 1} /\ InStuck(t) \in {0, 1}
  BY DEF InHold, InStuck, Bit
<1>4. QED
  BY <1>2, <1>3 DEF InWorker, InRouter

(* Nothing in hand is not a message.                                       *)
LEMMA NoneHeld ==
  ASSUME NEW t \in Tunnels
  PROVE  None # Msg(t) /\ None # [req |-> t, kind |-> "Message"]
<1>1. Msg(t) \in DownFrames
  BY AllTunnels DEF Msg, DownFrames, Inbound
<1>2. [req |-> t, kind |-> "Message"] \in [kind : EventKinds, req : Tunnels]
  BY DEF EventKinds
<1>3. QED
  BY <1>1, <1>2, NoneAssumption

(* The queue of senders and the stream, one step of them.                  *)
LEMMA MovesAwait ==
  ASSUME Types, NEW kind \in HandlerKinds \cup ReaderKinds \cup {"Claim"}, NEW r \in Requests,
         Await(kind, r), NEW t
  PROVE  InWaiting(t)' = InWaiting(t) + Bit(kind = "Message" /\ r = t)
<1>1. PICK e : e = [kind |-> kind, req |-> r]
  OBVIOUS
<1>2. PICK x : x = Echo(t)
  OBVIOUS
<1>3. e \in Entries /\ waiting \in Seq(Entries) /\ waiting' = Append(waiting, e)
  BY <1>1, AwaitEnters
<1>4. e = x <=> kind = "Message" /\ r = t
  BY <1>1, <1>2 DEF Echo
<1>5. Times(Append(waiting, e), x) = Times(waiting, x) + Bit(e = x)
  BY <1>3, TimesAppend
<1>6. Bit(e = x) = Bit(kind = "Message" /\ r = t)
  BY <1>4 DEF Bit
<1>7. QED
  BY <1>2, <1>3, <1>5, <1>6 DEF InWaiting, Echo

(* The head of the writers' queue goes out, or is dropped.                 *)
LEMMA MovesUp ==
  ASSUME Types, TaskTypes, waiting # <<>>, waiting' = Tail(waiting), NEW t \in Tunnels
  PROVE  /\ InWaiting(t)' <= InWaiting(t)
         /\ InWaiting(t)' \in Nat
         /\ out' = Append(out, Head(waiting)) => InWaiting(t)' + InOut(t)' = InWaiting(t) + InOut(t)
<1>1. PICK x : x = Echo(t)
  OBVIOUS
<1>2. PICK e : e = Head(waiting)
  OBVIOUS
<1>3. waiting \in Seq(Entries) /\ waiting' \in Seq(Entries) /\ out \in Seq(Entries) /\ e \in Entries
  BY <1>2 DEF Types
<1>4. Times(waiting, x) = Times(waiting', x) + Bit(e = x)
  BY <1>2, <1>3, TimesTail
<1>5. Times(waiting', x) \in Nat /\ Times(out, x) \in Nat /\ Times(waiting, x) \in Nat
  BY <1>3, TimesNat
<1>6. Times(Append(out, e), x) = Times(out, x) + Bit(e = x)
  BY <1>3, TimesAppend
<1>7. Bit(e = x) \in {0, 1}
  BY DEF Bit
<1>8. PICK b \in {0, 1} : b = Bit(e = x)
  BY <1>7
<1>9. InWaiting(t) = Times(waiting, x) /\ InWaiting(t)' = Times(waiting', x)
      /\ InOut(t) = Times(out, x) /\ InOut(t)' = Times(out', x)
  BY <1>1 DEF InWaiting, InOut, Echo
<1>10. Times(waiting, x) = Times(waiting', x) + b /\ Times(Append(out, e), x) = Times(out, x) + b
  BY <1>4, <1>6, <1>8
<1>11. Times(waiting', x) <= Times(waiting, x)
  BY <1>5, <1>10
<1>12. out' = Append(out, e) => Times(waiting', x) + Times(out', x) = Times(waiting, x) + Times(out, x)
  BY <1>5, <1>10
<1>13. QED
  BY <1>2, <1>5, <1>9, <1>11, <1>12

(* A tunnel's inbound channel is there as long as its handler runs.        *)
LEMMA RoutedStep ==
  ASSUME EchoInv, Routed, [Next]_vars
  PROVE  Routed'
<1>1. Types /\ Queue /\ HandlesMatch /\ handler \in [Requests -> HandlerStates] /\ Requests = Tunnels
  BY AllTunnels DEF EchoInv, Ledgers, Types
<1>2. \A q \in Requests : Claiming(q) => handler[q] = "none"
  BY DEF EchoInv, Ledgers, Story, StoryOf
<1> DEFINE Others ==
      \/ UNCHANGED waiting
      \/ waiting # <<>> /\ waiting' = Tail(waiting)
      \/ \E kind \in HandlerKinds \cup ReaderKinds, r \in Requests : Await(kind, r)
      \/ \E r \in Requests :
           waiting' = Append(Without(waiting, r), [kind |-> "Cancelled", req |-> r])
<1>3. ASSUME Others PROVE \A q \in Requests : Claiming(q)' => Claiming(q)
  BY <1>1, <1>3, NoNewClaim
<1>4. \A q \in Requests : Active(q) <=> handler[q] \notin {"none", "aborting"}
  BY DEF Active
<1>5. \A q \in Requests : Active(q)' <=> handler'[q] \notin {"none", "aborting"}
  BY DEF Active
<1>6. ASSUME Others, bodies' = bodies, NEW r \in Requests, NEW x \in HandlerStates, x # "reading",
             handler' = handler \/ handler' = [handler EXCEPT ![r] = x],
             Active(r) \/ Claiming(r) \/ x \in {"none", "aborting"}
      PROVE  Routed'
  <2>1. \A q \in Requests : handler'[q] = handler[q] \/ (q = r /\ handler'[q] = x)
    BY <1>1, <1>6
  <2>2. \A q \in Requests : Active(q)' \/ Claiming(q)' => Active(q) \/ Claiming(q)
    BY <1>3, <1>4, <1>5, <1>6, <2>1
  <2>3. QED
    BY <1>1, <1>6, <2>1, <2>2 DEF Routed
<1>7. ASSUME Others, NEW r \in Requests, bodies' = bodies \ {r}, ~Claiming(r),
             NEW x \in {"none", "aborting"}, handler' = [handler EXCEPT ![r] = x]
      PROVE  Routed'
  <2>1. \A q \in Requests : handler'[q] = IF q = r THEN x ELSE handler[q]
    BY <1>1, <1>7
  <2>2. \A q \in Requests : Active(q)' \/ Claiming(q)' => q # r /\ (Active(q) \/ Claiming(q))
    BY <1>3, <1>4, <1>5, <1>7, <2>1
  <2>3. QED
    BY <1>1, <1>7, <2>1, <2>2 DEF Routed
<1>8. ASSUME Others, bodies' = bodies, handler' = handler PROVE Routed'
  <2>1. \A q \in Requests : Active(q)' \/ Claiming(q)' => Active(q) \/ Claiming(q)
    BY <1>3, <1>4, <1>5, <1>8
  <2>2. QED
    BY <1>1, <1>8, <2>1 DEF Routed
<1>9. {"none", "aborting", "new", "accepting", "mirroring", "echoing", "sending"} \subseteq HandlerStates
  BY DEF HandlerStates
<1>10. CASE MainNext
  <2>1. CASE Acquire \/ TakeRetire \/ Drain \/ Flushed \/ \E r \in Requests : DropDatagram(r)
    <3>1. Others /\ bodies' = bodies /\ handler' = handler
      BY <2>1 DEF Acquire, TakeRetire, Drain, Flushed, DropDatagram, handlerVars, outVars
    <3>2. QED
      BY <1>8, <3>1
  <2>2. ASSUME NEW r \in Requests, Recv(r) PROVE Routed'
    <3>1. handler' = handler /\ bodies' = bodies \cup {r}
      BY <1>1, <2>2 DEF Recv
    <3> DEFINE e == [kind |-> "Claim", req |-> r]
    <3>2. e \in Entries /\ e.req = r /\ waiting \in Seq(Entries) /\ waiting' = Append(waiting, e)
      BY <1>1, <2>2, AwaitEnters DEF Recv
    <3> HIDE DEF e
    <3>3. \A q \in Requests : Claiming(q)' => Claiming(q) \/ q = r
      BY <3>2, Enters DEF Claiming
    <3>4. QED
      BY <1>1, <1>4, <1>5, <3>1, <3>3 DEF Routed
  <2>3. ASSUME NEW r \in Requests, SendClaim(r) PROVE Routed'
    <3>1. /\ Head(waiting).kind = "Claim" /\ Head(waiting).req = r
          /\ waiting # <<>> /\ waiting' = Tail(waiting)
      BY <1>1, <2>3, SendsHead DEF SendClaim
    <3>2. Claiming(r)
      BY <1>1, <3>1, Leaves
    <3>3. bodies' = bodies /\ handler' = [handler EXCEPT ![r] = "new"]
      BY <2>3 DEF SendClaim
    <3>4. QED
      BY <1>6, <1>9, <3>1, <3>2, <3>3
  <2>4. QED
    BY <1>10, <2>1, <2>2, <2>3 DEF MainNext
<1>11. ASSUME NEW r \in Requests, HandlerNext(r) PROVE Routed'
  <2>1. LastKinds \cup {"Accept", "Message"} \subseteq HandlerKinds \cup ReaderKinds
    BY DEF HandlerKinds
  <2>2. CASE Begin(r)
    <3>1. handler[r] = "new" /\ bodies' = bodies /\ Others
          /\ \E x \in {"accepting", "sending"} : handler' = [handler EXCEPT ![r] = x]
      BY <2>1, <2>2, AllTunnels DEF Begin, LastKinds
    <3>2. Active(r)
      BY <3>1 DEF Active
    <3>3. QED
      BY <1>6, <1>9, <3>1, <3>2
  <2>3. CASE TakeChunk(r)
    BY <1>1, <2>3 DEF TakeChunk, Routed
  <2>4. CASE SendAccept(r) \/ TakeMessage(r) \/ SendMessage(r)
    <3>1. bodies' = bodies /\ Others
          /\ \E x \in {"mirroring", "sending", "echoing"} : handler' = [handler EXCEPT ![r] = x]
      BY <2>1, <2>4 DEF SendAccept, TakeMessage, SendMessage, Sends, LastKinds
    <3>2. Active(r)
      <4>1. CASE TakeMessage(r)
        BY <4>1 DEF TakeMessage, Active
      <4>2. ASSUME NEW kind \in {"Accept", "Message"}, Sends(kind, r), waiting' = Tail(waiting)
            PROVE  Active(r)
        <5>1. /\ Head(waiting).kind = kind /\ Head(waiting).req = r /\ waiting # <<>>
          BY <1>1, <4>2, SendsHead
        <5>2. Waits(main, handler, reader, Head(waiting))
          BY <1>1, <4>2, <5>1, Leaves
        <5>3. handler[r] \in {"accepting", "echoing"}
          BY <4>2, <5>1, <5>2 DEF Waits
        <5>4. QED
          BY <5>3 DEF Active
      <4>3. QED
        BY <2>4, <4>1, <4>2 DEF SendAccept, SendMessage
    <3>3. QED
      BY <1>6, <1>9, <3>1, <3>2
  <2>5. CASE SendLast(r)
    <3>1. PICK kind \in LastKinds : Sends(kind, r)
      BY <2>5 DEF SendLast
    <3>2. waiting' = Tail(waiting) /\ bodies' = bodies \ {r} /\ handler' = [handler EXCEPT ![r] = "none"]
      BY <2>5 DEF SendLast, TaskEnds
    <3>3. Head(waiting).kind = kind /\ Head(waiting).req = r /\ waiting # <<>>
      BY <1>1, <3>1, <3>2, SendsHead
    <3>4. Waits(main, handler, reader, Head(waiting))
      BY <1>1, <3>2, <3>3, Leaves
    <3>5. handler[r] = "sending"
      BY <3>3, <3>4 DEF Waits
    <3>6. ~Claiming(r)
      BY <1>2, <3>5
    <3>7. QED
      BY <1>7, <3>2, <3>3, <3>6
  <2>6. CASE DropHandler(r)
    <3>1. bodies' = bodies /\ Others /\ handler' = [handler EXCEPT ![r] = "none"]
      BY <2>6 DEF DropHandler, outVars
    <3>2. QED
      BY <1>6, <1>9, <3>1
  <2>7. QED
    BY <1>11, <2>2, <2>3, <2>4, <2>5, <2>6 DEF HandlerNext
<1>12. CASE ReaderNext
  <2>1. CASE Route \/ Unhold \/ ReaderEnds \/ AnswerPing
    <3>1. Others /\ handler' = handler /\ bodies' = bodies
      BY <1>1, <2>1, TakesDown DEF Route, Unhold, ReaderEnds, AnswerPing, TakeDown, ReaderKinds,
         handlerVars, outVars
    <3>2. QED
      BY <1>8, <3>1
  <2>2. CASE ObeyAbort
    <3>1. PICK r : r = Head(down).req
      OBVIOUS
    <3>2. r \in Requests
      BY <1>1, <2>2, <3>1, TakesDown DEF ObeyAbort
    <3>3. CASE r \in inflight
      <4>1. handler' = [handler EXCEPT ![r] = "aborting"] /\ bodies' = bodies \ {r} /\ Others
        BY <2>2, <3>1, <3>2, <3>3 DEF ObeyAbort
      <4>2. ~Claiming(r)
        BY <1>1, <1>2, <3>2, <3>3 DEF HandlesMatch
      <4>3. QED
        BY <1>7, <3>2, <4>1, <4>2
    <3>4. CASE r \notin inflight
      <4>1. Others /\ handler' = handler /\ bodies' = bodies
        BY <2>2, <3>1, <3>4 DEF ObeyAbort
      <4>2. QED
        BY <1>8, <4>1
    <3>5. QED
      BY <3>3, <3>4
  <2>3. ASSUME NEW r \in Requests, SendFromReader(r) PROVE Routed'
    <3>1. Others /\ handler' = handler /\ bodies' = bodies
      BY <2>3 DEF SendFromReader, Sends, handlerVars
    <3>2. QED
      BY <1>8, <3>1
  <2>4. QED
    BY <1>12, <2>1, <2>2, <2>3 DEF ReaderNext
<1>13. CASE RouterNext \/ UNCHANGED vars
  <2>1. Others /\ handler' = handler /\ bodies' = bodies
    BY <1>13 DEF RouterNext, RouterReads, RouterCloses, RouterDrops, Upload, Message, Control,
       Write, vars, handlerVars, outVars
  <2>2. QED
    BY <1>8, <2>1
<1>14. CASE SendFails
  <2>1. waiting # <<>> /\ waiting' = Tail(waiting)
    BY <1>14 DEF SendFails
  <2>2. CASE handler' = handler /\ bodies' = bodies
    BY <1>8, <2>1, <2>2
  <2>3. CASE Head(waiting).kind \in HandlerKinds /\ TaskEnds(Head(waiting).req)
    <3>1. PICK r : r = Head(waiting).req
      OBVIOUS
    <3>2. Head(waiting) \in Entries /\ Waits(main, handler, reader, Head(waiting))
      BY <1>1, <2>1, Leaves
    <3>3. r \in Requests /\ handler[r] \in {"accepting", "echoing", "sending"}
      BY <2>3, <3>1, <3>2 DEF Waits, Entries, HandlerKinds
    <3>4. ~Claiming(r)
      BY <1>2, <3>3
    <3>5. bodies' = bodies \ {r} /\ handler' = [handler EXCEPT ![r] = "none"]
      BY <2>3, <3>1 DEF TaskEnds
    <3>6. QED
      BY <1>7, <2>1, <3>3, <3>4, <3>5
  <2>4. QED
    BY <1>14, <2>2, <2>3 DEF SendFails
<1>15. QED
  BY <1>10, <1>11, <1>12, <1>13, <1>14 DEF Next

(* Only messages, closes and Aborts go to the worker.                      *)
LEMMA WireStep ==
  ASSUME EchoInv, Wire, Routed, [TunnelNext]_allVars
  PROVE  Wire'
<1> DEFINE F == [kind : {"Msg", "Close", "Abort"}, req : Tunnels]
           I == {"Msg", "Close"}
           Do == down \in Seq(F)
           Ho == hold \in [kind : I, req : Tunnels] \cup {None}
           Ch == chan \in [Tunnels -> Seq(I)]
<1>1. Do /\ Ho /\ Ch /\ Requests = Tunnels /\ Types
  BY AllTunnels DEF Wire, EchoInv
<1>2. \A t \in Tunnels : /\ chan[t] # <<>> => Tail(chan[t]) \in Seq(I)
                         /\ \A k \in I : Append(chan[t], k) \in Seq(I)
  BY <1>1
<1>3. <<>> \in Seq(I)
  OBVIOUS
<1>4. ASSUME UNCHANGED <<hold, chan>>, down' = down \/ (down # <<>> /\ down' = Tail(down)) PROVE Wire'
  <2>1. down # <<>> => Tail(down) \in Seq(F)
    BY <1>1
  <2>2. QED
    BY <1>1, <1>4, <2>1 DEF Wire
<1>5. ASSUME UNCHANGED <<hold, down>>, NEW r \in Tunnels,
             chan' = chan \/ chan' = [chan EXCEPT ![r] = <<>>]
               \/ (chan[r] # <<>> /\ chan' = [chan EXCEPT ![r] = Tail(@)])
      PROVE  Wire'
  <2>1. Ch'
    BY <1>1, <1>2, <1>3, <1>5
  <2>2. QED
    BY <1>1, <1>5, <2>1 DEF Wire
<1>6. ASSUME UNCHANGED <<hold, chan, down>> PROVE Wire'
  BY <1>4, <1>6
<1>7. ASSUME UNCHANGED <<hold, chan>>, NEW k \in {"Msg", "Close", "Abort"}, NEW t \in Tunnels,
             down' = Append(down, [kind |-> k, req |-> t])
      PROVE  Wire'
  <2>1. [kind |-> k, req |-> t] \in F
    OBVIOUS
  <2>2. Do'
    BY <1>1, <1>7, <2>1
  <2>3. QED
    BY <1>1, <1>7, <2>2 DEF Wire
<1>8. CASE MainNext
  BY <1>6, <1>8 DEF MainNext, Acquire, TakeRetire, Drain, Flushed, Recv, DropDatagram, SendClaim,
                    handlerVars, readerVars, routerVars
<1>9. ASSUME NEW r \in Tunnels, HandlerNext(r) PROVE Wire'
  <2>1. UNCHANGED <<hold, down>>
    BY <1>9 DEF HandlerNext, Begin, TakeChunk, SendAccept, TakeMessage, SendMessage, SendLast, DropHandler,
                readerVars, routerVars
  <2>2. \/ chan' = chan \/ chan' = [chan EXCEPT ![r] = <<>>]
        \/ (chan[r] # <<>> /\ chan' = [chan EXCEPT ![r] = Tail(@)])
    BY <1>9 DEF HandlerNext, Begin, TakeChunk, SendAccept, TakeMessage, SendMessage, SendLast,
       TaskEnds, DropHandler
  <2>3. QED
    BY <1>5, <2>1, <2>2
<1>10. CASE ReaderNext
  <2>1. CASE Route
    <3>1. PICK f : f = Head(down)
      OBVIOUS
    <3>2. /\ down # <<>> /\ down' = Tail(down) /\ f.kind \in Inbound
          /\ chan' = chan \/ chan' = [chan EXCEPT ![f.req] = Append(@, f.kind)]
          /\ hold' = hold \/ hold' = f
      BY <2>1, <3>1 DEF Route, TakeDown
    <3>3. f \in F /\ Tail(down) \in Seq(F)
      <4>1. PICK G : G = F
        OBVIOUS
      <4>2. down \in Seq(G) /\ down # <<>>
        BY <1>1, <3>2, <4>1
      <4>3. Head(down) \in G /\ Tail(down) \in Seq(G)
        BY <4>2
      <4>4. QED
        BY <3>1, <4>1, <4>3
    <3>4. f \in [kind : I, req : Tunnels] /\ f.req \in Tunnels /\ f.kind \in I
      BY <3>2, <3>3 DEF Inbound
    <3>5. Ch'
      BY <1>1, <1>2, <3>2, <3>4
    <3>6. QED
      BY <1>1, <3>2, <3>3, <3>4, <3>5 DEF Wire
  <2>2. CASE Unhold
    <3>1. /\ hold \in [kind : I, req : Tunnels] /\ hold' = None /\ down' = down
          /\ chan' = chan \/ chan' = [chan EXCEPT ![hold.req] = Append(@, hold.kind)]
      BY <1>1, <2>2 DEF Unhold, routerVars
    <3>2. hold.req \in Tunnels /\ hold.kind \in I
      BY <3>1
    <3>3. Ch'
      BY <1>1, <1>2, <3>1, <3>2
    <3>4. QED
      BY <1>1, <3>1, <3>3 DEF Wire
  <2>3. CASE AnswerPing \/ ObeyAbort \/ ReaderEnds \/ \E r \in Requests : SendFromReader(r)
    <3>1. UNCHANGED <<hold, chan>> /\ (down' = down \/ (down # <<>> /\ down' = Tail(down)))
      BY <2>3 DEF AnswerPing, ObeyAbort, ReaderEnds, SendFromReader, TakeDown, handlerVars, routerVars
    <3>2. QED
      BY <1>4, <3>1
  <2>4. QED
    BY <1>10, <2>1, <2>2, <2>3 DEF ReaderNext
<1>11. CASE SendFails
  <2>1. UNCHANGED <<hold, down>> /\ (chan' = chan \/ chan' = [chan EXCEPT ![Head(waiting).req] = <<>>])
    BY <1>11 DEF SendFails, TaskEnds, routerVars
  <2>2. PICK r : r = Head(waiting).req
    OBVIOUS
  <2>3. r \in Tunnels
    <3>1. waiting # <<>> /\ waiting \in Seq(Entries)
      BY <1>1, <1>11 DEF SendFails, Types
    <3>2. Head(waiting) \in Entries
      BY <3>1
    <3>3. QED
      BY <1>1, <2>2, <3>2 DEF Entries
  <2>4. QED
    BY <1>5, <2>1, <2>2, <2>3
<1>12. CASE ReaderTask
  BY <1>6, <1>12 DEF ReaderTask, ReaderTakes, ReaderUnblocks, ReaderLeaves, RouterReads, RouterCloses, vars,
                     handlerVars, readerVars, routerVars
<1>13. ASSUME NEW t \in Tunnels, Wait(t) \/ Serve(t) \/ WriteFails(t) PROVE Wire'
  BY <1>6, <1>13 DEF Wait, Serve, Open, FirstEventTimeout, RouterDrops, ReadClient, TakeMsg,
                     CloseTunnel, TakeEvent, WriteFails, vars, handlerVars, readerVars, routerVars
<1>14. ASSUME NEW t \in Tunnels, WriteMsg(t) \/ WriteClose(t) \/ WriteAbort(t) \/ SweepAborts(t) PROVE Wire'
  <2>1. UNCHANGED <<hold, chan>>
    BY <1>14 DEF WriteMsg, WriteClose, WriteAbort, SweepAborts, ToWorker, workerVars, handlerVars, readerVars
  <2>2. \E k \in {"Msg", "Close", "Abort"} : down' = Append(down, [kind |-> k, req |-> t])
    BY <1>14 DEF WriteMsg, WriteClose, WriteAbort, SweepAborts, ToWorker
  <2>3. QED
    BY <1>7, <2>1, <2>2
<1>15. CASE UNCHANGED allVars
  BY <1>6, <1>15 DEF allVars, vars, handlerVars, readerVars, routerVars
<1>16. QED
  BY <1>8, <1>9, <1>10, <1>11, <1>12, <1>13, <1>14, <1>15 DEF TunnelNext, WorkerStep, WriteTo

(* What does not touch the queues leaves their messages.                   *)
LEMMA Unmoved ==
  ASSUME UNCHANGED <<down, hold, chan, waiting, out>>, NEW t
  PROVE  InWorker(t)' = InWorker(t)
BY DEF InWorker, InDown, InHold, InChan, InWaiting, InOut

(* The worker mirrors every message of a tunnel it serves, and makes up    *)
(* none: a message moves from queue to queue.                              *)
LEMMA WorkerMoves ==
  ASSUME EchoInv, TaskTypes, Wire, Routed, WorkerStep, NEW t \in Tunnels
  PROVE  /\ InWorker(t)' <= InWorker(t)
         /\ linked' /\ Active(t)' /\ PastClaim(t) => Active(t) /\ InWorker(t)' = InWorker(t)
<1> DEFINE Less == InWorker(t)' <= InWorker(t)
           Same == InWorker(t)' = InWorker(t)
<1>1. /\ Types /\ Queue /\ HandlesMatch /\ Requests = Tunnels /\ handler \in [Requests -> HandlerStates]
      /\ chan \in [Tunnels -> Seq({"Msg", "Close"})]
  BY AllTunnels DEF EchoInv, Ledgers, Types, Wire
<1>2. /\ InDown(t) \in Nat /\ InHold(t) \in {0, 1} /\ InChan(t) \in Nat
      /\ InWaiting(t) \in Nat /\ InOut(t) \in Nat /\ InWorker(t) \in Nat
  BY <1>1, Amounts
<1>3. /\ Active(t) <=> handler[t] \notin {"none", "aborting"}
      /\ Active(t)' <=> handler'[t] \notin {"none", "aborting"}
  BY DEF Active
<1>4. ASSUME UNCHANGED <<down, hold, chan, out>>, InWaiting(t)' = InWaiting(t) PROVE Same
  BY <1>4 DEF InWorker, InDown, InHold, InChan, InOut
<1>5. ASSUME UNCHANGED <<down, hold, chan>>, waiting # <<>>, waiting' = Tail(waiting), out' = Append(out, Head(waiting))
      PROVE  Same
  <2>1. InWaiting(t)' + InOut(t)' = InWaiting(t) + InOut(t)
    BY <1>1, <1>5, MovesUp
  <2>2. InWaiting(t)' \in Nat /\ InOut(t)' \in Nat
    <3>1. out' \in Seq(Entries) /\ waiting' \in Seq(Entries)
      BY <1>1, <1>5 DEF Types
    <3>2. QED
      BY <3>1, TimesNat DEF InWaiting, InOut, Echo
  <2>3. InDown(t)' = InDown(t) /\ InHold(t)' = InHold(t) /\ InChan(t)' = InChan(t)
    BY <1>5 DEF InDown, InHold, InChan
  <2>4. QED
    BY <1>2, <2>1, <2>2, <2>3 DEF InWorker
<1>6. CASE MainNext
  <2>1. CASE Acquire \/ TakeRetire \/ Drain \/ Flushed \/ \E r \in Requests : DropDatagram(r)
    <3>1. UNCHANGED <<down, hold, chan, waiting, out, handler>>
      BY <2>1 DEF Acquire, TakeRetire, Drain, Flushed, DropDatagram, handlerVars, readerVars,
         outVars, routerVars
    <3>2. QED
      BY <1>2, <1>3, <3>1, Unmoved
  <2>2. ASSUME NEW r \in Requests, Recv(r) PROVE Same /\ handler' = handler
    <3>1. UNCHANGED <<down, hold, chan, out, handler>> /\ Await("Claim", r)
      BY <2>2 DEF Recv, readerVars
    <3>2. InWaiting(t)' = InWaiting(t) + Bit("Claim" = "Message" /\ r = t)
      BY <1>1, <3>1, MovesAwait
    <3>3. InWaiting(t)' = InWaiting(t)
      BY <1>2, <3>2 DEF Bit
    <3>4. QED
      BY <1>4, <3>1, <3>3
  <2>3. ASSUME NEW r \in Requests, SendClaim(r) PROVE Same /\ (Active(t)' /\ PastClaim(t) => Active(t))
    <3>1. /\ Head(waiting).kind = "Claim" /\ Head(waiting).req = r
          /\ waiting # <<>> /\ waiting' = Tail(waiting) /\ out' = Append(out, Head(waiting))
      BY <1>1, <2>3, SendsHead DEF SendClaim
    <3>2. Claiming(r)
      BY <1>1, <3>1, Leaves
    <3>3. UNCHANGED <<down, hold, chan>> /\ handler' = [handler EXCEPT ![r] = "new"]
      BY <2>3 DEF SendClaim, readerVars, routerVars
    <3>4. PastClaim(t) => r # t
      BY <3>2 DEF PastClaim
    <3>5. r # t => handler'[t] = handler[t]
      BY <1>1, <3>3
    <3>6. QED
      BY <1>3, <1>5, <3>1, <3>3, <3>4, <3>5
  <2>4. QED
    BY <1>2, <1>3, <1>6, <2>1, <2>2, <2>3 DEF MainNext
<1>7. ASSUME NEW r \in Requests, HandlerNext(r) PROVE Less /\ (Active(t)' => Active(t) /\ Same)
  <2>1. CASE Begin(r)
    <3>1. PICK x \in HandlerStates : handler[r] = "new" /\ handler' = [handler EXCEPT ![r] = x]
      BY <2>1, <1>1 DEF Begin, HandlerStates
    <3>2. Active(t)' => Active(t)
      BY <1>1, <1>3, <3>1
    <3>3. UNCHANGED <<down, hold, chan, out>>
      BY <2>1 DEF Begin, readerVars, routerVars
    <3>4. PICK kind \in {"Accept", "Reply", "Error"} : Await(kind, r)
      BY <2>1, AllTunnels DEF Begin
    <3>5. kind \in HandlerKinds \cup ReaderKinds \cup {"Claim"} /\ kind # "Message"
      BY <3>4 DEF HandlerKinds, LastKinds
    <3>6. InWaiting(t)' = InWaiting(t) + Bit(kind = "Message" /\ r = t)
      BY <1>1, <3>4, <3>5, MovesAwait
    <3>7. InWaiting(t)' = InWaiting(t)
      BY <1>2, <3>5, <3>6 DEF Bit
    <3>8. QED
      BY <1>2, <1>4, <3>2, <3>3, <3>7
  <2>2. CASE TakeChunk(r)
    BY <1>1, <2>2 DEF TakeChunk, Routed
  <2>3. CASE TakeMessage(r)
    <3>1. PICK k : k = Head(chan[r])
      OBVIOUS
    <3>2. PICK kind : kind = IF k = "Close" THEN "End" ELSE "Message"
      OBVIOUS
    <3>3. /\ handler[r] = "mirroring" /\ chan[r] # <<>> /\ Await(kind, r)
          /\ chan' = [chan EXCEPT ![r] = Tail(@)] /\ UNCHANGED <<down, hold, out>>
          /\ \E x \in HandlerStates : handler' = [handler EXCEPT ![r] = x]
      BY <2>3, <3>1, <3>2 DEF TakeMessage, readerVars, routerVars, HandlerStates
    <3>4. Active(t)' => Active(t)
      BY <1>1, <1>3, <3>3
    <3>5. chan[r] \in Seq({"Msg", "Close"}) /\ k \in {"Msg", "Close"}
      BY <1>1, <3>1, <3>3
    <3>6. kind \in HandlerKinds \cup ReaderKinds \cup {"Claim"} /\ (kind = "Message" <=> k = "Msg")
      BY <3>2, <3>5 DEF HandlerKinds, LastKinds
    <3>7. InWaiting(t)' = InWaiting(t) + Bit(kind = "Message" /\ r = t)
      BY <1>1, <3>3, <3>6, MovesAwait
    <3>8. InDown(t)' = InDown(t) /\ InHold(t)' = InHold(t) /\ InOut(t)' = InOut(t)
      BY <3>3 DEF InDown, InHold, InOut
    <3>9. CASE r # t
      <4>1. chan'[t] = chan[t]
        BY <1>1, <3>3, <3>9
      <4>2. InChan(t)' = InChan(t)
        BY <4>1 DEF InChan
      <4>3. InWaiting(t)' = InWaiting(t)
        BY <1>2, <3>7, <3>9 DEF Bit
      <4>4. QED
        BY <1>2, <3>4, <3>8, <4>2, <4>3 DEF InWorker
    <3>10. CASE r = t
      <4>1. chan'[t] = Tail(chan[t]) /\ chan[t] # <<>> /\ k = Head(chan[t])
        BY <1>1, <3>1, <3>3, <3>10
      <4>2. InChan(t) = InChan(t)' + Bit(k = "Msg")
        BY <3>5, <3>10, <4>1, TimesTail DEF InChan
      <4>3. InChan(t)' \in Nat
        <5>1. chan'[t] \in Seq({"Msg", "Close"})
          BY <3>5, <3>10, <4>1
        <5>2. QED
          BY <5>1, TimesNat DEF InChan
      <4>4. CASE k = "Msg"
        <5>1. InChan(t) = InChan(t)' + 1 /\ InWaiting(t)' = InWaiting(t) + 1
          BY <3>6, <3>7, <3>10, <4>2, <4>4 DEF Bit
        <5>2. QED
          BY <1>2, <3>4, <3>8, <4>3, <5>1 DEF InWorker
      <4>5. CASE k # "Msg"
        <5>1. InChan(t) = InChan(t)' + 0 /\ InWaiting(t)' = InWaiting(t) + 0
          BY <3>6, <3>7, <3>10, <4>2, <4>5 DEF Bit
        <5>2. QED
          BY <1>2, <3>4, <3>8, <4>3, <5>1 DEF InWorker
      <4>6. QED
        BY <4>4, <4>5
    <3>11. QED
      BY <3>9, <3>10
  <2>4. CASE SendAccept(r) \/ SendMessage(r)
    <3>1. PICK kind \in {"Accept", "Message"} : Sends(kind, r)
      BY <2>4 DEF SendAccept, SendMessage
    <3>2. waiting' = Tail(waiting) /\ UNCHANGED <<down, hold, chan>>
          /\ handler' = [handler EXCEPT ![r] = "mirroring"]
      BY <2>4 DEF SendAccept, SendMessage, readerVars, routerVars
    <3>3. Head(waiting).kind = kind /\ Head(waiting).req = r /\ waiting # <<>>
          /\ out' = Append(out, Head(waiting))
      BY <1>1, <3>1, <3>2, SendsHead
    <3>4. Waits(main, handler, reader, Head(waiting))
      BY <1>1, <3>2, <3>3, Leaves
    <3>5. handler[r] \in {"accepting", "echoing"}
      BY <3>1, <3>3, <3>4 DEF Waits
    <3>6. Active(t)' => Active(t)
      BY <1>1, <1>3, <3>2, <3>5
    <3>7. QED
      BY <1>2, <1>5, <3>2, <3>3, <3>6
  <2>5. CASE SendLast(r)
    <3>1. PICK kind \in LastKinds : Sends(kind, r)
      BY <2>5 DEF SendLast
    <3>2. waiting' = Tail(waiting) /\ handler' = [handler EXCEPT ![r] = "none"]
          /\ chan' = [chan EXCEPT ![r] = <<>>] /\ UNCHANGED <<down, hold>>
      BY <2>5 DEF SendLast, TaskEnds, readerVars, routerVars
    <3>3. waiting # <<>> /\ out' = Append(out, Head(waiting))
      BY <1>1, <3>1, <3>2, SendsHead
    <3>4. Active(t)' => r # t /\ Active(t)
      BY <1>1, <1>3, <3>2
    <3>5. InWaiting(t)' + InOut(t)' = InWaiting(t) + InOut(t)
      BY <1>1, <3>2, <3>3, MovesUp
    <3>6. InWaiting(t)' \in Nat /\ InOut(t)' \in Nat
      <4>1. out' \in Seq(Entries) /\ waiting' \in Seq(Entries)
        BY <1>1, <3>2, <3>3 DEF Types
      <4>2. QED
        BY <4>1, TimesNat DEF InWaiting, InOut, Echo
    <3>7. InDown(t)' = InDown(t) /\ InHold(t)' = InHold(t)
      BY <3>2 DEF InDown, InHold
    <3>8. InChan(t)' = InChan(t) \/ (r = t /\ InChan(t)' = 0)
      <4>1. r # t => chan'[t] = chan[t]
        BY <1>1, <3>2
      <4>2. r = t => chan'[t] = <<>>
        BY <1>1, <3>2
      <4>3. <<>> \in Seq({"Msg"})
        OBVIOUS
      <4>4. Times(<<>>, "Msg") = 0
        BY <4>3, TimesNat
      <4>5. QED
        BY <4>1, <4>2, <4>4 DEF InChan
    <3>9. QED
      BY <1>2, <3>4, <3>5, <3>6, <3>7, <3>8 DEF InWorker
  <2>6. CASE DropHandler(r)
    <3>1. handler' = [handler EXCEPT ![r] = "none"] /\ chan' = [chan EXCEPT ![r] = <<>>]
          /\ UNCHANGED <<down, hold, waiting, out>>
      BY <2>6 DEF DropHandler, readerVars, outVars, routerVars
    <3>2. Active(t)' => r # t /\ Active(t)
      BY <1>1, <1>3, <3>1
    <3>3. InDown(t)' = InDown(t) /\ InHold(t)' = InHold(t) /\ InWaiting(t)' = InWaiting(t)
          /\ InOut(t)' = InOut(t)
      BY <3>1 DEF InDown, InHold, InWaiting, InOut
    <3>4. InChan(t)' = InChan(t) \/ (r = t /\ InChan(t)' = 0)
      <4>1. r # t => chan'[t] = chan[t]
        BY <1>1, <3>1
      <4>2. r = t => chan'[t] = <<>>
        BY <1>1, <3>1
      <4>3. <<>> \in Seq({"Msg"})
        OBVIOUS
      <4>4. Times(<<>>, "Msg") = 0
        BY <4>3, TimesNat
      <4>5. QED
        BY <4>1, <4>2, <4>4 DEF InChan
    <3>5. QED
      BY <1>2, <3>2, <3>3, <3>4 DEF InWorker
  <2>7. QED
    BY <1>7, <2>1, <2>2, <2>3, <2>4, <2>5, <2>6 DEF HandlerNext
<1>8. CASE ReaderNext
  <2>1. handler' = handler \/ \E r \in Requests : handler' = [handler EXCEPT ![r] = "aborting"]
    <3>1. CASE Route \/ Unhold \/ AnswerPing \/ ReaderEnds \/ \E r \in Requests : SendFromReader(r)
      BY <3>1 DEF Route, Unhold, AnswerPing, ReaderEnds, SendFromReader, handlerVars
    <3>2. CASE ObeyAbort
      BY <1>1, <3>2, TakesDown DEF ObeyAbort
    <3>3. QED
      BY <1>8, <3>1, <3>2 DEF ReaderNext
  <2>2. Active(t)' => Active(t)
    BY <1>1, <1>3, <2>1
  <2>3. ASSUME TakeDown
        PROVE  /\ InDown(t) = InDown(t)' + Bit(Head(down) = Msg(t)) /\ InDown(t)' \in Nat
               /\ Head(down) \in [kind : {"Msg", "Close", "Abort"}, req : Tunnels]
    <3>1. PICK F : F = [kind : {"Msg", "Close", "Abort"}, req : Tunnels]
      OBVIOUS
    <3>2. PICK x : x = Msg(t)
      OBVIOUS
    <3>3. down \in Seq(F) /\ down # <<>> /\ down' = Tail(down)
      BY <2>3, <3>1 DEF Wire, TakeDown
    <3>4. Tail(down) \in Seq(F) /\ Head(down) \in F
      BY <3>3
    <3>5. Times(down, x) = Times(Tail(down), x) + Bit(Head(down) = x) /\ Times(Tail(down), x) \in Nat
      BY <3>3, <3>4, TimesTail, TimesNat
    <3>6. InDown(t) = Times(down, x) /\ InDown(t)' = Times(Tail(down), x)
      BY <3>2, <3>3 DEF InDown, Msg
    <3>7. QED
      BY <3>1, <3>2, <3>4, <3>5, <3>6
  <2>4. CASE Route
    <3>1. PICK f : f = Head(down)
      OBVIOUS
    <3>2. TakeDown /\ hold = None /\ UNCHANGED <<waiting, out>> /\ f.kind \in Inbound
      BY <2>4, <3>1 DEF Route, TakeDown
    <3>3. f \in [kind : {"Msg", "Close"}, req : Tunnels] /\ f.req \in Tunnels /\ f.kind \in {"Msg", "Close"}
      BY <2>3, <3>1, <3>2 DEF Inbound
    <3>4. InHold(t) = 0
      BY <3>2, NoneHeld DEF InHold, Bit
    <3>5. InWaiting(t)' = InWaiting(t) /\ InOut(t)' = InOut(t)
      BY <3>2 DEF InWaiting, InOut
    <3>6. f = Msg(t) <=> f.kind = "Msg" /\ f.req = t
      BY <3>3 DEF Msg
    <3>7. CASE (f.req \notin bodies \/ ~HasReceiver(f.req)) /\ UNCHANGED <<chan, hold>>
      <4>1. InChan(t)' = InChan(t) /\ InHold(t)' = 0
        BY <3>4, <3>7 DEF InChan, InHold
      <4>2. ASSUME Active(t) PROVE f # Msg(t)
        <5>1. t \in bodies /\ handler[t] # "reading"
          BY <4>2 DEF Routed
        <5>2. HasReceiver(t)
          BY <1>1, <4>2, <5>1 DEF HasReceiver, Active, HandlerStates
        <5>3. QED
          BY <3>6, <3>7, <5>1, <5>2
      <4>3. Active(t) => InDown(t)' = InDown(t)
        <5>1. ASSUME Active(t) PROVE Bit(f = Msg(t)) = 0
          BY <4>2, <5>1 DEF Bit
        <5>2. QED
          BY <1>2, <2>3, <3>1, <3>2, <5>1
      <4>4. InDown(t)' <= InDown(t) /\ InDown(t)' \in Nat
        <5>1. Bit(f = Msg(t)) \in {0, 1}
          BY DEF Bit
        <5>2. QED
          BY <2>3, <3>1, <3>2, <5>1
      <4>5. QED
        BY <1>2, <2>2, <3>4, <3>5, <4>1, <4>3, <4>4 DEF InWorker
    <3>8. CASE chan' = [chan EXCEPT ![f.req] = Append(@, f.kind)] /\ UNCHANGED hold
      <4>1. PICK k \in {"Msg", "Close"}, r \in Tunnels : k = f.kind /\ r = f.req
        BY <3>3
      <4>2. chan' = [chan EXCEPT ![r] = Append(@, k)]
        BY <3>8, <4>1
      <4>3. InHold(t)' = 0
        BY <3>4, <3>8 DEF InHold
      <4>4. CASE r = t
        <5>1. chan'[t] = Append(chan[t], k) /\ chan[t] \in Seq({"Msg", "Close"})
          BY <1>1, <4>2, <4>4
        <5>2. InChan(t)' = InChan(t) + Bit(k = "Msg")
          BY <5>1, TimesAppend DEF InChan
        <5>3. Bit(f = Msg(t)) = Bit(k = "Msg") /\ Bit(k = "Msg") \in {0, 1}
          BY <3>6, <4>1, <4>4 DEF Bit
        <5>4. Same
          BY <1>2, <2>3, <3>1, <3>2, <3>4, <3>5, <4>3, <5>2, <5>3 DEF InWorker
        <5>5. QED
          BY <1>2, <2>2, <5>4
      <4>5. CASE r # t
        <5>1. InChan(t)' = InChan(t)
          BY <1>1, <4>2, <4>5 DEF InChan
        <5>2. Bit(f = Msg(t)) = 0
          BY <3>6, <4>1, <4>5 DEF Bit
        <5>3. Same
          BY <1>2, <2>3, <3>1, <3>2, <3>4, <3>5, <4>3, <5>1, <5>2 DEF InWorker
        <5>4. QED
          BY <1>2, <2>2, <5>3
      <4>6. QED
        BY <4>4, <4>5
    <3>9. CASE hold' = f /\ UNCHANGED chan
      <4>1. InChan(t)' = InChan(t)
        BY <3>9 DEF InChan
      <4>2. InHold(t)' = Bit(f = Msg(t)) /\ Bit(f = Msg(t)) \in {0, 1}
        BY <3>9 DEF InHold, Bit, Msg
      <4>3. Same
        BY <1>2, <2>3, <3>1, <3>2, <3>4, <3>5, <4>1, <4>2 DEF InWorker
      <4>4. QED
        BY <1>2, <2>2, <4>3
    <3>10. QED
      BY <2>4, <3>1, <3>7, <3>8, <3>9 DEF Route
  <2>5. CASE Unhold
    <3>1. hold # None /\ hold' = None /\ UNCHANGED <<waiting, out, down, handler>>
      BY <2>5 DEF Unhold, outVars, routerVars
    <3>2. hold \in [kind : {"Msg", "Close"}, req : Tunnels]
      BY <3>1 DEF Wire
    <3>3. PICK k \in {"Msg", "Close"}, r \in Tunnels : k = hold.kind /\ r = hold.req
          /\ hold = [kind |-> k, req |-> r]
      BY <3>2
    <3>4. hold = Msg(t) <=> k = "Msg" /\ r = t
      BY <3>3 DEF Msg
    <3>5. InHold(t)' = 0
      BY <3>1, NoneHeld DEF InHold, Bit, Msg
    <3>6. InWaiting(t)' = InWaiting(t) /\ InOut(t)' = InOut(t) /\ InDown(t)' = InDown(t)
      BY <3>1 DEF InWaiting, InOut, InDown
    <3>7. CASE ~HasReceiver(r) /\ UNCHANGED chan
      <4>1. InChan(t)' = InChan(t)
        BY <3>7 DEF InChan
      <4>2. ASSUME Active(t) PROVE InHold(t) = 0
        <5>1. handler[t] # "reading"
          BY DEF Routed
        <5>2. HasReceiver(t)
          BY <1>1, <4>2, <5>1 DEF HasReceiver, Active, HandlerStates
        <5>3. hold # Msg(t)
          BY <3>4, <3>7, <5>2
        <5>4. QED
          BY <5>3 DEF InHold, Bit
      <4>3. QED
        BY <1>2, <2>2, <3>5, <3>6, <4>1, <4>2 DEF InWorker
    <3>8. CASE chan' = [chan EXCEPT ![r] = Append(@, k)]
      <4>1. CASE r = t
        <5>1. chan'[t] = Append(chan[t], k) /\ chan[t] \in Seq({"Msg", "Close"})
          BY <1>1, <3>8, <4>1
        <5>2. InChan(t)' = InChan(t) + Bit(k = "Msg")
          BY <5>1, TimesAppend DEF InChan
        <5>3. InHold(t) = Bit(k = "Msg")
          BY <3>4, <4>1 DEF InHold, Bit
        <5>4. Same
          BY <1>2, <3>5, <3>6, <5>2, <5>3 DEF InWorker
        <5>5. QED
          BY <1>2, <2>2, <5>4
      <4>2. CASE r # t
        <5>1. InChan(t)' = InChan(t)
          BY <1>1, <3>8, <4>2 DEF InChan
        <5>2. InHold(t) = 0
          BY <3>4, <4>2 DEF InHold, Bit
        <5>3. Same
          BY <1>2, <3>5, <3>6, <5>1, <5>2 DEF InWorker
        <5>4. QED
          BY <1>2, <2>2, <5>3
      <4>3. QED
        BY <4>1, <4>2
    <3>9. QED
      BY <2>5, <3>3, <3>7, <3>8 DEF Unhold
  <2>6. CASE AnswerPing
    BY <2>3, <2>6 DEF AnswerPing
  <2>7. CASE ObeyAbort
    <3>1. PICK r : r = Head(down).req
      OBVIOUS
    <3>2. TakeDown /\ Head(down).kind = "Abort" /\ UNCHANGED <<hold, chan, out>>
      BY <2>7 DEF ObeyAbort, TakeDown
    <3>3. Bit(Head(down) = Msg(t)) = 0
      BY <3>2 DEF Bit, Msg
    <3>4. InDown(t)' = InDown(t) /\ InHold(t)' = InHold(t) /\ InChan(t)' = InChan(t) /\ InOut(t)' = InOut(t)
      BY <1>2, <2>3, <3>2, <3>3 DEF InHold, InChan, InOut
    <3>5. r \in Requests
      BY <1>1, <3>1, <3>2, TakesDown
    <3>6. CASE r \notin inflight
      <4>1. waiting' = waiting /\ handler' = handler
        BY <2>7, <3>1, <3>6 DEF ObeyAbort
      <4>2. InWaiting(t)' = InWaiting(t)
        BY <4>1 DEF InWaiting
      <4>3. Same
        BY <3>4, <4>2 DEF InWorker
      <4>4. QED
        BY <1>2, <2>2, <4>3
    <3>7. CASE r \in inflight
      <4>1. /\ waiting' = Append(Without(waiting, r), [kind |-> "Cancelled", req |-> r])
            /\ handler' = [handler EXCEPT ![r] = "aborting"]
        BY <2>7, <3>1, <3>7 DEF ObeyAbort
      <4>2. PICK w, e, x : w = Without(waiting, r) /\ e = [kind |-> "Cancelled", req |-> r] /\ x = Echo(t)
        OBVIOUS
      <4>3. w \in Seq(Entries) /\ waiting \in Seq(Entries)
        BY <1>1, <3>5, <4>2, WithoutEntries DEF Types, Queue, QueueOK
      <4>4. e \in Entries /\ e # x
        BY <3>5, <4>2 DEF Entries, ReaderKinds, Echo
      <4>5. Times(Append(w, e), x) = Times(w, x) + Bit(e = x) /\ Times(w, x) \in Nat
        <5>1. Times(w, x) \in Nat
          BY <4>3, TimesNat
        <5>2. Times(Append(w, e), x) = Times(w, x) + Bit(e = x)
          BY <4>3, <4>4, TimesAppend
        <5>3. QED
          BY <5>1, <5>2
      <4>6. Bit(e = x) = 0
        BY <4>4 DEF Bit
      <4>7. Times(w, x) <= Times(waiting, x) /\ (t # r => Times(w, x) = Times(waiting, x))
        BY <4>2, <4>3, TimesWithout DEF Echo
      <4>8. InWaiting(t)' = Times(Append(w, e), x) /\ InWaiting(t) = Times(waiting, x)
        BY <4>1, <4>2 DEF InWaiting, Echo
      <4>9. Active(t)' => t # r
        BY <1>1, <1>3, <4>1
      <4>10. InWaiting(t)' <= InWaiting(t) /\ InWaiting(t)' \in Nat /\ (t # r => InWaiting(t)' = InWaiting(t))
        BY <4>5, <4>6, <4>7, <4>8
      <4>11. QED
        BY <1>2, <2>2, <3>4, <4>9, <4>10 DEF InWorker
    <3>8. QED
      BY <3>6, <3>7
  <2>8. CASE ReaderEnds
    <3>1. UNCHANGED <<down, hold, chan, waiting, out>>
      BY <2>8 DEF ReaderEnds, handlerVars, outVars, routerVars
    <3>2. QED
      BY <1>2, <2>2, <3>1, Unmoved
  <2>9. ASSUME NEW r \in Requests, SendFromReader(r) PROVE Same
    <3>1. PICK kind \in ReaderKinds : Sends(kind, r)
      BY <2>9 DEF SendFromReader
    <3>2. waiting' = Tail(waiting) /\ UNCHANGED <<down, hold, chan>>
      BY <2>9 DEF SendFromReader, handlerVars, routerVars
    <3>3. waiting # <<>> /\ out' = Append(out, Head(waiting))
      BY <1>1, <3>1, <3>2, SendsHead
    <3>4. QED
      BY <1>5, <3>2, <3>3
  <2>10. QED
    BY <1>2, <1>8, <2>2, <2>4, <2>5, <2>6, <2>7, <2>8, <2>9 DEF ReaderNext
<1>9. CASE SendFails
  <2>1. ~linked /\ linked' = linked /\ waiting # <<>> /\ waiting' = Tail(waiting)
        /\ UNCHANGED <<down, hold, out>>
    BY <1>9 DEF SendFails, routerVars
  <2>2. InWaiting(t)' <= InWaiting(t) /\ InWaiting(t)' \in Nat
    BY <1>1, <2>1, MovesUp
  <2>3. InDown(t)' = InDown(t) /\ InHold(t)' = InHold(t) /\ InOut(t)' = InOut(t)
    BY <2>1 DEF InDown, InHold, InOut
  <2>4. InChan(t)' = InChan(t) \/ InChan(t)' = 0
    <3>1. PICK r : r = Head(waiting).req
      OBVIOUS
    <3>2. chan' = chan \/ chan' = [chan EXCEPT ![r] = <<>>]
      BY <1>9, <3>1 DEF SendFails, TaskEnds
    <3>3. chan'[t] = chan[t] \/ chan'[t] = <<>>
      BY <1>1, <3>2
    <3>4. <<>> \in Seq({"Msg"})
      OBVIOUS
    <3>5. Times(<<>>, "Msg") = 0
      BY <3>4, TimesNat
    <3>6. QED
      BY <3>3, <3>5 DEF InChan
  <2>5. QED
    BY <1>2, <2>1, <2>2, <2>3, <2>4 DEF InWorker
<1>10. QED
  BY <1>1, <1>2, <1>6, <1>7, <1>8, <1>9 DEF WorkerStep

-----------------------------------------------------------------------------
(* No message is lost.                                                     *)

FlowInv == EchoInv /\ TaskInv /\ Wire /\ Routed /\ Balance

(* The places hold a number of messages after a step as well.              *)
LEMMA AmountsNext ==
  ASSUME Types', TaskTypes', NEW t \in Tunnels
  PROVE  /\ InDown(t)' \in Nat /\ InHold(t)' \in {0, 1} /\ InChan(t)' \in Nat
         /\ InWaiting(t)' \in Nat /\ InOut(t)' \in Nat
         /\ InEvents(t)' \in Nat /\ InStuck(t)' \in {0, 1}
         /\ InWorker(t)' \in Nat /\ InRouter(t)' \in Nat
<1>1. /\ down' \in Seq(DownFrames) /\ chan'[t] \in Seq(Inbound) /\ waiting' \in Seq(Entries)
      /\ out' \in Seq(Entries) /\ events'[t] \in Seq(EventKinds)
  BY AllTunnels DEF Types, TaskTypes
<1>2. /\ InDown(t)' \in Nat /\ InChan(t)' \in Nat /\ InWaiting(t)' \in Nat /\ InOut(t)' \in Nat
      /\ InEvents(t)' \in Nat
  BY <1>1, TimesNat DEF InDown, InChan, InWaiting, InOut, InEvents, Msg, Echo
<1>3. InHold(t)' \in {0, 1} /\ InStuck(t)' \in {0, 1}
  BY DEF InHold, InStuck, Bit
<1>4. QED
  BY <1>2, <1>3 DEF InWorker, InRouter

(* A frame goes to the worker.                                             *)
LEMMA DownGrows ==
  ASSUME Types, NEW k \in {"Msg", "Close", "Abort"}, NEW u \in Tunnels, NEW t \in Tunnels,
         down' = Append(down, [kind |-> k, req |-> u]), UNCHANGED <<hold, chan, waiting, out>>
  PROVE  InWorker(t)' = InWorker(t) + Bit(k = "Msg" /\ u = t)
<1>1. PICK f, x : f = [kind |-> k, req |-> u] /\ x = Msg(t)
  OBVIOUS
<1>2. f \in DownFrames /\ down \in Seq(DownFrames)
  BY <1>1, AllTunnels DEF DownFrames, Inbound, Types
<1>3. Times(Append(down, f), x) = Times(down, x) + Bit(f = x)
  BY <1>2, TimesAppend
<1>4. f = x <=> k = "Msg" /\ u = t
  BY <1>1 DEF Msg
<1>5. Bit(f = x) = Bit(k = "Msg" /\ u = t) /\ Bit(k = "Msg" /\ u = t) \in {0, 1}
  BY <1>4 DEF Bit
<1>6. InDown(t)' = Times(Append(down, f), x) /\ InDown(t) = Times(down, x)
  BY <1>1 DEF InDown, Msg
<1>7. UNCHANGED <<InHold(t), InChan(t), InWaiting(t), InOut(t)>>
  BY DEF InHold, InChan, InWaiting, InOut
<1>8. /\ InHold(t) \in {0, 1} /\ InChan(t) \in Nat /\ InWaiting(t) \in Nat /\ InOut(t) \in Nat
      /\ InDown(t) \in Nat
  <2>1. chan[t] \in Seq(Inbound) /\ waiting \in Seq(Entries) /\ out \in Seq(Entries)
    BY AllTunnels DEF Types
  <2>2. InChan(t) \in Nat /\ InWaiting(t) \in Nat /\ InOut(t) \in Nat /\ InDown(t) \in Nat
    BY <1>2, <2>1, TimesNat DEF InChan, InWaiting, InOut, InDown
  <2>3. QED
    BY <2>2 DEF InHold, Bit
<1>9. PICK b \in {0, 1} : b = Bit(k = "Msg" /\ u = t)
  BY <1>5
<1>10. InDown(t)' = InDown(t) + b
  BY <1>3, <1>5, <1>6, <1>9
<1>11. InWorker(t)' = InWorker(t) + b
  BY <1>7, <1>8, <1>10 DEF InWorker
<1>12. QED
  BY <1>9, <1>11

(* An event is queued, or taken.                                           *)
LEMMA EventsMove ==
  ASSUME TaskTypes, NEW t \in Tunnels
  PROVE  /\ \A k \in EventKinds : events'[t] = Append(events[t], k) =>
              /\ k = "Message" => InEvents(t)' = InEvents(t) + 1
              /\ k # "Message" => InEvents(t)' = InEvents(t)
         /\ events'[t] = events[t] => InEvents(t)' = InEvents(t)
         /\ events[t] # <<>> /\ events'[t] = Tail(events[t]) =>
              /\ Head(events[t]) = "Message" => InEvents(t) = InEvents(t)' + 1
              /\ Head(events[t]) # "Message" => InEvents(t) = InEvents(t)'
         /\ InEvents(t) \in Nat
<1>1. events[t] \in Seq(EventKinds)
  BY DEF TaskTypes
<1>2. InEvents(t) \in Nat
  BY <1>1, TimesNat DEF InEvents
<1>3. ASSUME NEW k \in EventKinds, events'[t] = Append(events[t], k)
      PROVE  /\ k = "Message" => InEvents(t)' = InEvents(t) + 1
             /\ k # "Message" => InEvents(t)' = InEvents(t)
  <2>1. InEvents(t)' = InEvents(t) + Bit(k = "Message")
    BY <1>1, <1>3, TimesAppend DEF InEvents
  <2>2. QED
    BY <1>2, <2>1 DEF Bit
<1>4. ASSUME events[t] # <<>>, events'[t] = Tail(events[t])
      PROVE  /\ Head(events[t]) = "Message" => InEvents(t) = InEvents(t)' + 1
             /\ Head(events[t]) # "Message" => InEvents(t) = InEvents(t)'
  <2>1. InEvents(t) = InEvents(t)' + Bit(Head(events[t]) = "Message")
    BY <1>1, <1>4, TimesTail DEF InEvents
  <2>2. InEvents(t)' \in Nat
    <3>1. events'[t] \in Seq(EventKinds)
      BY <1>1, <1>4
    <3>2. QED
      BY <3>1, TimesNat DEF InEvents
  <2>3. QED
    BY <2>1, <2>2 DEF Bit
<1>5. events'[t] = events[t] => InEvents(t)' = InEvents(t)
  BY DEF InEvents
<1>6. QED
  BY <1>2, <1>3, <1>4, <1>5

(* A step of the reader task.                                              *)
LEMMA ReaderBalance ==
  ASSUME FlowInv, ReaderTask, Types', TaskTypes', NEW t \in Tunnels
  PROVE  BalanceOf(t)'
<1>1. /\ EchoInv /\ Types /\ TaskTypes /\ BalanceOf(t) /\ Promise(t) /\ Requests = Tunnels
      /\ stuck \in [req : Tunnels, kind : EventKinds] \cup {None}
  BY AllTunnels DEF FlowInv, TaskInv, EchoInv, Balance, TaskTypes
<1>2. /\ InDown(t) \in Nat /\ InHold(t) \in {0, 1} /\ InChan(t) \in Nat
      /\ InWaiting(t) \in Nat /\ InOut(t) \in Nat
      /\ InEvents(t) \in Nat /\ InStuck(t) \in {0, 1}
      /\ InWorker(t) \in Nat /\ InRouter(t) \in Nat
  BY <1>1, Amounts
<1>3. /\ InDown(t)' \in Nat /\ InHold(t)' \in {0, 1} /\ InChan(t)' \in Nat
      /\ InWaiting(t)' \in Nat /\ InOut(t)' \in Nat
      /\ InEvents(t)' \in Nat /\ InStuck(t)' \in {0, 1}
      /\ InWorker(t)' \in Nat /\ InRouter(t)' \in Nat
  BY AmountsNext
<1>4. UNCHANGED <<conn, sent, back>>
  BY DEF ReaderTask, ReaderTakes, ReaderUnblocks, ReaderLeaves, connVars
<1>5. UNCHANGED <<down, hold, chan, waiting, handler>>
  BY DEF ReaderTask, ReaderTakes, ReaderUnblocks, ReaderLeaves, RouterReads, RouterCloses, vars,
         handlerVars, readerVars, outVars, routerVars
<1>6. UNCHANGED <<InDown(t), InHold(t), InChan(t), InWaiting(t), Active(t)>>
  BY <1>5 DEF InDown, InHold, InChan, InWaiting, Active
<1>7. stuck = None => InStuck(t) = 0
  BY NoneHeld DEF InStuck, Bit
<1>8. stuck' = None => InStuck(t)' = 0
  BY NoneHeld DEF InStuck, Bit
<1>9. CASE ReaderTakes
  <2>1. stuck = None /\ RouterReads /\ out # <<>> /\ out' = Tail(out) /\ linked' = linked
    BY <1>9 DEF ReaderTakes, RouterReads
  <2>2. PICK e : e = Head(out)
    OBVIOUS
  <2>3. e \in Entries /\ e.req \in Tunnels
    <3>1. out \in Seq(Entries)
      BY <1>1 DEF Types
    <3>2. Head(out) \in Entries
      BY <2>1, <3>1
    <3>3. QED
      BY <1>1, <2>2, <3>2 DEF Entries
  <2>4. PICK k : k = EventOf(e.kind)
    OBVIOUS
  <2>5. k \in EventKinds /\ (k = "Message" <=> e.kind = "Message")
    BY <2>4 DEF EventOf, EventKinds
  <2>6. PICK q \in Tunnels : q = e.req
    BY <2>3
  <2>7. \/ (e.kind \in {"Claim", "Pong"} \/ q \notin claimed) /\ UNCHANGED <<events, stuck>>
        \/ e.kind \notin {"Claim", "Pong"} /\ q \in claimed /\ Deliver(q, k)
    BY <1>9, <2>2, <2>4, <2>6 DEF ReaderTakes
  <2>8. e = Echo(t) <=> k = "Message" /\ q = t
    BY <2>3, <2>5, <2>6 DEF Echo, Entries
  <2>9. InOut(t) = InOut(t)' + Bit(e = Echo(t))
    <3>1. PICK x : x = Echo(t)
      OBVIOUS
    <3>2. out \in Seq(Entries)
      BY <1>1 DEF Types
    <3>3. Times(out, x) = Times(Tail(out), x) + Bit(e = x)
      BY <2>1, <2>2, <3>2, TimesTail
    <3>4. QED
      BY <2>1, <3>1, <3>3 DEF InOut, Echo
  <2>10. CASE e = Echo(t)
    <3>1. InOut(t) = InOut(t)' + 1
      BY <2>9, <2>10 DEF Bit
    <3>2. InWorker(t) = InWorker(t)' + 1
      BY <1>2, <1>3, <1>6, <3>1 DEF InWorker
    <3>3. conn[t] # "offered"
      BY <1>1, <1>3, <3>2 DEF BalanceOf
    <3>4. ASSUME conn[t] \in {"open", "sending"}, linked, Active(t)
          PROVE  InRouter(t)' = InRouter(t) + 1
      <4>1. slot[t] = "taken"
        BY <1>1, <3>4 DEF Promise, Accepted
      <4>2. Started(t)
        BY <1>1, <3>4 DEF EchoInv, Ledgers, Story, StoryOf
      <4>3. t \in claimed
        BY <1>1, <4>1, <4>2 DEF EchoInv, Slots, ClaimsMatch, PastClaim, Started
      <4>4. k = "Message" /\ q = t /\ e.kind = "Message"
        BY <2>5, <2>8, <2>10
      <4>5. Deliver(t, "Message") /\ Listening(t)
        BY <2>7, <3>4, <4>3, <4>4 DEF Listening
      <4>6. CASE events' = [events EXCEPT ![t] = Append(@, "Message")] /\ UNCHANGED stuck
        <5>1. events'[t] = Append(events[t], "Message") /\ "Message" \in EventKinds
          BY <1>1, <4>6 DEF TaskTypes, EventKinds
        <5>2. InEvents(t)' = InEvents(t) + 1
          BY <1>1, <5>1, EventsMove
        <5>3. InStuck(t)' = InStuck(t)
          BY <4>6 DEF InStuck
        <5>4. QED
          BY <1>2, <1>3, <5>2, <5>3 DEF InRouter
      <4>7. CASE stuck' = [req |-> t, kind |-> "Message"] /\ UNCHANGED events
        <5>1. InStuck(t)' = 1 /\ InStuck(t) = 0
          BY <1>7, <2>1, <4>7 DEF InStuck, Bit
        <5>2. InEvents(t)' = InEvents(t)
          BY <4>7 DEF InEvents
        <5>3. QED
          BY <1>2, <5>1, <5>2 DEF InRouter
      <4>8. QED
        BY <4>5, <4>6, <4>7 DEF Deliver
    <3>5. back[t] \in Nat
      BY <1>1 DEF TaskTypes
    <3>6. ASSUME conn'[t] \in {"open", "sending"}, linked', Active(t)'
          PROVE  sent'[t] = back'[t] + InWorker(t)' + InRouter(t)'
      <4>1. conn[t] \in {"open", "sending"} /\ linked /\ Active(t)
        BY <1>4, <1>6, <2>1, <3>6
      <4>2. sent[t] = back[t] + InWorker(t) + InRouter(t)
        BY <1>1, <4>1 DEF BalanceOf
      <4>3. InRouter(t)' = InRouter(t) + 1
        BY <3>4, <4>1
      <4>4. back[t] + InWorker(t) + InRouter(t) = back[t] + InWorker(t)' + InRouter(t)'
        BY <1>2, <1>3, <3>2, <3>5, <4>3
      <4>5. QED
        BY <1>4, <4>2, <4>4
    <3>7. conn'[t] # "offered"
      BY <1>4, <3>3
    <3>8. QED
      BY <3>6, <3>7 DEF BalanceOf
  <2>11. CASE e # Echo(t)
    <3>1. InOut(t) = InOut(t)' + 0
      BY <2>9, <2>11 DEF Bit
    <3>2. InWorker(t)' = InWorker(t)
      BY <1>2, <1>3, <1>6, <3>1 DEF InWorker
    <3>3. InEvents(t)' = InEvents(t)
      <4>1. events'[t] = events[t] \/ (q = t /\ events'[t] = Append(events[t], k))
        BY <1>1, <2>7 DEF Deliver, TaskTypes
      <4>2. QED
        BY <1>1, <2>5, <2>8, <2>11, <4>1, EventsMove
    <3>4. InStuck(t)' = 0 /\ InStuck(t) = 0
      <4>1. stuck' = None \/ stuck' = [req |-> q, kind |-> k]
        BY <2>1, <2>7 DEF Deliver
      <4>2. [req |-> q, kind |-> k] # [req |-> t, kind |-> "Message"]
        BY <2>8, <2>11
      <4>3. stuck' # [req |-> t, kind |-> "Message"]
        BY <4>1, <4>2, NoneHeld
      <4>4. QED
        BY <1>7, <2>1, <4>3 DEF InStuck, Bit
    <3>5. InRouter(t)' = InRouter(t)
      BY <3>3, <3>4 DEF InRouter
    <3>6. QED
      BY <1>1, <1>4, <1>6, <2>1, <3>2, <3>5 DEF BalanceOf
  <2>12. QED
    BY <2>10, <2>11
<1>10. CASE ReaderUnblocks
  <2>1. stuck # None /\ stuck' = None /\ UNCHANGED vars
    BY <1>10 DEF ReaderUnblocks
  <2>2. PICK q \in Tunnels, k \in EventKinds : stuck = [req |-> q, kind |-> k] /\ q = stuck.req
        /\ k = stuck.kind
    BY <1>1, <2>1
  <2>3. linked' = linked /\ InWorker(t)' = InWorker(t)
    BY <2>1, Unmoved DEF vars, handlerVars, readerVars, outVars, routerVars
  <2>4. \/ ~Listening(q) /\ events' = events
        \/ events' = [events EXCEPT ![q] = Append(@, k)]
    BY <1>10, <2>2 DEF ReaderUnblocks
  <2>5. CASE q = t /\ k = "Message"
    <3>1. InStuck(t) = 1 /\ InStuck(t)' = 0
      BY <1>8, <2>1, <2>2, <2>5 DEF InStuck, Bit
    <3>2. CASE events' = [events EXCEPT ![q] = Append(@, k)]
      <4>1. events'[t] = Append(events[t], "Message") /\ "Message" \in EventKinds
        BY <1>1, <2>5, <3>2 DEF TaskTypes, EventKinds
      <4>2. InEvents(t)' = InEvents(t) + 1
        BY <1>1, <4>1, EventsMove
      <4>3. InRouter(t)' = InRouter(t)
        BY <1>2, <1>3, <3>1, <4>2 DEF InRouter
      <4>4. QED
        BY <1>1, <1>4, <1>6, <2>3, <4>3 DEF BalanceOf
    <3>3. CASE ~Listening(q)
      <4>1. conn[t] = "closed"
        BY <2>5, <3>3 DEF Listening
      <4>2. QED
        BY <1>4, <4>1 DEF BalanceOf
    <3>4. QED
      BY <2>4, <3>2, <3>3
  <2>6. CASE ~(q = t /\ k = "Message")
    <3>1. InStuck(t) = 0 /\ InStuck(t)' = 0
      BY <1>8, <2>1, <2>2, <2>6 DEF InStuck, Bit
    <3>2. events'[t] = events[t] \/ (q = t /\ events'[t] = Append(events[t], k))
      BY <1>1, <2>4 DEF TaskTypes
    <3>3. InEvents(t)' = InEvents(t)
      BY <1>1, <2>2, <2>6, <3>2, EventsMove
    <3>4. InRouter(t)' = InRouter(t)
      BY <3>1, <3>3 DEF InRouter
    <3>5. QED
      BY <1>1, <1>4, <1>6, <2>3, <3>4 DEF BalanceOf
  <2>7. QED
    BY <2>5, <2>6
<1>11. CASE ReaderLeaves
  <2>1. linked' = FALSE /\ out' = <<>> /\ stuck' = stuck
    BY <1>11 DEF ReaderLeaves, RouterCloses
  <2>2. InOut(t)' = 0
    <3>1. <<>> \in Seq({"Msg"})
      OBVIOUS
    <3>2. QED
      BY <2>1, <3>1, TimesNat DEF InOut, Echo
  <2>3. InWorker(t)' <= InWorker(t)
    BY <1>2, <1>6, <2>2 DEF InWorker
  <2>4. InRouter(t)' = InRouter(t)
    <3>1. events'[t] = events[t] \/ events'[t] = Append(events[t], "Failed")
      BY <1>1, <1>11 DEF ReaderLeaves, TaskTypes
    <3>2. "Failed" \in EventKinds
      BY DEF EventKinds
    <3>3. InEvents(t)' = InEvents(t)
      BY <1>1, <3>1, <3>2, EventsMove
    <3>4. InStuck(t)' = InStuck(t)
      BY <2>1 DEF InStuck
    <3>5. QED
      BY <3>3, <3>4 DEF InRouter
  <2>5. QED
    BY <1>1, <1>2, <1>3, <1>4, <2>1, <2>3, <2>4 DEF BalanceOf
<1>12. QED
  BY <1>9, <1>10, <1>11 DEF ReaderTask

(* A step of a connection task or of the sweep.                            *)
LEMMA TaskBalance ==
  ASSUME FlowInv, Types', TaskTypes', NEW t \in Tunnels, NEW u \in Tunnels,
         Wait(u) \/ Serve(u) \/ WriteTo(u) \/ SweepAborts(u)
  PROVE  BalanceOf(t)'
<1>1. /\ Types /\ TaskTypes /\ BalanceOf(t)
      /\ conn \in [Tunnels -> ConnStates] /\ events \in [Tunnels -> Seq(EventKinds)]
      /\ sent \in [Tunnels -> Nat] /\ back \in [Tunnels -> Nat]
  BY DEF FlowInv, TaskInv, EchoInv, Balance, TaskTypes
<1>2. InWorker(t) \in Nat /\ InRouter(t) \in Nat /\ InEvents(t) \in Nat /\ InStuck(t) \in {0, 1}
  BY <1>1, Amounts
<1>3. InWorker(t)' \in Nat /\ InRouter(t)' \in Nat /\ InEvents(t)' \in Nat
  BY AmountsNext
<1>4. UNCHANGED <<handler, linked, stuck>>
  BY DEF Wait, Serve, WriteTo, SweepAborts, Open, FirstEventTimeout, RouterDrops, ReadClient, TakeMsg,
         CloseTunnel, TakeEvent, WriteMsg, WriteClose, WriteAbort, WriteFails, ToWorker, workerVars,
         vars, handlerVars, routerVars
<1>5. Active(t)' = Active(t) /\ InStuck(t)' = InStuck(t)
  BY <1>4 DEF Active, InStuck
<1>6. ASSUME UNCHANGED <<conn[t], sent[t], back[t], events[t]>>, InWorker(t)' = InWorker(t)
      PROVE  BalanceOf(t)'
  <2>1. InEvents(t)' = InEvents(t)
    BY <1>6 DEF InEvents
  <2>2. InRouter(t)' = InRouter(t)
    BY <1>5, <2>1 DEF InRouter
  <2>3. QED
    BY <1>1, <1>4, <1>5, <1>6, <2>2 DEF BalanceOf
<1>7. ASSUME conn'[t] \notin {"offered", "open", "sending"} PROVE BalanceOf(t)'
  BY <1>7 DEF BalanceOf
<1>8. ASSUME UNCHANGED <<handlerVars, readerVars, outVars, down>> PROVE InWorker(t)' = InWorker(t)
  BY <1>8, Unmoved DEF handlerVars, readerVars, outVars
<1>9. CASE WriteMsg(u) \/ WriteClose(u) \/ WriteAbort(u) \/ SweepAborts(u)
  <2>1. PICK k \in {"Msg", "Close", "Abort"} :
          /\ down' = Append(down, [kind |-> k, req |-> u])
          /\ k = "Msg" <=> WriteMsg(u)
    BY <1>9 DEF WriteMsg, WriteClose, WriteAbort, SweepAborts, ToWorker
  <2>2. UNCHANGED <<hold, chan, waiting, out>>
    BY <1>9 DEF WriteMsg, WriteClose, WriteAbort, SweepAborts, ToWorker, workerVars, handlerVars, readerVars
  <2>3. InWorker(t)' = InWorker(t) + Bit(k = "Msg" /\ u = t)
    BY <1>1, <2>1, <2>2, DownGrows
  <2>4. CASE WriteMsg(u) /\ u = t
    <3>1. /\ conn[t] = "sending" /\ conn'[t] = "open" /\ sent'[t] = sent[t] + 1
          /\ back'[t] = back[t] /\ events'[t] = events[t] /\ linked
      BY <1>1, <2>4 DEF WriteMsg, ToWorker
    <3>2. InWorker(t)' = InWorker(t) + 1
      BY <1>2, <2>1, <2>3, <2>4 DEF Bit
    <3>3. InRouter(t)' = InRouter(t)
      BY <1>5, <3>1 DEF InRouter, InEvents
    <3>4. ASSUME Active(t)' PROVE sent'[t] = back'[t] + InWorker(t)' + InRouter(t)'
      <4>1. sent[t] = back[t] + InWorker(t) + InRouter(t)
        BY <1>1, <1>5, <3>1, <3>4 DEF BalanceOf
      <4>2. back[t] \in Nat /\ sent[t] \in Nat
        BY <1>1
      <4>3. QED
        BY <1>2, <3>1, <3>2, <3>3, <4>1, <4>2
    <3>5. QED
      BY <3>1, <3>4 DEF BalanceOf
  <2>5. CASE ~(WriteMsg(u) /\ u = t)
    <3>1. InWorker(t)' = InWorker(t)
      BY <1>2, <2>1, <2>3, <2>5 DEF Bit
    <3>2. CASE SweepAborts(u)
      BY <1>6, <3>1, <3>2 DEF SweepAborts
    <3>3. CASE u # t /\ ~SweepAborts(u)
      <4>1. conn'[t] = conn[t] /\ sent'[t] = sent[t] /\ back'[t] = back[t] /\ events'[t] = events[t]
        BY <1>1, <1>9, <3>3 DEF WriteMsg, WriteClose, WriteAbort, ToWorker, Leave
      <4>2. QED
        BY <1>6, <3>1, <4>1
    <3>4. CASE u = t /\ (WriteClose(u) \/ WriteAbort(u))
      <4>1. conn'[t] = "closed"
        BY <1>1, <3>4 DEF WriteClose, WriteAbort, Leave
      <4>2. QED
        BY <1>7, <4>1
    <3>5. QED
      BY <1>9, <2>5, <3>2, <3>3, <3>4
  <2>6. QED
    BY <2>4, <2>5
<1>10. CASE Wait(u) \/ Serve(u) \/ WriteFails(u)
  <2>1. UNCHANGED <<handlerVars, readerVars, outVars, down, sent>>
    BY <1>10 DEF vars, routerVars, Wait, Serve, Open, FirstEventTimeout, RouterDrops, ReadClient,
                 TakeMsg, CloseTunnel, TakeEvent, WriteFails
  <2>2. InWorker(t)' = InWorker(t) /\ sent'[t] = sent[t]
    BY <1>8, <2>1
  <2>3. CASE u # t
    <3>1. conn'[t] = conn[t] /\ back'[t] = back[t] /\ events'[t] = events[t]
      BY <1>1, <1>10, <2>3 DEF Wait, Serve, Open, FirstEventTimeout, RouterDrops, ReadClient, TakeMsg,
                               CloseTunnel, TakeEvent, WriteFails, Leave, SendWs, DropEvent
    <3>2. QED
      BY <1>6, <2>2, <3>1
  <2>4. CASE u = t
    <3>1. \/ conn'[t] \in {"closed", "closing", "aborting"}
          \/ conn'[t] = conn[t] /\ back'[t] = back[t] /\ events'[t] = events[t]
          \/ conn[t] = "open" /\ conn'[t] = "sending" /\ back'[t] = back[t] /\ events'[t] = events[t]
          \/ conn[t] = "offered" /\ NextEvent(t, "Accept") /\ DropEvent(t) /\ conn'[t] = "open" /\ back'[t] = back[t]
          \/ conn[t] = "open" /\ NextEvent(t, "Message") /\ DropEvent(t) /\ conn'[t] = "open" /\ back'[t] = back[t] + 1
      BY <1>1, <1>10, <2>4 DEF Wait, Serve, Open, FirstEventTimeout, RouterDrops, ReadClient, TakeMsg,
                               CloseTunnel, TakeEvent, WriteFails, Leave, SendWs
    <3>2. CASE conn'[t] \in {"closed", "closing", "aborting"}
      BY <1>7, <3>2
    <3>3. CASE conn'[t] = conn[t] /\ back'[t] = back[t] /\ events'[t] = events[t]
      BY <1>6, <2>2, <3>3
    <3>4. CASE conn[t] = "open" /\ conn'[t] = "sending" /\ back'[t] = back[t] /\ events'[t] = events[t]
      <4>1. InRouter(t)' = InRouter(t)
        BY <1>5, <3>4 DEF InRouter, InEvents
      <4>2. QED
        BY <1>1, <1>4, <1>5, <2>2, <3>4, <4>1 DEF BalanceOf
    <3>5. ASSUME NextEvent(t, "Accept") \/ NextEvent(t, "Message"), DropEvent(t)
          PROVE  events[t] # <<>> /\ events'[t] = Tail(events[t])
      BY <1>1, <3>5 DEF NextEvent, DropEvent
    <3>6. CASE conn[t] = "offered" /\ NextEvent(t, "Accept") /\ DropEvent(t) /\ conn'[t] = "open"
               /\ back'[t] = back[t]
      <4>1. InEvents(t)' = InEvents(t)
        BY <1>1, <3>5, <3>6, EventsMove DEF NextEvent
      <4>2. InRouter(t)' = InRouter(t)
        BY <1>5, <4>1 DEF InRouter
      <4>3. sent[t] = 0 /\ back[t] = 0 /\ InWorker(t) = 0 /\ InRouter(t) = 0
        BY <1>1, <3>6 DEF BalanceOf
      <4>4. QED
        BY <2>2, <3>6, <4>2, <4>3 DEF BalanceOf
    <3>7. CASE conn[t] = "open" /\ NextEvent(t, "Message") /\ DropEvent(t) /\ conn'[t] = "open"
               /\ back'[t] = back[t] + 1
      <4>1. InEvents(t) = InEvents(t)' + 1
        BY <1>1, <3>5, <3>7, EventsMove DEF NextEvent
      <4>2. InRouter(t) = InRouter(t)' + 1
        BY <1>2, <1>3, <1>5, <4>1 DEF InRouter
      <4>3. ASSUME linked', Active(t)' PROVE sent'[t] = back'[t] + InWorker(t)' + InRouter(t)'
        <5>1. sent[t] = back[t] + InWorker(t) + InRouter(t)
          BY <1>1, <1>4, <1>5, <3>7, <4>3 DEF BalanceOf
        <5>2. back[t] \in Nat
          BY <1>1
        <5>3. QED
          BY <1>2, <1>3, <2>2, <3>7, <4>2, <5>1, <5>2
      <4>4. QED
        BY <3>7, <4>3 DEF BalanceOf
    <3>8. QED
      BY <3>1, <3>2, <3>3, <3>4, <3>6, <3>7
  <2>5. QED
    BY <2>3, <2>4
<1>11. QED
  BY <1>9, <1>10 DEF WriteTo

(* Every step keeps the balance.                                           *)
LEMMA FlowStep == FlowInv /\ [TunnelNext]_allVars => FlowInv'
<1> SUFFICES ASSUME FlowInv, [TunnelNext]_allVars PROVE FlowInv'
  OBVIOUS
<1>1. EchoInv /\ TaskInv /\ Wire /\ Routed /\ Balance /\ TaskTypes
  BY DEF FlowInv, TaskInv
<1>2. [Next]_vars
  BY <1>1, TunnelRefines
<1>3. EchoInv' /\ TaskInv' /\ Wire' /\ Routed'
  BY <1>1, <1>2, EchoStep, TaskStep, WireStep, RoutedStep
<1>4. Types' /\ TaskTypes'
  BY <1>3 DEF EchoInv, TaskInv
<1>5. ASSUME NEW t \in Tunnels PROVE BalanceOf(t)'
  <2>1. CASE ReaderTask
    BY <1>4, <2>1, ReaderBalance
  <2>2. ASSUME NEW u \in Tunnels, Wait(u) \/ Serve(u) \/ WriteTo(u) \/ SweepAborts(u) PROVE BalanceOf(t)'
    BY <1>4, <2>2, TaskBalance
  <2>3. CASE WorkerStep
    <3>1. UNCHANGED <<conn, sent, back, events, stuck>>
      BY <2>3 DEF WorkerStep, tunnelVars, connVars
    <3>2. InRouter(t)' = InRouter(t)
      BY <3>1 DEF InRouter, InEvents, InStuck
    <3>3. /\ InWorker(t)' <= InWorker(t)
          /\ linked' /\ Active(t)' /\ PastClaim(t) => Active(t) /\ InWorker(t)' = InWorker(t)
      BY <1>1, <2>3, WorkerMoves
    <3>4. linked' => linked
      BY <1>1, <1>2, LinkStep DEF TaskInv
    <3>5. conn[t] \in {"open", "sending"} => PastClaim(t)
      BY <1>1, AllTunnels DEF EchoInv, Slots, TaskInv, Promise, Accepted
    <3>6. InWorker(t) \in Nat /\ InWorker(t)' \in Nat
      BY <1>1, <1>4, Amounts, AmountsNext DEF EchoInv
    <3>7. BalanceOf(t)
      BY <1>1 DEF Balance
    <3>8. ASSUME conn[t] = "offered" PROVE InWorker(t)' = 0
      <4>1. InWorker(t) = 0
        BY <3>7, <3>8 DEF BalanceOf
      <4>2. QED
        BY <3>3, <3>6, <4>1
    <3>9. QED
      BY <3>1, <3>2, <3>3, <3>4, <3>5, <3>7, <3>8 DEF BalanceOf
  <2>4. CASE UNCHANGED allVars
    <3>1. UNCHANGED <<conn, sent, back, events, stuck, handler, linked>> /\ InWorker(t)' = InWorker(t)
      BY <2>4, Unmoved DEF allVars, vars, tunnelVars, connVars, handlerVars, readerVars, outVars, routerVars
    <3>2. InRouter(t)' = InRouter(t) /\ Active(t)' = Active(t)
      BY <3>1 DEF InRouter, InEvents, InStuck, Active
    <3>3. QED
      BY <1>1, <3>1, <3>2 DEF Balance, BalanceOf
  <2>5. QED
    BY <2>1, <2>2, <2>3, <2>4 DEF TunnelNext
<1>6. QED
  BY <1>3, <1>5 DEF FlowInv, Balance

(* No message is anywhere yet.                                             *)
LEMMA FlowInit == TunnelInit => FlowInv
<1> SUFFICES ASSUME TunnelInit PROVE FlowInv
  OBVIOUS
<1>1. EchoInv /\ TaskInv /\ Init
  BY EchoInit, TaskInit DEF TunnelInit
<1>2. Wire /\ Requests = Tunnels
  <2>1. \A S : <<>> \in Seq(S)
    OBVIOUS
  <2>2. QED
    BY <1>1, <2>1, AllTunnels DEF Init, Wire
<1>3. Routed
  BY <1>1, <1>2, NothingSent DEF Init, Routed, Active, Claiming
<1>4. ASSUME NEW t \in Tunnels PROVE BalanceOf(t)
  <2>1. conn[t] = "offered" /\ sent[t] = 0 /\ back[t] = 0
    BY DEF TunnelInit
  <2>2. <<>> \in Seq({0}) /\ \A x : Times(<<>>, x) = 0
    <3>1. <<>> \in Seq({0})
      OBVIOUS
    <3>2. QED
      BY <3>1, TimesNat
  <2>3. InDown(t) = 0 /\ InChan(t) = 0 /\ InWaiting(t) = 0 /\ InOut(t) = 0 /\ InEvents(t) = 0
    <3>1. down = <<>> /\ chan[t] = <<>> /\ waiting = <<>> /\ out = <<>> /\ events[t] = <<>>
      BY <1>1, <1>2 DEF Init, TunnelInit
    <3>2. QED
      BY <2>2, <3>1 DEF InDown, InChan, InWaiting, InOut, InEvents
  <2>4. InHold(t) = 0 /\ InStuck(t) = 0
    BY <1>1, NoneHeld DEF InHold, InStuck, Bit, Init, TunnelInit
  <2>5. InWorker(t) = 0 /\ InRouter(t) = 0
    BY <2>3, <2>4 DEF InWorker, InRouter
  <2>6. QED
    BY <2>1, <2>5 DEF BalanceOf
<1>5. QED
  BY <1>1, <1>2, <1>3, <1>4 DEF FlowInv, Balance

(* While a tunnel is open and its handler runs, what was sent to the       *)
(* worker and is not back at the client is in exactly one of the queues    *)
(* and hands between them: nothing is lost, nothing is doubled.            *)
THEOREM TunnelLosesNothing == TunnelSpec => []NothingLost
<1>1. TunnelInit => FlowInv
  BY FlowInit
<1>2. FlowInv /\ [TunnelNext]_allVars => FlowInv'
  BY FlowStep
<1>3. FlowInv => NothingLost
  <2> SUFFICES ASSUME FlowInv, NEW t \in Tunnels,
                      conn[t] \in {"open", "sending"}, linked, handler[t] \notin {"none", "aborting"}
               PROVE  sent[t] = back[t] + Count(down, "Msg", t)
                        + Bit(hold = [kind |-> "Msg", req |-> t])
                        + Cardinality({i \in DOMAIN chan[t] : chan[t][i] = "Msg"})
                        + Count(waiting, "Message", t) + Count(out, "Message", t)
                        + Cardinality({i \in DOMAIN events[t] : events[t][i] = "Message"})
                        + Bit(stuck = [req |-> t, kind |-> "Message"])
    BY DEF NothingLost
  <2>1. Types /\ TaskTypes /\ back[t] \in Nat
    BY DEF FlowInv, EchoInv, TaskInv, TaskTypes
  <2>2. sent[t] = back[t] + InWorker(t) + InRouter(t)
    BY DEF FlowInv, Balance, BalanceOf, Active
  <2>3. sent[t] = back[t] + InDown(t) + InHold(t) + InChan(t) + InWaiting(t) + InOut(t) + InEvents(t) + InStuck(t)
    BY <2>1, <2>2, Amounts DEF InWorker, InRouter
  <2>4. QED
    BY <2>3 DEF InDown, InHold, InChan, InWaiting, InOut, InEvents, InStuck, Times, Count, Msg, Echo
<1>4. QED
  BY <1>1, <1>2, <1>3, PTL DEF TunnelSpec

=============================================================================
