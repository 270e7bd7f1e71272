--------------------------- MODULE DeliveryProofs ---------------------------
(***************************************************************************)
(* Proofs about a client connection, for any number of requests, any sizes *)
(* and limits, and any answers: neither direction mixes two exchanges, and *)
(* no spill file is left behind.                                           *)
(***************************************************************************)
EXTENDS Delivery, SequenceTheorems, WellFoundedInduction, TLAPS

-----------------------------------------------------------------------------
(* What every step keeps.                                                  *)

Frames == Pieces \cup {Terminator, AbortFrame}
Parts  == Ends \cup {"status", "chunk"}
Answers == [req : Requests, part : Parts, n : Nat]
Kinds  == {"headers", "piece", "flush", "end", "failed"}

TConn ==
  /\ pc \in Places /\ after \in {"fail", "break", "idle"} /\ cur \in 0 .. N
  /\ plan \in {"inline", "file", "stream"} /\ rd \in {"conn", "feed", "lost"}
  /\ held \in 0 .. Threshold
TBytes ==
  /\ wire \in Seq(Pieces) /\ buf \in Seq(Pieces) /\ body \in Seq(Pieces) /\ pend \in Seq(Pieces)
  /\ feed \in {"none", "run", "ok", "bad"} /\ rest \in Nat
TFiles  == files \subseteq Requests /\ spoiled \subseteq Requests
TOut    == out \in Seq(Answers)
TEvents ==
  /\ events \in Seq(Kinds) /\ Len(events) <= EventCap
  /\ open \in BOOLEAN
TBody ==
  /\ chan \in [Requests -> Seq(Pieces)] /\ pump \in [Requests -> {"none", "run", "done"}]
  /\ \A r \in Requests : Len(chan[r]) <= FeedCap
TDown ==
  /\ down \in [Requests -> Seq(Frames)] /\ got \in [Requests -> Seq(Frames)]
  /\ \A r \in Requests : Len(down[r]) <= DownCap
TWorker ==
  /\ worker \in [Requests -> {"none", "queued", "void", "run", "done", "dead"}]
  /\ said \in [Requests -> {"nothing", "headers", "flushed", "end", "error", "cut"}]
  /\ pieces \in [Requests -> Nat] /\ \A r \in Requests : pieces[r] <= MaxPieces[r]

Types == TConn /\ TBytes /\ TFiles /\ TOut /\ TEvents /\ TBody /\ TDown /\ TWorker

\* The read half is the connection's or the feed's, and the plan says whose.
Halves ==
  /\ pc \notin {"head", "closed"} => cur \in Requests
  /\ pc \in {"head", "body", "route"} => rd = "conn" /\ feed = "none"
  /\ pc \in {"body", "route", "spill"} => plan # "stream"
  /\ pc \in Dispatched => (plan = "stream" <=> feed # "none") /\ (feed = "none" => rd = "conn")
  /\ feed # "none" => cur \in Requests

\* What has not been used is what the client sends next.
Position ==
  /\ pc = "head" => From(<<cur + 1, 0>>, buf \o wire)
  /\ pc = "body" =>
       /\ Len(body) < Size[cur] /\ \A i \in 1 .. Len(body) : body[i] = <<cur, i>>
       /\ buf = <<>> /\ From(<<cur, Len(body) + 1>>, wire)
  /\ pc = "route" \/ (pc \in Dispatched /\ plan # "stream") =>
       body = BodyIn(cur) /\ From(<<cur + 1, 0>>, buf \o wire)
  /\ feed \in {"run", "ok"} =>
       buf = <<>> /\ rest <= Size[cur] /\ From(After(<<cur, Size[cur] - rest>>), wire)
  /\ feed = "ok" => rest = 0

\* What is written towards a worker: the pieces, and behind them the terminator.
Line(r, k, e) == IF k = e THEN Terminator ELSE <<r, k>>

\* The frames of s are the numbers a + 1 to b of that, Aborts between them.
Carries(s, r, a, b, e) ==
  \E f \in [1 .. Len(s) + 1 -> 0 .. b] :
    /\ f[1] = a /\ f[Len(s) + 1] = b
    /\ \A i \in 1 .. Len(s) :
         \/ s[i] = AbortFrame /\ f[i + 1] = f[i]
         \/ s[i] = Line(r, f[i] + 1, e) /\ f[i + 1] = f[i] + 1

\* Frame number d was the last that was written to the worker.
Written(r, d, e) ==
  /\ Carries(down[r], r, Len(got[r]), d, e)
  /\ \A i \in 1 .. Len(got[r]) : got[r][i] = Line(r, i, e)

\* The pieces in the body channel begin behind number d.
Behind(r, d) ==
  /\ d + Len(chan[r]) <= Size[r]
  /\ \A i \in 1 .. Len(chan[r]) : chan[r][i] = <<r, d + i>>
  /\ r = cur /\ feed = "run" =>
       /\ d + Len(chan[r]) + Len(pend) = Size[r] - rest
       /\ \A i \in 1 .. Len(pend) : pend[i] = <<r, d + Len(chan[r]) + i>>

\* Up to the claim the body waits in its channel; then it is on its way.
Underway(r) ==
  /\ worker[r] \in {"none", "queued"} =>
       got[r] = <<>> /\ down[r] = <<>> /\ pump[r] = "none" /\ Behind(r, 0)
  /\ Claimed(r) =>
       \E d \in 0 .. Size[r] + 1 :
         IF pump[r] = "done" THEN Written(r, d, d) ELSE Written(r, d, 0) /\ Behind(r, d)
  /\ Claimed(r) /\ r = cur /\ feed = "run" => pump[r] = "run"

\* A worker gets its own body in order, the terminator last.
Received(r) ==
  \A i \in 1 .. Len(got[r]) :
    \/ i <= Size[r] /\ got[r][i] = <<r, i>>
    \/ i = Len(got[r]) /\ i <= Size[r] + 1 /\ got[r][i] = Terminator

\* A request is in the table while it is answered, no sooner and no longer.
Waiting ==
  /\ \A r \in Requests : r > cur \/ (r = cur /\ pc \in {"body", "route", "spill", "submit"}) =>
       /\ worker[r] = "none" /\ pieces[r] = 0
       /\ feed = "none" \/ r # cur => chan[r] = <<>>
  /\ \A r \in Requests : worker[r] = "queued" => r = cur /\ pc \in {"first", "abort"}
  /\ cur \in Requests /\ worker[cur] = "queued" => events = <<>>

Transfer == Halves /\ Position /\ Waiting /\ \A r \in Requests : Underway(r) /\ (Claimed(r) \/ Received(r))

-----------------------------------------------------------------------------
(* The answers.                                                            *)

\* The pieces in queue s count from a to b.
One(e) == IF e = "piece" THEN 1 ELSE 0
Tally(s, a, b) ==
  \E f \in [1 .. Len(s) + 1 -> 0 .. b] :
    /\ f[1] = a /\ f[Len(s) + 1] = b
    /\ \A i \in 1 .. Len(s) : f[i + 1] = f[i] + One(s[i])

Active == pc \in {"first", "buffer", "bulk", "flushed"}

\* What was told and what is held and queued is what the worker said; nothing comes behind an end.
Counted ==
  /\ Active => Tally(events, Given + held, pieces[cur])
  /\ pc \notin {"buffer", "abort", "reclaim"} => held = 0
  /\ \A i \in 1 .. Len(events) : events[i] \in {"end", "failed"} => i = Len(events) /\ ~open

Final == Ends \ {"short"}
Ordered(s) ==
  \A i, j \in DOMAIN s : i < j =>
    /\ s[i].req <= s[j].req
    /\ s[i].part \in Ends => s[i].req < s[j].req
    /\ s[i].req < s[j].req => \E k \in i .. (j - 1) : s[k].req = s[i].req /\ s[k].part \in Final
Upto(s, c)   == \A i \in 1 .. Len(s) : s[i].req <= c
Closed(s, c) ==
  \A i \in 1 .. Len(s) : s[i].req < c =>
    \E k \in i .. Len(s) : s[k].req = s[i].req /\ s[k].part \in Final

\* Nothing of the current answer is written, and some of it, but not its end.
Early   == {"body", "route", "spill", "submit", "first", "buffer"}
Fresh   == pc \in Early \/ (pc = "abort" /\ after = "fail")
Partial == pc \in {"bulk", "flushed"} \/ (pc = "abort" /\ after # "fail")

\* Every answer before this one has its end, and this one none before its time.
Told ==
  /\ Ordered(out) /\ Upto(out, cur) /\ Closed(out, cur)
  /\ pc = "head" => Closed(out, cur + 1)
  /\ Fresh => \A i \in 1 .. Len(out) : out[i].req # cur
  /\ Partial => /\ out # <<>> /\ out[Len(out)].req = cur
                /\ \A i \in 1 .. Len(out) : out[i].req = cur => out[i].part \notin Ends
  /\ pc = "reclaim" => out # <<>> /\ out[Len(out)].req = cur /\ out[Len(out)].part \in Final
  /\ \A i \in 1 .. Len(out) : out[i].part \in {"whole", "last"} => out[i].n = pieces[out[i].req]

\* Up to write_spill the current request has no file.
Kept == files \subseteq spoiled \cup (IF pc \in Dispatched \ {"spill"} THEN {cur} ELSE {})

ConnInv == Types /\ Transfer /\ Counted /\ Told /\ Kept

-----------------------------------------------------------------------------
(* Numbers and sequences.                                                  *)

(* A set of numbers has a least one: what is proved by induction below is  *)
(* proved of the least number it might fail for.                           *)
LEMMA LeastNat ==
  ASSUME NEW T \in SUBSET Nat, T # {}
  PROVE  \E x \in T : \A y \in T : x <= y
<1> DEFINE R == OpToRel(<, Nat)
<1>1. IsWellFoundedOn(R, Nat)
  BY NatLessThanWellFounded
<1>2. \A x, y \in Nat : <<y, x>> \in R <=> y < x
  BY DEF OpToRel
<1> HIDE DEF R
<1>3. PICK x \in T : \A y \in T : ~(<<y, x>> \in R)
  BY <1>1, WFMin
<1>4. ASSUME NEW y \in T PROVE x <= y
  <2>1. ~(y < x)
    BY <1>2, <1>3
  <2>2. QED
    BY <2>1
<1>5. QED
  BY <1>4

(* A sequence without its first k items.                                   *)
LEMMA Dropped ==
  ASSUME NEW S, NEW s \in Seq(S), NEW k \in 0 .. Len(s)
  PROVE  /\ SubSeq(s, k + 1, Len(s)) \in Seq(S)
         /\ Len(SubSeq(s, k + 1, Len(s))) = Len(s) - k
         /\ \A i \in 1 .. Len(s) - k : SubSeq(s, k + 1, Len(s))[i] = s[k + i]
<1>1. Len(s) \in Nat /\ \A i \in k + 1 .. Len(s) : s[i] \in S
  BY LenProperties
<1>2. PICK m \in Int : m = k + 1
  OBVIOUS
<1>3. \A i \in m .. Len(s) : s[i] \in S
  BY <1>1, <1>2
<1>4. PICK n \in Int : n = Len(s)
  BY <1>1
<1>5. /\ SubSeq(s, m, n) \in Seq(S)
      /\ Len(SubSeq(s, m, n)) = IF m <= n THEN n - m + 1 ELSE 0
      /\ \A i \in 1 .. n - m + 1 : SubSeq(s, m, n)[i] = s[m + i - 1]
  BY <1>3, <1>4, SubSeqProperties
<1>6. \A i \in 1 .. n - k : i \in 1 .. n - m + 1 /\ m + i - 1 = k + i
  BY <1>2
<1>7. QED
  BY <1>2, <1>4, <1>5, <1>6

(* Its first k items.                                                      *)
LEMMA Taken ==
  ASSUME NEW S, NEW s \in Seq(S), NEW k \in 0 .. Len(s)
  PROVE  /\ SubSeq(s, 1, k) \in Seq(S) /\ Len(SubSeq(s, 1, k)) = k
         /\ \A i \in 1 .. k : SubSeq(s, 1, k)[i] = s[i]
<1>1. Len(s) \in Nat /\ k \in Int /\ 1 \in Int
  BY LenProperties
<1>2. \A i \in 1 .. k : s[i] \in S
  BY <1>1, ElementOfSeq
<1>3. /\ SubSeq(s, 1, k) \in Seq(S)
      /\ Len(SubSeq(s, 1, k)) = IF 1 <= k THEN k - 1 + 1 ELSE 0
      /\ \A i \in 1 .. k - 1 + 1 : SubSeq(s, 1, k)[i] = s[1 + i - 1]
  BY <1>1, <1>2, SubSeqProperties
<1>4. \A i \in 1 .. k : i \in 1 .. k - 1 + 1 /\ 1 + i - 1 = i
  BY <1>1
<1>5. QED
  BY <1>1, <1>3, <1>4

(* ... also when another follows.                                          *)
LEMMA DroppedConcat ==
  ASSUME NEW S, NEW s \in Seq(S), NEW t \in Seq(S), NEW k \in 0 .. Len(s)
  PROVE  SubSeq(s \o t, k + 1, Len(s \o t)) = SubSeq(s, k + 1, Len(s)) \o t
<1>1. PICK u : u = s \o t
  OBVIOUS
<1>2. /\ u \in Seq(S) /\ Len(u) = Len(s) + Len(t)
      /\ \A i \in 1 .. Len(s) + Len(t) : u[i] = IF i <= Len(s) THEN s[i] ELSE t[i - Len(s)]
  BY <1>1, ConcatProperties
<1>3. Len(s) \in Nat /\ Len(t) \in Nat /\ k \in 0 .. Len(u)
  BY <1>2, LenProperties
<1>4. PICK x : x = SubSeq(s, k + 1, Len(s))
  OBVIOUS
<1>5. x \in Seq(S) /\ Len(x) = Len(s) - k /\ \A i \in 1 .. Len(s) - k : x[i] = s[k + i]
  BY <1>4, Dropped
<1>6. PICK y : y = SubSeq(u, k + 1, Len(u))
  OBVIOUS
<1>7. y \in Seq(S) /\ Len(y) = Len(u) - k /\ \A i \in 1 .. Len(u) - k : y[i] = u[k + i]
  BY <1>2, <1>3, <1>6, Dropped
<1>8. PICK z : z = x \o t
  OBVIOUS
<1>9. /\ z \in Seq(S) /\ Len(z) = Len(x) + Len(t)
      /\ \A i \in 1 .. Len(x) + Len(t) : z[i] = IF i <= Len(x) THEN x[i] ELSE t[i - Len(x)]
  BY <1>5, <1>8, ConcatProperties
<1>10. ASSUME NEW i \in 1 .. Len(y) PROVE y[i] = z[i]
  <2>1. i \in 1 .. Len(u) - k /\ k + i \in 1 .. Len(s) + Len(t) /\ i \in 1 .. Len(x) + Len(t)
    BY <1>2, <1>3, <1>5, <1>7
  <2>2. y[i] = IF k + i <= Len(s) THEN s[k + i] ELSE t[(k + i) - Len(s)]
    BY <1>2, <1>7, <2>1
  <2>3. z[i] = IF i <= Len(x) THEN x[i] ELSE t[i - Len(x)]
    BY <1>9, <2>1
  <2>4. i <= Len(x) => x[i] = s[k + i]
    BY <1>5, <2>1
  <2>5. (i <= Len(x) <=> k + i <= Len(s)) /\ i - Len(x) = (k + i) - Len(s)
    BY <1>3, <1>5, <2>1
  <2>6. QED
    BY <2>2, <2>3, <2>4, <2>5
<1>11. y = z
  <2>1. Len(y) = Len(z)
    BY <1>2, <1>3, <1>5, <1>7, <1>9
  <2>2. QED
    BY <1>7, <1>9, <1>10, <2>1, SeqEqual
<1>12. QED
  BY <1>1, <1>4, <1>6, <1>8, <1>11

(* The rest of what the client sends, from any piece of it on.             *)
LEMMA FromRest ==
  ASSUME NEW p, NEW s, From(p, s), NEW k \in 0 .. Len(s)
  PROVE  /\ SubSeq(s, k + 1, Len(s)) \in Seq(Pieces)
         /\ k = 0 => From(p, SubSeq(s, k + 1, Len(s)))
         /\ k > 0 => From(After(s[k]), SubSeq(s, k + 1, Len(s)))
<1>1. s \in Seq(Pieces) /\ Len(s) \in Nat /\ k \in Nat /\ k <= Len(s)
  BY DEF From
<1>2. PICK t : t = SubSeq(s, k + 1, Len(s))
  OBVIOUS
<1>3. t \in Seq(Pieces) /\ Len(t) = Len(s) - k /\ \A i \in 1 .. Len(t) : t[i] = s[k + i]
  BY <1>1, <1>2, Dropped
<1>4. ASSUME NEW i \in 1 .. Len(t)
      PROVE  After(t[i]) = IF i = Len(t) THEN <<N + 1, 0>> ELSE t[i + 1]
  <2>1. k + i \in 1 .. Len(s) /\ t[i] = s[k + i]
    BY <1>1, <1>3
  <2>2. After(s[k + i]) = IF k + i = Len(s) THEN <<N + 1, 0>> ELSE s[(k + i) + 1]
    BY <2>1 DEF From
  <2>3. ASSUME i # Len(t) PROVE t[i + 1] = s[(k + i) + 1]
    <3>1. i + 1 \in 1 .. Len(t) /\ k + (i + 1) = (k + i) + 1
      BY <1>1, <1>3, <2>3
    <3>2. QED
      BY <1>3, <3>1
  <2>4. k + i = Len(s) <=> i = Len(t)
    BY <1>1, <1>3
  <2>5. QED
    BY <2>1, <2>2, <2>3, <2>4
<1>5. ASSUME k = 0 PROVE From(p, t)
  <2>1. t = s
    BY <1>1, <1>3, <1>5
  <2>2. QED
    BY <2>1
<1>6. ASSUME k > 0 PROVE From(After(s[k]), t)
  <2>1. After(s[k]) = IF k = Len(s) THEN <<N + 1, 0>> ELSE s[k + 1]
    BY <1>1, <1>6 DEF From
  <2>2. t = <<>> <=> k = Len(s)
    BY <1>1, <1>3
  <2>3. k # Len(s) => t[1] = s[k + 1]
    BY <1>1, <1>3
  <2>4. QED
    BY <1>3, <1>4, <2>1, <2>2, <2>3 DEF From
<1>7. QED
  BY <1>2, <1>3, <1>5, <1>6

(* Behind a head comes the body it declares, piece by piece.               *)
LEMMA FromHead ==
  ASSUME NEW c, NEW s, From(<<c, 0>>, s), s # <<>>
  PROVE  /\ c \in Requests
         /\ \A i \in 0 .. Size[c] : i + 1 <= Len(s) /\ s[i + 1] = <<c, i>>
<1>1. s \in Seq(Pieces) /\ Len(s) \in Nat /\ Len(s) > 0 /\ s[1] = <<c, 0>> /\ s[1] \in Pieces
  BY DEF From
<1>2. c \in Requests /\ Size[c] \in Nat
  BY <1>1, DeliveryAssumption DEF Pieces
<1> DEFINE T == {i \in 0 .. Size[c] : ~(i + 1 <= Len(s) /\ s[i + 1] = <<c, i>>)}
<1>3. ASSUME T # {} PROVE FALSE
  <2>1. T \in SUBSET Nat
    BY <1>2
  <2>2. PICK i \in T : \A j \in T : i <= j
    BY <1>3, <2>1, LeastNat
  <2>3. i \in 0 .. Size[c] /\ i # 0
    BY <1>1, <2>2
  <2>4. i - 1 \in 0 .. Size[c] /\ i - 1 \notin T /\ (i - 1) + 1 = i
    <3>1. i - 1 \in 0 .. Size[c] /\ ~(i <= i - 1) /\ (i - 1) + 1 = i
      BY <1>2, <2>3
    <3>2. i - 1 \notin T
      BY <2>2, <3>1
    <3>3. QED
      BY <3>1, <3>2
  <2>5. i <= Len(s) /\ s[i] = <<c, i - 1>> /\ i \in 1 .. Len(s)
    BY <1>1, <2>3, <2>4
  <2>6. After(s[i]) = <<c, i>>
    BY <1>2, <2>3, <2>5 DEF After
  <2>7. After(s[i]) = IF i = Len(s) THEN <<N + 1, 0>> ELSE s[i + 1]
    BY <2>5 DEF From
  <2>8. <<c, i>> # <<N + 1, 0>>
    BY <2>3
  <2>9. i + 1 <= Len(s) /\ s[i + 1] = <<c, i>>
    BY <1>1, <2>5, <2>6, <2>7, <2>8
  <2>10. QED
    BY <2>2, <2>9
<1>4. QED
  BY <1>2, <1>3

(* What a head takes off the buffer, and what it leaves.                   *)
LEMMA HeadTaken ==
  ASSUME Types, From(<<cur + 1, 0>>, buf \o wire), buf # <<>>, NEW c, c = cur + 1, NEW b, b = Tail(buf)
  PROVE  /\ Head(buf) = <<c, 0>> /\ c \in Requests /\ b \in Seq(Pieces) /\ Size[c] \in Nat
         /\ \A i \in 1 .. Len(b) : i <= Size[c] => b[i] = <<c, i>>
         /\ Len(b) <= Size[c] => From(After(<<c, Len(b)>>), wire)
         /\ Len(b) >= Size[c] => From(<<c + 1, 0>>, SubSeq(b, Size[c] + 1, Len(b)) \o wire)
<1>1. buf \in Seq(Pieces) /\ wire \in Seq(Pieces) /\ cur \in Nat
  BY DeliveryAssumption DEF Types, TConn, TBytes
<1>2. PICK s : s = buf \o wire
  OBVIOUS
<1>3. /\ s \in Seq(Pieces) /\ Len(s) = Len(buf) + Len(wire) /\ Len(buf) \in Nat /\ Len(wire) \in Nat
      /\ Len(buf) > 0 /\ s # <<>>
      /\ \A i \in 1 .. Len(buf) : s[i] = buf[i]
      /\ \A i \in 1 .. Len(wire) : s[Len(buf) + i] = wire[i]
  BY <1>1, <1>2
<1>4. From(<<c, 0>>, s)
  BY <1>2
<1>5. c \in Requests /\ \A i \in 0 .. Size[c] : i + 1 <= Len(s) /\ s[i + 1] = <<c, i>>
  BY <1>3, <1>4, FromHead
<1>6. Size[c] \in Nat
  BY <1>5, DeliveryAssumption
<1>7. b \in Seq(Pieces) /\ Len(b) = Len(buf) - 1 /\ \A i \in 1 .. Len(b) : b[i] = buf[i + 1]
  BY <1>1, <1>3
<1>8. Head(buf) = <<c, 0>>
  BY <1>1, <1>3, <1>5, <1>6
<1>9. ASSUME NEW i \in 1 .. Len(b), i <= Size[c] PROVE b[i] = <<c, i>>
  <2>1. i \in 0 .. Size[c] /\ i + 1 \in 1 .. Len(buf)
    BY <1>3, <1>6, <1>7, <1>9
  <2>2. QED
    BY <1>3, <1>5, <1>7, <2>1
<1>10. ASSUME Len(b) <= Size[c] PROVE From(After(<<c, Len(b)>>), wire)
  <2>1. Len(buf) \in 0 .. Len(s) /\ Len(b) \in 0 .. Size[c] /\ Len(b) + 1 = Len(buf)
    BY <1>3, <1>6, <1>7, <1>10
  <2>2. From(After(s[Len(buf)]), SubSeq(s, Len(buf) + 1, Len(s)))
    BY <1>3, <1>4, <2>1, FromRest
  <2>3. s[Len(buf)] = <<c, Len(b)>>
    BY <1>5, <2>1
  <2>4. SubSeq(s, Len(buf) + 1, Len(s)) = wire
    <3>1. Len(buf) \in 0 .. Len(buf) /\ Len(buf) < Len(buf) + 1
      BY <1>3
    <3>2. SubSeq(s, Len(buf) + 1, Len(s)) = SubSeq(buf, Len(buf) + 1, Len(buf)) \o wire
      BY <1>1, <1>2, <3>1, DroppedConcat
    <3>3. SubSeq(buf, Len(buf) + 1, Len(buf)) = <<>>
      BY <1>3, <3>1, SubSeqEmpty
    <3>4. QED
      BY <1>1, <3>2, <3>3, ConcatEmptySeq
  <2>5. QED
    BY <2>2, <2>3, <2>4
<1>11. ASSUME Len(b) >= Size[c] PROVE From(<<c + 1, 0>>, SubSeq(b, Size[c] + 1, Len(b)) \o wire)
  <2> DEFINE k == Size[c] + 1
  <2>1. k \in 0 .. Len(s) /\ k > 0 /\ k <= Len(buf)
    BY <1>3, <1>6, <1>7, <1>11
  <2>2. From(After(s[k]), SubSeq(s, k + 1, Len(s)))
    BY <1>4, <2>1, FromRest
  <2>3. After(s[k]) = <<c + 1, 0>>
    <3>1. s[k] = <<c, Size[c]>>
      BY <1>5, <1>6
    <3>2. QED
      BY <1>6, <3>1 DEF After
  <2>4. SubSeq(s, k + 1, Len(s)) = SubSeq(b, k, Len(b)) \o wire
    <3>1. k \in 0 .. Len(buf) /\ k \in 1 .. Len(buf) /\ Size[c] \in 0 .. Len(b)
      BY <1>6, <1>7, <1>11, <2>1
    <3>2. SubSeq(s, k + 1, Len(s)) = SubSeq(buf, k + 1, Len(buf)) \o wire
      BY <1>1, <1>2, <3>1, DroppedConcat
    <3>3. PICK x : x = SubSeq(buf, k + 1, Len(buf))
      OBVIOUS
    <3>4. x \in Seq(Pieces) /\ Len(x) = Len(buf) - k /\ \A i \in 1 .. Len(buf) - k : x[i] = buf[k + i]
      BY <1>1, <3>1, <3>3, Dropped
    <3>5. PICK y : y = SubSeq(b, k, Len(b))
      OBVIOUS
    <3>6. y \in Seq(Pieces) /\ Len(y) = Len(b) - Size[c]
          /\ \A i \in 1 .. Len(b) - Size[c] : y[i] = b[Size[c] + i]
      <4>1. PICK d \in 0 .. Len(b) : d = Size[c]
        BY <3>1
      <4>2. y = SubSeq(b, d + 1, Len(b))
        BY <3>5, <4>1
      <4>3. y \in Seq(Pieces) /\ Len(y) = Len(b) - d /\ \A i \in 1 .. Len(b) - d : y[i] = b[d + i]
        BY <1>7, <4>2, Dropped
      <4>4. QED
        BY <4>1, <4>3
    <3>7. ASSUME NEW i \in 1 .. Len(x) PROVE x[i] = y[i]
      <4>1. i \in 1 .. Len(buf) - k /\ i \in 1 .. Len(b) - Size[c] /\ Size[c] + i \in 1 .. Len(b)
            /\ (Size[c] + i) + 1 = k + i
        <5>1. i \in Nat /\ i > 0 /\ i <= Len(buf) - k
          BY <1>3, <3>4
        <5>2. PICK l, z : l = Len(buf) /\ z = Size[c]
          OBVIOUS
        <5>3. l \in Nat /\ z \in Nat /\ Len(b) = l - 1 /\ i <= l - (z + 1)
          BY <1>3, <1>6, <1>7, <5>1, <5>2
        <5>4. i \in 1 .. l - (z + 1) /\ i \in 1 .. (l - 1) - z /\ z + i \in 1 .. l - 1
              /\ (z + i) + 1 = (z + 1) + i
          BY <5>1, <5>3
        <5>5. QED
          BY <5>2, <5>3, <5>4
      <4>2. b[Size[c] + i] = buf[(Size[c] + i) + 1]
        BY <1>7, <4>1
      <4>3. QED
        BY <3>4, <3>6, <4>1, <4>2
    <3>8. x = y
      <4>1. Len(x) = Len(y)
        BY <1>3, <1>6, <1>7, <3>4, <3>6
      <4>2. QED
        BY <3>4, <3>6, <3>7, <4>1, SeqEqual
    <3>9. QED
      BY <3>2, <3>3, <3>5, <3>8
  <2>5. QED
    BY <2>2, <2>3, <2>4
<1>12. QED
  BY <1>5, <1>6, <1>7, <1>8, <1>9, <1>10, <1>11

-----------------------------------------------------------------------------
(* The types are kept.                                                     *)

(* They are those of the specification.                                    *)
LEMMA TypesOK == Types => TypeOK
BY DeliveryAssumption DEF Types, TConn, TBytes, TFiles, TOut, TEvents, TBody, TDown, TWorker, TypeOK

(* What the client has is a number.                                        *)
LEMMA GivenNat ==
  ASSUME TOut
  PROVE  Given \in Nat
<1>1. CASE out = <<>>
  BY <1>1 DEF Given
<1>2. CASE out # <<>>
  <2>1. out[Len(out)] \in Answers
    <3>1. Len(out) \in 1 .. Len(out)
      BY <1>2, EmptySeq DEF TOut
    <3>2. QED
      BY <3>1, ElementOfSeq DEF TOut
  <2>2. QED
    BY <2>1 DEF Given, Answers
<1>3. QED
  BY <1>1, <1>2

(* A head is a head of a request.                                          *)
LEMMA HeadRequest ==
  ASSUME Types, buf # <<>>
  PROVE  /\ Head(buf) \in Pieces /\ Head(buf)[1] \in Requests /\ Tail(buf) \in Seq(Pieces)
         /\ Size[Head(buf)[1]] \in Nat
<1>1. Head(buf) \in Pieces /\ Tail(buf) \in Seq(Pieces)
  BY DEF Types, TBytes
<1>2. QED
  BY <1>1, DeliveryAssumption DEF Pieces

(* The empty sequence, and what is assumed of the limits.                  *)
LEMMA NoItems ==
  ASSUME NEW s, s = <<>>
  PROVE  s \in Seq(Pieces) /\ s \in Seq(Kinds) /\ s \in Seq(Frames) /\ Len(s) = 0
<1>1. <<>> \in Seq(Pieces) /\ <<>> \in Seq(Kinds) /\ <<>> \in Seq(Frames) /\ Len(<<>>) = 0
  BY EmptySeq
<1>2. QED
  BY <1>1, Zenon

(* The constants, as the proofs use them.                                  *)
LEMMA Limits ==
  /\ N \in Nat /\ EventCap \in Nat /\ FeedCap \in Nat /\ DownCap \in Nat /\ Threshold \in Nat
  /\ N > 0 /\ EventCap > 0 /\ FeedCap > 0 /\ DownCap > 0
  /\ \A r \in Requests : Size[r] \in Nat /\ MaxPieces[r] \in Nat
BY DeliveryAssumption

(* Where the connection is.                                                *)
LEMMA TConnStep ==
  ASSUME Types, [Next]_vars
  PROVE  TConn'
<1>1. CASE ParseHead \/ RefuseHead \/ StartFeed
  <2>1. cur' \in Requests
    BY <1>1, HeadRequest DEF ParseHead, RefuseHead, StartFeed
  <2>2. cur' \in 0 .. N
    BY <2>1, DeliveryAssumption DEF Requests
  <2>3. QED
    BY <1>1, <2>2 DEF ParseHead, TakeBuffered, RefuseHead, StartFeed, Types, TConn, Places, Dispatched
<1>2. CASE CloseIdle
  BY <1>2, DeliveryAssumption, HeadRequest DEF CloseIdle, Types, TConn, Places, Dispatched, connVars
<1>3. CASE ReadBody
  BY <1>3, DeliveryAssumption, HeadRequest DEF ReadBody, Types, TConn, Places, Dispatched, connVars
<1>4. CASE BodyStalls
  BY <1>4, DeliveryAssumption, HeadRequest DEF BodyStalls, Tell, Types, TConn, Places, Dispatched, connVars
<1>5. CASE AnswerHere
  BY <1>5, DeliveryAssumption, HeadRequest DEF AnswerHere, Tell, Types, TConn, Places, Dispatched, connVars
<1>6. CASE Route
  BY <1>6, DeliveryAssumption, HeadRequest DEF Route, Types, TConn, Places, Dispatched, connVars
<1>7. CASE WriteSpill
  BY <1>7, DeliveryAssumption, HeadRequest DEF WriteSpill, Types, TConn, Places, Dispatched, connVars
<1>8. CASE SpillFails
  BY <1>8, DeliveryAssumption, HeadRequest DEF SpillFails, Tell, Types, TConn, Places, Dispatched, connVars
<1>9. CASE Submit
  BY <1>9, DeliveryAssumption, HeadRequest DEF Submit, Types, TConn, Places, Dispatched, connVars
<1>10. CASE SubmitFails
  BY <1>10, DeliveryAssumption, HeadRequest DEF SubmitFails, FailWith, Tell, AbortFeed, NextRequest,
     Abandon, Unlink, Hangup, Over, Types, TConn, Places, Dispatched, connVars
<1>11. CASE TakeHeaders
  BY <1>11, DeliveryAssumption, HeadRequest DEF TakeHeaders, NextEvent, Types, TConn, Places,
     Dispatched, connVars
<1>12. CASE FailFirst
  BY <1>12, DeliveryAssumption, HeadRequest DEF FailFirst, FailWith, Tell, AbortFeed, NextRequest,
     Abandon, Unlink, Hangup, Over, Types, TConn, Places, Dispatched, connVars
<1>13. CASE BufferPiece
  BY <1>13, DeliveryAssumption, HeadRequest DEF BufferPiece, NextEvent, Types, TConn, Places,
     Dispatched, connVars
<1>14. CASE Overflow
  BY <1>14, DeliveryAssumption, HeadRequest DEF Overflow, NextEvent, StartChunks, Types, TConn,
     Places, Dispatched, connVars
<1>15. CASE FlushBuffer
  BY <1>15, DeliveryAssumption, HeadRequest DEF FlushBuffer, NextEvent, StartChunks, Types, TConn,
     Places, Dispatched, connVars
<1>16. CASE EndBuffered
  BY <1>16, DeliveryAssumption, HeadRequest DEF EndBuffered, Complete, Tell, Types, TConn, Places,
     Dispatched, connVars
<1>17. CASE FailBuffered
  BY <1>17, DeliveryAssumption, HeadRequest
     DEF FailBuffered, FailWith, Tell, AbortFeed, NextRequest, Abandon, Unlink, Hangup, Over, Break,
         Types, TConn, Places, Dispatched, connVars
<1>18. CASE Flush
  BY <1>18, DeliveryAssumption, HeadRequest DEF Flush, NextEvent, Types, TConn, Places, Dispatched, connVars
<1>19. CASE EndChunks
  BY <1>19, DeliveryAssumption, HeadRequest DEF EndChunks, Complete, Tell, Types, TConn, Places,
     Dispatched, connVars
<1>20. CASE Truncate
  BY <1>20, DeliveryAssumption, HeadRequest DEF Truncate, Break, AbortFeed, Abandon, Unlink, Hangup,
     Over, Types, TConn, Places, Dispatched, connVars
<1>21. CASE ResponseTimeout
  BY <1>21, DeliveryAssumption, HeadRequest
     DEF ResponseTimeout, SendAbort, Types, TConn, Places, Dispatched, connVars
<1>22. CASE IdleTimeout
  BY <1>22, DeliveryAssumption, HeadRequest DEF IdleTimeout, SendAbort, Types, TConn, Places,
     Dispatched, connVars
<1>23. CASE WriteFails
  BY <1>23, DeliveryAssumption, HeadRequest DEF WriteFails, Abandon, Unlink, Hangup, Over, Types,
     TConn, Places, Dispatched, connVars
<1>24. CASE ClientGone
  BY <1>24, DeliveryAssumption, HeadRequest DEF ClientGone, SendAbort, NextEvent, Types, TConn,
     Places, Dispatched, connVars
<1>25. CASE AbortSent
  BY <1>25, DeliveryAssumption, HeadRequest DEF AbortSent, FailWith, Tell, AbortFeed, NextRequest,
     Abandon, Unlink, Hangup, Over, Break, Complete, Types, TConn, Places, Dispatched, connVars
<1>26. CASE Reclaim
  BY <1>26, DeliveryAssumption, HeadRequest DEF Reclaim, NextRequest, Unlink, Over, Types, TConn,
     Places, Dispatched, connVars
<1>27. CASE ReadSocket \/ WriteChunk \/ FeedRead \/ FeedSend \/ FeedStalls \/ FeedDone
  BY <1>27 DEF ReadSocket, WriteChunk, NextEvent, Tell, FeedRead, FeedSend, FeedStalls, FeedDone,
     Types, TConn, Places, Dispatched, connVars
<1>28. ASSUME NEW r \in Requests, PumpBody(r) \/ PumpEnds(r) \/ Claim(r) \/ OpenSpill(r)
              \/ ReadStream(r) \/ SayHeaders(r) \/ SayPiece(r) \/ SayFlush(r) \/ SayEnd(r)
              \/ SayError(r) \/ SayDone(r) \/ Die(r)
       PROVE  TConn'
  BY <1>28 DEF PumpBody, PumpEnds, Claim, OpenSpill, ReadStream, SayHeaders, Emit, SayPiece,
     SayFlush, SayEnd, Finish, SayError, SayDone, Die, Types, TConn, Places, Dispatched, connVars
<1>29. CASE UNCHANGED vars
  BY <1>29 DEF vars, Types, TConn, Places, Dispatched, connVars
<1>30. QED
  BY <1>1, <1>2, <1>3, <1>4, <1>5, <1>6, <1>7, <1>8, <1>9, <1>10, <1>11, <1>12, <1>13, <1>14, <1>15,
     <1>16, <1>17, <1>18, <1>19, <1>20, <1>21, <1>22, <1>23, <1>24, <1>25, <1>26, <1>27, <1>28,
     <1>29
     DEF Next, ConnNext, TaskNext, WorkerNext

(* What is read and not used.                                              *)
LEMMA TBytesStep ==
  ASSUME Types, [Next]_vars
  PROVE  TBytes'
<1>1. CASE ReadSocket
  <2>1. PICK n \in 1 .. Len(wire) : buf' = SubSeq(wire, 1, n) /\ wire' = SubSeq(wire, n + 1, Len(wire))
    BY <1>1 DEF ReadSocket
  <2>2. wire \in Seq(Pieces) /\ n \in 0 .. Len(wire)
    BY <2>1 DEF Types, TBytes
  <2>3. buf' \in Seq(Pieces) /\ wire' \in Seq(Pieces)
    BY <2>1, <2>2, Taken, Dropped
  <2>4. QED
    BY <1>1, <2>3 DEF ReadSocket, Types, TBytes, feedVars
<1>2. CASE ParseHead
  <2>1. PICK b : b = Tail(buf)
    OBVIOUS
  <2>2. b \in Seq(Pieces) /\ Len(b) \in Nat /\ Size[Head(buf)[1]] \in Nat
    BY <1>2, <2>1, HeadRequest, LenProperties DEF ParseHead
  <2>3. PICK k \in 0 .. Len(b) : k = IF Len(b) > Size[Head(buf)[1]] THEN Size[Head(buf)[1]] ELSE Len(b)
    BY <2>2
  <2>4. SubSeq(b, 1, k) \in Seq(Pieces) /\ Len(SubSeq(b, 1, k)) = k
        /\ SubSeq(b, k + 1, Len(b)) \in Seq(Pieces)
    BY <2>2, Taken, Dropped
  <2>5. body' = SubSeq(b, 1, k) /\ buf' = SubSeq(b, k + 1, Len(b))
    BY <1>2, <2>1, <2>3, <2>4 DEF ParseHead, TakeBuffered
  <2>6. QED
    BY <1>2, <2>4, <2>5 DEF ParseHead, Types, TBytes, feedVars
<1>3. CASE StartFeed
  <2>1. PICK b : b = Tail(buf)
    OBVIOUS
  <2>2. b \in Seq(Pieces) /\ Len(b) \in Nat /\ Size[Head(buf)[1]] \in Nat
    BY <1>3, <2>1, HeadRequest, LenProperties DEF StartFeed
  <2>3. /\ body' = <<>> /\ buf' = <<>> /\ pend' = b /\ wire' = wire /\ feed' = "run"
        /\ rest' = Size[Head(buf)[1]] - Len(b) /\ Len(b) < Size[Head(buf)[1]]
    BY <1>3, <2>1 DEF StartFeed
  <2>4. rest' \in Nat
    BY <2>2, <2>3
  <2>5. QED
    BY <2>2, <2>3, <2>4, NoItems DEF Types, TBytes
<1>4. CASE ReadBody
  BY <1>4, DeliveryAssumption, HeadRequest, NoItems DEF ReadBody, Types, TBytes, connVars, feedVars
<1>5. CASE SubmitFails
  <2>1. body' = <<>> \/ body' = body
    BY <1>5 DEF SubmitFails, FailWith, Tell, AbortFeed, NextRequest, Abandon, Unlink, Hangup, Over
  <2>2. (pend' = <<>> /\ rest' = 0 /\ feed' = "none") \/ (pend' = pend /\ rest' = rest /\ feed' = feed)
    BY <1>5 DEF SubmitFails, FailWith, Tell, AbortFeed, NextRequest, Abandon, Unlink, Hangup, Over, feedVars
  <2>3. wire' = wire /\ buf' = buf
    BY <1>5 DEF SubmitFails
  <2>4. QED
    BY <2>1, <2>2, <2>3, NoItems DEF Types, TBytes
<1>6. CASE FailFirst
  <2>1. body' = <<>> \/ body' = body
    BY <1>6 DEF FailFirst, FailWith, Tell, AbortFeed, NextRequest, Abandon, Unlink, Hangup, Over
  <2>2. (pend' = <<>> /\ rest' = 0 /\ feed' = "none") \/ (pend' = pend /\ rest' = rest /\ feed' = feed)
    BY <1>6 DEF FailFirst, FailWith, Tell, AbortFeed, NextRequest, Abandon, Unlink, Hangup, Over, feedVars
  <2>3. wire' = wire /\ buf' = buf
    BY <1>6 DEF FailFirst
  <2>4. QED
    BY <2>1, <2>2, <2>3, NoItems DEF Types, TBytes
<1>7. CASE FailBuffered
  <2>1. body' = <<>> \/ body' = body
    BY <1>7 DEF FailBuffered, FailWith, Tell, AbortFeed, NextRequest, Abandon, Unlink, Hangup, Over, Break
  <2>2. (pend' = <<>> /\ rest' = 0 /\ feed' = "none") \/ (pend' = pend /\ rest' = rest /\ feed' = feed)
    BY <1>7 DEF FailBuffered, FailWith, Tell, AbortFeed, NextRequest, Abandon, Unlink, Hangup, Over,
       Break, feedVars
  <2>3. wire' = wire /\ buf' = buf
    BY <1>7 DEF FailBuffered
  <2>4. QED
    BY <2>1, <2>2, <2>3, NoItems DEF Types, TBytes
<1>8. CASE Truncate
  <2>1. body' = <<>> \/ body' = body
    BY <1>8 DEF Truncate, Break, AbortFeed, Abandon, Unlink, Hangup, Over
  <2>2. (pend' = <<>> /\ rest' = 0 /\ feed' = "none") \/ (pend' = pend /\ rest' = rest /\ feed' = feed)
    BY <1>8 DEF Truncate, Break, AbortFeed, Abandon, Unlink, Hangup, Over, feedVars
  <2>3. wire' = wire /\ buf' = buf
    BY <1>8 DEF Truncate
  <2>4. QED
    BY <2>1, <2>2, <2>3, NoItems DEF Types, TBytes
<1>9. CASE AbortSent
  <2>1. body' = <<>> \/ body' = body
    BY <1>9 DEF AbortSent, FailWith, Tell, AbortFeed, NextRequest, Abandon, Unlink, Hangup, Over,
       Break, Complete
  <2>2. (pend' = <<>> /\ rest' = 0 /\ feed' = "none") \/ (pend' = pend /\ rest' = rest /\ feed' = feed)
    BY <1>9 DEF AbortSent, FailWith, Tell, AbortFeed, NextRequest, Abandon, Unlink, Hangup, Over,
       Break, Complete, feedVars
  <2>3. wire' = wire /\ buf' = buf
    BY <1>9 DEF AbortSent
  <2>4. QED
    BY <2>1, <2>2, <2>3, NoItems DEF Types, TBytes
<1>10. CASE Reclaim
  BY <1>10, DeliveryAssumption, HeadRequest, NoItems
     DEF Reclaim, NextRequest, Unlink, Over, Types, TBytes, connVars, feedVars
<1>11. CASE WriteFails
  BY <1>11, DeliveryAssumption, HeadRequest, NoItems
     DEF WriteFails, Abandon, Unlink, Hangup, Over, Types, TBytes, connVars, feedVars
<1>12. CASE FeedRead
  BY <1>12, DeliveryAssumption, HeadRequest, NoItems DEF FeedRead, Types, TBytes, connVars, feedVars
<1>13. CASE FeedSend
  <2>1. pend' = <<>> \/ pend' = Tail(pend)
    BY <1>13 DEF FeedSend
  <2>2. pend' \in Seq(Pieces)
    <3>1. pend # <<>> /\ pend \in Seq(Pieces)
      BY <1>13 DEF FeedSend, Types, TBytes
    <3>2. Tail(pend) \in Seq(Pieces)
      BY <3>1
    <3>3. QED
      BY <2>1, <3>2, NoItems
  <2>3. wire' = wire /\ buf' = buf /\ body' = body /\ feed' \in {"bad", feed} /\ rest' = rest
    BY <1>13 DEF FeedSend, connVars
  <2>4. QED
    BY <2>2, <2>3 DEF Types, TBytes
<1>14. CASE FeedStalls \/ FeedDone
  BY <1>14, DeliveryAssumption, HeadRequest, NoItems
     DEF FeedStalls, FeedDone, Types, TBytes, connVars, feedVars
<1>15. CASE CloseIdle \/ RefuseHead \/ BodyStalls \/ AnswerHere \/ Route \/ WriteSpill \/ SpillFails
            \/ Submit \/ TakeHeaders \/ BufferPiece \/ Overflow \/ FlushBuffer
  BY <1>15 DEF CloseIdle, RefuseHead, BodyStalls, Tell, AnswerHere, Route, WriteSpill, SpillFails,
     Submit, TakeHeaders, NextEvent, BufferPiece, Overflow, StartChunks, FlushBuffer, Types, TBytes,
     connVars, feedVars
<1>16. CASE EndBuffered \/ WriteChunk \/ Flush \/ EndChunks \/ ResponseTimeout \/ IdleTimeout \/ ClientGone
  BY <1>16 DEF EndBuffered, Complete, Tell, WriteChunk, NextEvent, Flush, EndChunks,
     ResponseTimeout, SendAbort, IdleTimeout, ClientGone, Types, TBytes, connVars, feedVars
<1>17. ASSUME NEW r \in Requests, PumpBody(r) \/ PumpEnds(r) \/ Claim(r) \/ OpenSpill(r)
              \/ ReadStream(r) \/ SayHeaders(r) \/ SayPiece(r) \/ SayFlush(r) \/ SayEnd(r)
              \/ SayError(r) \/ SayDone(r) \/ Die(r)
       PROVE  TBytes'
  BY <1>17 DEF PumpBody, PumpEnds, Claim, OpenSpill, ReadStream, SayHeaders, Emit, SayPiece,
     SayFlush, SayEnd, Finish, SayError, SayDone, Die, Types, TBytes, connVars, feedVars
<1>18. CASE UNCHANGED vars
  BY <1>18 DEF vars, Types, TBytes, connVars, feedVars
<1>19. QED
  BY <1>1, <1>2, <1>3, <1>4, <1>5, <1>6, <1>7, <1>8, <1>9, <1>10, <1>11, <1>12, <1>13, <1>14, <1>15,
     <1>16, <1>17, <1>18
     DEF Next, ConnNext, TaskNext, WorkerNext

(* The files.                                                              *)
LEMMA TFilesStep ==
  ASSUME Types, Halves, [Next]_vars
  PROVE  TFiles'
<1>1. CASE WriteSpill \/ SpillFails
  BY <1>1 DEF WriteSpill, SpillFails, Tell, Types, TFiles, Halves, spillVars
<1>2. CASE SubmitFails
  BY <1>2 DEF SubmitFails, FailWith, Tell, AbortFeed, NextRequest, Abandon, Unlink, Hangup, Over,
     Types, TFiles, Halves, spillVars
<1>3. CASE FailFirst
  BY <1>3 DEF FailFirst, FailWith, Tell, AbortFeed, NextRequest, Abandon, Unlink, Hangup, Over,
     Types, TFiles, Halves, spillVars
<1>4. CASE FailBuffered
  BY <1>4 DEF FailBuffered, FailWith, Tell, AbortFeed, NextRequest, Abandon, Unlink, Hangup, Over,
     Break, Types, TFiles, Halves, spillVars
<1>5. CASE Truncate
  BY <1>5 DEF Truncate, Break, AbortFeed, Abandon, Unlink, Hangup, Over, Types, TFiles, Halves, spillVars
<1>6. CASE AbortSent
  BY <1>6 DEF AbortSent, FailWith, Tell, AbortFeed, NextRequest, Abandon, Unlink, Hangup, Over,
     Break, Complete, Types, TFiles, Halves, spillVars
<1>7. CASE Reclaim
  BY <1>7 DEF Reclaim, NextRequest, Unlink, Over, Types, TFiles, Halves, spillVars
<1>8. CASE WriteFails
  BY <1>8 DEF WriteFails, Abandon, Unlink, Hangup, Over, Types, TFiles, Halves, spillVars
<1>9. ASSUME NEW r \in Requests, OpenSpill(r) PROVE TFiles'
  BY <1>9 DEF OpenSpill, Types, TFiles, Halves, spillVars
<1>10. CASE ReadSocket \/ CloseIdle \/ ParseHead \/ RefuseHead \/ StartFeed \/ ReadBody
            \/ BodyStalls \/ AnswerHere \/ Route \/ Submit \/ TakeHeaders \/ BufferPiece
  BY <1>10 DEF ReadSocket, CloseIdle, ParseHead, TakeBuffered, RefuseHead, StartFeed, ReadBody,
     BodyStalls, Tell, AnswerHere, Route, Submit, TakeHeaders, NextEvent, BufferPiece, Types,
     TFiles, Halves, spillVars
<1>11. CASE Overflow \/ FlushBuffer \/ EndBuffered \/ WriteChunk \/ Flush \/ EndChunks
            \/ ResponseTimeout \/ IdleTimeout \/ ClientGone \/ FeedRead \/ FeedSend \/ FeedStalls
  BY <1>11 DEF Overflow, NextEvent, StartChunks, FlushBuffer, EndBuffered, Complete, Tell,
     WriteChunk, Flush, EndChunks, ResponseTimeout, SendAbort, IdleTimeout, ClientGone, FeedRead,
     FeedSend, FeedStalls, Types, TFiles, Halves, spillVars
<1>12. CASE FeedDone
  BY <1>12 DEF FeedDone, Types, TFiles, Halves, spillVars
<1>13. ASSUME NEW r \in Requests, PumpBody(r) \/ PumpEnds(r) \/ Claim(r) \/ ReadStream(r)
              \/ SayHeaders(r) \/ SayPiece(r) \/ SayFlush(r) \/ SayEnd(r) \/ SayError(r)
              \/ SayDone(r) \/ Die(r)
       PROVE  TFiles'
  BY <1>13 DEF PumpBody, PumpEnds, Claim, ReadStream, SayHeaders, Emit, SayPiece, SayFlush, SayEnd,
     Finish, SayError, SayDone, Die, Types, TFiles, Halves, spillVars
<1>14. CASE UNCHANGED vars
  BY <1>14 DEF vars, Types, TFiles, Halves, spillVars
<1>15. QED
  BY <1>1, <1>2, <1>3, <1>4, <1>5, <1>6, <1>7, <1>8, <1>9, <1>10, <1>11, <1>12, <1>13, <1>14
     DEF Next, ConnNext, TaskNext, WorkerNext

(* An event goes to the client's end of the queue, or the queue is dropped.*)
EventsMove ==
  /\ open' \in {open, TRUE, FALSE}
  /\ \/ events' = events \/ events' = <<>>
     \/ events # <<>> /\ events' = Tail(events)
     \/ Len(events) < EventCap /\ \E e \in Kinds : events' = Append(events, e)

(* The events of a request.                                                *)
LEMMA EventsStep ==
  ASSUME Types, [Next]_vars
  PROVE  EventsMove
<1>1. CASE Submit
  BY <1>1 DEF Submit, EventsMove, Kinds, eventVars
<1>2. CASE TakeHeaders \/ BufferPiece \/ Overflow \/ FlushBuffer \/ WriteChunk \/ Flush \/ ClientGone
  BY <1>2 DEF TakeHeaders, NextEvent, BufferPiece, Overflow, StartChunks, FlushBuffer, WriteChunk,
     Tell, Flush, ClientGone, SendAbort, EventsMove, Kinds, eventVars
<1>3. CASE EndBuffered \/ EndChunks
  BY <1>3 DEF EndBuffered, Complete, Tell, EndChunks, EventsMove, Kinds, eventVars
<1>4. CASE ResponseTimeout \/ IdleTimeout
  BY <1>4 DEF ResponseTimeout, SendAbort, IdleTimeout, EventsMove, Kinds, eventVars
<1>5. CASE SubmitFails
  BY <1>5 DEF SubmitFails, FailWith, Tell, AbortFeed, NextRequest, Abandon, Unlink, Hangup, Over,
     EventsMove, Kinds, eventVars
<1>6. CASE FailFirst
  BY <1>6 DEF FailFirst, FailWith, Tell, AbortFeed, NextRequest, Abandon, Unlink, Hangup, Over,
     EventsMove, Kinds, eventVars
<1>7. CASE FailBuffered
  BY <1>7 DEF FailBuffered, FailWith, Tell, AbortFeed, NextRequest, Abandon, Unlink, Hangup, Over,
     Break, EventsMove, Kinds, eventVars
<1>8. CASE Truncate
  BY <1>8 DEF Truncate, Break, AbortFeed, Abandon, Unlink, Hangup, Over, EventsMove, Kinds, eventVars
<1>9. CASE AbortSent
  BY <1>9 DEF AbortSent, FailWith, Tell, AbortFeed, NextRequest, Abandon, Unlink, Hangup, Over,
     Break, Complete, EventsMove, Kinds, eventVars
<1>10. CASE Reclaim
  BY <1>10 DEF Reclaim, NextRequest, Unlink, Over, EventsMove, Kinds, eventVars
<1>11. CASE WriteFails
  BY <1>11 DEF WriteFails, Abandon, Unlink, Hangup, Over, EventsMove, Kinds, eventVars
<1>12. ASSUME NEW r \in Requests, SayHeaders(r) PROVE EventsMove
  BY <1>12 DEF SayHeaders, Emit, EventsMove, Kinds, eventVars
<1>13. ASSUME NEW r \in Requests, SayPiece(r) PROVE EventsMove
  BY <1>13 DEF SayPiece, Emit, EventsMove, Kinds, eventVars
<1>14. ASSUME NEW r \in Requests, SayFlush(r) PROVE EventsMove
  BY <1>14 DEF SayFlush, Emit, EventsMove, Kinds, eventVars
<1>15. ASSUME NEW r \in Requests, SayEnd(r) \/ SayError(r) \/ SayDone(r) PROVE EventsMove
  BY <1>15 DEF SayEnd, Finish, Emit, SayError, SayDone, EventsMove, Kinds, eventVars
<1>16. ASSUME NEW r \in Requests, Die(r) PROVE EventsMove
  BY <1>16 DEF Die, EventsMove, Kinds, eventVars
<1>17. CASE ReadSocket \/ CloseIdle \/ ParseHead \/ RefuseHead \/ StartFeed \/ ReadBody
            \/ BodyStalls \/ AnswerHere \/ Route \/ WriteSpill \/ SpillFails \/ FeedRead
  BY <1>17 DEF ReadSocket, CloseIdle, ParseHead, TakeBuffered, RefuseHead, StartFeed, ReadBody,
     BodyStalls, Tell, AnswerHere, Route, WriteSpill, SpillFails, FeedRead, EventsMove, Kinds,
     eventVars
<1>18. CASE FeedSend \/ FeedStalls \/ FeedDone
  BY <1>18 DEF FeedSend, FeedStalls, FeedDone, EventsMove, Kinds, eventVars
<1>19. ASSUME NEW r \in Requests, PumpBody(r) \/ PumpEnds(r) \/ Claim(r) \/ OpenSpill(r)
              \/ ReadStream(r)
       PROVE  EventsMove
  BY <1>19 DEF PumpBody, PumpEnds, Claim, OpenSpill, ReadStream, EventsMove, Kinds, eventVars
<1>20. CASE UNCHANGED vars
  BY <1>20 DEF vars, EventsMove, Kinds, eventVars
<1>21. QED
  BY <1>1, <1>2, <1>3, <1>4, <1>5, <1>6, <1>7, <1>8, <1>9, <1>10, <1>11, <1>12, <1>13, <1>14, <1>15,
     <1>16, <1>17, <1>18, <1>19, <1>20
     DEF Next, ConnNext, TaskNext, WorkerNext

(* The body on its way to the pump.                                        *)
LEMMA TBodyStep ==
  ASSUME Types, Halves, [Next]_vars
  PROVE  TBody'
<1>1. CASE FeedSend
  <2>1. cur \in Requests /\ pend # <<>> /\ pend \in Seq(Pieces)
    BY <1>1 DEF FeedSend, Halves, Types, TBytes
  <2>2. PICK s \in Seq(Pieces), x \in Pieces : s = chan[cur] /\ x = Head(pend)
    BY <2>1 DEF Types, TBody
  <2>3. Append(s, x) \in Seq(Pieces) /\ Len(Append(s, x)) = Len(s) + 1 /\ Len(s) \in Nat
    BY <2>2
  <2>4. \/ chan' = chan
        \/ Len(s) < FeedCap /\ chan' = [chan EXCEPT ![cur] = Append(s, x)]
    BY <1>1, <2>1, <2>2 DEF FeedSend, Types, TBody
  <2>5. pump' = pump
    BY <1>1 DEF FeedSend
  <2>6. TBody
    BY DEF Types
  <2>7. CASE chan' = chan
    BY <2>5, <2>6, <2>7 DEF TBody
  <2>8. CASE Len(s) < FeedCap /\ chan' = [chan EXCEPT ![cur] = Append(s, x)]
    <3>1. chan' \in [Requests -> Seq(Pieces)]
      BY <2>1, <2>3, <2>6, <2>8 DEF TBody
    <3>2. Len(Append(s, x)) <= FeedCap
      BY <2>3, <2>8, Limits
    <3>3. \A q \in Requests : chan'[q] = Append(s, x) \/ chan'[q] = chan[q]
      BY <2>6, <2>8 DEF TBody
    <3>4. \A q \in Requests : Len(chan'[q]) <= FeedCap
      BY <2>6, <3>2, <3>3 DEF TBody
    <3>5. QED
      BY <2>5, <2>6, <3>1, <3>4 DEF TBody
  <2>9. QED
    BY <2>4, <2>7, <2>8
<1>2. ASSUME NEW r \in Requests, PumpBody(r) PROVE TBody'
  <2>1. PICK s \in Seq(Pieces) : s = chan[r] /\ s # <<>>
    BY <1>2 DEF PumpBody, Types, TBody
  <2>2. Tail(s) \in Seq(Pieces) /\ Len(Tail(s)) = Len(s) - 1 /\ Len(s) \in Nat
        /\ <<>> \in Seq(Pieces) /\ Len(<<>>) = 0
    BY <2>1
  <2>3. PICK t \in {<<>>, Tail(s)} : chan' = [chan EXCEPT ![r] = t]
    BY <1>2, <2>1 DEF PumpBody, Types, TBody
  <2>4. pump' \in [Requests -> {"none", "run", "done"}]
    BY <1>2 DEF PumpBody, Types, TBody
  <2>5. TBody /\ Len(s) <= FeedCap
    BY <2>1 DEF Types, TBody
  <2>6. t \in Seq(Pieces) /\ Len(t) <= FeedCap
    <3>1. CASE t = <<>>
      BY <3>1, NoItems, Limits
    <3>2. CASE t = Tail(s)
      BY <2>2, <2>5, <3>2, Limits
    <3>3. QED
      BY <3>1, <3>2
  <2>7. chan' \in [Requests -> Seq(Pieces)]
    BY <2>3, <2>5, <2>6 DEF TBody
  <2>8. \A q \in Requests : chan'[q] = t \/ chan'[q] = chan[q]
    BY <2>3, <2>5 DEF TBody
  <2>9. \A q \in Requests : Len(chan'[q]) <= FeedCap
    BY <2>5, <2>6, <2>8 DEF TBody
  <2>10. QED
    BY <2>4, <2>7, <2>9 DEF TBody
<1>3. ASSUME NEW r \in Requests, PumpEnds(r) PROVE TBody'
  BY <1>3, DeliveryAssumption DEF PumpEnds, Types, TBody, pumpVars
<1>4. ASSUME NEW r \in Requests, Claim(r) PROVE TBody'
  BY <1>4, DeliveryAssumption DEF Claim, Types, TBody, pumpVars
<1>5. CASE ReadSocket \/ CloseIdle \/ ParseHead \/ RefuseHead \/ StartFeed \/ ReadBody \/ BodyStalls
           \/ AnswerHere \/ Route \/ WriteSpill \/ SpillFails \/ Submit
  BY <1>5 DEF ReadSocket, CloseIdle, ParseHead, TakeBuffered, RefuseHead, StartFeed, ReadBody,
     BodyStalls, Tell, AnswerHere, Route, WriteSpill, SpillFails, Submit, Types, TBody, pumpVars
<1>6. CASE SubmitFails \/ TakeHeaders \/ FailFirst \/ BufferPiece \/ Overflow \/ FlushBuffer
           \/ EndBuffered \/ FailBuffered \/ WriteChunk \/ Flush \/ EndChunks \/ Truncate
  BY <1>6 DEF SubmitFails, FailWith, Tell, AbortFeed, NextRequest, Abandon, Unlink, Hangup, Over,
     TakeHeaders, NextEvent, FailFirst, BufferPiece, Overflow, StartChunks, FlushBuffer,
     EndBuffered, Complete, FailBuffered, Break, WriteChunk, Flush, EndChunks, Truncate, Types,
     TBody, pumpVars
<1>7. CASE ResponseTimeout \/ IdleTimeout \/ WriteFails \/ ClientGone \/ AbortSent \/ Reclaim
           \/ FeedRead \/ FeedStalls \/ FeedDone
  BY <1>7 DEF ResponseTimeout, SendAbort, IdleTimeout, WriteFails, Abandon, Unlink, Hangup, Over,
     ClientGone, NextEvent, AbortSent, FailWith, Tell, AbortFeed, NextRequest, Break, Complete,
     Reclaim, FeedRead, FeedStalls, FeedDone, Types, TBody, pumpVars
<1>8. ASSUME NEW r \in Requests, OpenSpill(r) \/ ReadStream(r) \/ SayHeaders(r) \/ SayPiece(r)
             \/ SayFlush(r) \/ SayEnd(r) \/ SayError(r) \/ SayDone(r) \/ Die(r)
      PROVE  TBody'
  BY <1>8 DEF OpenSpill, ReadStream, SayHeaders, Emit, SayPiece, SayFlush, SayEnd, Finish, SayError,
     SayDone, Die, Types, TBody, pumpVars
<1>9. CASE UNCHANGED vars
  BY <1>9 DEF vars, Types, TBody, pumpVars
<1>10. QED
  BY <1>1, <1>2, <1>3, <1>4, <1>5, <1>6, <1>7, <1>8, <1>9 DEF Next, ConnNext, TaskNext, WorkerNext

(* The workers.                                                            *)
LEMMA TWorkerStep ==
  ASSUME Types, [Next]_vars
  PROVE  TWorker'
<1>1. CASE Submit
  BY <1>1, DeliveryAssumption DEF Submit, Types, TWorker, workerVars
<1>2. CASE SubmitFails
  BY <1>2, DeliveryAssumption DEF SubmitFails, FailWith, Tell, AbortFeed, NextRequest, Abandon,
     Unlink, Hangup, Over, Types, TWorker, workerVars
<1>3. CASE FailFirst
  BY <1>3, DeliveryAssumption DEF FailFirst, FailWith, Tell, AbortFeed, NextRequest, Abandon,
     Unlink, Hangup, Over, Types, TWorker, workerVars
<1>4. CASE FailBuffered
  BY <1>4, DeliveryAssumption DEF FailBuffered, FailWith, Tell, AbortFeed, NextRequest, Abandon,
     Unlink, Hangup, Over, Break, Types, TWorker, workerVars
<1>5. CASE Truncate
  BY <1>5, DeliveryAssumption DEF Truncate, Break, AbortFeed, Abandon, Unlink, Hangup, Over, Types,
     TWorker, workerVars
<1>6. CASE WriteFails
  BY <1>6, DeliveryAssumption DEF WriteFails, Abandon, Unlink, Hangup, Over, Types, TWorker, workerVars
<1>7. CASE AbortSent
  BY <1>7, DeliveryAssumption DEF AbortSent, FailWith, Tell, AbortFeed, NextRequest, Abandon,
     Unlink, Hangup, Over, Break, Complete, Types, TWorker, workerVars
<1>8. ASSUME NEW r \in Requests, Claim(r) PROVE TWorker'
  BY <1>8, DeliveryAssumption DEF Claim, Types, TWorker, workerVars
<1>9. ASSUME NEW r \in Requests, SayHeaders(r) PROVE TWorker'
  BY <1>9, DeliveryAssumption DEF SayHeaders, Emit, Types, TWorker, workerVars
<1>10. ASSUME NEW r \in Requests, SayPiece(r) PROVE TWorker'
  <2>1. pieces[r] \in Nat /\ MaxPieces[r] \in Nat /\ pieces[r] < MaxPieces[r]
    BY <1>10, DeliveryAssumption DEF SayPiece, Types, TWorker
  <2>2. pieces' = [pieces EXCEPT ![r] = pieces[r] + 1] /\ pieces[r] + 1 \in Nat
        /\ pieces[r] + 1 <= MaxPieces[r]
    BY <1>10, <2>1 DEF SayPiece, Types, TWorker
  <2>3. pieces' \in [Requests -> Nat] /\ \A q \in Requests : pieces'[q] <= MaxPieces[q]
    BY <2>2 DEF Types, TWorker
  <2>4. QED
    BY <1>10, <2>3 DEF SayPiece, Types, TWorker
<1>11. ASSUME NEW r \in Requests, SayFlush(r) PROVE TWorker'
  BY <1>11, DeliveryAssumption DEF SayFlush, Emit, Types, TWorker, workerVars
<1>12. ASSUME NEW r \in Requests, SayEnd(r) \/ SayError(r) \/ SayDone(r) PROVE TWorker'
  <2>1. PICK how \in {"end", "error", "cut"} : said' = said \/ said' = [said EXCEPT ![r] = how]
    BY <1>12 DEF SayEnd, SayError, SayDone, Finish
  <2>2. worker' = [worker EXCEPT ![r] = "done"] /\ pieces' = pieces
    BY <1>12 DEF SayEnd, SayError, SayDone, Finish
  <2>3. QED
    BY <2>1, <2>2 DEF Types, TWorker
<1>13. ASSUME NEW r \in Requests, Die(r) PROVE TWorker'
  BY <1>13, DeliveryAssumption DEF Die, Types, TWorker, workerVars
<1>14. CASE ReadSocket \/ CloseIdle \/ ParseHead \/ RefuseHead \/ StartFeed \/ ReadBody
            \/ BodyStalls \/ AnswerHere \/ Route \/ WriteSpill \/ SpillFails \/ TakeHeaders
  BY <1>14 DEF ReadSocket, CloseIdle, ParseHead, TakeBuffered, RefuseHead, StartFeed, ReadBody,
     BodyStalls, Tell, AnswerHere, Route, WriteSpill, SpillFails, TakeHeaders, NextEvent, Types,
     TWorker, workerVars
<1>15. CASE BufferPiece \/ Overflow \/ FlushBuffer \/ EndBuffered \/ WriteChunk \/ Flush
            \/ EndChunks \/ ResponseTimeout \/ IdleTimeout \/ ClientGone \/ Reclaim \/ FeedRead
  BY <1>15 DEF BufferPiece, NextEvent, Overflow, StartChunks, FlushBuffer, EndBuffered, Complete,
     Tell, WriteChunk, Flush, EndChunks, ResponseTimeout, SendAbort, IdleTimeout, ClientGone,
     Reclaim, NextRequest, Unlink, Over, FeedRead, Types, TWorker, workerVars
<1>16. CASE FeedSend \/ FeedStalls \/ FeedDone
  BY <1>16 DEF FeedSend, FeedStalls, FeedDone, Types, TWorker, workerVars
<1>17. ASSUME NEW r \in Requests, PumpBody(r) \/ PumpEnds(r) \/ OpenSpill(r) \/ ReadStream(r) PROVE TWorker'
  BY <1>17 DEF PumpBody, PumpEnds, OpenSpill, ReadStream, Types, TWorker, workerVars
<1>18. CASE UNCHANGED vars
  BY <1>18 DEF vars, Types, TWorker, workerVars
<1>19. QED
  BY <1>1, <1>2, <1>3, <1>4, <1>5, <1>6, <1>7, <1>8, <1>9, <1>10, <1>11, <1>12, <1>13, <1>14, <1>15,
     <1>16, <1>17, <1>18
     DEF Next, ConnNext, TaskNext, WorkerNext

(* A frame is written to a worker or read by it, or its stream is gone.    *)
DownMove ==
  \/ UNCHANGED <<down, got>>
  \/ \E r \in Requests :
       \/ \E x \in Frames : /\ Len(down[r]) < DownCap /\ got' = got
                            /\ down' = [down EXCEPT ![r] = Append(down[r], x)]
       \/ /\ down[r] # <<>> /\ down' = [down EXCEPT ![r] = Tail(down[r])]
          /\ got' = got \/ got' = [got EXCEPT ![r] = Append(got[r], Head(down[r]))]
       \/ down' = [down EXCEPT ![r] = <<>>] /\ got' = got

(* The stream to a worker.                                                 *)
LEMMA DownStep ==
  ASSUME Types, Halves, [Next]_vars
  PROVE  DownMove
<1>1. CASE AbortSent
  <2>1. cur \in Requests /\ AbortFrame \in Frames
    BY <1>1 DEF AbortSent, Halves, Frames
  <2>2. down' = down \/ (Len(down[cur]) < DownCap
        /\ down' = [down EXCEPT ![cur] = Append(down[cur], AbortFrame)])
    BY <1>1, <2>1 DEF AbortSent, Types, TDown
  <2>3. got' = got
    BY <1>1 DEF AbortSent
  <2>4. QED
    BY <2>1, <2>2, <2>3 DEF DownMove
<1>2. ASSUME NEW r \in Requests, PumpBody(r) PROVE DownMove
  <2>1. Head(chan[r]) \in Frames
    BY <1>2 DEF PumpBody, Types, TBody, Frames
  <2>2. down' = down \/ (Len(down[r]) < DownCap
        /\ down' = [down EXCEPT ![r] = Append(down[r], Head(chan[r]))])
    BY <1>2 DEF PumpBody, Types, TDown
  <2>3. got' = got
    BY <1>2 DEF PumpBody, workerVars
  <2>4. QED
    BY <2>1, <2>2, <2>3 DEF DownMove
<1>3. ASSUME NEW r \in Requests, PumpEnds(r) PROVE DownMove
  <2>1. Terminator \in Frames
    BY DEF Frames
  <2>2. down' = down \/ (Len(down[r]) < DownCap /\ down' = [down EXCEPT ![r] = Append(down[r], Terminator)])
    BY <1>3 DEF PumpEnds, Types, TDown
  <2>3. got' = got
    BY <1>3 DEF PumpEnds, workerVars
  <2>4. QED
    BY <2>1, <2>2, <2>3 DEF DownMove
<1>4. ASSUME NEW r \in Requests, ReadStream(r) PROVE DownMove
  <2>1. down[r] # <<>> /\ down' = [down EXCEPT ![r] = Tail(down[r])]
    BY <1>4 DEF ReadStream, Types, TDown
  <2>2. got' = got \/ got' = [got EXCEPT ![r] = Append(got[r], Head(down[r]))]
    BY <1>4 DEF ReadStream, Types, TDown
  <2>3. QED
    BY <2>1, <2>2 DEF DownMove
<1>5. ASSUME NEW r \in Requests, Die(r) PROVE DownMove
  BY <1>5, DeliveryAssumption DEF Die, DownMove, workerVars
<1>6. CASE ReadSocket \/ CloseIdle \/ ParseHead \/ RefuseHead \/ StartFeed \/ ReadBody \/ BodyStalls
           \/ AnswerHere \/ Route \/ WriteSpill \/ SpillFails \/ Submit
  BY <1>6 DEF ReadSocket, CloseIdle, ParseHead, TakeBuffered, RefuseHead, StartFeed, ReadBody,
     BodyStalls, Tell, AnswerHere, Route, WriteSpill, SpillFails, Submit, DownMove, workerVars
<1>7. CASE SubmitFails \/ TakeHeaders \/ FailFirst \/ BufferPiece \/ Overflow \/ FlushBuffer
           \/ EndBuffered \/ FailBuffered \/ WriteChunk \/ Flush \/ EndChunks \/ Truncate
  BY <1>7 DEF SubmitFails, FailWith, Tell, AbortFeed, NextRequest, Abandon, Unlink, Hangup, Over,
     TakeHeaders, NextEvent, FailFirst, BufferPiece, Overflow, StartChunks, FlushBuffer,
     EndBuffered, Complete, FailBuffered, Break, WriteChunk, Flush, EndChunks, Truncate, DownMove,
     workerVars
<1>8. CASE ResponseTimeout \/ IdleTimeout \/ WriteFails \/ ClientGone \/ Reclaim \/ FeedRead
           \/ FeedSend \/ FeedStalls \/ FeedDone
  BY <1>8 DEF ResponseTimeout, SendAbort, IdleTimeout, WriteFails, Abandon, Unlink, Hangup, Over,
     ClientGone, NextEvent, Reclaim, NextRequest, FeedRead, FeedSend, FeedStalls, FeedDone,
     DownMove, workerVars
<1>9. ASSUME NEW r \in Requests, Claim(r) \/ OpenSpill(r) \/ SayHeaders(r) \/ SayPiece(r)
             \/ SayFlush(r) \/ SayEnd(r) \/ SayError(r) \/ SayDone(r)
      PROVE  DownMove
  BY <1>9 DEF Claim, OpenSpill, SayHeaders, Emit, SayPiece, SayFlush, SayEnd, Finish, SayError,
     SayDone, DownMove, workerVars
<1>10. CASE UNCHANGED vars
  BY <1>10 DEF vars, DownMove, workerVars
<1>11. QED
  BY <1>1, <1>2, <1>3, <1>4, <1>5, <1>6, <1>7, <1>8, <1>9, <1>10 DEF Next, ConnNext, TaskNext, WorkerNext

(* The types of the events.                                                *)
LEMMA TEventsStep ==
  ASSUME Types, [Next]_vars
  PROVE  TEvents'
<1>1. events \in Seq(Kinds) /\ Len(events) <= EventCap /\ EventCap \in Nat /\ open \in BOOLEAN
  BY DeliveryAssumption DEF Types, TEvents
<1>2. EventsMove
  BY EventsStep
<1>3. Len(events) \in Nat /\ (events # <<>> => Tail(events) \in Seq(Kinds)
      /\ Len(Tail(events)) = Len(events) - 1)
  BY <1>1
<1>4. \A e \in Kinds : Append(events, e) \in Seq(Kinds) /\ Len(Append(events, e)) = Len(events) + 1
  BY <1>1
<1>5. events' \in Seq(Kinds) /\ Len(events') <= EventCap
  <2>1. CASE events' = events \/ events' = <<>>
    BY <1>1, <2>1, NoItems
  <2>2. CASE events # <<>> /\ events' = Tail(events)
    BY <1>1, <1>3, <2>2
  <2>3. CASE Len(events) < EventCap /\ \E e \in Kinds : events' = Append(events, e)
    BY <1>1, <1>3, <1>4, <2>3
  <2>4. QED
    BY <1>2, <2>1, <2>2, <2>3 DEF EventsMove
<1>6. open' \in BOOLEAN
  BY <1>1, <1>2 DEF EventsMove
<1>7. QED
  BY <1>5, <1>6 DEF TEvents

(* The types of the streams.                                               *)
LEMMA TDownStep ==
  ASSUME Types, Halves, [Next]_vars
  PROVE  TDown'
<1>1. DownMove /\ TDown
  BY DownStep DEF Types
<1>2. CASE UNCHANGED <<down, got>>
  BY <1>1, <1>2 DEF TDown
<1>3. ASSUME NEW r \in Requests, NEW x \in Frames, Len(down[r]) < DownCap, got' = got,
             down' = [down EXCEPT ![r] = Append(down[r], x)]
      PROVE  TDown'
  <2>1. PICK s \in Seq(Frames) : s = down[r]
    BY <1>1 DEF TDown
  <2>2. Append(s, x) \in Seq(Frames) /\ Len(Append(s, x)) = Len(s) + 1 /\ Len(s) \in Nat
    BY <2>1
  <2>3. QED
    BY <1>1, <1>3, <2>1, <2>2, DeliveryAssumption DEF TDown
<1>4. ASSUME NEW r \in Requests, NEW t \in {<<>>, Tail(down[r])}, down[r] # <<>> \/ t = <<>>,
             down' = [down EXCEPT ![r] = t]
      PROVE  down' \in [Requests -> Seq(Frames)] /\ \A q \in Requests : Len(down'[q]) <= DownCap
  <2>1. PICK s \in Seq(Frames) : s = down[r] /\ Len(s) <= DownCap
    BY <1>1 DEF TDown
  <2>2. Len(s) \in Nat /\ (s # <<>> => Tail(s) \in Seq(Frames) /\ Len(Tail(s)) = Len(s) - 1)
    BY <2>1
  <2>3. t \in Seq(Frames) /\ Len(t) <= DownCap
    <3>1. CASE t = <<>>
      BY <3>1, NoItems, Limits
    <3>2. CASE t = Tail(s) /\ s # <<>>
      BY <2>1, <2>2, <3>2, Limits
    <3>3. QED
      BY <1>4, <2>1, <3>1, <3>2
  <2>4. QED
    BY <1>1, <1>4, <2>3 DEF TDown
<1>5. ASSUME NEW r \in Requests, down[r] # <<>>, got' = [got EXCEPT ![r] = Append(got[r], Head(down[r]))]
      PROVE  got' \in [Requests -> Seq(Frames)]
  <2>1. PICK s \in Seq(Frames), x \in Frames : s = got[r] /\ x = Head(down[r])
    BY <1>1, <1>5 DEF TDown
  <2>2. Append(s, x) \in Seq(Frames)
    BY <2>1
  <2>3. QED
    BY <1>1, <1>5, <2>1, <2>2 DEF TDown
<1>6. got' = got => got' \in [Requests -> Seq(Frames)]
  BY <1>1 DEF TDown
<1>7. QED
  BY <1>1, <1>2, <1>3, <1>4, <1>5, <1>6 DEF DownMove, TDown

-----------------------------------------------------------------------------
(* The request body.                                                       *)

(* Whose the read half is.                                                 *)
LEMMA HalvesStep ==
  ASSUME Types, Halves, [Next]_vars
  PROVE  Halves'
<1>1. CASE CloseIdle
  BY <1>1, HeadRequest DEF CloseIdle, Types, TConn, Halves, Dispatched, connVars, feedVars
<1>2. CASE ParseHead
  BY <1>2, HeadRequest DEF ParseHead, TakeBuffered, Types, TConn, Halves, Dispatched, connVars, feedVars
<1>3. CASE RefuseHead
  BY <1>3, HeadRequest DEF RefuseHead, Types, TConn, Halves, Dispatched, connVars, feedVars
<1>4. CASE StartFeed
  BY <1>4, HeadRequest DEF StartFeed, Types, TConn, Halves, Dispatched, connVars, feedVars
<1>5. CASE ReadBody
  BY <1>5, HeadRequest DEF ReadBody, Types, TConn, Halves, Dispatched, connVars, feedVars
<1>6. CASE BodyStalls
  BY <1>6, HeadRequest DEF BodyStalls, Tell, Types, TConn, Halves, Dispatched, connVars, feedVars
<1>7. CASE AnswerHere
  BY <1>7, HeadRequest DEF AnswerHere, Tell, Types, TConn, Halves, Dispatched, connVars, feedVars
<1>8. CASE Route
  BY <1>8, HeadRequest DEF Route, Types, TConn, Halves, Dispatched, connVars, feedVars
<1>9. CASE WriteSpill
  BY <1>9, HeadRequest DEF WriteSpill, Types, TConn, Halves, Dispatched, connVars, feedVars
<1>10. CASE SpillFails
  BY <1>10, HeadRequest DEF SpillFails, Tell, Types, TConn, Halves, Dispatched, connVars, feedVars
<1>11. CASE Submit
  BY <1>11, HeadRequest DEF Submit, Types, TConn, Halves, Dispatched, connVars, feedVars
<1>12. CASE SubmitFails
  BY <1>12, HeadRequest DEF SubmitFails, FailWith, Tell, AbortFeed, NextRequest, Abandon, Unlink,
     Hangup, Over, Types, TConn, Halves, Dispatched, connVars, feedVars
<1>13. CASE TakeHeaders
  BY <1>13, HeadRequest DEF TakeHeaders, NextEvent, Types, TConn, Halves, Dispatched, connVars, feedVars
<1>14. CASE FailFirst
  BY <1>14, HeadRequest DEF FailFirst, FailWith, Tell, AbortFeed, NextRequest, Abandon, Unlink,
     Hangup, Over, Types, TConn, Halves, Dispatched, connVars, feedVars
<1>15. CASE BufferPiece
  BY <1>15, HeadRequest DEF BufferPiece, NextEvent, Types, TConn, Halves, Dispatched, connVars, feedVars
<1>16. CASE Overflow
  BY <1>16, HeadRequest DEF Overflow, NextEvent, StartChunks, Types, TConn, Halves, Dispatched,
     connVars, feedVars
<1>17. CASE FlushBuffer
  BY <1>17, HeadRequest DEF FlushBuffer, NextEvent, StartChunks, Types, TConn, Halves, Dispatched,
     connVars, feedVars
<1>18. CASE EndBuffered
  BY <1>18, HeadRequest DEF EndBuffered, Complete, Tell, Types, TConn, Halves, Dispatched, connVars, feedVars
<1>19. CASE FailBuffered
  BY <1>19, HeadRequest DEF FailBuffered, FailWith, Tell, AbortFeed, NextRequest, Abandon, Unlink,
     Hangup, Over, Break, Types, TConn, Halves, Dispatched, connVars, feedVars
<1>20. CASE Flush
  BY <1>20, HeadRequest DEF Flush, NextEvent, Types, TConn, Halves, Dispatched, connVars, feedVars
<1>21. CASE EndChunks
  BY <1>21, HeadRequest DEF EndChunks, Complete, Tell, Types, TConn, Halves, Dispatched, connVars, feedVars
<1>22. CASE Truncate
  BY <1>22, HeadRequest DEF Truncate, Break, AbortFeed, Abandon, Unlink, Hangup, Over, Types, TConn,
     Halves, Dispatched, connVars, feedVars
<1>23. CASE ResponseTimeout
  BY <1>23, HeadRequest DEF ResponseTimeout, SendAbort, Types, TConn, Halves, Dispatched, connVars, feedVars
<1>24. CASE IdleTimeout
  BY <1>24, HeadRequest DEF IdleTimeout, SendAbort, Types, TConn, Halves, Dispatched, connVars, feedVars
<1>25. CASE WriteFails
  BY <1>25, HeadRequest DEF WriteFails, Abandon, Unlink, Hangup, Over, Types, TConn, Halves,
     Dispatched, connVars, feedVars
<1>26. CASE ClientGone
  BY <1>26, HeadRequest DEF ClientGone, SendAbort, NextEvent, Types, TConn, Halves, Dispatched,
     connVars, feedVars
<1>27. CASE AbortSent
  BY <1>27, HeadRequest DEF AbortSent, FailWith, Tell, AbortFeed, NextRequest, Abandon, Unlink,
     Hangup, Over, Break, Complete, Types, TConn, Halves, Dispatched, connVars, feedVars
<1>28. CASE Reclaim
  BY <1>28, HeadRequest DEF Reclaim, NextRequest, Unlink, Over, Types, TConn, Halves, Dispatched,
     connVars, feedVars
<1>29. CASE FeedSend
  BY <1>29, HeadRequest DEF FeedSend, Types, TConn, Halves, Dispatched, connVars, feedVars
<1>30. CASE FeedStalls
  BY <1>30, HeadRequest DEF FeedStalls, Types, TConn, Halves, Dispatched, connVars, feedVars
<1>31. CASE FeedDone
  BY <1>31, HeadRequest DEF FeedDone, Types, TConn, Halves, Dispatched, connVars, feedVars
<1>32. CASE ReadSocket \/ WriteChunk \/ FeedRead
  BY <1>32 DEF ReadSocket, WriteChunk, NextEvent, Tell, FeedRead, Types, TConn, Halves, Dispatched,
     connVars, feedVars
<1>33. ASSUME NEW r \in Requests, PumpBody(r) \/ PumpEnds(r) \/ Claim(r) \/ OpenSpill(r)
              \/ ReadStream(r) \/ SayHeaders(r) \/ SayPiece(r) \/ SayFlush(r) \/ SayEnd(r)
              \/ SayError(r) \/ SayDone(r) \/ Die(r)
       PROVE  Halves'
  BY <1>33 DEF PumpBody, PumpEnds, Claim, OpenSpill, ReadStream, SayHeaders, Emit, SayPiece,
     SayFlush, SayEnd, Finish, SayError, SayDone, Die, Types, TConn, Halves, Dispatched, connVars,
     feedVars
<1>34. CASE UNCHANGED vars
  BY <1>34 DEF vars, Types, TConn, Halves, Dispatched, connVars, feedVars
<1>35. QED
  BY <1>1, <1>2, <1>3, <1>4, <1>5, <1>6, <1>7, <1>8, <1>9, <1>10, <1>11, <1>12, <1>13, <1>14, <1>15,
     <1>16, <1>17, <1>18, <1>19, <1>20, <1>21, <1>22, <1>23, <1>24, <1>25, <1>26, <1>27, <1>28,
     <1>29, <1>30, <1>31, <1>32, <1>33, <1>34
     DEF Next, ConnNext, TaskNext, WorkerNext

-----------------------------------------------------------------------------
(* What the client is told.                                                *)

(* The steps, as the client sees them: nothing is written; the next request *)
(* begins; its head is refused; an answer of the router's own, or a broken *)
(* one, ends the exchange; a status line and the first chunk; a chunk; the *)
(* end of an answer.                                                       *)
Quiet ==
  /\ out' = out /\ cur' = cur
  /\ (Fresh' => Fresh) /\ (Partial' => Partial)
  /\ pc' = "head" => pc \in {"head", "reclaim"}
  /\ pc' = "reclaim" => pc = "reclaim"
  /\ \A r \in Requests : pieces'[r] = pieces[r] \/ (r = cur /\ (Fresh \/ Partial))
Begins == pc = "head" /\ buf # <<>> /\ cur' = Head(buf)[1] /\ out' = out /\ Fresh'
Refused ==
  /\ pc = "head" /\ buf # <<>> /\ cur' = Head(buf)[1] /\ pc' = "closed"
  /\ out' = Append(out, [req |-> cur', part |-> "own", n |-> 0])
Fails ==
  /\ Fresh /\ cur' = cur
  /\ \/ pc' \in {"head", "closed"} /\ Tell("own", 0)
     \/ pc' = "closed" /\ Tell("short", held)
Starts ==
  /\ Fresh /\ cur' = cur /\ Partial'
  /\ \E n \in Nat : out' = out \o <<[req |-> cur, part |-> "status", n |-> 0], [req |-> cur, part |-> "chunk", n |-> n]>>
Goes == Partial /\ cur' = cur /\ Partial' /\ Tell("chunk", 1)
Completes ==
  /\ cur' = cur /\ pc' = "reclaim"
  /\ \/ Partial /\ Tell("idle", 0)
     \/ /\ pc \in {"buffer", "bulk", "flushed"} /\ events # <<>> /\ Head(events) = "end"
        /\ IF pc = "buffer" THEN Tell("whole", held) ELSE Tell("last", 0)

AnswerMove == Quiet \/ ((Begins \/ Refused \/ Fails \/ Starts \/ Goes \/ Completes) /\ pieces' = pieces)


(* Every step is one of these.                                             *)
LEMMA AnswerSteps ==
  ASSUME Types, Halves, [Next]_vars
  PROVE  AnswerMove
<1>1. CASE ReadSocket
  BY <1>1 DEF ReadSocket, AnswerMove, Quiet, Fresh, Partial, Early, workerVars
<1>2. CASE CloseIdle
  BY <1>2 DEF CloseIdle, AnswerMove, Quiet, Fresh, Partial, Early, workerVars
<1>3. CASE ParseHead
  BY <1>3 DEF ParseHead, TakeBuffered, AnswerMove, Begins, Fresh, Partial, Early, workerVars
<1>4. CASE RefuseHead
  BY <1>4 DEF RefuseHead, AnswerMove, Refused, Fresh, Partial, Early, workerVars
<1>5. CASE StartFeed
  BY <1>5 DEF StartFeed, AnswerMove, Begins, Fresh, Partial, Early, workerVars
<1>6. CASE ReadBody
  BY <1>6 DEF ReadBody, AnswerMove, Quiet, Fresh, Partial, Early, workerVars
<1>7. CASE BodyStalls
  BY <1>7 DEF BodyStalls, AnswerMove, Quiet, Fails, Completes, Fresh, Partial, Early, Types, TConn, workerVars
<1>8. CASE AnswerHere
  BY <1>8 DEF AnswerHere, AnswerMove, Fails, Fresh, Partial, Early, workerVars
<1>9. CASE Route
  BY <1>9 DEF Route, AnswerMove, Quiet, Fresh, Partial, Early, workerVars
<1>10. CASE WriteSpill
  BY <1>10 DEF WriteSpill, AnswerMove, Quiet, Fresh, Partial, Early, workerVars
<1>11. CASE SpillFails
  BY <1>11 DEF SpillFails, AnswerMove, Fails, Fresh, Partial, Early, workerVars
<1>12. CASE Submit
  BY <1>12 DEF Submit, AnswerMove, Quiet, Fresh, Partial, Early, workerVars
<1>13. CASE SubmitFails
  BY <1>13 DEF SubmitFails, FailWith, AbortFeed, NextRequest, Abandon, Unlink, Hangup, Over,
     AnswerMove, Fails, Fresh, Partial, Early, workerVars
<1>14. CASE TakeHeaders
  BY <1>14 DEF TakeHeaders, NextEvent, AnswerMove, Quiet, Fresh, Partial, Early, workerVars
<1>15. CASE FailFirst
  BY <1>15 DEF FailFirst, FailWith, AbortFeed, NextRequest, Abandon, Unlink, Hangup, Over,
     AnswerMove, Fails, Fresh, Partial, Early, workerVars
<1>16. CASE BufferPiece
  BY <1>16 DEF BufferPiece, NextEvent, AnswerMove, Quiet, Fresh, Partial, Early, workerVars
<1>17. CASE Overflow
  <2>1. held + 1 \in Nat
    BY Limits DEF Types, TConn
  <2>2. Fresh /\ Partial' /\ cur' = cur /\ pieces' = pieces
    BY <1>17 DEF Overflow, StartChunks, Fresh, Partial, Early, workerVars
  <2>3. out' = out \o <<[req |-> cur, part |-> "status", n |-> 0], [req |-> cur, part |-> "chunk", n |-> held + 1]>>
    BY <1>17 DEF Overflow, StartChunks
  <2>4. QED
    BY <2>1, <2>2, <2>3 DEF AnswerMove, Starts
<1>18. CASE FlushBuffer
  <2>1. held \in Nat
    BY Limits DEF Types, TConn
  <2>2. Fresh /\ Partial' /\ cur' = cur /\ pieces' = pieces
    BY <1>18 DEF FlushBuffer, StartChunks, Fresh, Partial, Early, workerVars
  <2>3. out' = out \o <<[req |-> cur, part |-> "status", n |-> 0], [req |-> cur, part |-> "chunk", n |-> held]>>
    BY <1>18 DEF FlushBuffer, StartChunks
  <2>4. QED
    BY <2>1, <2>2, <2>3 DEF AnswerMove, Starts
<1>19. CASE EndBuffered
  BY <1>19 DEF EndBuffered, Complete, AnswerMove, Completes, Fresh, Partial, Early, workerVars
<1>20. CASE FailBuffered
  BY <1>20 DEF FailBuffered, FailWith, AbortFeed, NextRequest, Abandon, Unlink, Hangup, Over, Break,
     AnswerMove, Quiet, Fails, Completes, Fresh, Partial, Early, Types, TConn, workerVars
<1>21. CASE WriteChunk
  BY <1>21 DEF WriteChunk, NextEvent, AnswerMove, Goes, Fresh, Partial, Early, workerVars
<1>22. CASE Flush
  BY <1>22 DEF Flush, NextEvent, AnswerMove, Quiet, Fresh, Partial, Early, workerVars
<1>23. CASE EndChunks
  BY <1>23 DEF EndChunks, Complete, AnswerMove, Completes, Fresh, Partial, Early, workerVars
<1>24. CASE Truncate
  BY <1>24 DEF Truncate, Break, AbortFeed, Abandon, Unlink, Hangup, Over, AnswerMove, Quiet, Fresh,
     Partial, Early, workerVars
<1>25. CASE ResponseTimeout
  BY <1>25 DEF ResponseTimeout, SendAbort, AnswerMove, Quiet, Fresh, Partial, Early, workerVars
<1>26. CASE IdleTimeout
  BY <1>26 DEF IdleTimeout, SendAbort, AnswerMove, Quiet, Fresh, Partial, Early, workerVars
<1>27. CASE WriteFails
  BY <1>27 DEF WriteFails, Abandon, Unlink, Hangup, Over, AnswerMove, Quiet, Fresh, Partial, Early, workerVars
<1>28. CASE ClientGone
  BY <1>28 DEF ClientGone, SendAbort, NextEvent, AnswerMove, Quiet, Fresh, Partial, Early, workerVars
<1>29. CASE AbortSent
  BY <1>29 DEF AbortSent, FailWith, AbortFeed, NextRequest, Abandon, Unlink, Hangup, Over, Break,
     Complete, AnswerMove, Quiet, Fails, Completes, Fresh, Partial, Early, Types, TConn, workerVars
<1>30. CASE Reclaim
  BY <1>30 DEF Reclaim, NextRequest, Unlink, Over, AnswerMove, Quiet, Fresh, Partial, Early, workerVars
<1>31. CASE TaskNext
  BY <1>31 DEF TaskNext, FeedRead, FeedSend, FeedStalls, FeedDone, PumpBody, PumpEnds, AnswerMove,
     Quiet, Fresh, Partial, connVars, workerVars
<1>32. ASSUME NEW r \in Requests, SayPiece(r) PROVE AnswerMove
  BY <1>32 DEF SayPiece, Heard, Listening, AnswerMove, Quiet, Fresh, Partial, Early, connVars, Types, TWorker
<1>33. ASSUME NEW r \in Requests, Claim(r) \/ OpenSpill(r) \/ ReadStream(r) \/ SayHeaders(r)
              \/ SayFlush(r) \/ SayEnd(r) \/ SayError(r) \/ SayDone(r) \/ Die(r)
       PROVE  AnswerMove
  BY <1>33 DEF Claim, OpenSpill, ReadStream, SayHeaders, SayFlush, SayEnd, SayError, SayDone, Die,
     Finish, AnswerMove, Quiet, Fresh, Partial, connVars, workerVars
<1>34. CASE UNCHANGED vars
  BY <1>34 DEF vars, AnswerMove, Quiet, Fresh, Partial, connVars, workerVars
<1>35. QED
  BY <1>1, <1>2, <1>3, <1>4, <1>5, <1>6, <1>7, <1>8, <1>9, <1>10, <1>11, <1>12, <1>13, <1>14, <1>15,
     <1>16, <1>17, <1>18, <1>19, <1>20, <1>21, <1>22, <1>23, <1>24, <1>25, <1>26, <1>27, <1>28,
     <1>29, <1>30, <1>31, <1>32, <1>33, <1>34
     DEF Next, ConnNext, WorkerNext

(* An answer or a part of one, behind the others.                          *)
LEMMA Appended ==
  ASSUME NEW s \in Seq(Answers), NEW x \in Answers, NEW c \in Nat, x.req = c,
         Ordered(s), Upto(s, c), Closed(s, c),
         \A i \in 1 .. Len(s) : s[i].req = c => s[i].part \notin Ends
  PROVE  /\ Append(s, x) \in Seq(Answers) /\ Ordered(Append(s, x)) /\ Upto(Append(s, x), c) /\ Closed(Append(s, x), c)
         /\ Len(Append(s, x)) = Len(s) + 1 /\ Append(s, x)[Len(s) + 1] = x
         /\ \A i \in 1 .. Len(s) : Append(s, x)[i] = s[i]
<1>1. PICK t : t = Append(s, x)
  OBVIOUS
<1>2. /\ t \in Seq(Answers) /\ Len(t) = Len(s) + 1 /\ t[Len(s) + 1] = x /\ Len(s) \in Nat
      /\ \A i \in 1 .. Len(s) : t[i] = s[i]
  BY <1>1
<1>3. \A i \in 1 .. Len(s) : s[i] \in Answers /\ s[i].req \in Nat
  <2>1. \A i \in 1 .. Len(s) : s[i] \in Answers
    BY ElementOfSeq
  <2>2. QED
    BY <2>1, Limits DEF Answers, Requests
<1>4. DOMAIN s = 1 .. Len(s) /\ DOMAIN t = 1 .. Len(t)
  BY <1>2
<1>5. Upto(t, c)
  <2>1. ASSUME NEW i \in 1 .. Len(t) PROVE t[i].req <= c
    <3>1. CASE i = Len(s) + 1
      BY <1>2, <3>1
    <3>2. CASE i \in 1 .. Len(s)
      BY <1>2, <3>2 DEF Upto
    <3>3. QED
      BY <1>2, <3>1, <3>2
  <2>2. QED
    BY <2>1 DEF Upto
<1>6. Closed(t, c)
  <2>1. ASSUME NEW i \in 1 .. Len(t), t[i].req < c
        PROVE  \E k \in i .. Len(t) : t[k].req = t[i].req /\ t[k].part \in Final
    <3>1. i \in 1 .. Len(s) /\ t[i] = s[i]
      BY <1>2, <2>1
    <3>2. PICK k \in i .. Len(s) : s[k].req = s[i].req /\ s[k].part \in Final
      BY <2>1, <3>1 DEF Closed
    <3>3. k \in 1 .. Len(s) /\ k \in i .. Len(t)
      BY <1>2, <3>1
    <3>4. QED
      BY <1>2, <3>1, <3>2, <3>3
  <2>2. QED
    BY <2>1 DEF Closed
<1>7. Ordered(t)
  <2>1. ASSUME NEW i \in 1 .. Len(t), NEW j \in 1 .. Len(t), i < j
        PROVE  /\ t[i].req <= t[j].req
               /\ t[i].part \in Ends => t[i].req < t[j].req
               /\ t[i].req < t[j].req => \E k \in i .. (j - 1) : t[k].req = t[i].req /\ t[k].part \in Final
    <3>1. i \in 1 .. Len(s) /\ t[i] = s[i]
      BY <1>2, <2>1
    <3>2. CASE j = Len(s) + 1
      <4>1. t[j] = x /\ s[i].req <= c /\ s[i].req \in Nat
        BY <1>2, <1>3, <3>1, <3>2 DEF Upto
      <4>2. s[i].part \in Ends => s[i].req < c
        BY <3>1, <4>1
      <4>3. ASSUME s[i].req < c PROVE \E k \in i .. (j - 1) : t[k].req = t[i].req /\ t[k].part \in Final
        <5>1. PICK k \in i .. Len(s) : s[k].req = s[i].req /\ s[k].part \in Final
          BY <3>1, <4>3 DEF Closed
        <5>2. k \in 1 .. Len(s) /\ k \in i .. (j - 1)
          BY <1>2, <3>1, <3>2
        <5>3. QED
          BY <1>2, <3>1, <5>1, <5>2
      <4>4. QED
        BY <3>1, <4>1, <4>2, <4>3
    <3>3. CASE j \in 1 .. Len(s)
      <4>1. /\ s[i].req <= s[j].req
            /\ s[i].part \in Ends => s[i].req < s[j].req
            /\ s[i].req < s[j].req => \E k \in i .. (j - 1) : s[k].req = s[i].req /\ s[k].part \in Final
        BY <1>4, <2>1, <3>1, <3>3 DEF Ordered
      <4>2. t[j] = s[j] /\ \A k \in i .. (j - 1) : t[k] = s[k]
        BY <1>2, <3>1, <3>3
      <4>3. QED
        BY <3>1, <4>1, <4>2
    <3>4. QED
      BY <1>2, <3>2, <3>3
  <2>2. QED
    BY <1>4, <2>1 DEF Ordered
<1>8. QED
  BY <1>1, <1>2, <1>5, <1>6, <1>7

(* What is told adds to what was given.                                    *)
LEMMA GivenTold ==
  ASSUME TOut, cur \in Requests, NEW part \in Parts, NEW n \in Nat, Tell(part, n)
  PROVE  /\ [req |-> cur, part |-> part, n |-> Given + n] \in Answers
         /\ cur' = cur => Given' = Given + n
<1>1. Given \in Nat /\ out \in Seq(Answers)
  BY GivenNat DEF TOut
<1>2. PICK x : x = [req |-> cur, part |-> part, n |-> Given + n]
  OBVIOUS
<1>3. x \in Answers /\ x.req = cur /\ x.n = Given + n
  BY <1>1, <1>2 DEF Answers
<1>4. out' = Append(out, x)
  BY <1>2 DEF Tell
<1>5. PICK t : t = Append(out, x)
  OBVIOUS
<1>6. t # <<>> /\ t[Len(t)] = x
  BY <1>1, <1>3, <1>5
<1>7. ASSUME cur' = cur PROVE Given' = Given + n
  BY <1>3, <1>4, <1>5, <1>6, <1>7 DEF Given
<1>8. QED
  BY <1>2, <1>3, <1>7

(* With no part of the current answer out, nothing of it was given.        *)
LEMMA GivenNone ==
  ASSUME TOut, \A i \in 1 .. Len(out) : out[i].req # cur
  PROVE  Given = 0
<1>1. out # <<>> => Len(out) \in 1 .. Len(out)
  BY EmptySeq DEF TOut
<1>2. QED
  BY <1>1 DEF Given

(* The types of the answers.                                               *)
LEMMA TOutStep ==
  ASSUME Types, Halves, [Next]_vars
  PROVE  TOut'
<1>1. AnswerMove /\ out \in Seq(Answers) /\ held \in Nat
  BY AnswerSteps, Limits DEF Types, TOut, TConn
<1>2. Fresh \/ Partial => cur \in Requests
  BY DEF Fresh, Partial, Early, Halves
<1>3. ASSUME NEW x \in Answers, out' = Append(out, x) PROVE TOut'
  BY <1>1, <1>3 DEF TOut
<1>4. ASSUME NEW part \in Parts, NEW n \in Nat, Tell(part, n), cur \in Requests PROVE TOut'
  BY <1>3, <1>4, GivenTold DEF Tell, Types
<1>5. CASE Quiet \/ Begins
  BY <1>1, <1>5 DEF Quiet, Begins, TOut
<1>6. CASE Refused
  <2>1. cur' \in Requests
    BY <1>6, HeadRequest DEF Refused
  <2>2. [req |-> cur', part |-> "own", n |-> 0] \in Answers
    BY <2>1 DEF Answers, Parts, Ends
  <2>3. QED
    BY <1>3, <1>6, <2>2 DEF Refused
<1>7. CASE Fails
  BY <1>1, <1>2, <1>4, <1>7 DEF Fails, Parts, Ends
<1>8. CASE Starts
  <2>1. PICK n \in Nat : out' = out \o <<[req |-> cur, part |-> "status", n |-> 0], [req |-> cur, part |-> "chunk", n |-> n]>>
    BY <1>8 DEF Starts
  <2>2. PICK x, y : x = [req |-> cur, part |-> "status", n |-> 0]
        /\ y = [req |-> cur, part |-> "chunk", n |-> n]
    OBVIOUS
  <2>3. x \in Answers /\ y \in Answers
    BY <1>2, <1>8, <2>2 DEF Starts, Answers, Parts
  <2>4. out' = Append(Append(out, x), y)
    BY <1>1, <2>1, <2>2
  <2>5. QED
    BY <1>1, <2>3, <2>4 DEF TOut
<1>9. CASE Goes
  BY <1>2, <1>4, <1>9 DEF Goes, Parts
<1>10. CASE Completes
  <2>1. cur \in Requests
    BY <1>2, <1>10 DEF Completes, Fresh, Early, Partial
  <2>2. QED
    BY <1>1, <1>4, <1>10, <2>1 DEF Completes, Parts, Ends
<1>11. QED
  BY <1>1, <1>5, <1>6, <1>7, <1>8, <1>9, <1>10 DEF AnswerMove

(* All types are kept.                                                     *)
LEMMA TypesStep ==
  ASSUME Types, Halves, [Next]_vars
  PROVE  Types'
BY TConnStep, TBytesStep, TFilesStep, TOutStep, TEventsStep, TBodyStep, TDownStep, TWorkerStep DEF Types

(* The last event in the queue is the end: everything said was told.       *)
LEMMA AllCounted ==
  ASSUME Types, Counted, pc \in {"buffer", "bulk", "flushed"}, events # <<>>, Head(events) = "end"
  PROVE  pieces[cur] = Given + held
<1>1. events \in Seq(Kinds) /\ Len(events) \in Nat /\ Len(events) # 0 /\ events[1] = "end"
  BY DEF Types, TEvents
<1>2. Len(events) = 1
  <2>1. 1 \in 1 .. Len(events) /\ events[1] \in {"end", "failed"}
    BY <1>1
  <2>2. QED
    BY <2>1 DEF Counted
<1>3. Tally(events, Given + held, pieces[cur])
  BY DEF Counted, Active
<1>4. QED
  BY <1>1, <1>2, <1>3 DEF Tally, One

(* What is told stays in order.                                            *)
LEMMA ToldStep ==
  ASSUME Types, Types', Halves, Position, Counted, Told, [Next]_vars
  PROVE  Told'
<1>1. /\ out \in Seq(Answers) /\ Len(out) \in Nat /\ cur \in Nat /\ cur' \in Nat /\ cur \in 0 .. N
      /\ cur' \in 0 .. N
      /\ pieces \in [Requests -> Nat]
  BY Limits DEF Types, TOut, TConn, TWorker
<1>2. /\ Ordered(out) /\ Upto(out, cur) /\ Closed(out, cur)
      /\ \A i \in 1 .. Len(out) : out[i].part \in {"whole", "last"} => out[i].n = pieces[out[i].req]
  BY DEF Told
<1>3. \A i \in 1 .. Len(out) : out[i].req \in Requests /\ out[i].req \in Nat
  <2>1. \A i \in 1 .. Len(out) : out[i] \in Answers
    BY <1>1, ElementOfSeq
  <2>2. QED
    BY <2>1, Limits DEF Answers, Requests
<1>4. AnswerMove
  BY AnswerSteps
<1>5. ASSUME pc = "head", buf # <<>>, cur' = Head(buf)[1]
      PROVE  /\ cur' = cur + 1 /\ cur' \in Requests /\ Upto(out, cur') /\ Closed(out, cur')
             /\ \A i \in 1 .. Len(out) : out[i].req # cur'
  <2>1. Head(buf) = <<cur + 1, 0>> /\ cur + 1 \in Requests
    BY <1>5, HeadTaken DEF Position
  <2>2. cur' = cur + 1
    BY <1>5, <2>1
  <2>3. QED
    BY <1>1, <1>2, <1>3, <1>5, <2>1, <2>2 DEF Told, Upto
<1>6. CASE Quiet
  <2>1. out' = out /\ cur' = cur
    BY <1>6 DEF Quiet
  <2>2. Ordered(out') /\ Upto(out', cur') /\ Closed(out', cur')
    BY <1>2, <2>1
  <2>3. pc' = "head" => Closed(out', cur' + 1)
    <3>1. CASE pc = "head"
      BY <2>1, <3>1 DEF Told
    <3>2. CASE pc = "reclaim"
      <4>1. out # <<>> /\ out[Len(out)].req = cur /\ out[Len(out)].part \in Final
        BY <3>2 DEF Told
      <4>2. ASSUME NEW i \in 1 .. Len(out), out[i].req < cur + 1
            PROVE  \E k \in i .. Len(out) : out[k].req = out[i].req /\ out[k].part \in Final
        <5>1. CASE out[i].req < cur
          BY <1>2, <5>1 DEF Closed
        <5>2. CASE out[i].req = cur
          BY <1>1, <4>1, <5>2
        <5>3. QED
          BY <1>1, <1>3, <4>2, <5>1, <5>2
      <4>3. QED
        BY <2>1, <4>2 DEF Closed
    <3>3. QED
      BY <1>6, <3>1, <3>2 DEF Quiet
  <2>4. Fresh' => \A i \in 1 .. Len(out') : out'[i].req # cur'
    BY <1>6, <2>1 DEF Quiet, Told
  <2>5. Partial' => /\ out' # <<>> /\ out'[Len(out')].req = cur'
                    /\ \A i \in 1 .. Len(out') : out'[i].req = cur' => out'[i].part \notin Ends
    BY <1>6, <2>1 DEF Quiet, Told
  <2>6. pc' = "reclaim" => out' # <<>> /\ out'[Len(out')].req = cur' /\ out'[Len(out')].part \in Final
    BY <1>6, <2>1 DEF Quiet, Told
  <2>7. ASSUME NEW i \in 1 .. Len(out), out[i].part \in {"whole", "last"}
        PROVE  out[i].n = pieces'[out[i].req]
    <3>1. CASE pieces'[out[i].req] = pieces[out[i].req]
      BY <1>2, <2>7, <3>1
    <3>2. CASE out[i].req = cur /\ (Fresh \/ Partial)
      <4>1. out[i].part \notin Ends
        BY <3>2 DEF Told
      <4>2. QED
        BY <2>7, <4>1 DEF Ends
    <3>3. QED
      BY <1>3, <1>6, <3>1, <3>2 DEF Quiet
  <2>8. QED
    BY <2>1, <2>2, <2>3, <2>4, <2>5, <2>6, <2>7 DEF Told
<1>7. CASE Begins /\ pieces' = pieces
  <2>1. /\ cur' = cur + 1 /\ Upto(out, cur') /\ Closed(out, cur')
        /\ \A i \in 1 .. Len(out) : out[i].req # cur'
    BY <1>5, <1>7 DEF Begins
  <2>2. out' = out /\ Fresh' /\ pieces' = pieces
    BY <1>7 DEF Begins
  <2>3. pc' # "head" /\ ~Partial' /\ pc' # "reclaim"
    BY <2>2 DEF Fresh, Partial, Early
  <2>4. QED
    BY <1>2, <2>1, <2>2, <2>3 DEF Told
<1>8. ASSUME NEW x \in Answers, x.req = cur', out' = Append(out, x), pieces' = pieces,
             Upto(out, cur'), Closed(out, cur'),
             \A i \in 1 .. Len(out) : out[i].req = cur' => out[i].part \notin Ends,
             x.part \in {"whole", "last"} => x.n = pieces[x.req],
             \/ pc' = "closed"
             \/ pc' \in {"head", "reclaim"} /\ x.part \in Final
             \/ Partial' /\ x.part \notin Ends
      PROVE  Told'
  <2>1. /\ out' \in Seq(Answers) /\ Ordered(out') /\ Upto(out', cur') /\ Closed(out', cur')
        /\ Len(out') = Len(out) + 1 /\ out'[Len(out) + 1] = x
        /\ \A i \in 1 .. Len(out) : out'[i] = out[i]
    BY <1>1, <1>2, <1>8, Appended
  <2>2. out' # <<>> /\ out'[Len(out')].req = cur' /\ out'[Len(out')] = x
    BY <1>1, <1>8, <2>1
  <2>3. x.part \in Final => Closed(out', cur' + 1)
    <3>1. ASSUME x.part \in Final, NEW i \in 1 .. Len(out'), out'[i].req < cur' + 1
          PROVE  \E k \in i .. Len(out') : out'[k].req = out'[i].req /\ out'[k].part \in Final
      <4>1. out'[i] \in Answers
        BY <2>1, ElementOfSeq
      <4>2. out'[i].req \in Nat
        BY <4>1, Limits DEF Answers, Requests
      <4>3. CASE out'[i].req < cur'
        BY <2>1, <4>3 DEF Closed
      <4>4. CASE out'[i].req = cur'
        BY <1>1, <2>1, <2>2, <3>1, <4>4
      <4>5. QED
        BY <1>1, <3>1, <4>2, <4>3, <4>4
    <3>2. QED
      BY <3>1 DEF Closed
  <2>4. ASSUME NEW i \in 1 .. Len(out'), out'[i].part \in {"whole", "last"}
        PROVE  out'[i].n = pieces'[out'[i].req]
    <3>1. CASE i \in 1 .. Len(out)
      BY <1>2, <1>8, <2>1, <2>4, <3>1
    <3>2. CASE i = Len(out) + 1
      BY <1>8, <2>1, <2>4, <3>2
    <3>3. QED
      BY <1>1, <2>1, <3>1, <3>2
  <2>5. ASSUME x.part \notin Ends, NEW i \in 1 .. Len(out'), out'[i].req = cur' PROVE out'[i].part \notin Ends
    <3>1. CASE i \in 1 .. Len(out)
      BY <1>8, <2>1, <2>5, <3>1
    <3>2. CASE i = Len(out) + 1
      BY <2>1, <2>5, <3>2
    <3>3. QED
      BY <1>1, <2>1, <3>1, <3>2
  <2>6. CASE pc' = "closed"
    BY <2>1, <2>4, <2>6 DEF Told, Fresh, Partial, Early
  <2>7. CASE pc' \in {"head", "reclaim"} /\ x.part \in Final
    BY <2>1, <2>2, <2>3, <2>4, <2>7 DEF Told, Fresh, Partial, Early
  <2>8. CASE Partial' /\ x.part \notin Ends
    BY <2>1, <2>2, <2>4, <2>5, <2>8 DEF Told, Fresh, Partial, Early
  <2>9. QED
    BY <1>8, <2>6, <2>7, <2>8
<1>9. CASE Refused /\ pieces' = pieces
  <2>1. /\ cur' \in Requests /\ Upto(out, cur') /\ Closed(out, cur') /\ pc' = "closed"
        /\ \A i \in 1 .. Len(out) : out[i].req # cur'
    BY <1>5, <1>9 DEF Refused
  <2>2. PICK x : x = [req |-> cur', part |-> "own", n |-> 0]
    OBVIOUS
  <2>3. x \in Answers /\ x.req = cur' /\ x.part = "own"
    BY <2>1, <2>2 DEF Answers, Parts, Ends
  <2>4. out' = Append(out, x)
    BY <1>9, <2>2 DEF Refused
  <2>5. QED
    BY <1>8, <1>9, <2>1, <2>3, <2>4
<1>10. ASSUME cur' = cur, cur \in Requests, NEW part \in Parts, NEW n \in Nat, Tell(part, n), pieces' = pieces,
              Fresh \/ Partial,
              part \in {"whole", "last"} => Given + n = pieces[cur],
              \/ pc' = "closed"
              \/ pc' \in {"head", "reclaim"} /\ part \in Final
              \/ Partial' /\ part \notin Ends
       PROVE  Told'
  <2>1. PICK x : x = [req |-> cur, part |-> part, n |-> Given + n]
    OBVIOUS
  <2>2. x \in Answers
    BY <1>10, <2>1, GivenTold DEF Types
  <2>3. x.req = cur' /\ x.part = part /\ (part \in {"whole", "last"} => x.n = pieces[x.req])
    BY <1>10, <2>1
  <2>4. out' = Append(out, x)
    BY <1>10, <2>1 DEF Tell
  <2>5. \A i \in 1 .. Len(out) : out[i].req = cur' => out[i].part \notin Ends
    BY <1>10 DEF Told
  <2>6. Upto(out, cur') /\ Closed(out, cur')
    BY <1>2, <1>10
  <2>7. QED
    BY <1>8, <1>10, <2>2, <2>3, <2>4, <2>5, <2>6
<1>11. Fresh \/ Partial => cur \in Requests
  BY DEF Fresh, Partial, Early, Halves
<1>12. held \in Nat
  BY Limits DEF Types, TConn
<1>13. CASE Fails /\ pieces' = pieces
  <2>1. "own" \in Parts /\ "own" \in Final /\ "short" \in Parts
    BY DEF Parts, Ends, Final
  <2>2. CASE pc' \in {"head", "closed"} /\ Tell("own", 0)
    BY <1>10, <1>11, <1>13, <2>1, <2>2 DEF Fails
  <2>3. CASE pc' = "closed" /\ Tell("short", held)
    BY <1>10, <1>11, <1>12, <1>13, <2>1, <2>3 DEF Fails
  <2>4. QED
    BY <1>13, <2>2, <2>3 DEF Fails
<1>14. CASE Goes /\ pieces' = pieces
  <2>1. "chunk" \in Parts /\ "chunk" \notin Ends
    BY DEF Parts, Ends
  <2>2. QED
    BY <1>10, <1>11, <1>14, <2>1 DEF Goes
<1>15. CASE Completes /\ pieces' = pieces
  <2>1. {"idle", "whole", "last"} \subseteq Parts /\ {"idle", "whole", "last"} \subseteq Final
    BY DEF Parts, Ends, Final
  <2>2. CASE Partial /\ Tell("idle", 0)
    BY <1>10, <1>11, <1>15, <2>1, <2>2 DEF Completes
  <2>3. CASE pc = "buffer" /\ events # <<>> /\ Head(events) = "end" /\ Tell("whole", held)
    <3>1. Fresh /\ pieces[cur] = Given + held
      BY <2>3, AllCounted DEF Fresh, Early
    <3>2. QED
      BY <1>10, <1>11, <1>12, <1>15, <2>1, <2>3, <3>1 DEF Completes
  <2>4. CASE pc \in {"bulk", "flushed"} /\ events # <<>> /\ Head(events) = "end" /\ Tell("last", 0)
    <3>1. Partial /\ pieces[cur] = Given + held /\ held = 0
      BY <2>4, AllCounted DEF Partial, Counted
    <3>2. QED
      BY <1>10, <1>11, <1>15, <2>1, <2>4, <3>1 DEF Completes
  <2>5. QED
    BY <1>15, <2>2, <2>3, <2>4 DEF Completes
<1>16. CASE Starts /\ pieces' = pieces
  <2>1. cur' = cur /\ cur \in Requests /\ Partial'
    BY <1>11, <1>16 DEF Starts
  <2>2. PICK n \in Nat : out' = out \o <<[req |-> cur, part |-> "status", n |-> 0], [req |-> cur, part |-> "chunk", n |-> n]>>
    BY <1>16 DEF Starts
  <2>3. PICK x, y : x = [req |-> cur, part |-> "status", n |-> 0]
        /\ y = [req |-> cur, part |-> "chunk", n |-> n]
    OBVIOUS
  <2>4. x \in Answers /\ y \in Answers /\ x.req = cur /\ y.req = cur /\ x.part \notin Ends
        /\ y.part \notin Ends
    BY <2>1, <2>3 DEF Answers, Parts, Ends
  <2>5. PICK t : t = Append(out, x)
    OBVIOUS
  <2>6. \A i \in 1 .. Len(out) : out[i].req # cur
    BY <1>16 DEF Starts, Told
  <2>7. /\ t \in Seq(Answers) /\ Ordered(t) /\ Upto(t, cur) /\ Closed(t, cur)
        /\ Len(t) = Len(out) + 1 /\ t[Len(out) + 1] = x
        /\ \A i \in 1 .. Len(out) : t[i] = out[i]
    BY <1>1, <1>2, <2>4, <2>5, <2>6, Appended
  <2>8. out' = Append(t, y)
    BY <1>1, <2>2, <2>3, <2>4, <2>5
  <2>9. \A i \in 1 .. Len(t) : t[i].req = cur => t[i].part \notin Ends
    BY <1>1, <2>4, <2>6, <2>7
  <2>10. /\ out' \in Seq(Answers) /\ Ordered(out') /\ Upto(out', cur) /\ Closed(out', cur)
         /\ Len(out') = Len(t) + 1 /\ out'[Len(t) + 1] = y
         /\ \A i \in 1 .. Len(t) : out'[i] = t[i]
    BY <1>1, <2>4, <2>7, <2>8, <2>9, Appended
  <2>11. out' # <<>> /\ out'[Len(out')].req = cur
    BY <1>1, <2>4, <2>7, <2>10
  <2>12. \A i \in 1 .. Len(out') : out'[i].req = cur => out'[i].part \notin Ends
    BY <1>1, <2>4, <2>7, <2>9, <2>10
  <2>13. \A i \in 1 .. Len(out') : out'[i].part \in {"whole", "last"} => out'[i].n = pieces'[out'[i].req]
    <3>1. ASSUME NEW i \in 1 .. Len(out'), out'[i].part \in {"whole", "last"}
          PROVE  out'[i].n = pieces[out'[i].req]
      <4>1. i \in 1 .. Len(out)
        BY <1>1, <2>4, <2>7, <2>10, <3>1 DEF Ends
      <4>2. out'[i] = out[i]
        BY <1>1, <2>7, <2>10, <4>1
      <4>3. QED
        BY <1>2, <3>1, <4>1, <4>2
    <3>2. QED
      BY <1>16, <3>1
  <2>14. pc' # "head" /\ ~Fresh' /\ pc' # "reclaim"
    BY <2>1 DEF Fresh, Partial, Early
  <2>15. QED
    BY <2>1, <2>10, <2>11, <2>12, <2>13, <2>14 DEF Told
<1>17. QED
  BY <1>4, <1>6, <1>7, <1>9, <1>13, <1>14, <1>15, <1>16 DEF AnswerMove

-----------------------------------------------------------------------------
(* What the answers count.                                                 *)

(* An empty queue counts nothing; an event that leaves it or comes into it *)
(* counts when it is a piece.                                              *)
LEMMA TallyNone ==
  ASSUME NEW s, s = <<>>, NEW a \in Nat
  PROVE  Tally(s, a, a)
<1>1. Len(s) = 0
  BY NoItems
<1>2. PICK f : f = [i \in 1 .. Len(s) + 1 |-> a]
  OBVIOUS
<1>3. f \in [1 .. Len(s) + 1 -> 0 .. a] /\ f[1] = a /\ f[Len(s) + 1] = a
  BY <1>1, <1>2
<1>4. QED
  BY <1>1, <1>3 DEF Tally

(* The first event has left the queue.                                     *)
LEMMA TallyTail ==
  ASSUME NEW s \in Seq(Kinds), s # <<>>, NEW a \in Nat, NEW b \in Nat, Tally(s, a, b)
  PROVE  Tally(Tail(s), a + One(Head(s)), b)
<1>1. Len(s) \in Nat /\ Len(s) > 0
  OBVIOUS
<1>2. PICK t : t = Tail(s)
  OBVIOUS
<1>3. Len(t) = Len(s) - 1 /\ Head(s) = s[1] /\ \A i \in 1 .. Len(t) : t[i] = s[i + 1]
  BY <1>1, <1>2
<1>4. PICK f \in [1 .. Len(s) + 1 -> 0 .. b] :
        /\ f[1] = a /\ f[Len(s) + 1] = b
        /\ \A i \in 1 .. Len(s) : f[i + 1] = f[i] + One(s[i])
  BY DEF Tally
<1>5. PICK g : g = [i \in 1 .. Len(t) + 1 |-> f[i + 1]]
  OBVIOUS
<1>6. g \in [1 .. Len(t) + 1 -> 0 .. b]
  BY <1>1, <1>3, <1>5
<1>7. g[1] = a + One(s[1]) /\ g[Len(t) + 1] = b
  BY <1>1, <1>3, <1>4, <1>5
<1>8. ASSUME NEW i \in 1 .. Len(t) PROVE g[i + 1] = g[i] + One(t[i])
  <2>1. i + 1 \in 1 .. Len(s) /\ i \in 1 .. Len(t) + 1 /\ i + 1 \in 1 .. Len(t) + 1
    BY <1>1, <1>3
  <2>2. g[i] = f[i + 1] /\ g[i + 1] = f[(i + 1) + 1]
    BY <1>5, <2>1
  <2>3. f[(i + 1) + 1] = f[i + 1] + One(s[i + 1])
    BY <1>4, <2>1
  <2>4. QED
    BY <1>3, <2>2, <2>3
<1>9. Tally(t, a + One(s[1]), b)
  BY <1>6, <1>7, <1>8 DEF Tally
<1>10. QED
  BY <1>2, <1>3, <1>9

(* An event has come into the queue.                                       *)
LEMMA TallyAppend ==
  ASSUME NEW s \in Seq(Kinds), NEW e \in Kinds, NEW a \in Nat, NEW b \in Nat, Tally(s, a, b)
  PROVE  Tally(Append(s, e), a, b + One(e))
<1>1. Len(s) \in Nat /\ One(e) \in {0, 1}
  BY DEF One
<1>2. PICK t : t = Append(s, e)
  OBVIOUS
<1>3. Len(t) = Len(s) + 1 /\ t[Len(s) + 1] = e /\ \A i \in 1 .. Len(s) : t[i] = s[i]
  BY <1>1, <1>2
<1>4. PICK f \in [1 .. Len(s) + 1 -> 0 .. b] :
        /\ f[1] = a /\ f[Len(s) + 1] = b
        /\ \A i \in 1 .. Len(s) : f[i + 1] = f[i] + One(s[i])
  BY DEF Tally
<1>5. PICK d \in 0 .. 1 : d = One(e)
  BY <1>1
<1>6. PICK g : g = [i \in 1 .. Len(t) + 1 |-> IF i <= Len(s) + 1 THEN f[i] ELSE b + d]
  OBVIOUS
<1>7. g \in [1 .. Len(t) + 1 -> 0 .. b + d]
  <2>1. ASSUME NEW i \in 1 .. Len(t) + 1 PROVE (IF i <= Len(s) + 1 THEN f[i] ELSE b + d) \in 0 .. b + d
    <3>1. CASE i <= Len(s) + 1
      <4>1. i \in 1 .. Len(s) + 1
        BY <1>1, <3>1
      <4>2. f[i] \in 0 .. b
        BY <1>4, <4>1
      <4>3. QED
        BY <1>5, <3>1, <4>2
    <3>2. CASE ~(i <= Len(s) + 1)
      BY <1>5, <3>2
    <3>3. QED
      BY <3>1, <3>2
  <2>2. QED
    BY <1>6, <2>1
<1>8. g[1] = a /\ g[Len(t) + 1] = b + d
  BY <1>1, <1>3, <1>4, <1>6
<1>9. ASSUME NEW i \in 1 .. Len(t) PROVE g[i + 1] = g[i] + One(t[i])
  <2>1. CASE i \in 1 .. Len(s)
    BY <1>1, <1>3, <1>4, <1>6, <2>1
  <2>2. CASE i = Len(s) + 1
    BY <1>1, <1>3, <1>4, <1>5, <1>6, <2>2
  <2>3. QED
    BY <1>1, <1>3, <2>1, <2>2
<1>10. QED
  BY <1>2, <1>5, <1>7, <1>8, <1>9 DEF Tally

(* A status line and a chunk are the first that is given.                  *)
LEMMA StartsGiven ==
  ASSUME TOut, NEW n, NEW to, StartChunks(n, to), cur' = cur
  PROVE  Given' = n
<1>1. PICK x, y : x = [req |-> cur, part |-> "status", n |-> 0]
      /\ y = [req |-> cur, part |-> "chunk", n |-> n]
  OBVIOUS
<1>2. y.req = cur /\ y.n = n
  BY <1>1
<1>3. PICK t : t = out \o <<x, y>>
  OBVIOUS
<1>4. t # <<>> /\ t[Len(t)] = y
  <2>1. out \in Seq(Answers) /\ Len(out) \in Nat
    BY DEF TOut
  <2>2. Len(t) = Len(out) + 2 /\ t[Len(out) + 2] = y
    BY <1>3, <2>1
  <2>3. QED
    BY <2>1, <2>2
<1>5. out' = t
  BY <1>1, <1>3 DEF StartChunks
<1>6. QED
  BY <1>2, <1>4, <1>5 DEF Given

(* The steps, as they count: no answer is under way; the request is         *)
(* submitted; an event is taken, or comes, or nothing happens to them.      *)
CountMove ==
  \/ ~Active'
  \/ pc = "submit" /\ cur' = cur /\ out' = out /\ pieces' = pieces /\ events' = <<>> /\ held' = held
  \/ /\ Active /\ cur' = cur
     /\ \/ /\ events # <<>> /\ events' = Tail(events) /\ pieces' = pieces
           /\ Given' + held' = Given + held + One(Head(events))
        \/ out' = out /\ held' = held /\ events' = events /\ pieces'[cur] = pieces[cur]
        \/ /\ out' = out /\ held' = held
           /\ \E e \in Kinds : events' = Append(events, e) /\ pieces'[cur] = pieces[cur] + One(e)

(* The steps, as they end the queue of events: it is emptied, or closed, or *)
(* an event leaves it, or comes while it is open.                          *)
EndMove ==
  \/ events' = <<>>
  \/ events' = events /\ (open' => open)
  \/ events # <<>> /\ events' = Tail(events) /\ open' = open
  \/ open /\ \E e \in Kinds : events' = Append(events, e) /\ (e \in {"end", "failed"} => ~open')

(* Every step of the connection counts so.                                 *)
LEMMA CountSteps ==
  ASSUME Types, Halves, Counted, Told, [Next]_vars
  PROVE  CountMove
<1>1. held \in Nat /\ Given \in Nat
  BY GivenNat, Limits DEF Types, TConn
<1>2. Active => cur \in Requests
  BY DEF Active, Halves
<1>3. pc \in {"first", "buffer"} => Given = 0
  BY GivenNone DEF Types, Told, Fresh, Early
<1>4. One("piece") = 1 /\ One("headers") = 0 /\ One("flush") = 0 /\ One("end") = 0 /\ One("failed") = 0
  BY DEF One
<1>5. out' = out /\ cur' = cur => Given' = Given
  BY DEF Given
<1>6. CASE CloseIdle
  BY <1>6 DEF CloseIdle, CountMove, Active
<1>7. CASE ParseHead
  BY <1>7 DEF ParseHead, TakeBuffered, CountMove, Active
<1>8. CASE StartFeed
  BY <1>8 DEF StartFeed, CountMove, Active
<1>9. CASE ReadBody
  BY <1>9 DEF ReadBody, CountMove, Active
<1>10. CASE BodyStalls
  BY <1>10 DEF BodyStalls, Tell, CountMove, Active
<1>11. CASE AnswerHere
  BY <1>11 DEF AnswerHere, Tell, CountMove, Active
<1>12. CASE Route
  BY <1>12 DEF Route, CountMove, Active
<1>13. CASE WriteSpill
  BY <1>13 DEF WriteSpill, CountMove, Active
<1>14. CASE SpillFails
  BY <1>14 DEF SpillFails, Tell, CountMove, Active
<1>15. CASE SubmitFails
  BY <1>15 DEF SubmitFails, FailWith, Tell, AbortFeed, NextRequest, Abandon, Unlink, Hangup, Over,
     CountMove, Active
<1>16. CASE FailFirst
  BY <1>16 DEF FailFirst, FailWith, Tell, AbortFeed, NextRequest, Abandon, Unlink, Hangup, Over,
     CountMove, Active
<1>17. CASE EndBuffered
  BY <1>17 DEF EndBuffered, Complete, Tell, CountMove, Active
<1>18. CASE FailBuffered
  BY <1>18 DEF FailBuffered, FailWith, Tell, AbortFeed, NextRequest, Abandon, Unlink, Hangup, Over,
     Break, CountMove, Active
<1>19. CASE EndChunks
  BY <1>19 DEF EndChunks, Complete, Tell, CountMove, Active
<1>20. CASE Truncate
  BY <1>20 DEF Truncate, Break, AbortFeed, Abandon, Unlink, Hangup, Over, CountMove, Active
<1>21. CASE ResponseTimeout
  BY <1>21 DEF ResponseTimeout, SendAbort, CountMove, Active
<1>22. CASE IdleTimeout
  BY <1>22 DEF IdleTimeout, SendAbort, CountMove, Active
<1>23. CASE WriteFails
  BY <1>23 DEF WriteFails, Abandon, Unlink, Hangup, Over, CountMove, Active
<1>24. CASE ClientGone
  BY <1>24 DEF ClientGone, SendAbort, NextEvent, CountMove, Active
<1>25. CASE AbortSent
  BY <1>25 DEF AbortSent, FailWith, Tell, AbortFeed, NextRequest, Abandon, Unlink, Hangup, Over,
     Break, Complete, CountMove, Active
<1>26. CASE Reclaim
  BY <1>26 DEF Reclaim, NextRequest, Unlink, Over, CountMove, Active
<1>27. CASE ReadSocket \/ RefuseHead
  BY <1>27 DEF ReadSocket, RefuseHead, CountMove, Active
<1>28. CASE Submit
  BY <1>28 DEF Submit, CountMove
<1>29. CASE TakeHeaders
  <2>1. held = 0 /\ held' = 0
    BY <1>29 DEF TakeHeaders, Counted
  <2>2. Given' + held' = Given + held + One(Head(events))
    BY <1>29, <1>1, <1>4, <1>5, <2>1 DEF TakeHeaders, NextEvent
  <2>3. QED
    BY <1>29, <2>2 DEF TakeHeaders, NextEvent, CountMove, Active, workerVars
<1>30. CASE BufferPiece
  <2>1. Given' + held' = Given + held + One(Head(events))
    BY <1>30, <1>1, <1>4, <1>5 DEF BufferPiece, NextEvent
  <2>2. QED
    BY <1>30, <2>1 DEF BufferPiece, NextEvent, CountMove, Active, workerVars
<1>31. CASE Flush
  <2>1. Given' + held' = Given + held + One(Head(events))
    BY <1>31, <1>1, <1>4, <1>5 DEF Flush, NextEvent
  <2>2. QED
    BY <1>31, <2>1 DEF Flush, NextEvent, CountMove, Active, workerVars
<1>32. ASSUME Overflow PROVE CountMove
  <2>1. Given' = held + 1
    BY <1>32, <1>1, StartsGiven DEF Overflow, Types
  <2>2. Given' + held' = Given + held + One(Head(events))
    BY <1>32, <1>1, <1>3, <1>4, <2>1 DEF Overflow, StartChunks, NextEvent
  <2>3. QED
    BY <1>32, <2>2 DEF Overflow, StartChunks, NextEvent, CountMove, Active, workerVars
<1>33. ASSUME FlushBuffer PROVE CountMove
  <2>1. Given' = held
    BY <1>33, <1>1, StartsGiven DEF FlushBuffer, Types
  <2>2. Given' + held' = Given + held + One(Head(events))
    BY <1>33, <1>1, <1>3, <1>4, <2>1 DEF FlushBuffer, StartChunks, NextEvent
  <2>3. QED
    BY <1>33, <2>2 DEF FlushBuffer, StartChunks, NextEvent, CountMove, Active, workerVars
<1>34. CASE WriteChunk
  <2>1. Given' = Given + 1
    BY <1>34, <1>2, GivenTold DEF WriteChunk, Active, Types, Parts
  <2>2. Given' + held' = Given + held + One(Head(events))
    BY <1>34, <1>1, <1>4, <2>1 DEF WriteChunk, NextEvent
  <2>3. QED
    BY <1>34, <2>2 DEF WriteChunk, NextEvent, CountMove, Active, workerVars
<1>35. CASE TaskNext
  BY <1>35 DEF TaskNext, FeedRead, FeedSend, FeedStalls, FeedDone, PumpBody, PumpEnds, CountMove,
     Active, connVars, eventVars, workerVars
<1>36. ASSUME NEW r \in Requests, Claim(r) \/ OpenSpill(r) \/ ReadStream(r) PROVE CountMove
  BY <1>36 DEF Claim, OpenSpill, ReadStream, CountMove, Active, connVars, eventVars, workerVars
<1>37. ASSUME NEW r \in Requests, SayPiece(r) PROVE CountMove
  <2>1. pieces'[cur] = pieces[cur] + One("piece")
    BY <1>37, <1>4 DEF SayPiece, Heard, Types, TWorker
  <2>2. "piece" \in Kinds /\ events' = Append(events, "piece")
    BY <1>37 DEF SayPiece, Emit, Kinds
  <2>3. QED
    BY <1>37, <2>1, <2>2 DEF SayPiece, CountMove, Active, connVars
<1>38. ASSUME NEW r \in Requests, SayHeaders(r) PROVE CountMove
  <2>1. "headers" \in Kinds /\ events' = Append(events, "headers")
    BY <1>38 DEF SayHeaders, Emit, Kinds
  <2>2. Active => pieces'[cur] = pieces[cur] + One("headers")
    BY <1>38, <1>2, <1>4 DEF SayHeaders, Types, TWorker
  <2>3. QED
    BY <1>38, <2>1, <2>2 DEF SayHeaders, CountMove, Active, connVars
<1>39. ASSUME NEW r \in Requests, SayFlush(r) PROVE CountMove
  <2>1. "flush" \in Kinds /\ events' = Append(events, "flush")
    BY <1>39 DEF SayFlush, Emit, Kinds
  <2>2. Active => pieces'[cur] = pieces[cur] + One("flush")
    BY <1>39, <1>2, <1>4 DEF SayFlush, Types, TWorker
  <2>3. QED
    BY <1>39, <2>1, <2>2 DEF SayFlush, CountMove, Active, connVars
<1>40. ASSUME NEW r \in Requests, SayEnd(r) \/ SayError(r) \/ SayDone(r) \/ Die(r) PROVE CountMove
  <2>1. out' = out /\ held' = held /\ cur' = cur /\ pc' = pc /\ pieces' = pieces
    BY <1>40 DEF SayEnd, SayError, SayDone, Finish, Die, connVars
  <2>2. events' = events \/ \E e \in {"end", "failed"} : events' = Append(events, e)
    BY <1>40 DEF SayEnd, SayError, SayDone, Finish, Emit, Die, eventVars
  <2>3. CASE events' = events
    BY <2>1, <2>3 DEF CountMove, Active
  <2>4. ASSUME NEW e \in {"end", "failed"}, events' = Append(events, e) PROVE CountMove
    <3>1. Active => pieces'[cur] = pieces[cur] + One(e)
      BY <1>2, <1>4, <2>1, <2>4 DEF Types, TWorker
    <3>2. e \in Kinds
      BY DEF Kinds
    <3>3. QED
      BY <2>1, <2>4, <3>1, <3>2 DEF CountMove, Active
  <2>5. QED
    BY <2>2, <2>3, <2>4
<1>41. CASE UNCHANGED vars
  BY <1>41 DEF vars, CountMove, Active, connVars, eventVars, workerVars
<1>42. QED
  BY <1>6, <1>7, <1>8, <1>9, <1>10, <1>11, <1>12, <1>13, <1>14, <1>15, <1>16, <1>17, <1>18, <1>19,
     <1>20, <1>21, <1>22, <1>23, <1>24, <1>25, <1>26, <1>27, <1>28, <1>29, <1>30, <1>31, <1>32,
     <1>33, <1>34, <1>35, <1>36, <1>37, <1>38, <1>39, <1>40, <1>41
     DEF Next, ConnNext, WorkerNext

(* The end comes last.                                                     *)
LEMMA EndSteps ==
  ASSUME Types, [Next]_vars
  PROVE  EndMove
<1>1. CASE EndBuffered \/ EndChunks
  BY <1>1 DEF EndBuffered, Complete, Tell, EndChunks, EndMove, Kinds, eventVars, Heard
<1>2. ASSUME NEW r \in Requests, SayHeaders(r) \/ SayPiece(r) \/ SayFlush(r) PROVE EndMove
  BY <1>2 DEF SayHeaders, Emit, SayPiece, SayFlush, EndMove, Kinds, eventVars, Heard
<1>3. ASSUME NEW r \in Requests, SayEnd(r) \/ SayError(r) \/ SayDone(r) PROVE EndMove
  BY <1>3 DEF SayEnd, Finish, Emit, SayError, SayDone, EndMove, Kinds, eventVars, Heard
<1>4. ASSUME NEW r \in Requests, Die(r) PROVE EndMove
  BY <1>4 DEF Die, EndMove, Kinds, eventVars, Heard
<1>5. CASE ReadSocket \/ CloseIdle \/ ParseHead \/ RefuseHead \/ StartFeed \/ ReadBody \/ BodyStalls
           \/ AnswerHere \/ Route \/ WriteSpill \/ SpillFails \/ Submit
  BY <1>5 DEF ReadSocket, CloseIdle, ParseHead, TakeBuffered, RefuseHead, StartFeed, ReadBody,
     BodyStalls, Tell, AnswerHere, Route, WriteSpill, SpillFails, Submit, EndMove, Kinds, eventVars,
     Heard
<1>6. CASE SubmitFails \/ TakeHeaders \/ FailFirst \/ BufferPiece \/ Overflow \/ FlushBuffer
           \/ FailBuffered \/ WriteChunk \/ Flush \/ Truncate \/ ResponseTimeout \/ IdleTimeout
  BY <1>6 DEF SubmitFails, FailWith, Tell, AbortFeed, NextRequest, Abandon, Unlink, Hangup, Over,
     TakeHeaders, NextEvent, FailFirst, BufferPiece, Overflow, StartChunks, FlushBuffer,
     FailBuffered, Break, WriteChunk, Flush, Truncate, ResponseTimeout, SendAbort, IdleTimeout,
     EndMove, Kinds, eventVars, Heard
<1>7. CASE WriteFails \/ ClientGone \/ AbortSent \/ Reclaim \/ FeedRead \/ FeedSend \/ FeedStalls \/ FeedDone
  BY <1>7 DEF WriteFails, Abandon, Unlink, Hangup, Over, ClientGone, SendAbort, NextEvent,
     AbortSent, FailWith, Tell, AbortFeed, NextRequest, Break, Complete, Reclaim, FeedRead,
     FeedSend, FeedStalls, FeedDone, EndMove, Kinds, eventVars, Heard
<1>8. ASSUME NEW r \in Requests, PumpBody(r) \/ PumpEnds(r) \/ Claim(r) \/ OpenSpill(r)
             \/ ReadStream(r)
      PROVE  EndMove
  BY <1>8 DEF PumpBody, PumpEnds, Claim, OpenSpill, ReadStream, EndMove, Kinds, eventVars, Heard
<1>9. CASE UNCHANGED vars
  BY <1>9 DEF vars, EndMove, Kinds, eventVars, Heard
<1>10. QED
  BY <1>1, <1>2, <1>3, <1>4, <1>5, <1>6, <1>7, <1>8, <1>9 DEF Next, ConnNext, TaskNext, WorkerNext

(* What is held.                                                           *)
LEMMA HeldStep ==
  ASSUME Types, Counted, [Next]_vars
  PROVE  pc' \notin {"buffer", "abort", "reclaim"} => held' = 0
<1>1. CASE SubmitFails
  BY <1>1 DEF SubmitFails, FailWith, Tell, AbortFeed, NextRequest, Abandon, Unlink, Hangup, Over,
     Types, TConn, Places, Counted, connVars
<1>2. CASE TakeHeaders
  BY <1>2 DEF TakeHeaders, NextEvent, Types, TConn, Places, Counted, connVars
<1>3. CASE FailFirst
  BY <1>3 DEF FailFirst, FailWith, Tell, AbortFeed, NextRequest, Abandon, Unlink, Hangup, Over,
     Types, TConn, Places, Counted, connVars
<1>4. CASE BufferPiece
  BY <1>4 DEF BufferPiece, NextEvent, Types, TConn, Places, Counted, connVars
<1>5. CASE Overflow
  BY <1>5 DEF Overflow, NextEvent, StartChunks, Types, TConn, Places, Counted, connVars
<1>6. CASE FlushBuffer
  BY <1>6 DEF FlushBuffer, NextEvent, StartChunks, Types, TConn, Places, Counted, connVars
<1>7. CASE EndBuffered
  BY <1>7 DEF EndBuffered, Complete, Tell, Types, TConn, Places, Counted, connVars
<1>8. CASE FailBuffered
  BY <1>8 DEF FailBuffered, FailWith, Tell, AbortFeed, NextRequest, Abandon, Unlink, Hangup, Over,
     Break, Types, TConn, Places, Counted, connVars
<1>9. CASE EndChunks
  BY <1>9 DEF EndChunks, Complete, Tell, Types, TConn, Places, Counted, connVars
<1>10. CASE Truncate
  BY <1>10 DEF Truncate, Break, AbortFeed, Abandon, Unlink, Hangup, Over, Types, TConn, Places,
     Counted, connVars
<1>11. CASE ResponseTimeout
  BY <1>11 DEF ResponseTimeout, SendAbort, Types, TConn, Places, Counted, connVars
<1>12. CASE IdleTimeout
  BY <1>12 DEF IdleTimeout, SendAbort, Types, TConn, Places, Counted, connVars
<1>13. CASE WriteFails
  BY <1>13 DEF WriteFails, Abandon, Unlink, Hangup, Over, Types, TConn, Places, Counted, connVars
<1>14. CASE ClientGone
  BY <1>14 DEF ClientGone, SendAbort, NextEvent, Types, TConn, Places, Counted, connVars
<1>15. CASE AbortSent
  BY <1>15 DEF AbortSent, FailWith, Tell, AbortFeed, NextRequest, Abandon, Unlink, Hangup, Over,
     Break, Complete, Types, TConn, Places, Counted, connVars
<1>16. CASE Reclaim
  BY <1>16 DEF Reclaim, NextRequest, Unlink, Over, Types, TConn, Places, Counted, connVars
<1>17. CASE ReadSocket \/ CloseIdle \/ ParseHead \/ RefuseHead \/ StartFeed \/ ReadBody
            \/ BodyStalls \/ AnswerHere \/ Route \/ WriteSpill \/ SpillFails \/ Submit
  BY <1>17 DEF ReadSocket, CloseIdle, ParseHead, TakeBuffered, RefuseHead, StartFeed, ReadBody,
     BodyStalls, Tell, AnswerHere, Route, WriteSpill, SpillFails, Submit, Types, TConn, Places,
     Counted, connVars
<1>18. CASE WriteChunk \/ Flush \/ FeedRead \/ FeedSend \/ FeedStalls \/ FeedDone
  BY <1>18 DEF WriteChunk, NextEvent, Tell, Flush, FeedRead, FeedSend, FeedStalls, FeedDone, Types,
     TConn, Places, Counted, connVars
<1>19. ASSUME NEW r \in Requests, PumpBody(r) \/ PumpEnds(r) \/ Claim(r) \/ OpenSpill(r)
              \/ ReadStream(r) \/ SayHeaders(r) \/ SayPiece(r) \/ SayFlush(r) \/ SayEnd(r)
              \/ SayError(r) \/ SayDone(r) \/ Die(r)
       PROVE  pc' \notin {"buffer", "abort", "reclaim"} => held' = 0
  BY <1>19 DEF PumpBody, PumpEnds, Claim, OpenSpill, ReadStream, SayHeaders, Emit, SayPiece,
     SayFlush, SayEnd, Finish, SayError, SayDone, Die, Types, TConn, Places, Counted, connVars
<1>20. CASE UNCHANGED vars
  BY <1>20 DEF vars, Types, TConn, Places, Counted, connVars
<1>21. QED
  BY <1>1, <1>2, <1>3, <1>4, <1>5, <1>6, <1>7, <1>8, <1>9, <1>10, <1>11, <1>12, <1>13, <1>14, <1>15,
     <1>16, <1>17, <1>18, <1>19, <1>20
     DEF Next, ConnNext, TaskNext, WorkerNext

(* The answers add up.                                                     *)
LEMMA CountedStep ==
  ASSUME Types, Types', Halves, Waiting, Counted, Told, [Next]_vars
  PROVE  Counted'
<1>1. /\ events \in Seq(Kinds) /\ Len(events) \in Nat /\ held \in Nat /\ held' \in Nat /\ Given \in Nat
      /\ open \in BOOLEAN
      /\ pieces \in [Requests -> Nat]
  BY GivenNat, Limits DEF Types, TEvents, TConn, TWorker
<1>2. ASSUME Active' PROVE Tally(events', Given' + held', pieces'[cur'])
  <2>1. CountMove
    BY CountSteps
  <2>2. CASE pc = "submit" /\ cur' = cur /\ out' = out /\ pieces' = pieces /\ events' = <<>> /\ held' = held
    <3>1. cur \in Requests
      BY <2>2 DEF Halves
    <3>2. held = 0 /\ pieces[cur] = 0
      BY <2>2, <3>1 DEF Counted, Waiting
    <3>3. Given' = Given /\ Given = 0
      BY <2>2, GivenNone DEF Given, Types, Told, Fresh, Early
    <3>4. Tally(events', 0, 0)
      BY <2>2, TallyNone
    <3>5. QED
      BY <2>2, <3>2, <3>3, <3>4
  <2>3. CASE Active /\ cur' = cur
    <3>1. Tally(events, Given + held, pieces[cur]) /\ Given + held \in Nat /\ pieces[cur] \in Nat
      BY <1>1, <2>3 DEF Counted, Active, Halves
    <3>2. CASE events # <<>> /\ events' = Tail(events) /\ pieces' = pieces
               /\ Given' + held' = Given + held + One(Head(events))
      <4>1. Tally(Tail(events), (Given + held) + One(Head(events)), pieces[cur])
        BY <1>1, <3>1, <3>2, TallyTail
      <4>2. QED
        BY <2>3, <3>2, <4>1
    <3>3. CASE out' = out /\ held' = held /\ events' = events /\ pieces'[cur] = pieces[cur]
      <4>1. Given' = Given
        BY <2>3, <3>3 DEF Given
      <4>2. QED
        BY <2>3, <3>1, <3>3, <4>1
    <3>4. ASSUME out' = out, held' = held, NEW e \in Kinds, events' = Append(events, e), pieces'[cur] = pieces[cur] + One(e)
          PROVE  Tally(events', Given' + held', pieces'[cur'])
      <4>1. Given' = Given
        BY <2>3, <3>4 DEF Given
      <4>2. Tally(Append(events, e), Given + held, pieces[cur] + One(e))
        BY <1>1, <3>1, TallyAppend
      <4>3. QED
        BY <2>3, <3>4, <4>1, <4>2
    <3>5. CASE pc = "submit"
      BY <2>3, <3>5 DEF Active
    <3>6. QED
      BY <1>2, <2>1, <2>3, <3>2, <3>3, <3>4, <3>5 DEF CountMove
  <2>4. QED
    BY <1>2, <2>1, <2>2, <2>3 DEF CountMove
<1>3. pc' \notin {"buffer", "abort", "reclaim"} => held' = 0
  BY HeldStep
<1>4. ASSUME NEW i \in 1 .. Len(events'), events'[i] \in {"end", "failed"}
      PROVE  i = Len(events') /\ ~open'
  <2>1. EndMove
    BY EndSteps
  <2>2. CASE events' = <<>>
    BY <1>4, <2>2, NoItems
  <2>3. CASE events' = events /\ (open' => open)
    BY <1>4, <2>3 DEF Counted
  <2>4. CASE events # <<>> /\ events' = Tail(events) /\ open' = open
    <3>1. Len(events') = Len(events) - 1 /\ events'[i] = events[i + 1] /\ i + 1 \in 1 .. Len(events)
      BY <1>1, <1>4, <2>4
    <3>2. i + 1 = Len(events) /\ ~open
      BY <1>4, <3>1 DEF Counted
    <3>3. i = Len(events')
      BY <1>1, <3>1, <3>2
    <3>4. ~open'
      BY <2>4, <3>2
    <3>5. QED
      BY <3>3, <3>4
  <2>5. ASSUME open, NEW e \in Kinds, events' = Append(events, e), e \in {"end", "failed"} => ~open'
        PROVE  i = Len(events') /\ ~open'
    <3>1. Len(events') = Len(events) + 1 /\ events'[Len(events) + 1] = e
          /\ \A k \in 1 .. Len(events) : events'[k] = events[k]
      BY <1>1, <2>5
    <3>2. ~(i \in 1 .. Len(events))
      BY <1>4, <2>5, <3>1 DEF Counted
    <3>3. i = Len(events) + 1
      BY <1>1, <1>4, <3>1, <3>2
    <3>4. QED
      BY <1>4, <2>5, <3>1, <3>3
  <2>6. QED
    BY <2>1, <2>2, <2>3, <2>4, <2>5 DEF EndMove
<1>5. QED
  BY <1>2, <1>3, <1>4 DEF Counted

(* A request that is not claimed is forgotten at the end of its exchange.  *)
LEMMA Released ==
  ASSUME Types, Waiting, cur' = cur, pieces' = pieces, chan' = chan, pc' \in {"head", "closed", "reclaim"}, Abandon
  PROVE  Waiting'
<1>1. worker \in [Requests -> {"none", "queued", "void", "run", "done", "dead"}] /\ cur \in Nat
  BY Limits DEF Types, TConn, TWorker
<1>2. \A r \in Requests : r # cur => worker'[r] = worker[r] /\ worker[r] # "queued"
  BY <1>1 DEF Abandon, Waiting
<1>3. \A r \in Requests : worker'[r] # "queued"
  BY <1>1, <1>2 DEF Abandon
<1>4. ASSUME NEW r \in Requests, r > cur PROVE worker'[r] = "none" /\ pieces'[r] = 0 /\ chan'[r] = <<>>
  <2>1. r # cur
    BY <1>1, <1>4 DEF Requests
  <2>2. QED
    BY <1>2, <1>4, <2>1 DEF Waiting
<1>5. QED
  BY <1>3, <1>4 DEF Waiting

(* The next request is taken up, that nobody knows.                        *)
LEMMA Entered ==
  ASSUME Types, Position, Waiting, pc = "head", buf # <<>>, cur' = Head(buf)[1],
         worker' = worker, pieces' = pieces, chan' = chan
  PROVE  Waiting'
<1>1. cur' = cur + 1 /\ cur' \in Requests
  <2>1. From(<<cur + 1, 0>>, buf \o wire)
    BY DEF Position
  <2>2. Head(buf) = <<cur + 1, 0>> /\ cur + 1 \in Requests
    BY <2>1, HeadTaken
  <2>3. QED
    BY <2>2
<1>2. cur \in Nat
  BY Limits DEF Types, TConn
<1>3. \A r \in Requests : r > cur' \/ r = cur' => r > cur /\ r # cur
  BY <1>1, <1>2 DEF Requests
<1>4. \A r \in Requests : worker[r] # "queued"
  BY DEF Waiting
<1>5. QED
  BY <1>1, <1>3, <1>4 DEF Waiting

(* Nobody else is asked, and an event is not awaited any more when it came.  *)
LEMMA Unmoved ==
  ASSUME Waiting, cur' = cur, worker' = worker, pieces' = pieces,
         \A r \in Requests :
           chan'[r] = chan[r] \/ chan[r] # <<>> \/ (r = cur /\ feed' # "none"),
         feed' = "none" => feed = "none",
         pc' = pc \/ pc' = "abort" \/ (pc = "head" /\ pc' = "closed"),
         events' = events \/ events # <<>>
  PROVE  Waiting'
<1>1. ASSUME NEW r \in Requests,
             r > cur \/ (r = cur /\ pc' \in {"body", "route", "spill", "submit"})
      PROVE  /\ worker[r] = "none" /\ pieces[r] = 0
             /\ feed' = "none" \/ r # cur => chan'[r] = <<>>
  <2>1. r > cur \/ (r = cur /\ pc \in {"body", "route", "spill", "submit"})
    BY <1>1
  <2>2. worker[r] = "none" /\ pieces[r] = 0 /\ (feed = "none" \/ r # cur => chan[r] = <<>>)
    BY <2>1 DEF Waiting
  <2>3. QED
    BY <2>2
<1>2. \A r \in Requests : worker[r] = "queued" => r = cur /\ pc' \in {"first", "abort"}
  BY DEF Waiting
<1>3. cur \in Requests /\ worker[cur] = "queued" => events' = <<>>
  BY DEF Waiting
<1>4. QED
  BY <1>1, <1>2, <1>3 DEF Waiting

(* What waits.                                                             *)
LEMMA WaitingStep ==
  ASSUME Types, Halves, Position, Waiting, [Next]_vars
  PROVE  Waiting'
<1>1. CASE ParseHead
  BY <1>1, Entered DEF ParseHead, pumpVars, workerVars
<1>2. CASE RefuseHead
  BY <1>2, Entered DEF RefuseHead, pumpVars, workerVars
<1>3. CASE StartFeed
  BY <1>3, Entered DEF StartFeed, pumpVars, workerVars
<1>4. CASE ReadBody
  BY <1>4, HeadRequest, Limits DEF ReadBody, Types, TConn, TWorker, TBody, Halves, Waiting,
     Requests, connVars, feedVars, pumpVars, eventVars, workerVars, Heard, Claimed
<1>5. CASE BodyStalls
  BY <1>5, HeadRequest, Limits DEF BodyStalls, Tell, Types, TConn, TWorker, TBody, Halves, Waiting,
     Requests, connVars, feedVars, pumpVars, eventVars, workerVars, Heard, Claimed
<1>6. CASE AnswerHere
  BY <1>6, HeadRequest, Limits DEF AnswerHere, Tell, Types, TConn, TWorker, TBody, Halves, Waiting,
     Requests, connVars, feedVars, pumpVars, eventVars, workerVars, Heard, Claimed
<1>7. CASE Route
  BY <1>7, HeadRequest, Limits DEF Route, Types, TConn, TWorker, TBody, Halves, Waiting, Requests,
     connVars, feedVars, pumpVars, eventVars, workerVars, Heard, Claimed
<1>8. CASE WriteSpill
  BY <1>8, HeadRequest, Limits DEF WriteSpill, Types, TConn, TWorker, TBody, Halves, Waiting,
     Requests, connVars, feedVars, pumpVars, eventVars, workerVars, Heard, Claimed
<1>9. CASE SpillFails
  BY <1>9, HeadRequest, Limits DEF SpillFails, Tell, Types, TConn, TWorker, TBody, Halves, Waiting,
     Requests, connVars, feedVars, pumpVars, eventVars, workerVars, Heard, Claimed
<1>10. CASE Submit
  <2>1. cur \in Requests
        /\ worker \in [Requests -> {"none", "queued", "void", "run", "done", "dead"}] /\ cur \in Nat
    BY <1>10 , Limits DEF Submit, Types, TConn, TWorker, Halves
  <2>2. \A r \in Requests : r # cur => worker'[r] = worker[r]
    BY <1>10, <2>1 DEF Submit
  <2>3. \A r \in Requests : r > cur => r # cur
    BY <2>1 DEF Requests
  <2>4. \A r \in Requests : worker[r] # "queued"
    BY <1>10 DEF Submit, Waiting
  <2>5. cur' = cur /\ pc' = "first" /\ events' = <<>> /\ pieces' = pieces /\ chan' = chan /\ feed' = feed
    BY <1>10 DEF Submit, pumpVars, feedVars
  <2>6. \A r \in Requests : r > cur => worker'[r] = "none" /\ pieces'[r] = 0 /\ chan'[r] = <<>>
    BY <2>2, <2>3, <2>5 DEF Waiting
  <2>7. QED
    BY <2>2, <2>4, <2>5, <2>6 DEF Waiting
<1>11. CASE SubmitFails
  BY <1>11, Released DEF SubmitFails, FailWith, Break, NextRequest, pumpVars
<1>12. CASE TakeHeaders
  BY <1>12, HeadRequest, Limits DEF TakeHeaders, NextEvent, Types, TConn, TWorker, TBody, Halves,
     Waiting, Requests, connVars, feedVars, pumpVars, eventVars, workerVars, Heard, Claimed
<1>13. CASE FailFirst
  BY <1>13, Released DEF FailFirst, FailWith, Break, NextRequest, pumpVars
<1>14. CASE BufferPiece
  BY <1>14, HeadRequest, Limits DEF BufferPiece, NextEvent, Types, TConn, TWorker, TBody, Halves,
     Waiting, Requests, connVars, feedVars, pumpVars, eventVars, workerVars, Heard, Claimed
<1>15. CASE Overflow
  BY <1>15, HeadRequest, Limits DEF Overflow, NextEvent, StartChunks, Types, TConn, TWorker, TBody,
     Halves, Waiting, Requests, connVars, feedVars, pumpVars, eventVars, workerVars, Heard, Claimed
<1>16. CASE FlushBuffer
  BY <1>16, HeadRequest, Limits DEF FlushBuffer, NextEvent, StartChunks, Types, TConn, TWorker,
     TBody, Halves, Waiting, Requests, connVars, feedVars, pumpVars, eventVars, workerVars, Heard,
     Claimed
<1>17. CASE EndBuffered
  BY <1>17, HeadRequest, Limits DEF EndBuffered, Complete, Tell, Types, TConn, TWorker, TBody,
     Halves, Waiting, Requests, connVars, feedVars, pumpVars, eventVars, workerVars, Heard, Claimed
<1>18. CASE FailBuffered
  BY <1>18, Released DEF FailBuffered, FailWith, Break, NextRequest, pumpVars
<1>19. CASE Flush
  BY <1>19, HeadRequest, Limits DEF Flush, NextEvent, Types, TConn, TWorker, TBody, Halves, Waiting,
     Requests, connVars, feedVars, pumpVars, eventVars, workerVars, Heard, Claimed
<1>20. CASE EndChunks
  BY <1>20, HeadRequest, Limits DEF EndChunks, Complete, Tell, Types, TConn, TWorker, TBody, Halves,
     Waiting, Requests, connVars, feedVars, pumpVars, eventVars, workerVars, Heard, Claimed
<1>21. CASE Truncate
  BY <1>21, Released DEF Truncate, FailWith, Break, NextRequest, pumpVars
<1>22. CASE ResponseTimeout
  BY <1>22, Unmoved DEF ResponseTimeout, SendAbort, Silent, eventVars, feedVars, pumpVars, workerVars
<1>23. CASE IdleTimeout
  BY <1>23, HeadRequest, Limits DEF IdleTimeout, SendAbort, Types, TConn, TWorker, TBody, Halves,
     Waiting, Requests, connVars, feedVars, pumpVars, eventVars, workerVars, Heard, Claimed
<1>24. CASE WriteFails
  BY <1>24, HeadRequest, Limits DEF WriteFails, Abandon, Unlink, Hangup, Over, Types, TConn,
     TWorker, TBody, Halves, Waiting, Requests, connVars, feedVars, pumpVars, eventVars, workerVars,
     Heard, Claimed
<1>25. CASE ClientGone
  BY <1>25, HeadRequest, Limits DEF ClientGone, SendAbort, NextEvent, Types, TConn, TWorker, TBody,
     Halves, Waiting, Requests, connVars, feedVars, pumpVars, eventVars, workerVars, Heard, Claimed
<1>26. CASE AbortSent
  <2>1. Abandon /\ pc' \in {"head", "closed", "reclaim"}
    BY <1>26 DEF AbortSent, FailWith, Break, Complete, NextRequest
  <2>2. QED
    BY <1>26, <2>1, Released DEF AbortSent, pumpVars
<1>27. CASE Reclaim
  <2>1. cur' = cur /\ pc' \in {"head", "closed"} /\ worker' = worker /\ pieces' = pieces
        /\ chan' = chan /\ pc = "reclaim"
    BY <1>27 DEF Reclaim, NextRequest, pumpVars, workerVars
  <2>2. \A r \in Requests : worker[r] # "queued"
    BY <2>1 DEF Waiting
  <2>3. \A r \in Requests : r > cur => worker[r] = "none" /\ pieces[r] = 0 /\ chan[r] = <<>>
    <3>1. cur \in Nat /\ \A r \in Requests : r > cur => r # cur
      BY Limits DEF Types, TConn, Requests
    <3>2. QED
      BY <3>1 DEF Waiting
  <2>4. QED
    BY <2>1, <2>2, <2>3 DEF Waiting
<1>28. CASE FeedSend
  <2>1. /\ cur' = cur /\ worker' = worker /\ pieces' = pieces /\ pc' = pc /\ events' = events
        /\ feed = "run" /\ feed' \in {"run", "bad"}
    BY <1>28 DEF FeedSend, connVars, eventVars, workerVars
  <2>2. \A r \in Requests : chan'[r] = chan[r] \/ r = cur
    BY <1>28 DEF FeedSend, Types, TBody
  <2>3. QED
    BY <2>1, <2>2, Unmoved
<1>29. ASSUME NEW r \in Requests, PumpBody(r) PROVE Waiting'
  <2>1. /\ cur' = cur /\ worker' = worker /\ pieces' = pieces /\ pc' = pc /\ events' = events
        /\ feed' = feed /\ chan[r] # <<>>
    BY <1>29 DEF PumpBody, connVars, eventVars, feedVars, workerVars
  <2>2. \A q \in Requests : chan'[q] = chan[q] \/ q = r
    BY <1>29 DEF PumpBody, Types, TBody
  <2>3. QED
    BY <2>1, <2>2, Unmoved
<1>30. ASSUME NEW r \in Requests, PumpEnds(r) PROVE Waiting'
  BY <1>30, HeadRequest, Limits DEF PumpEnds, Types, TConn, TWorker, TBody, Halves, Waiting,
     Requests, connVars, feedVars, pumpVars, eventVars, workerVars, Heard, Claimed
<1>31. ASSUME NEW r \in Requests, Claim(r) PROVE Waiting'
  BY <1>31, HeadRequest, Limits DEF Claim, Types, TConn, TWorker, TBody, Halves, Waiting, Requests,
     connVars, feedVars, pumpVars, eventVars, workerVars, Heard, Claimed
<1>32. ASSUME NEW r \in Requests, SayHeaders(r) PROVE Waiting'
  BY <1>32, HeadRequest, Limits DEF SayHeaders, Emit, Types, TConn, TWorker, TBody, Halves, Waiting,
     Requests, connVars, feedVars, pumpVars, eventVars, workerVars, Heard, Claimed
<1>33. ASSUME NEW r \in Requests, SayPiece(r) PROVE Waiting'
  BY <1>33, HeadRequest, Limits DEF SayPiece, Emit, Types, TConn, TWorker, TBody, Halves, Waiting,
     Requests, connVars, feedVars, pumpVars, eventVars, workerVars, Heard, Claimed
<1>34. ASSUME NEW r \in Requests, SayFlush(r) PROVE Waiting'
  BY <1>34, HeadRequest, Limits DEF SayFlush, Emit, Types, TConn, TWorker, TBody, Halves, Waiting,
     Requests, connVars, feedVars, pumpVars, eventVars, workerVars, Heard, Claimed
<1>35. ASSUME NEW r \in Requests, SayEnd(r) \/ SayError(r) \/ SayDone(r) PROVE Waiting'
  <2>1. /\ cur' = cur /\ pc' = pc /\ pieces' = pieces /\ chan' = chan /\ feed' = feed /\ worker[r] = "run"
        /\ worker' = [worker EXCEPT ![r] = "done"] /\ (r # cur => events' = events)
    BY <1>35 DEF SayEnd, SayError, SayDone, Finish, Emit, Heard, Claimed, connVars, feedVars, pumpVars
  <2>2. worker \in [Requests -> {"none", "queued", "void", "run", "done", "dead"}]
    BY DEF Types, TWorker
  <2>3. \A q \in Requests : (q # r /\ worker'[q] = worker[q]) \/ (q = r /\ worker'[q] = "done"
        /\ worker[q] = "run")
    BY <2>1, <2>2
  <2>4. \A q \in Requests : q > cur \/ (q = cur
        /\ pc \in {"body", "route", "spill", "submit"}) => worker'[q] = worker[q]
    BY <2>3 DEF Waiting
  <2>5. \A q \in Requests : worker'[q] = "queued" => q # r /\ worker[q] = "queued"
    BY <2>3
  <2>6. QED
    BY <2>1, <2>4, <2>5 DEF Waiting
<1>36. ASSUME NEW r \in Requests, Die(r) PROVE Waiting'
  BY <1>36, HeadRequest, Limits DEF Die, Types, TConn, TWorker, TBody, Halves, Waiting, Requests,
     connVars, feedVars, pumpVars, eventVars, workerVars, Heard, Claimed
<1>37. CASE ReadSocket \/ CloseIdle \/ WriteChunk \/ FeedRead \/ FeedStalls \/ FeedDone
  <2>1. cur' = cur /\ worker' = worker /\ pieces' = pieces /\ chan' = chan
    BY <1>37 DEF ReadSocket, CloseIdle, WriteChunk, FeedRead, FeedStalls, FeedDone, connVars,
       pumpVars, workerVars
  <2>2. pc' = pc \/ (pc = "head" /\ pc' = "closed")
    BY <1>37 DEF ReadSocket, CloseIdle, WriteChunk, FeedRead, FeedStalls, FeedDone, connVars
  <2>3. (feed' = "none" => feed = "none") /\ (events' = events \/ events # <<>>)
    BY <1>37 DEF ReadSocket, CloseIdle, WriteChunk, NextEvent, FeedRead, FeedStalls, FeedDone,
       eventVars, feedVars
  <2>4. QED
    BY <2>1, <2>2, <2>3, Unmoved
<1>38. ASSUME NEW r \in Requests, OpenSpill(r) \/ ReadStream(r) PROVE Waiting'
  BY <1>38, Unmoved DEF OpenSpill, ReadStream, connVars, eventVars, feedVars, pumpVars, workerVars
<1>39. CASE UNCHANGED vars
  BY <1>39, Unmoved DEF vars, connVars, eventVars, feedVars, pumpVars, workerVars
<1>40. QED
  BY <1>1, <1>2, <1>3, <1>4, <1>5, <1>6, <1>7, <1>8, <1>9, <1>10, <1>11, <1>12, <1>13, <1>14, <1>15,
     <1>16, <1>17, <1>18, <1>19, <1>20, <1>21, <1>22, <1>23, <1>24, <1>25, <1>26, <1>27, <1>28,
     <1>29, <1>30, <1>31, <1>32, <1>33, <1>34, <1>35, <1>36, <1>37, <1>38, <1>39
     DEF Next, ConnNext, TaskNext, WorkerNext

(* What has been read and what has not make up the whole.                  *)
LEMMA Joined ==
  ASSUME NEW S, NEW s \in Seq(S), NEW k \in 0 .. Len(s)
  PROVE  SubSeq(s, 1, k) \o SubSeq(s, k + 1, Len(s)) = s
<1>1. PICK a : a = SubSeq(s, 1, k)
  OBVIOUS
<1>2. a \in Seq(S) /\ Len(a) = k /\ \A i \in 1 .. k : a[i] = s[i]
  BY <1>1, Taken
<1>3. PICK b : b = SubSeq(s, k + 1, Len(s))
  OBVIOUS
<1>4. b \in Seq(S) /\ Len(b) = Len(s) - k /\ \A i \in 1 .. Len(s) - k : b[i] = s[k + i]
  BY <1>3, Dropped
<1>5. PICK t : t = a \o b
  OBVIOUS
<1>6. t \in Seq(S) /\ Len(t) = Len(a) + Len(b)
      /\ \A i \in 1 .. Len(a) + Len(b) : t[i] = IF i <= Len(a) THEN a[i] ELSE b[i - Len(a)]
  BY <1>2, <1>4, <1>5, ConcatProperties
<1>7. Len(s) \in Nat /\ k \in Nat /\ k <= Len(s) /\ Len(t) = Len(s)
  BY <1>2, <1>4, <1>6, LenProperties
<1>8. ASSUME NEW i \in 1 .. Len(t) PROVE t[i] = s[i]
  <2>1. CASE i <= k
    BY <1>2, <1>6, <1>7, <2>1
  <2>2. CASE ~(i <= k)
    <3>1. i - k \in 1 .. Len(s) - k /\ k + (i - k) = i
      BY <1>7, <2>2
    <3>2. t[i] = b[i - k]
      BY <1>2, <1>4, <1>6, <1>7, <2>2
    <3>3. QED
      BY <1>4, <3>1, <3>2
  <2>3. QED
    BY <2>1, <2>2
<1>9. t = s
  BY <1>6, <1>7, <1>8, SeqEqual
<1>10. QED
  BY <1>1, <1>3, <1>5, <1>9

(* The next piece is the one that is due, and the rest begins behind it.   *)
LEMMA FromNext ==
  ASSUME NEW p, NEW s, From(p, s), s # <<>>
  PROVE  Head(s) = p /\ p \in Pieces /\ From(After(p), Tail(s)) /\ Tail(s) \in Seq(Pieces)
<1>1. s \in Seq(Pieces) /\ s[1] = p /\ Len(s) \in Nat /\ Len(s) > 0
  BY DEF From
<1>2. Head(s) = p /\ p \in Pieces /\ Tail(s) \in Seq(Pieces)
  BY <1>1
<1>3. PICK k \in 0 .. Len(s) : k = 1
  BY <1>1
<1>4. From(After(s[k]), SubSeq(s, k + 1, Len(s)))
  BY <1>3, FromRest
<1>5. SubSeq(s, k + 1, Len(s)) = Tail(s)
  <2>1. PICK t : t = SubSeq(s, k + 1, Len(s))
    OBVIOUS
  <2>2. t \in Seq(Pieces) /\ Len(t) = Len(s) - 1 /\ \A i \in 1 .. Len(s) - 1 : t[i] = s[1 + i]
    BY <1>1, <1>3, <2>1, Dropped
  <2>3. PICK u : u = Tail(s)
    OBVIOUS
  <2>4. u \in Seq(Pieces) /\ Len(u) = Len(s) - 1 /\ \A i \in 1 .. Len(s) - 1 : u[i] = s[i + 1]
    BY <1>1, <2>3
  <2>5. t = u
    BY <1>1, <2>2, <2>4, SeqEqual
  <2>6. QED
    BY <2>1, <2>3, <2>5
<1>6. QED
  BY <1>1, <1>2, <1>3, <1>4, <1>5

(* A body is known by its pieces.                                          *)
LEMMA BodyKnown ==
  ASSUME NEW r \in Requests, NEW s \in Seq(Pieces), Len(s) = Size[r], \A i \in 1 .. Size[r] : s[i] = <<r, i>>
  PROVE  s = BodyIn(r)
<1>1. Size[r] \in Nat
  BY Limits
<1>2. PICK t : t = BodyIn(r)
  OBVIOUS
<1>3. \A i \in 1 .. Size[r] : <<r, i>> \in Pieces
  BY <1>1 DEF Pieces
<1>4. t \in Seq(Pieces) /\ Len(t) = Size[r] /\ \A i \in 1 .. Size[r] : t[i] = <<r, i>>
  BY <1>1, <1>2, <1>3 DEF BodyIn
<1>5. s = t
  BY <1>4, SeqEqual
<1>6. QED
  BY <1>2, <1>5

(* What comes next on the connection.                                      *)
LEMMA PositionStep ==
  ASSUME Types, Halves, Position, [Next]_vars
  PROVE  Position'
<1>1. CASE ReadSocket
  <2>1. PICK n \in 1 .. Len(wire) : buf' = SubSeq(wire, 1, n) /\ wire' = SubSeq(wire, n + 1, Len(wire))
    BY <1>1 DEF ReadSocket
  <2>2. wire \in Seq(Pieces) /\ n \in 0 .. Len(wire)
    BY <2>1 DEF Types, TBytes
  <2>3. buf' \o wire' = wire
    BY <2>1, <2>2, Joined
  <2>4. buf \o wire = wire
    BY <1>1, <2>2, ConcatEmptySeq DEF ReadSocket
  <2>5. From(<<cur + 1, 0>>, wire)
    BY <1>1, <2>4 DEF ReadSocket, Position
  <2>6. pc' = "head" /\ cur' = cur /\ feed' = "none"
    BY <1>1 DEF ReadSocket, feedVars, Halves
  <2>7. QED
    BY <2>3, <2>5, <2>6 DEF Position, Dispatched
<1>2. CASE ParseHead
  <2>1. PICK c, b : c = cur + 1 /\ b = Tail(buf)
    OBVIOUS
  <2>2. From(<<cur + 1, 0>>, buf \o wire) /\ buf # <<>>
    BY <1>2 DEF ParseHead, Position
  <2>3. /\ Head(buf) = <<c, 0>> /\ c \in Requests /\ b \in Seq(Pieces) /\ Size[c] \in Nat
        /\ \A i \in 1 .. Len(b) : i <= Size[c] => b[i] = <<c, i>>
        /\ Len(b) <= Size[c] => From(After(<<c, Len(b)>>), wire)
        /\ Len(b) >= Size[c] => From(<<c + 1, 0>>, SubSeq(b, Size[c] + 1, Len(b)) \o wire)
    BY <2>1, <2>2, HeadTaken
  <2>4. cur' = c /\ plan' = "inline" /\ wire' = wire /\ feed' = "none" /\ TakeBuffered(c, b)
    BY <1>2, <2>1, <2>3 DEF ParseHead, feedVars, Halves
  <2>5. Len(b) \in Nat
    BY <2>3
  <2>6. CASE Len(b) >= Size[c]
    <3>1. PICK k \in 0 .. Len(b) : k = Size[c]
      BY <2>3, <2>5, <2>6
    <3>2. k = (IF Len(b) > Size[c] THEN Size[c] ELSE Len(b))
      BY <2>5, <2>6, <3>1
    <3>3. SubSeq(b, 1, k) \in Seq(Pieces) /\ Len(SubSeq(b, 1, k)) = k
          /\ \A i \in 1 .. k : SubSeq(b, 1, k)[i] = b[i]
      BY <2>3, Taken
    <3>4. body' = SubSeq(b, 1, k) /\ buf' = SubSeq(b, k + 1, Len(b)) /\ pc' = "route"
      BY <2>4, <2>6, <3>2, <3>3 DEF TakeBuffered
    <3>5. body' = BodyIn(c)
      <4>1. \A i \in 1 .. Size[c] : body'[i] = <<c, i>>
        BY <2>3, <2>5, <3>1, <3>3, <3>4
      <4>2. QED
        BY <2>3, <3>1, <3>3, <3>4, <4>1, BodyKnown
    <3>6. From(<<c + 1, 0>>, buf' \o wire')
      BY <2>3, <2>4, <2>6, <3>1, <3>4
    <3>7. QED
      BY <2>4, <3>4, <3>5, <3>6 DEF Position, Dispatched
  <2>7. CASE Len(b) < Size[c]
    <3>1. PICK k \in 0 .. Len(b) : k = Len(b)
      BY <2>5
    <3>2. k = (IF Len(b) > Size[c] THEN Size[c] ELSE Len(b)) /\ ~(Len(b) >= Size[c])
      BY <2>3, <2>5, <2>7, <3>1
    <3>3. SubSeq(b, 1, k) \in Seq(Pieces) /\ Len(SubSeq(b, 1, k)) = k
          /\ \A i \in 1 .. k : SubSeq(b, 1, k)[i] = b[i]
      BY <2>3, Taken
    <3>4. body' = SubSeq(b, 1, k) /\ buf' = SubSeq(b, k + 1, Len(b)) /\ pc' = "body"
      BY <2>4, <3>2, <3>3 DEF TakeBuffered
    <3>5. buf' = <<>>
      BY <2>5, <3>1, <3>4, SubSeqEmpty
    <3>6. From(<<c, Len(b) + 1>>, wire)
      <4>1. After(<<c, Len(b)>>) = <<c, Len(b) + 1>>
        BY <2>7 DEF After
      <4>2. Len(b) <= Size[c]
        BY <2>3, <2>5, <2>7
      <4>3. QED
        BY <2>3, <4>1, <4>2
    <3>7. Len(body') = Len(b) /\ Len(body') < Size[c] /\ \A i \in 1 .. Len(body') : body'[i] = <<c, i>>
      BY <2>3, <2>5, <2>7, <3>1, <3>3, <3>4
    <3>8. QED
      BY <2>4, <3>4, <3>5, <3>6, <3>7 DEF Position, Dispatched
  <2>8. QED
    BY <2>3, <2>5, <2>6, <2>7
<1>3. CASE StartFeed
  <2>1. PICK c, b : c = cur + 1 /\ b = Tail(buf)
    OBVIOUS
  <2>2. From(<<cur + 1, 0>>, buf \o wire) /\ buf # <<>>
    BY <1>3 DEF StartFeed, Position
  <2>3. /\ Head(buf) = <<c, 0>> /\ c \in Requests /\ b \in Seq(Pieces) /\ Size[c] \in Nat
        /\ Len(b) <= Size[c] => From(After(<<c, Len(b)>>), wire)
    BY <2>1, <2>2, HeadTaken
  <2>4. /\ cur' = c /\ plan' = "stream" /\ wire' = wire /\ feed' = "run" /\ pc' = "submit" /\ buf' = <<>>
        /\ rest' = Size[c] - Len(b) /\ Len(b) < Size[c]
    BY <1>3, <2>1, <2>3 DEF StartFeed
  <2>5. Len(b) \in Nat
    BY <2>3
  <2>6. rest' <= Size[c] /\ Size[c] - rest' = Len(b) /\ Len(b) <= Size[c]
    BY <2>3, <2>4, <2>5
  <2>7. From(After(<<c, Size[c] - rest'>>), wire')
    BY <2>3, <2>4, <2>6
  <2>8. QED
    BY <2>4, <2>6, <2>7 DEF Position
<1>4. CASE ReadBody
  <2>1. /\ Len(body) < Size[cur] /\ (\A i \in 1 .. Len(body) : body[i] = <<cur, i>>)
        /\ buf = <<>> /\ From(<<cur, Len(body) + 1>>, wire) /\ cur \in Requests /\ feed = "none" /\ plan # "stream"
    BY <1>4 DEF ReadBody, Position, Halves
  <2>2. body \in Seq(Pieces) /\ Len(body) \in Nat /\ Size[cur] \in Nat
    BY <2>1, Limits DEF Types, TBytes
  <2>3. PICK p : p = <<cur, Len(body) + 1>>
    OBVIOUS
  <2>4. Head(wire) = p /\ p \in Pieces /\ From(After(p), Tail(wire)) /\ Tail(wire) \in Seq(Pieces)
    BY <1>4, <2>1, <2>3, FromNext DEF ReadBody
  <2>5. /\ body' = Append(body, p) /\ wire' = Tail(wire) /\ cur' = cur /\ buf' = <<>>
        /\ feed' = "none" /\ plan' = plan
        /\ pc' = IF Len(body') = Size[cur] THEN "route" ELSE "body"
    BY <1>4, <2>1, <2>4 DEF ReadBody, feedVars
  <2>6. /\ body' \in Seq(Pieces) /\ Len(body') = Len(body) + 1 /\ body'[Len(body) + 1] = p
        /\ \A i \in 1 .. Len(body) : body'[i] = body[i]
    BY <2>2, <2>4, <2>5
  <2>7. \A i \in 1 .. Len(body') : body'[i] = <<cur, i>>
    BY <2>1, <2>2, <2>3, <2>6
  <2>8. buf' \o wire' = wire'
    BY <2>4, <2>5, ConcatEmptySeq
  <2>9. CASE Len(body') = Size[cur]
    <3>1. body' = BodyIn(cur)
      BY <2>1, <2>6, <2>7, <2>9, BodyKnown
    <3>2. After(p) = <<cur + 1, 0>>
      BY <2>2, <2>3, <2>6, <2>9 DEF After
    <3>3. QED
      BY <2>4, <2>5, <2>8, <2>9, <3>1, <3>2 DEF Position, Dispatched
  <2>10. CASE Len(body') # Size[cur]
    <3>1. Len(body') < Size[cur]
      BY <2>1, <2>2, <2>6, <2>10
    <3>2. After(p) = <<cur, Len(body') + 1>>
      BY <2>2, <2>3, <2>6, <3>1 DEF After
    <3>3. QED
      BY <2>4, <2>5, <2>7, <2>10, <3>1, <3>2 DEF Position, Dispatched
  <2>11. QED
    BY <2>9, <2>10
<1>5. CASE FeedRead
  <2>1. buf = <<>> /\ rest <= Size[cur] /\ From(After(<<cur, Size[cur] - rest>>), wire) /\ cur \in Requests
    BY <1>5 DEF FeedRead, Position, Halves
  <2>2. Size[cur] \in Nat /\ rest \in Nat /\ rest > 0 /\ Size[cur] - rest < Size[cur]
    BY <1>5, <2>1, Limits DEF FeedRead, Types, TBytes
  <2>3. PICK p : p = <<cur, (Size[cur] - rest) + 1>>
    OBVIOUS
  <2>4. After(<<cur, Size[cur] - rest>>) = p
    BY <2>2, <2>3 DEF After
  <2>5. From(After(p), Tail(wire))
    BY <1>5, <2>1, <2>4, FromNext DEF FeedRead
  <2>6. (Size[cur] - rest) + 1 = Size[cur] - (rest - 1) /\ rest - 1 <= Size[cur]
    BY <2>1, <2>2
  <2>7. wire' = Tail(wire) /\ rest' = rest - 1 /\ feed' = "run" /\ feed = "run"
        /\ UNCHANGED <<buf, pc, cur, plan, body>>
    BY <1>5 DEF FeedRead, connVars
  <2>8. pc \notin {"head", "body", "route"} /\ (pc \in Dispatched => plan = "stream")
    BY <2>7 DEF Halves
  <2>9. From(After(<<cur, Size[cur] - rest'>>), wire')
    BY <2>3, <2>5, <2>6, <2>7
  <2>10. QED
    BY <2>1, <2>6, <2>7, <2>8, <2>9 DEF Position
<1>6. CASE Reclaim
  <2>1. pc = "reclaim" /\ pc \in Dispatched /\ feed # "run" /\ feed' = "none" /\ pc' \in {"head", "closed"}
        /\ UNCHANGED <<buf, wire, cur>>
    BY <1>6 DEF Reclaim, NextRequest, Dispatched
  <2>2. ASSUME pc' = "head" PROVE From(<<cur' + 1, 0>>, buf' \o wire')
    <3>1. feed # "bad"
      BY <1>6, <2>2 DEF Reclaim, NextRequest
    <3>2. CASE feed = "none"
      BY <2>1, <3>2 DEF Halves, Position
    <3>3. CASE feed = "ok"
      <4>1. buf = <<>> /\ rest = 0 /\ From(After(<<cur, Size[cur] - rest>>), wire) /\ cur \in Requests
        BY <3>3 DEF Position, Halves
      <4>2. Size[cur] \in Nat /\ wire \in Seq(Pieces)
        BY <4>1, Limits DEF Types, TBytes
      <4>3. After(<<cur, Size[cur] - rest>>) = <<cur + 1, 0>>
        BY <4>1, <4>2 DEF After
      <4>4. buf \o wire = wire
        BY <4>1, <4>2, ConcatEmptySeq
      <4>5. QED
        BY <2>1, <4>1, <4>3, <4>4
    <3>4. QED
      BY <2>1, <3>1, <3>2, <3>3 DEF Types, TBytes
  <2>3. QED
    BY <2>1, <2>2 DEF Position, Dispatched
<1>7. CASE RefuseHead
  BY <1>7 DEF RefuseHead, Types, TConn, Position, Halves, Dispatched, connVars, feedVars
<1>8. CASE BodyStalls
  BY <1>8 DEF BodyStalls, Tell, Types, TConn, Position, Halves, Dispatched, connVars, feedVars
<1>9. CASE AnswerHere
  BY <1>9 DEF AnswerHere, Tell, Types, TConn, Position, Halves, Dispatched, connVars, feedVars
<1>10. CASE Route
  BY <1>10 DEF Route, Types, TConn, Position, Halves, Dispatched, connVars, feedVars
<1>11. CASE WriteSpill
  BY <1>11 DEF WriteSpill, Types, TConn, Position, Halves, Dispatched, connVars, feedVars
<1>12. CASE SpillFails
  BY <1>12 DEF SpillFails, Tell, Types, TConn, Position, Halves, Dispatched, connVars, feedVars
<1>13. CASE Submit
  BY <1>13 DEF Submit, Types, TConn, Position, Halves, Dispatched, connVars, feedVars
<1>14. CASE SubmitFails
  BY <1>14 DEF SubmitFails, FailWith, Tell, AbortFeed, NextRequest, Abandon, Unlink, Hangup, Over,
     Types, TConn, Position, Halves, Dispatched, connVars, feedVars
<1>15. CASE TakeHeaders
  BY <1>15 DEF TakeHeaders, NextEvent, Types, TConn, Position, Halves, Dispatched, connVars, feedVars
<1>16. CASE FailFirst
  BY <1>16 DEF FailFirst, FailWith, Tell, AbortFeed, NextRequest, Abandon, Unlink, Hangup, Over,
     Types, TConn, Position, Halves, Dispatched, connVars, feedVars
<1>17. CASE BufferPiece
  BY <1>17 DEF BufferPiece, NextEvent, Types, TConn, Position, Halves, Dispatched, connVars, feedVars
<1>18. CASE Overflow
  BY <1>18 DEF Overflow, NextEvent, StartChunks, Types, TConn, Position, Halves, Dispatched,
     connVars, feedVars
<1>19. CASE FlushBuffer
  BY <1>19 DEF FlushBuffer, NextEvent, StartChunks, Types, TConn, Position, Halves, Dispatched,
     connVars, feedVars
<1>20. CASE EndBuffered
  BY <1>20 DEF EndBuffered, Complete, Tell, Types, TConn, Position, Halves, Dispatched, connVars, feedVars
<1>21. CASE FailBuffered
  BY <1>21 DEF FailBuffered, FailWith, Tell, AbortFeed, NextRequest, Abandon, Unlink, Hangup, Over,
     Break, Types, TConn, Position, Halves, Dispatched, connVars, feedVars
<1>22. CASE Flush
  BY <1>22 DEF Flush, NextEvent, Types, TConn, Position, Halves, Dispatched, connVars, feedVars
<1>23. CASE EndChunks
  BY <1>23 DEF EndChunks, Complete, Tell, Types, TConn, Position, Halves, Dispatched, connVars, feedVars
<1>24. CASE Truncate
  BY <1>24 DEF Truncate, Break, AbortFeed, Abandon, Unlink, Hangup, Over, Types, TConn, Position,
     Halves, Dispatched, connVars, feedVars
<1>25. CASE ResponseTimeout
  BY <1>25 DEF ResponseTimeout, SendAbort, Types, TConn, Position, Halves, Dispatched, connVars, feedVars
<1>26. CASE IdleTimeout
  BY <1>26 DEF IdleTimeout, SendAbort, Types, TConn, Position, Halves, Dispatched, connVars, feedVars
<1>27. CASE WriteFails
  BY <1>27 DEF WriteFails, Abandon, Unlink, Hangup, Over, Types, TConn, Position, Halves,
     Dispatched, connVars, feedVars
<1>28. CASE ClientGone
  BY <1>28 DEF ClientGone, SendAbort, NextEvent, Types, TConn, Position, Halves, Dispatched,
     connVars, feedVars
<1>29. CASE AbortSent
  BY <1>29 DEF AbortSent, FailWith, Tell, AbortFeed, NextRequest, Abandon, Unlink, Hangup, Over,
     Break, Complete, Types, TConn, Position, Halves, Dispatched, connVars, feedVars
<1>30. CASE FeedSend
  BY <1>30 DEF FeedSend, Types, TConn, Position, Halves, Dispatched, connVars, feedVars
<1>31. CASE FeedStalls
  BY <1>31 DEF FeedStalls, Types, TConn, Position, Halves, Dispatched, connVars, feedVars
<1>32. CASE FeedDone
  BY <1>32 DEF FeedDone, Types, TConn, Position, Halves, Dispatched, connVars, feedVars
<1>33. CASE CloseIdle \/ WriteChunk
  BY <1>33 DEF CloseIdle, WriteChunk, NextEvent, Tell, Types, TConn, Position, Halves, Dispatched,
     connVars, feedVars
<1>34. ASSUME NEW r \in Requests, PumpBody(r) \/ PumpEnds(r) \/ Claim(r) \/ OpenSpill(r)
              \/ ReadStream(r) \/ SayHeaders(r) \/ SayPiece(r) \/ SayFlush(r) \/ SayEnd(r)
              \/ SayError(r) \/ SayDone(r) \/ Die(r)
       PROVE  Position'
  <2>1. UNCHANGED <<wire, connVars, feedVars>>
    BY <1>34 DEF PumpBody, PumpEnds, Claim, OpenSpill, ReadStream, SayHeaders, Emit, SayPiece,
       SayFlush, SayEnd, Finish, SayError, SayDone, Die
  <2>2. QED
    BY <2>1 DEF Position, Dispatched, connVars, feedVars
<1>35. CASE UNCHANGED vars
  BY <1>35 DEF vars, Types, TConn, Position, Halves, Dispatched, connVars, feedVars
<1>36. QED
  BY <1>1, <1>2, <1>3, <1>4, <1>5, <1>6, <1>7, <1>8, <1>9, <1>10, <1>11, <1>12, <1>13, <1>14, <1>15,
     <1>16, <1>17, <1>18, <1>19, <1>20, <1>21, <1>22, <1>23, <1>24, <1>25, <1>26, <1>27, <1>28,
     <1>29, <1>30, <1>31, <1>32, <1>33, <1>34, <1>35
     DEF Next, ConnNext, TaskNext, WorkerNext

-----------------------------------------------------------------------------
(* The body on its way to the worker.                                      *)

(* An Abort is no frame of a body, and the end of one is no piece.         *)
LEMMA FramesDiffer ==
  ASSUME NEW r, NEW k, NEW e
  PROVE  Line(r, k, e) # AbortFrame /\ Terminator # <<r, k>>
<1>1. Len(<<>>) = 0 /\ Len(<<"abort">>) = 1 /\ Len(<<r, k>>) = 2
  OBVIOUS
<1>2. <<>> # <<"abort">> /\ <<r, k>> # <<"abort">> /\ <<>> # <<r, k>>
  BY <1>1
<1>3. QED
  BY <1>2 DEF Line, Terminator, AbortFrame

(* An empty channel carries nothing.                                       *)
LEMMA CarriesNone ==
  ASSUME NEW s, s = <<>>, NEW r, NEW e, NEW a \in Nat
  PROVE  Carries(s, r, a, a, e)
<1>1. Len(s) = 0
  BY NoItems
<1>2. PICK f : f = [i \in 1 .. Len(s) + 1 |-> a]
  OBVIOUS
<1>3. f \in [1 .. Len(s) + 1 -> 0 .. a] /\ f[1] = a /\ f[Len(s) + 1] = a
  BY <1>1, <1>2
<1>4. QED
  BY <1>1, <1>3 DEF Carries

(* The worker reads the first frame: an Abort, or the next one of the body. *)
LEMMA CarriesTail ==
  ASSUME NEW s \in Seq(Frames), s # <<>>, NEW r, NEW e, NEW a \in Nat, NEW b \in Nat, Carries(s, r, a, b, e)
  PROVE  \/ Head(s) = AbortFrame /\ Carries(Tail(s), r, a, b, e)
         \/ Head(s) = Line(r, a + 1, e) /\ a + 1 <= b /\ Carries(Tail(s), r, a + 1, b, e)
<1>1. Len(s) \in Nat /\ Len(s) > 0
  OBVIOUS
<1>2. PICK t : t = Tail(s)
  OBVIOUS
<1>3. Len(t) = Len(s) - 1 /\ Head(s) = s[1] /\ \A i \in 1 .. Len(t) : t[i] = s[i + 1]
  BY <1>1, <1>2
<1>4. PICK f \in [1 .. Len(s) + 1 -> 0 .. b] :
        /\ f[1] = a /\ f[Len(s) + 1] = b
        /\ \A i \in 1 .. Len(s) :
             \/ s[i] = AbortFrame /\ f[i + 1] = f[i]
             \/ s[i] = Line(r, f[i] + 1, e) /\ f[i + 1] = f[i] + 1
  BY DEF Carries
<1>5. PICK g : g = [i \in 1 .. Len(t) + 1 |-> f[i + 1]]
  OBVIOUS
<1>6. g \in [1 .. Len(t) + 1 -> 0 .. b] /\ g[Len(t) + 1] = b /\ g[1] = f[2] /\ f[2] \in 0 .. b
  <2>1. /\ \A i \in 1 .. Len(t) + 1 : i + 1 \in 1 .. Len(s) + 1
        /\ 1 \in 1 .. Len(t) + 1 /\ Len(t) + 1 \in 1 .. Len(t) + 1 /\ 1 + 1 = 2
        /\ (Len(t) + 1) + 1 = Len(s) + 1
    BY <1>1, <1>3
  <2>2. \A i \in 1 .. Len(t) + 1 : f[i + 1] \in 0 .. b
    BY <2>1
  <2>3. QED
    BY <1>4, <1>5, <2>1, <2>2
<1>7. ASSUME NEW i \in 1 .. Len(t)
      PROVE  \/ t[i] = AbortFrame /\ g[i + 1] = g[i]
             \/ t[i] = Line(r, g[i] + 1, e) /\ g[i + 1] = g[i] + 1
  <2>1. i + 1 \in 1 .. Len(s) /\ i \in 1 .. Len(t) + 1 /\ i + 1 \in 1 .. Len(t) + 1
    BY <1>1, <1>3
  <2>2. g[i] = f[i + 1] /\ g[i + 1] = f[(i + 1) + 1] /\ t[i] = s[i + 1]
    BY <1>3, <1>5, <2>1
  <2>3. \/ s[i + 1] = AbortFrame /\ f[(i + 1) + 1] = f[i + 1]
        \/ s[i + 1] = Line(r, f[i + 1] + 1, e) /\ f[(i + 1) + 1] = f[i + 1] + 1
    BY <1>4, <2>1
  <2>4. QED
    BY <2>2, <2>3
<1>8. \/ s[1] = AbortFrame /\ f[2] = a
      \/ s[1] = Line(r, a + 1, e) /\ f[2] = a + 1
  <2>1. 1 \in 1 .. Len(s) /\ 1 + 1 = 2
    BY <1>1
  <2>2. QED
    BY <1>4, <2>1
<1>9. Carries(t, r, f[2], b, e)
  BY <1>6, <1>7 DEF Carries
<1>10. QED
  BY <1>2, <1>3, <1>6, <1>8, <1>9

(* A frame is written behind the others: an Abort, or the next of the body. *)
LEMMA CarriesAppend ==
  ASSUME NEW s \in Seq(Frames), NEW x \in Frames, NEW r, NEW e, NEW a \in Nat, NEW b \in Nat, NEW c \in {b, b + 1},
         Carries(s, r, a, b, e),
         IF c = b THEN x = AbortFrame ELSE x = Line(r, b + 1, e)
  PROVE  Carries(Append(s, x), r, a, c, e)
<1>1. Len(s) \in Nat /\ c \in Nat /\ b <= c
  OBVIOUS
<1>2. PICK t : t = Append(s, x)
  OBVIOUS
<1>3. Len(t) = Len(s) + 1 /\ t[Len(s) + 1] = x /\ \A i \in 1 .. Len(s) : t[i] = s[i]
  BY <1>1, <1>2
<1>4. PICK f \in [1 .. Len(s) + 1 -> 0 .. b] :
        /\ f[1] = a /\ f[Len(s) + 1] = b
        /\ \A i \in 1 .. Len(s) :
             \/ s[i] = AbortFrame /\ f[i + 1] = f[i]
             \/ s[i] = Line(r, f[i] + 1, e) /\ f[i + 1] = f[i] + 1
  BY DEF Carries
<1>5. PICK g : g = [i \in 1 .. Len(t) + 1 |-> IF i <= Len(s) + 1 THEN f[i] ELSE c]
  OBVIOUS
<1>6. g \in [1 .. Len(t) + 1 -> 0 .. c]
  <2>1. ASSUME NEW i \in 1 .. Len(t) + 1 PROVE (IF i <= Len(s) + 1 THEN f[i] ELSE c) \in 0 .. c
    <3>1. CASE i <= Len(s) + 1
      <4>1. i \in 1 .. Len(s) + 1
        BY <1>1, <3>1
      <4>2. f[i] \in 0 .. b
        BY <1>4, <4>1
      <4>3. QED
        BY <1>1, <3>1, <4>2
    <3>2. CASE ~(i <= Len(s) + 1)
      BY <1>1, <3>2
    <3>3. QED
      BY <3>1, <3>2
  <2>2. QED
    BY <1>5, <2>1
<1>7. g[1] = a /\ g[Len(t) + 1] = c
  BY <1>1, <1>3, <1>4, <1>5
<1>8. ASSUME NEW i \in 1 .. Len(t)
      PROVE  \/ t[i] = AbortFrame /\ g[i + 1] = g[i]
             \/ t[i] = Line(r, g[i] + 1, e) /\ g[i + 1] = g[i] + 1
  <2>1. CASE i \in 1 .. Len(s)
    <3>1. g[i] = f[i] /\ g[i + 1] = f[i + 1] /\ t[i] = s[i]
      BY <1>1, <1>3, <1>5, <2>1
    <3>2. QED
      BY <1>4, <2>1, <3>1
  <2>2. CASE i = Len(s) + 1
    <3>1. g[i] = b /\ g[i + 1] = c /\ t[i] = x
      BY <1>1, <1>3, <1>4, <1>5, <2>2
    <3>2. QED
      BY <1>1, <3>1
  <2>3. QED
    BY <1>1, <1>3, <2>1, <2>2
<1>9. QED
  BY <1>2, <1>6, <1>7, <1>8 DEF Carries

(* Before the terminator is written it may be expected.                    *)
LEMMA CarriesEnd ==
  ASSUME NEW s \in Seq(Frames), NEW r, NEW a \in Nat, NEW b \in Nat, Carries(s, r, a, b, 0)
  PROVE  Carries(s, r, a, b, b + 1)
<1>1. PICK f \in [1 .. Len(s) + 1 -> 0 .. b] :
        /\ f[1] = a /\ f[Len(s) + 1] = b
        /\ \A i \in 1 .. Len(s) :
             \/ s[i] = AbortFrame /\ f[i + 1] = f[i]
             \/ s[i] = Line(r, f[i] + 1, 0) /\ f[i + 1] = f[i] + 1
  BY DEF Carries
<1>2. ASSUME NEW i \in 1 .. Len(s), s[i] = Line(r, f[i] + 1, 0), f[i + 1] = f[i] + 1
      PROVE  s[i] = Line(r, f[i] + 1, b + 1)
  <2>1. i \in 1 .. Len(s) + 1 /\ i + 1 \in 1 .. Len(s) + 1
    OBVIOUS
  <2>2. f[i] \in 0 .. b /\ f[i + 1] \in 0 .. b
    BY <2>1
  <2>3. f[i] + 1 # 0 /\ f[i] + 1 # b + 1
    BY <1>2, <2>2
  <2>4. QED
    BY <1>2, <2>3 DEF Line
<1>3. QED
  BY <1>1, <1>2 DEF Carries

(* What has been read is no more than what has been written.               *)
LEMMA CarriesUpto ==
  ASSUME NEW s \in Seq(Frames), NEW r, NEW e, NEW a \in Nat, NEW b \in Nat, Carries(s, r, a, b, e)
  PROVE  a <= b
<1>1. Len(s) + 1 \in Nat /\ 1 \in 1 .. Len(s) + 1
  OBVIOUS
<1>2. PICK f \in [1 .. Len(s) + 1 -> 0 .. b] : f[1] = a
  BY DEF Carries
<1>3. QED
  BY <1>1, <1>2

(* Nothing happens to the body of r, but that an Abort may be written; the  *)
(* request r is over or forgotten.                                          *)
Stays(r) ==
  /\ got'[r] = got[r] /\ pump'[r] = pump[r] /\ chan'[r] = chan[r]
  /\ down'[r] = down[r] \/ (Claimed(r) /\ down'[r] = Append(down[r], AbortFrame))
  /\ worker'[r] = worker[r] \/ (worker[r] = "none" /\ worker'[r] = "queued")
  /\ r = cur' /\ feed' = "run" => cur' = cur /\ feed = "run" /\ pend' = pend /\ rest' = rest
Gone(r) == worker'[r] \in {"void", "done", "dead"} /\ got'[r] = got[r]


(* What can happen to the body of r.                                       *)
LEMMA BodySteps ==
  ASSUME Types, Halves, Waiting, NEW r \in Requests, [Next]_vars
  PROVE  \/ Stays(r) \/ Gone(r) \/ StartFeed \/ FeedRead
         \/ (FeedSend /\ r = cur) \/ PumpBody(r) \/ PumpEnds(r) \/ Claim(r) \/ ReadStream(r)
<1>1. CASE ReadSocket \/ CloseIdle \/ ReadBody \/ BodyStalls \/ AnswerHere \/ Route \/ WriteSpill
           \/ SpillFails \/ TakeHeaders \/ BufferPiece
  BY <1>1 DEF ReadSocket, CloseIdle, ReadBody, BodyStalls, AnswerHere, Route, WriteSpill,
     SpillFails, TakeHeaders, BufferPiece, Stays, connVars, feedVars, pumpVars, workerVars
<1>2. CASE Overflow \/ FlushBuffer \/ EndBuffered \/ WriteChunk \/ Flush \/ EndChunks
           \/ ResponseTimeout \/ IdleTimeout \/ ClientGone \/ Reclaim
  BY <1>2 DEF Overflow, FlushBuffer, EndBuffered, Complete, WriteChunk, Flush, EndChunks,
     ResponseTimeout, SendAbort, IdleTimeout, ClientGone, Reclaim, Stays, connVars, feedVars,
     pumpVars, workerVars
<1>3. CASE ParseHead \/ RefuseHead
  <2>1. feed' = "none"
    BY <1>3 DEF ParseHead, RefuseHead, Halves, feedVars
  <2>2. QED
    BY <1>3, <2>1 DEF ParseHead, RefuseHead, Stays, pumpVars, workerVars
<1>4. CASE SubmitFails
  <2>1. worker'[r] = worker[r] \/ worker'[r] = "void"
    BY <1>4 DEF SubmitFails, FailWith, Break, Abandon, Types, TWorker
  <2>2. feed' = "none" \/ UNCHANGED <<feed, pend, rest>>
    BY <1>4 DEF SubmitFails, FailWith, Break, AbortFeed, feedVars
  <2>3. UNCHANGED <<cur, got, pump, chan, down>>
    BY <1>4 DEF SubmitFails, FailWith, Break, pumpVars
  <2>4. QED
    BY <2>1, <2>2, <2>3 DEF Stays, Gone
<1>5. CASE FailFirst
  <2>1. worker'[r] = worker[r] \/ worker'[r] = "void"
    BY <1>5 DEF FailFirst, FailWith, Break, Abandon, Types, TWorker
  <2>2. feed' = "none" \/ UNCHANGED <<feed, pend, rest>>
    BY <1>5 DEF FailFirst, FailWith, Break, AbortFeed, feedVars
  <2>3. UNCHANGED <<cur, got, pump, chan, down>>
    BY <1>5 DEF FailFirst, FailWith, Break, pumpVars
  <2>4. QED
    BY <2>1, <2>2, <2>3 DEF Stays, Gone
<1>6. CASE FailBuffered
  <2>1. worker'[r] = worker[r] \/ worker'[r] = "void"
    BY <1>6 DEF FailBuffered, FailWith, Break, Abandon, Types, TWorker
  <2>2. feed' = "none" \/ UNCHANGED <<feed, pend, rest>>
    BY <1>6 DEF FailBuffered, FailWith, Break, AbortFeed, feedVars
  <2>3. UNCHANGED <<cur, got, pump, chan, down>>
    BY <1>6 DEF FailBuffered, FailWith, Break, pumpVars
  <2>4. QED
    BY <2>1, <2>2, <2>3 DEF Stays, Gone
<1>7. CASE Truncate
  <2>1. worker'[r] = worker[r] \/ worker'[r] = "void"
    BY <1>7 DEF Truncate, FailWith, Break, Abandon, Types, TWorker
  <2>2. feed' = "none" \/ UNCHANGED <<feed, pend, rest>>
    BY <1>7 DEF Truncate, FailWith, Break, AbortFeed, feedVars
  <2>3. UNCHANGED <<cur, got, pump, chan, down>>
    BY <1>7 DEF Truncate, FailWith, Break, pumpVars
  <2>4. QED
    BY <2>1, <2>2, <2>3 DEF Stays, Gone
<1>8. CASE WriteFails
  <2>1. worker'[r] = worker[r] \/ worker'[r] = "void"
    BY <1>8 DEF WriteFails, FailWith, Break, Abandon, Types, TWorker
  <2>2. feed' = "none" \/ UNCHANGED <<feed, pend, rest>>
    BY <1>8 DEF WriteFails, FailWith, Break, AbortFeed, feedVars
  <2>3. UNCHANGED <<cur, got, pump, chan, down>>
    BY <1>8 DEF WriteFails, FailWith, Break, pumpVars
  <2>4. QED
    BY <2>1, <2>2, <2>3 DEF Stays, Gone
<1>9. CASE AbortSent
  <2>1. worker'[r] = worker[r] \/ worker'[r] = "void"
    BY <1>9 DEF AbortSent, FailWith, Break, Abandon, Types, TWorker
  <2>2. feed' = "none" \/ UNCHANGED <<feed, pend, rest>>
    BY <1>9 DEF AbortSent, FailWith, Break, Complete, AbortFeed, feedVars
  <2>3. UNCHANGED <<cur, got, pump, chan>>
    BY <1>9 DEF AbortSent, FailWith, Break, pumpVars
  <2>4. down'[r] = down[r] \/ (Claimed(r) /\ down'[r] = Append(down[r], AbortFrame))
    BY <1>9 DEF AbortSent, Types, TDown
  <2>5. QED
    BY <2>1, <2>2, <2>3, <2>4 DEF Stays, Gone
<1>10. CASE FeedSend /\ r # cur
  BY <1>10 DEF FeedSend, Stays, Types, TBody, connVars, workerVars
<1>11. CASE FeedStalls \/ FeedDone
  BY <1>11 DEF FeedStalls, FeedDone, Stays, connVars, pumpVars, workerVars
<1>12. ASSUME NEW q \in Requests, q # r, PumpBody(q) PROVE Stays(r)
  BY <1>12 DEF PumpBody, Stays, Types, TBody, TDown, TWorker, connVars, feedVars, pumpVars, workerVars
<1>13. ASSUME NEW q \in Requests, q # r, PumpEnds(q) PROVE Stays(r)
  BY <1>13 DEF PumpEnds, Stays, Types, TBody, TDown, TWorker, connVars, feedVars, pumpVars, workerVars
<1>14. ASSUME NEW q \in Requests, q # r, Claim(q) PROVE Stays(r)
  BY <1>14 DEF Claim, Stays, Types, TBody, TDown, TWorker, connVars, feedVars, pumpVars, workerVars
<1>15. ASSUME NEW q \in Requests, q # r, ReadStream(q) PROVE Stays(r)
  BY <1>15 DEF ReadStream, Stays, Types, TBody, TDown, TWorker, connVars, feedVars, pumpVars, workerVars
<1>16. ASSUME NEW q \in Requests, OpenSpill(q) \/ SayHeaders(q) \/ SayPiece(q) \/ SayFlush(q) PROVE Stays(r)
  BY <1>16 DEF OpenSpill, SayHeaders, SayPiece, SayFlush, Stays, connVars, feedVars, pumpVars, workerVars
<1>17. ASSUME NEW q \in Requests, SayEnd(q) \/ SayError(q) \/ SayDone(q) \/ Die(q) PROVE Stays(r) \/ Gone(r)
  BY <1>17 DEF SayEnd, SayError, SayDone, Finish, Die, Gone, Stays, Types, TBody, TDown, TWorker,
     connVars, feedVars, pumpVars, workerVars
<1>18. CASE UNCHANGED vars
  BY <1>18 DEF vars, Stays, connVars, feedVars, pumpVars, workerVars
<1>19. CASE Submit
  <2>1. cur \in Requests
    BY <1>19 DEF Submit, Halves
  <2>2. (r # cur /\ worker'[r] = worker[r]) \/ (r = cur /\ worker'[r] = "queued")
    BY <1>19, <2>1 DEF Submit, Types, TWorker
  <2>3. r = cur => worker[r] = "none"
    BY <1>19 DEF Submit, Waiting
  <2>4. QED
    BY <1>19, <2>2, <2>3 DEF Submit, Stays, feedVars, pumpVars
<1>20. QED
  BY <1>1, <1>2, <1>3, <1>4, <1>5, <1>6, <1>7, <1>8, <1>9, <1>10, <1>11, <1>12, <1>13, <1>14, <1>15,
     <1>16, <1>17, <1>18, <1>19
     DEF Next, ConnNext, TaskNext, WorkerNext

(* The body of r, when nothing happens to it.                              *)
LEMMA StaysUnderway ==
  ASSUME Types, NEW r \in Requests, Underway(r), Stays(r)
  PROVE  Underway(r)'
<1>1. got[r] \in Seq(Frames) /\ down[r] \in Seq(Frames) /\ AbortFrame \in Frames /\ Size[r] \in Nat
      /\ Len(got[r]) \in Nat
  BY Limits DEF Types, TDown, Frames
<1>2. got'[r] = got[r] /\ pump'[r] = pump[r] /\ chan'[r] = chan[r]
  BY DEF Stays
<1>3. ASSUME NEW d \in Nat, Behind(r, d) PROVE Behind(r, d)'
  <2>1. r = cur' /\ feed' = "run" => r = cur /\ feed = "run" /\ pend' = pend /\ rest' = rest
    BY DEF Stays
  <2>2. QED
    BY <1>2, <1>3, <2>1 DEF Behind
<1>4. ASSUME worker'[r] \in {"none", "queued"}
      PROVE  got'[r] = <<>> /\ down'[r] = <<>> /\ pump'[r] = "none" /\ Behind(r, 0)'
  <2>1. worker[r] \in {"none", "queued"} /\ down'[r] = down[r]
    BY <1>4 DEF Stays, Claimed
  <2>2. QED
    BY <1>2, <1>3, <2>1 DEF Underway
<1>5. ASSUME worker'[r] = "run"
      PROVE  /\ \E d \in 0 .. Size[r] + 1 :
                  IF pump'[r] = "done" THEN Written(r, d, d)' ELSE Written(r, d, 0)' /\ Behind(r, d)'
             /\ r = cur' /\ feed' = "run" => pump'[r] = "run"
  <2>1. Claimed(r)
    BY <1>5 DEF Stays, Claimed
  <2>2. PICK d \in 0 .. Size[r] + 1 : IF pump[r] = "done" THEN Written(r, d, d) ELSE Written(r, d, 0)
        /\ Behind(r, d)
    BY <2>1 DEF Underway
  <2>3. ASSUME NEW e, Written(r, d, e) PROVE Written(r, d, e)'
    <3>1. Carries(down[r], r, Len(got[r]), d, e) /\ \A i \in 1 .. Len(got[r]) : got[r][i] = Line(r, i, e)
      BY <2>3 DEF Written
    <3>2. d \in Nat /\ d \in {d, d + 1}
      BY <1>1
    <3>3. Carries(Append(down[r], AbortFrame), r, Len(got[r]), d, e)
      BY <1>1, <3>1, <3>2, CarriesAppend
    <3>4. Carries(down'[r], r, Len(got'[r]), d, e)
      BY <1>2, <3>1, <3>3 DEF Stays
    <3>5. QED
      BY <1>2, <3>1, <3>4 DEF Written
  <2>4. d \in Nat
    BY <1>1
  <2>5. IF pump'[r] = "done" THEN Written(r, d, d)' ELSE Written(r, d, 0)' /\ Behind(r, d)'
    BY <1>2, <1>3, <2>2, <2>3, <2>4
  <2>6. r = cur' /\ feed' = "run" => pump'[r] = "run"
    BY <1>2, <2>1 DEF Stays, Underway
  <2>7. QED
    BY <2>5, <2>6
<1>6. QED
  BY <1>4, <1>5 DEF Underway, Claimed

(* The body of r, when the feed reads a piece or passes one on.            *)
LEMMA FeedReadBehind ==
  ASSUME Types, Halves, Position, NEW r \in Requests, NEW d \in Nat, Behind(r, d), FeedRead
  PROVE  Behind(r, d)'
<1>1. chan' = chan /\ cur' = cur /\ feed' = feed
  BY DEF FeedRead, pumpVars, connVars
<1>2. CASE r # cur
  BY <1>1, <1>2 DEF Behind
<1>3. CASE r = cur
  <2>1. rest <= Size[r] /\ From(After(<<r, Size[r] - rest>>), wire) /\ feed = "run" /\ wire # <<>>
        /\ pend = <<>>
    BY <1>3 DEF FeedRead, Position
  <2>2. Size[r] \in Nat /\ rest \in Nat /\ rest > 0 /\ Size[r] - rest < Size[r]
        /\ chan[r] \in Seq(Pieces) /\ Len(chan[r]) \in Nat
    BY <2>1, Limits DEF FeedRead, Types, TBytes, TBody
  <2>3. PICK p : p = <<r, (Size[r] - rest) + 1>>
    OBVIOUS
  <2>4. After(<<r, Size[r] - rest>>) = p
    BY <2>2, <2>3 DEF After
  <2>5. Head(wire) = p
    BY <2>1, <2>4, FromNext
  <2>6. Len(pend) = 0
    BY <2>1, NoItems
  <2>7. d + Len(chan[r]) = Size[r] - rest
    BY <1>3, <2>1, <2>2, <2>6 DEF Behind
  <2>8. pend' = <<p>> /\ rest' = rest - 1
    BY <2>5 DEF FeedRead
  <2>9. Len(pend') = 1 /\ pend'[1] = p
    BY <2>8
  <2>10. d + Len(chan[r]) + Len(pend') = Size[r] - rest'
    <3>1. PICK m : m = Len(chan[r])
      OBVIOUS
    <3>2. m \in Nat /\ d + m = Size[r] - rest /\ rest' = rest - 1 /\ Len(pend') = 1
      BY <2>2, <2>7, <2>8, <2>9, <3>1
    <3>3. d + m + 1 = Size[r] - (rest - 1)
      BY <2>2, <3>2
    <3>4. QED
      BY <3>1, <3>2, <3>3
  <2>11. \A i \in 1 .. Len(pend') : pend'[i] = <<r, d + Len(chan[r]) + i>>
    BY <2>2, <2>3, <2>7, <2>9
  <2>12. QED
    BY <1>1, <1>3, <2>10, <2>11 DEF Behind
<1>4. QED
  BY <1>2, <1>3

(* The feed hands on a piece of the request it feeds.                      *)
LEMMA FeedSendBehind ==
  ASSUME Types, NEW r \in Requests, r = cur, NEW d \in Nat, Behind(r, d), FeedSend
  PROVE  Behind(r, d)'
<1>1. cur' = cur /\ rest' = rest /\ feed = "run" /\ pend # <<>> /\ pend \in Seq(Pieces)
      /\ chan[r] \in Seq(Pieces)
  BY DEF FeedSend, connVars, Types, TBytes, TBody
<1>2. CASE feed' = "bad" /\ chan' = chan
  BY <1>2 DEF Behind
<1>3. ASSUME chan' = [chan EXCEPT ![cur] = Append(@, Head(pend))], pend' = Tail(pend)
      PROVE  Behind(r, d)'
  <2>1. PICK s, x : s = chan[r] /\ x = Head(pend)
    OBVIOUS
  <2>2. /\ Len(s) \in Nat /\ Len(pend) \in Nat /\ Len(pend) > 0 /\ rest \in Nat /\ Size[r] \in Nat
        /\ d + Len(s) <= Size[r] /\ (\A i \in 1 .. Len(s) : s[i] = <<r, d + i>>)
        /\ d + Len(s) + Len(pend) = Size[r] - rest
        /\ \A i \in 1 .. Len(pend) : pend[i] = <<r, d + Len(s) + i>>
    <3>1. Len(s) \in Nat /\ Len(pend) \in Nat /\ Len(pend) > 0
      BY <1>1, <2>1
    <3>2. rest \in Nat /\ Size[r] \in Nat
      BY Limits DEF Types, TBytes
    <3>3. QED
      BY <1>1, <2>1, <3>1, <3>2 DEF Behind
  <2>3. x = <<r, d + Len(s) + 1>> /\ x \in Pieces
    <3>1. 1 \in 1 .. Len(pend) /\ x = pend[1] /\ x \in Pieces
      BY <1>1, <2>1, <2>2
    <3>2. QED
      BY <2>2, <3>1
  <2>4. PICK t : t = Append(s, x)
    OBVIOUS
  <2>5. Len(t) = Len(s) + 1 /\ t[Len(s) + 1] = x /\ \A i \in 1 .. Len(s) : t[i] = s[i]
    BY <1>1, <2>1, <2>3, <2>4
  <2>6. chan'[r] = t
    BY <1>3, <2>1, <2>4 DEF Types, TBody
  <2>7. Len(pend') = Len(pend) - 1 /\ \A i \in 1 .. Len(pend) - 1 : pend'[i] = pend[i + 1]
    BY <1>1, <1>3, <2>2
  <2>8. d + Len(t) <= Size[r] /\ d + Len(t) + Len(pend') = Size[r] - rest
    BY <2>2, <2>5, <2>7
  <2>9. \A i \in 1 .. Len(t) : t[i] = <<r, d + i>>
    <3>1. ASSUME NEW i \in 1 .. Len(t) PROVE t[i] = <<r, d + i>>
      <4>1. CASE i \in 1 .. Len(s)
        BY <2>2, <2>5, <4>1
      <4>2. CASE i = Len(s) + 1
        BY <2>2, <2>3, <2>5, <4>2
      <4>3. QED
        BY <2>2, <2>5, <4>1, <4>2
    <3>2. QED
      BY <3>1
  <2>10. \A i \in 1 .. Len(pend') : pend'[i] = <<r, d + Len(t) + i>>
    <3>1. ASSUME NEW i \in 1 .. Len(pend') PROVE pend'[i] = <<r, d + Len(t) + i>>
      <4>1. i + 1 \in 1 .. Len(pend) /\ pend'[i] = pend[i + 1] /\ d + Len(t) + i = d + Len(s) + (i + 1)
        BY <2>2, <2>5, <2>7
      <4>2. QED
        BY <2>2, <4>1
    <3>2. QED
      BY <3>1
  <2>11. QED
    BY <1>1, <2>6, <2>8, <2>9, <2>10 DEF Behind
<1>4. QED
  BY <1>2, <1>3 DEF FeedSend

(* The body of r stays whole on its way.                                   *)
LEMMA UnderwayStep ==
  ASSUME Types, Halves, Position, Waiting, NEW r \in Requests, Underway(r), [Next]_vars
  PROVE  Underway(r)'
<1>1. /\ got[r] \in Seq(Frames) /\ down[r] \in Seq(Frames) /\ chan[r] \in Seq(Pieces) /\ Size[r] \in Nat
      /\ Len(got[r]) \in Nat /\ Len(chan[r]) \in Nat /\ 0 \in Nat
  BY Limits DEF Types, TDown, TBody
<1>2. CASE Stays(r)
  BY <1>2, StaysUnderway
<1>3. CASE Gone(r)
  BY <1>3 DEF Gone, Underway, Claimed
<1>4. CASE StartFeed
  <2>1. PICK c, b : c = cur + 1 /\ b = Tail(buf)
    OBVIOUS
  <2>2. From(<<cur + 1, 0>>, buf \o wire) /\ buf # <<>>
    BY <1>4 DEF StartFeed, Position
  <2>3. /\ Head(buf) = <<c, 0>> /\ c \in Requests /\ b \in Seq(Pieces) /\ Size[c] \in Nat
        /\ \A i \in 1 .. Len(b) : i <= Size[c] => b[i] = <<c, i>>
    BY <2>1, <2>2, HeadTaken
  <2>4. /\ cur' = c /\ feed' = "run" /\ pend' = b /\ rest' = Size[c] - Len(b) /\ Len(b) < Size[c]
        /\ UNCHANGED <<chan, down, got, pump, worker>>
    BY <1>4, <2>1, <2>3 DEF StartFeed, pumpVars, workerVars
  <2>5. CASE r # c
    <3>1. \A d : Behind(r, d) => Behind(r, d)'
      BY <2>4, <2>5 DEF Behind
    <3>2. \A d, e : Written(r, d, e) => Written(r, d, e)'
      BY <2>4 DEF Written
    <3>3. (Claimed(r) <=> Claimed(r)') /\ ~(r = cur')
      BY <2>4, <2>5 DEF Claimed
    <3>4. QED
      BY <2>4, <3>1, <3>2, <3>3 DEF Underway
  <2>6. CASE r = c
    <3>1. r > cur /\ r # cur
      BY <2>1, <2>6, Limits DEF Types, TConn
    <3>2. worker[r] = "none" /\ chan[r] = <<>>
      BY <3>1 DEF Waiting
    <3>3. Len(chan[r]) = 0
      BY <3>2, NoItems
    <3>4. Behind(r, 0)'
      <4>1. Len(b) \in Nat
        BY <2>3
      <4>2. 0 + Len(chan[r]) + Len(b) = Size[r] - rest'
        BY <2>3, <2>4, <2>6, <3>3, <4>1
      <4>3. \A i \in 1 .. Len(b) : b[i] = <<r, 0 + Len(chan[r]) + i>>
        BY <2>3, <2>4, <2>6, <3>3, <4>1
      <4>4. QED
        BY <1>1, <2>4, <3>3, <4>2, <4>3 DEF Behind
    <3>5. QED
      BY <2>4, <3>2, <3>4 DEF Underway, Claimed
  <2>7. QED
    BY <2>5, <2>6
<1>5. ASSUME FeedRead \/ (FeedSend /\ r = cur), worker[r] # "run"
             \/ \A d \in Nat : Behind(r, d) => Behind(r, d)'
      PROVE  Underway(r)'
  <2>1. \A d \in Nat : Behind(r, d) => Behind(r, d)'
    BY <1>5, FeedReadBehind, FeedSendBehind
  <2>2. /\ UNCHANGED <<down, got, pump, worker>> /\ cur' = cur /\ (feed' = "run" => feed = "run")
    BY <1>5 DEF FeedRead, FeedSend, connVars, pumpVars, workerVars
  <2>3. \A d, e : Written(r, d, e) => Written(r, d, e)'
    BY <2>2 DEF Written
  <2>4. Claimed(r) <=> Claimed(r)'
    BY <2>2 DEF Claimed
  <2>5. \A d \in 0 .. Size[r] + 1 : d \in Nat
    BY <1>1
  <2>6. QED
    BY <1>1, <2>1, <2>2, <2>3, <2>4, <2>5 DEF Underway
<1>6. CASE FeedRead \/ (FeedSend /\ r = cur)
  BY <1>5, <1>6, FeedReadBehind, FeedSendBehind
<1>7. CASE PumpBody(r)
  <2>1. pump[r] = "run" /\ chan[r] # <<>> /\ UNCHANGED <<worker, got, cur, feed, pend, rest>>
    BY <1>7 DEF PumpBody, connVars, feedVars, workerVars
  <2>2. worker[r] \notin {"none", "queued"}
    BY <2>1 DEF Underway
  <2>3. CASE ~Claimed(r)
    BY <2>1, <2>2, <2>3 DEF Underway, Claimed
  <2>4. CASE Claimed(r)
    <3>1. PICK x, s : x = Head(chan[r]) /\ s = Tail(chan[r])
      OBVIOUS
    <3>2. down'[r] = Append(down[r], x) /\ chan'[r] = s /\ pump' = pump
      BY <1>7, <2>4, <3>1 DEF PumpBody, Claimed, Types, TBody, TDown
    <3>3. PICK d \in 0 .. Size[r] + 1 : Written(r, d, 0) /\ Behind(r, d)
      BY <2>1, <2>4 DEF Underway
    <3>4. d \in Nat /\ d + 1 \in {d, d + 1} /\ d + 1 # d /\ d + 1 # 0
      BY <1>1
    <3>5. /\ x = chan[r][1] /\ x \in Pieces /\ Len(chan[r]) > 0 /\ Len(s) = Len(chan[r]) - 1
          /\ \A i \in 1 .. Len(s) : s[i] = chan[r][i + 1]
      BY <1>1, <2>1, <3>1
    <3>6. x = <<r, d + 1>> /\ x \in Frames /\ x = Line(r, d + 1, 0)
      <4>1. 1 \in 1 .. Len(chan[r])
        BY <1>1, <3>5
      <4>2. x = <<r, d + 1>>
        BY <3>3, <3>5, <4>1 DEF Behind
      <4>3. QED
        BY <3>4, <3>5, <4>2 DEF Line, Frames
    <3>7. Carries(Append(down[r], x), r, Len(got[r]), d + 1, 0)
      <4>1. Carries(down[r], r, Len(got[r]), d, 0)
        BY <3>3 DEF Written
      <4>2. QED
        BY <1>1, <3>4, <3>6, <4>1, CarriesAppend
    <3>8. Written(r, d + 1, 0)'
      BY <2>1, <3>2, <3>3, <3>7 DEF Written
    <3>9. Behind(r, d + 1)'
      <4>1. (d + 1) + Len(s) = d + Len(chan[r])
        BY <1>1, <3>4, <3>5
      <4>2. \A i \in 1 .. Len(s) : s[i] = <<r, (d + 1) + i>>
        <5>1. ASSUME NEW i \in 1 .. Len(s) PROVE s[i] = <<r, (d + 1) + i>>
          <6>1. i + 1 \in 1 .. Len(chan[r]) /\ d + (i + 1) = (d + 1) + i
            <7>1. Len(s) \in Nat /\ Len(chan[r]) = Len(s) + 1 /\ i \in 1 .. Len(s)
              BY <1>1, <3>5
            <7>2. QED
              BY <3>4, <7>1
          <6>2. QED
            BY <3>3, <3>5, <6>1 DEF Behind
        <5>2. QED
          BY <5>1
      <4>3. QED
        BY <2>1, <3>2, <3>3, <4>1, <4>2 DEF Behind
    <3>10. d + 1 \in 0 .. Size[r] + 1
      BY <1>1, <3>3, <3>4, <3>5 DEF Behind
    <3>11. worker'[r] = "run" /\ pump'[r] = "run"
      BY <2>1, <2>4, <3>2 DEF Claimed
    <3>12. QED
      BY <3>8, <3>9, <3>10, <3>11 DEF Underway, Claimed
  <2>5. QED
    BY <2>3, <2>4
<1>8. CASE PumpEnds(r)
  <2>1. pump[r] = "run" /\ chan[r] = <<>> /\ UNCHANGED <<worker, got, cur, feed, pend, rest, chan>>
        /\ ~(r = cur /\ feed = "run")
    BY <1>8 DEF PumpEnds, TxAlive, connVars, feedVars, workerVars
  <2>2. worker[r] \notin {"none", "queued"}
    BY <2>1 DEF Underway
  <2>3. CASE ~Claimed(r)
    BY <2>1, <2>2, <2>3 DEF Underway, Claimed
  <2>4. CASE Claimed(r)
    <3>1. down'[r] = Append(down[r], Terminator) /\ pump'[r] = "done"
      BY <1>8, <2>4 DEF PumpEnds, Claimed, Types, TBody, TDown
    <3>2. PICK d \in 0 .. Size[r] + 1 : Written(r, d, 0) /\ Behind(r, d)
      BY <2>1, <2>4 DEF Underway
    <3>3. d \in Nat /\ d + 1 \in {d, d + 1} /\ d + 1 # d /\ d <= Size[r]
      BY <1>1, <3>2 DEF Behind
    <3>4. Terminator \in Frames /\ Terminator = Line(r, d + 1, d + 1)
      BY DEF Frames, Line
    <3>5. Carries(down[r], r, Len(got[r]), d, 0) /\ Len(got[r]) <= d
      BY <1>1, <3>2, <3>3, CarriesUpto DEF Written
    <3>6. Carries(down[r], r, Len(got[r]), d, d + 1)
      BY <1>1, <3>3, <3>5, CarriesEnd
    <3>7. Carries(Append(down[r], Terminator), r, Len(got[r]), d + 1, d + 1)
      BY <1>1, <3>3, <3>4, <3>6, CarriesAppend
    <3>8. \A i \in 1 .. Len(got[r]) : got[r][i] = Line(r, i, d + 1)
      <4>1. ASSUME NEW i \in 1 .. Len(got[r]) PROVE got[r][i] = Line(r, i, d + 1)
        <5>1. got[r][i] = Line(r, i, 0)
          BY <3>2 DEF Written
        <5>2. i # 0 /\ i # d + 1
          BY <1>1, <3>3, <3>5
        <5>3. QED
          BY <5>1, <5>2 DEF Line
      <4>2. QED
        BY <4>1
    <3>9. Written(r, d + 1, d + 1)'
      BY <2>1, <3>1, <3>7, <3>8 DEF Written
    <3>10. d + 1 \in 0 .. Size[r] + 1
      BY <1>1, <3>3
    <3>11. worker'[r] = "run"
      BY <2>1, <2>4 DEF Claimed
    <3>12. QED
      BY <2>1, <3>1, <3>9, <3>10, <3>11 DEF Underway, Claimed
  <2>5. QED
    BY <2>3, <2>4
<1>9. CASE Claim(r)
  <2>1. /\ worker[r] = "queued" /\ worker'[r] = "run" /\ UNCHANGED <<got, down, chan, cur, feed, pend, rest>>
        /\ pump'[r] = IF plan = "stream" THEN "run" ELSE pump[r]
    BY <1>9 DEF Claim, connVars, feedVars, Types, TBody, TWorker
  <2>2. got[r] = <<>> /\ down[r] = <<>> /\ pump[r] = "none" /\ Behind(r, 0)
    BY <2>1 DEF Underway
  <2>3. Len(got[r]) = 0 /\ Carries(down[r], r, 0, 0, 0)
    BY <1>1, <2>2, NoItems, CarriesNone
  <2>4. Written(r, 0, 0)' /\ Behind(r, 0)'
    BY <2>1, <2>2, <2>3 DEF Written, Behind
  <2>5. pump'[r] # "done" /\ 0 \in 0 .. Size[r] + 1
    BY <1>1, <2>1, <2>2
  <2>6. r = cur /\ feed = "run" => pump'[r] = "run"
    <3>1. r = cur /\ pc \in Dispatched
      BY <2>1 DEF Waiting, Dispatched
    <3>2. feed = "run" => plan = "stream"
      BY <3>1 DEF Halves
    <3>3. QED
      BY <2>1, <3>2
  <2>7. QED
    BY <2>1, <2>4, <2>5, <2>6 DEF Underway, Claimed
<1>10. CASE ReadStream(r)
  <2>1. /\ down[r] # <<>> /\ UNCHANGED <<worker, pump, chan, cur, feed, pend, rest>>
        /\ worker[r] \in {"run", "done"}
    BY <1>10 DEF ReadStream, connVars, feedVars, pumpVars
  <2>2. CASE ~Claimed(r)
    BY <2>1, <2>2 DEF Underway, Claimed
  <2>3. CASE Claimed(r)
    <3>1. PICK x, s : x = Head(down[r]) /\ s = Tail(down[r])
      OBVIOUS
    <3>2. down'[r] = s /\ got'[r] = IF x # AbortFrame THEN Append(got[r], x) ELSE got[r]
      BY <1>10, <2>3, <3>1 DEF ReadStream, Types, TDown
    <3>3. x \in Frames
      BY <1>1, <2>1, <3>1
    <3>4. \A d \in Nat : Behind(r, d) => Behind(r, d)'
      BY <2>1 DEF Behind
    <3>5. ASSUME NEW d \in Nat, NEW e, Written(r, d, e) PROVE Written(r, d, e)'
      <4>1. Carries(down[r], r, Len(got[r]), d, e) /\ \A i \in 1 .. Len(got[r]) : got[r][i] = Line(r, i, e)
        BY <3>5 DEF Written
      <4>2. \/ x = AbortFrame /\ Carries(s, r, Len(got[r]), d, e)
            \/ x = Line(r, Len(got[r]) + 1, e) /\ Len(got[r]) + 1 <= d /\ Carries(s, r, Len(got[r]) + 1, d, e)
        <5>1. PICK z, a : z = down[r] /\ a = Len(got[r])
          OBVIOUS
        <5>2. z \in Seq(Frames) /\ z # <<>> /\ a \in Nat /\ Carries(z, r, a, d, e)
          BY <1>1, <2>1, <4>1, <5>1
        <5>3. \/ Head(z) = AbortFrame /\ Carries(Tail(z), r, a, d, e)
              \/ Head(z) = Line(r, a + 1, e) /\ a + 1 <= d /\ Carries(Tail(z), r, a + 1, d, e)
          BY <3>5, <5>2, CarriesTail
        <5>4. QED
          BY <3>1, <5>1, <5>3
      <4>3. CASE x = AbortFrame
        <5>1. x # Line(r, Len(got[r]) + 1, e)
          BY <4>3, FramesDiffer
        <5>2. QED
          BY <3>2, <4>1, <4>2, <4>3, <5>1 DEF Written
      <4>4. CASE x # AbortFrame
        <5>1. PICK g : g = Append(got[r], x)
          OBVIOUS
        <5>2. Len(g) = Len(got[r]) + 1 /\ g[Len(got[r]) + 1] = x
              /\ \A i \in 1 .. Len(got[r]) : g[i] = got[r][i]
          BY <1>1, <3>3, <5>1
        <5>3. \A i \in 1 .. Len(g) : g[i] = Line(r, i, e)
          <6>1. ASSUME NEW i \in 1 .. Len(g) PROVE g[i] = Line(r, i, e)
            <7>1. CASE i \in 1 .. Len(got[r])
              BY <4>1, <5>2, <7>1
            <7>2. CASE i = Len(got[r]) + 1
              BY <4>2, <4>4, <5>2, <7>2
            <7>3. QED
              BY <1>1, <5>2, <7>1, <7>2
          <6>2. QED
            BY <6>1
        <5>4. Carries(s, r, Len(g), d, e)
          BY <4>2, <4>4, <5>2
        <5>5. got'[r] = g /\ down'[r] = s
          BY <3>2, <4>4, <5>1
        <5>6. QED
          BY <5>3, <5>4, <5>5 DEF Written
      <4>5. QED
        BY <4>3, <4>4
    <3>6. PICK d \in 0 .. Size[r] + 1 : IF pump[r] = "done" THEN Written(r, d, d) ELSE Written(r, d, 0)
          /\ Behind(r, d)
      BY <2>3 DEF Underway
    <3>7. d \in Nat
      BY <1>1
    <3>8. IF pump'[r] = "done" THEN Written(r, d, d)' ELSE Written(r, d, 0)' /\ Behind(r, d)'
      BY <2>1, <3>4, <3>5, <3>6, <3>7
    <3>9. worker'[r] = "run" /\ (r = cur' /\ feed' = "run" => pump'[r] = "run")
      BY <2>1, <2>3 DEF Underway, Claimed
    <3>10. QED
      BY <3>8, <3>9 DEF Underway, Claimed
  <2>4. QED
    BY <2>2, <2>3
<1>11. QED
  BY <1>2, <1>3, <1>4, <1>6, <1>7, <1>8, <1>9, <1>10, BodySteps

(* What a worker that serves r has is the beginning of its body.           *)
LEMMA ClaimedReceived ==
  ASSUME Types, NEW r \in Requests, Underway(r), Claimed(r)
  PROVE  Received(r)
<1>1. /\ got[r] \in Seq(Frames) /\ down[r] \in Seq(Frames) /\ chan[r] \in Seq(Pieces) /\ Size[r] \in Nat
      /\ Len(got[r]) \in Nat /\ Len(chan[r]) \in Nat
  BY Limits DEF Types, TDown, TBody
<1>2. PICK d \in 0 .. Size[r] + 1 : IF pump[r] = "done" THEN Written(r, d, d) ELSE Written(r, d, 0)
      /\ Behind(r, d)
  BY DEF Underway
<1>3. ASSUME NEW e, Written(r, d, e)
      PROVE  Len(got[r]) <= d /\ \A i \in 1 .. Len(got[r]) : got[r][i] = Line(r, i, e)
  <2>1. PICK a : a = Len(got[r])
    OBVIOUS
  <2>2. Carries(down[r], r, a, d, e) /\ a \in Nat /\ d \in Nat
    BY <1>1, <1>3, <2>1 DEF Written
  <2>3. a <= d
    BY <1>1, <2>2, CarriesUpto
  <2>4. QED
    BY <1>3, <2>1, <2>3 DEF Written
<1>4. CASE Written(r, d, d)
  <2>1. ASSUME NEW i \in 1 .. Len(got[r])
        PROVE  \/ i <= Size[r] /\ got[r][i] = <<r, i>>
               \/ i = Len(got[r]) /\ i <= Size[r] + 1 /\ got[r][i] = Terminator
    <3>1. Len(got[r]) <= d /\ got[r][i] = Line(r, i, d)
      BY <1>3, <1>4
    <3>2. CASE i = d
      BY <1>1, <3>1, <3>2 DEF Line
    <3>3. CASE i # d
      BY <1>1, <3>1, <3>3 DEF Line
    <3>4. QED
      BY <3>2, <3>3
  <2>2. QED
    BY <2>1 DEF Received
<1>5. CASE Written(r, d, 0) /\ Behind(r, d)
  <2>1. ASSUME NEW i \in 1 .. Len(got[r]) PROVE i <= Size[r] /\ got[r][i] = <<r, i>>
    <3>1. Len(got[r]) <= d /\ got[r][i] = Line(r, i, 0)
      BY <1>3, <1>5
    <3>2. d <= Size[r] /\ i # 0
      BY <1>1, <1>5 DEF Behind
    <3>3. QED
      BY <1>1, <3>1, <3>2 DEF Line
  <2>2. QED
    BY <2>1 DEF Received
<1>6. QED
  BY <1>2, <1>4, <1>5

(* ... and it has no more when it has served it.                           *)
LEMMA ReceivedStep ==
  ASSUME Types, Halves, Position, Waiting, NEW r \in Requests, Underway(r), Claimed(r) \/ Received(r), [Next]_vars
  PROVE  (Claimed(r) \/ Received(r))'
<1>1. Received(r)
  BY ClaimedReceived
<1>2. CASE Stays(r) \/ Gone(r)
  BY <1>1, <1>2 DEF Stays, Gone, Received
<1>3. CASE StartFeed \/ FeedRead \/ (FeedSend /\ r = cur) \/ PumpBody(r) \/ PumpEnds(r) \/ Claim(r)
  BY <1>1, <1>3 DEF StartFeed, FeedRead, FeedSend, PumpBody, PumpEnds, Claim, workerVars, Received
<1>4. CASE ReadStream(r)
  BY <1>1, <1>4 DEF ReadStream, Claimed, Received
<1>5. QED
  BY <1>2, <1>3, <1>4, BodySteps

-----------------------------------------------------------------------------
(* The files.                                                              *)

(* Every exchange takes its file along.                                    *)
LEMMA KeptStep ==
  ASSUME Types, Halves, Kept, [Next]_vars
  PROVE  Kept'
<1>1. CASE CloseIdle
  BY <1>1 DEF CloseIdle, Kept, Halves, Dispatched, connVars, spillVars
<1>2. CASE ParseHead
  BY <1>2 DEF ParseHead, TakeBuffered, Kept, Halves, Dispatched, connVars, spillVars
<1>3. CASE RefuseHead
  BY <1>3 DEF RefuseHead, Kept, Halves, Dispatched, connVars, spillVars
<1>4. CASE StartFeed
  BY <1>4 DEF StartFeed, Kept, Halves, Dispatched, connVars, spillVars
<1>5. CASE ReadBody
  BY <1>5 DEF ReadBody, Kept, Halves, Dispatched, connVars, spillVars
<1>6. CASE BodyStalls
  BY <1>6 DEF BodyStalls, Tell, Kept, Halves, Dispatched, connVars, spillVars
<1>7. CASE AnswerHere
  BY <1>7 DEF AnswerHere, Tell, Kept, Halves, Dispatched, connVars, spillVars
<1>8. CASE Route
  BY <1>8 DEF Route, Kept, Halves, Dispatched, connVars, spillVars
<1>9. CASE WriteSpill
  BY <1>9 DEF WriteSpill, Kept, Halves, Dispatched, connVars, spillVars
<1>10. CASE SpillFails
  BY <1>10 DEF SpillFails, Tell, Kept, Halves, Dispatched, connVars, spillVars
<1>11. CASE Submit
  BY <1>11 DEF Submit, Kept, Halves, Dispatched, connVars, spillVars
<1>12. CASE SubmitFails
  BY <1>12 DEF SubmitFails, FailWith, Tell, AbortFeed, NextRequest, Abandon, Unlink, Hangup, Over,
     Kept, Halves, Dispatched, connVars, spillVars
<1>13. CASE TakeHeaders
  BY <1>13 DEF TakeHeaders, NextEvent, Kept, Halves, Dispatched, connVars, spillVars
<1>14. CASE FailFirst
  BY <1>14 DEF FailFirst, FailWith, Tell, AbortFeed, NextRequest, Abandon, Unlink, Hangup, Over,
     Kept, Halves, Dispatched, connVars, spillVars
<1>15. CASE BufferPiece
  BY <1>15 DEF BufferPiece, NextEvent, Kept, Halves, Dispatched, connVars, spillVars
<1>16. CASE Overflow
  BY <1>16 DEF Overflow, NextEvent, StartChunks, Kept, Halves, Dispatched, connVars, spillVars
<1>17. CASE FlushBuffer
  BY <1>17 DEF FlushBuffer, NextEvent, StartChunks, Kept, Halves, Dispatched, connVars, spillVars
<1>18. CASE EndBuffered
  BY <1>18 DEF EndBuffered, Complete, Tell, Kept, Halves, Dispatched, connVars, spillVars
<1>19. CASE FailBuffered
  BY <1>19 DEF FailBuffered, FailWith, Tell, AbortFeed, NextRequest, Abandon, Unlink, Hangup, Over,
     Break, Kept, Halves, Dispatched, connVars, spillVars
<1>20. CASE Flush
  BY <1>20 DEF Flush, NextEvent, Kept, Halves, Dispatched, connVars, spillVars
<1>21. CASE EndChunks
  BY <1>21 DEF EndChunks, Complete, Tell, Kept, Halves, Dispatched, connVars, spillVars
<1>22. CASE Truncate
  BY <1>22 DEF Truncate, Break, AbortFeed, Abandon, Unlink, Hangup, Over, Kept, Halves, Dispatched,
     connVars, spillVars
<1>23. CASE ResponseTimeout
  BY <1>23 DEF ResponseTimeout, SendAbort, Kept, Halves, Dispatched, connVars, spillVars
<1>24. CASE IdleTimeout
  BY <1>24 DEF IdleTimeout, SendAbort, Kept, Halves, Dispatched, connVars, spillVars
<1>25. CASE WriteFails
  BY <1>25 DEF WriteFails, Abandon, Unlink, Hangup, Over, Kept, Halves, Dispatched, connVars, spillVars
<1>26. CASE ClientGone
  BY <1>26 DEF ClientGone, SendAbort, NextEvent, Kept, Halves, Dispatched, connVars, spillVars
<1>27. CASE AbortSent
  BY <1>27 DEF AbortSent, FailWith, Tell, AbortFeed, NextRequest, Abandon, Unlink, Hangup, Over,
     Break, Complete, Kept, Halves, Dispatched, connVars, spillVars
<1>28. CASE Reclaim
  BY <1>28 DEF Reclaim, NextRequest, Unlink, Over, Kept, Halves, Dispatched, connVars, spillVars
<1>29. ASSUME NEW r \in Requests, OpenSpill(r) PROVE Kept'
  BY <1>29 DEF OpenSpill, Kept, Halves, Dispatched, connVars, spillVars
<1>30. CASE ReadSocket \/ WriteChunk \/ FeedRead \/ FeedSend \/ FeedStalls \/ FeedDone
  BY <1>30 DEF ReadSocket, WriteChunk, NextEvent, Tell, FeedRead, FeedSend, FeedStalls, FeedDone,
     Kept, Halves, Dispatched, connVars, spillVars
<1>31. ASSUME NEW r \in Requests, PumpBody(r) \/ PumpEnds(r) \/ Claim(r) \/ ReadStream(r)
              \/ SayHeaders(r) \/ SayPiece(r) \/ SayFlush(r) \/ SayEnd(r) \/ SayError(r)
              \/ SayDone(r) \/ Die(r)
       PROVE  Kept'
  BY <1>31 DEF PumpBody, PumpEnds, Claim, ReadStream, SayHeaders, Emit, SayPiece, SayFlush, SayEnd,
     Finish, SayError, SayDone, Die, Kept, Halves, Dispatched, connVars, spillVars
<1>32. CASE UNCHANGED vars
  BY <1>32 DEF vars, Kept, Halves, Dispatched, connVars, spillVars
<1>33. QED
  BY <1>1, <1>2, <1>3, <1>4, <1>5, <1>6, <1>7, <1>8, <1>9, <1>10, <1>11, <1>12, <1>13, <1>14, <1>15,
     <1>16, <1>17, <1>18, <1>19, <1>20, <1>21, <1>22, <1>23, <1>24, <1>25, <1>26, <1>27, <1>28,
     <1>29, <1>30, <1>31, <1>32
     DEF Next, ConnNext, TaskNext, WorkerNext

-----------------------------------------------------------------------------
(* The connection.                                                         *)

(* The invariant holds of a connection just accepted.                      *)
LEMMA ConnInit == Init => ConnInv
<1> SUFFICES ASSUME Init PROVE ConnInv
  OBVIOUS
<1>1. Stream \in Seq(Pieces) /\ From(<<1, 0>>, Stream)
  BY StreamAssumption DEF From
<1>2. \A r \in Requests : r > 0
  BY DEF Requests
<1>3. Types
  <2>1. TConn
    BY Limits DEF Init, TConn, Places
  <2>2. TBytes
    BY <1>1, NoItems DEF Init, TBytes
  <2>3. TFiles
    BY DEF Init, TFiles
  <2>4. TOut
    BY EmptySeq DEF Init, TOut
  <2>5. TEvents
    <3>1. events = <<>> /\ open = FALSE
      BY DEF Init
    <3>2. events \in Seq(Kinds) /\ Len(events) = 0
      BY <3>1, NoItems
    <3>3. open \in BOOLEAN
      BY <3>1
    <3>4. Len(events) <= EventCap
      BY <3>2, Limits
    <3>5. QED
      BY <3>2, <3>3, <3>4 DEF TEvents
  <2>6. TBody
    <3>1. \A r \in Requests : chan[r] = <<>>
      BY DEF Init
    <3>2. chan \in [Requests -> Seq(Pieces)] /\ \A r \in Requests : Len(chan[r]) = 0
      BY <3>1, NoItems DEF Init
    <3>3. QED
      BY <3>2, Limits DEF Init, TBody
  <2>7. TDown
    <3>1. \A r \in Requests : down[r] = <<>> /\ got[r] = <<>>
      BY DEF Init
    <3>2. down \in [Requests -> Seq(Frames)] /\ got \in [Requests -> Seq(Frames)]
          /\ \A r \in Requests : Len(down[r]) = 0
      BY <3>1, NoItems DEF Init
    <3>3. QED
      BY <3>2, Limits DEF TDown
  <2>8. TWorker
    BY Limits DEF Init, TWorker
  <2>9. QED
    BY <2>1, <2>2, <2>3, <2>4, <2>5, <2>6, <2>7, <2>8 DEF Types
<1>4. Halves
  BY DEF Init, Halves, Dispatched
<1>5. Position
  <2>1. buf \o wire = Stream /\ 0 + 1 = 1
    BY <1>1, ConcatEmptySeq DEF Init
  <2>2. QED
    BY <1>1, <2>1 DEF Init, Position, Dispatched
<1>6. Waiting
  BY <1>2 DEF Init, Waiting
<1>7. ASSUME NEW r \in Requests PROVE Underway(r) /\ Received(r)
  <2>1. chan[r] = <<>> /\ got[r] = <<>> /\ down[r] = <<>> /\ pump[r] = "none" /\ worker[r] = "none"
        /\ feed = "none"
    BY DEF Init
  <2>2. Len(chan[r]) = 0 /\ Len(got[r]) = 0 /\ Size[r] \in Nat
    BY <2>1, NoItems, Limits
  <2>3. Behind(r, 0)
    BY <2>1, <2>2 DEF Behind
  <2>4. QED
    BY <2>1, <2>2, <2>3 DEF Underway, Claimed, Received
<1>8. Counted
  BY NoItems DEF Init, Counted, Active
<1>9. Told
  <2>1. out = <<>> /\ Len(out) = 0 /\ DOMAIN out = {} /\ pc = "head" /\ cur = 0
    BY EmptySeq DEF Init
  <2>2. QED
    BY <2>1 DEF Told, Ordered, Upto, Closed, Fresh, Partial, Early
<1>10. Kept
  BY DEF Init, Kept
<1>11. QED
  BY <1>3, <1>4, <1>5, <1>6, <1>7, <1>8, <1>9, <1>10 DEF ConnInv, Transfer

(* Every step keeps the invariant.                                         *)
LEMMA ConnStep == ConnInv /\ [Next]_vars => ConnInv'
<1> SUFFICES ASSUME ConnInv, [Next]_vars PROVE ConnInv'
  OBVIOUS
<1>1. /\ Types /\ Halves /\ Position /\ Waiting /\ Counted /\ Told /\ Kept
      /\ \A r \in Requests : Underway(r) /\ (Claimed(r) \/ Received(r))
  BY DEF ConnInv, Transfer
<1>2. Types'
  BY <1>1, TypesStep
<1>3. Halves' /\ Position' /\ Waiting'
  BY <1>1, HalvesStep, PositionStep, WaitingStep
<1>4. ASSUME NEW r \in Requests PROVE Underway(r)' /\ (Claimed(r) \/ Received(r))'
  BY <1>1, UnderwayStep, ReceivedStep
<1>5. Counted' /\ Told' /\ Kept'
  BY <1>1, <1>2, CountedStep, ToldStep, KeptStep
<1>6. QED
  BY <1>2, <1>3, <1>4, <1>5 DEF ConnInv, Transfer

(* What every state of the connection satisfies.                           *)
THEOREM ConnHolds == Spec => []ConnInv
<1>1. Init => ConnInv
  BY ConnInit
<1>2. ConnInv /\ [Next]_vars => ConnInv'
  BY ConnStep
<1>3. QED
  BY <1>1, <1>2, PTL DEF Spec

(* A spill file outlives its exchange only if writing it failed: whatever   *)
(* ends the exchange, the guard of the file removes it (http1.rs:672).     *)
THEOREM NoFileStays == Spec => []SpillsGo
<1>1. ConnInv => SpillsGo
  BY DEF ConnInv, Kept, SpillsGo
<1>2. QED
  BY <1>1, ConnHolds, PTL

(* A body is its pieces in order, up to any of them.                       *)
LEMMA BodyUpto ==
  ASSUME NEW r \in Requests, NEW s \in Seq(Frames), NEW k \in 0 .. Size[r], Len(s) = k,
         \A i \in 1 .. k : s[i] = <<r, i>>
  PROVE  s = SubSeq(BodyIn(r), 1, k)
<1>1. Size[r] \in Nat
  BY Limits
<1>2. PICK b : b = BodyIn(r)
  OBVIOUS
<1>3. \A i \in 1 .. Size[r] : <<r, i>> \in Frames
  BY <1>1 DEF Pieces, Frames
<1>4. b \in Seq(Frames) /\ Len(b) = Size[r] /\ \A i \in 1 .. Size[r] : b[i] = <<r, i>>
  <2>1. b = [i \in 1 .. Size[r] |-> <<r, i>>]
    BY <1>2 DEF BodyIn
  <2>2. b \in [1 .. Size[r] -> Frames]
    BY <1>3, <2>1
  <2>3. b \in Seq(Frames) /\ Len(b) = Size[r]
    BY <1>1, <2>2
  <2>4. QED
    BY <2>1, <2>3
<1>5. PICK t : t = SubSeq(b, 1, k)
  OBVIOUS
<1>6. k \in 0 .. Len(b)
  BY <1>4
<1>7. t \in Seq(Frames) /\ Len(t) = k /\ \A i \in 1 .. k : t[i] = b[i]
  BY <1>4, <1>5, <1>6, Taken
<1>8. ASSUME NEW i \in 1 .. k PROVE t[i] = s[i]
  <2>1. i \in 1 .. Size[r] /\ s[i] = <<r, i>>
    BY <1>1
  <2>2. QED
    BY <1>4, <1>7, <2>1
<1>9. s = t
  BY <1>7, <1>8, SeqEqual
<1>10. QED
  BY <1>2, <1>5, <1>9

(* What a worker has is a beginning of its body, or all of it and its end.  *)
LEMMA GotIntact ==
  ASSUME Types, NEW r \in Requests, Received(r)
  PROVE  \E k \in 0 .. Size[r] :
           got[r] \in {SubSeq(BodyIn(r), 1, k), Append(SubSeq(BodyIn(r), 1, k), Terminator)}
<1>1. PICK g \in Seq(Frames) : g = got[r]
  BY DEF Types, TDown
<1>2. Len(g) \in Nat /\ Size[r] \in Nat
  BY Limits
<1>3. \A i \in 1 .. Len(g) :
        \/ i <= Size[r] /\ g[i] = <<r, i>>
        \/ i = Len(g) /\ i <= Size[r] + 1 /\ g[i] = Terminator
  BY <1>1 DEF Received
<1>4. CASE Len(g) > 0 /\ Len(g) <= Size[r] + 1 /\ g[Len(g)] = Terminator
  <2>1. PICK k \in 0 .. Size[r] : k = Len(g) - 1
    <3>1. Len(g) - 1 \in 0 .. Size[r]
      BY <1>2, <1>4
    <3>2. QED
      BY <3>1
  <2>2. k \in 0 .. Len(g)
    BY <1>2, <2>1
  <2>3. PICK s : s = SubSeq(g, 1, k)
    OBVIOUS
  <2>4. s \in Seq(Frames) /\ Len(s) = k /\ \A i \in 1 .. k : s[i] = g[i]
    BY <2>2, <2>3, Taken
  <2>5. \A i \in 1 .. k : s[i] = <<r, i>>
    <3>1. \A i \in 1 .. k : i \in 1 .. Len(g) /\ i # Len(g)
      BY <1>2, <2>1
    <3>2. QED
      BY <1>3, <2>4, <3>1
  <2>6. s = SubSeq(BodyIn(r), 1, k)
    BY <2>4, <2>5, BodyUpto
  <2>7. PICK t : t = Append(s, Terminator)
    OBVIOUS
  <2>8. Terminator \in Frames
    BY DEF Frames
  <2>9. t \in Seq(Frames) /\ Len(t) = Len(g) /\ t[Len(g)] = g[Len(g)] /\ \A i \in 1 .. k : t[i] = g[i]
    BY <1>2, <1>4, <2>1, <2>4, <2>7, <2>8
  <2>10. \A i \in 1 .. Len(g) : t[i] = g[i]
    <3>1. \A i \in 1 .. Len(g) : i \in 1 .. k \/ i = Len(g)
      BY <1>2, <2>1
    <3>2. QED
      BY <2>9, <3>1
  <2>11. t = g
    BY <2>9, <2>10, SeqEqual
  <2>12. QED
    BY <1>1, <2>6, <2>7, <2>11
<1>5. CASE \A i \in 1 .. Len(g) : i <= Size[r] /\ g[i] = <<r, i>>
  <2>1. PICK k \in 0 .. Size[r] : k = Len(g)
    BY <1>2, <1>5
  <2>2. g = SubSeq(BodyIn(r), 1, k)
    BY <1>5, <2>1, BodyUpto
  <2>3. QED
    BY <1>1, <2>2
<1>6. CASE Len(g) = 0
  BY <1>5, <1>6
<1>7. QED
  BY <1>2, <1>3, <1>4, <1>5, <1>6

(* Neither direction of a connection mixes two exchanges: the next head is  *)
(* read where the last request ended, a worker gets its own body, and the  *)
(* client gets the answers in order, each with an end of its own.          *)
THEOREM ExchangesKept == Spec => []ExchangesIntact
<1>1. ASSUME ConnInv PROVE RequestsIntact
  <2>1. Types /\ Halves /\ Position /\ \A r \in Requests : Underway(r) /\ (Claimed(r) \/ Received(r))
    BY <1>1 DEF ConnInv, Transfer
  <2>2. TypeOK
    BY <2>1, TypesOK
  <2>3. pc \in {"head", "body", "route"} => rd = "conn" /\ feed = "none"
    BY <2>1 DEF Halves
  <2>4. pc = "head" => From(<<cur + 1, 0>>, buf \o wire)
    BY <2>1 DEF Position
  <2>5. pc \in Dispatched /\ plan # "stream" => body = BodyIn(cur)
    BY <2>1 DEF Position
  <2>6. ASSUME NEW r \in Requests
        PROVE  \E k \in 0 .. Size[r] :
                 got[r] \in {SubSeq(BodyIn(r), 1, k), Append(SubSeq(BodyIn(r), 1, k), Terminator)}
    <3>1. Received(r)
      BY <2>1, ClaimedReceived
    <3>2. QED
      BY <2>1, <3>1, GotIntact
  <2>7. QED
    BY <2>2, <2>3, <2>4, <2>5, <2>6 DEF RequestsIntact
<1>2. ASSUME ConnInv PROVE ResponsesIntact
  <2>1. out \in Seq(Answers) /\ DOMAIN out = 1 .. Len(out)
    BY <1>2 DEF ConnInv, Types, TOut
  <2>2. Ordered(out)
        /\ \A i \in 1 .. Len(out) : out[i].part \in {"whole", "last"} => out[i].n = pieces[out[i].req]
    BY <1>2 DEF ConnInv, Told
  <2>3. \A o \in {out[i] : i \in DOMAIN out} : o.part \in {"whole", "last"} => o.n = pieces[o.req]
    BY <2>1, <2>2
  <2>4. QED
    BY <2>2, <2>3 DEF ResponsesIntact, Ordered, Final
<1>3. ConnInv => ExchangesIntact
  BY <1>1, <1>2 DEF ExchangesIntact
<1>4. QED
  BY <1>3, ConnHolds, PTL

=============================================================================
