----------------------------- MODULE FrontProofs -----------------------------
(***************************************************************************)
(* Proofs about one connection, from the head of a request to its answer.  *)
(***************************************************************************)
EXTENDS FrontEnd, FiniteSetTheorems, SequenceTheorems, WellFoundedInduction, TLAPS

(* A set of naturals that is not empty has a least element.                *)
LEMMA LeastNat ==
  ASSUME NEW T \in SUBSET Nat, T # {}
  PROVE  \E x \in T : \A y \in T : x <= y
<1> DEFINE R == OpToRel(<, Nat)
<1>1. IsWellFoundedOn(R, Nat)
  BY NatLessThanWellFounded
<1>2. \A x, y \in Nat : <<y, x>> \in R <=> y < x
  BY DEF OpToRel
<1> HIDE DEF R
<1>3. PICK x \in T : \A y \in T : ~(<<y, x>> \in R)
  BY <1>1, WFMin
<1>4. ASSUME NEW y \in T PROVE x <= y
  <2>1. ~(y < x)
    BY <1>2, <1>3
  <2>2. QED
    BY <2>1
<1>5. QED
  BY <1>4

(* The turns of the walk are a function that takes each from the one       *)
(* before: no first turn is without one.                                   *)
LEMMA TurnsInOrder ==
  ASSUME NEW routes, NEW meta, NEW start
  PROVE  /\ Turns(routes, meta, start)[0] = start
         /\ \A n \in 1 .. Hops :
              Turns(routes, meta, start)[n] = Hop(routes, meta, Turns(routes, meta, start)[n - 1])
<1> DEFINE Upto(m, f) == f = [n \in 0 .. m |-> IF n = 0 THEN start ELSE Hop(routes, meta, f[n - 1])]
           Bad == {m \in Nat : ~ \E f : Upto(m, f)}
<1>1. Upto(0, [n \in 0 .. 0 |-> start])
  OBVIOUS
<1>2. ASSUME NEW m \in Nat, m # 0, NEW f, Upto(m - 1, f)
      PROVE  \E g : Upto(m, g)
  <2> DEFINE g == [n \in 0 .. m |-> IF n = m THEN Hop(routes, meta, f[m - 1]) ELSE f[n]]
  <2>1. ASSUME NEW n \in 0 .. m
        PROVE  g[n] = IF n = 0 THEN start ELSE Hop(routes, meta, g[n - 1])
    <3>1. CASE n = m
      BY <1>2, <3>1
    <3>2. CASE n # m
      <4>1. n \in 0 .. m - 1 /\ g[n] = f[n] /\ (n # 0 => g[n - 1] = f[n - 1])
        BY <3>2
      <4>2. f[n] = IF n = 0 THEN start ELSE Hop(routes, meta, f[n - 1])
        BY <1>2, <4>1
      <4>3. QED
        BY <4>1, <4>2
    <3>3. QED
      BY <3>1, <3>2
  <2>2. Upto(m, g)
    BY <2>1
  <2>3. QED
    BY <2>2
<1> HIDE DEF Upto
<1>3. Bad = {}
  <2>1. SUFFICES ASSUME Bad # {}
                 PROVE  FALSE
    OBVIOUS
  <2>2. PICK m \in Bad : \A k \in Bad : m <= k
    BY <2>1, LeastNat
  <2>3. m # 0
    BY <1>1
  <2>4. m - 1 \in Nat /\ m - 1 \notin Bad
    BY <2>2, <2>3
  <2>5. QED
    BY <1>2, <2>2, <2>3, <2>4
<1>4. PICK h \in Nat : h = Hops
  BY HopsAssumption
<1>5. \E f : Upto(h, f)
  <2>1. h \notin Bad
    BY <1>3
  <2>2. QED
    BY <2>1
<1>6. Turns(routes, meta, start) = CHOOSE f : Upto(h, f)
  BY <1>4 DEF Turns, Upto
<1>7. Upto(h, Turns(routes, meta, start))
  BY <1>5, <1>6
<1>8. PICK turn : turn = Turns(routes, meta, start)
  OBVIOUS
<1>9. Upto(h, turn)
  BY <1>7, <1>8
<1>10. turn[0] = start /\ \A n \in 1 .. h : turn[n] = Hop(routes, meta, turn[n - 1])
  BY <1>9 DEF Upto
<1>11. QED
  BY <1>4, <1>8, <1>10

-----------------------------------------------------------------------------
(* Lists and what may be absent.                                           *)

(* Min and Max choose the ends of a set of naturals.                       *)
LEMMA MinIsLeast ==
  ASSUME NEW I, I \subseteq Nat, I # {}
  PROVE  Min(I) \in I /\ \A j \in I : Min(I) <= j
<1>1. PICK i \in I : \A j \in I : i <= j
  BY LeastNat
<1>2. QED
  BY <1>1 DEF Min

(* A bound that is reached is the maximum.                                 *)
LEMMA MaxIsBound ==
  ASSUME NEW I, I \subseteq Int, NEW m \in I, \A j \in I : j <= m
  PROVE  Max(I) = m
<1>1. \A j \in I : m >= j
  OBVIOUS
<1>2. Max(I) \in I /\ \A j \in I : Max(I) >= j
  BY <1>1 DEF Max
<1>3. PICK x : x = Max(I)
  OBVIOUS
<1>4. x \in Int /\ x >= m /\ x <= m
  BY <1>2, <1>3
<1>5. QED
  BY <1>3, <1>4

(* A list has a length, and one item at each place up to it.               *)
LEMMA ListProperties ==
  ASSUME NEW s, IsList(s)
  PROVE  /\ Len(s) \in Nat /\ DOMAIN s = 1 .. Len(s)
         /\ s # <<>> => 1 \in DOMAIN s
BY LenProperties, EmptySeq DEF IsList

(* A sequence over any set is a list.                                      *)
LEMMA SeqIsList ==
  ASSUME NEW S, NEW s \in Seq(S)
  PROVE  IsList(s)
<1>1. s \in [1 .. Len(s) -> S] /\ Len(s) \in Nat
  BY LenProperties
<1>2. s \in [1 .. Len(s) -> ToSet(s)]
  BY <1>1 DEF ToSet
<1>3. QED
  BY <1>1, <1>2, SeqDef DEF IsList

(* A list grows by one item at its end.                                    *)
LEMMA ListAppend ==
  ASSUME NEW s, IsList(s), NEW e
  PROVE  /\ IsList(Append(s, e))
         /\ Len(Append(s, e)) = Len(s) + 1
         /\ \A i \in 1 .. Len(s) : Append(s, e)[i] = s[i]
         /\ Append(s, e)[Len(s) + 1] = e
<1> DEFINE S == ToSet(s) \cup {e}
<1>1. s \in Seq(S)
  BY SeqMonotonic DEF IsList
<1>2. PICK t : t = Append(s, e)
  OBVIOUS
<1>3. /\ t \in Seq(S) /\ Len(t) = Len(s) + 1
      /\ \A i \in 1 .. Len(s) : t[i] = s[i]
      /\ t[Len(s) + 1] = e
  BY <1>1, <1>2, AppendProperties
<1>4. IsList(t)
  BY <1>3, SeqIsList
<1>5. QED
  BY <1>2, <1>3, <1>4

(* Two lists make one.                                                     *)
LEMMA ListConcat ==
  ASSUME NEW s, IsList(s), NEW t, IsList(t)
  PROVE  IsList(s \o t)
<1>1. PICK S : S = ToSet(s) \cup ToSet(t)
  OBVIOUS
<1>2. s \in Seq(S) /\ t \in Seq(S)
  BY <1>1, SeqMonotonic DEF IsList
<1>3. s \o t \in Seq(S)
  BY <1>2, ConcatProperties
<1>4. QED
  BY <1>3, SeqIsList

(* What may be absent is nothing or one thing.                             *)
LEMMA OptionalCardinality ==
  ASSUME NEW s, Optional(s)
  PROVE  \/ s = {} /\ Cardinality(s) = 0
         \/ s # {} /\ Cardinality(s) = 1
<1>1. CASE s = {}
  BY <1>1, FS_EmptySet
<1>2. CASE s # {}
  <2>1. PICK x \in s : s = {x}
    BY <1>2 DEF Optional
  <2>2. QED
    BY <1>2, <2>1, FS_Singleton
<1>3. QED
  BY <1>1, <1>2

-----------------------------------------------------------------------------
(* The configuration the process starts with.                              *)

(* A place is a route, a step of it, and an action or fallback of the step. *)
LEMMA PlacesMeaning ==
  ASSUME NEW routes, NEW p
  PROVE  p \in Places(routes) <=>
           \E r \in DOMAIN routes : \E i \in DOMAIN routes[r] :
             \E k \in DOMAIN routes[r][i].action : p = <<r, i, k>>
BY DEF Places

(* The routes as the process holds them: every one that is named exists,   *)
(* every application has a pool, and no share gives its own sources to an  *)
(* application.                                                            *)
SoundAction(routes, pools, actions, k) ==
  /\ actions[k].application \subseteq pools /\ Inline \notin actions[k].application
  /\ actions[k].route \subseteq DOMAIN routes
  /\ actions[k].share # {} => actions[k].application = {}
  /\ Optional(actions[k].share)
  /\ \A s \in actions[k].share : s.serve_sources # {} =>
       \A l \in DOMAIN actions : l > k => actions[l].application = {}

SoundRoutes(routes, pools) ==
  \A r \in DOMAIN routes :
    /\ Len(routes[r]) \in Nat /\ DOMAIN routes[r] = 1 .. Len(routes[r])
    /\ \A i \in DOMAIN routes[r] :
         LET actions == routes[r][i].action
         IN  /\ Len(actions) \in Nat \ {0} /\ DOMAIN actions = 1 .. Len(actions)
             /\ IsList(routes[r][i].response_headers)
             /\ \A k \in DOMAIN actions : SoundAction(routes, pools, actions, k)

(* One action of a valid configuration, once extracted, is sound.          *)
LEMMA ActionSound ==
  ASSUME NEW c, IsConfig(c), Valid(c), NEW routes, routes = Extracted(c.routes),
         NEW r \in DOMAIN c.routes, NEW i \in DOMAIN c.routes[r],
         NEW k \in DOMAIN c.routes[r][i].action
  PROVE  SoundAction(routes, AllApps(c), routes[r][i].action, k)
<1>1. PICK olds : olds = c.routes[r][i].action
  OBVIOUS
<1>2. PICK news : news = routes[r][i].action
  OBVIOUS
<1>3. PICK p : p = <<r, i, k>>
  OBVIOUS
<1>4. IsStep(c.routes[r][i])
  BY DEF IsConfig
<1>5. DOMAIN olds = 1 .. Len(olds) /\ Len(olds) \in Nat
  BY <1>1, <1>4, ListProperties DEF IsStep
<1>6. p \in Places(c.routes)
  BY <1>3, PlacesMeaning
<1>7. ActionAt(c.routes, p) = olds[k]
  BY <1>1, <1>3 DEF ActionAt
<1>8. ValidAction(c, p)
  BY <1>6 DEF Valid
<1>9. /\ k \in DOMAIN olds /\ DOMAIN news = DOMAIN olds /\ DOMAIN routes = DOMAIN c.routes
      /\ \A l \in DOMAIN olds :
           /\ news[l].application = IF olds[l].application = {Inline} THEN {<<r, i, l>>}
                                                                      ELSE olds[l].application
           /\ news[l].route = olds[l].route /\ news[l].share = olds[l].share
  <2>1. PICK step : step = c.routes[r][i]
    OBVIOUS
  <2>2. routes[r][i] = [step EXCEPT !.action = [l \in DOMAIN @ |->
          IF @[l].application = {Inline} THEN [@[l] EXCEPT !.application = {<<r, i, l>>}] ELSE @[l]]]
    BY <2>1 DEF Extracted
  <2>3. "action" \in DOMAIN step /\ olds = step.action
    BY <1>1, <1>4, <2>1 DEF IsStep
  <2>4. news = [l \in DOMAIN olds |->
          IF olds[l].application = {Inline}
          THEN [olds[l] EXCEPT !.application = {<<r, i, l>>}] ELSE olds[l]]
    BY <1>2, <2>2, <2>3
  <2>5. ASSUME NEW l \in DOMAIN olds
        PROVE  /\ news[l].application = IF olds[l].application = {Inline} THEN {<<r, i, l>>}
                                                                         ELSE olds[l].application
               /\ news[l].route = olds[l].route /\ news[l].share = olds[l].share
    <3>1. PICK old : old = olds[l]
      OBVIOUS
    <3>2. DOMAIN old = {"application", "route", "share", "return", "location"}
      BY <1>4, <2>1, <2>3, <3>1 DEF IsStep, IsAction
    <3>3. news[l] = IF old.application = {Inline} THEN [old EXCEPT !.application = {<<r, i, l>>}]
                                                  ELSE old
      BY <2>4, <3>1
    <3>4. QED
      BY <3>1, <3>2, <3>3
  <2>6. DOMAIN routes = DOMAIN c.routes
    BY DEF Extracted
  <2>7. QED
    BY <1>1, <2>4, <2>5, <2>6
<1>10. DOMAIN news = DOMAIN olds /\ DOMAIN routes = DOMAIN c.routes
  BY <1>9
<1>11. \A l \in DOMAIN olds : /\ Optional(olds[l].application) /\ Optional(olds[l].share)
                             /\ Optional(olds[l].route) /\ Optional(olds[l].return)
  BY <1>1, <1>4 DEF IsStep, IsAction
<1>12. PICK a : a = olds[k]
  OBVIOUS
<1>13. /\ Cardinality(a.application) + Cardinality(a.route)
            + Cardinality(a.share) + Cardinality(a.return) = 1
       /\ a.application \subseteq AllApps(c) \cup {Inline}
       /\ a.route \subseteq DOMAIN c.routes
       /\ \A s \in a.share : s.serve_sources # {} => \A l \in k + 1 .. Len(olds) : olds[l].application = {}
  <2>1. p[1] = r /\ p[2] = i /\ p[3] = k
    BY <1>3
  <2>2. c.routes[p[1]][p[2]].action = olds
    BY <1>1, <2>1
  <2>3. QED
    BY <1>8, <1>12, <2>1, <2>2 DEF ValidAction
<1>14. /\ news[k].application \subseteq AllApps(c)
       /\ Inline \notin news[k].application
  <2>1. CASE a.application = {Inline}
    <3>1. news[k].application = {p}
      BY <1>3, <1>9, <1>12, <2>1
    <3>2. p \in InlinePlaces(c.routes)
      BY <1>6, <1>7, <1>12, <2>1 DEF InlinePlaces
    <3>3. p # Inline
      BY <1>3 DEF Inline
    <3>4. QED
      BY <3>1, <3>2, <3>3 DEF AllApps
  <2>2. CASE a.application # {Inline}
    <3>1. news[k].application = a.application
      BY <1>9, <1>12, <2>2
    <3>2. Inline \notin a.application
      BY <1>9, <1>11, <1>12, <2>2 DEF Optional
    <3>3. QED
      BY <1>13, <3>1, <3>2
  <2>3. QED
    BY <2>1, <2>2
<1>15. a.share # {} => news[k].application = {}
  <2>1. SUFFICES ASSUME a.share # {}
                 PROVE  a.application = {}
    BY <1>9, <1>12
  <2>2. PICK n1, n2, n3, n4 : /\ n1 = Cardinality(a.application) /\ n2 = Cardinality(a.route)
                              /\ n3 = Cardinality(a.share) /\ n4 = Cardinality(a.return)
    OBVIOUS
  <2>3. n1 \in {0, 1} /\ n2 \in {0, 1} /\ n3 = 1 /\ n4 \in {0, 1} /\ (n1 = 0 => a.application = {})
    BY <1>9, <1>11, <1>12, <2>1, <2>2, OptionalCardinality
  <2>4. n1 + n2 + n3 + n4 = 1
    BY <1>13, <2>2
  <2>5. QED
    BY <2>3, <2>4
<1>16. \A s \in a.share : s.serve_sources # {} =>
         \A l \in DOMAIN news : l > k => news[l].application = {}
  <2>1. ASSUME NEW l \in DOMAIN news, l > k, olds[l].application = {}
        PROVE  news[l].application = {}
    BY <1>9, <1>10, <2>1
  <2>2. ASSUME NEW l \in DOMAIN news, l > k
        PROVE  l \in k + 1 .. Len(olds)
    BY <1>5, <1>9, <1>10, <2>2
  <2>3. QED
    BY <1>13, <2>1, <2>2
<1>17. news[k].route = a.route /\ news[k].share = a.share
  BY <1>9, <1>12
<1>18. QED
  BY <1>2, <1>9, <1>10, <1>11, <1>12, <1>13, <1>14, <1>15, <1>16, <1>17 DEF SoundAction

(* What validation admits is sound once it is extracted.                   *)
LEMMA ValidIsSound ==
  ASSUME NEW c, IsConfig(c), Valid(c)
  PROVE  /\ SoundRoutes(Extracted(c.routes), AllApps(c))
         /\ InlinePlaces(Extracted(c.routes)) = {}
<1>1. PICK routes : routes = Extracted(c.routes)
  OBVIOUS
<1>2. ASSUME NEW r \in DOMAIN c.routes
      PROVE  /\ Len(routes[r]) \in Nat /\ DOMAIN routes[r] = 1 .. Len(routes[r])
             /\ DOMAIN routes[r] = DOMAIN c.routes[r]
  <2>1. IsList(c.routes[r])
    BY DEF IsConfig
  <2>2. PICK n \in Nat : DOMAIN c.routes[r] = 1 .. n
    BY <2>1, ListProperties
  <2>3. routes[r] = [i \in 1 .. n |-> routes[r][i]]
    BY <1>1, <2>2 DEF Extracted
  <2>4. Len(routes[r]) = n
    BY <2>3
  <2>5. QED
    BY <2>2, <2>3, <2>4
<1>3. ASSUME NEW r \in DOMAIN c.routes, NEW i \in DOMAIN c.routes[r]
      PROVE  LET actions == routes[r][i].action
             IN  /\ Len(actions) \in Nat \ {0} /\ DOMAIN actions = 1 .. Len(actions)
                 /\ IsList(routes[r][i].response_headers)
                 /\ \A k \in DOMAIN actions : SoundAction(routes, AllApps(c), actions, k)
  <2>1. IsStep(c.routes[r][i])
    BY DEF IsConfig
  <2>2. PICK step : step = c.routes[r][i]
    OBVIOUS
  <2>3. PICK n \in Nat : n # 0 /\ DOMAIN step.action = 1 .. n
    BY <2>1, <2>2, ListProperties DEF IsStep
  <2>4. PICK news : news = routes[r][i].action
    OBVIOUS
  <2>5. /\ routes[r][i].response_headers = step.response_headers
        /\ news = [k \in DOMAIN step.action |-> news[k]]
    <3>1. routes[r][i] = [step EXCEPT !.action = [k \in DOMAIN @ |->
            IF @[k].application = {Inline} THEN [@[k] EXCEPT !.application = {<<r, i, k>>}] ELSE @[k]]]
      BY <1>1, <2>2 DEF Extracted
    <3>2. "action" \in DOMAIN step /\ "response_headers" \in DOMAIN step
      BY <2>1, <2>2 DEF IsStep
    <3>3. QED
      BY <2>4, <3>1, <3>2
  <2>6. Len(news) = n /\ DOMAIN news = 1 .. n
    BY <2>3, <2>5
  <2>7. IsList(step.response_headers)
    BY <2>1, <2>2 DEF IsStep
  <2>8. \A k \in DOMAIN step.action : SoundAction(routes, AllApps(c), news, k)
    BY <1>1, <2>2, <2>4, ActionSound
  <2>9. QED
    BY <2>3, <2>4, <2>5, <2>6, <2>7, <2>8
<1>4. DOMAIN routes = DOMAIN c.routes
  BY <1>1 DEF Extracted
<1>5. SoundRoutes(routes, AllApps(c))
  BY <1>2, <1>3, <1>4 DEF SoundRoutes
<1>6. InlinePlaces(routes) = {}
  <2>1. ASSUME NEW p \in Places(routes)
        PROVE  Inline \notin ActionAt(routes, p).application
    <3>1. PICK r \in DOMAIN routes : \E i \in DOMAIN routes[r] :
            \E k \in DOMAIN routes[r][i].action : p = <<r, i, k>>
      BY PlacesMeaning
    <3>2. PICK i \in DOMAIN routes[r] : \E k \in DOMAIN routes[r][i].action : p = <<r, i, k>>
      BY <3>1
    <3>3. PICK k \in DOMAIN routes[r][i].action : p = <<r, i, k>>
      BY <3>2
    <3>4. SoundAction(routes, AllApps(c), routes[r][i].action, k)
      BY <1>5 DEF SoundRoutes
    <3>5. QED
      BY <3>3, <3>4 DEF ActionAt, SoundAction
  <2>2. QED
    BY <2>1 DEF InlinePlaces
<1>7. QED
  BY <1>1, <1>5, <1>6

-----------------------------------------------------------------------------
(* The walk over the routes.                                               *)

(* FirstMatch is the place of a step that matches, and none before it      *)
(* does; 0 says that no step does.                                         *)
LEMMA FirstMatchMeaning ==
  ASSUME NEW steps, Len(steps) \in Nat, DOMAIN steps = 1 .. Len(steps),
         NEW meta, NEW path, NEW query, NEW at, at = FirstMatch(steps, meta, path, query)
  PROVE  /\ at = 0 \/ at \in DOMAIN steps
         /\ at = 0 => \A i \in DOMAIN steps : ~ StepMatches(steps[i], meta, path, query)
         /\ at # 0 => /\ StepMatches(steps[at], meta, path, query)
                      /\ \A i \in 1 .. at - 1 : ~ StepMatches(steps[i], meta, path, query)
<1> DEFINE I == {i \in 1 .. Len(steps) : StepMatches(steps[i], meta, path, query)}
<1>1. at = IF I # {} THEN Min(I) ELSE 0
  BY DEF FirstMatch, SelectInSeq
<1>2. CASE I = {}
  BY <1>1, <1>2
<1>3. CASE I # {}
  <2>1. I \subseteq Nat
    OBVIOUS
  <2> HIDE DEF I
  <2>2. at \in I /\ \A j \in I : at <= j
    BY <1>1, <1>3, <2>1, MinIsLeast
  <2> USE DEF I
  <2>3. \A i \in 1 .. at - 1 : i \notin I /\ i \in 1 .. Len(steps)
    BY <2>2
  <2>4. QED
    BY <2>2, <2>3
<1>4. QED
  BY <1>2, <1>3

\* A step of the trail is the first of its route that matches.
TakesFirst(routes, meta, here) ==
  /\ here.route \in DOMAIN routes /\ here.at \in DOMAIN routes[here.route]
  /\ StepMatches(routes[here.route][here.at], meta, here.path, here.query)
  /\ \A i \in 1 .. here.at - 1 :
       ~ StepMatches(routes[here.route][i], meta, here.path, here.query)

\* The next one is of the route it names, for the target it leaves behind.
Follows(routes, meta, here, next) ==
  LET step == routes[here.route][here.at]
  IN  /\ next.route \in step.action[1].route
      /\ <<next.path, next.query>> = Rewritten(step, meta, here.path, here.query)

NothingFits(routes, meta, w) ==
  \A i \in DOMAIN routes[w.route] : ~ StepMatches(routes[w.route][i], meta, w.path, w.query)

Decides(routes, w) ==
  LET last == w.trail[Len(w.trail)]
  IN  w.trail # <<>> /\ w.route = last.route /\ w.decision = routes[last.route][last.at].action

\* What `decide` has done after n turns.
Walked(routes, meta, w, n) ==
  /\ w = [trail |-> w.trail, route |-> w.route, path |-> w.path, query |-> w.query,
          ops |-> w.ops, over |-> w.over, decision |-> w.decision]
  /\ w.route \in DOMAIN routes /\ w.over \in BOOLEAN /\ IsList(w.trail)
  /\ \A k \in 1 .. Len(w.trail) : TakesFirst(routes, meta, w.trail[k])
  /\ \A k \in 1 .. Len(w.trail) - 1 : Follows(routes, meta, w.trail[k], w.trail[k + 1])
  /\ w.decision # NotFound => w.over /\ Decides(routes, w)
  /\ w.decision = NotFound =>
       /\ w.trail # <<>> => Follows(routes, meta, w.trail[Len(w.trail)], w)
       /\ IF w.over THEN NothingFits(routes, meta, w) ELSE Len(w.trail) = n

(* The walk starts in the route of the listener with nothing taken.        *)
LEMMA WalkStarts ==
  ASSUME NEW routes, NEW meta, NEW route \in DOMAIN routes, NEW path, NEW query
  PROVE  Walked(routes, meta,
                [trail |-> <<>>, route |-> route, path |-> path, query |-> query, ops |-> <<>>,
                 over |-> FALSE, decision |-> NotFound], 0)
<1>1. PICK w : w = [trail |-> <<>>, route |-> route, path |-> path, query |-> query, ops |-> <<>>,
                    over |-> FALSE, decision |-> NotFound]
  OBVIOUS
<1>2. IsList(<<>>) /\ Len(<<>>) = 0
  BY EmptySeq DEF IsList
<1>3. Walked(routes, meta, w, 0)
  BY <1>1, <1>2 DEF Walked
<1>4. QED
  BY <1>1, <1>3

(* One turn keeps it so.                                                   *)
LEMMA HopKeeps ==
  ASSUME NEW routes, NEW pools, SoundRoutes(routes, pools), NEW meta, NEW n \in Nat,
         NEW w, Walked(routes, meta, w, n), NEW v, v = Hop(routes, meta, w)
  PROVE  Walked(routes, meta, v, n + 1)
<1>1. w.route \in DOMAIN routes /\ w.over \in BOOLEAN /\ IsList(w.trail)
  BY DEF Walked
<1>2. PICK steps : steps = routes[w.route]
  OBVIOUS
<1>3. Len(steps) \in Nat /\ DOMAIN steps = 1 .. Len(steps)
  BY <1>1, <1>2 DEF SoundRoutes
<1>4. PICK at : at = FirstMatch(steps, meta, w.path, w.query)
  OBVIOUS
<1>5. /\ at = 0 \/ at \in DOMAIN steps
      /\ at = 0 => \A i \in DOMAIN steps : ~ StepMatches(steps[i], meta, w.path, w.query)
      /\ at # 0 => /\ StepMatches(steps[at], meta, w.path, w.query)
                   /\ \A i \in 1 .. at - 1 : ~ StepMatches(steps[i], meta, w.path, w.query)
  BY <1>3, <1>4, FirstMatchMeaning
<1>6. CASE w.over
  <2>1. v = [w EXCEPT !.over = TRUE]
    BY <1>6 DEF Hop
  <2>2. v = w
    BY <1>6, <2>1 DEF Walked
  <2>3. QED
    BY <1>6, <2>2 DEF Walked
<1>7. CASE ~ w.over /\ at = 0
  <2>1. v = [w EXCEPT !.over = TRUE]
    BY <1>2, <1>4, <1>7 DEF Hop
  <2>2. /\ v = [trail |-> w.trail, route |-> w.route, path |-> w.path, query |-> w.query,
                ops |-> w.ops, over |-> TRUE, decision |-> w.decision]
        /\ w.decision = NotFound
    BY <1>7, <2>1 DEF Walked
  <2>3. NothingFits(routes, meta, v)
    BY <1>2, <1>5, <1>7, <2>2 DEF NothingFits
  <2>4. w.trail # <<>> => Follows(routes, meta, w.trail[Len(w.trail)], v)
    <3>1. PICK last : last = w.trail[Len(w.trail)]
      OBVIOUS
    <3>2. w.trail # <<>> => Follows(routes, meta, last, w)
      BY <2>2, <3>1 DEF Walked
    <3>3. v.route = w.route /\ v.path = w.path /\ v.query = w.query
      BY <2>2
    <3>4. QED
      BY <3>1, <3>2, <3>3 DEF Follows
  <2>5. QED
    BY <2>2, <2>3, <2>4 DEF Walked
<1>8. CASE ~ w.over /\ at # 0
  <2>1. PICK step : step = steps[at]
    OBVIOUS
  <2>2. PICK act : act = step.action[1]
    OBVIOUS
  <2>3. PICK here : here = [route |-> w.route, at |-> at, path |-> w.path, query |-> w.query]
    OBVIOUS
  <2>4. PICK left : left = Rewritten(step, meta, w.path, w.query)
    OBVIOUS
  <2>5. PICK next : next = IF act.route = {} THEN w.route ELSE CHOOSE r \in act.route : TRUE
    OBVIOUS
  <2>6. v = [trail |-> Append(w.trail, here), route |-> next, path |-> left[1], query |-> left[2],
             ops |-> w.ops \o step.response_headers, over |-> act.route = {},
             decision |-> IF act.route = {} THEN step.action ELSE NotFound]
    BY <1>1, <1>2, <1>4, <1>8, <2>1, <2>2, <2>3, <2>4, <2>5 DEF Hop
  <2>7. next \in DOMAIN routes /\ (act.route # {} => next \in act.route)
    BY <1>1, <1>2, <1>5, <1>8, <2>1, <2>2, <2>5 DEF SoundRoutes, SoundAction
  <2>8. step.action # NotFound
    BY <1>1, <1>2, <1>5, <1>8, <2>1 DEF SoundRoutes, NotFound
  <2>9. PICK t : t = Append(w.trail, here)
    OBVIOUS
  <2>10. PICK len \in Nat : len = Len(w.trail)
    BY <1>1, ListProperties
  <2>11. /\ IsList(t) /\ Len(t) = len + 1 /\ t[len + 1] = here
         /\ \A k \in 1 .. len : t[k] = w.trail[k]
    BY <1>1, <2>9, <2>10, ListAppend
  <2>12. TakesFirst(routes, meta, here)
    BY <1>1, <1>2, <1>5, <1>8, <2>3 DEF TakesFirst
  <2>13. \A k \in 1 .. len + 1 : TakesFirst(routes, meta, t[k])
    <3>1. \A k \in 1 .. len : TakesFirst(routes, meta, t[k])
      BY <2>10, <2>11 DEF Walked
    <3>2. QED
      BY <2>10, <2>11, <2>12, <3>1
  <2>14. \A k \in 1 .. len : Follows(routes, meta, t[k], t[k + 1])
    <3>1. \A k \in 1 .. len - 1 : Follows(routes, meta, t[k], t[k + 1])
      BY <2>10, <2>11 DEF Walked
    <3>2. len # 0 => Follows(routes, meta, t[len], here)
      <4>1. SUFFICES ASSUME len # 0
                     PROVE  Follows(routes, meta, t[len], here)
        OBVIOUS
      <4>2. PICK last : last = w.trail[len]
        OBVIOUS
      <4>3. w.trail # <<>> /\ w.decision = NotFound
        BY <1>8, <2>10, <4>1, EmptySeq DEF Walked
      <4>4. Follows(routes, meta, last, w)
        BY <2>10, <4>2, <4>3 DEF Walked
      <4>5. here.route = w.route /\ here.path = w.path /\ here.query = w.query
        BY <2>3
      <4>6. t[len] = last
        BY <2>10, <2>11, <4>1, <4>2
      <4>7. Follows(routes, meta, last, here)
        BY <4>4, <4>5 DEF Follows
      <4>8. QED
        BY <4>6, <4>7
    <3>3. QED
      BY <2>10, <2>11, <3>1, <3>2
  <2>15. CASE act.route = {}
    <3>1. v = [trail |-> t, route |-> w.route, path |-> left[1], query |-> left[2],
               ops |-> w.ops \o step.response_headers, over |-> TRUE, decision |-> step.action]
      BY <2>5, <2>6, <2>9, <2>15
    <3>2. v.decision = step.action /\ v.over = TRUE /\ v.route = w.route /\ v.trail = t
      BY <3>1
    <3>3. Decides(routes, v)
      BY <1>2, <2>1, <2>3, <2>10, <2>11, <3>2 DEF Decides
    <3>4. QED
      BY <1>1, <2>8, <2>11, <2>13, <2>14, <3>1, <3>2, <3>3 DEF Walked
  <2>16. CASE act.route # {}
    <3>1. v = [trail |-> t, route |-> next, path |-> left[1], query |-> left[2],
               ops |-> w.ops \o step.response_headers, over |-> FALSE, decision |-> NotFound]
      BY <2>6, <2>9, <2>16
    <3>2. /\ v.decision = NotFound /\ v.over = FALSE /\ v.route = next /\ v.trail = t
          /\ v.path = left[1] /\ v.query = left[2]
      BY <3>1
    <3>3. Follows(routes, meta, here, v)
      <4>1. here.route = w.route /\ here.at = at /\ here.path = w.path /\ here.query = w.query
        BY <2>3
      <4>2. routes[here.route][here.at] = step
        BY <1>2, <2>1, <4>1
      <4>3. <<v.path, v.query>> = left
        BY <2>4, <3>2 DEF Rewritten
      <4>4. QED
        BY <2>2, <2>4, <2>7, <2>16, <3>2, <4>1, <4>2, <4>3 DEF Follows
    <3>4. len = n
      BY <1>8, <2>10 DEF Walked
    <3>5. QED
      BY <1>1, <2>7, <2>11, <2>13, <2>14, <3>1, <3>2, <3>3, <3>4 DEF Walked
  <2>17. QED
    BY <2>15, <2>16
<1>9. QED
  BY <1>1, <1>6, <1>7, <1>8

(* What `decide` returns is walked to the end, for any number of hops.     *)
LEMMA DecideWalks ==
  ASSUME NEW routes, NEW pools, SoundRoutes(routes, pools), NEW meta,
         NEW route \in DOMAIN routes, NEW path, NEW query
  PROVE  Walked(routes, meta, decide(routes, route, meta, path, query), Hops)
<1>1. PICK start : start = [trail |-> <<>>, route |-> route, path |-> path, query |-> query,
                            ops |-> <<>>, over |-> FALSE, decision |-> NotFound]
  OBVIOUS
<1>2. Walked(routes, meta, start, 0)
  BY <1>1, WalkStarts
<1>3. PICK turn : turn = Turns(routes, meta, start)
  OBVIOUS
<1>4. turn[0] = start /\ \A n \in 1 .. Hops : turn[n] = Hop(routes, meta, turn[n - 1])
  BY <1>3, TurnsInOrder
<1> DEFINE Bad == {n \in 0 .. Hops : ~ Walked(routes, meta, turn[n], n)}
<1>5. Bad = {}
  <2>1. SUFFICES ASSUME Bad # {}
                 PROVE  FALSE
    OBVIOUS
  <2>2. Bad \subseteq Nat
    BY HopsAssumption
  <2>3. PICK n \in Bad : \A k \in Bad : n <= k
    BY <2>1, <2>2, LeastNat
  <2>4. n # 0 /\ n \in 1 .. Hops
    BY <1>2, <1>4, HopsAssumption
  <2>5. PICK m \in Nat : m = n - 1
    BY <2>4
  <2>6. m \in 0 .. Hops /\ m \notin Bad /\ n = m + 1
    BY <2>3, <2>4, <2>5, HopsAssumption
  <2>7. PICK w : w = turn[m]
    OBVIOUS
  <2>8. PICK v : v = turn[n]
    OBVIOUS
  <2>9. Walked(routes, meta, w, m) /\ v = Hop(routes, meta, w)
    BY <1>4, <2>4, <2>5, <2>6, <2>7, <2>8
  <2>10. Walked(routes, meta, v, m + 1)
    BY <2>9, HopKeeps
  <2>11. QED
    BY <2>3, <2>6, <2>8, <2>10
<1>6. Walked(routes, meta, turn[Hops], Hops)
  BY <1>5, HopsAssumption
<1>7. QED
  BY <1>1, <1>3, <1>6 DEF decide

-----------------------------------------------------------------------------
(* The request: from its head to who answers it.                           *)

Up == phase \notin {"boot", "refused"}

ConfSound ==
  /\ phase = "boot" => conf \in Configs
  /\ Up => /\ ~ conf.listener.status => conf.listener.route # {}
           /\ conf.listener.route \subseteq DOMAIN conf.routes
           /\ SoundRoutes(conf.routes, conf.pools) /\ InlinePlaces(conf.routes) = {}

\* Phases in which the decision is carried out.
Acting == {"app", "open", "sending"}
\* Phases in which what came of the target is handed on.
Sunk == Acting \cup {"sent"}

HeadSound ==
  /\ phase \in Sunk \cup {"decided"} => Refusal(req.head) = 0
  /\ Routed \/ phase \in Acting => Walked(conf.routes, Meta(req.head), walk, Hops)
  /\ phase \in Acting => Clean /\ walk.decision # NotFound
  /\ phase = "sent" /\ ~ conf.listener.status => Clean
  /\ phase = "app" => req.app \subseteq conf.pools

\* What the steps preserve about the request.
RouteInv == ConfSound /\ HeadSound

(* It holds before anything is read.                                       *)
LEMMA RouteInit ==
  ASSUME Init
  PROVE  RouteInv
BY DEF Init, RouteInv, ConfSound, HeadSound, Up, Acting, Sunk, Routed

(* Steps that change nothing of it.                                        *)
LEMMA RouteSame ==
  ASSUME RouteInv, UNCHANGED httpVars
  PROVE  RouteInv'
BY DEF RouteInv, ConfSound, HeadSound, Up, Acting, Sunk, Routed, Clean, httpVars

(* Steps that end a connection, or leave a request behind.                 *)
LEMMA RouteQuiet ==
  ASSUME RouteInv, Up, UNCHANGED conf, phase' \in {"closed", "idle", "tunnel"}
  PROVE  RouteInv'
BY DEF RouteInv, ConfSound, HeadSound, Up, Acting, Sunk, Routed

(* Steps that end an answer.                                               *)
LEMMA RouteEnd ==
  ASSUME RouteInv, phase \in Acting \cup {"decided"}, conf.listener.status \/ Clean,
         UNCHANGED <<conf, req, walk>>, phase' = "sent"
  PROVE  RouteInv'
BY DEF RouteInv, ConfSound, HeadSound, Up, Acting, Sunk, Routed, Clean

(* The process starts with what validation admits.                         *)
LEMMA RouteBoot ==
  ASSUME RouteInv, Boot
  PROVE  RouteInv'
<1>1. conf \in Configs /\ Valid(conf) /\ phase' = "idle"
  BY DEF Boot, RouteInv, ConfSound
<1>2. IsConfig(conf)
  BY <1>1, ConfigAssumption
<1>3. PICK c : c = conf
  OBVIOUS
<1>4. SoundRoutes(Extracted(c.routes), AllApps(c)) /\ InlinePlaces(Extracted(c.routes)) = {}
  BY <1>1, <1>2, <1>3, ValidIsSound
<1>5. /\ conf'.listener = c.listener /\ conf'.routes = Extracted(c.routes)
      /\ conf'.pools = AllApps(c)
  BY <1>3 DEF Boot
<1>6. /\ ~ c.listener.status => c.listener.route # {}
      /\ c.listener.route \subseteq DOMAIN c.routes
  BY <1>1, <1>3 DEF Valid, ValidListener
<1>7. DOMAIN Extracted(c.routes) = DOMAIN c.routes
  BY DEF Extracted
<1>8. QED
  BY <1>1, <1>4, <1>5, <1>6, <1>7 DEF RouteInv, ConfSound, HeadSound, Up, Acting, Sunk, Routed

(* A head that is not refused is walked over the routes.                   *)
LEMMA RouteReceive ==
  ASSUME RouteInv, NEW q, NEW ask, ReceiveHead(q, ask)
  PROVE  RouteInv'
<1>1. Up /\ phase' = "decided" /\ conf' = conf /\ req'.head = q /\ Refusal(q) = 0
  BY DEF ReceiveHead, Up
<1>2. ~ conf.listener.status =>
        Walked(conf.routes, Meta(q), walk', Hops)
  <2>1. SUFFICES ASSUME ~ conf.listener.status
                 PROVE  Walked(conf.routes, Meta(q), walk', Hops)
    OBVIOUS
  <2>2. PICK route : route = CHOOSE r \in conf.listener.route : TRUE
    OBVIOUS
  <2>3. route \in DOMAIN conf.routes
    BY <1>1, <2>1, <2>2 DEF RouteInv, ConfSound
  <2>4. walk' = decide(conf.routes, route, Meta(q), Path(q), Query(q))
    BY <2>1, <2>2 DEF ReceiveHead
  <2>5. SoundRoutes(conf.routes, conf.pools)
    BY <1>1 DEF RouteInv, ConfSound
  <2>6. QED
    BY <2>3, <2>4, <2>5, DecideWalks
<1>3. ConfSound'
  BY <1>1 DEF RouteInv, ConfSound, Up
<1>4. HeadSound'
  BY <1>1, <1>2 DEF HeadSound, Acting, Sunk, Routed
<1>5. QED
  BY <1>3, <1>4 DEF RouteInv

(* The decision is an action of the routes; all its parts are sound.       *)
LEMMA DecisionSound ==
  ASSUME RouteInv, Up, Routed \/ phase \in Acting, walk.decision # NotFound
  PROVE  /\ Len(walk.decision) \in Nat \ {0} /\ DOMAIN walk.decision = 1 .. Len(walk.decision)
         /\ \A k \in DOMAIN walk.decision :
              SoundAction(conf.routes, conf.pools, walk.decision, k)
<1>1. Walked(conf.routes, Meta(req.head), walk, Hops)
  BY DEF RouteInv, HeadSound
<1>2. PICK routes : routes = conf.routes
  OBVIOUS
<1>3. PICK last : last = walk.trail[Len(walk.trail)]
  OBVIOUS
<1>4. walk.trail # <<>> /\ IsList(walk.trail) /\ walk.decision = routes[last.route][last.at].action
  BY <1>1, <1>2, <1>3 DEF Walked, Decides
<1>5. Len(walk.trail) \in 1 .. Len(walk.trail)
  BY <1>4, ListProperties, EmptySeq DEF IsList
<1>6. TakesFirst(routes, Meta(req.head), last)
  BY <1>1, <1>2, <1>3, <1>5 DEF Walked
<1>7. last.route \in DOMAIN routes /\ last.at \in DOMAIN routes[last.route]
  BY <1>6 DEF TakesFirst
<1>8. SoundRoutes(routes, conf.pools)
  BY <1>2 DEF RouteInv, ConfSound
<1>9. PICK actions : actions = routes[last.route][last.at].action
  OBVIOUS
<1>10. /\ Len(actions) \in Nat \ {0} /\ DOMAIN actions = 1 .. Len(actions)
       /\ \A k \in DOMAIN actions : SoundAction(routes, conf.pools, actions, k)
  BY <1>7, <1>8, <1>9 DEF SoundRoutes
<1>11. QED
  BY <1>2, <1>4, <1>9, <1>10

(* The decision is carried out by an application with a pool, or a file.   *)
LEMMA RouteAct ==
  ASSUME RouteInv, Routed, Clean, walk.decision # NotFound, phase' \in Acting,
         UNCHANGED <<conf, walk>>, req'.head = req.head,
         phase' = "app" => req'.app \subseteq conf.pools
  PROVE  RouteInv'
BY DEF RouteInv, ConfSound, HeadSound, Up, Acting, Sunk, Routed, Clean

(* An application is started by the decision, or by its fallback.          *)
LEMMA RouteToApp ==
  ASSUME RouteInv, Routed, Clean, walk.decision # NotFound, NEW app, ToApp(app),
         NEW k \in DOMAIN walk.decision, app \in walk.decision[k].application
  PROVE  RouteInv'
<1>1. Up
  BY DEF Routed, Up
<1>2. SoundAction(conf.routes, conf.pools, walk.decision, k)
  BY <1>1, DecisionSound
<1>3. app \in conf.pools
  BY <1>2 DEF SoundAction
<1>4. /\ UNCHANGED <<conf, walk>> /\ phase' = "app"
      /\ req'.head = req.head /\ req'.app = {app}
  BY DEF ToApp
<1>5. QED
  BY <1>3, <1>4, RouteAct DEF Acting

(* A file is opened, or an application takes over, by the decision; the    *)
(* rest leaves the request alone or ends it.                               *)
LEMMA RouteNext ==
  ASSUME RouteInv, [Next]_vars
  PROVE  RouteInv'
<1>1. CASE UNCHANGED vars
  BY <1>1, RouteSame DEF vars
<1>2. CASE Boot
  BY <1>2, RouteBoot
<1>3. CASE Reject
  BY <1>3 DEF Reject, RouteInv, ConfSound, HeadSound, Up, Acting, Sunk, Routed
<1>4. CASE Connect
  BY <1>4, RouteQuiet DEF Connect, Up
<1>5. CASE Leave
  BY <1>5, RouteQuiet DEF Leave, Up
<1>6. CASE Finish_request
  BY <1>6, RouteQuiet DEF Finish_request, Up
<1>7. CASE \E q \in Requests : RefuseHead(q) \/ \E ask \in Asks(q) : ReceiveHead(q, ask)
  <2>1. PICK q \in Requests : RefuseHead(q) \/ \E ask \in Asks(q) : ReceiveHead(q, ask)
    BY <1>7
  <2>2. CASE RefuseHead(q)
    BY <2>2, RouteQuiet DEF RefuseHead, Up
  <2>3. CASE \E ask \in Asks(q) : ReceiveHead(q, ask)
    BY <2>3, RouteReceive
  <2>4. QED
    BY <2>1, <2>2, <2>3
<1>8. ASSUME phase \in Acting \cup {"decided"}, conf.listener.status \/ Clean,
             NEW status, Reply(status)
      PROVE  RouteInv'
  BY <1>8, RouteEnd DEF Reply
<1>9. CASE StatusPage
  BY <1>8, <1>9 DEF StatusPage
<1>10. CASE RefuseRewrite
  BY <1>10, RouteQuiet DEF RefuseRewrite, Routed, Up
<1>11. CASE AnswerNotFound
  BY <1>8, <1>11 DEF AnswerNotFound, Routed
<1>12. CASE AnswerReturn
  BY <1>8, <1>12 DEF AnswerReturn, Routed
<1>13. ASSUME Routed, walk.decision # NotFound
       PROVE  1 \in DOMAIN walk.decision /\ (Len(walk.decision) > 1 => 2 \in DOMAIN walk.decision)
  <2>1. Up
    BY <1>13 DEF Routed, Up
  <2>2. Len(walk.decision) \in Nat \ {0} /\ DOMAIN walk.decision = 1 .. Len(walk.decision)
    BY <1>13, <2>1, DecisionSound
  <2>3. QED
    BY <2>2
<1>14. CASE StartApp
  <2>1. PICK app \in Act.application : ToApp(app)
    BY <1>14 DEF StartApp
  <2>2. Routed /\ Clean /\ walk.decision # NotFound /\ app \in walk.decision[1].application
    BY <1>14 DEF StartApp, Act
  <2>3. QED
    BY <1>13, <2>1, <2>2, RouteToApp
<1>15. CASE OpenFile
  BY <1>15, RouteAct DEF OpenFile, Sharing, Acting
<1>16. CASE RedirectDirectory
  BY <1>8, <1>16 DEF RedirectDirectory, Sharing, Routed
<1>17. CASE FallBack
  <2>1. PICK next : next = IF Len(walk.decision) > 1 THEN walk.decision[2]
                           ELSE [application |-> {}, return |-> {}]
    OBVIOUS
  <2>2. \/ \E app \in next.application : ToApp(app)
        \/ Reply(IF next.return = {} THEN 404 ELSE The(next.return))
    BY <1>17, <2>1 DEF FallBack
  <2>3. Routed /\ Clean /\ walk.decision # NotFound
    BY <1>17 DEF FallBack, Sharing
  <2>4. ASSUME NEW app \in next.application, ToApp(app)
        PROVE  RouteInv'
    <3>1. Len(walk.decision) > 1 /\ app \in walk.decision[2].application
      BY <2>1, <2>4
    <3>2. QED
      BY <1>13, <2>3, <2>4, <3>1, RouteToApp
  <2>5. QED
    BY <1>8, <2>2, <2>3, <2>4 DEF Routed
<1>18. CASE StartFile
  BY <1>18 DEF StartFile, RouteInv, ConfSound, HeadSound, Up, Acting, Sunk, Routed, Clean
<1>19. CASE SendFile
  BY <1>19, RouteSame DEF SendFile
<1>20. CASE EndFile
  <2>1. Clean
    BY <1>20 DEF EndFile, RouteInv, HeadSound, Acting
  <2>2. QED
    BY <1>20, <2>1, RouteEnd DEF EndFile, Acting
<1>21. CASE AppAnswers
  <2>1. Clean
    BY <1>21 DEF AppAnswers, RouteInv, HeadSound, Acting
  <2>2. QED
    BY <1>8, <1>21, <2>1 DEF AppAnswers, Acting
<1>22. CASE AppUpgrades
  BY <1>22, RouteQuiet DEF AppUpgrades, Up
<1>23. CASE TunnelStep
  BY <1>23, RouteSame DEF TunnelStep
<1>24. CASE TunnelEnds
  BY <1>24, RouteQuiet DEF TunnelEnds, Up
<1>25. CASE FilesChange
  BY <1>25, RouteSame DEF FilesChange
<1>26. QED
  BY <1>1, <1>2, <1>3, <1>4, <1>5, <1>6, <1>7, <1>9, <1>10, <1>11, <1>12, <1>14, <1>15, <1>16,
     <1>17, <1>18, <1>19, <1>20, <1>21, <1>22, <1>23, <1>24, <1>25 DEF Next

(* Whatever was configured, asked for and rewritten: a request is walked   *)
(* over routes that exist, by a decision all of whose parts exist.         *)
THEOREM RequestIsRouted == Spec => []RouteInv
<1>1. Init => RouteInv
  BY RouteInit
<1>2. RouteInv /\ [Next]_vars => RouteInv'
  BY RouteNext
<1>3. QED
  BY <1>1, <1>2, PTL DEF Spec

(* What validation admits has no dead end: a pool behind each application  *)
(* that is started and a route behind each one that is taken.              *)
THEOREM AdmittedHasNoDeadEnd == Spec => []NoDeadEnd
<1>1. RouteInv => NoDeadEnd
  <2>1. SUFFICES ASSUME RouteInv, Up
                 PROVE  NoDeadEnd
    BY DEF NoDeadEnd, Up
  <2>2. Routed => walk.route \in DOMAIN conf.routes
    BY <2>1 DEF RouteInv, HeadSound, Walked
  <2>3. QED
    BY <2>1, <2>2 DEF RouteInv, ConfSound, HeadSound, NoDeadEnd, Up
<1>2. QED
  BY <1>1, RequestIsRouted, PTL

(* The steps a request took, as the matchers of the code decide them: each *)
(* is the first of its route to match what the rewrites before it left,    *)
(* the next is of the route it names, and only the end of a route without  *)
(* match, or of the hops, leaves the request without an action.            *)
WalkInOrder ==
  Routed =>
    /\ \A k \in 1 .. Len(walk.trail) : TakesFirst(conf.routes, Meta(req.head), walk.trail[k])
    /\ \A k \in 1 .. Len(walk.trail) - 1 :
         Follows(conf.routes, Meta(req.head), walk.trail[k], walk.trail[k + 1])
    /\ walk.decision # NotFound => Decides(conf.routes, walk)
    /\ walk.decision = NotFound =>
         NothingFits(conf.routes, Meta(req.head), walk) \/ Len(walk.trail) = Hops

(* The walk over the routes takes first matches in order, for any routes,  *)
(* request and bound on the hops.                                          *)
THEOREM WalkIsInOrder == Spec => []WalkInOrder
<1>1. RouteInv => WalkInOrder
  BY DEF RouteInv, HeadSound, WalkInOrder, Walked
<1>2. QED
  BY <1>1, RequestIsRouted, PTL

-----------------------------------------------------------------------------
(* Lists that are built one item at a time.                                *)

(* What holds at 0, and at each place when at the one before, holds at all. *)
LEMMA Climb ==
  ASSUME NEW N \in Nat, NEW T, 0 \in T, \A i \in 1 .. N : i - 1 \in T => i \in T
  PROVE  0 .. N \subseteq T
<1> DEFINE Bad == {i \in 0 .. N : i \notin T}
<1>1. SUFFICES ASSUME Bad # {}
               PROVE  FALSE
  OBVIOUS
<1>2. Bad \subseteq Nat
  OBVIOUS
<1>3. PICK i \in Bad : \A j \in Bad : i <= j
  BY <1>1, <1>2, LeastNat
<1>4. i \in 1 .. N
  BY <1>3
<1>5. i - 1 \in 0 .. N /\ i - 1 \notin Bad
  BY <1>3, <1>4
<1>6. i - 1 \in T
  BY <1>5
<1>7. QED
  BY <1>3, <1>4, <1>6

Runs(f, N, S, base, step) ==
  /\ f \in [0 .. N -> S] /\ f[0] = base
  /\ \A i \in 1 .. N : f[i] = step[<<i, f[i - 1]>>]

(* A function may be defined at each place from what it is at the one      *)
(* before.                                                                 *)
LEMMA Recursion ==
  ASSUME NEW N \in Nat, NEW S, NEW base \in S, NEW step \in [(1 .. N) \X S -> S]
  PROVE  \E f : Runs(f, N, S, base, step)
<1> DEFINE Upto(m, f) == f[0] = base /\ \A i \in 1 .. m : f[i] = step[<<i, f[i - 1]>>]
           T == {m \in 0 .. N : \E f \in [0 .. N -> S] : Upto(m, f)}
<1>1. 0 \in T
  <2>1. PICK f : f = [i \in 0 .. N |-> base]
    OBVIOUS
  <2>2. f \in [0 .. N -> S] /\ f[0] = base
    BY <2>1
  <2>3. QED
    BY <2>2
<1>2. ASSUME NEW m \in 1 .. N, m - 1 \in T
      PROVE  m \in T
  <2>1. PICK f \in [0 .. N -> S] : Upto(m - 1, f)
    BY <1>2
  <2>2. PICK e \in S : e = step[<<m, f[m - 1]>>]
    OBVIOUS
  <2>3. PICK g : g = [i \in 0 .. N |-> IF i = m THEN e ELSE f[i]]
    OBVIOUS
  <2>4. g \in [0 .. N -> S] /\ g[0] = base
    BY <2>1, <2>3
  <2>5. ASSUME NEW i \in 1 .. m
        PROVE  g[i] = step[<<i, g[i - 1]>>]
    <3>1. i - 1 \in 0 .. N /\ i - 1 # m /\ g[i - 1] = f[i - 1]
      BY <2>3
    <3>2. CASE i = m
      BY <2>2, <2>3, <3>1, <3>2
    <3>3. CASE i # m
      BY <2>1, <2>3, <3>1, <3>3
    <3>4. QED
      BY <3>2, <3>3
  <2>6. Upto(m, g)
    BY <2>4, <2>5
  <2>7. QED
    BY <2>4, <2>6
<1> HIDE DEF Upto, T
<1>3. 0 .. N \subseteq T
  BY <1>1, <1>2, Climb
<1>4. N \in T
  BY <1>3
<1>5. QED
  BY <1>4 DEF T, Upto, Runs

(* A list of lists is one over some set of atoms.                          *)
LEMMA CommonAtoms ==
  ASSUME NEW xs, IsList(xs), \A i \in DOMAIN xs : IsList(xs[i])
  PROVE  \E X : xs \in Seq(Seq(X))
<1>1. PICK n \in Nat : n = Len(xs) /\ DOMAIN xs = 1 .. n
  BY ListProperties
<1>2. PICK X : X = UNION {ToSet(xs[i]) : i \in 1 .. n}
  OBVIOUS
<1>3. ASSUME NEW i \in 1 .. n
      PROVE  xs[i] \in Seq(X)
  <2>1. xs[i] \in Seq(ToSet(xs[i])) /\ ToSet(xs[i]) \subseteq X
    BY <1>1, <1>2 DEF IsList
  <2>2. QED
    BY <2>1, SeqMonotonic
<1>4. xs \in Seq(ToSet(xs))
  BY DEF IsList
<1>5. ToSet(xs) \subseteq Seq(X)
  BY <1>1, <1>3 DEF ToSet
<1>6. QED
  BY <1>4, <1>5, SeqMonotonic

(* A function on the first numbers is a list.                              *)
LEMMA FunctionIsList ==
  ASSUME NEW n \in Nat, NEW f, f = [i \in 1 .. n |-> f[i]]
  PROVE  IsList(f) /\ Len(f) = n
<1>1. PICK S : S = {f[i] : i \in 1 .. n}
  OBVIOUS
<1>2. f \in [1 .. n -> S]
  BY <1>1
<1>3. f \in Seq(S)
  BY <1>2, SeqDef
<1>4. DOMAIN f = 1 .. n /\ DOMAIN f = 1 .. Len(f) /\ Len(f) \in Nat
  BY <1>2, <1>3, LenProperties
<1>5. Len(f) = n
  BY <1>4
<1>6. QED
  BY <1>3, <1>5, SeqIsList

(* Decoding and folding keep the places.                                   *)
LEMMA TranslateIsList ==
  ASSUME NEW s, IsList(s), NEW table
  PROVE  IsList(Translate(s, table)) /\ Len(Translate(s, table)) = Len(s)
<1>1. PICK n \in Nat : n = Len(s) /\ DOMAIN s = 1 .. n
  BY ListProperties
<1>2. PICK f : f = Translate(s, table)
  OBVIOUS
<1>3. f = [i \in 1 .. n |-> f[i]]
  BY <1>1, <1>2 DEF Translate
<1>4. QED
  BY <1>1, <1>2, <1>3, FunctionIsList

(* Part of a list is a list.                                               *)
LEMMA PartIsList ==
  ASSUME NEW X, NEW s \in Seq(X), NEW m \in Int, NEW n \in Int, 1 <= m, n <= Len(s)
  PROVE  SubSeq(s, m, n) \in Seq(X)
<1>1. DOMAIN s = 1 .. Len(s) /\ Len(s) \in Nat
  BY LenProperties
<1>2. \A i \in m .. n : s[i] \in X
  BY <1>1, ElementOfSeq
<1>3. QED
  BY <1>2, SubSeqProperties

(* The place of the first atom of a kind, 0 if there is none.              *)
LEMMA CutPlace ==
  ASSUME NEW X, NEW s \in Seq(X), NEW c
  PROVE  \E at \in 0 .. Len(s) :
           /\ Cut(s, c) = IF at = 0 THEN <<s, <<>>>>
                          ELSE <<SubSeq(s, 1, at - 1), SubSeq(s, at + 1, Len(s))>>
           /\ at = 0 => \A i \in 1 .. Len(s) : s[i] # c
           /\ at # 0 => s[at] = c /\ \A i \in 1 .. at - 1 : s[i] # c
<1>1. Len(s) \in Nat
  BY LenProperties
<1> DEFINE I == {i \in 1 .. Len(s) : s[i] = c}
<1>2. PICK at : at = SelectInSeq(s, LAMBDA x : x = c)
  OBVIOUS
<1>3. at = IF I # {} THEN Min(I) ELSE 0
  BY <1>2 DEF SelectInSeq
<1>4. Cut(s, c) = IF at = 0 THEN <<s, <<>>>>
                   ELSE <<SubSeq(s, 1, at - 1), SubSeq(s, at + 1, Len(s))>>
  BY <1>2 DEF Cut
<1>5. CASE I = {}
  <2>1. at = 0 /\ \A i \in 1 .. Len(s) : s[i] # c
    BY <1>3, <1>5
  <2>2. at \in 0 .. Len(s)
    BY <1>1, <2>1
  <2>3. QED
    BY <1>4, <2>1, <2>2
<1>6. CASE I # {}
  <2>1. I \subseteq Nat
    OBVIOUS
  <2> HIDE DEF I
  <2>2. at \in I /\ \A j \in I : at <= j
    BY <1>3, <1>6, <2>1, MinIsLeast
  <2> USE DEF I
  <2>3. at \in 1 .. Len(s) /\ s[at] = c
    BY <2>2
  <2>4. ASSUME NEW i \in 1 .. at - 1
        PROVE  s[i] # c
    <3>1. i \in 1 .. Len(s) /\ ~ (at <= i)
      BY <1>1, <2>3
    <3>2. QED
      BY <2>2, <3>1
  <2>5. at \in 0 .. Len(s) /\ at # 0
    BY <1>1, <2>3
  <2>6. QED
    BY <1>4, <2>3, <2>4, <2>5
<1>7. QED
  BY <1>5, <1>6

(* The two sides of a cut.                                                 *)
LEMMA CutIsTwo ==
  ASSUME NEW X, NEW s \in Seq(X), NEW c
  PROVE  Cut(s, c)[1] \in Seq(X) /\ Cut(s, c)[2] \in Seq(X)
<1>1. PICK at \in 0 .. Len(s) :
        Cut(s, c) = IF at = 0 THEN <<s, <<>>>>
                    ELSE <<SubSeq(s, 1, at - 1), SubSeq(s, at + 1, Len(s))>>
  BY CutPlace
<1>2. Len(s) \in Nat
  BY LenProperties
<1>3. CASE at = 0
  BY <1>1, <1>3, EmptySeq
<1>4. CASE at # 0
  <2>1. SubSeq(s, 1, at - 1) \in Seq(X)
    BY <1>2, <1>4, PartIsList
  <2>2. SubSeq(s, at + 1, Len(s)) \in Seq(X)
    BY <1>2, <1>4, PartIsList
  <2>3. QED
    BY <1>1, <1>4, <2>1, <2>2
<1>5. QED
  BY <1>3, <1>4

(* The pieces of a list of atoms are lists of them.                        *)
LEMMA SplitIsLists ==
  ASSUME NEW X, NEW s \in Seq(X), NEW c
  PROVE  Split(s, c) \in Seq(Seq(X))
<1>1. PICK n \in Nat : n = Len(s)
  BY LenProperties
<1>2. \A i \in 1 .. n : s[i] \in X
  BY <1>1, ElementOfSeq
<1>3. PICK S : S = {t \in Seq(Seq(X)) : t # <<>>}
  OBVIOUS
<1> DEFINE Step(i, b) == IF s[i] = c THEN Append(b, <<>>)
                         ELSE Append(Front(b), Append(Last(b), s[i]))
           Upto(f) == f = [i \in 0 .. n |-> IF i = 0 THEN <<<<>>>> ELSE Step(i, f[i - 1])]
<1>4. <<<<>>>> \in S
  <2>1. <<>> \in Seq(X)
    BY EmptySeq
  <2>2. PICK t : t = <<<<>>>>
    OBVIOUS
  <2>3. t = Append(<<>>, <<>>) /\ <<>> \in Seq(Seq(X))
    BY <2>2, EmptySeq
  <2>4. t \in Seq(Seq(X)) /\ t # <<>>
    BY <2>1, <2>3, AppendProperties
  <2>5. QED
    BY <1>3, <2>2, <2>4
<1>5. ASSUME NEW i \in 1 .. n, NEW b \in S
      PROVE  Step(i, b) \in S
  <2>1. b \in Seq(Seq(X)) /\ b # <<>>
    BY <1>3
  <2>2. PICK m \in Nat : m = Len(b) /\ m # 0 /\ DOMAIN b = 1 .. m
    BY <2>1, EmptySeq, LenProperties
  <2>3. CASE s[i] = c
    <3>1. <<>> \in Seq(X)
      BY EmptySeq
    <3>2. Append(b, <<>>) \in Seq(Seq(X)) /\ Append(b, <<>>) # <<>>
      BY <2>1, <3>1, AppendProperties
    <3>3. QED
      BY <1>3, <2>3, <3>2
  <2>4. CASE s[i] # c
    <3>1. Last(b) \in Seq(X)
      BY <2>1, <2>2, ElementOfSeq DEF Last
    <3>2. PICK piece : piece = Append(Last(b), s[i])
      OBVIOUS
    <3>3. piece \in Seq(X)
      BY <1>2, <3>1, <3>2, AppendProperties
    <3>4. Front(b) \in Seq(Seq(X))
      BY <2>1, <2>2, PartIsList DEF Front
    <3>5. Append(Front(b), piece) \in Seq(Seq(X)) /\ Append(Front(b), piece) # <<>>
      BY <3>3, <3>4, AppendProperties
    <3>6. QED
      BY <1>3, <2>4, <3>2, <3>5
  <2>5. QED
    BY <2>3, <2>4
<1>6. Split(s, c) = (CHOOSE f : Upto(f))[n]
  BY <1>1 DEF Split
<1> HIDE DEF Step
<1>7. \E f : Upto(f)
  <2>1. PICK step : step = [p \in (1 .. n) \X S |-> Step(p[1], p[2])]
    OBVIOUS
  <2>2. step \in [(1 .. n) \X S -> S]
    BY <1>5, <2>1
  <2>3. PICK base \in S : base = <<<<>>>>
    BY <1>4
  <2>4. PICK f : Runs(f, n, S, base, step)
    BY <2>2, Recursion
  <2>5. f \in [0 .. n -> S] /\ f[0] = base /\ \A i \in 1 .. n : f[i] = step[<<i, f[i - 1]>>]
    BY <2>4 DEF Runs
  <2>6. \A i \in 1 .. n : i - 1 \in 0 .. n /\ f[i] = Step(i, f[i - 1])
    <3>1. ASSUME NEW i \in 1 .. n, NEW b \in S
          PROVE  step[<<i, b>>] = Step(i, b)
      BY <2>1
    <3>2. ASSUME NEW i \in 1 .. n
          PROVE  i - 1 \in 0 .. n /\ f[i] = Step(i, f[i - 1])
      <4>1. i - 1 \in 0 .. n /\ f[i] = step[<<i, f[i - 1]>>]
        BY <2>5
      <4>2. PICK b \in S : b = f[i - 1]
        BY <2>5, <4>1
      <4>3. QED
        BY <3>1, <4>1, <4>2
    <3>3. QED
      BY <3>2
  <2>7. Upto(f)
    <3>1. f = [i \in 0 .. n |-> f[i]]
      BY <2>5
    <3>2. QED
      BY <2>3, <2>5, <2>6, <3>1
  <2>8. QED
    BY <2>7
<1>8. PICK g : g = CHOOSE f : Upto(f)
  OBVIOUS
<1>9. Upto(g)
  BY <1>7, <1>8
<1> DEFINE T == {i \in 0 .. n : g[i] \in S}
<1>10. 0 \in T
  BY <1>4, <1>9
<1>11. \A i \in 1 .. n : i - 1 \in T => i \in T
  BY <1>5, <1>9
<1> HIDE DEF T
<1>12. 0 .. n \subseteq T
  BY <1>10, <1>11, Climb
<1>13. n \in 0 .. n
  OBVIOUS
<1>14. g[n] \in S
  BY <1>12, <1>13 DEF T
<1>15. QED
  BY <1>3, <1>6, <1>8, <1>14

(* Resolving the dots leaves segments of the path.                         *)
LEMMA ResolvedIsLists ==
  ASSUME NEW X, NEW segments \in Seq(Seq(X))
  PROVE  Resolved(segments) \in Seq(Seq(X))
<1>1. PICK n \in Nat : n = Len(segments)
  BY LenProperties
<1>2. \A i \in 1 .. n : segments[i] \in Seq(X)
  BY <1>1, ElementOfSeq
<1>3. PICK S : S = Seq(Seq(X))
  OBVIOUS
<1> DEFINE Upto(f) == f = [i \in 0 .. n |-> IF i = 0 THEN <<>> ELSE Resolve(f[i - 1], segments[i])]
<1>4. <<>> \in S
  BY <1>3, EmptySeq
<1>5. ASSUME NEW i \in 1 .. n, NEW b \in S
      PROVE  Resolve(b, segments[i]) \in S
  <2>1. Append(b, segments[i]) \in S
    BY <1>2, <1>3, AppendProperties
  <2>2. Len(b) \in Nat
    BY <1>3, LenProperties
  <2>3. b # <<>> => Front(b) \in S
    BY <1>3, <2>2, PartIsList DEF Front
  <2>4. QED
    BY <2>1, <2>3 DEF Resolve
<1>6. Resolved(segments) = (CHOOSE f : Upto(f))[n]
  BY <1>1 DEF Resolved
<1>7. \E f : Upto(f)
  <2>1. PICK step : step = [p \in (1 .. n) \X S |-> Resolve(p[2], segments[p[1]])]
    OBVIOUS
  <2>2. step \in [(1 .. n) \X S -> S]
    BY <1>5, <2>1
  <2>3. PICK base \in S : base = <<>>
    BY <1>4
  <2>4. PICK f : Runs(f, n, S, base, step)
    BY <2>2, Recursion
  <2>5. f \in [0 .. n -> S] /\ f[0] = base /\ \A i \in 1 .. n : f[i] = step[<<i, f[i - 1]>>]
    BY <2>4 DEF Runs
  <2>6. \A i \in 1 .. n : i - 1 \in 0 .. n /\ f[i] = Resolve(f[i - 1], segments[i])
    <3>1. ASSUME NEW i \in 1 .. n, NEW b \in S
          PROVE  step[<<i, b>>] = Resolve(b, segments[i])
      BY <2>1
    <3>2. ASSUME NEW i \in 1 .. n
          PROVE  i - 1 \in 0 .. n /\ f[i] = Resolve(f[i - 1], segments[i])
      <4>1. i - 1 \in 0 .. n /\ f[i] = step[<<i, f[i - 1]>>]
        BY <2>5
      <4>2. PICK b \in S : b = f[i - 1]
        BY <2>5, <4>1
      <4>3. QED
        BY <3>1, <4>1, <4>2
    <3>3. QED
      BY <3>2
  <2>7. Upto(f)
    <3>1. f = [i \in 0 .. n |-> f[i]]
      BY <2>5
    <3>2. QED
      BY <2>3, <2>5, <2>6, <3>1
  <2>8. QED
    BY <2>7
<1>8. PICK g : g = CHOOSE f : Upto(f)
  OBVIOUS
<1>9. Upto(g)
  BY <1>7, <1>8
<1> DEFINE T == {i \in 0 .. n : g[i] \in S}
<1>10. 0 \in T
  BY <1>4, <1>9
<1>11. \A i \in 1 .. n : i - 1 \in T => i \in T
  BY <1>5, <1>9
<1> HIDE DEF T
<1>12. 0 .. n \subseteq T
  BY <1>10, <1>11, Climb
<1>13. n \in 0 .. n
  OBVIOUS
<1>14. g[n] \in S
  BY <1>12, <1>13 DEF T
<1>15. QED
  BY <1>3, <1>6, <1>8, <1>14

(* Lists of atoms make one when they are strung together.                  *)
LEMMA FlatIsList ==
  ASSUME NEW X, NEW seqs \in Seq(Seq(X))
  PROVE  FlattenSeq(seqs) \in Seq(X)
<1>1. PICK n \in Nat : n = Len(seqs)
  BY LenProperties
<1>2. \A i \in 1 .. n : seqs[i] \in Seq(X)
  BY <1>1, ElementOfSeq
<1>3. PICK S : S = Seq(X)
  OBVIOUS
<1>4. CASE n = 0
  <2>1. seqs = <<>>
    BY <1>1, <1>4, EmptySeq
  <2>2. FlattenSeq(seqs) = seqs
    BY <1>1, <1>4 DEF FlattenSeq
  <2>3. QED
    BY <2>1, <2>2, EmptySeq
<1>5. CASE n # 0
  <2> DEFINE Upto(f) == f = [i \in 1 .. n |-> IF i = 1 THEN seqs[i] ELSE f[i - 1] \o seqs[i]]
  <2>1. FlattenSeq(seqs) = (CHOOSE f : Upto(f))[n]
    BY <1>1, <1>5 DEF FlattenSeq
  <2>2. <<>> \in S
    BY <1>3, EmptySeq
  <2>3. ASSUME NEW i \in 1 .. n, NEW b \in S
        PROVE  b \o seqs[i] \in S
    BY <1>2, <1>3, ConcatProperties
  <2>4. \E f : Upto(f)
    <3>1. PICK step : step = [p \in (1 .. n) \X S |-> IF p[1] = 1 THEN seqs[p[1]] ELSE p[2] \o seqs[p[1]]]
      OBVIOUS
    <3>2. step \in [(1 .. n) \X S -> S]
      BY <1>2, <1>3, <2>3, <3>1
    <3>3. PICK base \in S : base = <<>>
      BY <2>2
    <3>4. PICK f : Runs(f, n, S, base, step)
      BY <3>2, Recursion
    <3>5. f \in [0 .. n -> S] /\ f[0] = base /\ \A i \in 1 .. n : f[i] = step[<<i, f[i - 1]>>]
      BY <3>4 DEF Runs
    <3>6. PICK h : h = [i \in 1 .. n |-> f[i]]
      OBVIOUS
    <3>7. ASSUME NEW i \in 1 .. n
          PROVE  h[i] = IF i = 1 THEN seqs[i] ELSE h[i - 1] \o seqs[i]
      <4>1. i - 1 \in 0 .. n /\ f[i] = IF i = 1 THEN seqs[i] ELSE f[i - 1] \o seqs[i]
        <5>1. ASSUME NEW b \in S
              PROVE  step[<<i, b>>] = IF i = 1 THEN seqs[i] ELSE b \o seqs[i]
          BY <3>1
        <5>2. i - 1 \in 0 .. n /\ f[i] = step[<<i, f[i - 1]>>]
          BY <3>5
        <5>3. PICK b \in S : b = f[i - 1]
          BY <3>5, <5>2
        <5>4. QED
          BY <5>1, <5>2, <5>3
      <4>2. h[i] = f[i] /\ (i # 1 => h[i - 1] = f[i - 1])
        BY <3>6
      <4>3. QED
        BY <4>1, <4>2
    <3>8. Upto(h)
      BY <3>6, <3>7
    <3>9. QED
      BY <3>8
  <2>5. PICK g : g = CHOOSE f : Upto(f)
    OBVIOUS
  <2>6. Upto(g)
    BY <2>4, <2>5
  <2> DEFINE T == {0} \cup {i \in 1 .. n : g[i] \in S}
  <2>7. \A i \in 1 .. n : i - 1 \in T => i \in T
    <3>1. ASSUME NEW i \in 1 .. n, i - 1 \in T
          PROVE  g[i] \in S
      <4>1. g[i] = IF i = 1 THEN seqs[i] ELSE g[i - 1] \o seqs[i]
        BY <2>6
      <4>2. CASE i = 1
        BY <1>2, <1>3, <4>1, <4>2
      <4>3. CASE i # 1
        <5>1. g[i - 1] \in S
          BY <3>1, <4>3
        <5>2. QED
          BY <2>3, <4>1, <4>3, <5>1
      <4>4. QED
        BY <4>2, <4>3
    <3>2. QED
      BY <3>1
  <2>8. 0 \in T
    OBVIOUS
  <2> HIDE DEF T
  <2>9. 0 .. n \subseteq T
    BY <2>7, <2>8, Climb
  <2>10. n \in 0 .. n
    OBVIOUS
  <2>11. g[n] \in S
    BY <1>5, <2>9, <2>10 DEF T
  <2>12. QED
    BY <1>3, <2>1, <2>5, <2>11
<1>6. QED
  BY <1>4, <1>5

(* A path is a list of atoms however it is decoded and resolved.           *)
LEMMA NormalIsList ==
  ASSUME NEW path, IsList(path)
  PROVE  IsList(normalize_path(path))
<1>1. PICK decoded : decoded = percent_decode(path)
  OBVIOUS
<1>2. IsList(decoded)
  BY <1>1, TranslateIsList DEF percent_decode
<1>3. PICK X : X = ToSet(decoded) \cup {"/"}
  OBVIOUS
<1>4. decoded \in Seq(X)
  BY <1>2, <1>3, SeqMonotonic DEF IsList
<1>5. PICK pieces \in Seq(Seq(X)) : pieces = Split(decoded, "/")
  BY <1>4, SplitIsLists
<1>6. PICK stack \in Seq(Seq(X)) : stack = Resolved(pieces)
  BY ResolvedIsLists
<1>7. PICK led : led = [i \in DOMAIN stack |-> <<"/">> \o stack[i]]
  OBVIOUS
<1>8. led \in Seq(Seq(X))
  <2>1. PICK m \in Nat : m = Len(stack) /\ DOMAIN stack = 1 .. m
    BY LenProperties
  <2>2. PICK slash : slash = <<"/">>
    OBVIOUS
  <2>3. slash \in Seq(X)
    <3>1. slash = Append(<<>>, "/") /\ <<>> \in Seq(X) /\ "/" \in X
      BY <1>3, <2>2, EmptySeq
    <3>2. QED
      BY <3>1, AppendProperties
  <2>4. ASSUME NEW i \in 1 .. m
        PROVE  led[i] \in Seq(X)
    <3>1. stack[i] \in Seq(X)
      BY <2>1, ElementOfSeq
    <3>2. slash \o stack[i] \in Seq(X)
      BY <2>3, <3>1, ConcatProperties
    <3>3. QED
      BY <1>7, <2>1, <2>2, <3>2
  <2>5. led = [i \in 1 .. m |-> led[i]]
    BY <1>7, <2>1
  <2>6. led \in [1 .. m -> Seq(X)]
    BY <2>4, <2>5
  <2>7. QED
    BY <2>6, SeqDef
<1>9. PICK flat \in Seq(X) : flat = FlattenSeq(led)
  BY <1>8, FlatIsList
<1>10. Append(flat, "/") \in Seq(X)
  BY <1>3, AppendProperties
<1>11. normalize_path(path) \in {flat, Append(flat, "/")}
  BY <1>1, <1>5, <1>6, <1>7, <1>9 DEF normalize_path
<1>12. QED
  BY <1>10, <1>11, SeqIsList

(* A template renders to a list of atoms.                                  *)
LEMMA RenderIsList ==
  ASSUME NEW t, IsTemplate(t), TemplateCompiles(t), NEW names, \A v \in VarNames : IsList(names[v])
  PROVE  IsList(Render(t, names))
<1>1. PICK n \in Nat : n = Len(t) /\ DOMAIN t = 1 .. n
  BY ListProperties DEF IsTemplate
<1>2. PICK parts : parts = [i \in 1 .. n |-> IF "var" \in DOMAIN t[i] THEN names[t[i].var] ELSE t[i].lit]
  OBVIOUS
<1>3. ASSUME NEW i \in 1 .. n
      PROVE  IsList(parts[i])
  <2>1. CASE "var" \in DOMAIN t[i]
    <3>1. t[i].var \in VarNames
      BY <1>1, <2>1 DEF TemplateCompiles
    <3>2. QED
      BY <1>2, <2>1, <3>1
  <2>2. CASE "var" \notin DOMAIN t[i]
    <3>1. IsList(t[i].lit)
      BY <1>1, <2>2 DEF IsTemplate
    <3>2. QED
      BY <1>2, <2>2, <3>1
  <2>3. QED
    BY <2>1, <2>2
<1>4. parts = [i \in 1 .. n |-> parts[i]] /\ DOMAIN parts = 1 .. n
  BY <1>2
<1>5. IsList(parts)
  BY <1>4, FunctionIsList
<1>6. PICK X : parts \in Seq(Seq(X))
  BY <1>3, <1>4, <1>5, CommonAtoms
<1>7. FlattenSeq(parts) \in Seq(X)
  BY <1>6, FlatIsList
<1>8. Render(t, names) = FlattenSeq(parts)
  BY <1>1, <1>2 DEF Render
<1>9. QED
  BY <1>7, <1>8, SeqIsList

(* A rewrite leaves a path and a query that are lists of atoms.            *)
LEMMA RewrittenIsTwo ==
  ASSUME NEW step, \A t \in step.rewrite : IsTemplate(t) /\ TemplateCompiles(t),
         NEW meta, IsList(meta.host), IsList(meta.method),
         NEW path, IsList(path), NEW query, IsList(query),
         NEW left, left = Rewritten(step, meta, path, query)
  PROVE  IsList(left[1]) /\ IsList(left[2])
<1>1. PICK names : names = [uri |-> path, args |-> query, query |-> query, host |-> meta.host,
                            method |-> meta.method, remote_addr |-> <<"ip">>]
  OBVIOUS
<1>2. \A v \in VarNames : IsList(names[v])
  <2>1. PICK ip : ip = <<"ip">>
    OBVIOUS
  <2>2. ip = Append(<<>>, "ip") /\ IsList(<<>>)
    BY <2>1, EmptySeq DEF IsList
  <2>3. IsList(ip)
    BY <2>2, ListAppend
  <2>4. names = [uri |-> path, args |-> query, query |-> query, host |-> meta.host,
                 method |-> meta.method, remote_addr |-> ip]
    BY <1>1, <2>1
  <2>5. QED
    BY <2>3, <2>4 DEF VarNames
<1>3. CASE step.rewrite = {}
  <2>1. left = <<path, query>>
    BY <1>3 DEF Rewritten
  <2>2. QED
    BY <2>1
<1>4. CASE step.rewrite # {}
  <2>1. PICK t : t = CHOOSE u \in step.rewrite : TRUE
    OBVIOUS
  <2>2. IsTemplate(t) /\ TemplateCompiles(t)
    BY <1>4, <2>1
  <2>3. PICK text : text = Render(t, names)
    OBVIOUS
  <2>4. IsList(text)
    BY <1>2, <2>2, <2>3, RenderIsList
  <2>5. PICK X : text \in Seq(X)
    BY <2>4 DEF IsList
  <2>6. PICK to : to = Cut(text, "?")
    OBVIOUS
  <2>7. IsList(to[1]) /\ IsList(to[2])
    BY <2>5, <2>6, CutIsTwo, SeqIsList
  <2>8. IsList(normalize_path(to[1]))
    BY <2>7, NormalIsList
  <2>9. left = <<normalize_path(to[1]), to[2]>>
    BY <1>1, <1>4, <2>1, <2>3, <2>6 DEF Rewritten
  <2>10. QED
    BY <2>7, <2>8, <2>9
<1>5. QED
  BY <1>3, <1>4

(* The value found under a name is a list of atoms, if all of them are.    *)
LEMMA FirstValueIsList ==
  ASSUME NEW pairs, IsList(pairs), \A i \in DOMAIN pairs : IsList(pairs[i][2]), NEW name
  PROVE  IsList(FirstValue(pairs, name))
<1>1. PICK n \in Nat : n = Len(pairs) /\ DOMAIN pairs = 1 .. n
  BY ListProperties
<1> DEFINE I == {i \in 1 .. n : pairs[i][1] = name}
<1>2. FirstValue(pairs, name) = IF (IF I # {} THEN Min(I) ELSE 0) = 0 THEN <<>>
                                ELSE pairs[IF I # {} THEN Min(I) ELSE 0][2]
  BY <1>1 DEF FirstValue, SelectInSeq
<1>3. IsList(<<>>)
  BY EmptySeq DEF IsList
<1>4. CASE I = {}
  BY <1>2, <1>3, <1>4
<1>5. CASE I # {}
  <2>1. I \subseteq Nat /\ I \subseteq 1 .. n
    OBVIOUS
  <2> HIDE DEF I
  <2>2. Min(I) \in 1 .. n
    BY <1>5, <2>1, MinIsLeast
  <2>3. IsList(pairs[Min(I)][2])
    BY <1>1, <2>2
  <2>4. QED
    BY <1>2, <1>3, <1>5, <2>3
<1>6. QED
  BY <1>4, <1>5

(* The name of the host is a list of atoms, if the header is.              *)
LEMMA HostNameIsList ==
  ASSUME NEW host, IsList(host)
  PROVE  IsList(HostName(host))
<1>1. PICK X : host \in Seq(X)
  BY DEF IsList
<1>2. IsList(Cut(host, "]")[1]) /\ IsList(Cut(host, ":")[1])
  BY <1>1, CutIsTwo, SeqIsList
<1>3. IsList(Append(Cut(host, "]")[1], "]"))
  BY <1>2, ListAppend
<1>4. QED
  BY <1>2, <1>3 DEF HostName

(* The arguments of a query are pairs with a list of atoms as their value. *)
LEMMA ArgumentsAreLists ==
  ASSUME NEW query, IsList(query)
  PROVE  /\ IsList(parse_args(query))
         /\ \A i \in DOMAIN parse_args(query) : IsList(parse_args(query)[i][2])
<1>1. PICK X : query \in Seq(X)
  BY DEF IsList
<1>2. PICK parts \in Seq(Seq(X)) : parts = Split(query, "&")
  BY <1>1, SplitIsLists
<1>3. PICK n \in Nat : n = Len(parts)
  BY LenProperties
<1> DEFINE Plain(s) == percent_decode([i \in DOMAIN s |-> IF s[i] = "+" THEN " " ELSE s[i]])
           Pair(i) == <<Plain(Cut(parts[i], "=")[1]), Plain(Cut(parts[i], "=")[2])>>
           Upto(f) == f = [i \in 0 .. n |->
                             IF i = 0 THEN <<>> ELSE IF parts[i] = <<>> THEN f[i - 1]
                             ELSE Append(f[i - 1], Pair(i))]
<1>4. ASSUME NEW s \in Seq(X)
      PROVE  IsList(Plain(s))
  <2>1. PICK m \in Nat : m = Len(s) /\ DOMAIN s = 1 .. m
    BY LenProperties
  <2>2. PICK f : f = [i \in 1 .. m |-> IF s[i] = "+" THEN " " ELSE s[i]]
    OBVIOUS
  <2>3. IsList(f)
    <3>1. f = [i \in 1 .. m |-> f[i]]
      BY <2>2
    <3>2. QED
      BY <3>1, FunctionIsList
  <2>4. Plain(s) = Translate(f, Decoded)
    BY <2>1, <2>2 DEF percent_decode
  <2>5. QED
    BY <2>3, <2>4, TranslateIsList
<1>5. parse_args(query) = (CHOOSE f : Upto(f))[n]
  BY <1>2, <1>3 DEF parse_args
<1> HIDE DEF Plain
<1>6. PICK P : P = {Pair(i) : i \in 1 .. n}
  OBVIOUS
<1>7. PICK S : S = Seq(P)
  OBVIOUS
<1>8. ASSUME NEW p \in P
      PROVE  IsList(p[2])
  <2>1. PICK i \in 1 .. n : p = Pair(i)
    BY <1>6
  <2>2. parts[i] \in Seq(X)
    BY <1>3, ElementOfSeq
  <2>3. Cut(parts[i], "=")[2] \in Seq(X)
    BY <2>2, CutIsTwo
  <2>4. IsList(Plain(Cut(parts[i], "=")[2]))
    BY <1>4, <2>3
  <2>5. QED
    BY <2>1, <2>4
<1>9. <<>> \in S
  BY <1>7, EmptySeq
<1> DEFINE Step(i, b) == IF parts[i] = <<>> THEN b ELSE Append(b, Pair(i))
<1>10. ASSUME NEW i \in 1 .. n, NEW b \in S
       PROVE  Step(i, b) \in S
  <2>1. PICK p \in P : p = Pair(i)
    BY <1>6
  <2>2. Append(b, p) \in S
    BY <1>7, AppendProperties
  <2>3. QED
    BY <2>1, <2>2
<1>11. \A f : Upto(f) <=> f = [i \in 0 .. n |-> IF i = 0 THEN <<>> ELSE Step(i, f[i - 1])]
  OBVIOUS
<1> HIDE DEF Pair, Upto, Step
<1>12. \E f : Upto(f)
  <2>1. PICK step : step = [p \in (1 .. n) \X S |-> Step(p[1], p[2])]
    OBVIOUS
  <2>2. step \in [(1 .. n) \X S -> S]
    BY <1>10, <2>1
  <2>3. PICK base \in S : base = <<>>
    BY <1>9
  <2>4. PICK f : Runs(f, n, S, base, step)
    BY <2>2, Recursion
  <2>5. f \in [0 .. n -> S] /\ f[0] = base /\ \A i \in 1 .. n : f[i] = step[<<i, f[i - 1]>>]
    BY <2>4 DEF Runs
  <2>6. \A i \in 1 .. n : i - 1 \in 0 .. n /\ f[i] = Step(i, f[i - 1])
    <3>1. ASSUME NEW i \in 1 .. n, NEW b \in S
          PROVE  step[<<i, b>>] = Step(i, b)
      BY <2>1
    <3>2. ASSUME NEW i \in 1 .. n
          PROVE  i - 1 \in 0 .. n /\ f[i] = Step(i, f[i - 1])
      <4>1. i - 1 \in 0 .. n /\ f[i] = step[<<i, f[i - 1]>>]
        BY <2>5
      <4>2. PICK b \in S : b = f[i - 1]
        BY <2>5, <4>1
      <4>3. QED
        BY <3>1, <4>1, <4>2
    <3>3. QED
      BY <3>2
  <2>7. f = [i \in 0 .. n |-> f[i]]
    BY <2>5
  <2>8. \A i \in 0 .. n : f[i] = IF i = 0 THEN <<>> ELSE Step(i, f[i - 1])
    BY <2>3, <2>5, <2>6
  <2>9. f = [i \in 0 .. n |-> IF i = 0 THEN <<>> ELSE Step(i, f[i - 1])]
    BY <2>7, <2>8
  <2>10. Upto(f)
    BY <1>11, <2>9
  <2>11. QED
    BY <2>10
<1>13. PICK g : g = CHOOSE f : Upto(f)
  OBVIOUS
<1>14. g = [i \in 0 .. n |-> IF i = 0 THEN <<>> ELSE Step(i, g[i - 1])]
  BY <1>11, <1>12, <1>13
<1> DEFINE T == {i \in 0 .. n : g[i] \in S}
<1>15. 0 \in T
  BY <1>9, <1>14
<1>16. \A i \in 1 .. n : i - 1 \in T => i \in T
  BY <1>10, <1>14
<1> HIDE DEF T
<1>17. 0 .. n \subseteq T
  BY <1>15, <1>16, Climb
<1>18. n \in 0 .. n
  OBVIOUS
<1>19. g[n] \in Seq(P)
  BY <1>7, <1>17, <1>18 DEF T
<1>20. PICK args \in Seq(P) : args = parse_args(query)
  BY <1>5, <1>13, <1>19
<1>21. \A i \in DOMAIN args : IsList(args[i][2])
  <2>1. \A i \in DOMAIN args : args[i] \in P
    BY LenProperties, ElementOfSeq
  <2>2. QED
    BY <1>8, <2>1
<1>22. QED
  BY <1>20, <1>21, SeqIsList

-----------------------------------------------------------------------------
(* What a pattern means: the matcher's shortcuts against the walk over its *)
(* atoms.                                                                  *)

Moved(body, value, stops, i, before) ==
  IF body[i] = "*"
  THEN {k \in 0 .. Len(value) :
          \E j \in before : j <= k /\ \A n \in j + 1 .. k : value[n] \notin stops}
  ELSE {k \in 1 .. Len(value) : k - 1 \in before /\ value[k] = body[i]}

Reaches(body, value, stops, n, after) ==
  /\ after[0] = {0}
  /\ \A i \in 1 .. n : after[i] = Moved(body, value, stops, i, after[i - 1])

OneStar(body, n, p)   == \A m \in 1 .. n : body[m] = "*" <=> m = p
StarFree(body, p)     == \A m \in 1 .. p : body[m] # "*"
Agree(body, value, p) == \A m \in 1 .. p : value[m] = body[m]

EndsAlike(body, value, n, p) ==
  \A m \in 1 .. n - p : value[Len(value) - (n - p) + m] = body[p + m]

(* The places reached after each atom follow from those before it.         *)
LEMMA GlobInOrder ==
  ASSUME NEW body, NEW value, NEW stops, NEW n \in Nat, n = Len(body), Len(value) \in Nat
  PROVE  \E after : /\ Reaches(body, value, stops, n, after)
                    /\ Glob(body, value, stops) <=> Len(value) \in after[n]
<1> DEFINE Upto(f) == f = [i \in 0 .. n |-> IF i = 0 THEN {0}
                                            ELSE Moved(body, value, stops, i, f[i - 1])]
<1>1. Glob(body, value, stops) <=> Len(value) \in (CHOOSE f : Upto(f))[n]
  BY DEF Glob, Moved
<1>2. PICK S : S = SUBSET (0 .. Len(value))
  OBVIOUS
<1>3. {0} \in S
  BY <1>2
<1>4. ASSUME NEW i \in 1 .. n, NEW b \in S
      PROVE  Moved(body, value, stops, i, b) \in S
  BY <1>2 DEF Moved
<1>5. \E f : Upto(f)
  <2>1. PICK step : step = [p \in (1 .. n) \X S |-> Moved(body, value, stops, p[1], p[2])]
    OBVIOUS
  <2>2. step \in [(1 .. n) \X S -> S]
    BY <1>4, <2>1
  <2>3. PICK base \in S : base = {0}
    BY <1>3
  <2>4. PICK f : Runs(f, n, S, base, step)
    BY <2>2, Recursion
  <2>5. f \in [0 .. n -> S] /\ f[0] = base /\ \A i \in 1 .. n : f[i] = step[<<i, f[i - 1]>>]
    BY <2>4 DEF Runs
  <2>6. \A i \in 1 .. n : i - 1 \in 0 .. n /\ f[i] = Moved(body, value, stops, i, f[i - 1])
    <3>1. ASSUME NEW i \in 1 .. n, NEW b \in S
          PROVE  step[<<i, b>>] = Moved(body, value, stops, i, b)
      BY <2>1
    <3>2. ASSUME NEW i \in 1 .. n
          PROVE  i - 1 \in 0 .. n /\ f[i] = Moved(body, value, stops, i, f[i - 1])
      <4>1. i - 1 \in 0 .. n /\ f[i] = step[<<i, f[i - 1]>>]
        BY <2>5
      <4>2. PICK b \in S : b = f[i - 1]
        BY <2>5, <4>1
      <4>3. QED
        BY <3>1, <4>1, <4>2
    <3>3. QED
      BY <3>2
  <2>7. \A i \in 0 .. n : f[i] = IF i = 0 THEN {0} ELSE Moved(body, value, stops, i, f[i - 1])
    BY <2>3, <2>5, <2>6
  <2>8. f = [i \in 0 .. n |-> f[i]]
    BY <2>5
  <2>9. Upto(f)
    BY <2>7, <2>8
  <2>10. QED
    BY <2>9
<1>6. PICK g : g = CHOOSE f : Upto(f)
  OBVIOUS
<1>7. Upto(g)
  BY <1>5, <1>6
<1> HIDE DEF Upto
<1>8. Reaches(body, value, stops, n, g)
  <2>1. g = [i \in 0 .. n |-> IF i = 0 THEN {0} ELSE Moved(body, value, stops, i, g[i - 1])]
    BY <1>7 DEF Upto
  <2>2. g[0] = {0}
    BY <2>1
  <2>3. ASSUME NEW i \in 1 .. n
        PROVE  g[i] = Moved(body, value, stops, i, g[i - 1])
    <3>1. i \in 0 .. n /\ i # 0
      OBVIOUS
    <3>2. QED
      BY <2>1, <3>1
  <2>4. QED
    BY <2>2, <2>3 DEF Reaches
<1>9. QED
  BY <1>1, <1>6, <1>8

(* Before the first star the value follows the pattern atom by atom.       *)
LEMMA GlobPrefix ==
  ASSUME NEW body, NEW value, NEW stops, Len(value) \in Nat, NEW p \in Nat,
         StarFree(body, p), NEW after, Reaches(body, value, stops, p, after), NEW k
  PROVE  k \in after[p] <=> k = p /\ p <= Len(value) /\ Agree(body, value, p)
<1>1. PICK L \in Nat : L = Len(value)
  OBVIOUS
<1> DEFINE Is(i) == \A x : x \in after[i] <=> x = i /\ i <= L /\ \A m \in 1 .. i : value[m] = body[m]
           T == {i \in 0 .. p : Is(i)}
<1>2. 0 \in T
  BY <1>1 DEF Reaches
<1>3. ASSUME NEW i \in 1 .. p, i - 1 \in T
      PROVE  i \in T
  <2>1. PICK j \in Nat : j = i - 1
    OBVIOUS
  <2>2. Is(j) /\ i = j + 1
    BY <1>3, <2>1
  <2>3. after[i] = {y \in 1 .. L : y - 1 \in after[j] /\ value[y] = body[i]}
    BY <1>1, <2>1 DEF Moved, Reaches, StarFree
  <2>4. ASSUME NEW x
        PROVE  x \in after[i] <=> x = i /\ i <= L /\ \A m \in 1 .. i : value[m] = body[m]
    <3>1. ASSUME x \in after[i]
          PROVE  x = i /\ i <= L /\ \A m \in 1 .. i : value[m] = body[m]
      <4>1. x \in 1 .. L /\ x - 1 = j /\ value[x] = body[i] /\ \A m \in 1 .. j : value[m] = body[m]
        BY <2>2, <2>3, <3>1
      <4>2. x = i
        BY <2>2, <4>1
      <4>3. QED
        BY <2>2, <4>1, <4>2
    <3>2. ASSUME x = i, i <= L, \A m \in 1 .. i : value[m] = body[m]
          PROVE  x \in after[i]
      <4>1. value[i] = body[i]
        BY <3>2
      <4>2. x \in 1 .. L /\ x - 1 = j /\ j <= L /\ value[x] = body[i]
        BY <2>2, <3>2, <4>1
      <4>3. \A m \in 1 .. j : value[m] = body[m]
        BY <2>2, <3>2
      <4>4. x - 1 \in after[j]
        BY <2>2, <4>2, <4>3
      <4>5. QED
        BY <2>3, <4>2, <4>4
    <3>3. QED
      BY <3>1, <3>2
  <2>5. QED
    BY <2>4
<1> HIDE DEF T
<1>4. 0 .. p \subseteq T
  BY <1>2, <1>3, Climb
<1>5. p \in 0 .. p
  OBVIOUS
<1>6. p \in T
  BY <1>4, <1>5
<1>7. QED
  BY <1>1, <1>6 DEF T, Agree

(* Behind the only star the value ends as the pattern does.                *)
LEMMA GlobSuffix ==
  ASSUME NEW body, NEW value, Len(value) \in Nat,
         NEW p \in Nat \ {0}, NEW n \in Nat, p <= n, OneStar(body, n, p),
         NEW none, none = {}, NEW after, Reaches(body, value, none, n, after)
  PROVE  Len(value) \in after[n] <=>
           n - 1 <= Len(value) /\ Agree(body, value, p - 1) /\ EndsAlike(body, value, n, p)
<1>1. PICK L \in Nat : L = Len(value)
  OBVIOUS
<1> DEFINE Begins == p - 1 <= L /\ Agree(body, value, p - 1)
           Is(j) == \A k : k \in after[p + j] <=>
                      /\ k \in 0 .. L /\ p - 1 + j <= k /\ Begins
                      /\ \A m \in 1 .. j : value[k - j + m] = body[p + m]
           T == {j \in 0 .. n - p : Is(j)}
<1>2. PICK q \in Nat : q = p - 1
  OBVIOUS
<1>3. \A k : k \in after[q] <=> k = q /\ Begins
  <2>1. StarFree(body, q) /\ Reaches(body, value, {}, q, after)
    BY <1>2 DEF OneStar, StarFree, Reaches
  <2>2. PICK stops : stops = {}
    OBVIOUS
  <2>3. Reaches(body, value, stops, q, after)
    BY <2>1, <2>2
  <2>4. \A k : k \in after[q] <=> k = q /\ q <= L /\ Agree(body, value, q)
    <3>1. ASSUME NEW k
          PROVE  k \in after[q] <=> k = q /\ q <= L /\ Agree(body, value, q)
      <4>1. Len(value) \in Nat
        OBVIOUS
      <4>2. k \in after[q] <=> k = q /\ q <= Len(value) /\ Agree(body, value, q)
        BY <2>1, <2>3, <4>1, GlobPrefix
      <4>3. QED
        BY <1>1, <4>2
    <3>2. QED
      BY <3>1
  <2>5. QED
    BY <1>2, <2>4
<1> HIDE DEF Begins
<1>4. 0 \in T
  <2>1. after[p] = Moved(body, value, {}, p, after[q])
    BY <1>2 DEF Reaches
  <2>2. body[p] = "*"
    BY DEF OneStar
  <2>3. after[p] = {k \in 0 .. L : \E j \in after[q] : j <= k}
    BY <1>1, <2>1, <2>2 DEF Moved
  <2>4. \A k : k \in after[p] <=> k \in 0 .. L /\ q <= k /\ Begins
    BY <1>3, <2>3
  <2>5. QED
    BY <1>2, <2>4
<1>5. ASSUME NEW j \in 1 .. n - p, j - 1 \in T
      PROVE  j \in T
  <2>1. PICK h \in Nat : h = j - 1
    OBVIOUS
  <2>2. PICK i \in Nat : i = p + j
    OBVIOUS
  <2>3. Is(h) /\ j = h + 1
    BY <1>5, <2>1
  <2>4. i \in 1 .. n /\ i # p /\ i - 1 = p + h
    BY <2>1, <2>2
  <2>5. after[i] = {k \in 1 .. L : k - 1 \in after[p + h] /\ value[k] = body[i]}
    BY <1>1, <2>4 DEF Moved, Reaches, OneStar
  <2>6. ASSUME NEW k \in 1 .. L
        PROVE  k - 1 \in after[p + h] <=>
                 p - 1 + j <= k /\ Begins /\ \A m \in 1 .. h : value[k - j + m] = body[p + m]
    <3>1. k - 1 \in 0 .. L /\ (p - 1 + h <= k - 1 <=> p - 1 + j <= k)
      BY <2>3
    <3>2. \A m \in 1 .. h : (k - 1) - h + m = k - j + m
      BY <2>3
    <3>3. k - 1 \in after[p + h] <=>
            /\ k - 1 \in 0 .. L /\ p - 1 + h <= k - 1 /\ Begins
            /\ \A m \in 1 .. h : value[(k - 1) - h + m] = body[p + m]
      BY <2>3
    <3>4. (\A m \in 1 .. h : value[(k - 1) - h + m] = body[p + m])
            <=> \A m \in 1 .. h : value[k - j + m] = body[p + m]
      BY <3>2
    <3>5. QED
      BY <3>1, <3>3, <3>4
  <2>7. ASSUME NEW k \in 1 .. L
        PROVE  (value[k] = body[i] /\ \A m \in 1 .. h : value[k - j + m] = body[p + m])
                 <=> \A m \in 1 .. j : value[k - j + m] = body[p + m]
    <3>1. k - j + j = k /\ p + j = i /\ j \in 1 .. j
      BY <2>2
    <3>2. \A m \in 1 .. j : m = j \/ m \in 1 .. h
      BY <2>3
    <3>3. 1 .. h \subseteq 1 .. j
      BY <2>3
    <3>4. QED
      BY <3>1, <3>2, <3>3
  <2>8. ASSUME NEW k
        PROVE  k \in after[i] <=>
                 /\ k \in 0 .. L /\ p - 1 + j <= k /\ Begins
                 /\ \A m \in 1 .. j : value[k - j + m] = body[p + m]
    <3>1. k \in 0 .. L /\ p - 1 + j <= k => k \in 1 .. L
      OBVIOUS
    <3>2. k \in after[i] => k \in 1 .. L
      BY <2>5
    <3>3. k \in 1 .. L => k \in 0 .. L
      OBVIOUS
    <3>4. QED
      BY <2>5, <2>6, <2>7, <3>1, <3>2, <3>3
  <2>9. Is(j)
    BY <2>2, <2>8
  <2>10. j \in 0 .. n - p
    OBVIOUS
  <2>11. QED
    BY <2>9, <2>10
<1> HIDE DEF T
<1>6. n - p \in Nat
  OBVIOUS
<1>7. 0 .. n - p \subseteq T
  BY <1>4, <1>5, <1>6, Climb
<1>8. n - p \in T
  BY <1>6, <1>7
<1>9. Is(n - p)
  BY <1>8 DEF T
<1>10. L \in after[n] <=> /\ L \in 0 .. L /\ p - 1 + (n - p) <= L /\ Begins
                         /\ \A m \in 1 .. n - p : value[L - (n - p) + m] = body[p + m]
  <2>1. p + (n - p) = n
    OBVIOUS
  <2>2. QED
    BY <1>9, <2>1
<1>11. p - 1 + (n - p) = n - 1 /\ L \in 0 .. L /\ (n - 1 <= L => p - 1 <= L)
  OBVIOUS
<1>12. QED
  BY <1>1, <1>10, <1>11 DEF Begins, EndsAlike

(* A suffix, atom by atom.                                                 *)
LEMMA SuffixMeaning ==
  ASSUME NEW S, NEW s \in Seq(S), NEW t \in Seq(S), Len(s) <= Len(t)
  PROVE  IsSuffix(s, t) <=> \A m \in 1 .. Len(s) : t[Len(t) - Len(s) + m] = s[m]
<1>1. PICK a \in Nat : a = Len(s)
  BY LenProperties
<1>2. PICK b \in Nat : b = Len(t) /\ a <= b
  BY <1>1, LenProperties
<1>3. PICK r : r = Reverse(s)
  OBVIOUS
<1>4. PICK u : u = Reverse(t)
  OBVIOUS
<1>5. r = [i \in 1 .. a |-> s[(a - i) + 1]] /\ u = [i \in 1 .. b |-> t[(b - i) + 1]]
  BY <1>1, <1>2, <1>3, <1>4 DEF Reverse
<1>6. r \in Seq(S) /\ u \in Seq(S) /\ Len(r) = a /\ Len(u) = b
  <2>1. ASSUME NEW i \in 1 .. a
        PROVE  s[(a - i) + 1] \in S
    <3>1. (a - i) + 1 \in 1 .. a
      OBVIOUS
    <3>2. QED
      BY <1>1, <3>1, ElementOfSeq
  <2>2. ASSUME NEW i \in 1 .. b
        PROVE  t[(b - i) + 1] \in S
    <3>1. (b - i) + 1 \in 1 .. b
      OBVIOUS
    <3>2. QED
      BY <1>2, <3>1, ElementOfSeq
  <2>3. r \in [1 .. a -> S] /\ u \in [1 .. b -> S]
    BY <1>5, <2>1, <2>2
  <2>4. r \in Seq(S) /\ u \in Seq(S)
    BY <2>3, SeqDef
  <2>5. r = [i \in 1 .. a |-> r[i]] /\ u = [i \in 1 .. b |-> u[i]]
    BY <1>5
  <2>6. QED
    BY <2>4, <2>5, FunctionIsList
<1>7. IsSuffix(s, t) <=> SubSeq(r, 1, a) = SubSeq(u, 1, a)
  BY <1>2, <1>3, <1>4, <1>6 DEF IsSuffix, IsPrefix
<1>8. SubSeq(r, 1, a) = r
  BY <1>6, SubSeqFull
<1>9. PICK v : v = SubSeq(u, 1, a)
  OBVIOUS
<1>10. v \in Seq(S) /\ Len(v) = a /\ \A i \in 1 .. a : v[i] = u[i]
  <2>1. \A i \in 1 .. a : u[i] \in S
    BY <1>2, <1>6, ElementOfSeq
  <2>2. /\ v \in Seq(S) /\ Len(v) = IF 1 <= a THEN a - 1 + 1 ELSE 0
        /\ \A i \in 1 .. a - 1 + 1 : v[i] = u[1 + i - 1]
    BY <1>9, <2>1, SubSeqProperties
  <2>3. QED
    BY <2>2
<1>11. r = v <=> \A i \in 1 .. a : r[i] = v[i]
  BY <1>6, <1>10, SeqEqual
<1>12. (\A i \in 1 .. a : r[i] = v[i]) <=> \A i \in 1 .. a : s[(a - i) + 1] = t[(b - i) + 1]
  <2>1. ASSUME NEW i \in 1 .. a
        PROVE  r[i] = s[(a - i) + 1] /\ v[i] = t[(b - i) + 1]
    <3>1. i \in 1 .. b
      BY <1>2
    <3>2. QED
      BY <1>5, <1>10, <3>1
  <2>2. QED
    BY <2>1
<1>13. (\A i \in 1 .. a : s[(a - i) + 1] = t[(b - i) + 1]) <=> \A m \in 1 .. a : t[b - a + m] = s[m]
  <2>1. ASSUME \A i \in 1 .. a : s[(a - i) + 1] = t[(b - i) + 1], NEW m \in 1 .. a
        PROVE  t[b - a + m] = s[m]
    <3>1. PICK i \in 1 .. a : i = a - m + 1
      OBVIOUS
    <3>2. (a - i) + 1 = m /\ (b - i) + 1 = b - a + m
      BY <3>1
    <3>3. s[(a - i) + 1] = t[(b - i) + 1]
      BY <2>1
    <3>4. QED
      BY <3>2, <3>3
  <2>2. ASSUME \A m \in 1 .. a : t[b - a + m] = s[m], NEW i \in 1 .. a
        PROVE  s[(a - i) + 1] = t[(b - i) + 1]
    <3>1. PICK m \in 1 .. a : m = a - i + 1
      OBVIOUS
    <3>2. (a - i) + 1 = m /\ (b - i) + 1 = b - a + m
      BY <3>1
    <3>3. t[b - a + m] = s[m]
      BY <2>2
    <3>4. QED
      BY <3>2, <3>3
  <2>3. QED
    BY <2>1, <2>2
<1>14. QED
  BY <1>1, <1>2, <1>7, <1>8, <1>9, <1>11, <1>12, <1>13

(* A prefix, atom by atom.                                                 *)
LEMMA PrefixMeaning ==
  ASSUME NEW S, NEW s \in Seq(S), NEW t \in Seq(S), Len(s) <= Len(t)
  PROVE  IsPrefix(s, t) <=> \A m \in 1 .. Len(s) : t[m] = s[m]
<1>1. PICK a \in Nat : a = Len(s)
  BY LenProperties
<1>2. PICK b \in Nat : b = Len(t) /\ a <= b
  BY <1>1, LenProperties
<1>3. IsPrefix(s, t) <=> SubSeq(s, 1, a) = SubSeq(t, 1, a)
  BY <1>1, <1>2 DEF IsPrefix
<1>4. SubSeq(s, 1, a) = s
  BY <1>1, SubSeqFull
<1>5. PICK v : v = SubSeq(t, 1, a)
  OBVIOUS
<1>6. v \in Seq(S) /\ Len(v) = a /\ \A i \in 1 .. a : v[i] = t[i]
  <2>1. \A i \in 1 .. a : t[i] \in S
    BY <1>2, ElementOfSeq
  <2>2. /\ v \in Seq(S) /\ Len(v) = IF 1 <= a THEN a - 1 + 1 ELSE 0
        /\ \A i \in 1 .. a - 1 + 1 : v[i] = t[1 + i - 1]
    BY <1>5, <2>1, SubSeqProperties
  <2>3. QED
    BY <2>2
<1>7. s = v <=> \A i \in 1 .. a : s[i] = v[i]
  BY <1>1, <1>6, SeqEqual
<1>8. QED
  BY <1>1, <1>3, <1>4, <1>5, <1>6, <1>7

(* The shortcut taken for each shape of pattern decides as the atoms do.   *)
LEMMA PatternMeaning ==
  ASSUME NEW body, IsList(body), NEW value, IsList(value)
  PROVE  PatternMatches(body, value) <=> Means(body, value)
<1>1. PICK n \in Nat : n = Len(body) /\ DOMAIN body = 1 .. n
  BY ListProperties
<1>2. PICK L \in Nat : L = Len(value) /\ DOMAIN value = 1 .. L
  BY ListProperties
<1>3. PICK X : X = ToSet(body) \cup ToSet(value)
  OBVIOUS
<1>4. body \in Seq(X) /\ value \in Seq(X)
  BY <1>3, SeqMonotonic DEF IsList
<1>5. PICK stars : stars = {i \in 1 .. n : body[i] = "*"}
  OBVIOUS
<1>6. PICK ends : ends = Cut(body, "*")
  OBVIOUS
<1>7. Cardinality(stars) \in Nat /\ (Cardinality(stars) = 0 <=> stars = {})
      /\ (Cardinality(stars) = 1 <=> \E p : stars = {p})
  <2>1. IsFiniteSet(stars)
    <3>1. IsFiniteSet(1 .. n)
      BY FS_Interval
    <3>2. stars \subseteq 1 .. n
      BY <1>5
    <3>3. QED
      BY <3>1, <3>2, FS_Subset
  <2>2. QED
    BY <2>1, FS_CardinalityType, FS_EmptySet, FS_Singleton
<1> DEFINE Several == \E i, j \in stars : i # j
<1>8. Several <=> stars # {} /\ \A p : stars # {p}
  OBVIOUS
<1>9. Several <=> Cardinality(stars) > 1
  BY <1>7, <1>8
<1>10. Means(body, value) <=> Glob(body, value, IF Several THEN NoDot ELSE {})
  BY <1>1, <1>5 DEF Means
<1>11. stars = {} => (PatternMatches(body, value) <=> value = body)
  <2>1. {i \in DOMAIN body : body[i] = "*"} = stars
    BY <1>1, <1>5
  <2>2. stars = {} => ~ (Cardinality(stars) > 1)
    BY <1>7
  <2>3. QED
    BY <2>1, <2>2 DEF PatternMatches
<1>12. Several => (PatternMatches(body, value) <=> Glob(body, value, NoDot))
  BY <1>1, <1>5, <1>7, <1>9 DEF PatternMatches
<1>13. stars # {} /\ ~ Several =>
         (PatternMatches(body, value) <=>
            /\ L >= Len(ends[1]) + Len(ends[2])
            /\ IsPrefix(ends[1], value) /\ IsSuffix(ends[2], value))
  BY <1>1, <1>2, <1>5, <1>6, <1>7, <1>9 DEF PatternMatches
<1>14. CASE Several
  BY <1>10, <1>12, <1>14
<1>15. PICK none : none = {}
  OBVIOUS
<1>16. PICK after : /\ Reaches(body, value, none, n, after)
                    /\ Glob(body, value, none) <=> L \in after[n]
  BY <1>1, <1>2, GlobInOrder
<1>17. CASE stars = {}
  <2>1. StarFree(body, n)
    BY <1>5, <1>17 DEF StarFree
  <2>2. L \in after[n] <=> L = n /\ n <= Len(value) /\ Agree(body, value, n)
    BY <1>2, <1>16, <2>1, GlobPrefix
  <2>3. value = body <=> L = n /\ \A m \in 1 .. n : value[m] = body[m]
    <3>1. ASSUME L = n, \A m \in 1 .. n : value[m] = body[m]
          PROVE  value = body
      BY <1>1, <1>2, <1>4, <3>1, SeqEqual
    <3>2. QED
      BY <1>1, <1>2, <3>1
  <2>4. ~ Several
    BY <1>17
  <2>5. QED
    BY <1>2, <1>10, <1>11, <1>15, <1>16, <1>17, <2>2, <2>3, <2>4 DEF Agree
<1>18. CASE stars # {} /\ ~ Several
  <2>1. PICK p \in 1 .. n : stars = {p}
    BY <1>5, <1>8, <1>18
  <2>2. \A m \in 1 .. n : body[m] = "*" <=> m = p
    BY <1>5, <2>1
  <2>3. p \in Nat \ {0} /\ p <= n
    OBVIOUS
  <2>4. L \in after[n] <=>
          /\ n - 1 <= L /\ Agree(body, value, p - 1)
          /\ \A m \in 1 .. n - p : value[L - (n - p) + m] = body[p + m]
    <3>1. OneStar(body, n, p)
      BY <2>2 DEF OneStar
    <3>2. none = {} /\ Reaches(body, value, none, n, after) /\ Len(value) \in Nat
      BY <1>2, <1>15, <1>16
    <3>3. Len(value) \in after[n] <=>
            n - 1 <= Len(value) /\ Agree(body, value, p - 1) /\ EndsAlike(body, value, n, p)
      BY <2>3, <3>1, <3>2, GlobSuffix
    <3>4. QED
      BY <1>2, <3>3 DEF EndsAlike
  <2>5. ends = <<SubSeq(body, 1, p - 1), SubSeq(body, p + 1, n)>>
    <3>1. PICK at \in 0 .. n :
            /\ ends = IF at = 0 THEN <<body, <<>>>>
                      ELSE <<SubSeq(body, 1, at - 1), SubSeq(body, at + 1, n)>>
            /\ at = 0 => \A i \in 1 .. n : body[i] # "*"
            /\ at # 0 => body[at] = "*" /\ \A i \in 1 .. at - 1 : body[i] # "*"
      BY <1>1, <1>4, <1>6, CutPlace
    <3>2. at = p
      <4>1. body[p] = "*"
        BY <2>2
      <4>2. at # 0
        BY <3>1, <4>1
      <4>3. at \in 1 .. n /\ body[at] = "*"
        BY <3>1, <4>2
      <4>4. QED
        BY <2>2, <4>3
    <3>3. QED
      BY <2>3, <3>1, <3>2
  <2>6. PICK head : head = SubSeq(body, 1, p - 1)
    OBVIOUS
  <2>7. PICK tail : tail = SubSeq(body, p + 1, n)
    OBVIOUS
  <2>8. /\ head \in Seq(X) /\ Len(head) = p - 1
        /\ \A m \in 1 .. p - 1 : head[m] = body[m]
    <3>1. \A i \in 1 .. p - 1 : body[i] \in X
      BY <1>1, <1>4, ElementOfSeq
    <3>2. /\ head \in Seq(X) /\ Len(head) = IF 1 <= p - 1 THEN (p - 1) - 1 + 1 ELSE 0
          /\ \A i \in 1 .. (p - 1) - 1 + 1 : head[i] = body[1 + i - 1]
      BY <2>6, <3>1, SubSeqProperties
    <3>3. QED
      BY <3>2
  <2>9. /\ tail \in Seq(X) /\ Len(tail) = n - p
        /\ \A m \in 1 .. n - p : tail[m] = body[p + m]
    <3>1. \A i \in p + 1 .. n : body[i] \in X
      BY <1>1, <1>4, ElementOfSeq
    <3>2. /\ tail \in Seq(X) /\ Len(tail) = IF p + 1 <= n THEN n - (p + 1) + 1 ELSE 0
          /\ \A i \in 1 .. n - (p + 1) + 1 : tail[i] = body[(p + 1) + i - 1]
      BY <2>7, <3>1, SubSeqProperties
    <3>3. QED
      BY <3>2
  <2>10. ends[1] = head /\ ends[2] = tail
    BY <2>5, <2>6, <2>7
  <2>11. L >= Len(head) + Len(tail) <=> n - 1 <= L
    BY <2>8, <2>9
  <2>12. n - 1 <= L => (IsPrefix(head, value) <=> Agree(body, value, p - 1))
    <3>1. SUFFICES ASSUME n - 1 <= L
                   PROVE  IsPrefix(head, value) <=> Agree(body, value, p - 1)
      OBVIOUS
    <3>2. Len(head) <= Len(value)
      BY <1>2, <2>8, <3>1
    <3>3. IsPrefix(head, value) <=> \A m \in 1 .. p - 1 : value[m] = head[m]
      BY <1>4, <2>8, <3>2, PrefixMeaning
    <3>4. QED
      BY <2>8, <3>3 DEF Agree
  <2>13. n - 1 <= L =>
           (IsSuffix(tail, value) <=> \A m \in 1 .. n - p : value[L - (n - p) + m] = body[p + m])
    <3>1. SUFFICES ASSUME n - 1 <= L
                   PROVE  IsSuffix(tail, value) <=>
                            \A m \in 1 .. n - p : value[L - (n - p) + m] = body[p + m]
      OBVIOUS
    <3>2. Len(tail) <= Len(value)
      BY <1>2, <2>9, <3>1
    <3>3. IsSuffix(tail, value) <=> \A m \in 1 .. n - p : value[L - (n - p) + m] = tail[m]
      <4>1. IsSuffix(tail, value) <=>
              \A m \in 1 .. Len(tail) : value[Len(value) - Len(tail) + m] = tail[m]
        BY <1>4, <2>9, <3>2, SuffixMeaning
      <4>2. QED
        BY <1>2, <2>9, <4>1
    <3>4. QED
      BY <2>9, <3>3
  <2>14. QED
    BY <1>10, <1>13, <1>15, <1>16, <1>18, <2>4, <2>10, <2>11, <2>12, <2>13
<1>19. QED
  BY <1>14, <1>17, <1>18

(* A set of patterns admits a value as its documentation says.             *)
LEMMA TextMeaning ==
  ASSUME NEW set, \A e \in set : IsPattern(e), NEW value, IsList(value)
  PROVE  SetMatches(set, value) <=> Text(set, value)
<1>1. \A e \in set : PatternMatches(e.body, value) <=> Means(e.body, value)
  BY PatternMeaning DEF IsPattern
<1>2. PICK hits : hits = {e \in set : PatternMatches(e.body, value)}
  OBVIOUS
<1>3. hits = {e \in set : Means(e.body, value)}
  BY <1>1, <1>2
<1>4. SetMatches(set, value) <=> Admits(set, hits)
  BY <1>2 DEF SetMatches
<1>5. Text(set, value) <=> (\A e \in hits : ~ e.neg) /\ (hits # {} \/ \A e \in set : e.neg)
  BY <1>3 DEF Text, Fits
<1>6. hits \subseteq set
  BY <1>2
<1>7. QED
  BY <1>4, <1>5, <1>6 DEF Admits

(* So does a set that is folded to lower case.                             *)
LEMMA FoldedMeaning ==
  ASSUME NEW set, \A e \in set : IsPattern(e), NEW value, IsList(value)
  PROVE  Insensitive(set, value) <=> Folded(set, value)
<1>1. PICK low : low = Translate(value, Lower)
  OBVIOUS
<1>2. IsList(low)
  BY <1>1, TranslateIsList
<1>3. ASSUME NEW e \in set
      PROVE  PatternMatches(Translate(e.body, Lower), low) <=> Means(Translate(e.body, Lower), low)
  <2>1. IsList(Translate(e.body, Lower))
    BY TranslateIsList DEF IsPattern
  <2>2. QED
    BY <1>2, <2>1, PatternMeaning
<1>4. PICK hits : hits = {e \in set : PatternMatches(Translate(e.body, Lower), low)}
  OBVIOUS
<1>5. hits = {e \in set : Means(Translate(e.body, Lower), low)}
  BY <1>3, <1>4
<1>6. Insensitive(set, value) <=> Admits(set, hits)
  BY <1>1, <1>4 DEF Insensitive
<1>7. Folded(set, value) <=> (\A e \in hits : ~ e.neg) /\ (hits # {} \/ \A e \in set : e.neg)
  BY <1>1, <1>5 DEF Folded, Fits
<1>8. hits \subseteq set
  BY <1>4
<1>9. QED
  BY <1>6, <1>7, <1>8 DEF Admits

(* Each bit of an octet halves what the ones before it left open.          *)
LEMMA BitHalves ==
  ASSUME NEW x \in 0 .. 255
  PROVE  /\ x \div Weight[1] = (x \div Weight[1]) % 2
         /\ \A j \in 2 .. 8 : x \div Weight[j] = 2 * (x \div Weight[j - 1]) + ((x \div Weight[j]) % 2)
         /\ \A j \in 1 .. 8 : x \div Weight[j] \in Nat
         /\ x \div Weight[8] = x
<1>1. PICK w : w = Weight
  OBVIOUS
<1>2. /\ w[1] = 128 /\ w[2] = 64 /\ w[3] = 32 /\ w[4] = 16
      /\ w[5] = 8 /\ w[6] = 4 /\ w[7] = 2 /\ w[8] = 1
  BY <1>1 DEF Weight
<1>3. /\ x \div 64 = 2 * (x \div 128) + ((x \div 64) % 2)
      /\ x \div 32 = 2 * (x \div 64) + ((x \div 32) % 2)
      /\ x \div 16 = 2 * (x \div 32) + ((x \div 16) % 2)
      /\ x \div 8 = 2 * (x \div 16) + ((x \div 8) % 2)
      /\ x \div 4 = 2 * (x \div 8) + ((x \div 4) % 2)
      /\ x \div 2 = 2 * (x \div 4) + ((x \div 2) % 2)
      /\ x \div 1 = 2 * (x \div 2) + ((x \div 1) % 2)
  OBVIOUS
<1>4. /\ x \div 128 \in Nat /\ x \div 64 \in Nat /\ x \div 32 \in Nat /\ x \div 16 \in Nat
      /\ x \div 8 \in Nat /\ x \div 4 \in Nat /\ x \div 2 \in Nat /\ x \div 1 = x
      /\ x \div 128 = (x \div 128) % 2
  OBVIOUS
<1>5. ASSUME NEW j \in 2 .. 8
      PROVE  x \div w[j] = 2 * (x \div w[j - 1]) + ((x \div w[j]) % 2)
  <2>1. j \in {2, 3, 4, 5, 6, 7, 8}
    OBVIOUS
  <2>2. CASE j = 2
    <3>1. w[j] = 64 /\ w[j - 1] = 128
      BY <1>2, <2>2
    <3>2. QED
      BY <1>3, <3>1
  <2>3. CASE j = 3
    <3>1. w[j] = 32 /\ w[j - 1] = 64
      BY <1>2, <2>3
    <3>2. QED
      BY <1>3, <3>1
  <2>4. CASE j = 4
    <3>1. w[j] = 16 /\ w[j - 1] = 32
      BY <1>2, <2>4
    <3>2. QED
      BY <1>3, <3>1
  <2>5. CASE j = 5
    <3>1. w[j] = 8 /\ w[j - 1] = 16
      BY <1>2, <2>5
    <3>2. QED
      BY <1>3, <3>1
  <2>6. CASE j = 6
    <3>1. w[j] = 4 /\ w[j - 1] = 8
      BY <1>2, <2>6
    <3>2. QED
      BY <1>3, <3>1
  <2>7. CASE j = 7
    <3>1. w[j] = 2 /\ w[j - 1] = 4
      BY <1>2, <2>7
    <3>2. QED
      BY <1>3, <3>1
  <2>8. CASE j = 8
    <3>1. w[j] = 1 /\ w[j - 1] = 2
      BY <1>2, <2>8
    <3>2. QED
      BY <1>3, <3>1
  <2>9. QED
    BY <2>1, <2>2, <2>3, <2>4, <2>5, <2>6, <2>7, <2>8
<1>6. ASSUME NEW j \in 1 .. 8
      PROVE  x \div w[j] \in Nat
  <2>1. j \in {1, 2, 3, 4, 5, 6, 7, 8}
    OBVIOUS
  <2>2. QED
    BY <1>2, <1>4, <2>1
<1>7. QED
  BY <1>1, <1>2, <1>4, <1>5, <1>6

(* The high bits agree where the quotients do.                             *)
LEMMA HighBits ==
  ASSUME NEW x \in 0 .. 255, NEW y \in 0 .. 255, NEW n \in 1 .. 8
  PROVE  x \div Weight[n] = y \div Weight[n] <=>
           \A j \in 1 .. n : (x \div Weight[j]) % 2 = (y \div Weight[j]) % 2
<1>1. PICK a : a = [j \in 1 .. 8 |-> x \div Weight[j]]
  OBVIOUS
<1>2. PICK b : b = [j \in 1 .. 8 |-> y \div Weight[j]]
  OBVIOUS
<1>3. /\ a[1] = a[1] % 2 /\ b[1] = b[1] % 2
      /\ \A j \in 2 .. 8 : a[j] = 2 * a[j - 1] + (a[j] % 2) /\ b[j] = 2 * b[j - 1] + (b[j] % 2)
      /\ \A j \in 1 .. 8 : a[j] \in Nat /\ b[j] \in Nat
  <2>1. \A j \in 2 .. 8 : j \in 1 .. 8 /\ j - 1 \in 1 .. 8
    OBVIOUS
  <2>2. /\ a[1] = a[1] % 2
        /\ \A j \in 2 .. 8 : a[j] = 2 * a[j - 1] + (a[j] % 2)
        /\ \A j \in 1 .. 8 : a[j] \in Nat
    <3>1. \A j \in 1 .. 8 : a[j] = x \div Weight[j]
      BY <1>1
    <3>2. a[1] = a[1] % 2
      <4>1. a[1] = x \div Weight[1]
        BY <3>1
      <4>2. x \div Weight[1] = (x \div Weight[1]) % 2
        BY BitHalves
      <4>3. QED
        BY <4>1, <4>2
    <3>3. ASSUME NEW j \in 2 .. 8
          PROVE  a[j] = 2 * a[j - 1] + (a[j] % 2)
      <4>1. a[j] = x \div Weight[j] /\ a[j - 1] = x \div Weight[j - 1]
        BY <2>1, <3>1
      <4>2. x \div Weight[j] = 2 * (x \div Weight[j - 1]) + ((x \div Weight[j]) % 2)
        BY BitHalves
      <4>3. QED
        BY <4>1, <4>2
    <3>4. \A j \in 1 .. 8 : a[j] \in Nat
      BY <3>1, BitHalves
    <3>5. QED
      BY <3>2, <3>3, <3>4
  <2>3. /\ b[1] = b[1] % 2
        /\ \A j \in 2 .. 8 : b[j] = 2 * b[j - 1] + (b[j] % 2)
        /\ \A j \in 1 .. 8 : b[j] \in Nat
    <3>1. \A j \in 1 .. 8 : b[j] = y \div Weight[j]
      BY <1>2
    <3>2. b[1] = b[1] % 2
      <4>1. b[1] = y \div Weight[1]
        BY <3>1
      <4>2. y \div Weight[1] = (y \div Weight[1]) % 2
        BY BitHalves
      <4>3. QED
        BY <4>1, <4>2
    <3>3. ASSUME NEW j \in 2 .. 8
          PROVE  b[j] = 2 * b[j - 1] + (b[j] % 2)
      <4>1. b[j] = y \div Weight[j] /\ b[j - 1] = y \div Weight[j - 1]
        BY <2>1, <3>1
      <4>2. y \div Weight[j] = 2 * (y \div Weight[j - 1]) + ((y \div Weight[j]) % 2)
        BY BitHalves
      <4>3. QED
        BY <4>1, <4>2
    <3>4. \A j \in 1 .. 8 : b[j] \in Nat
      BY <3>1, BitHalves
    <3>5. QED
      BY <3>2, <3>3, <3>4
  <2>4. QED
    BY <2>2, <2>3
<1> DEFINE Same(m) == a[m] = b[m] <=> \A j \in 1 .. m : a[j] % 2 = b[j] % 2
           T == {0} \cup {m \in 1 .. 8 : Same(m)}
<1>4. ASSUME NEW m \in 1 .. 8, m - 1 \in T
      PROVE  m \in T
  <2>1. CASE m = 1
    BY <1>3, <2>1
  <2>2. CASE m # 1
    <3>1. PICK h \in 1 .. 8 : h = m - 1
      BY <2>2
    <3>2. Same(h) /\ m = h + 1 /\ m \in 2 .. 8
      BY <1>4, <2>2, <3>1
    <3>3. /\ a[m] = 2 * a[h] + (a[m] % 2) /\ b[m] = 2 * b[h] + (b[m] % 2)
          /\ a[m] \in Nat /\ b[m] \in Nat /\ a[h] \in Nat /\ b[h] \in Nat
      BY <1>3, <3>1, <3>2
    <3>4. a[m] = b[m] <=> a[h] = b[h] /\ a[m] % 2 = b[m] % 2
      <4>1. PICK p \in Nat, q \in Nat, r \in Nat, s \in Nat : p = a[m] /\ q = b[m] /\ r = a[h] /\ s = b[h]
        BY <3>3
      <4>2. p = 2 * r + (p % 2) /\ q = 2 * s + (q % 2)
        BY <3>3, <4>1
      <4>3. p = q <=> r = s /\ p % 2 = q % 2
        BY <4>2
      <4>4. QED
        BY <4>1, <4>3
    <3>5. (\A j \in 1 .. m : a[j] % 2 = b[j] % 2) <=>
            a[m] % 2 = b[m] % 2 /\ \A j \in 1 .. h : a[j] % 2 = b[j] % 2
      <4>1. \A j : j \in 1 .. m <=> j = m \/ j \in 1 .. h
        BY <3>2
      <4>2. QED
        BY <4>1
    <3>6. QED
      BY <3>2, <3>4, <3>5
  <2>3. QED
    BY <2>1, <2>2
<1>5. 0 \in T
  OBVIOUS
<1> HIDE DEF T
<1>6. 0 .. 8 \subseteq T
  BY <1>4, <1>5, Climb
<1>7. n \in T
  BY <1>6
<1>8. Same(n)
  BY <1>7 DEF T
<1>9. \A j \in 1 .. n : j \in 1 .. 8
  OBVIOUS
<1>10. QED
  BY <1>1, <1>2, <1>8, <1>9

(* A block holds the addresses that agree with it in each bit of its       *)
(* prefix, although whole octets are compared first.                       *)
LEMMA CidrMeaning ==
  ASSUME NEW net \in Seq(0 .. 255), NEW ip \in Seq(0 .. 255), NEW prefix \in 0 .. 8 * Len(net)
  PROVE  CidrContains(net, prefix, ip) <=>
           Len(net) = Len(ip) /\ \A k \in 1 .. prefix : Bit(net, k) = Bit(ip, k)
<1>1. PICK n \in Nat : n = Len(net)
  BY LenProperties
<1>2. SUFFICES ASSUME n = Len(ip)
               PROVE  CidrContains(net, prefix, ip) <=>
                        \A k \in 1 .. prefix : Bit(net, k) = Bit(ip, k)
  BY <1>1 DEF CidrContains
<1>3. PICK full \in Nat : full = prefix \div 8
  BY <1>1
<1>4. PICK bits \in 0 .. 7 : bits = prefix % 8
  BY <1>1
<1>5. prefix \in Nat /\ prefix <= 8 * n /\ prefix = 8 * full + bits
  BY <1>1, <1>3, <1>4
<1>6. full <= n /\ (bits # 0 => full + 1 <= n)
  BY <1>5
<1>7. \A o \in 1 .. n : net[o] \in 0 .. 255 /\ ip[o] \in 0 .. 255
  BY <1>1, <1>2, ElementOfSeq
<1> DEFINE High(o, m) == net[o] \div Weight[m] = ip[o] \div Weight[m]
           Bits(o, m) == \A j \in 1 .. m : (net[o] \div Weight[j]) % 2 = (ip[o] \div Weight[j]) % 2
<1>8. \A o \in 1 .. n : \A m \in 1 .. 8 : High(o, m) <=> Bits(o, m)
  BY <1>7, HighBits
<1>9. \A o \in 1 .. n : net[o] = ip[o] <=> Bits(o, 8)
  <2>1. ASSUME NEW o \in 1 .. n
        PROVE  net[o] \div Weight[8] = net[o] /\ ip[o] \div Weight[8] = ip[o]
    BY <1>7, BitHalves
  <2>2. \A o \in 1 .. n : High(o, 8) <=> net[o] = ip[o]
    BY <2>1
  <2>3. 8 \in 1 .. 8
    OBVIOUS
  <2>4. \A o \in 1 .. n : High(o, 8) <=> Bits(o, 8)
    BY <1>8, <2>3
  <2>5. QED
    BY <2>2, <2>4
<1>10. SubSeq(net, 1, full) = SubSeq(ip, 1, full) <=> \A o \in 1 .. full : net[o] = ip[o]
  <2>1. PICK u : u = SubSeq(net, 1, full)
    OBVIOUS
  <2>2. PICK v : v = SubSeq(ip, 1, full)
    OBVIOUS
  <2>3. \A o \in 1 .. full : net[o] \in 0 .. 255 /\ ip[o] \in 0 .. 255
    BY <1>6, <1>7
  <2>4. /\ u \in Seq(0 .. 255) /\ Len(u) = IF 1 <= full THEN full - 1 + 1 ELSE 0
        /\ \A i \in 1 .. full - 1 + 1 : u[i] = net[1 + i - 1]
    BY <2>1, <2>3, SubSeqProperties
  <2>5. /\ v \in Seq(0 .. 255) /\ Len(v) = IF 1 <= full THEN full - 1 + 1 ELSE 0
        /\ \A i \in 1 .. full - 1 + 1 : v[i] = ip[1 + i - 1]
    BY <2>2, <2>3, SubSeqProperties
  <2>6. Len(u) = full /\ \A i \in 1 .. full : u[i] = net[i]
    BY <2>4
  <2>7. Len(v) = full /\ \A i \in 1 .. full : v[i] = ip[i]
    BY <2>5
  <2>8. u = v <=> \A i \in 1 .. full : u[i] = v[i]
    BY <2>4, <2>5, <2>6, <2>7, SeqEqual
  <2>9. QED
    BY <2>1, <2>2, <2>6, <2>7, <2>8
<1>11. CidrContains(net, prefix, ip) <=>
         /\ \A o \in 1 .. full : Bits(o, 8)
         /\ bits # 0 => Bits(full + 1, bits)
  <2>1. CidrContains(net, prefix, ip) <=>
          /\ \A o \in 1 .. full : net[o] = ip[o]
          /\ bits # 0 => High(full + 1, bits)
    BY <1>1, <1>2, <1>3, <1>4, <1>10 DEF CidrContains
  <2>2. (\A o \in 1 .. full : net[o] = ip[o]) <=> \A o \in 1 .. full : Bits(o, 8)
    <3>1. \A o \in 1 .. full : o \in 1 .. n
      BY <1>6
    <3>2. QED
      BY <1>9, <3>1
  <2>3. bits # 0 => (High(full + 1, bits) <=> Bits(full + 1, bits))
    <3>1. bits # 0 => full + 1 \in 1 .. n /\ bits \in 1 .. 8
      BY <1>6
    <3>2. QED
      BY <1>8, <3>1
  <2>4. QED
    BY <2>1, <2>2, <2>3
<1> DEFINE One(o, j) == (net[o] \div Weight[j]) % 2 = (ip[o] \div Weight[j]) % 2
<1>12. \A k \in 1 .. prefix :
         Bit(net, k) = Bit(ip, k) <=> One(((k - 1) \div 8) + 1, ((k - 1) % 8) + 1)
  BY DEF Bit
<1>13. ASSUME \A k \in 1 .. prefix : Bit(net, k) = Bit(ip, k),
              NEW o \in Nat \ {0}, NEW j \in 1 .. 8, 8 * (o - 1) + j <= prefix
       PROVE  One(o, j)
  <2>1. PICK k \in 1 .. prefix : k = 8 * (o - 1) + j
    BY <1>5, <1>13
  <2>2. ((k - 1) \div 8) + 1 = o /\ ((k - 1) % 8) + 1 = j
    <3>1. PICK h \in Nat : h = k - 1
      BY <1>5
    <3>2. PICK q \in Nat : q = o - 1
      OBVIOUS
    <3>3. PICK r \in 0 .. 7 : r = j - 1
      OBVIOUS
    <3>4. h = 8 * q + r
      BY <1>5, <2>1, <3>1, <3>2, <3>3
    <3>5. h \div 8 = q /\ h % 8 = r
      <4>1. h = 8 * (h \div 8) + (h % 8) /\ h \div 8 \in Nat /\ h % 8 \in 0 .. 7
        OBVIOUS
      <4>2. PICK a \in Nat, b \in 0 .. 7 : a = h \div 8 /\ b = h % 8
        BY <4>1
      <4>3. h = 8 * a + b
        BY <4>1, <4>2
      <4>4. 8 * a + b = 8 * q + r
        BY <3>4, <4>3
      <4>5. a = q /\ b = r
        BY <4>4
      <4>6. QED
        BY <4>2, <4>5
    <3>6. QED
      BY <3>1, <3>2, <3>3, <3>5
  <2>3. QED
    BY <1>12, <1>13, <2>2
<1> HIDE DEF One
<1>14. ASSUME \A k \in 1 .. prefix : Bit(net, k) = Bit(ip, k)
       PROVE  CidrContains(net, prefix, ip)
  <2>1. ASSUME NEW o \in 1 .. full, NEW j \in 1 .. 8
        PROVE  One(o, j)
    <3>1. 8 * (o - 1) + j <= prefix
      BY <1>5
    <3>2. QED
      BY <1>13, <1>14, <3>1
  <2>2. ASSUME bits # 0, NEW j \in 1 .. bits
        PROVE  One(full + 1, j)
    <3>1. 8 * ((full + 1) - 1) + j <= prefix /\ j \in 1 .. 8 /\ full + 1 \in Nat \ {0}
      BY <1>5, <2>2
    <3>2. QED
      BY <1>13, <1>14, <3>1
  <2>3. QED
    BY <1>11, <2>1, <2>2 DEF One
<1>15. ASSUME CidrContains(net, prefix, ip), NEW k \in 1 .. prefix
       PROVE  Bit(net, k) = Bit(ip, k)
  <2>1. PICK o \in Nat \ {0} : o = ((k - 1) \div 8) + 1
    BY <1>5
  <2>2. PICK j \in 1 .. 8 : j = ((k - 1) % 8) + 1
    BY <1>5
  <2>3. k = 8 * (o - 1) + j
    <3>1. PICK h \in Nat : h = k - 1
      BY <1>5
    <3>2. h = 8 * (h \div 8) + (h % 8) /\ h \div 8 \in Nat /\ h % 8 \in Nat
      OBVIOUS
    <3>3. PICK q \in Nat, r \in Nat : q = h \div 8 /\ r = h % 8
      BY <3>2
    <3>4. h = 8 * q + r /\ o = q + 1 /\ j = r + 1
      BY <2>1, <2>2, <3>1, <3>2, <3>3
    <3>5. QED
      BY <1>5, <3>1, <3>4
  <2>4. o \in 1 .. full \/ (o = full + 1 /\ bits # 0 /\ j \in 1 .. bits)
    BY <1>5, <2>3
  <2>5. (\A p \in 1 .. full : Bits(p, 8)) /\ (bits # 0 => Bits(full + 1, bits))
    BY <1>11, <1>15
  <2>6. One(o, j)
    BY <2>4, <2>5 DEF One
  <2>7. QED
    BY <1>12, <2>1, <2>2, <2>6
<1>16. QED
  BY <1>14, <1>15

(* A set of blocks admits an address as its documentation says.            *)
LEMMA BlockMeaning ==
  ASSUME NEW set, \A e \in set : IsBlock(e), NEW ip \in Seq(0 .. 255)
  PROVE  CidrMatches(set, ip) <=> Block(set, ip)
<1> DEFINE Holds(e) == Len(e.net) = Len(ip) /\ \A k \in 1 .. e.prefix : Bit(e.net, k) = Bit(ip, k)
<1>1. ASSUME NEW e \in set
      PROVE  CidrContains(e.net, e.prefix, ip) <=> Holds(e)
  <2>1. e.net \in Seq(0 .. 255) /\ e.prefix \in 0 .. 8 * Len(e.net)
    BY DEF IsBlock
  <2>2. QED
    BY <2>1, CidrMeaning
<1>2. PICK hits : hits = {e \in set : CidrContains(e.net, e.prefix, ip)}
  OBVIOUS
<1>3. hits = {e \in set : Holds(e)}
  BY <1>1, <1>2
<1>4. CidrMatches(set, ip) <=> Admits(set, hits)
  BY <1>2 DEF CidrMatches
<1>5. Block(set, ip) <=> (\A e \in hits : ~ e.neg) /\ (hits # {} \/ \A e \in set : e.neg)
  BY <1>3 DEF Block, Fits
<1>6. hits \subseteq set
  BY <1>2
<1>7. QED
  BY <1>4, <1>5, <1>6 DEF Admits

-----------------------------------------------------------------------------
(* What a step takes, and what it leaves behind.                           *)

(* A step matches the requests that suit it, if the arguments it names have *)
(* no capitals.                                                            *)
LEMMA StepMeaning ==
  ASSUME NEW step, \A m \in step.match : IsMatch(m),
         \A m \in step.match : \A a \in m.arguments : Translate(a.name, Lower) = a.name,
         NEW q, IsHead(q),
         NEW path, IsList(path), NEW query, IsList(query)
  PROVE  StepMatches(step, Meta(q), path, query) <=> SuitsStep(step, q, path, query)
<1>1. PICK meta : meta = Meta(q)
  OBVIOUS
<1>2. /\ meta.method = q.method /\ meta.host = Host(q)
      /\ meta.headers = q.headers /\ meta.remote = q.remote
  BY <1>1 DEF Meta
<1>3. \A name : IsList(FirstValue(q.headers, name))
  BY FirstValueIsList DEF IsHead
<1>4. \A name : IsList(FirstValue(parse_args(query), name))
  BY ArgumentsAreLists, FirstValueIsList
<1>5. IsList(HostName(Host(q))) /\ IsList(q.method) /\ q.remote \in Seq(0 .. 255)
  BY <1>3, HostNameIsList DEF Host, IsHead
<1>6. ASSUME NEW m \in step.match
      PROVE  (/\ SetMatches(m.method, meta.method)
              /\ Insensitive(m.host, HostName(meta.host))
              /\ SetMatches(m.uri, path)
              /\ SetMatches(m.query, query)
              /\ \A h \in m.headers : Insensitive(h.set, FirstValue(meta.headers, h.name))
              /\ \A a \in m.arguments :
                   SetMatches(a.set, FirstValue(parse_args(query), Translate(a.name, Lower)))
              /\ CidrMatches(m.source, meta.remote))
             <=> Suits(m, q, path, query)
  <2>1. /\ \A e \in m.method \cup m.host \cup m.uri \cup m.query : IsPattern(e)
        /\ \A p \in m.headers \cup m.arguments : \A e \in p.set : IsPattern(e)
        /\ \A e \in m.source : IsBlock(e)
    BY DEF IsMatch
  <2>2. SetMatches(m.method, meta.method) <=> Text(m.method, q.method)
    BY <1>2, <1>5, <2>1, TextMeaning
  <2>3. Insensitive(m.host, HostName(meta.host)) <=> Folded(m.host, HostName(Host(q)))
    BY <1>2, <1>5, <2>1, FoldedMeaning
  <2>4. SetMatches(m.uri, path) <=> Text(m.uri, path)
    BY <2>1, TextMeaning
  <2>5. SetMatches(m.query, query) <=> Text(m.query, query)
    BY <2>1, TextMeaning
  <2>6. ASSUME NEW h \in m.headers
        PROVE  Insensitive(h.set, FirstValue(meta.headers, h.name))
                 <=> Folded(h.set, FirstValue(q.headers, h.name))
    BY <1>2, <1>3, <2>1, FoldedMeaning
  <2>7. ASSUME NEW a \in m.arguments
        PROVE  SetMatches(a.set, FirstValue(parse_args(query), Translate(a.name, Lower)))
                 <=> Text(a.set, FirstValue(parse_args(query), a.name))
    BY <1>4, <2>1, TextMeaning
  <2>8. CidrMatches(m.source, meta.remote) <=> Block(m.source, q.remote)
    BY <1>2, <1>5, <2>1, BlockMeaning
  <2>9. QED
    BY <2>2, <2>3, <2>4, <2>5, <2>6, <2>7, <2>8 DEF Suits
<1>7. QED
  BY <1>1, <1>6 DEF StepMatches, SuitsStep

\* Routes as validation leaves them: matchers and templates that make sense.
Written(routes) ==
  \A r \in DOMAIN routes : \A i \in DOMAIN routes[r] :
    /\ \A m \in routes[r][i].match : IsMatch(m)
    /\ \A t \in routes[r][i].rewrite : IsTemplate(t) /\ TemplateCompiles(t)

\* The targets a walk has gone through, and the one it is at.
Texts(w) ==
  /\ IsList(w.path) /\ IsList(w.query) /\ IsList(w.trail)
  /\ \A k \in 1 .. Len(w.trail) : IsList(w.trail[k].path) /\ IsList(w.trail[k].query)

(* One turn of the walk keeps them lists of atoms.                         *)
LEMMA HopTexts ==
  ASSUME NEW routes, NEW pools, SoundRoutes(routes, pools), Written(routes),
         NEW meta, IsList(meta.host), IsList(meta.method),
         NEW w, w.route \in DOMAIN routes, w.over \in BOOLEAN, Texts(w),
         w = [trail |-> w.trail, route |-> w.route, path |-> w.path, query |-> w.query,
              ops |-> w.ops, over |-> w.over, decision |-> w.decision],
         NEW v, v = Hop(routes, meta, w)
  PROVE  Texts(v)
<1>1. PICK steps : steps = routes[w.route]
  OBVIOUS
<1>2. Len(steps) \in Nat /\ DOMAIN steps = 1 .. Len(steps)
  BY <1>1 DEF SoundRoutes
<1>3. PICK at : at = FirstMatch(steps, meta, w.path, w.query)
  OBVIOUS
<1>4. at = 0 \/ at \in DOMAIN steps
  BY <1>2, <1>3, FirstMatchMeaning
<1>5. CASE w.over \/ at = 0
  <2>1. v = [w EXCEPT !.over = TRUE]
    BY <1>1, <1>3, <1>5 DEF Hop
  <2>2. v.path = w.path /\ v.query = w.query /\ v.trail = w.trail
    BY <2>1
  <2>3. QED
    BY <2>2 DEF Texts
<1>6. CASE ~ w.over /\ at # 0
  <2>1. PICK step : step = steps[at]
    OBVIOUS
  <2>2. PICK here : here = [route |-> w.route, at |-> at, path |-> w.path, query |-> w.query]
    OBVIOUS
  <2>3. PICK left : left = Rewritten(step, meta, w.path, w.query)
    OBVIOUS
  <2>4. PICK t : t = Append(w.trail, here)
    OBVIOUS
  <2>5. v.trail = t /\ v.path = left[1] /\ v.query = left[2]
    BY <1>1, <1>3, <1>6, <2>1, <2>2, <2>3, <2>4 DEF Hop
  <2>6. \A text \in step.rewrite : IsTemplate(text) /\ TemplateCompiles(text)
    BY <1>1, <1>4, <1>6, <2>1 DEF Written
  <2>7. IsList(w.path) /\ IsList(w.query) /\ IsList(w.trail)
    BY DEF Texts
  <2>8. IsList(left[1]) /\ IsList(left[2])
    BY <2>3, <2>6, <2>7, RewrittenIsTwo
  <2>9. PICK len \in Nat : len = Len(w.trail)
    BY <2>7, ListProperties
  <2>10. /\ IsList(t) /\ Len(t) = len + 1 /\ t[len + 1] = here
         /\ \A k \in 1 .. len : t[k] = w.trail[k]
    BY <2>4, <2>7, <2>9, ListAppend
  <2>11. ASSUME NEW k \in 1 .. len + 1
         PROVE  IsList(t[k].path) /\ IsList(t[k].query)
    <3>1. CASE k = len + 1
      BY <2>2, <2>7, <2>10, <3>1
    <3>2. CASE k # len + 1
      <4>1. k \in 1 .. len
        BY <3>2
      <4>2. QED
        BY <2>9, <2>10, <4>1 DEF Texts
    <3>3. QED
      BY <3>1, <3>2
  <2>12. QED
    BY <2>5, <2>8, <2>10, <2>11 DEF Texts
<1>7. QED
  BY <1>5, <1>6

(* So does the whole walk.                                                 *)
LEMMA DecideTexts ==
  ASSUME NEW routes, NEW pools, SoundRoutes(routes, pools), Written(routes),
         NEW meta, IsList(meta.host), IsList(meta.method),
         NEW route \in DOMAIN routes, NEW path, IsList(path), NEW query, IsList(query)
  PROVE  Texts(decide(routes, route, meta, path, query))
<1>1. PICK start : start = [trail |-> <<>>, route |-> route, path |-> path, query |-> query,
                            ops |-> <<>>, over |-> FALSE, decision |-> NotFound]
  OBVIOUS
<1>2. Walked(routes, meta, start, 0) /\ Texts(start)
  <2>1. Walked(routes, meta, start, 0)
    BY <1>1, WalkStarts
  <2>2. start.path = path /\ start.query = query /\ start.trail = <<>>
    BY <1>1
  <2>3. IsList(<<>>) /\ Len(<<>>) = 0
    BY EmptySeq DEF IsList
  <2>4. QED
    BY <2>1, <2>2, <2>3 DEF Texts
<1>3. PICK turn : turn = Turns(routes, meta, start)
  OBVIOUS
<1>4. turn[0] = start /\ \A n \in 1 .. Hops : turn[n] = Hop(routes, meta, turn[n - 1])
  BY <1>3, TurnsInOrder
<1> DEFINE T == {n \in 0 .. Hops : Walked(routes, meta, turn[n], n) /\ Texts(turn[n])}
<1>5. 0 \in T
  BY <1>2, <1>4, HopsAssumption
<1>6. ASSUME NEW n \in 1 .. Hops, n - 1 \in T
      PROVE  n \in T
  <2>1. PICK m \in Nat : m = n - 1
    OBVIOUS
  <2>2. n = m + 1 /\ n \in 0 .. Hops
    BY <2>1, HopsAssumption
  <2>3. PICK w : w = turn[m]
    OBVIOUS
  <2>4. PICK v : v = turn[n]
    OBVIOUS
  <2>5. Walked(routes, meta, w, m) /\ Texts(w) /\ v = Hop(routes, meta, w)
    BY <1>4, <1>6, <2>1, <2>3, <2>4
  <2>6. Walked(routes, meta, v, m + 1)
    BY <2>5, HopKeeps
  <2>7. /\ w.route \in DOMAIN routes /\ w.over \in BOOLEAN
        /\ w = [trail |-> w.trail, route |-> w.route, path |-> w.path, query |-> w.query,
                ops |-> w.ops, over |-> w.over, decision |-> w.decision]
    BY <2>5 DEF Walked
  <2>8. Texts(v)
    BY <2>5, <2>7, HopTexts
  <2>9. QED
    BY <2>2, <2>4, <2>6, <2>8
<1> HIDE DEF T
<1>7. PICK h \in Nat : h = Hops
  BY HopsAssumption
<1>8. 0 .. h \subseteq T
  BY <1>5, <1>6, <1>7, Climb
<1>9. h \in T
  BY <1>7, <1>8
<1>10. Texts(turn[Hops])
  BY <1>7, <1>9 DEF T
<1>11. QED
  BY <1>1, <1>3, <1>10 DEF decide

\* A step has kept what it says besides applications.
Kept(step, new) ==
  /\ new.match = step.match /\ new.rewrite = step.rewrite
  /\ new.response_headers = step.response_headers
  /\ DOMAIN new.action = DOMAIN step.action
  /\ \A k \in DOMAIN step.action : new.action[k].location = step.action[k].location

(* Extraction leaves the rest of every step alone.                         *)
LEMMA ExtractedKeeps ==
  ASSUME NEW c, IsConfig(c), NEW routes, routes = Extracted(c.routes)
  PROVE  /\ DOMAIN routes = DOMAIN c.routes
         /\ \A r \in DOMAIN c.routes :
              /\ DOMAIN routes[r] = DOMAIN c.routes[r]
              /\ \A i \in DOMAIN c.routes[r] : Kept(c.routes[r][i], routes[r][i])
<1>1. DOMAIN routes = DOMAIN c.routes
  BY DEF Extracted
<1>2. ASSUME NEW r \in DOMAIN c.routes
      PROVE  DOMAIN routes[r] = DOMAIN c.routes[r]
  BY DEF Extracted
<1>3. ASSUME NEW r \in DOMAIN c.routes, NEW i \in DOMAIN c.routes[r],
             NEW step, step = c.routes[r][i], NEW new, new = routes[r][i]
      PROVE  Kept(step, new)
  <2>1. DOMAIN step = {"match", "rewrite", "response_headers", "action"}
    BY <1>3 DEF IsConfig, IsStep
  <2>2. PICK moved : moved = [k \in DOMAIN step.action |->
          IF step.action[k].application = {Inline}
          THEN [step.action[k] EXCEPT !.application = {<<r, i, k>>}] ELSE step.action[k]]
    OBVIOUS
  <2>3. new = [step EXCEPT !.action = moved]
    BY <1>3, <2>2 DEF Extracted
  <2>4. ASSUME NEW k \in DOMAIN step.action
        PROVE  moved[k].location = step.action[k].location
    <3>1. DOMAIN step.action[k] = {"application", "route", "share", "return", "location"}
      BY <1>3, <2>4 DEF IsConfig, IsStep, IsAction
    <3>2. QED
      BY <2>2, <3>1
  <2>5. DOMAIN moved = DOMAIN step.action
    BY <2>2
  <2>6. QED
    BY <2>1, <2>3, <2>4, <2>5 DEF Kept
<1>4. QED
  BY <1>1, <1>2, <1>3

(* So matchers and templates are those that validation has admitted.       *)
LEMMA ExtractedIsWritten ==
  ASSUME NEW c, IsConfig(c), Valid(c)
  PROVE  Written(Extracted(c.routes))
<1>1. PICK routes : routes = Extracted(c.routes)
  OBVIOUS
<1>2. ASSUME NEW r \in DOMAIN c.routes, NEW i \in DOMAIN c.routes[r]
      PROVE  /\ \A m \in c.routes[r][i].match : IsMatch(m)
             /\ \A t \in c.routes[r][i].rewrite : IsTemplate(t) /\ TemplateCompiles(t)
  <2>1. IsStep(c.routes[r][i])
    BY DEF IsConfig
  <2>2. \A t \in c.routes[r][i].rewrite : TemplateCompiles(t)
    BY DEF Valid
  <2>3. QED
    BY <2>1, <2>2 DEF IsStep
<1>3. QED
  BY <1>1, <1>2, ExtractedKeeps DEF Written, Kept

\* What the steps preserve about the texts that are compared.
TextInv ==
  /\ Up => Written(conf.routes)
  /\ phase = "decided" => IsHead(req.head)
  /\ Routed => Texts(walk)

(* It holds before anything is read.                                       *)
LEMMA TextInit ==
  ASSUME Init
  PROVE  TextInv
BY DEF Init, TextInv, Up, Routed

(* Only a head that is received puts texts into the walk.                  *)
LEMMA TextReceive ==
  ASSUME RouteInv, TextInv, NEW q \in Requests, NEW ask, ReceiveHead(q, ask)
  PROVE  TextInv'
<1>1. Up /\ phase' = "decided" /\ conf' = conf /\ req'.head = q
  BY DEF ReceiveHead, Up
<1>2. IsHead(q)
  BY RequestAssumption
<1>3. ~ conf.listener.status => Texts(walk')
  <2>1. SUFFICES ASSUME ~ conf.listener.status
                 PROVE  Texts(walk')
    OBVIOUS
  <2>2. PICK route : route = CHOOSE r \in conf.listener.route : TRUE
    OBVIOUS
  <2>3. route \in DOMAIN conf.routes
    BY <1>1, <2>1, <2>2 DEF RouteInv, ConfSound
  <2>4. PICK meta : meta = Meta(q)
    OBVIOUS
  <2>5. walk' = decide(conf.routes, route, meta, Path(q), Query(q))
    BY <2>1, <2>2, <2>4 DEF ReceiveHead
  <2>6. SoundRoutes(conf.routes, conf.pools) /\ Written(conf.routes)
    BY <1>1 DEF RouteInv, ConfSound, TextInv
  <2>7. IsList(meta.host) /\ IsList(meta.method)
    <3>1. IsList(Host(q)) /\ IsList(q.method)
      BY <1>2, FirstValueIsList DEF Host, IsHead
    <3>2. QED
      BY <2>4, <3>1 DEF Meta
  <2>8. IsList(Path(q)) /\ IsList(Query(q))
    <3>1. PICK X : q.target \in Seq(X)
      BY <1>2 DEF IsHead, IsList
    <3>2. IsList(Cut(q.target, "?")[1]) /\ IsList(Cut(q.target, "?")[2])
      BY <3>1, CutIsTwo, SeqIsList
    <3>3. QED
      BY <3>2, NormalIsList DEF Path, Query
  <2>9. QED
    BY <2>3, <2>5, <2>6, <2>7, <2>8, DecideTexts
<1>4. QED
  BY <1>1, <1>2, <1>3 DEF TextInv, Up, Routed

(* The other steps leave the walk, or the decision, behind.                *)
LEMMA TextNext ==
  ASSUME RouteInv, TextInv, [Next]_vars
  PROVE  TextInv'
<1>1. ASSUME UNCHANGED httpVars
      PROVE  TextInv'
  BY <1>1 DEF TextInv, Up, Routed, httpVars
<1>2. ASSUME Up, UNCHANGED conf, phase' # "decided"
      PROVE  TextInv'
  BY <1>2 DEF TextInv, Up, Routed
<1>3. CASE Boot
  <2>1. conf \in Configs /\ Valid(conf) /\ phase' = "idle" /\ conf'.routes = Extracted(conf.routes)
    BY <1>3 DEF Boot, RouteInv, ConfSound
  <2>2. IsConfig(conf)
    BY <2>1, ConfigAssumption
  <2>3. PICK c : c = conf
    OBVIOUS
  <2>4. Written(Extracted(c.routes))
    BY <2>1, <2>2, <2>3, ExtractedIsWritten
  <2>5. QED
    BY <2>1, <2>3, <2>4 DEF TextInv, Up, Routed
<1>4. CASE Reject
  BY <1>4 DEF Reject, TextInv, Up, Routed
<1>5. CASE \E q \in Requests : RefuseHead(q) \/ \E ask \in Asks(q) : ReceiveHead(q, ask)
  <2>1. PICK q \in Requests : RefuseHead(q) \/ \E ask \in Asks(q) : ReceiveHead(q, ask)
    BY <1>5
  <2>2. CASE RefuseHead(q)
    BY <1>2, <2>2 DEF RefuseHead, Up
  <2>3. CASE \E ask \in Asks(q) : ReceiveHead(q, ask)
    BY <2>3, TextReceive
  <2>4. QED
    BY <2>1, <2>2, <2>3
<1>6. CASE Connect \/ Leave \/ Finish_request \/ StartFile \/ EndFile \/ AppUpgrades \/ TunnelEnds
  BY <1>2, <1>6 DEF Connect, Leave, Finish_request, StartFile, EndFile, AppUpgrades, TunnelEnds, Up
<1>7. ASSUME NEW status, phase \notin {"boot", "refused"}, Reply(status)
      PROVE  TextInv'
  BY <1>2, <1>7 DEF Reply, Up
<1>8. CASE StatusPage \/ RefuseRewrite \/ AnswerNotFound \/ AnswerReturn \/ RedirectDirectory \/ AppAnswers
  BY <1>2, <1>7, <1>8 DEF StatusPage, RefuseRewrite, AnswerNotFound, AnswerReturn, RedirectDirectory,
     AppAnswers, Sharing, Routed, Up
<1>9. ASSUME NEW app, Routed, ToApp(app)
      PROVE  TextInv'
  BY <1>2, <1>9 DEF ToApp, Routed, Up
<1>10. CASE StartApp
  BY <1>9, <1>10 DEF StartApp
<1>11. CASE OpenFile
  BY <1>2, <1>11 DEF OpenFile, Sharing, Routed, Up
<1>12. CASE FallBack
  <2>1. Routed
    BY <1>12 DEF FallBack, Sharing
  <2>2. phase \notin {"boot", "refused"}
    BY <2>1 DEF Routed
  <2>3. (\E app : ToApp(app)) \/ (\E status : Reply(status))
    BY <1>12 DEF FallBack
  <2>4. QED
    BY <1>7, <1>9, <2>1, <2>2, <2>3
<1>13. CASE SendFile \/ TunnelStep \/ FilesChange \/ UNCHANGED vars
  BY <1>1, <1>13 DEF SendFile, TunnelStep, FilesChange, vars
<1>14. QED
  BY <1>3, <1>4, <1>5, <1>6, <1>8, <1>10, <1>11, <1>12, <1>13 DEF Next

(* Everything a matcher compares is a list of atoms, whatever was written, *)
(* sent and rewritten.                                                     *)
THEOREM TextsAreCompared == Spec => [](RouteInv /\ TextInv)
<1>1. Init => RouteInv /\ TextInv
  BY RouteInit, TextInit
<1>2. RouteInv /\ TextInv /\ [Next]_vars => RouteInv' /\ TextInv'
  BY RouteNext, TextNext
<1>3. QED
  BY <1>1, <1>2, PTL DEF Spec

\* Names that the configuration gives without capitals stay so.
NamesInv == Up => LowerNames(conf.routes)

(* Only the start of the process puts routes in place.                     *)
LEMMA OthersKeepConf ==
  ASSUME [Next]_vars
  PROVE  Boot \/ (UNCHANGED conf /\ (Up' => Up))
<1>1. CASE UNCHANGED vars
  BY <1>1 DEF vars, httpVars, Up
<1>2. CASE FallBack
  BY <1>2 DEF FallBack, Reply, ToApp, Sharing, Routed, Up
<1>3. CASE \/ Reject \/ Connect \/ Leave \/ Finish_request
           \/ \E q \in Requests : RefuseHead(q) \/ \E ask \in Asks(q) : ReceiveHead(q, ask)
           \/ StatusPage \/ RefuseRewrite \/ AnswerNotFound \/ AnswerReturn \/ StartApp
           \/ OpenFile \/ RedirectDirectory \/ StartFile \/ SendFile \/ EndFile
           \/ AppAnswers \/ AppUpgrades \/ TunnelStep \/ TunnelEnds \/ FilesChange
  BY <1>3 DEF Reject, Connect, Leave, Finish_request, RefuseHead, ReceiveHead, StatusPage,
     RefuseRewrite, AnswerNotFound, AnswerReturn, StartApp, OpenFile, RedirectDirectory, StartFile,
     SendFile, EndFile, AppAnswers, AppUpgrades, TunnelStep, TunnelEnds, FilesChange, Reply, ToApp,
     Sharing, Routed, Up, httpVars
<1>4. QED
  BY <1>1, <1>2, <1>3 DEF Next

(* No capital gets into the names by extraction.                           *)
LEMMA NamesKept ==
  ASSUME \A c \in Configs : LowerNames(c.routes)
  PROVE  Spec => []NamesInv
<1>1. Init => NamesInv
  BY DEF Init, NamesInv, Up
<1>2. RouteInv /\ NamesInv /\ [Next]_vars => NamesInv'
  <2>1. SUFFICES ASSUME RouteInv, NamesInv, [Next]_vars
                 PROVE  NamesInv'
    OBVIOUS
  <2>2. CASE Boot
    <3>1. conf \in Configs /\ conf'.routes = Extracted(conf.routes)
      BY <2>1, <2>2 DEF Boot, RouteInv, ConfSound
    <3>2. PICK c : c = conf
      OBVIOUS
    <3>3. PICK routes : routes = Extracted(c.routes)
      OBVIOUS
    <3>4. IsConfig(c) /\ LowerNames(c.routes)
      BY <3>1, <3>2, ConfigAssumption
    <3>5. LowerNames(routes)
      <4>1. ASSUME NEW r \in DOMAIN routes, NEW i \in DOMAIN routes[r],
                   NEW m \in routes[r][i].match, NEW a \in m.arguments
            PROVE  Translate(a.name, Lower) = a.name
        <5>1. r \in DOMAIN c.routes /\ i \in DOMAIN c.routes[r]
          BY <3>3, <3>4, ExtractedKeeps
        <5>2. Kept(c.routes[r][i], routes[r][i])
          BY <3>3, <3>4, <5>1, ExtractedKeeps
        <5>3. m \in c.routes[r][i].match
          BY <5>2 DEF Kept
        <5>4. QED
          BY <3>4, <5>1, <5>3 DEF LowerNames
      <4>2. QED
        BY <4>1 DEF LowerNames
    <3>6. QED
      BY <3>1, <3>2, <3>3, <3>5 DEF NamesInv
  <2>3. CASE UNCHANGED conf /\ (Up' => Up)
    BY <2>1, <2>3 DEF NamesInv
  <2>4. QED
    BY <2>1, <2>2, <2>3, OthersKeepConf
<1>3. QED
  BY <1>1, <1>2, RequestIsRouted, PTL DEF Spec

(* A route takes its first step that suits the request, as the             *)
(* documentation says what a match is, and a request is left without an    *)
(* action only where nothing suits or the hops are used up: for every      *)
(* configuration whose arguments are named without capitals. With a        *)
(* capital it does not hold, since the code lowers the name.               *)
THEOREM FirstMatchIsTaken ==
  ASSUME \A c \in Configs : LowerNames(c.routes)
  PROVE  Spec => []FirstMatchWins
<1>1. ASSUME RouteInv, TextInv, NamesInv, Routed
      PROVE  FirstMatchWins
  <2>1. PICK q : q = req.head
    OBVIOUS
  <2>2. PICK routes : routes = conf.routes
    OBVIOUS
  <2>3. Up /\ IsHead(q) /\ Texts(walk) /\ Written(routes)
    BY <1>1, <2>1, <2>2 DEF TextInv, Up, Routed
  <2>4. SoundRoutes(routes, conf.pools)
    BY <1>1, <2>2, <2>3 DEF RouteInv, ConfSound
  <2>5. Walked(routes, Meta(q), walk, Hops)
    BY <1>1, <2>1, <2>2 DEF RouteInv, HeadSound
  <2>6. ASSUME NEW r \in DOMAIN routes, NEW i \in DOMAIN routes[r],
               NEW path, IsList(path), NEW query, IsList(query)
        PROVE  StepMatches(routes[r][i], Meta(q), path, query) <=> SuitsStep(routes[r][i], q, path, query)
    <3>1. \A m \in routes[r][i].match : IsMatch(m)
      BY <2>3 DEF Written
    <3>2. \A m \in routes[r][i].match : \A a \in m.arguments : Translate(a.name, Lower) = a.name
      BY <1>1, <2>2, <2>3 DEF NamesInv, LowerNames
    <3>3. QED
      BY <2>3, <2>6, <3>1, <3>2, StepMeaning
  <2>7. DOMAIN walk.trail = 1 .. Len(walk.trail)
    BY <2>3, ListProperties DEF Texts
  <2>8. ASSUME NEW k \in DOMAIN walk.trail, NEW here, here = walk.trail[k]
        PROVE  /\ SuitsStep(routes[here.route][here.at], q, here.path, here.query)
               /\ \A i \in 1 .. here.at - 1 :
                    ~ SuitsStep(routes[here.route][i], q, here.path, here.query)
    <3>1. TakesFirst(routes, Meta(q), here)
      BY <2>5, <2>7, <2>8 DEF Walked
    <3>2. IsList(here.path) /\ IsList(here.query)
      BY <2>3, <2>7, <2>8 DEF Texts
    <3>3. here.route \in DOMAIN routes /\ here.at \in DOMAIN routes[here.route]
      BY <3>1 DEF TakesFirst
    <3>4. DOMAIN routes[here.route] = 1 .. Len(routes[here.route]) /\ Len(routes[here.route]) \in Nat
      BY <2>4, <3>3 DEF SoundRoutes
    <3>5. \A i \in 1 .. here.at - 1 : i \in DOMAIN routes[here.route]
      BY <3>3, <3>4
    <3>6. StepMatches(routes[here.route][here.at], Meta(q), here.path, here.query)
      BY <3>1 DEF TakesFirst
    <3>7. \A i \in 1 .. here.at - 1 :
            ~ StepMatches(routes[here.route][i], Meta(q), here.path, here.query)
      BY <3>1 DEF TakesFirst
    <3>8. QED
      BY <2>6, <3>2, <3>3, <3>5, <3>6, <3>7
  <2>9. ASSUME walk.decision = NotFound, Len(walk.trail) # Hops
        PROVE  \A i \in DOMAIN routes[walk.route] :
                 ~ SuitsStep(routes[walk.route][i], q, walk.path, walk.query)
    <3>1. NothingFits(routes, Meta(q), walk) /\ walk.route \in DOMAIN routes
      BY <2>5, <2>9 DEF Walked
    <3>2. IsList(walk.path) /\ IsList(walk.query)
      BY <2>3 DEF Texts
    <3>3. QED
      BY <2>6, <3>1, <3>2 DEF NothingFits
  <2>10. QED
    BY <2>1, <2>2, <2>8, <2>9 DEF FirstMatchWins
<1>2. RouteInv /\ TextInv /\ NamesInv => FirstMatchWins
  BY <1>1 DEF FirstMatchWins
<1>3. QED
  BY <1>2, TextsAreCompared, NamesKept, PTL

\* Nothing a configuration puts into a header has a line break in it.
Unbroken(routes) ==
  \A r \in DOMAIN routes : \A i \in DOMAIN routes[r] :
    LET step == routes[r][i]
    IN  /\ \A k \in DOMAIN step.response_headers : ~ reject_header_control(step.response_headers[k])
        /\ \A k \in DOMAIN step.action :
             \A text \in step.action[k].location : ~ reject_header_control(text)

\* Nor has what a walk has gathered.
Gathered(w) ==
  /\ IsList(w.ops) /\ \A k \in DOMAIN w.ops : ~ reject_header_control(w.ops[k])
  /\ \A k \in DOMAIN w.decision :
       \A text \in w.decision[k].location : ~ reject_header_control(text)

(* Validation has looked at all of it.                                     *)
LEMMA ExtractedIsUnbroken ==
  ASSUME NEW c, IsConfig(c), Valid(c)
  PROVE  Unbroken(Extracted(c.routes))
<1>1. PICK routes : routes = Extracted(c.routes)
  OBVIOUS
<1>2. ASSUME NEW r \in DOMAIN c.routes, NEW i \in DOMAIN c.routes[r],
             NEW step, step = c.routes[r][i]
      PROVE  /\ \A k \in DOMAIN step.response_headers : ~ reject_header_control(step.response_headers[k])
             /\ \A k \in DOMAIN step.action :
                  \A text \in step.action[k].location : ~ reject_header_control(text)
  <2>1. \A k \in DOMAIN step.response_headers : ~ reject_header_control(step.response_headers[k])
    BY <1>2 DEF Valid
  <2>2. ASSUME NEW k \in DOMAIN step.action
        PROVE  \A text \in step.action[k].location : ~ reject_header_control(text)
    <3>1. PICK p : p = <<r, i, k>>
      OBVIOUS
    <3>2. p \in Places(c.routes)
      BY <1>2, <3>1, PlacesMeaning
    <3>3. ValidAction(c, p)
      BY <3>2 DEF Valid
    <3>4. c.routes[p[1]][p[2]].action[p[3]] = step.action[k]
      BY <1>2, <3>1
    <3>5. QED
      BY <3>3, <3>4 DEF ValidAction
  <2>3. QED
    BY <2>1, <2>2
<1>3. ASSUME NEW r \in DOMAIN routes, NEW i \in DOMAIN routes[r], NEW step, step = routes[r][i]
      PROVE  /\ \A k \in DOMAIN step.response_headers : ~ reject_header_control(step.response_headers[k])
             /\ \A k \in DOMAIN step.action :
                  \A text \in step.action[k].location : ~ reject_header_control(text)
  <2>1. r \in DOMAIN c.routes /\ i \in DOMAIN c.routes[r]
    BY <1>1, ExtractedKeeps
  <2>2. PICK old : old = c.routes[r][i]
    OBVIOUS
  <2>3. Kept(old, step)
    BY <1>1, <1>3, <2>1, <2>2, ExtractedKeeps
  <2>4. QED
    BY <1>2, <2>1, <2>2, <2>3 DEF Kept
<1>4. QED
  BY <1>1, <1>3 DEF Unbroken

(* One turn of the walk gathers nothing else.                              *)
LEMMA HopGathers ==
  ASSUME NEW routes, NEW pools, SoundRoutes(routes, pools), Unbroken(routes), NEW meta,
         NEW w, w.route \in DOMAIN routes, w.over \in BOOLEAN, Gathered(w),
         w = [trail |-> w.trail, route |-> w.route, path |-> w.path, query |-> w.query,
              ops |-> w.ops, over |-> w.over, decision |-> w.decision],
         NEW v, v = Hop(routes, meta, w)
  PROVE  Gathered(v)
<1>1. PICK steps : steps = routes[w.route]
  OBVIOUS
<1>2. Len(steps) \in Nat /\ DOMAIN steps = 1 .. Len(steps)
  BY <1>1 DEF SoundRoutes
<1>3. PICK at : at = FirstMatch(steps, meta, w.path, w.query)
  OBVIOUS
<1>4. at = 0 \/ at \in DOMAIN steps
  BY <1>2, <1>3, FirstMatchMeaning
<1>5. CASE w.over \/ at = 0
  <2>1. v = [w EXCEPT !.over = TRUE]
    BY <1>1, <1>3, <1>5 DEF Hop
  <2>2. v.ops = w.ops /\ v.decision = w.decision
    BY <2>1
  <2>3. QED
    BY <2>2 DEF Gathered
<1>6. CASE ~ w.over /\ at # 0
  <2>1. PICK step : step = steps[at]
    OBVIOUS
  <2>2. PICK goto : goto = step.action[1].route
    OBVIOUS
  <2>3. /\ v.ops = w.ops \o step.response_headers
        /\ v.decision = IF goto = {} THEN step.action ELSE NotFound
    BY <1>1, <1>3, <1>6, <2>1, <2>2 DEF Hop
  <2>4. /\ IsList(step.response_headers)
        /\ \A k \in DOMAIN step.response_headers : ~ reject_header_control(step.response_headers[k])
        /\ \A k \in DOMAIN step.action :
             \A text \in step.action[k].location : ~ reject_header_control(text)
    BY <1>1, <1>4, <1>6, <2>1 DEF SoundRoutes, Unbroken
  <2>5. IsList(w.ops) /\ \A k \in DOMAIN w.ops : ~ reject_header_control(w.ops[k])
    BY DEF Gathered
  <2>6. IsList(v.ops) /\ \A k \in DOMAIN v.ops : ~ reject_header_control(v.ops[k])
    <3>1. PICK a : a = w.ops
      OBVIOUS
    <3>2. PICK b : b = step.response_headers
      OBVIOUS
    <3>3. PICK S : a \in Seq(S) /\ b \in Seq(S)
      <4>1. a \in Seq(ToSet(a) \cup ToSet(b)) /\ b \in Seq(ToSet(a) \cup ToSet(b))
        BY <2>4, <2>5, <3>1, <3>2, SeqMonotonic DEF IsList
      <4>2. QED
        BY <4>1
    <3>4. PICK m \in Nat, n \in Nat : /\ m = Len(a) /\ DOMAIN a = 1 .. m
                                      /\ n = Len(b) /\ DOMAIN b = 1 .. n
      BY <3>3, LenProperties
    <3>5. PICK c : c = a \o b
      OBVIOUS
    <3>6. c \in Seq(S) /\ DOMAIN c = 1 .. m + n
          /\ \A k \in 1 .. m + n : c[k] = IF k <= m THEN a[k] ELSE b[k - m]
      BY <3>3, <3>4, <3>5, ConcatProperties, LenProperties
    <3>7. ASSUME NEW k \in 1 .. m + n
          PROVE  ~ reject_header_control(c[k])
      <4>1. CASE k <= m
        BY <2>5, <3>1, <3>4, <3>6, <4>1
      <4>2. CASE ~(k <= m)
        <5>1. k - m \in 1 .. n
          BY <4>2
        <5>2. QED
          BY <2>4, <3>2, <3>4, <3>6, <4>2, <5>1
      <4>3. QED
        BY <4>1, <4>2
    <3>8. IsList(c)
      BY <3>6, SeqIsList
    <3>9. QED
      BY <2>3, <3>1, <3>2, <3>5, <3>6, <3>7, <3>8
  <2>7. \A k \in DOMAIN v.decision :
          \A text \in v.decision[k].location : ~ reject_header_control(text)
    BY <2>3, <2>4, EmptySeq DEF NotFound
  <2>8. QED
    BY <2>6, <2>7 DEF Gathered
<1>7. QED
  BY <1>5, <1>6

(* So does the whole walk.                                                 *)
LEMMA DecideGathers ==
  ASSUME NEW routes, NEW pools, SoundRoutes(routes, pools), Unbroken(routes), NEW meta,
         NEW route \in DOMAIN routes, NEW path, NEW query
  PROVE  Gathered(decide(routes, route, meta, path, query))
<1>1. PICK start : start = [trail |-> <<>>, route |-> route, path |-> path, query |-> query,
                            ops |-> <<>>, over |-> FALSE, decision |-> NotFound]
  OBVIOUS
<1>2. Walked(routes, meta, start, 0) /\ Gathered(start)
  <2>1. Walked(routes, meta, start, 0)
    BY <1>1, WalkStarts
  <2>2. start.ops = <<>> /\ start.decision = <<>>
    BY <1>1 DEF NotFound
  <2>3. IsList(<<>>) /\ DOMAIN <<>> = {}
    BY EmptySeq DEF IsList
  <2>4. QED
    BY <2>1, <2>2, <2>3 DEF Gathered
<1>3. PICK turn : turn = Turns(routes, meta, start)
  OBVIOUS
<1>4. turn[0] = start /\ \A n \in 1 .. Hops : turn[n] = Hop(routes, meta, turn[n - 1])
  BY <1>3, TurnsInOrder
<1> DEFINE T == {n \in 0 .. Hops : Walked(routes, meta, turn[n], n) /\ Gathered(turn[n])}
<1>5. 0 \in T
  BY <1>2, <1>4, HopsAssumption
<1>6. ASSUME NEW n \in 1 .. Hops, n - 1 \in T
      PROVE  n \in T
  <2>1. PICK m \in Nat : m = n - 1
    OBVIOUS
  <2>2. n = m + 1 /\ n \in 0 .. Hops
    BY <2>1, HopsAssumption
  <2>3. PICK w : w = turn[m]
    OBVIOUS
  <2>4. PICK v : v = turn[n]
    OBVIOUS
  <2>5. Walked(routes, meta, w, m) /\ Gathered(w) /\ v = Hop(routes, meta, w)
    BY <1>4, <1>6, <2>1, <2>3, <2>4
  <2>6. Walked(routes, meta, v, m + 1)
    BY <2>5, HopKeeps
  <2>7. /\ w.route \in DOMAIN routes /\ w.over \in BOOLEAN
        /\ w = [trail |-> w.trail, route |-> w.route, path |-> w.path, query |-> w.query,
                ops |-> w.ops, over |-> w.over, decision |-> w.decision]
    BY <2>5 DEF Walked
  <2>8. Gathered(v)
    BY <2>5, <2>7, HopGathers
  <2>9. QED
    BY <2>2, <2>4, <2>6, <2>8
<1> HIDE DEF T
<1>7. PICK h \in Nat : h = Hops
  BY HopsAssumption
<1>8. 0 .. h \subseteq T
  BY <1>5, <1>6, <1>7, Climb
<1>9. h \in T
  BY <1>7, <1>8
<1>10. Gathered(turn[Hops])
  BY <1>7, <1>9 DEF T
<1>11. QED
  BY <1>1, <1>3, <1>10 DEF decide

\* Phases in which the request has gone through the routes.
Walking == phase \in Sunk \cup {"decided"} /\ ~ conf.listener.status

\* What the steps preserve about the headers.
GatherInv == (Up => Unbroken(conf.routes)) /\ (Walking => Gathered(walk))

(* The start brings in what validation looked at, a head the walk over it; *)
(* the rest leaves both alone or ends the request.                         *)
LEMMA GatherNext ==
  ASSUME RouteInv, GatherInv, [Next]_vars
  PROVE  GatherInv'
<1>1. CASE Boot
  <2>1. conf \in Configs /\ Valid(conf) /\ phase' = "idle" /\ conf'.routes = Extracted(conf.routes)
    BY <1>1 DEF Boot, RouteInv, ConfSound
  <2>2. PICK c : c = conf
    OBVIOUS
  <2>3. IsConfig(c) /\ Valid(c)
    BY <2>1, <2>2, ConfigAssumption
  <2>4. Unbroken(Extracted(c.routes))
    BY <2>3, ExtractedIsUnbroken
  <2>5. QED
    BY <2>1, <2>2, <2>4 DEF GatherInv, Walking, Sunk, Acting
<1>2. ASSUME NEW q, NEW ask, ReceiveHead(q, ask)
      PROVE  GatherInv'
  <2>1. Up /\ phase' = "decided" /\ conf' = conf
    BY <1>2 DEF ReceiveHead, Up
  <2>2. ~ conf.listener.status => Gathered(walk')
    <3>1. SUFFICES ASSUME ~ conf.listener.status
                   PROVE  Gathered(walk')
      OBVIOUS
    <3>2. PICK route : route = CHOOSE r \in conf.listener.route : TRUE
      OBVIOUS
    <3>3. route \in DOMAIN conf.routes
      BY <2>1, <3>1, <3>2 DEF RouteInv, ConfSound
    <3>4. walk' = decide(conf.routes, route, Meta(q), Path(q), Query(q))
      BY <1>2, <3>1, <3>2 DEF ReceiveHead
    <3>5. SoundRoutes(conf.routes, conf.pools) /\ Unbroken(conf.routes)
      BY <2>1 DEF RouteInv, ConfSound, GatherInv
    <3>6. QED
      BY <3>3, <3>4, <3>5, DecideGathers
  <2>3. QED
    BY <2>1, <2>2 DEF GatherInv, Walking, Up
<1>3. CASE /\ UNCHANGED conf /\ (Up' => Up)
           /\ Walking' => UNCHANGED walk /\ Walking
  BY <1>3 DEF GatherInv
<1>4. CASE FallBack
  BY <1>3, <1>4 DEF FallBack, Reply, ToApp, Sharing, Routed, Up, Walking
<1>5. CASE UNCHANGED vars
  BY <1>3, <1>5 DEF vars, httpVars, Up, Walking
<1>6. CASE \/ Reject \/ Connect \/ Leave \/ Finish_request \/ RefuseRewrite \/ AppUpgrades \/ TunnelStep
           \/ TunnelEnds \/ FilesChange \/ \E q \in Requests : RefuseHead(q)
  BY <1>3, <1>6 DEF Reject, Connect, Leave, Finish_request, RefuseRewrite, AppUpgrades, TunnelStep,
     TunnelEnds, FilesChange, RefuseHead, Routed, Up, Walking, Sunk, Acting, httpVars
<1>7. CASE \/ StatusPage \/ AnswerNotFound \/ AnswerReturn \/ StartApp \/ OpenFile \/ RedirectDirectory
           \/ StartFile \/ SendFile \/ EndFile \/ AppAnswers
  BY <1>3, <1>7 DEF StatusPage, AnswerNotFound, AnswerReturn, StartApp, OpenFile, RedirectDirectory,
     StartFile, SendFile, EndFile, AppAnswers, Reply, ToApp, Sharing, Routed, Up, Walking, Sunk,
     Acting, httpVars
<1>8. QED
  BY <1>1, <1>2, <1>4, <1>5, <1>6, <1>7 DEF Next

(* No control byte of the target or the Host header gets to an             *)
(* application, a file or the Location that sends on from a directory,     *)
(* after any number of rewrites; and no header of the configuration, its   *)
(* Locations included, has a line break.                                   *)
THEOREM NoControlByteGetsThrough == Spec => []SinksClean
<1>1. Init => GatherInv
  BY DEF Init, GatherInv, Up, Walking, Sunk, Acting
<1>2. RouteInv /\ GatherInv => SinksClean
  <2>1. SUFFICES ASSUME RouteInv, GatherInv, phase \in Sunk, ~ conf.listener.status
                 PROVE  SinksClean
    BY DEF SinksClean, Sunk, Acting
  <2>2. Clean /\ Refusal(req.head) = 0 /\ Gathered(walk)
    BY <2>1 DEF RouteInv, HeadSound, GatherInv, Walking, Sunk
  <2>3. ~ has_control_byte(Host(req.head))
    BY <2>2 DEF Refusal
  <2>4. QED
    BY <2>2, <2>3 DEF SinksClean, Clean, Gathered
<1>3. QED
  BY <1>1, <1>2, GatherNext, RequestIsRouted, PTL DEF Spec

-----------------------------------------------------------------------------
(* The file: what is opened is what the share may send.                    *)

(* What is named like a source has its extension, whatever is trimmed.     *)
LEMMA SourceMeaning ==
  ASSUME NEW name, IsList(name), NEW ext, IsSource(name, ext)
  PROVE  SourceExt(name) = ext
<1>1. PICK n \in Nat : n = Len(name) /\ DOMAIN name = 1 .. n
  BY ListProperties
<1>2. PICK S : S = ToSet(name)
  OBVIOUS
<1>3. name \in Seq(S)
  BY <1>2 DEF IsList
<1>4. PICK i \in 1 .. n : \E j \in 1 .. n :
        /\ i < j /\ name[i] = "." /\ Translate(SubSeq(name, i + 1, j), Lower) = ext
        /\ \A k \in i + 1 .. j : name[k] \notin {".", " "}
        /\ \A k \in j + 1 .. Len(name) : name[k] \in {".", " "}
  BY <1>1 DEF IsSource
<1>5. PICK j \in 1 .. n :
        /\ i < j /\ name[i] = "." /\ Translate(SubSeq(name, i + 1, j), Lower) = ext
        /\ \A k \in i + 1 .. j : name[k] \notin {".", " "}
        /\ \A k \in j + 1 .. n : name[k] \in {".", " "}
  BY <1>1, <1>4
<1>6. i \in Nat /\ j \in Nat /\ i < j /\ j <= n /\ 1 <= i
  <2>1. i < j
    BY <1>5
  <2>2. QED
    BY <2>1
<1>7. PICK kept : kept = {k \in DOMAIN name : name[k] \notin {".", " "}}
  OBVIOUS
<1>8. j \in kept /\ kept # {} /\ kept \subseteq Int /\ \A k \in kept : k <= j
  <2>1. j \in i + 1 .. j
    BY <1>6
  <2>2. j \in kept
    <3>1. name[j] \notin {".", " "}
      BY <1>5, <2>1
    <3>2. QED
      BY <1>1, <1>7, <3>1
  <2>3. ASSUME NEW k \in kept
        PROVE  k <= j
    <3>1. k \in 1 .. n /\ k \notin j + 1 .. n
      BY <1>1, <1>5, <1>7
    <3>2. QED
      BY <1>6, <3>1
  <2>4. kept \subseteq Int
    <3>1. kept \subseteq 1 .. n
      BY <1>1, <1>7
    <3>2. QED
      BY <3>1
  <2>5. QED
    BY <2>2, <2>3, <2>4
<1>9. Max(kept) = j
  BY <1>8, MaxIsBound
<1>10. PICK t : t = SubSeq(name, 1, j)
  OBVIOUS
<1>11. TrimEnd(name) = t
  BY <1>7, <1>8, <1>9, <1>10 DEF TrimEnd
<1>12. t \in Seq(S) /\ Len(t) = j /\ \A k \in 1 .. j : t[k] = name[k]
  BY <1>1, <1>3, <1>10, SubSeqProperties
<1>13. DOMAIN t = 1 .. j
  BY <1>12, LenProperties
<1>14. PICK dots : dots = {k \in DOMAIN t : t[k] = "."}
  OBVIOUS
<1>15. i \in dots /\ dots # {} /\ dots \subseteq Int /\ \A k \in dots : k <= i
  <2>1. i \in dots
    <3>1. i \in 1 .. j
      BY <1>6
    <3>2. name[i] = "."
      BY <1>5
    <3>3. QED
      BY <1>12, <1>13, <1>14, <3>1, <3>2
  <2>2. ASSUME NEW k \in dots
        PROVE  k <= i
    <3>1. k \in 1 .. j /\ name[k] = "."
      BY <1>12, <1>13, <1>14
    <3>2. k \notin i + 1 .. j
      BY <1>5, <3>1
    <3>3. QED
      BY <1>6, <3>1, <3>2
  <2>3. dots \subseteq Int
    BY <1>13, <1>14
  <2>4. QED
    BY <2>1, <2>2, <2>3
<1>16. Max(dots) = i
  BY <1>15, MaxIsBound
<1>17. SubSeq(t, i + 1, j) = SubSeq(name, i + 1, j)
  <2>1. PICK a : a = SubSeq(t, i + 1, j)
    OBVIOUS
  <2>2. PICK b : b = SubSeq(name, i + 1, j)
    OBVIOUS
  <2>3. a \in Seq(S) /\ Len(a) = j - i /\ \A k \in 1 .. j - i : a[k] = t[i + k]
    <3>1. \A k \in i + 1 .. j : t[k] \in S
      BY <1>12, <1>6, ElementOfSeq
    <3>2. /\ a \in Seq(S) /\ Len(a) = IF i + 1 <= j THEN j - (i + 1) + 1 ELSE 0
          /\ \A k \in 1 .. j - (i + 1) + 1 : a[k] = t[i + 1 + k - 1]
      BY <1>6, <2>1, <3>1, SubSeqProperties
    <3>3. QED
      BY <1>6, <3>2
  <2>4. b \in Seq(S) /\ Len(b) = j - i /\ \A k \in 1 .. j - i : b[k] = name[i + k]
    <3>1. \A k \in i + 1 .. j : name[k] \in S
      BY <1>1, <1>3, <1>6, ElementOfSeq
    <3>2. /\ b \in Seq(S) /\ Len(b) = IF i + 1 <= j THEN j - (i + 1) + 1 ELSE 0
          /\ \A k \in 1 .. j - (i + 1) + 1 : b[k] = name[i + 1 + k - 1]
      BY <1>6, <2>2, <3>1, SubSeqProperties
    <3>3. QED
      BY <1>6, <3>2
  <2>5. \A k \in 1 .. j - i : a[k] = b[k]
    <3>1. ASSUME NEW k \in 1 .. j - i
          PROVE  i + k \in 1 .. j
      BY <1>6
    <3>2. QED
      BY <1>12, <2>3, <2>4, <3>1
  <2>6. a = b
    BY <2>3, <2>4, <2>5, SeqEqual
  <2>7. QED
    BY <2>1, <2>2, <2>6
<1>18. Extension(t) = Translate(SubSeq(t, i + 1, j), Lower)
  BY <1>12, <1>14, <1>15, <1>16 DEF Extension
<1>19. QED
  BY <1>5, <1>11, <1>17, <1>18 DEF SourceExt

\* Versions are numbered from 1; the last one has the name.
FilesSound ==
  /\ clock \in Nat /\ files \in Seq([mtime : Nat, size : Nat]) /\ files # <<>>

\* A file is open for the share that led to it, and only while it is sent.
Served ==
  /\ phase \in {"open", "sending"} => fd # NoFile
  /\ fd # NoFile =>
       /\ phase \in {"open", "sending"} /\ Act.share # {}
       /\ IsList(fd.at[2]) /\ SourceExt(fd.at[2]) \notin SourceExts \ The(Act.share).serve_sources

(* Nothing is open at first.                                               *)
LEMMA ServedInit ==
  ASSUME Init
  PROVE  Served
BY DEF Init, StaticInit, Served

(* Steps that neither open nor close.                                      *)
LEMMA ServedSame ==
  ASSUME Served, UNCHANGED <<walk, fd>>,
         phase' = phase \/ {phase, phase'} \cap {"open", "sending"} = {}
  PROVE  Served'
BY DEF Served, Act

(* The walk may change as long as nothing is open.                         *)
LEMMA ServedClosed ==
  ASSUME fd' = NoFile, phase' \notin {"open", "sending"}
  PROVE  Served'
BY DEF Served

(* What `Locate` finds may be sent.                                        *)
LEMMA ServedOpen ==
  ASSUME FilesSound, OpenFile
  PROVE  Served'
<1>1. PICK share : share = The(Act.share)
  OBVIOUS
<1>2. PICK at : at = Locate(share, walk.path)
  OBVIOUS
<1>3. /\ Act.share # {} /\ at # NoFile /\ phase' = "open" /\ walk' = walk
      /\ fd' = [at |-> at, ver |-> Len(files)]
  BY <1>1, <1>2 DEF OpenFile, Sharing, Found, Open
<1>4. PICK target : target = Target(share, walk.path)
  OBVIOUS
<1>5. /\ at = <<share.root, target>> /\ at \in DOMAIN Tree
      /\ SourceExt(target) \notin SourceExts \ share.serve_sources
  BY <1>2, <1>3, <1>4 DEF Locate
<1>6. at[2] = target /\ IsList(target)
  BY <1>5, StaticAssumption
<1>7. fd' # NoFile /\ fd'.at = at
  <2>1. Len(files) \in Nat
    BY LenProperties DEF FilesSound
  <2>2. QED
    BY <1>3, <1>5, <2>1, StaticAssumption
<1>8. QED
  BY <1>1, <1>3, <1>5, <1>6, <1>7 DEF Served, Act

-----------------------------------------------------------------------------
(* What the file, the client's copy, the conditions of the request and the *)
(* response have to do with each other, between the steps.                 *)

\* What a second and a length have named once they do not name again.
Used(tag) == tag[1] \in Nat /\ (tag[1] < clock \/ (tag[1] = clock /\ tag[2] \in taken))

TagsSound ==
  \A v \in 1 .. Len(files) : Used(Etag(v)) /\ \A w \in 1 .. Len(files) : Etag(v) = Etag(w) => v = w

\* All bytes are of one version: that of the ETag, if a version still has it.
CopySound ==
  /\ copy = [tag |-> copy.tag, total |-> copy.total, data |-> copy.data]
  /\ IsList(copy.data) /\ copy.total \in Nat
  /\ \/ copy.tag = <<>> /\ copy.data = <<>>
     \/ copy.tag = <<copy.tag[1], copy.total>> /\ Used(copy.tag)
  /\ \A i, j \in 1 .. Len(copy.data) : copy.data[i] = copy.data[j]
  /\ \A v \in 1 .. Len(files) : Etag(v) = copy.tag =>
       \A i \in 1 .. Len(copy.data) : copy.data[i] = v

\* A range someone can write down, and the bytes it is answered with.
IsRange(r) ==
  /\ r.first \subseteq Nat /\ r.last \subseteq Nat /\ Optional(r.first) /\ Optional(r.last)
  /\ r.first # {} \/ r.last # {}

\* The conditions are about the copy as it is, until the head is sent.
AskSound ==
  phase \in {"decided", "open", "sending"} =>
    /\ Optional(req.ask.range) /\ \A r \in req.ask.range : IsRange(r)
    /\ phase # "sending" =>
         /\ req.ask.kept /\ req.ask.range # {} => req.ask.if_range = {copy.tag} /\ copy.data # <<>>
         /\ req.ask.none_match # {} => req.ask.none_match = {copy.tag} /\ Whole
         /\ req.ask.since # {} => req.ask.none_match # {}

RespSound ==
  /\ resp = [status |-> resp.status, from |-> resp.from, owed |-> resp.owed, sent |-> resp.sent,
             total |-> resp.total, ver |-> resp.ver, cut |-> resp.cut]
  /\ resp.cut \in BOOLEAN
  /\ {resp.from, resp.owed, resp.sent, resp.total} \subseteq Nat

\* Between the head and the last byte.
SendingSound ==
  phase = "sending" =>
    /\ resp.cut \/ (files[fd.ver].size = resp.total /\ resp.from + resp.owed <= resp.total)
    /\ resp.sent <= resp.owed
    /\ \A r \in req.ask.range :
         /\ resp.status = 206 /\ req.head.method # <<"HEAD">> =>
              resp.from .. resp.from + resp.owed - 1 = Meant(r, resp.total)
         /\ resp.status = 416 => Meant(r, resp.total) = {}
    /\ req.ask.kept /\ resp.owed # 0 =>
         /\ copy.tag # <<>>
         /\ \A i \in 1 .. Len(copy.data) : copy.data[i] = fd.ver
         /\ \A v \in 1 .. Len(files) : Etag(v) = copy.tag => v = fd.ver

\* A 304 of a file is over once its head is sent.
UnchangedSound ==
  resp.status = 304 /\ resp.ver # 0 =>
    /\ phase \in {"sending", "sent", "closed"} /\ (phase = "sending" => resp.owed = 0)
    /\ Whole /\ copy.data[1] = resp.ver /\ copy.total = resp.total

FileInv ==
  /\ FilesSound /\ TagsSound /\ CopySound /\ AskSound /\ RespSound /\ SendingSound /\ UnchangedSound
  /\ Served
  /\ fd # NoFile => fd.ver \in 1 .. Len(files)
  /\ phase = "sent" => resp.sent = resp.owed \/ resp.cut

(* At first there is one file, and nothing of it is sent or kept.          *)
LEMMA FileInit ==
  ASSUME Init
  PROVE  FileInv
<1>1. PICK n \in 1 .. MaxSize : files = <<[mtime |-> 0, size |-> n]>> /\ taken = {n}
  BY DEF Init, StaticInit
<1>2. PICK f : f = [mtime |-> 0, size |-> n]
  OBVIOUS
<1>3. f \in [mtime : Nat, size : Nat] /\ f.mtime = 0 /\ f.size = n
  BY <1>2, StaticAssumption
<1>4. /\ phase = "boot" /\ clock = 0 /\ fd = NoFile /\ resp = Silent
      /\ copy = [tag |-> <<>>, total |-> 0, data |-> <<>>]
  BY DEF Init, StaticInit
<1>5. files = <<f>> /\ Len(files) = 1 /\ files[1] = f
  BY <1>1, <1>2
<1>6. FilesSound
  BY <1>3, <1>4, <1>5 DEF FilesSound
<1>7. TagsSound
  <2>1. Etag(1) = <<0, n>> /\ Used(<<0, n>>)
    BY <1>1, <1>3, <1>4, <1>5 DEF Etag, Used
  <2>2. QED
    BY <1>5, <2>1 DEF TagsSound
<1>8. CopySound
  <2>1. copy.tag = <<>> /\ copy.total = 0 /\ copy.data = <<>>
    BY <1>4
  <2>2. IsList(copy.data) /\ Len(copy.data) = 0
    BY <2>1, EmptySeq DEF IsList
  <2>3. QED
    BY <1>4, <2>1, <2>2 DEF CopySound
<1>9. RespSound
  BY <1>4 DEF RespSound, Silent
<1>10. AskSound /\ SendingSound /\ UnchangedSound
  BY <1>4 DEF AskSound, SendingSound, UnchangedSound, Silent
<1>11. Served
  BY ServedInit
<1>12. QED
  BY <1>4, <1>6, <1>7, <1>8, <1>9, <1>10, <1>11 DEF FileInv

(* What is left of the invariant while neither file nor copy changes.      *)
LEMMA DiskSame ==
  ASSUME FileInv, UNCHANGED <<disk, copy>>
  PROVE  FilesSound' /\ TagsSound' /\ CopySound'
<1>1. UNCHANGED <<clock, taken, files, copy>>
  BY DEF disk
<1>2. FilesSound /\ TagsSound /\ CopySound
  BY DEF FileInv
<1>3. FilesSound'
  BY <1>1, <1>2 DEF FilesSound
<1>4. TagsSound'
  BY <1>1, <1>2 DEF TagsSound, Used, Etag
<1>5. CopySound'
  BY <1>1, <1>2 DEF CopySound, Used, Etag
<1>6. QED
  BY <1>3, <1>4, <1>5

(* Steps that leave no file open and no conditions pending.                *)
LEMMA FileQuiet ==
  ASSUME FileInv, UNCHANGED <<disk, copy>>, fd' = NoFile,
         phase' \notin {"decided", "open", "sending"},
         \/ \E status : Say(status)
         \/ /\ resp' = resp
            /\ phase' \in {"sent", "closed"} \/ phase \notin {"sending", "sent", "closed"}
            /\ phase' = "sent" => resp.sent = resp.owed \/ resp.cut
  PROVE  FileInv'
<1>1. FilesSound' /\ TagsSound' /\ CopySound'
  BY DiskSame
<1>2. AskSound' /\ SendingSound' /\ Served'
  BY DEF AskSound, SendingSound, Served
<1>3. CASE \E status : Say(status)
  <2>1. PICK status : resp' = [Silent EXCEPT !.status = status]
    BY <1>3 DEF Say
  <2>2. resp' = [status |-> status, from |-> 0, owed |-> 0, sent |-> 0, total |-> 0, ver |-> 0,
                 cut |-> FALSE]
    BY <2>1 DEF Silent
  <2>3. RespSound' /\ UnchangedSound' /\ resp'.sent = resp'.owed
    BY <2>2 DEF RespSound, UnchangedSound
  <2>4. QED
    BY <1>1, <1>2, <2>3 DEF FileInv
<1>4. CASE /\ resp' = resp
           /\ phase' \in {"sent", "closed"} \/ phase \notin {"sending", "sent", "closed"}
           /\ phase' = "sent" => resp.sent = resp.owed \/ resp.cut
  <2>1. RespSound'
    BY <1>4 DEF FileInv, RespSound
  <2>2. UnchangedSound'
    BY <1>4 DEF FileInv, UnchangedSound, Whole
  <2>3. QED
    BY <1>1, <1>2, <1>4, <2>1, <2>2 DEF FileInv
<1>5. QED
  BY <1>3, <1>4

(* The conditions a client sends are about the copy it has.                *)
LEMMA FileReceive ==
  ASSUME FileInv, NEW q \in Requests, NEW ask \in Asks(q), ReceiveHead(q, ask)
  PROVE  FileInv'
<1>1. /\ phase = "idle" /\ phase' = "decided" /\ req'.ask = ask
      /\ UNCHANGED <<disk, copy, fd, resp>>
  BY DEF ReceiveHead, staticVars
<1>2. FilesSound' /\ TagsSound' /\ CopySound'
  BY <1>1, DiskSame
<1>3. fd = NoFile
  BY <1>1 DEF FileInv, Served
<1>4. SendingSound' /\ Served' /\ UnchangedSound' /\ RespSound'
  BY <1>1, <1>3 DEF FileInv, SendingSound, Served, UnchangedSound, RespSound
<1>5. ASSUME ask.range = {}
      PROVE  Optional(ask.range) /\ \A r \in ask.range : IsRange(r)
  BY <1>5 DEF Optional
<1>6. ASSUME NEW r, IsRange(r), ask.range = {r}
      PROVE  Optional(ask.range) /\ \A s \in ask.range : IsRange(s)
  BY <1>6 DEF Optional
<1>7. CASE ask \in {NoAsk, [NoAsk EXCEPT !.kept = TRUE]}
  <2>1. ask.range = {} /\ ask.none_match = {} /\ ask.since = {}
    BY <1>7 DEF NoAsk
  <2>2. AskSound'
    BY <1>1, <1>5, <2>1 DEF AskSound
  <2>3. QED
    BY <1>1, <1>2, <1>3, <1>4, <2>2 DEF FileInv
<1>8. CASE ask \in {[NoAsk EXCEPT !.range = {r}] : r \in Ranges}
  <2>1. PICK r \in Ranges : ask = [NoAsk EXCEPT !.range = {r}]
    BY <1>8
  <2>2. ask.kept = FALSE /\ ask.range = {r} /\ ask.none_match = {} /\ ask.since = {}
    BY <2>1 DEF NoAsk
  <2>3. IsRange(r)
    BY StaticAssumption DEF IsRange
  <2>4. AskSound'
    BY <1>1, <1>6, <2>2, <2>3 DEF AskSound
  <2>5. QED
    BY <1>1, <1>2, <1>3, <1>4, <2>4 DEF FileInv
<1>9. CASE Partial /\ ask = [NoAsk EXCEPT !.kept = TRUE, !.if_range = {copy.tag},
                               !.range = {[first |-> {Len(copy.data)}, last |-> {}]}]
  <2>1. PICK r : r = [first |-> {Len(copy.data)}, last |-> {}]
    OBVIOUS
  <2>2. /\ ask.range = {r} /\ ask.none_match = {} /\ ask.since = {}
        /\ ask.if_range = {copy.tag} /\ copy.data # <<>>
    BY <1>9, <2>1 DEF NoAsk, Partial
  <2>3. Len(copy.data) \in Nat
    BY ListProperties DEF FileInv, CopySound
  <2>4. IsRange(r)
    BY <2>1, <2>3 DEF IsRange, Optional
  <2>5. AskSound'
    BY <1>1, <1>6, <2>2, <2>4 DEF AskSound
  <2>6. QED
    BY <1>1, <1>2, <1>3, <1>4, <2>5 DEF FileInv
<1>10. CASE Whole /\ ask = [NoAsk EXCEPT !.kept = TRUE, !.none_match = {copy.tag},
                              !.since = {copy.tag[1]}]
  <2>1. /\ ask.range = {} /\ ask.none_match = {copy.tag} /\ ask.since # {}
    BY <1>10 DEF NoAsk
  <2>2. AskSound'
    BY <1>1, <1>5, <1>10, <2>1 DEF AskSound, Whole
  <2>3. QED
    BY <1>1, <1>2, <1>3, <1>4, <2>2 DEF FileInv
<1>11. QED
  BY <1>7, <1>8, <1>9, <1>10 DEF Asks

(* Opening pins the newest version.                                        *)
LEMMA FileOpen ==
  ASSUME FileInv, OpenFile
  PROVE  FileInv'
<1>1. /\ phase = "decided" /\ phase' = "open" /\ UNCHANGED <<req, disk, copy, resp>>
      /\ fd'.ver = Len(files)
  BY DEF OpenFile, Sharing, Routed, Open
<1>2. FilesSound' /\ TagsSound' /\ CopySound'
  BY <1>1, DiskSame
<1>3. Served'
  BY ServedOpen DEF FileInv
<1>4. AskSound' /\ SendingSound' /\ UnchangedSound' /\ RespSound'
  BY <1>1 DEF FileInv, AskSound, SendingSound, UnchangedSound, RespSound, Whole
<1>5. fd'.ver \in 1 .. Len(files')
  <2>1. Len(files) \in Nat \ {0} /\ files' = files
    BY <1>1, EmptySeq, LenProperties DEF FileInv, FilesSound, disk
  <2>2. QED
    BY <1>1, <2>1
<1>6. QED
  BY <1>1, <1>2, <1>3, <1>4, <1>5 DEF FileInv

(* A range is answered with the bytes it means, all of them in the file.   *)
LEMMA RangeMeaning ==
  ASSUME NEW r, IsRange(r), NEW size \in Nat, NEW span, span = parse_range(r, size)
  PROVE  \/ span = <<>> /\ Meant(r, size) = {}
         \/ \E a, b \in Nat : /\ span = <<a, b>> /\ a <= b /\ b < size
                              /\ a .. b = Meant(r, size)
<1>1. PICK F, L : F = r.first /\ L = r.last
  OBVIOUS
<1>2. F \subseteq Nat /\ L \subseteq Nat /\ Optional(F) /\ Optional(L) /\ (F # {} \/ L # {})
  BY <1>1 DEF IsRange
<1>3. PICK f : f = CHOOSE x \in F : TRUE
  OBVIOUS
<1>4. PICK l : l = CHOOSE x \in L : TRUE
  OBVIOUS
<1>5. (F # {} => F = {f} /\ f \in Nat) /\ (L # {} => L = {l} /\ l \in Nat)
  BY <1>2, <1>3, <1>4 DEF Optional
<1>6. PICK start : start = IF F # {} THEN f ELSE IF l > size THEN 0 ELSE size - l
  OBVIOUS
<1>7. PICK end : end = IF F = {} \/ L = {} \/ l > size - 1 THEN size - 1 ELSE l
  OBVIOUS
<1>8. start \in Nat /\ end \in Int
  BY <1>2, <1>5, <1>6, <1>7
<1>9. span = IF size = 0 \/ start >= size \/ end < start THEN <<>> ELSE <<start, end>>
  <2>1. f = CHOOSE x \in r.first : TRUE
    BY <1>1, <1>3
  <2>2. l = CHOOSE x \in r.last : TRUE
    BY <1>1, <1>4
  <2>3. start = IF r.first # {} THEN f ELSE IF l > size THEN 0 ELSE size - l
    BY <1>1, <1>6
  <2>4. end = IF r.first = {} \/ r.last = {} \/ l > size - 1 THEN size - 1 ELSE l
    BY <1>1, <1>7
  <2>5. parse_range(r, size) = IF size = 0 \/ start >= size \/ end < start THEN <<>> ELSE <<start, end>>
    <3>1. CASE r.first = {}
      BY <2>2, <2>3, <2>4, <3>1 DEF parse_range
    <3>2. CASE r.first # {}
      BY <2>1, <2>2, <2>3, <2>4, <3>2 DEF parse_range
    <3>3. QED
      BY <3>1, <3>2
  <2>6. QED
    BY <2>5
<1>10. Meant(r, size) = {b \in 0 .. size - 1 :
         IF F = {} THEN \E n \in L : b >= size - n
                   ELSE (\A x \in F : b >= x) /\ (\A x \in L : b <= x)}
  BY <1>1 DEF Meant
<1>11. ASSUME NEW b \in 0 .. size - 1
       PROVE  (IF F = {} THEN \E n \in L : b >= size - n
                         ELSE (\A x \in F : b >= x) /\ (\A x \in L : b <= x))
              <=> start <= b /\ b <= end
  <2>1. CASE F = {}
    <3>1. L = {l} /\ l \in Nat
      BY <1>2, <1>5, <2>1
    <3>2. (\E n \in L : b >= size - n) <=> b >= size - l
      BY <3>1
    <3>3. QED
      BY <1>6, <1>7, <2>1, <3>1, <3>2
  <2>2. CASE F # {} /\ L = {}
    BY <1>5, <1>6, <1>7, <2>2
  <2>3. CASE F # {} /\ L # {}
    <3>1. F = {f} /\ f \in Nat /\ L = {l} /\ l \in Nat
      BY <1>5, <2>3
    <3>2. QED
      BY <1>6, <1>7, <2>3, <3>1
  <2>4. QED
    BY <2>1, <2>2, <2>3
<1>12. PICK M : M = Meant(r, size)
  OBVIOUS
<1>13. M = {b \in 0 .. size - 1 : start <= b /\ b <= end}
  BY <1>10, <1>11, <1>12
<1>14. end <= size - 1
  <2>1. CASE F = {} \/ L = {}
    <3>1. end = size - 1
      BY <1>7, <2>1
    <3>2. QED
      BY <3>1
  <2>2. CASE ~(F = {} \/ L = {})
    <3>1. l \in Nat /\ end = IF l > size - 1 THEN size - 1 ELSE l
      BY <1>5, <1>7, <2>2
    <3>2. QED
      BY <3>1
  <2>3. QED
    BY <2>1, <2>2
<1>15. CASE size = 0 \/ start >= size \/ end < start
  <2>1. M = {}
    BY <1>8, <1>13, <1>15
  <2>2. QED
    BY <1>9, <1>12, <1>15, <2>1
<1>16. CASE ~(size = 0 \/ start >= size \/ end < start)
  <2>1. end \in Nat /\ start <= end /\ end < size
    BY <1>8, <1>14, <1>16
  <2>2. start .. end = M
    BY <1>8, <1>13, <2>1
  <2>3. QED
    BY <1>8, <1>9, <1>12, <1>16, <2>1, <2>2
<1>17. QED
  BY <1>15, <1>16

\* What a head announces, taken apart.
Announced(ask, head_only, v, r) ==
  LET size == files[v].size
  IN  /\ r = [status |-> r.status, from |-> r.from, owed |-> r.owed, sent |-> 0, total |-> size,
              ver |-> v, cut |-> FALSE]
      /\ r.from \in Nat /\ r.owed \in Nat /\ r.from + r.owed <= size
      /\ \A x \in ask.range :
           /\ r.status = 206 /\ ~ head_only => r.from .. r.from + r.owed - 1 = Meant(x, size)
           /\ r.status = 416 => Meant(x, size) = {}
      /\ r.owed # 0 => r.status \in {200, 206}
      /\ r.status = 206 => RangeAllowed(ask, v) /\ ask.range # {}
      /\ r.status = 304 => NotModified(ask, v) /\ r.owed = 0

(* The head announces bytes that are there, and those that are meant.      *)
LEMMA AnswerMeaning ==
  ASSUME NEW ask, Optional(ask.range), \A r \in ask.range : IsRange(r), NEW head_only \in BOOLEAN,
         NEW v, files[v].size \in Nat
  PROVE  Announced(ask, head_only, v, Answer(ask, head_only, v))
<1>1. PICK size \in Nat : size = files[v].size
  OBVIOUS
<1>2. PICK ranged \in BOOLEAN : ranged <=> \E r \in ask.range : RangeAllowed(ask, v)
  OBVIOUS
<1>3. PICK r : r = CHOOSE x \in ask.range : TRUE
  OBVIOUS
<1>4. PICK span : span = IF ranged THEN parse_range(r, size) ELSE <<0, size - 1>>
  OBVIOUS
<1>5. PICK status : status = IF NotModified(ask, v) THEN 304 ELSE IF span = <<>> THEN 416
                             ELSE IF ranged THEN 206 ELSE 200
  OBVIOUS
<1>6. PICK from : from = IF status \in {200, 206} THEN span[1] ELSE 0
  OBVIOUS
<1>7. PICK owed : owed = IF status \in {200, 206} /\ ~ head_only THEN span[2] + 1 - span[1] ELSE 0
  OBVIOUS
<1>8. PICK a : a = Answer(ask, head_only, v)
  OBVIOUS
<1>9. a = [status |-> status, from |-> from, owed |-> owed, sent |-> 0, total |-> size, ver |-> v,
           cut |-> FALSE]
  <2>1. span = IF \E x \in ask.range : RangeAllowed(ask, v)
               THEN parse_range(CHOOSE x \in ask.range : TRUE, files[v].size)
               ELSE <<0, files[v].size - 1>>
    BY <1>1, <1>2, <1>3, <1>4
  <2>2. status = IF NotModified(ask, v) THEN 304 ELSE IF span = <<>> THEN 416
                 ELSE IF \E x \in ask.range : RangeAllowed(ask, v) THEN 206 ELSE 200
    BY <1>2, <1>5
  <2>3. QED
    BY <1>1, <1>6, <1>7, <1>8, <2>1, <2>2 DEF Answer
<1>10. ranged => ask.range = {r} /\ IsRange(r) /\ RangeAllowed(ask, v)
  BY <1>2, <1>3 DEF Optional
<1>11. PICK M : M = Meant(r, size)
  OBVIOUS
<1>12. /\ from \in Nat /\ owed \in Nat /\ from + owed <= size
       /\ ranged /\ status = 206 /\ ~ head_only => from .. from + owed - 1 = M
       /\ status = 416 => ranged /\ M = {}
       /\ owed # 0 => status \in {200, 206}
       /\ status = 206 => ranged
       /\ status = 304 => NotModified(ask, v) /\ owed = 0
  <2>1. CASE ranged
    <3>1. \/ span = <<>> /\ M = {}
          \/ \E x, y \in Nat : span = <<x, y>> /\ x <= y /\ y < size /\ x .. y = M
      BY <1>4, <1>10, <1>11, <2>1, RangeMeaning
    <3>2. CASE span = <<>> /\ M = {}
      BY <1>5, <1>6, <1>7, <2>1, <3>2
    <3>3. CASE \E x, y \in Nat : span = <<x, y>> /\ x <= y /\ y < size /\ x .. y = M
      <4>1. PICK x \in Nat, y \in Nat : span = <<x, y>> /\ x <= y /\ y < size /\ x .. y = M
        BY <3>3
      <4>2. span # <<>> /\ span[1] = x /\ span[2] = y
        BY <4>1
      <4>3. x + (y + 1 - x) - 1 = y /\ x + (y + 1 - x) <= size /\ y + 1 - x \in Nat
        BY <4>1
      <4>4. QED
        BY <1>5, <1>6, <1>7, <2>1, <4>1, <4>2, <4>3
    <3>4. QED
      BY <3>1, <3>2, <3>3
  <2>2. CASE ~ ranged
    <3>1. span # <<>> /\ span[1] = 0 /\ span[2] = size - 1
      BY <1>4, <2>2
    <3>2. QED
      BY <1>5, <1>6, <1>7, <2>2, <3>1
  <2>3. QED
    BY <2>1, <2>2
<1>13. a.status = status /\ a.from = from /\ a.owed = owed
  BY <1>9
<1>14. ASSUME NEW x \in ask.range, ranged
       PROVE  Meant(x, size) = M
  BY <1>10, <1>11, <1>14
<1>15. a = [status |-> a.status, from |-> a.from, owed |-> a.owed, sent |-> 0, total |-> size,
            ver |-> v, cut |-> FALSE]
  BY <1>9, <1>13
<1>16. \A x \in ask.range :
         /\ a.status = 206 /\ ~ head_only => a.from .. a.from + a.owed - 1 = Meant(x, size)
         /\ a.status = 416 => Meant(x, size) = {}
  <2>1. SUFFICES ASSUME NEW x \in ask.range
                 PROVE  /\ status = 206 /\ ~ head_only => from .. from + owed - 1 = Meant(x, size)
                        /\ status = 416 => Meant(x, size) = {}
    BY <1>13
  <2>2. status \in {206, 416} => ranged
    BY <1>12
  <2>3. QED
    BY <1>12, <1>14, <2>2
<1>17. /\ a.from \in Nat /\ a.owed \in Nat /\ a.from + a.owed <= size
       /\ a.owed # 0 => a.status \in {200, 206}
       /\ a.status = 206 => RangeAllowed(ask, v) /\ ask.range # {}
       /\ a.status = 304 => NotModified(ask, v) /\ a.owed = 0
  <2>1. status = 206 => RangeAllowed(ask, v) /\ ask.range # {}
    BY <1>10, <1>12
  <2>2. QED
    BY <1>12, <1>13, <2>1
<1>18. Announced(ask, head_only, v, a)
  BY <1>1, <1>15, <1>16, <1>17 DEF Announced
<1>19. QED
  BY <1>8, <1>18

(* An ETag is never empty, and tells second and length.                    *)
LEMMA EtagPair ==
  ASSUME FilesSound, NEW v \in 1 .. Len(files)
  PROVE  /\ Etag(v) # <<>> /\ Etag(v) = <<files[v].mtime, files[v].size>>
         /\ files[v].mtime \in Nat /\ files[v].size \in Nat /\ Etag(v)[2] = files[v].size
<1>1. files[v] \in [mtime : Nat, size : Nat]
  BY ElementOfSeq DEF FilesSound
<1>2. PICK m \in Nat, n \in Nat : m = files[v].mtime /\ n = files[v].size
  BY <1>1
<1>3. Etag(v) = <<m, n>>
  BY <1>2 DEF Etag
<1>4. QED
  BY <1>2, <1>3

(* The head is sent: the client starts over, resumes what it has, or keeps *)
(* it because it is the file.                                              *)
LEMMA FileStart ==
  ASSUME FileInv, StartFile
  PROVE  FileInv'
<1>1. PICK v : v = fd.ver
  OBVIOUS
<1>2. PICK ask : ask = req.ask
  OBVIOUS
<1>3. PICK head_only \in BOOLEAN : head_only <=> req.head.method = <<"HEAD">>
  OBVIOUS
<1>4. PICK a : a = Answer(ask, req.head.method = <<"HEAD">>, v)
  OBVIOUS
<1>5. /\ phase = "open" /\ phase' = "sending" /\ resp' = a
      /\ UNCHANGED <<req, walk, disk, fd, clock, taken, files>>
  BY <1>1, <1>2, <1>4 DEF StartFile, SendHead, disk
<1>6. v \in 1 .. Len(files)
  BY <1>1, <1>5 DEF FileInv, Served
<1>7. PICK e : e = Etag(v)
  OBVIOUS
<1>8. PICK size \in Nat : size = files[v].size /\ e = <<files[v].mtime, size>> /\ e # <<>>
  BY <1>6, <1>7, EtagPair DEF FileInv
<1>9. /\ Optional(ask.range) /\ \A r \in ask.range : IsRange(r)
      /\ ask.kept /\ ask.range # {} => ask.if_range = {copy.tag} /\ copy.data # <<>>
      /\ ask.none_match # {} => ask.none_match = {copy.tag} /\ Whole
      /\ ask.since # {} => ask.none_match # {}
  BY <1>2, <1>5 DEF FileInv, AskSound
<1>10. Announced(ask, head_only, v, Answer(ask, head_only, v))
  BY <1>8, <1>9, AnswerMeaning
<1>11. Announced(ask, head_only, v, a)
  <2>1. (req.head.method = <<"HEAD">>) = head_only
    BY <1>3
  <2>2. a = Answer(ask, head_only, v)
    BY <1>4, <2>1
  <2>3. QED
    BY <1>10, <2>2
<1>12. PICK status, from, owed :
         a = [status |-> status, from |-> from, owed |-> owed, sent |-> 0, total |-> size,
              ver |-> v, cut |-> FALSE]
  BY <1>8, <1>11 DEF Announced
<1>13. /\ a.status = status /\ a.from = from /\ a.owed = owed /\ a.sent = 0 /\ a.total = size
       /\ a.ver = v /\ a.cut = FALSE
  BY <1>12
<1>14. /\ from \in Nat /\ owed \in Nat /\ from + owed <= size
       /\ \A x \in ask.range :
            /\ status = 206 /\ ~ head_only => from .. from + owed - 1 = Meant(x, size)
            /\ status = 416 => Meant(x, size) = {}
       /\ owed # 0 => status \in {200, 206}
       /\ status = 206 => ask.if_range \subseteq {e} /\ ask.range # {}
       /\ status = 304 => NotModified(ask, v) /\ owed = 0
  BY <1>7, <1>8, <1>11, <1>13 DEF Announced, RangeAllowed
<1>15. /\ status = 200 /\ ask.kept => copy' = [tag |-> e, total |-> size, data |-> <<>>]
       /\ ~(status = 200 /\ ask.kept) => copy' = copy
  <2>1. copy' = IF resp'.status = 200 /\ req.ask.kept
                THEN [tag |-> Etag(fd.ver), total |-> resp'.total, data |-> <<>>] ELSE copy
    BY DEF StartFile, SendHead
  <2>2. QED
    BY <1>1, <1>2, <1>5, <1>7, <1>13, <2>1
<1>16. \A w \in 1 .. Len(files) : Etag(w) = e => w = v
  BY <1>6, <1>7 DEF FileInv, TagsSound
<1>17. Used(e)
  BY <1>6, <1>7 DEF FileInv, TagsSound
<1>18. FilesSound' /\ TagsSound'
  BY <1>5 DEF FileInv, FilesSound, TagsSound, Used, Etag
<1>19. CopySound'
  <2>1. CASE status = 200 /\ ask.kept
    <3>1. copy'.tag = e /\ copy'.total = size /\ copy'.data = <<>>
      BY <1>15, <2>1
    <3>2. IsList(<<>>) /\ Len(<<>>) = 0
      BY EmptySeq DEF IsList
    <3>3. Used(e)'
      BY <1>5, <1>17 DEF Used
    <3>4. e[1] = files[v].mtime
      BY <1>8
    <3>5. QED
      BY <1>8, <1>15, <2>1, <3>1, <3>2, <3>3, <3>4 DEF CopySound
  <2>2. CASE ~(status = 200 /\ ask.kept)
    BY <1>5, <1>15, <2>2 DEF FileInv, CopySound, Used, Etag
  <2>3. QED
    BY <2>1, <2>2
<1>20. AskSound'
  BY <1>2, <1>5, <1>9 DEF AskSound
<1>21. RespSound'
  BY <1>5, <1>12, <1>13, <1>14 DEF RespSound
<1>22. ASSUME ask.kept, owed # 0
       PROVE  /\ copy'.tag # <<>>
              /\ \A i \in 1 .. Len(copy'.data) : copy'.data[i] = v
              /\ \A w \in 1 .. Len(files) : Etag(w) = copy'.tag => w = v
  <2>1. CASE status = 200
    <3>1. copy'.tag = e /\ copy'.data = <<>>
      BY <1>15, <1>22, <2>1
    <3>2. QED
      BY <1>8, <1>16, <3>1
  <2>2. CASE status = 206
    <3>1. ask.range # {} /\ ask.if_range \subseteq {e}
      BY <1>14, <2>2
    <3>2. copy.tag = e /\ copy' = copy
      <4>1. ask.if_range = {copy.tag}
        BY <1>9, <1>22, <3>1
      <4>2. ~(status = 200 /\ ask.kept)
        BY <2>2
      <4>3. QED
        BY <1>15, <3>1, <4>1, <4>2
    <3>3. \A i \in 1 .. Len(copy.data) : copy.data[i] = v
      BY <1>6, <1>7, <3>2 DEF FileInv, CopySound
    <3>4. QED
      BY <1>8, <1>16, <3>2, <3>3
  <2>3. QED
    BY <1>14, <1>22, <2>1, <2>2
<1>23. SendingSound'
  <2>1. fd'.ver = v /\ files'[v].size = size /\ (\A w : Etag(w)' = Etag(w)) /\ files' = files
    BY <1>1, <1>5, <1>8 DEF Etag
  <2>2. req' = req /\ (req.head.method # <<"HEAD">> => ~ head_only)
    BY <1>3, <1>5
  <2>3. \A r \in ask.range :
          /\ status = 206 /\ req.head.method # <<"HEAD">> => from .. from + owed - 1 = Meant(r, size)
          /\ status = 416 => Meant(r, size) = {}
    BY <1>14, <2>2
  <2>4. from + owed <= size /\ 0 <= owed
    BY <1>14
  <2>5. QED
    BY <1>2, <1>5, <1>13, <1>22, <2>1, <2>2, <2>3, <2>4 DEF SendingSound
<1>24. UnchangedSound'
  <2>1. SUFFICES ASSUME status = 304
                 PROVE  /\ owed = 0 /\ copy' = copy /\ Whole
                        /\ copy.data[1] = v /\ copy.total = size
    BY <1>5, <1>13 DEF UnchangedSound, Whole
  <2>2. owed = 0 /\ copy' = copy /\ NotModified(ask, v)
    BY <1>14, <1>15, <2>1
  <2>3. ask.none_match # {}
    BY <1>9, <2>2 DEF NotModified
  <2>4. copy.tag = e /\ Whole
    BY <1>7, <1>9, <2>2, <2>3 DEF NotModified
  <2>5. \A i \in 1 .. Len(copy.data) : copy.data[i] = v
    BY <1>6, <1>7, <2>4 DEF FileInv, CopySound
  <2>6. copy.total \in Nat /\ Len(copy.data) \in Nat
    BY ListProperties DEF FileInv, CopySound
  <2>7. 1 \in 1 .. Len(copy.data)
    BY <2>4, <2>6 DEF Whole
  <2>8. copy.total = size
    <3>1. e = <<e[1], copy.total>>
      BY <1>8, <2>4 DEF FileInv, CopySound
    <3>2. QED
      BY <1>8, <3>1
  <2>9. QED
    BY <2>2, <2>4, <2>5, <2>7, <2>8
<1>25. Served'
  <2>1. fd' = fd /\ walk' = walk /\ phase' = "sending"
    BY <1>5
  <2>2. QED
    BY <1>5, <2>1 DEF FileInv, Served, Act
<1>26. fd'.ver \in 1 .. Len(files')
  BY <1>1, <1>5, <1>6
<1>27. QED
  BY <1>5, <1>18, <1>19, <1>20, <1>21, <1>23, <1>24, <1>25, <1>26 DEF FileInv

(* A byte more: it is of the version all the others are of.                *)
LEMMA FileSend ==
  ASSUME FileInv, SendFile
  PROVE  FileInv'
<1>1. PICK v : v = fd.ver
  OBVIOUS
<1>2. PICK data : data = copy.data
  OBVIOUS
<1>3. /\ phase = "sending" /\ phase' = "sending" /\ resp.sent < resp.owed
      /\ resp' = [resp EXCEPT !.sent = @ + 1]
      /\ copy' = IF req.ask.kept THEN [copy EXCEPT !.data = Append(@, v)] ELSE copy
      /\ UNCHANGED <<req, walk, fd, clock, taken, files>>
  BY <1>1 DEF SendFile, CopyChunk, httpVars, disk
<1>4. PICK from \in Nat, owed \in Nat, sent \in Nat, total \in Nat :
        from = resp.from /\ owed = resp.owed /\ sent = resp.sent /\ total = resp.total
  BY DEF FileInv, RespSound
<1>5. /\ resp'.from = from /\ resp'.owed = owed /\ resp'.sent = sent + 1 /\ resp'.total = total
      /\ resp'.status = resp.status /\ resp'.ver = resp.ver /\ resp'.cut = resp.cut
      /\ resp' = [status |-> resp.status, from |-> from, owed |-> owed, sent |-> sent + 1,
                  total |-> total, ver |-> resp.ver, cut |-> resp.cut]
  BY <1>3, <1>4 DEF FileInv, RespSound
<1>6. sent < owed /\ owed # 0
  BY <1>3, <1>4
<1>7. RespSound'
  <2>1. resp.cut \in BOOLEAN
    BY DEF FileInv, RespSound
  <2>2. sent + 1 \in Nat
    BY <1>4
  <2>3. resp'.cut \in BOOLEAN /\ {resp'.from, resp'.owed, resp'.sent, resp'.total} \subseteq Nat
    BY <1>4, <1>5, <2>1, <2>2
  <2>4. resp' = [status |-> resp'.status, from |-> resp'.from, owed |-> resp'.owed,
                 sent |-> resp'.sent, total |-> resp'.total, ver |-> resp'.ver, cut |-> resp'.cut]
    BY <1>5
  <2>5. QED
    BY <2>3, <2>4 DEF RespSound
<1>8. FilesSound' /\ TagsSound'
  BY <1>3 DEF FileInv, FilesSound, TagsSound, Used, Etag
<1>9. AskSound' /\ Served' /\ (fd' # NoFile => fd'.ver \in 1 .. Len(files'))
  BY <1>3 DEF FileInv, AskSound, Served, Act
<1>10. UnchangedSound'
  BY <1>3, <1>4, <1>5, <1>6 DEF FileInv, UnchangedSound
<1>11. \/ copy' = copy
       \/ /\ req.ask.kept
          /\ copy' = [tag |-> copy.tag, total |-> copy.total, data |-> Append(data, v)]
  <2>1. copy = [tag |-> copy.tag, total |-> copy.total, data |-> data]
    BY <1>2 DEF FileInv, CopySound
  <2>2. QED
    BY <1>2, <1>3, <2>1
<1>12. IsList(data) /\ Len(data) \in Nat
  BY <1>2, ListProperties DEF FileInv, CopySound
<1>13. req.ask.kept => /\ copy.tag # <<>>
                       /\ \A i \in 1 .. Len(data) : data[i] = v
                       /\ \A w \in 1 .. Len(files) : Etag(w) = copy.tag => w = v
  BY <1>1, <1>2, <1>3, <1>4, <1>6 DEF FileInv, SendingSound
<1>14. ASSUME req.ask.kept
       PROVE  /\ IsList(Append(data, v)) /\ Len(Append(data, v)) = Len(data) + 1
              /\ \A i \in 1 .. Len(data) + 1 : Append(data, v)[i] = v
  BY <1>12, <1>13, <1>14, ListAppend
<1>15. CopySound'
  <2>1. CASE copy' = copy
    <3>1. UNCHANGED <<clock, taken, files, copy>> /\ CopySound
      BY <1>3, <2>1 DEF FileInv
    <3>2. QED
      BY <3>1 DEF CopySound, Used, Etag
  <2>2. CASE /\ req.ask.kept
             /\ copy' = [tag |-> copy.tag, total |-> copy.total, data |-> Append(data, v)]
    <3>1. PICK more : more = Append(data, v)
      OBVIOUS
    <3>2. copy'.tag = copy.tag /\ copy'.total = copy.total /\ copy'.data = more
      BY <2>2, <3>1
    <3>3. IsList(more) /\ \A i \in 1 .. Len(more) : more[i] = v
      BY <1>14, <2>2, <3>1
    <3>4. copy.tag # <<>>
      BY <1>13, <2>2
    <3>5. QED
      BY <1>3, <1>13, <2>2, <3>2, <3>3, <3>4 DEF FileInv, CopySound, Used, Etag
  <2>3. QED
    BY <1>11, <2>1, <2>2
<1>16. SendingSound'
  <2>1. req.ask.kept => /\ copy'.tag # <<>>
                        /\ \A i \in 1 .. Len(copy'.data) : copy'.data[i] = v
                        /\ \A w \in 1 .. Len(files) : Etag(w) = copy'.tag => w = v
    <3>1. SUFFICES ASSUME req.ask.kept
                   PROVE  /\ copy'.tag # <<>>
                          /\ \A i \in 1 .. Len(copy'.data) : copy'.data[i] = v
                          /\ \A w \in 1 .. Len(files) : Etag(w) = copy'.tag => w = v
      OBVIOUS
    <3>2. \/ copy' = copy
          \/ copy'.tag = copy.tag /\ copy'.data = Append(data, v)
      BY <1>11
    <3>3. QED
      BY <1>2, <1>13, <1>14, <3>1, <3>2
  <2>2. \A w : Etag(w)' = Etag(w)
    BY <1>3 DEF Etag
  <2>3. QED
    BY <1>1, <1>3, <1>4, <1>5, <1>6, <2>1, <2>2 DEF FileInv, SendingSound
<1>17. QED
  BY <1>3, <1>7, <1>8, <1>9, <1>10, <1>15, <1>16 DEF FileInv

(* A version gets a second and a length no version has had; the others     *)
(* keep theirs.                                                            *)
LEMMA TagsMove ==
  ASSUME FilesSound, FilesSound', TagsSound, CopySound, NEW n \in Nat, n \notin taken,
         taken' = taken \cup {n}, clock' = clock, copy' = copy, NEW at \in 1 .. Len(files'),
         Etag(at)' = <<clock, n>>,
         \A v \in 1 .. Len(files') : v # at => v \in 1 .. Len(files) /\ Etag(v)' = Etag(v)
  PROVE  /\ TagsSound' /\ CopySound'
         /\ \A v \in 1 .. Len(files') : Etag(v)' = copy.tag => v # at /\ v \in 1 .. Len(files)
                                                               /\ Etag(v) = copy.tag
<1>1. PICK new : new = <<clock, n>>
  OBVIOUS
<1>2. clock \in Nat /\ new[1] = clock /\ new[2] = n
  BY <1>1 DEF FilesSound
<1>3. \A tag : Used(tag) => Used(tag)' /\ tag # new
  BY <1>2 DEF Used
<1>4. Used(new)'
  BY <1>2 DEF Used
<1>5. \A v \in 1 .. Len(files') : IF v = at THEN Etag(v)' = new ELSE Etag(v)' # new
  BY <1>1, <1>3 DEF TagsSound
<1>6. copy.tag # new
  <2>1. CASE copy.tag = <<>>
    BY <1>1, <2>1
  <2>2. CASE Used(copy.tag)
    BY <1>3, <2>2
  <2>3. QED
    BY <2>1, <2>2 DEF CopySound
<1>7. \A v \in 1 .. Len(files') : Etag(v)' = copy.tag => v # at /\ v \in 1 .. Len(files)
                                                          /\ Etag(v) = copy.tag
  BY <1>5, <1>6
<1>8. TagsSound'
  <2>1. ASSUME NEW v \in 1 .. Len(files')
        PROVE  Used(Etag(v))'
    <3>1. CASE v = at
      <4>1. Etag(v)' = new
        BY <1>5, <3>1
      <4>2. QED
        BY <1>4, <4>1 DEF Used
    <3>2. CASE v # at
      <4>1. PICK e : e = Etag(v)
        OBVIOUS
      <4>2. Etag(v)' = e /\ Used(e)
        BY <3>2, <4>1 DEF TagsSound
      <4>3. Used(e)'
        BY <1>3, <4>2
      <4>4. QED
        BY <4>2, <4>3 DEF Used
    <3>3. QED
      BY <3>1, <3>2
  <2>2. ASSUME NEW v \in 1 .. Len(files'), NEW w \in 1 .. Len(files'), Etag(v)' = Etag(w)'
        PROVE  v = w
    <3>1. CASE v = at \/ w = at
      BY <1>5, <2>2, <3>1
    <3>2. CASE v # at /\ w # at
      BY <2>2, <3>2 DEF TagsSound
    <3>3. QED
      BY <3>1, <3>2
  <2>3. QED
    BY <2>1, <2>2 DEF TagsSound
<1>9. CopySound'
  <2>1. PICK tag : tag = copy.tag
    OBVIOUS
  <2>2. Used(tag) => Used(tag)'
    BY <1>3
  <2>3. \/ copy.tag = <<>> /\ copy.data = <<>>
        \/ copy.tag = <<copy.tag[1], copy.total>> /\ Used(copy.tag)'
    BY <2>1, <2>2 DEF CopySound, Used
  <2>4. \A v \in 1 .. Len(files') : Etag(v)' = copy.tag =>
          \A i \in 1 .. Len(copy.data) : copy.data[i] = v
    BY <1>7 DEF CopySound
  <2>5. QED
    BY <2>3, <2>4 DEF CopySound, Used
<1>10. QED
  BY <1>7, <1>8, <1>9

(* A second passes.                                                        *)
LEMMA FileTick ==
  ASSUME FileInv, Tick, UNCHANGED httpVars
  PROVE  FileInv'
<1>1. /\ clock' = clock + 1 /\ taken' = {}
      /\ UNCHANGED <<files, fd, resp, copy, phase, req, walk>>
  BY DEF Tick, httpVars
<1>2. clock \in Nat
  BY DEF FileInv, FilesSound
<1>3. \A tag : Used(tag) => Used(tag)'
  BY <1>1, <1>2 DEF Used
<1>4. \A v : Etag(v)' = Etag(v)
  BY <1>1 DEF Etag
<1>5. FilesSound'
  BY <1>1, <1>2 DEF FileInv, FilesSound
<1>6. TagsSound'
  <2>1. ASSUME NEW v \in 1 .. Len(files)
        PROVE  Used(Etag(v))'
    <3>1. PICK e : e = Etag(v)
      OBVIOUS
    <3>2. Used(e)'
      BY <1>3, <3>1 DEF FileInv, TagsSound
    <3>3. QED
      BY <1>4, <3>1, <3>2 DEF Used
  <2>2. QED
    BY <1>1, <1>4, <2>1 DEF FileInv, TagsSound
<1>7. CopySound'
  <2>1. PICK tag : tag = copy.tag
    OBVIOUS
  <2>2. Used(tag) => Used(tag)'
    BY <1>3
  <2>3. Used(copy.tag) => Used(copy.tag)'
    BY <1>1, <2>1, <2>2 DEF Used
  <2>4. QED
    BY <1>1, <1>4, <2>3 DEF FileInv, CopySound
<1>8. AskSound' /\ RespSound' /\ UnchangedSound' /\ Served'
  BY <1>1 DEF FileInv, AskSound, RespSound, UnchangedSound, Served, Whole, Act
<1>9. SendingSound'
  BY <1>1, <1>4 DEF FileInv, SendingSound
<1>10. QED
  BY <1>1, <1>5, <1>6, <1>7, <1>8, <1>9 DEF FileInv

(* A new version takes the name; the open file stays.                      *)
LEMMA FilePublish ==
  ASSUME FileInv, NEW n \in Nat, Publish(n), UNCHANGED httpVars
  PROVE  FileInv'
<1>1. PICK new : new = [mtime |-> clock, size |-> n]
  OBVIOUS
<1>2. /\ files' = Append(files, new) /\ n \notin taken /\ taken' = taken \cup {n}
      /\ UNCHANGED <<clock, fd, resp, copy, phase, req, walk>>
  BY <1>1 DEF Publish, httpVars
<1>3. PICK len \in Nat : len = Len(files)
  BY LenProperties DEF FileInv, FilesSound
<1>4. clock \in Nat /\ files \in Seq([mtime : Nat, size : Nat])
  BY DEF FileInv, FilesSound
<1>5. new \in [mtime : Nat, size : Nat] /\ new.mtime = clock /\ new.size = n
  BY <1>1, <1>4
<1>6. /\ files' \in Seq([mtime : Nat, size : Nat]) /\ files' # <<>> /\ Len(files') = len + 1
      /\ \A v \in 1 .. len : files'[v] = files[v]
      /\ files'[len + 1] = new
  BY <1>2, <1>3, <1>4, <1>5, AppendProperties
<1>7. FilesSound'
  BY <1>2, <1>4, <1>6 DEF FilesSound
<1>8. \A v \in 1 .. len : Etag(v)' = Etag(v)
  BY <1>6 DEF Etag
<1>9. Etag(len + 1)' = <<clock, n>>
  BY <1>5, <1>6 DEF Etag
<1>10. PICK at : at = len + 1
  OBVIOUS
<1>11. /\ at \in 1 .. Len(files') /\ Etag(at)' = <<clock, n>>
       /\ \A v \in 1 .. Len(files') : v # at => v \in 1 .. Len(files) /\ Etag(v)' = Etag(v)
  <2>1. at \in 1 .. len + 1 /\ \A v \in 1 .. len + 1 : v # at => v \in 1 .. len
    BY <1>3, <1>10
  <2>2. QED
    BY <1>3, <1>6, <1>8, <1>9, <1>10, <2>1
<1>12. /\ TagsSound' /\ CopySound'
       /\ \A v \in 1 .. Len(files') : Etag(v)' = copy.tag => v # at /\ v \in 1 .. Len(files)
                                                             /\ Etag(v) = copy.tag
  BY <1>2, <1>7, <1>11, TagsMove DEF FileInv
<1>13. AskSound' /\ RespSound' /\ UnchangedSound' /\ Served'
  BY <1>2 DEF FileInv, AskSound, RespSound, UnchangedSound, Served, Whole, Act
<1>14. fd # NoFile => fd.ver \in 1 .. len /\ fd.ver \in 1 .. len + 1
  BY <1>3 DEF FileInv
<1>15. SendingSound'
  <2>1. phase = "sending" => files'[fd.ver] = files[fd.ver]
    BY <1>6, <1>14 DEF FileInv, Served
  <2>2. QED
    BY <1>2, <1>12, <2>1 DEF FileInv, SendingSound
<1>16. QED
  BY <1>2, <1>6, <1>7, <1>12, <1>13, <1>14, <1>15 DEF FileInv

(* The newest version is cut; who reads it is marked.                      *)
LEMMA FileTruncate ==
  ASSUME FileInv, NEW n \in Nat, Truncate(n), UNCHANGED httpVars
  PROVE  FileInv'
<1>1. PICK new : new = [mtime |-> clock, size |-> n]
  OBVIOUS
<1>2. PICK len \in Nat : len = Len(files)
  BY LenProperties DEF FileInv, FilesSound
<1>3. PICK short \in BOOLEAN : short <=> fd # NoFile /\ fd.ver = len
  OBVIOUS
<1>4. /\ files' = [files EXCEPT ![len] = new] /\ n \notin taken /\ taken' = taken \cup {n}
      /\ UNCHANGED <<clock, fd, copy, phase, req, walk>>
      /\ resp' = [resp EXCEPT !.cut = @ \/ (fd # NoFile /\ fd.ver = len)]
  BY <1>1, <1>2 DEF Truncate, httpVars
<1>5. clock \in Nat /\ files \in Seq([mtime : Nat, size : Nat]) /\ files # <<>>
  BY DEF FileInv, FilesSound
<1>6. new \in [mtime : Nat, size : Nat] /\ new.mtime = clock /\ new.size = n
  BY <1>1, <1>5
<1>7. len \in 1 .. len
  BY <1>2, <1>5, EmptySeq
<1>8. /\ files' \in Seq([mtime : Nat, size : Nat]) /\ Len(files') = len
      /\ \A v \in 1 .. len : v # len => files'[v] = files[v]
      /\ files'[len] = new
  BY <1>2, <1>4, <1>5, <1>6, <1>7, ExceptSeq
<1>9. FilesSound'
  <2>1. files' # <<>>
    BY <1>7, <1>8, EmptySeq
  <2>2. QED
    BY <1>4, <1>5, <1>8, <2>1 DEF FilesSound
<1>10. \A v \in 1 .. len : v # len => Etag(v)' = Etag(v)
  BY <1>8 DEF Etag
<1>11. Etag(len)' = <<clock, n>>
  BY <1>6, <1>8 DEF Etag
<1>12. /\ TagsSound' /\ CopySound'
       /\ \A v \in 1 .. Len(files') : Etag(v)' = copy.tag => v # len /\ v \in 1 .. Len(files)
                                                             /\ Etag(v) = copy.tag
  BY <1>2, <1>4, <1>7, <1>8, <1>9, <1>10, <1>11, TagsMove DEF FileInv
<1>13. /\ resp'.from = resp.from /\ resp'.owed = resp.owed /\ resp'.sent = resp.sent
       /\ resp'.total = resp.total /\ resp'.status = resp.status /\ resp'.ver = resp.ver
       /\ resp'.cut \in BOOLEAN /\ (resp.cut => resp'.cut) /\ (short => resp'.cut)
       /\ resp' = [status |-> resp'.status, from |-> resp'.from, owed |-> resp'.owed,
                   sent |-> resp'.sent, total |-> resp'.total, ver |-> resp'.ver, cut |-> resp'.cut]
  <2>1. PICK r : r = resp
    OBVIOUS
  <2>2. /\ r = [status |-> r.status, from |-> r.from, owed |-> r.owed, sent |-> r.sent,
                total |-> r.total, ver |-> r.ver, cut |-> r.cut]
        /\ r.cut \in BOOLEAN
    BY <2>1 DEF FileInv, RespSound
  <2>3. PICK c \in BOOLEAN : c <=> r.cut \/ (fd # NoFile /\ fd.ver = len)
    OBVIOUS
  <2>4. resp' = [r EXCEPT !.cut = c]
    <3>1. c = (r.cut \/ (fd # NoFile /\ fd.ver = len))
      BY <2>2, <2>3
    <3>2. QED
      BY <1>4, <2>1, <3>1
  <2>5. resp' = [status |-> r.status, from |-> r.from, owed |-> r.owed, sent |-> r.sent,
                 total |-> r.total, ver |-> r.ver, cut |-> c]
    BY <2>2, <2>4
  <2>6. resp'.cut = c
    BY <2>5
  <2>7. (r.cut => c) /\ (short => c)
    BY <1>3, <2>3
  <2>8. QED
    BY <2>1, <2>5, <2>6, <2>7
<1>14. RespSound'
  BY <1>13 DEF FileInv, RespSound
<1>15. AskSound' /\ UnchangedSound' /\ Served'
  BY <1>4, <1>13 DEF FileInv, AskSound, UnchangedSound, Served, Whole, Act
<1>16. SendingSound'
  <2>1. phase = "sending" => resp'.cut \/ files'[fd.ver] = files[fd.ver]
    BY <1>2, <1>3, <1>8, <1>13 DEF FileInv, Served
  <2>2. QED
    BY <1>4, <1>12, <1>13, <2>1 DEF FileInv, SendingSound
<1>17. QED
  BY <1>2, <1>4, <1>8, <1>9, <1>12, <1>13, <1>14, <1>15, <1>16 DEF FileInv

(* Every step keeps file, copy and response together.                      *)
LEMMA FileNext ==
  ASSUME FileInv, [Next]_vars
  PROVE  FileInv'
<1>1. ASSUME UNCHANGED vars
      PROVE  FileInv'
  <2>1. UNCHANGED <<phase, req, walk, clock, taken, files, fd, resp, copy>>
    BY <1>1 DEF vars, httpVars, staticVars, disk
  <2>2. FilesSound' /\ TagsSound' /\ CopySound'
    BY <2>1, DiskSame DEF disk
  <2>3. AskSound' /\ RespSound' /\ UnchangedSound' /\ Served'
    BY <2>1 DEF FileInv, AskSound, RespSound, UnchangedSound, Served, Whole, Act
  <2>4. SendingSound'
    BY <2>1 DEF FileInv, SendingSound, Etag
  <2>5. QED
    BY <2>1, <2>2, <2>3, <2>4 DEF FileInv
<1>2. ASSUME fd # NoFile
      PROVE  phase \in {"open", "sending"}
  BY <1>2 DEF FileInv, Served
<1>3. ASSUME NEW status, Reply(status), phase \notin {"open", "sending"}
      PROVE  FileInv'
  <2>1. Say(status) /\ phase' = "sent" /\ UNCHANGED <<disk, fd, copy>> /\ fd = NoFile
    BY <1>2, <1>3 DEF Reply
  <2>2. QED
    BY <2>1, FileQuiet
<1>4. ASSUME NEW app, ToApp(app), phase = "decided"
      PROVE  FileInv'
  <2>1. phase' = "app" /\ UNCHANGED <<disk, fd, resp, copy>> /\ fd = NoFile
    BY <1>2, <1>4 DEF ToApp, staticVars
  <2>2. QED
    BY <1>4, <2>1, FileQuiet
<1>5. CASE Boot \/ Reject
  <2>1. /\ phase = "boot" /\ phase' \in {"idle", "refused"}
        /\ UNCHANGED <<disk, fd, resp, copy>> /\ fd = NoFile
    BY <1>2, <1>5 DEF Boot, Reject, staticVars
  <2>2. QED
    BY <2>1, FileQuiet
<1>6. ASSUME resp' = Silent
      PROVE  Say(0)
  <2>1. [Silent EXCEPT !.status = 0] = Silent
    BY DEF Silent
  <2>2. QED
    BY <1>6, <2>1 DEF Say
<1>7. CASE Connect \/ Finish_request
  <2>1. /\ phase \in {"closed", "sent"} /\ phase' \in {"idle", "closed"} /\ resp' = Silent
        /\ UNCHANGED <<disk, fd, copy>> /\ fd = NoFile
    BY <1>2, <1>7 DEF Connect, Finish_request
  <2>2. QED
    BY <1>6, <2>1, FileQuiet
<1>8. CASE Leave
  <2>1. phase' = "closed" /\ fd' = NoFile /\ UNCHANGED <<disk, resp, copy>>
    BY <1>8 DEF Leave
  <2>2. QED
    BY <2>1, FileQuiet
<1>9. CASE \E q \in Requests : RefuseHead(q) \/ \E ask \in Asks(q) : ReceiveHead(q, ask)
  <2>1. PICK q \in Requests : RefuseHead(q) \/ \E ask \in Asks(q) : ReceiveHead(q, ask)
    BY <1>9
  <2>2. CASE RefuseHead(q)
    <3>1. /\ Say(Refusal(q)) /\ phase' = "closed" /\ UNCHANGED <<disk, fd, copy>> /\ fd = NoFile
      BY <1>2, <2>2 DEF RefuseHead
    <3>2. QED
      BY <3>1, FileQuiet
  <2>3. CASE \E ask \in Asks(q) : ReceiveHead(q, ask)
    BY <2>3, FileReceive
  <2>4. QED
    BY <2>1, <2>2, <2>3
<1>10. CASE StatusPage
  BY <1>3, <1>10 DEF StatusPage
<1>11. CASE RefuseRewrite
  <2>1. Say(400) /\ phase' = "closed" /\ UNCHANGED <<disk, fd, copy>> /\ fd = NoFile
    BY <1>2, <1>11 DEF RefuseRewrite, Routed
  <2>2. QED
    BY <2>1, FileQuiet
<1>12. CASE AnswerNotFound
  BY <1>3, <1>12 DEF AnswerNotFound, Routed
<1>13. CASE AnswerReturn
  BY <1>3, <1>13 DEF AnswerReturn, Routed
<1>14. CASE StartApp
  BY <1>4, <1>14 DEF StartApp, Routed
<1>15. CASE OpenFile
  BY <1>15, FileOpen
<1>16. CASE RedirectDirectory
  BY <1>3, <1>16 DEF RedirectDirectory, Sharing, Routed
<1>17. CASE FallBack
  <2>1. PICK next : next = IF Len(walk.decision) > 1 THEN walk.decision[2]
                           ELSE [application |-> {}, return |-> {}]
    OBVIOUS
  <2>2. \/ \E app \in next.application : ToApp(app)
        \/ Reply(IF next.return = {} THEN 404 ELSE The(next.return))
    BY <1>17, <2>1 DEF FallBack
  <2>3. phase = "decided"
    BY <1>17 DEF FallBack, Sharing, Routed
  <2>4. QED
    BY <1>3, <1>4, <2>2, <2>3
<1>18. CASE StartFile
  BY <1>18, FileStart
<1>19. CASE SendFile
  BY <1>19, FileSend
<1>20. CASE EndFile
  <2>1. phase' = "sent" /\ fd' = NoFile /\ UNCHANGED <<disk, resp, copy>> /\ phase = "sending"
    BY <1>20 DEF EndFile
  <2>2. resp.sent = resp.owed \/ resp.cut
    <3>1. SUFFICES ASSUME ~ resp.cut
                   PROVE  resp.sent = resp.owed
      OBVIOUS
    <3>2. PICK from \in Nat, owed \in Nat, sent \in Nat, total \in Nat :
            from = resp.from /\ owed = resp.owed /\ sent = resp.sent /\ total = resp.total
      BY DEF FileInv, RespSound
    <3>3. files[fd.ver].size = total /\ from + owed <= total /\ sent <= owed
      BY <2>1, <3>1, <3>2 DEF FileInv, SendingSound
    <3>4. sent = owed \/ from + sent >= total
      BY <1>20, <3>2, <3>3 DEF EndFile, CopyEnds
    <3>5. QED
      BY <3>2, <3>3, <3>4
  <2>3. QED
    BY <2>1, <2>2, FileQuiet
<1>21. CASE AppAnswers
  BY <1>3, <1>21 DEF AppAnswers
<1>22. CASE AppUpgrades \/ TunnelEnds \/ TunnelStep
  <2>1. /\ phase \in {"app", "tunnel"} /\ phase' \in {"tunnel", "closed"}
        /\ UNCHANGED <<disk, fd, resp, copy>> /\ fd = NoFile
    BY <1>2, <1>22 DEF AppUpgrades, TunnelEnds, TunnelStep, staticVars, httpVars
  <2>2. QED
    BY <2>1, FileQuiet
<1>23. CASE FilesChange
  <2>1. UNCHANGED httpVars
    BY <1>23 DEF FilesChange
  <2>2. Tick \/ (\E n \in Nat : Publish(n)) \/ (\E n \in Nat : Truncate(n))
    <3>1. 1 .. MaxSize \subseteq Nat /\ 0 .. MaxSize - 1 \subseteq Nat
      BY StaticAssumption
    <3>2. QED
      BY <1>23, <3>1 DEF FilesChange
  <2>3. QED
    BY <2>1, <2>2, FileTick, FilePublish, FileTruncate
<1>24. QED
  BY <1>1, <1>5, <1>7, <1>8, <1>9, <1>10, <1>11, <1>12, <1>13, <1>14, <1>15, <1>16,
     <1>17, <1>18, <1>19, <1>20, <1>21, <1>22, <1>23 DEF Next

(* However a file is replaced, cut, fetched, resumed and revalidated: what *)
(* is open, said and kept stays together.                                  *)
THEOREM FileIsServed == Spec => []FileInv
<1>1. Init => FileInv
  BY FileInit
<1>2. FileInv /\ [Next]_vars => FileInv'
  BY FileNext
<1>3. QED
  BY <1>1, <1>2, PTL DEF Spec

(* A client never has bytes of two versions, and a 304 of a file is only   *)
(* said of a copy that is all of it.                                       *)
THEOREM CopyIsOneVersion == Spec => []OneVersion
<1>1. FileInv => OneVersion
  <2>1. SUFFICES ASSUME FileInv
                 PROVE  OneVersion
    OBVIOUS
  <2>2. PICK data : data = copy.data
    OBVIOUS
  <2>3. DOMAIN data = 1 .. Len(data) /\ \A i, j \in 1 .. Len(data) : data[i] = data[j]
    BY <2>1, <2>2, ListProperties DEF FileInv, CopySound
  <2>4. Cardinality(ToSet(data)) <= 1
    <3>1. CASE DOMAIN data = {}
      <4>1. ToSet(data) = {}
        BY <3>1 DEF ToSet
      <4>2. QED
        BY <4>1, FS_EmptySet
    <3>2. CASE DOMAIN data # {}
      <4>1. PICK i \in 1 .. Len(data) : TRUE
        BY <2>3, <3>2
      <4>2. ToSet(data) = {data[i]}
        BY <2>3, <4>1 DEF ToSet
      <4>3. Cardinality({data[i]}) = 1
        BY FS_Singleton
      <4>4. QED
        BY <4>2, <4>3
    <3>3. QED
      BY <3>1, <3>2
  <2>5. QED
    BY <2>1, <2>2, <2>4 DEF FileInv, UnchangedSound, OneVersion
<1>2. QED
  BY <1>1, FileIsServed, PTL

(* What the head announced is what is sent, and what was asked for, unless *)
(* the file is cut meanwhile, which the connection outlives (CutCloses).   *)
THEOREM BodyIsExact == Spec => []BodyExact
<1>1. FileInv => BodyExact
  BY DEF FileInv, SendingSound, BodyExact
<1>2. QED
  BY <1>1, FileIsServed, PTL

(* No source is sent that the share does not list, by any name of it; and  *)
(* the one it lists is not run by the fallback of that share.              *)
THEOREM SourcesAreHeld == Spec => []SourcesHeld
<1>1. RouteInv /\ FileInv => SourcesHeld
  <2>1. SUFFICES ASSUME RouteInv, FileInv, fd # NoFile, NEW ext \in SourceExts,
                        IsSource(fd.at[2], ext)
                 PROVE  /\ ext \in The(Act.share).serve_sources
                        /\ \A k \in DOMAIN walk.decision : walk.decision[k].application = {}
    BY DEF SourcesHeld
  <2>2. PICK name : name = fd.at[2]
    OBVIOUS
  <2>3. PICK share : share = The(Act.share)
    OBVIOUS
  <2>4. /\ phase \in Acting /\ Act.share # {} /\ IsList(name)
        /\ SourceExt(name) \notin SourceExts \ share.serve_sources
    BY <2>1, <2>2, <2>3 DEF FileInv, Served, Acting
  <2>5. SourceExt(name) = ext
    BY <2>1, <2>2, <2>4, SourceMeaning
  <2>6. ext \in share.serve_sources
    BY <2>1, <2>4, <2>5
  <2>7. share \in Act.share
    BY <2>3, <2>4 DEF The
  <2>8. PICK actions : actions = walk.decision
    OBVIOUS
  <2>9. actions # NotFound /\ Up
    BY <2>1, <2>4, <2>8 DEF RouteInv, HeadSound, Up, Acting
  <2>10. /\ Len(actions) \in Nat \ {0} /\ DOMAIN actions = 1 .. Len(actions)
         /\ \A k \in DOMAIN actions : SoundAction(conf.routes, conf.pools, actions, k)
    BY <2>1, <2>4, <2>8, <2>9, DecisionSound
  <2>11. 1 \in DOMAIN actions /\ SoundAction(conf.routes, conf.pools, actions, 1)
    BY <2>10
  <2>12. /\ actions[1].share # {} => actions[1].application = {}
         /\ \A s \in actions[1].share : s.serve_sources # {} =>
              \A l \in DOMAIN actions : l > 1 => actions[l].application = {}
    BY <2>11 DEF SoundAction
  <2>13. \A k \in DOMAIN actions : k = 1 \/ k > 1
    BY <2>10
  <2>14. \A k \in DOMAIN actions : actions[k].application = {}
    BY <2>4, <2>6, <2>7, <2>8, <2>12, <2>13 DEF Act
  <2>15. QED
    BY <2>3, <2>6, <2>8, <2>14
<1>2. QED
  BY <1>1, FileIsServed, RequestIsRouted, PTL

-----------------------------------------------------------------------------
(* The frames of a tunnel: what is joined and handed on, frame by frame.   *)

None == [opcode |-> "none", payload |-> <<>>]

\* What is joined after frame i, from what was before it.
Joins(s, i, before) ==
  IF ~ Data(s, i) THEN before
  ELSE IF s[i].opcode \in Start THEN Said(s, i)
  ELSE [opcode |-> before.opcode, payload |-> before.payload \o s[i].payload]

(* Fragments are joined one after the other: the function exists.          *)
LEMMA JoinedInOrder ==
  ASSUME NEW s, Len(s) \in Nat
  PROVE  /\ Joined(s)[0] = None
         /\ \A i \in 1 .. Len(s) : Joined(s)[i] = Joins(s, i, Joined(s)[i - 1])
<1> DEFINE Upto(m, f) == f = [i \in 0 .. m |-> IF i = 0 THEN None ELSE Joins(s, i, f[i - 1])]
           Bad == {m \in Nat : ~ \E f : Upto(m, f)}
<1>1. Upto(0, [i \in 0 .. 0 |-> None])
  OBVIOUS
<1>2. ASSUME NEW m \in Nat, m # 0, NEW f, Upto(m - 1, f)
      PROVE  \E g : Upto(m, g)
  <2> DEFINE g == [i \in 0 .. m |-> IF i = m THEN Joins(s, m, f[m - 1]) ELSE f[i]]
  <2>1. ASSUME NEW i \in 0 .. m
        PROVE  g[i] = IF i = 0 THEN None ELSE Joins(s, i, g[i - 1])
    <3>1. CASE i = m
      BY <1>2, <3>1
    <3>2. CASE i # m
      <4>1. i \in 0 .. m - 1 /\ g[i] = f[i] /\ (i # 0 => g[i - 1] = f[i - 1])
        BY <3>2
      <4>2. f[i] = IF i = 0 THEN None ELSE Joins(s, i, f[i - 1])
        BY <1>2, <4>1
      <4>3. QED
        BY <4>1, <4>2
    <3>3. QED
      BY <3>1, <3>2
  <2>2. Upto(m, g)
    BY <2>1
  <2>3. QED
    BY <2>2
<1> HIDE DEF Upto
<1>3. Bad = {}
  <2>1. SUFFICES ASSUME Bad # {}
                 PROVE  FALSE
    OBVIOUS
  <2>2. PICK m \in Bad : \A k \in Bad : m <= k
    BY <2>1, LeastNat
  <2>3. m # 0
    BY <1>1
  <2>4. m - 1 \in Nat /\ m - 1 \notin Bad
    BY <2>2, <2>3
  <2>5. QED
    BY <1>2, <2>2, <2>3, <2>4
<1>4. PICK n \in Nat : n = Len(s)
  OBVIOUS
<1>5. \E f : Upto(n, f)
  <2>1. n \notin Bad
    BY <1>3
  <2>2. QED
    BY <2>1
<1>6. Joined(s) = CHOOSE f : Upto(n, f)
  BY <1>4 DEF Joined, Joins, None, Upto
<1>7. Upto(n, Joined(s))
  BY <1>5, <1>6
<1>8. PICK joined : joined = Joined(s)
  OBVIOUS
<1>9. Upto(n, joined)
  BY <1>7, <1>8
<1>10. joined[0] = None /\ \A i \in 1 .. n : joined[i] = Joins(s, i, joined[i - 1])
  BY <1>9 DEF Upto
<1>11. QED
  BY <1>4, <1>8, <1>10

(* Messages are handed on one after the other: the function exists.        *)
LEMMA MessagesInOrder ==
  ASSUME NEW s, Len(s) \in Nat
  PROVE  /\ Messages(s)[0] = <<>>
         /\ \A i \in 1 .. Len(s) :
              Messages(s)[i] = IF s[i].fin THEN Append(Messages(s)[i - 1], Message(s, i))
                                           ELSE Messages(s)[i - 1]
<1> DEFINE Next1(i, before) == IF s[i].fin THEN Append(before, Message(s, i)) ELSE before
           Upto(m, f) == f = [i \in 0 .. m |-> IF i = 0 THEN <<>> ELSE Next1(i, f[i - 1])]
           Bad == {m \in Nat : ~ \E f : Upto(m, f)}
<1>1. Upto(0, [i \in 0 .. 0 |-> <<>>])
  OBVIOUS
<1>2. ASSUME NEW m \in Nat, m # 0, NEW f, Upto(m - 1, f)
      PROVE  \E g : Upto(m, g)
  <2> HIDE DEF Next1
  <2> DEFINE g == [i \in 0 .. m |-> IF i = m THEN Next1(m, f[m - 1]) ELSE f[i]]
  <2>1. ASSUME NEW i \in 0 .. m
        PROVE  g[i] = IF i = 0 THEN <<>> ELSE Next1(i, g[i - 1])
    <3>1. CASE i = m
      BY <1>2, <3>1
    <3>2. CASE i # m
      <4>1. i \in 0 .. m - 1 /\ g[i] = f[i] /\ (i # 0 => g[i - 1] = f[i - 1])
        BY <3>2
      <4>2. f[i] = IF i = 0 THEN <<>> ELSE Next1(i, f[i - 1])
        BY <1>2, <4>1
      <4>3. QED
        BY <4>1, <4>2
    <3>3. QED
      BY <3>1, <3>2
  <2>2. Upto(m, g)
    BY <2>1
  <2>3. QED
    BY <2>2
<1> HIDE DEF Upto, Next1
<1>3. Bad = {}
  <2>1. SUFFICES ASSUME Bad # {}
                 PROVE  FALSE
    OBVIOUS
  <2>2. PICK m \in Bad : \A k \in Bad : m <= k
    BY <2>1, LeastNat
  <2>3. m # 0
    BY <1>1
  <2>4. m - 1 \in Nat /\ m - 1 \notin Bad
    BY <2>2, <2>3
  <2>5. QED
    BY <1>2, <2>2, <2>3, <2>4
<1>4. PICK n \in Nat : n = Len(s)
  OBVIOUS
<1>5. \E f : Upto(n, f)
  <2>1. n \notin Bad
    BY <1>3
  <2>2. QED
    BY <2>1
<1>6. Messages(s) = CHOOSE f : Upto(n, f)
  BY <1>4 DEF Messages, Upto, Next1
<1>7. Upto(n, Messages(s))
  BY <1>5, <1>6
<1>8. PICK handed : handed = Messages(s)
  OBVIOUS
<1>9. Upto(n, handed)
  BY <1>7, <1>8
<1>10. handed[0] = <<>> /\ \A i \in 1 .. n : handed[i] = Next1(i, handed[i - 1])
  BY <1>9 DEF Upto
<1>11. QED
  BY <1>4, <1>8, <1>10 DEF Next1

\* The sequence t is s and the frame f, and says of s what s says.
Grown(s, f, t, n) ==
  /\ \A i \in 0 .. n : Joined(t)[i] = Joined(s)[i] /\ Messages(t)[i] = Messages(s)[i]
  /\ \A i \in 1 .. n : Message(t, i) = Message(s, i) /\ Data(t, i) = Data(s, i) /\ t[i] = s[i]
  /\ \A i \in 1 .. n + 1 : Within(t, i) = Within(s, i)
  /\ t[n + 1] = f /\ Len(t) = n + 1 /\ DOMAIN t = 1 .. n + 1

(* One frame more changes nothing of what was joined and handed on before. *)
LEMMA FrameMore ==
  ASSUME NEW s, IsList(s), NEW f, NEW t, t = Append(s, f), NEW n \in Nat, n = Len(s)
  PROVE  Grown(s, f, t, n)
<1>1. /\ IsList(t) /\ Len(t) = n + 1 /\ DOMAIN t = 1 .. n + 1 /\ t[n + 1] = f
      /\ \A i \in 1 .. n : t[i] = s[i]
  BY ListAppend, ListProperties
<1>2. PICK js, jt : js = Joined(s) /\ jt = Joined(t)
  OBVIOUS
<1>3. PICK ms, mt : ms = Messages(s) /\ mt = Messages(t)
  OBVIOUS
<1>4. \A i \in 1 .. n : (Data(t, i) <=> Data(s, i)) /\ Said(t, i) = Said(s, i)
  BY <1>1 DEF Data, Said
<1>5. js[0] = None /\ jt[0] = None
  BY <1>1, <1>2, JoinedInOrder
<1>6. \A i \in 1 .. n : js[i] = Joins(s, i, js[i - 1]) /\ jt[i] = Joins(t, i, jt[i - 1])
  <2>1. \A i \in 1 .. n : js[i] = Joins(s, i, js[i - 1])
    BY <1>2, JoinedInOrder
  <2>2. \A i \in 1 .. n + 1 : jt[i] = Joins(t, i, jt[i - 1])
    <3>1. Len(t) \in Nat
      BY <1>1
    <3>2. \A i \in 1 .. Len(t) : jt[i] = Joins(t, i, jt[i - 1])
      BY <1>2, <3>1, JoinedInOrder
    <3>3. QED
      BY <1>1, <3>2
  <2>3. QED
    BY <2>1, <2>2
<1>7. \A i \in 0 .. n : jt[i] = js[i]
  <2> DEFINE Bad == {i \in 0 .. n : jt[i] # js[i]}
  <2>1. SUFFICES ASSUME Bad # {}
                 PROVE  FALSE
    OBVIOUS
  <2>2. Bad \subseteq Nat
    OBVIOUS
  <2>3. PICK i \in Bad : \A k \in Bad : i <= k
    BY <2>1, <2>2, LeastNat
  <2>4. i \in 1 .. n
    BY <1>5, <2>3
  <2>5. PICK before : before = js[i - 1]
    OBVIOUS
  <2>6. jt[i - 1] = before
    BY <2>3, <2>4, <2>5
  <2>7. js[i] = Joins(s, i, before) /\ jt[i] = Joins(t, i, before)
    BY <1>6, <2>4, <2>5, <2>6
  <2>8. Joins(s, i, before) = Joins(t, i, before)
    BY <1>1, <1>4, <2>4 DEF Joins
  <2>9. QED
    BY <2>3, <2>7, <2>8
<1>8. \A i \in 1 .. n : Message(t, i) = Message(s, i)
  BY <1>2, <1>4, <1>7 DEF Message
<1>9. ms[0] = <<>> /\ mt[0] = <<>>
  BY <1>1, <1>3, MessagesInOrder
<1>10. \A i \in 1 .. n :
         /\ ms[i] = IF s[i].fin THEN Append(ms[i - 1], Message(s, i)) ELSE ms[i - 1]
         /\ mt[i] = IF t[i].fin THEN Append(mt[i - 1], Message(t, i)) ELSE mt[i - 1]
  <2>1. \A i \in 1 .. n : ms[i] = IF s[i].fin THEN Append(ms[i - 1], Message(s, i)) ELSE ms[i - 1]
    BY <1>3, MessagesInOrder
  <2>2. \A i \in 1 .. n + 1 :
          mt[i] = IF t[i].fin THEN Append(mt[i - 1], Message(t, i)) ELSE mt[i - 1]
    <3>1. Len(t) \in Nat
      BY <1>1
    <3>2. \A i \in 1 .. Len(t) :
            mt[i] = IF t[i].fin THEN Append(mt[i - 1], Message(t, i)) ELSE mt[i - 1]
      BY <1>3, <3>1, MessagesInOrder
    <3>3. QED
      BY <1>1, <3>2
  <2>3. QED
    BY <2>1, <2>2
<1>11. \A i \in 0 .. n : mt[i] = ms[i]
  <2> DEFINE Bad == {i \in 0 .. n : mt[i] # ms[i]}
  <2>1. SUFFICES ASSUME Bad # {}
                 PROVE  FALSE
    OBVIOUS
  <2>2. Bad \subseteq Nat
    OBVIOUS
  <2>3. PICK i \in Bad : \A k \in Bad : i <= k
    BY <2>1, <2>2, LeastNat
  <2>4. i \in 1 .. n
    BY <1>9, <2>3
  <2>5. PICK before : before = ms[i - 1]
    OBVIOUS
  <2>6. mt[i - 1] = before
    BY <2>3, <2>4, <2>5
  <2>7. PICK m : m = Message(s, i)
    OBVIOUS
  <2>8. PICK g : g = s[i]
    OBVIOUS
  <2>9. /\ ms[i] = IF g.fin THEN Append(before, m) ELSE before
        /\ mt[i] = IF g.fin THEN Append(before, m) ELSE before
    BY <1>1, <1>8, <1>10, <2>4, <2>5, <2>6, <2>7, <2>8
  <2>10. QED
    BY <2>3, <2>9
<1>12. ASSUME NEW i \in 1 .. n + 1
       PROVE  Within(t, i) <=> Within(s, i)
  <2>1. \A j \in 1 .. i - 1 : j \in 1 .. n
    OBVIOUS
  <2>2. \A j \in 1 .. i - 1 : \A k \in j + 1 .. i - 1 : k \in 1 .. n
    BY <2>1
  <2>3. QED
    BY <1>1, <1>4, <2>1, <2>2 DEF Within
<1>13. /\ \A i \in 1 .. n + 1 : Within(t, i) = Within(s, i)
       /\ \A i \in 1 .. n : Data(t, i) = Data(s, i)
  BY <1>4, <1>12 DEF Within, Data
<1>14. QED
  BY <1>1, <1>2, <1>3, <1>7, <1>8, <1>11, <1>13 DEF Grown

\* What the rules ask of one frame: m is the message it ends or goes on with.
Rules(f, m, within) ==
  /\ f.masked /\ ~ f.rsv
  /\ IF f.opcode \in Controls THEN f.fin /\ f.len <= MaxControl
     ELSE /\ f.opcode \in Start \cup {"continuation"} /\ f.len <= MaxMessage
          /\ (f.opcode = "continuation") <=> within
          /\ Len(m.payload) <= MaxMessage
          /\ f.fin /\ m.opcode = "text" => Utf8(m.payload)

\* The message of a frame that comes after those joined so far.
Continued(f, before) ==
  IF f.opcode \in Controls \cup Start THEN [opcode |-> f.opcode, payload |-> f.payload]
  ELSE [opcode |-> before.opcode, payload |-> before.payload \o f.payload]

\* What the sequence t, which is s and the frame f, says beyond s.
Adds(s, f, t, n, m) ==
  /\ Joined(t)[n + 1] = IF f.opcode \in Controls THEN Joined(s)[n] ELSE m
  /\ Messages(t)[n + 1] = IF f.fin THEN Append(Messages(s)[n], m) ELSE Messages(s)[n]
  /\ Within(t, n + 2) <=> IF f.opcode \in Controls THEN Within(s, n + 1) ELSE ~ f.fin
  /\ Conforms(t) <=> Conforms(s) /\ Rules(f, m, Within(s, n + 1))

(* What one frame more adds.                                               *)
LEMMA FrameNext ==
  ASSUME NEW s, IsList(s), NEW f, NEW t, t = Append(s, f), NEW n \in Nat, n = Len(s),
         NEW m, m = Continued(f, Joined(s)[n])
  PROVE  Adds(s, f, t, n, m)
<1>1. /\ \A i \in 0 .. n : Joined(t)[i] = Joined(s)[i] /\ Messages(t)[i] = Messages(s)[i]
      /\ \A i \in 1 .. n : Message(t, i) = Message(s, i) /\ Data(t, i) = Data(s, i) /\ t[i] = s[i]
      /\ \A i \in 1 .. n + 1 : Within(t, i) = Within(s, i)
      /\ t[n + 1] = f /\ Len(t) = n + 1 /\ DOMAIN t = 1 .. n + 1
  <2>1. Grown(s, f, t, n)
    BY FrameMore
  <2>2. QED
    BY <2>1 DEF Grown
<1>2. PICK p \in Nat : p = n + 1
  OBVIOUS
<1>3. /\ t[p] = f /\ Len(t) = p /\ DOMAIN t = 1 .. p /\ p \in 1 .. p /\ p - 1 = n
      /\ (Within(t, p) <=> Within(s, n + 1))
  <2>1. p \in 1 .. n + 1 /\ p - 1 = n
    BY <1>2
  <2>2. QED
    BY <1>1, <1>2, <2>1
<1>4. Data(t, p) <=> f.opcode \notin Controls
  BY <1>3 DEF Data
<1>5. Said(t, p) = [opcode |-> f.opcode, payload |-> f.payload]
  BY <1>3 DEF Said
<1>6. PICK before : before = Joined(s)[n]
  OBVIOUS
<1>7. Joined(t)[n] = before /\ Messages(t)[n] = Messages(s)[n]
  BY <1>1, <1>6
<1>8. Joined(t)[p] = Joins(t, p, before)
  <2>1. Joined(t)[p] = Joins(t, p, Joined(t)[p - 1])
    BY <1>3, JoinedInOrder
  <2>2. QED
    BY <1>3, <1>7, <2>1
<1>9. Joins(t, p, before) = IF f.opcode \in Controls THEN before ELSE m
  BY <1>3, <1>4, <1>5, <1>6 DEF Joins, Continued, Controls, Start
<1>10. Message(t, p) = m
  BY <1>4, <1>5, <1>6, <1>8, <1>9 DEF Message, Continued
<1>11. Messages(t)[p] = IF f.fin THEN Append(Messages(s)[n], m) ELSE Messages(s)[n]
  <2>1. Messages(t)[p] = IF t[p].fin THEN Append(Messages(t)[p - 1], Message(t, p))
                                     ELSE Messages(t)[p - 1]
    BY <1>3, MessagesInOrder
  <2>2. QED
    BY <1>3, <1>7, <1>10, <2>1
<1>12. Within(t, n + 2) <=> IF f.opcode \in Controls THEN Within(s, n + 1) ELSE ~ f.fin
  <2>1. n + 2 - 1 = p
    BY <1>2
  <2>2. CASE f.opcode \notin Controls
    <3>1. ASSUME ~ f.fin
          PROVE  Within(t, n + 2)
      <4>1. p \in 1 .. n + 2 - 1 /\ \A k \in p + 1 .. n + 2 - 1 : ~ Data(t, k)
        BY <1>2
      <4>2. Data(t, p) /\ ~ t[p].fin
        BY <1>3, <1>4, <2>2, <3>1
      <4>3. QED
        BY <4>1, <4>2 DEF Within
    <3>2. ASSUME Within(t, n + 2)
          PROVE  ~ f.fin
      <4>1. PICK j \in 1 .. n + 2 - 1 : /\ Data(t, j) /\ ~ t[j].fin
                                        /\ \A k \in j + 1 .. n + 2 - 1 : ~ Data(t, k)
        BY <3>2 DEF Within
      <4>2. p \notin j + 1 .. n + 2 - 1
        BY <1>4, <2>2, <4>1
      <4>3. j = p
        BY <1>2, <4>2
      <4>4. QED
        BY <1>3, <4>1, <4>3
    <3>3. QED
      BY <2>2, <3>1, <3>2
  <2>3. CASE f.opcode \in Controls
    <3>1. \A k \in 1 .. n : Data(t, k) = Data(s, k) /\ t[k] = s[k]
      BY <1>1
    <3>2. ASSUME Within(s, n + 1)
          PROVE  Within(t, n + 2)
      <4>1. PICK j \in 1 .. n + 1 - 1 : /\ Data(s, j) /\ ~ s[j].fin
                                        /\ \A k \in j + 1 .. n + 1 - 1 : ~ Data(s, k)
        BY <3>2 DEF Within
      <4>2. j \in 1 .. n + 2 - 1 /\ j \in 1 .. n
        OBVIOUS
      <4>3. Data(t, j) /\ ~ t[j].fin
        BY <3>1, <4>1, <4>2
      <4>4. ASSUME NEW k \in j + 1 .. n + 2 - 1
            PROVE  ~ Data(t, k)
        <5>1. CASE k = p
          BY <1>4, <2>3, <5>1
        <5>2. CASE k # p
          <6>1. k \in j + 1 .. n + 1 - 1 /\ k \in 1 .. n
            BY <1>2, <5>2
          <6>2. QED
            BY <3>1, <4>1, <6>1
        <5>3. QED
          BY <5>1, <5>2
      <4>5. QED
        BY <4>2, <4>3, <4>4 DEF Within
    <3>3. ASSUME Within(t, n + 2)
          PROVE  Within(s, n + 1)
      <4>1. PICK j \in 1 .. n + 2 - 1 : /\ Data(t, j) /\ ~ t[j].fin
                                        /\ \A k \in j + 1 .. n + 2 - 1 : ~ Data(t, k)
        BY <3>3 DEF Within
      <4>2. j # p
        BY <1>4, <2>3, <4>1
      <4>3. j \in 1 .. n + 1 - 1 /\ j \in 1 .. n
        BY <1>2, <4>2
      <4>4. Data(s, j) /\ ~ s[j].fin
        BY <3>1, <4>1, <4>3
      <4>5. ASSUME NEW k \in j + 1 .. n + 1 - 1
            PROVE  ~ Data(s, k)
        <5>1. k \in j + 1 .. n + 2 - 1 /\ k \in 1 .. n
          OBVIOUS
        <5>2. QED
          BY <3>1, <4>1, <5>1
      <4>6. QED
        BY <4>3, <4>4, <4>5 DEF Within
    <3>4. QED
      BY <2>3, <3>2, <3>3
  <2>4. QED
    BY <2>2, <2>3
<1>13. Conforms(t) <=> Conforms(s) /\ Rules(f, m, Within(s, n + 1))
  <2> DEFINE Fine(u, i) ==
        /\ u[i].masked /\ ~u[i].rsv
        /\ IF ~Data(u, i) THEN u[i].fin /\ u[i].len <= MaxControl
           ELSE /\ u[i].opcode \in Start \cup {"continuation"} /\ u[i].len <= MaxMessage
                /\ (u[i].opcode = "continuation") <=> Within(u, i)
                /\ Len(Message(u, i).payload) <= MaxMessage
                /\ u[i].fin /\ Message(u, i).opcode = "text" => Utf8(Message(u, i).payload)
  <2>1. ASSUME NEW i \in 1 .. n
        PROVE  Fine(t, i) <=> Fine(s, i)
    <3>1. i \in 1 .. n + 1
      OBVIOUS
    <3>2. Message(t, i) = Message(s, i) /\ Data(t, i) = Data(s, i) /\ t[i] = s[i]
      BY <1>1
    <3>3. Within(t, i) <=> Within(s, i)
      BY <1>1, <3>1
    <3>4. QED
      BY <3>2, <3>3
  <2>2. Fine(t, p) <=> Rules(f, m, Within(s, n + 1))
    BY <1>3, <1>4, <1>10 DEF Rules
  <2>3. DOMAIN s = 1 .. n
    BY ListProperties
  <2>4. (Conforms(t) <=> \A i \in 1 .. p : Fine(t, i)) /\ (Conforms(s) <=> \A i \in 1 .. n : Fine(s, i))
    BY <1>3, <2>3 DEF Conforms
  <2> HIDE DEF Fine
  <2>5. (\A i \in 1 .. p : Fine(t, i)) <=> (\A i \in 1 .. n : Fine(t, i)) /\ Fine(t, p)
    <3>1. \A i \in 1 .. p : i = p \/ i \in 1 .. n
      BY <1>2
    <3>2. \A i \in 1 .. n : i \in 1 .. p
      BY <1>2
    <3>3. QED
      BY <1>3, <3>1, <3>2
  <2>6. QED
    BY <2>1, <2>2, <2>4, <2>5
<1>14. QED
  BY <1>2, <1>6, <1>8, <1>9, <1>11, <1>12, <1>13 DEF Adds

\* The decoder holds the message in progress of the frames it has cut.
DecoderSound ==
  /\ decoder = [opcode |-> decoder.opcode, frag |-> decoder.frag]
  /\ IF Within(cut, Len(cut) + 1)
     THEN /\ decoder.opcode # "none" /\ decoder.opcode = Joined(cut)[Len(cut)].opcode
          /\ decoder.frag = Joined(cut)[Len(cut)].payload
     ELSE decoder = Nothing

FrameInv ==
  /\ buf \in Seq(Frames) /\ cut \in Seq(Frames) /\ got \in Nat /\ IsList(out)
  /\ buf # <<>> => got <= Size(buf[Len(buf)])
  /\ DecoderSound /\ IsList(decoder.frag) /\ Len(decoder.frag) <= MaxMessage
  /\ MessagesWhole

(* At first nothing has arrived, and nothing is handed on.                 *)
LEMMA FrameInit == WsInit => FrameInv
<1> SUFFICES ASSUME WsInit
             PROVE  FrameInv
  OBVIOUS
<1>1. buf = <<>> /\ got = 0 /\ decoder = Nothing /\ cut = <<>> /\ out = <<>> /\ verdict = "ok"
  BY DEF WsInit
<1>2. buf \in Seq(Frames) /\ cut \in Seq(Frames) /\ IsList(out) /\ Len(cut) = 0 /\ DOMAIN cut = {}
  BY <1>1, EmptySeq, LenProperties DEF IsList
<1>3. decoder.frag = <<>> /\ decoder = [opcode |-> decoder.opcode, frag |-> decoder.frag]
  BY <1>1 DEF Nothing
<1>4. IsList(decoder.frag) /\ Len(decoder.frag) = 0
  BY <1>3, EmptySeq DEF IsList
<1>5. ~ Within(cut, Len(cut) + 1)
  BY <1>2 DEF Within
<1>6. Messages(cut)[Len(cut)] = <<>>
  BY <1>2, MessagesInOrder
<1>7. Conforms(cut)
  BY <1>2 DEF Conforms
<1>8. MessagesWhole
  BY <1>1, <1>6, <1>7 DEF MessagesWhole
<1>9. DecoderSound
  BY <1>1, <1>3, <1>5 DEF DecoderSound
<1>10. QED
  BY <1>1, <1>2, <1>4, <1>8, <1>9, DecoderAssumption DEF FrameInv

(* The first frame of the buffer, its message, and what the decoder has.   *)
LEMMA FirstFrame ==
  ASSUME FrameInv, State # "more"
  PROVE  /\ buf # <<>> /\ First \in Frames
         /\ First.len = Len(First.payload) /\ IsList(First.payload)
         /\ State = Parse(First, Arrived)
<1>1. buf # <<>>
  BY DEF State
<1>2. First \in Frames
  BY <1>1, EmptySeq, ElementOfSeq, LenProperties DEF FrameInv, First
<1>3. QED
  BY <1>1, <1>2, DecoderAssumption DEF State, IsList

(* A frame that is cut off has been let through by its header.             *)
LEMMA FrameParsed ==
  ASSUME FrameInv, State = "frame"
  PROVE  /\ First.masked /\ ~ First.rsv
         /\ First.len <= Limit(First)
<1>1. Parse(First, Arrived) = "frame"
  BY FirstFrame
<1>2. First \in Frames /\ First.len = Len(First.payload)
  BY FirstFrame
<1>3. First.len \in Nat
  BY <1>2, LenProperties, DecoderAssumption
<1>4. Limit(First) \in Nat
  BY DecoderAssumption DEF Limit
<1>5. QED
  BY <1>1, <1>3, <1>4 DEF Parse

\* The message of the first frame, and the rules for it.
Coming == Continued(First, Joined(cut)[Len(cut)])
Lawful == Rules(First, Coming, Within(cut, Len(cut) + 1))

(* The tunnel ends over a frame that breaks the rules.                     *)
LEMMA FrameFails ==
  ASSUME FrameInv, ~ Lawful, NEW why, Fail(why)
  PROVE  FrameInv'
<1>1. UNCHANGED <<buf, got, decoder, cut, out>>
  BY DEF Fail
<1>2. PICK n \in Nat : n = Len(cut) /\ IsList(cut)
  BY SeqIsList, LenProperties DEF FrameInv
<1>3. ~ Conforms(Append(cut, First))
  <2>1. PICK t : t = Append(cut, First)
    OBVIOUS
  <2>2. PICK m : m = Continued(First, Joined(cut)[n])
    OBVIOUS
  <2>3. PICK f : f = First
    OBVIOUS
  <2>4. Conforms(t) <=> Conforms(cut) /\ Rules(f, m, Within(cut, n + 1))
    <3>1. Adds(cut, f, t, n, m)
      BY <1>2, <2>1, <2>2, <2>3, FrameNext
    <3>2. QED
      BY <3>1 DEF Adds
  <2>5. QED
    BY <1>2, <2>1, <2>2, <2>3, <2>4 DEF Lawful, Coming
<1>4. MessagesWhole'
  <2>1. First' = First
    BY <1>1 DEF First
  <2>2. QED
    BY <1>1, <1>3, <2>1 DEF FrameInv, MessagesWhole
<1>5. DecoderSound'
  BY <1>1 DEF FrameInv, DecoderSound
<1>6. buf' # <<>> => got' <= Size(buf'[Len(buf')])
  BY <1>1 DEF FrameInv
<1>7. QED
  BY <1>1, <1>4, <1>5, <1>6 DEF FrameInv

\* What the decoder keeps of the message in progress after the first frame.
Keeps(rest) ==
  /\ rest = [opcode |-> rest.opcode, frag |-> rest.frag]
  /\ IsList(rest.frag) /\ Len(rest.frag) <= MaxMessage
  /\ IF First.opcode \in Controls THEN rest = decoder
     ELSE IF First.fin THEN rest = Nothing
     ELSE rest.opcode # "none" /\ rest.opcode = Coming.opcode /\ rest.frag = Coming.payload

(* A frame that keeps the rules is handed on with what it ends.            *)
LEMMA FrameTaken ==
  ASSUME FrameInv, Lawful, NEW rest, Keeps(rest), State = "frame",
         NEW message, Take(message, rest), message = IF First.fin THEN <<Coming>> ELSE <<>>,
         verdict' \in {"ok", "closed"}
  PROVE  FrameInv'
<1>1. PICK n \in Nat : n = Len(cut) /\ IsList(cut)
  BY SeqIsList, LenProperties DEF FrameInv
<1>2. PICK f : f = First
  OBVIOUS
<1>3. PICK m : m = Continued(f, Joined(cut)[n])
  OBVIOUS
<1>4. PICK t : t = Append(cut, f)
  OBVIOUS
<1>5. PICK within \in BOOLEAN : within <=> Within(cut, n + 1)
  OBVIOUS
<1>6. /\ Joined(t)[n + 1] = IF f.opcode \in Controls THEN Joined(cut)[n] ELSE m
      /\ Messages(t)[n + 1] = IF f.fin THEN Append(Messages(cut)[n], m) ELSE Messages(cut)[n]
      /\ Within(t, n + 2) <=> IF f.opcode \in Controls THEN Within(cut, n + 1) ELSE ~ f.fin
      /\ Conforms(t) <=> Conforms(cut) /\ Rules(f, m, Within(cut, n + 1))
  <2>1. Adds(cut, f, t, n, m)
    BY <1>1, <1>3, <1>4, FrameNext
  <2>2. QED
    BY <2>1 DEF Adds
<1>7. /\ buf' = Tail(buf) /\ got' \in {got, 0} /\ cut' = t /\ out' = out \o message
      /\ decoder' = rest
  BY <1>2, <1>4 DEF Take
<1>8. buf # <<>> /\ f \in Frames
  BY <1>2, FirstFrame
<1>9. buf' \in Seq(Frames) /\ got' \in Nat
  BY <1>7, <1>8, HeadTailProperties DEF FrameInv
<1>10. cut' \in Seq(Frames) /\ Len(cut') = n + 1
  BY <1>1, <1>4, <1>7, <1>8, AppendProperties DEF FrameInv
<1>11. m = Coming
  BY <1>1, <1>2, <1>3 DEF Coming
<1>12. Messages(cut)[n] = out /\ Conforms(cut) /\ IsList(out)
  BY <1>1 DEF FrameInv, MessagesWhole
<1>13. out' = (IF f.fin THEN Append(out, m) ELSE out) /\ IsList(out')
  <2>1. CASE f.fin
    <3>1. out' = out \o <<m>>
      BY <1>2, <1>7, <1>11, <2>1
    <3>2. PICK S : S = ToSet(out) \cup {m}
      OBVIOUS
    <3>3. out \in Seq(S) /\ m \in S
      BY <1>12, <3>2, SeqMonotonic DEF IsList
    <3>4. Append(out, m) = out \o <<m>>
      BY <3>3, AppendIsConcat
    <3>5. IsList(Append(out, m))
      BY <1>12, ListAppend
    <3>6. QED
      BY <2>1, <3>1, <3>4, <3>5
  <2>2. CASE ~ f.fin
    <3>1. out' = out \o <<>>
      BY <1>2, <1>7, <2>2
    <3>2. out \o <<>> = out
      BY <1>12, ConcatEmptySeq DEF IsList
    <3>3. QED
      BY <1>12, <2>2, <3>1, <3>2
  <2>3. QED
    BY <2>1, <2>2
<1>14. Messages(t)[n + 1] = out'
  BY <1>6, <1>12, <1>13
<1>15. Conforms(t)
  BY <1>1, <1>2, <1>6, <1>11, <1>12 DEF Lawful
<1>16. MessagesWhole'
  BY <1>7, <1>10, <1>14, <1>15 DEF MessagesWhole
<1>17. DecoderSound'
  <2>1. Len(cut') + 1 = n + 2
    BY <1>1, <1>10
  <2>2. rest = [opcode |-> rest.opcode, frag |-> rest.frag]
    BY DEF Keeps
  <2>3. IF Within(t, n + 2)
        THEN /\ rest.opcode # "none" /\ rest.opcode = Joined(t)[n + 1].opcode
             /\ rest.frag = Joined(t)[n + 1].payload
        ELSE rest = Nothing
    <3>1. CASE f.opcode \in Controls
      <4>1. rest = decoder
        BY <1>2, <3>1 DEF Keeps
      <4>2. Joined(t)[n + 1] = Joined(cut)[n] /\ (Within(t, n + 2) <=> Within(cut, n + 1))
        BY <1>6, <3>1
      <4>3. IF Within(cut, n + 1)
            THEN /\ decoder.opcode # "none" /\ decoder.opcode = Joined(cut)[n].opcode
                 /\ decoder.frag = Joined(cut)[n].payload
            ELSE decoder = Nothing
        BY <1>1 DEF FrameInv, DecoderSound
      <4>4. QED
        BY <4>1, <4>2, <4>3
    <3>2. CASE f.opcode \notin Controls
      <4>1. Joined(t)[n + 1] = m /\ (Within(t, n + 2) <=> ~ f.fin)
        BY <1>6, <3>2
      <4>2. IF f.fin THEN rest = Nothing
            ELSE rest.opcode # "none" /\ rest.opcode = m.opcode /\ rest.frag = m.payload
        BY <1>2, <1>11, <3>2 DEF Keeps
      <4>3. QED
        BY <4>1, <4>2
    <3>3. QED
      BY <3>1, <3>2
  <2>4. QED
    BY <1>7, <1>10, <2>1, <2>2, <2>3 DEF DecoderSound
<1>18. IsList(decoder'.frag) /\ Len(decoder'.frag) <= MaxMessage
  BY <1>7 DEF Keeps
<1>19. buf' # <<>> => got' <= Size(buf'[Len(buf')])
  <2>1. SUFFICES ASSUME buf' # <<>>
                 PROVE  got' <= Size(buf'[Len(buf')])
    OBVIOUS
  <2>2. PICK k \in Nat : k = Len(buf)
    BY LenProperties DEF FrameInv
  <2>3. Len(buf') = k - 1 /\ k - 1 # 0 /\ \A j \in 1 .. k - 1 : buf'[j] = buf[j + 1]
    BY <1>7, <1>8, <1>9, <2>1, <2>2, EmptySeq, HeadTailProperties DEF FrameInv
  <2>4. k > 1 /\ buf'[Len(buf')] = buf[k]
    BY <1>8, <2>2, <2>3, EmptySeq DEF FrameInv
  <2>5. got' = got
    BY <2>2, <2>4 DEF Take
  <2>6. QED
    BY <1>8, <2>2, <2>4, <2>5 DEF FrameInv
<1>20. QED
  BY <1>9, <1>10, <1>13, <1>16, <1>17, <1>18, <1>19 DEF FrameInv

(* The decoder is in a message where the frames it has cut are.            *)
LEMMA DecoderWithin ==
  ASSUME FrameInv
  PROVE  /\ decoder.opcode # "none" <=> Within(cut, Len(cut) + 1)
         /\ decoder.opcode = "none" => decoder = Nothing
         /\ decoder.opcode # "none" => /\ decoder.opcode = Joined(cut)[Len(cut)].opcode
                                       /\ decoder.frag = Joined(cut)[Len(cut)].payload
<1>1. Nothing.opcode = "none"
  BY DEF Nothing
<1>2. QED
  BY <1>1 DEF FrameInv, DecoderSound

(* A read brings bytes; what is handed on stays as it is.                  *)
LEMMA FrameRead ==
  ASSUME FrameInv, Read
  PROVE  FrameInv'
<1>1. UNCHANGED <<decoder, cut, out, verdict>> /\ verdict = "ok"
  BY DEF Read
<1>2. ASSUME NEW f \in Frames, NEW n \in Pieces(f)
      PROVE  n \in Nat /\ n <= Size(f)
  <2>1. PICK ext \in Nat, len \in Nat : ext = f.ext /\ len = f.len
    BY LenProperties, DecoderAssumption
  <2>2. PICK size \in Nat : size = 2 + ext + 4 + len /\ size = Size(f)
    BY <2>1 DEF Size
  <2>3. n \in {1, 2, 2 + ext, size - 1, size}
    BY <2>1, <2>2 DEF Pieces
  <2>4. n \in Nat /\ n <= size
    BY <2>2, <2>3
  <2>5. QED
    BY <2>2, <2>4
<1>3. buf' \in Seq(Frames) /\ got' \in Nat /\ got' <= Size(buf'[Len(buf')])
  <2>1. CASE buf # <<>> /\ got' \in {n \in Pieces(First) : n > got} /\ buf' = buf
    <3>1. First \in Frames
      BY <2>1, EmptySeq, ElementOfSeq, LenProperties DEF FrameInv, First
    <3>2. ~(Len(buf) > 1)
      <4>1. SUFFICES ASSUME Len(buf) > 1
                     PROVE  FALSE
        OBVIOUS
      <4>2. Parse(First, Size(First)) = "more"
        BY <2>1, <4>1 DEF Read, State, Arrived
      <4>3. PICK ext \in Nat, len \in Nat : ext = First.ext /\ len = First.len
        BY <3>1, LenProperties, DecoderAssumption
      <4>4. PICK size \in Nat : size = 2 + ext + 4 + len /\ size = Size(First)
        BY <4>3 DEF Size
      <4>5. ~(size < 2) /\ ~(size < 2 + ext) /\ ~(size < size)
        BY <4>4
      <4>6. QED
        BY <4>2, <4>3, <4>4, <4>5 DEF Parse
    <3>3. buf'[Len(buf')] = First
      BY <2>1, <3>2, EmptySeq, LenProperties DEF FrameInv, First
    <3>4. QED
      BY <1>2, <2>1, <3>1, <3>3 DEF FrameInv
  <2>2. CASE \E f \in Frames : buf' = Append(buf, f) /\ got' \in Pieces(f)
    <3>1. PICK f \in Frames : buf' = Append(buf, f) /\ got' \in Pieces(f)
      BY <2>2
    <3>2. buf' \in Seq(Frames) /\ buf'[Len(buf')] = f
      BY <3>1, AppendProperties DEF FrameInv
    <3>3. QED
      BY <1>2, <3>1, <3>2
  <2>3. QED
    BY <2>1, <2>2 DEF Read
<1>4. MessagesWhole'
  BY <1>1 DEF FrameInv, MessagesWhole
<1>5. DecoderSound'
  BY <1>1 DEF FrameInv, DecoderSound
<1>6. QED
  BY <1>1, <1>3, <1>4, <1>5 DEF FrameInv

(* What is refused from its header breaks the rules.                       *)
LEMMA FrameRefused ==
  ASSUME FrameInv, Refuse
  PROVE  FrameInv'
<1>1. State \in {"protocol", "too big"} /\ Fail(State)
  BY DEF Refuse
<1>2. First \in Frames /\ State = Parse(First, Arrived)
  BY <1>1, FirstFrame
<1>3. First.len \in Nat
  BY <1>2, LenProperties, DecoderAssumption
<1>4. First.rsv \/ ~ First.masked \/ First.len > Limit(First)
  BY <1>1, <1>2 DEF Parse
<1>5. PICK len \in Nat : len = First.len
  BY <1>3
<1>6. (len > MaxControl => ~(len <= MaxControl)) /\ (len > MaxMessage => ~(len <= MaxMessage))
  BY DecoderAssumption
<1>7. ~ Lawful
  <2>1. CASE First.rsv \/ ~ First.masked
    BY <2>1 DEF Lawful, Rules
  <2>2. CASE First.opcode \in Controls /\ len > MaxControl
    BY <1>5, <1>6, <2>2 DEF Lawful, Rules
  <2>3. CASE First.opcode = "control"
    BY <2>3 DEF Lawful, Rules, Controls, Start
  <2>4. CASE First.opcode \notin Controls /\ len > MaxMessage
    BY <1>5, <1>6, <2>4 DEF Lawful, Rules
  <2>5. QED
    BY <1>4, <1>5, <2>1, <2>2, <2>3, <2>4 DEF Limit, IsControl
<1>8. QED
  BY <1>1, <1>7, FrameFails

(* A control frame stands alone.                                           *)
LEMMA FrameControl ==
  ASSUME FrameInv, verdict = "ok", TakeControl
  PROVE  FrameInv'
<1>1. State = "frame" /\ First.opcode \in Controls
  BY DEF TakeControl
<1>2. /\ First.masked /\ ~ First.rsv
      /\ First.len <= MaxControl
  BY <1>1, FrameParsed DEF Limit, IsControl
<1>3. CASE ~ First.fin
  <2>1. Fail("protocol")
    BY <1>3 DEF TakeControl
  <2>2. ~ Lawful
    BY <1>1, <1>3 DEF Lawful, Rules
  <2>3. QED
    BY <2>1, <2>2, FrameFails
<1>4. CASE First.fin
  <2>1. Take(<<[opcode |-> First.opcode, payload |-> First.payload]>>, decoder)
    BY <1>4 DEF TakeControl
  <2>2. verdict' \in {"ok", "closed"}
    BY <1>4 DEF TakeControl
  <2>3. Coming = [opcode |-> First.opcode, payload |-> First.payload]
    BY <1>1 DEF Coming, Continued
  <2>4. Lawful
    BY <1>1, <1>2, <1>4 DEF Lawful, Rules
  <2>5. Keeps(decoder)
    BY <1>1 DEF FrameInv, DecoderSound, Keeps
  <2>6. QED
    BY <1>1, <1>4, <2>1, <2>2, <2>3, <2>4, <2>5, FrameTaken
<1>5. QED
  BY <1>3, <1>4

(* What a data frame ends is handed on if it is text, or not text at all.  *)
LEMMA FrameFinished ==
  ASSUME FrameInv, verdict = "ok", State = "frame", First.fin, First.opcode \notin Controls,
         First.opcode \in Start \cup {"continuation"},
         (First.opcode = "continuation") <=> Within(cut, Len(cut) + 1),
         Len(Coming.payload) <= MaxMessage, NEW opcode, NEW payload,
         Coming = [opcode |-> opcode, payload |-> payload],
         Finish(opcode, payload, Nothing)
  PROVE  FrameInv'
<1>1. /\ First.masked /\ ~ First.rsv /\ First.len <= MaxMessage
  BY FrameParsed DEF Limit, IsControl, Start
<1>2. Coming.opcode = opcode /\ Coming.payload = payload
  OBVIOUS
<1>3. CASE opcode = "text" /\ ~ Utf8(payload)
  <2>1. Fail("bad utf8")
    BY <1>3 DEF Finish
  <2>2. ~ Lawful
    BY <1>2, <1>3 DEF Lawful, Rules
  <2>3. QED
    BY <2>1, <2>2, FrameFails
<1>4. CASE ~(opcode = "text" /\ ~ Utf8(payload))
  <2>1. Take(<<[opcode |-> opcode, payload |-> payload]>>, Nothing) /\ verdict' = verdict
    BY <1>4 DEF Finish
  <2>2. Lawful
    BY <1>1, <1>2, <1>4 DEF Lawful, Rules
  <2>3. Keeps(Nothing)
    <3>1. Nothing = [opcode |-> Nothing.opcode, frag |-> Nothing.frag] /\ Nothing.frag = <<>>
      BY DEF Nothing
    <3>2. IsList(Nothing.frag) /\ Len(Nothing.frag) <= MaxMessage
      BY <3>1, EmptySeq, DecoderAssumption DEF IsList
    <3>3. QED
      BY <3>1, <3>2 DEF Keeps
  <2>4. verdict' \in {"ok", "closed"}
    BY <2>1
  <2>5. QED
    BY <2>1, <2>2, <2>3, <2>4, FrameTaken
<1>5. QED
  BY <1>3, <1>4

(* A message begins where none is in progress.                             *)
LEMMA FrameStart ==
  ASSUME FrameInv, verdict = "ok", TakeStart
  PROVE  FrameInv'
<1>1. State = "frame" /\ First.opcode \in Start /\ First.opcode \notin Controls
  BY DEF TakeStart, Start, Controls
<1>2. /\ First.masked /\ ~ First.rsv /\ First.len <= MaxMessage
      /\ First.len = Len(First.payload) /\ IsList(First.payload)
  BY <1>1, FrameParsed, FirstFrame DEF Limit, IsControl, Start
<1>3. First.opcode # "continuation" /\ First.opcode # "none"
  BY <1>1 DEF Start
<1>4. Coming = [opcode |-> First.opcode, payload |-> First.payload]
  BY <1>1 DEF Coming, Continued
<1>5. Coming.opcode = First.opcode /\ Coming.payload = First.payload
  BY <1>4
<1>6. CASE decoder.opcode # "none"
  <2>1. Fail("protocol")
    BY <1>6 DEF TakeStart
  <2>2. ~ Lawful
    BY <1>1, <1>3, <1>6, DecoderWithin DEF Lawful, Rules
  <2>3. QED
    BY <2>1, <2>2, FrameFails
<1>7. CASE decoder.opcode = "none" /\ First.fin
  <2>1. Finish(First.opcode, First.payload, Nothing)
    BY <1>7, DecoderWithin DEF TakeStart
  <2>2. ~ Within(cut, Len(cut) + 1)
    BY <1>7, DecoderWithin
  <2>3. QED
    BY <1>1, <1>2, <1>3, <1>4, <1>5, <1>7, <2>1, <2>2, FrameFinished
<1>8. CASE decoder.opcode = "none" /\ ~ First.fin
  <2>1. PICK rest : rest = [opcode |-> First.opcode, frag |-> First.payload]
    OBVIOUS
  <2>2. Take(<<>>, rest) /\ verdict' = verdict
    BY <1>8, <2>1 DEF TakeStart
  <2>3. ~ Within(cut, Len(cut) + 1)
    BY <1>8, DecoderWithin
  <2>4. Lawful
    BY <1>1, <1>2, <1>3, <1>5, <1>8, <2>3 DEF Lawful, Rules
  <2>5. Keeps(rest)
    <3>1. rest.opcode = First.opcode /\ rest.frag = First.payload
      BY <2>1
    <3>2. QED
      BY <1>1, <1>2, <1>3, <1>5, <1>8, <2>1, <3>1 DEF Keeps
  <2>6. verdict' \in {"ok", "closed"}
    BY <2>2
  <2>7. QED
    BY <1>1, <1>8, <2>2, <2>4, <2>5, <2>6, FrameTaken
<1>9. QED
  BY <1>6, <1>7, <1>8

(* A fragment goes on with the message in progress, or ends it.            *)
LEMMA FrameContinued ==
  ASSUME FrameInv, verdict = "ok", TakeContinuation
  PROVE  FrameInv'
<1>1. /\ State = "frame" /\ First.opcode = "continuation"
      /\ First.opcode \notin Controls /\ First.opcode \notin Start
  BY DEF TakeContinuation, Start, Controls
<1>2. First.masked /\ ~ First.rsv /\ First.len <= MaxMessage
  BY <1>1, FrameParsed DEF Limit, IsControl, Start
<1>3. PICK joined : joined = decoder.frag \o First.payload
  OBVIOUS
<1>4. IsList(joined) /\ Len(joined) \in Nat
  <2>1. IsList(decoder.frag) /\ IsList(First.payload)
    BY <1>1, FirstFrame DEF FrameInv
  <2>2. IsList(joined)
    BY <1>3, <2>1, ListConcat
  <2>3. QED
    BY <2>2, ListProperties
<1>5. CASE decoder.opcode = "none"
  <2>1. Fail("protocol")
    BY <1>5 DEF TakeContinuation
  <2>2. ~ Lawful
    BY <1>1, <1>5, DecoderWithin DEF Lawful, Rules
  <2>3. QED
    BY <2>1, <2>2, FrameFails
<1>6. ASSUME decoder.opcode # "none"
      PROVE  /\ Coming = [opcode |-> decoder.opcode, payload |-> joined]
             /\ Within(cut, Len(cut) + 1)
  <2>1. PICK before : before = Joined(cut)[Len(cut)]
    OBVIOUS
  <2>2. decoder.opcode = before.opcode /\ decoder.frag = before.payload
    BY <1>6, <2>1, DecoderWithin
  <2>3. Coming = [opcode |-> before.opcode, payload |-> before.payload \o First.payload]
    BY <1>1, <2>1 DEF Coming, Continued
  <2>4. QED
    BY <1>3, <1>6, <2>2, <2>3, DecoderWithin
<1>7. CASE decoder.opcode # "none" /\ Len(joined) > MaxMessage
  <2>1. Fail("too big")
    BY <1>3, <1>7 DEF TakeContinuation
  <2>2. ~(Len(joined) <= MaxMessage)
    BY <1>7, <1>4, DecoderAssumption
  <2>3. Coming.payload = joined
    BY <1>6, <1>7
  <2>4. ~ Lawful
    BY <1>1, <2>2, <2>3 DEF Lawful, Rules
  <2>5. QED
    BY <2>1, <2>4, FrameFails
<1>8. CASE decoder.opcode # "none" /\ ~(Len(joined) > MaxMessage) /\ First.fin
  <2>1. Finish(decoder.opcode, joined, Nothing)
    BY <1>3, <1>8 DEF TakeContinuation
  <2>2. Coming = [opcode |-> decoder.opcode, payload |-> joined] /\ Within(cut, Len(cut) + 1)
    BY <1>6, <1>8
  <2>3. Len(joined) <= MaxMessage /\ Coming.payload = joined
    BY <1>8, <1>4, <2>2, DecoderAssumption
  <2>4. QED
    BY <1>1, <1>8, <2>1, <2>2, <2>3, FrameFinished
<1>9. CASE decoder.opcode # "none" /\ ~(Len(joined) > MaxMessage) /\ ~ First.fin
  <2>1. PICK rest : rest = [decoder EXCEPT !.frag = joined]
    OBVIOUS
  <2>2. Take(<<>>, rest) /\ verdict' = verdict
    BY <1>3, <1>9, <2>1 DEF TakeContinuation
  <2>3. Coming = [opcode |-> decoder.opcode, payload |-> joined] /\ Within(cut, Len(cut) + 1)
    BY <1>6, <1>9
  <2>4. Len(joined) <= MaxMessage
    BY <1>9, <1>4, DecoderAssumption
  <2>5. rest = [opcode |-> decoder.opcode, frag |-> joined]
    BY <2>1 DEF FrameInv, DecoderSound
  <2>6. rest.opcode = decoder.opcode /\ rest.frag = joined
    BY <2>5
  <2>7. Coming.opcode = decoder.opcode /\ Coming.payload = joined
    BY <2>3
  <2>8. Lawful
    BY <1>1, <1>2, <1>9, <2>3, <2>4, <2>7 DEF Lawful, Rules
  <2>9. Keeps(rest)
    BY <1>1, <1>9, <1>4, <2>4, <2>5, <2>6, <2>7 DEF Keeps
  <2>10. verdict' \in {"ok", "closed"}
    BY <2>2
  <2>11. QED
    BY <1>1, <1>9, <2>2, <2>8, <2>9, <2>10, FrameTaken
<1>10. QED
  BY <1>5, <1>7, <1>8, <1>9

(* The decoder cuts the frames as the rules have it, step by step.         *)
LEMMA FrameStep ==
  ASSUME FrameInv, WsNext
  PROVE  FrameInv'
<1>1. CASE TakeReserved
  <2>1. State = "frame" /\ First.opcode \notin Controls \cup Start \cup {"continuation"}
        /\ Fail("protocol")
    BY <1>1 DEF TakeReserved
  <2>2. ~ Lawful
    BY <2>1 DEF Lawful, Rules
  <2>3. QED
    BY <2>1, <2>2, FrameFails
<1>2. QED
  BY <1>1, FrameRead, FrameRefused, FrameControl, FrameStart, FrameContinued DEF WsNext

(* The message in progress and the first frame hold no more than one limit *)
(* each.                                                                   *)
LEMMA FrameBounded ==
  ASSUME FrameInv
  PROVE  NeverHoards
<1>1. SUFFICES ASSUME State \in {"more", "frame"}, buf # <<>>
               PROVE  Len(decoder.frag) + Arrived <= MaxMessage + (2 + First.ext + 4) + Limit(First)
  BY DEF FrameInv, NeverHoards
<1>2. First \in Frames
  BY <1>1, EmptySeq, ElementOfSeq, LenProperties DEF FrameInv, First
<1>3. PICK len \in Nat, ext \in Nat, limit \in Nat :
        len = First.len /\ ext = First.ext /\ limit = Limit(First)
  BY <1>2, LenProperties, DecoderAssumption DEF Limit
<1>4. PICK size \in Nat : size = 2 + ext + 4 + len /\ size = Size(First)
  BY <1>3 DEF Size
<1>5. PICK n : n = Arrived
  OBVIOUS
<1>6. n \in Nat /\ n <= size
  <2>1. CASE Len(buf) > 1
    BY <1>4, <1>5, <2>1 DEF Arrived
  <2>2. CASE ~(Len(buf) > 1)
    <3>1. Len(buf) = 1
      <4>1. PICK k \in Nat : k = Len(buf)
        BY LenProperties DEF FrameInv
      <4>2. k # 0 /\ ~(k > 1)
        BY <1>1, <2>2, <4>1, EmptySeq DEF FrameInv
      <4>3. QED
        BY <4>1, <4>2
    <3>2. got \in Nat /\ got <= Size(First)
      BY <1>1, <3>1 DEF FrameInv, First
    <3>3. QED
      BY <1>4, <1>5, <2>2, <3>2 DEF Arrived
  <2>3. QED
    BY <2>1, <2>2
<1>7. Parse(First, n) \in {"more", "frame"}
  BY <1>1, <1>5 DEF State
<1>8. n < 2 \/ n < 2 + ext \/ len <= limit
  BY <1>3, <1>7 DEF Parse
<1>9. n <= (2 + ext + 4) + limit
  BY <1>4, <1>6, <1>8
<1>10. PICK frag \in Nat : frag = Len(decoder.frag) /\ frag <= MaxMessage
  BY ListProperties DEF FrameInv
<1>11. frag + n <= MaxMessage + (2 + ext + 4) + limit
  <2>1. PICK max \in Nat : max = MaxMessage
    BY DecoderAssumption
  <2>2. PICK m \in Nat : m = n
    BY <1>6
  <2>3. m <= (2 + ext + 4) + limit /\ frag <= max
    BY <1>9, <1>10, <2>1, <2>2
  <2>4. frag + m <= max + (2 + ext + 4) + limit
    BY <2>3
  <2>5. QED
    BY <2>1, <2>2, <2>4
<1>12. QED
  BY <1>3, <1>5, <1>10, <1>11

(* A new connection starts over; nothing but the tunnel moves the decoder. *)
LEMMA FrameKeeps ==
  ASSUME FrameInv, UNCHANGED wsVars
  PROVE  FrameInv'
BY DEF wsVars, FrameInv, DecoderSound, MessagesWhole, First

(* However its bytes are cut into reads, a tunnel hands on the messages of *)
(* the frames, each whole and in order, and ends only over a broken rule.  *)
THEOREM FramesAreCut == Spec => []FrameInv
<1>1. Init => FrameInv
  BY FrameInit DEF Init
<1>2. Connect => WsInit'
  BY DEF Connect, WsInit
<1>3. WsInit' => FrameInv'
  BY FrameInit, PTL
<1>4. FrameInv /\ [Next]_vars => FrameInv'
  <2>1. SUFFICES ASSUME FrameInv, [Next]_vars
                 PROVE  FrameInv'
    OBVIOUS
  <2>2. CASE Connect
    BY <1>2, <1>3, <2>2
  <2>3. CASE TunnelStep
    BY <2>1, <2>3, FrameStep DEF TunnelStep
  <2>4. CASE UNCHANGED wsVars
    BY <2>1, <2>4, FrameKeeps
  <2>5. CASE FallBack
    <3>1. UNCHANGED wsVars
      BY <2>5 DEF FallBack, Reply, ToApp
    <3>2. QED
      BY <2>1, <3>1, FrameKeeps
  <2>6. CASE \/ Boot \/ Reject \/ Leave \/ Finish_request
             \/ \E q \in Requests : RefuseHead(q) \/ \E ask \in Asks(q) : ReceiveHead(q, ask)
             \/ StatusPage \/ RefuseRewrite \/ AnswerNotFound \/ AnswerReturn \/ StartApp
             \/ OpenFile \/ RedirectDirectory \/ StartFile \/ SendFile \/ EndFile
             \/ AppAnswers \/ AppUpgrades \/ TunnelEnds \/ FilesChange
    <3>1. UNCHANGED wsVars
      BY <2>6 DEF Boot, Reject, Leave, Finish_request, RefuseHead, ReceiveHead, StatusPage,
                  RefuseRewrite, AnswerNotFound, AnswerReturn, StartApp, OpenFile, RedirectDirectory,
                  StartFile, SendFile, EndFile, AppAnswers, AppUpgrades, TunnelEnds, FilesChange,
                  Reply, ToApp
    <3>2. QED
      BY <2>1, <3>1, FrameKeeps
  <2>7. UNCHANGED vars => UNCHANGED wsVars
    BY DEF vars
  <2>8. QED
    BY <2>1, <2>2, <2>3, <2>4, <2>5, <2>6, <2>7 DEF Next
<1>5. QED
  BY <1>1, <1>4, PTL DEF Spec

(* Each message handed on is the concatenation of its own fragments, and   *)
(* what breaks the rules is refused and nothing else is.                   *)
THEOREM MessagesAreWhole == Spec => []MessagesWhole
<1>1. FrameInv => MessagesWhole
  BY DEF FrameInv
<1>2. QED
  BY <1>1, FramesAreCut, PTL

(* No client can make the tunnel hold more than the message limit twice,   *)
(* once for what is begun and once for the frame that goes on with it,     *)
(* besides the header of that frame.                                       *)
THEOREM TunnelNeverHoards == Spec => []NeverHoards
<1>1. FrameInv => NeverHoards
  BY FrameBounded
<1>2. QED
  BY <1>1, FramesAreCut, PTL
=============================================================================
