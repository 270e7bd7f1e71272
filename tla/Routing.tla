------------------------------ MODULE Routing -------------------------------
(***************************************************************************)
(* How a request finds its action: URI normalisation (uri.rs), templates   *)
(* (template.rs), patterns (matching.rs), the walk over the routes         *)
(* (routes.rs), and the checks that admit a configuration (validate.rs).   *)
(*                                                                         *)
(* A string is a sequence of atoms: a character, a word nothing looks      *)
(* into, or an escape. "%252e" decodes to "%2e", and that one to ".".      *)
(* What may be absent is a set of at most one element. An action and its   *)
(* nested fallbacks are a sequence: fallback k+1 belongs to element k.     *)
(* A pattern is [neg, body], its body holding "*" atoms. An application's  *)
(* name is <<name, 0, 0>>, or <<route, step, depth>> once an inline one,   *)
(* Inline until then, is extracted.                                        *)
(***************************************************************************)
EXTENDS Integers, FiniteSets, SequencesExt

CONSTANT Hops  \* routes one request may visit, 16 in the code

ASSUME HopsAssumption == Hops \in Nat \ {0}

-----------------------------------------------------------------------------
(* uri.rs *)

Decoded == [x \in {"%2e", "%2f", "%3f", "%0d", "%252e", "%252f", "%250d"} |->
  CASE x = "%2e" -> "."   [] x = "%2f" -> "/"     [] x = "%3f" -> "?"
    [] x = "%0d" -> "CR"  [] x = "%252e" -> "%2e" [] x = "%252f" -> "%2f"
    [] x = "%250d" -> "%0d"]

Lower == [x \in {"H", "PHP"} |-> IF x = "H" THEN "h" ELSE "php"]

Translate(s, table) ==
  [i \in DOMAIN s |-> IF s[i] \in DOMAIN table THEN table[s[i]] ELSE s[i]]

percent_decode(s) == Translate(s, Decoded)

\* "DEL" is any control byte a header line survives.
has_control_byte(s) == \E i \in DOMAIN s : s[i] \in {"CR", "LF", "NUL", "DEL"}

\* `s` cut before and after the first `c`; and the pieces between all of them.
Cut(s, c) ==
  LET at == SelectInSeq(s, LAMBDA x : x = c)
  IN  IF at = 0 THEN <<s, <<>>>> ELSE <<SubSeq(s, 1, at - 1), SubSeq(s, at + 1, Len(s))>>

Split(s, c) ==
  LET upto[i \in 0 .. Len(s)] ==
        LET before == upto[i - 1]
        IN  IF i = 0 THEN <<<<>>>>
            ELSE IF s[i] = c THEN Append(before, <<>>)
            ELSE Append(Front(before), Append(Last(before), s[i]))
  IN  upto[Len(s)]

Resolve(stack, segment) ==
  IF segment \in {<<>>, <<".">>} THEN stack
  ELSE IF segment # <<".", ".">> THEN Append(stack, segment)
  ELSE IF stack = <<>> THEN stack ELSE Front(stack)

Resolved(segments) ==
  LET upto[i \in 0 .. Len(segments)] ==
        IF i = 0 THEN <<>> ELSE Resolve(upto[i - 1], segments[i])
  IN  upto[Len(segments)]

normalize_path(path) ==
  LET decoded == percent_decode(path)
      stack   == Resolved(Split(decoded, "/"))
      out     == FlattenSeq([i \in DOMAIN stack |-> <<"/">> \o stack[i]])
  IN  IF out = <<>> \/ (decoded # <<>> /\ Last(decoded) = "/") THEN Append(out, "/") ELSE out

-----------------------------------------------------------------------------
(* template.rs: a template is a sequence of parts [lit] or [var]. *)

VarNames == {"uri", "args", "query", "host", "method", "remote_addr"}

TemplateCompiles(t) == \A i \in DOMAIN t : "var" \in DOMAIN t[i] => t[i].var \in VarNames

Render(t, vars) ==
  FlattenSeq([i \in DOMAIN t |-> IF "var" \in DOMAIN t[i] THEN vars[t[i].var] ELSE t[i].lit])

-----------------------------------------------------------------------------
(* matching.rs *)

\* How far into the value the pattern may be after its first i atoms. A star
\* stands for any text without the atoms in `stops`.
Glob(body, value, stops) ==
  LET after[i \in 0 .. Len(body)] ==
        LET before == after[i - 1]
        IN  IF i = 0 THEN {0}
            ELSE IF body[i] = "*"
            THEN {k \in 0 .. Len(value) :
                    \E j \in before : j <= k /\ \A n \in j + 1 .. k : value[n] \notin stops}
            ELSE {k \in 1 .. Len(value) : k - 1 \in before /\ value[k] = body[i]}
  IN  Len(value) \in after[Len(body)]

\* What the dot of the regex several stars degrade to does not match.
NoDot == {"LF", "xff"}

\* (a mistake) The two ends may overlap.
PatternMatchesOverlap(body, value) ==
  LET stars == {i \in DOMAIN body : body[i] = "*"}
      ends  == Cut(body, "*")
  IN  CASE stars = {}             -> value = body
        [] Cardinality(stars) > 1 -> Glob(body, value, NoDot)
        [] OTHER -> IsPrefix(ends[1], value) /\ IsSuffix(ends[2], value)

\* Any, Prefix and Suffix are a Circumfix with an empty side.
PatternMatches(body, value) ==
  LET stars == {i \in DOMAIN body : body[i] = "*"}
      ends  == Cut(body, "*")
  IN  CASE stars = {}             -> value = body
        [] Cardinality(stars) > 1 -> Glob(body, value, NoDot)
        [] OTHER -> /\ Len(value) >= Len(ends[1]) + Len(ends[2])
                    /\ IsPrefix(ends[1], value) /\ IsSuffix(ends[2], value)

\* No negative pattern hits, and a positive one does, if there are any.
Admits(set, hits) ==
  /\ \A e \in hits : ~e.neg
  /\ (\E e \in set : ~e.neg) => \E e \in hits : ~e.neg

SetMatches(set, value) == Admits(set, {e \in set : PatternMatches(e.body, value)})

Insensitive(set, value) ==
  Admits(set, {e \in set : PatternMatches(Translate(e.body, Lower), Translate(value, Lower))})

\* What each bit of an octet counts for, the highest first.
Weight == <<128, 64, 32, 16, 8, 4, 2, 1>>

\* prefix_eq: whole octets first, then the high bits of the next one.
CidrContains(net, prefix, ip) ==
  LET full == prefix \div 8   bits == prefix % 8
  IN  /\ Len(net) = Len(ip)
      /\ SubSeq(net, 1, full) = SubSeq(ip, 1, full)
      /\ bits # 0 => net[full + 1] \div Weight[bits] = ip[full + 1] \div Weight[bits]

CidrMatches(set, ip) == Admits(set, {e \in set : CidrContains(e.net, e.prefix, ip)})

-----------------------------------------------------------------------------
(* routes.rs *)

\* The name part of a Host header; the colons of an IPv6 literal are its own.
HostName(host) ==
  IF host # <<>> /\ host[1] = "["
    THEN IF "]" \in ToSet(host) THEN Append(Cut(host, "]")[1], "]") ELSE host
    ELSE Cut(host, ":")[1]

parse_args(query) ==
  LET parts == Split(query, "&")
      Plain(s) == percent_decode([i \in DOMAIN s |-> IF s[i] = "+" THEN " " ELSE s[i]])
      upto[i \in 0 .. Len(parts)] ==
        LET nv == Cut(parts[i], "=")
        IN  IF i = 0 THEN <<>> ELSE IF parts[i] = <<>> THEN upto[i - 1]
            ELSE Append(upto[i - 1], <<Plain(nv[1]), Plain(nv[2])>>)
  IN  upto[Len(parts)]

\* The first value under a name in a sequence of pairs, empty if there is none.
FirstValue(pairs, name) ==
  LET at == SelectInSeq(pairs, LAMBDA p : p[1] = name)
  IN  IF at = 0 THEN <<>> ELSE pairs[at][2]

\* Step::matches: a step without matcher matches; one with it needs them all.
\* compile_match lowers the names of headers and arguments. The request's
\* headers are lowered too, and a name in this model is the lowered one; the
\* names in its query are not.
StepMatches(step, meta, path, query) ==
  \A m \in step.match :
    /\ SetMatches(m.method, meta.method)
    /\ Insensitive(m.host, HostName(meta.host))
    /\ SetMatches(m.uri, path)
    /\ SetMatches(m.query, query)
    /\ \A h \in m.headers : Insensitive(h.set, FirstValue(meta.headers, h.name))
    /\ \A a \in m.arguments : SetMatches(a.set, FirstValue(parse_args(query), Translate(a.name, Lower)))
    /\ CidrMatches(m.source, meta.remote)

\* The first step of a route that matches; 0, if none does.
FirstMatch(steps, meta, path, query) ==
  SelectInSeq(steps, LAMBDA s : StepMatches(s, meta, path, query))

NotFound == <<>>

\* The path and query a step leaves the request with. An empty template is a
\* rewrite, too.
Rewritten(step, meta, path, query) ==
  LET vars == [uri |-> path, args |-> query, query |-> query, host |-> meta.host,
               method |-> meta.method, remote_addr |-> <<"ip">>]
      to   == Cut(Render(CHOOSE t \in step.rewrite : TRUE, vars), "?")
  IN  IF step.rewrite = {} THEN <<path, query>> ELSE <<normalize_path(to[1]), to[2]>>

\* One turn of the loop of `decide`. `trail` records the steps taken.
Hop(routes, meta, walk) ==
  LET at   == FirstMatch(routes[walk.route], meta, walk.path, walk.query)
      step == routes[walk.route][at]
      left == Rewritten(step, meta, walk.path, walk.query)
      goto == step.action[1].route
  IN  IF walk.over \/ walk.route \notin DOMAIN routes \/ at = 0 THEN [walk EXCEPT !.over = TRUE]
      ELSE [trail    |-> Append(walk.trail, [route |-> walk.route, at |-> at,
                                             path |-> walk.path, query |-> walk.query]),
            route    |-> IF goto = {} THEN walk.route ELSE CHOOSE r \in goto : TRUE,
            path     |-> left[1],
            query    |-> left[2],
            ops      |-> walk.ops \o step.response_headers,
            over     |-> goto = {},
            decision |-> IF goto = {} THEN step.action ELSE NotFound]

\* The turns of the loop, each from the one before.
Turns(routes, meta, start) ==
  LET turn[n \in 0 .. Hops] == IF n = 0 THEN start ELSE Hop(routes, meta, turn[n - 1])
  IN  turn

decide(routes, route, meta, path, query) ==
  Turns(routes, meta, [trail |-> <<>>, route |-> route, path |-> path, query |-> query, ops |-> <<>>,
                       over |-> FALSE, decision |-> NotFound])[Hops]

-----------------------------------------------------------------------------
(* schema.rs: what can be written down, before it is validated. *)

Optional(s) == \A x, y \in s : x = y
IsList(s)   == s \in Seq(ToSet(s))

IsAction(action) ==
  /\ DOMAIN action = {"application", "route", "share", "return", "location"}
  /\ \A field \in DOMAIN action : Optional(action[field])
  /\ \A text \in action.location : IsList(text)

IsPattern(e) == IsList(e.body) /\ e.neg \in BOOLEAN
IsBlock(e)   == e.net \in Seq(0 .. 255) /\ e.prefix \in 0 .. 8 * Len(e.net) /\ e.neg \in BOOLEAN

IsMatch(m) ==
  /\ \A e \in m.method \cup m.host \cup m.uri \cup m.query : IsPattern(e)
  /\ \A p \in m.headers \cup m.arguments : \A e \in p.set : IsPattern(e)
  /\ \A a \in m.arguments : IsList(a.name)
  /\ \A e \in m.source : IsBlock(e)

IsTemplate(t) == IsList(t) /\ \A i \in DOMAIN t : "var" \in DOMAIN t[i] \/ IsList(t[i].lit)

IsStep(step) ==
  /\ DOMAIN step = {"match", "rewrite", "response_headers", "action"}
  /\ \A m \in step.match : IsMatch(m)
  /\ Optional(step.rewrite) /\ \A t \in step.rewrite : IsTemplate(t)
  /\ IsList(step.response_headers)
  /\ \A k \in DOMAIN step.response_headers : IsList(step.response_headers[k])
  /\ IsList(step.action) /\ step.action # <<>> /\ \A k \in DOMAIN step.action : IsAction(step.action[k])

IsConfig(config) ==
  /\ Optional(config.listener.route)
  /\ \A r \in DOMAIN config.routes :
       IsList(config.routes[r]) /\ \A i \in DOMAIN config.routes[r] : IsStep(config.routes[r][i])

-----------------------------------------------------------------------------
(* validate.rs *)

\* The places an action or a fallback stands at.
Places(routes) ==
  UNION {UNION {{<<r, i, k>> : k \in DOMAIN routes[r][i].action} : i \in DOMAIN routes[r]} :
           r \in DOMAIN routes}

ActionAt(routes, p) == routes[p[1]][p[2]].action[p[3]]

\* extract_inline_apps: each inline application moves out under a made name.
Inline == <<>>
InlinePlaces(routes) == {p \in Places(routes) : Inline \in ActionAt(routes, p).application}

\* (a mistake) Fallbacks are not looked into.
ExtractedShallow(routes) ==
  [r \in DOMAIN routes |-> [i \in DOMAIN routes[r] |->
    [routes[r][i] EXCEPT !.action[1].application = IF @ = {Inline} THEN {<<r, i, 1>>} ELSE @]]]

Extracted(routes) ==
  [r \in DOMAIN routes |-> [i \in DOMAIN routes[r] |->
    [routes[r][i] EXCEPT !.action = [k \in DOMAIN @ |->
      IF @[k].application = {Inline} THEN [@[k] EXCEPT !.application = {<<r, i, k>>}]
                                       ELSE @[k]]]]]

AllApps(config) == config.applications \cup InlinePlaces(config.routes)

ValidListener(config) ==
  /\ (config.listener.route = {}) = config.listener.status
  /\ config.listener.route \subseteq DOMAIN config.routes

\* A line break would end the header it stands in, and NUL has no place there.
reject_header_control(s) == \E i \in DOMAIN s : s[i] \in {"CR", "LF", "NUL"}

ValidAction(config, p) ==
  LET action == config.routes[p[1]][p[2]].action
      act    == action[p[3]]
      rest   == p[3] + 1 .. Len(action)
  IN  /\ Cardinality(act.application) + Cardinality(act.route)
           + Cardinality(act.share) + Cardinality(act.return) = 1
      /\ act.application \subseteq AllApps(config) \cup {Inline}
      /\ act.route \subseteq DOMAIN config.routes
      /\ act.return \subseteq 100 .. 599
      /\ act.location # {} => act.return # {} /\ act.return \subseteq 300 .. 399
      /\ \A text \in act.location : ~reject_header_control(text)
      /\ \A s \in act.share : s.paths = 1
      /\ rest # {} => act.share # {}
      /\ \A s \in act.share : s.serve_sources # {} => \A k \in rest : action[k].application = {}

\* What `validate` says of listener, routes and actions, and the compilation
\* that follows it. Its checks of the http limits and of the applications' own
\* settings are left out, and so are headers and rewrites of a fallback, which
\* nothing reads.
Valid(config) ==
  /\ ValidListener(config)
  /\ InlinePlaces(config.routes) \cap config.applications = {}
  /\ \A r \in DOMAIN config.routes :
       LET steps == config.routes[r]
       IN  steps # <<>> /\ \A i \in 1 .. Len(steps) - 1 : steps[i].match # {}
  /\ \A p \in Places(config.routes) : ValidAction(config, p)
  /\ \A r \in DOMAIN config.routes : \A i \in DOMAIN config.routes[r] :
       LET step == config.routes[r][i]
       IN  /\ \A k \in DOMAIN step.response_headers :
                ~reject_header_control(step.response_headers[k])
           /\ \A t \in step.rewrite : TemplateCompiles(t)
=============================================================================
