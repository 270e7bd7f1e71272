------------------------------ MODULE FrontEnd ------------------------------
(***************************************************************************)
(* One connection from the head of a request to what answers it: the head  *)
(* is parsed and checked, the route decides, and the response comes from   *)
(* the status page, a return, a file (StaticFiles), its fallback or an     *)
(* application, or turns into a WebSocket tunnel (WsDecoder). The process  *)
(* starts with a configuration that validation admits, or not at all.      *)
(* Bodies, queues and the answer of an application are Delivery's.         *)
(***************************************************************************)
EXTENDS StaticFiles, WsDecoder

CONSTANTS
  Configs,   \* configurations an operator may write
  Requests,  \* heads a client may send
  MaxBody,   \* max_body_size
  Sockets,   \* applications whose pool has CAP_WEBSOCKET
  NoRequest

\* What the parser makes of a head.
IsHead(q) ==
  /\ IsList(q.method) /\ IsList(q.target) /\ q.remote \in Seq(0 .. 255)
  /\ IsList(q.headers) /\ \A i \in DOMAIN q.headers : IsList(q.headers[i][2])

ASSUME ConfigAssumption  == \A c \in Configs : IsConfig(c)
ASSUME RequestAssumption == \A q \in Requests : IsHead(q)

VARIABLES
  conf,  \* the configuration, as written and then as the process holds it
  phase, \* where the process, then the connection, is
  req,   \* the head in progress, its conditions and its application
  walk   \* what `decide` returned for it

httpVars == <<conf, phase, req, walk>>
vars == <<httpVars, staticVars, wsVars>>

NoWalk == [decision |-> NotFound]
NoAsk  == [kept |-> FALSE, none_match |-> {}, since |-> {}, if_range |-> {}, range |-> {}]

Init ==
  /\ conf \in Configs /\ phase = "boot" /\ req = NoRequest /\ walk = NoWalk
  /\ StaticInit /\ WsInit

\* Admitted, inline applications become pools like the named ones.
Boot ==
  /\ phase = "boot" /\ Valid(conf)
  /\ conf' = [listener |-> conf.listener, routes |-> Extracted(conf.routes),
              pools |-> AllApps(conf)]
  /\ phase' = "idle"
  /\ UNCHANGED <<req, walk, staticVars, wsVars>>

Reject ==
  /\ phase = "boot" /\ ~Valid(conf)
  /\ phase' = "refused"
  /\ UNCHANGED <<conf, req, walk, staticVars, wsVars>>

-----------------------------------------------------------------------------
(* parse_request: the headers in the order they came, a later one winning. *)

ParseHeader(p, h) ==
  LET n == {k \in 0 .. 9 : h[2] = <<ToString(k)>>}
  IN  CASE h[1] = "host" -> [p EXCEPT !.hosts = @ + 1]
        [] h[1] = "content-length" ->
             [p EXCEPT !.length = IF p.seen \/ n = {} THEN @ ELSE CHOOSE k \in n : TRUE,
                       !.seen = TRUE,
                       !.bad = IF n = {} \/ (p.seen /\ n # {p.length}) THEN 400 ELSE @]
        [] h[1] = "transfer-encoding" -> [p EXCEPT !.bad = 411]
        [] h[1] = "connection" /\ h[2] = <<"close">> -> [p EXCEPT !.keep_alive = FALSE]
        [] OTHER -> p

parse_request(q) ==
  LET p == FoldLeft(ParseHeader, [length |-> 0, seen |-> FALSE, hosts |-> 0, bad |-> 0,
                                  keep_alive |-> q.version = "1.1"], q.headers)
  IN  IF p.bad = 0 /\ (p.hosts > 1 \/ (p.hosts = 0 /\ q.version = "1.1"))
      THEN [p EXCEPT !.bad = 400] ELSE p

Path(q)  == normalize_path(Cut(q.target, "?")[1])
Query(q) == Cut(q.target, "?")[2]
Host(q)  == FirstValue(q.headers, "host")

\* What the routes look at besides path and query.
Meta(q) == [method |-> q.method, host |-> Host(q), headers |-> q.headers, remote |-> q.remote]

\* The status a head is refused with before anything looks at it, or 0.
Refusal(q) ==
  LET p == parse_request(q)
  IN  IF p.bad # 0 THEN p.bad
      ELSE IF p.length > MaxBody THEN 413
      ELSE IF \E s \in {Path(q), Query(q), Host(q)} : has_control_byte(s) THEN 400
      ELSE 0

\* websocket_upgrade: anything less is plain HTTP.
Upgrades(q) ==
  /\ q.method = <<"GET">> /\ parse_request(q).length = 0
  /\ FirstValue(q.headers, "upgrade") = <<"websocket">>
  /\ <<"upgrade">> \in ToSet(Split(FirstValue(q.headers, "connection"), ","))
  /\ FirstValue(q.headers, "sec-websocket-version") = <<"13">>
  /\ FirstValue(q.headers, "sec-websocket-key") # <<>>

-----------------------------------------------------------------------------
(* The connection between requests. *)

\* What the client sends along: to fetch, to resume, to revalidate, to peek.
\* Heads of the other kind come before its first download: a bound.
Asks(q) ==
  IF ~q.conditional THEN IF copy.tag = <<>> /\ clock = 0 /\ Len(files) = 1 THEN {NoAsk} ELSE {}
  ELSE {[NoAsk EXCEPT !.kept = TRUE]}
    \cup {[NoAsk EXCEPT !.range = {r}] : r \in Ranges}
    \cup (IF Partial THEN {[NoAsk EXCEPT !.kept = TRUE, !.if_range = {copy.tag},
                             !.range = {[first |-> {Len(copy.data)}, last |-> {}]}]} ELSE {})
    \cup (IF Whole THEN {[NoAsk EXCEPT !.kept = TRUE, !.none_match = {copy.tag},
                           !.since = {copy.tag[1]}]} ELSE {})

Say(status) == resp' = [Silent EXCEPT !.status = status]

\* Refused: an error, and the connection is closed.
RefuseHead(q) ==
  /\ phase = "idle" /\ Refusal(q) # 0 /\ Asks(q) # {}
  /\ Say(Refusal(q)) /\ phase' = "closed"
  /\ UNCHANGED <<conf, req, walk, disk, fd, copy, wsVars>>

ReceiveHead(q, ask) ==
  /\ phase = "idle" /\ Refusal(q) = 0
  /\ req' = [head |-> q, ask |-> ask, app |-> {}]
  /\ walk' = IF conf.listener.status THEN NoWalk
             ELSE decide(conf.routes, CHOOSE r \in conf.listener.route : TRUE,
                         Meta(q), Path(q), Query(q))
  /\ phase' = "decided"
  /\ UNCHANGED <<conf, staticVars, wsVars>>

\* Logged; then the next request or the end of the connection.
Finish_request ==
  /\ phase = "sent"
  /\ phase' = IF parse_request(req.head).keep_alive THEN "idle" ELSE "closed"
  /\ req' = NoRequest /\ walk' = NoWalk /\ resp' = Silent
  /\ UNCHANGED <<conf, disk, fd, copy, wsVars>>

Leave ==
  /\ phase \in {"open", "sending", "app"}
  /\ phase' = "closed" /\ fd' = NoFile
  /\ UNCHANGED <<conf, req, walk, disk, resp, copy, wsVars>>

Connect ==
  /\ phase = "closed"
  /\ phase' = "idle" /\ req' = NoRequest /\ walk' = NoWalk /\ resp' = Silent
  /\ buf' = <<>> /\ got' = 0 /\ decoder' = Nothing /\ cut' = <<>> /\ out' = <<>>
  /\ verdict' = "ok"
  /\ UNCHANGED <<conf, disk, fd, copy>>

-----------------------------------------------------------------------------
(* The answers. *)

Routed == phase = "decided" /\ ~conf.listener.status

\* A rewrite decodes once more: the effective path is looked at again.
Clean == ~has_control_byte(walk.path) /\ ~has_control_byte(walk.query)

Act == walk.decision[1]
The(opt) == CHOOSE x \in opt : TRUE

Reply(status) ==
  /\ Say(status) /\ phase' = "sent"
  /\ UNCHANGED <<conf, req, walk, disk, fd, copy, wsVars>>

StatusPage ==
  /\ phase = "decided" /\ conf.listener.status
  /\ Reply(IF Path(req.head) \in {<<"/", "health">>, <<"/", "health", "/", "applications">>}
           THEN 200 ELSE 404)

RefuseRewrite ==
  /\ Routed /\ ~Clean
  /\ Say(400) /\ phase' = "closed"
  /\ UNCHANGED <<conf, req, walk, disk, fd, copy, wsVars>>

AnswerNotFound == Routed /\ Clean /\ walk.decision = NotFound /\ Reply(404)

AnswerReturn ==
  /\ Routed /\ Clean /\ walk.decision # NotFound /\ Act.return # {}
  /\ Reply(The(Act.return))

ToApp(app) ==
  /\ req' = [req EXCEPT !.app = {app}] /\ phase' = "app"
  /\ UNCHANGED <<conf, walk, staticVars, wsVars>>

StartApp ==
  /\ Routed /\ Clean /\ walk.decision # NotFound
  /\ \E app \in Act.application : ToApp(app)

\* The share of the decision, and where its path leads.
Sharing == Routed /\ Clean /\ walk.decision # NotFound /\ Act.share # {}
Found   == Locate(The(Act.share), walk.path)

OpenFile ==
  /\ Sharing /\ Found # NoFile /\ Tree[Found] # "dir"
  /\ Open(Found) /\ phase' = "open"
  /\ UNCHANGED <<conf, req, walk, disk, resp, copy, wsVars>>

\* (a mistake) The path goes into the Location without a look at it.
RedirectUnchecked ==
  /\ Routed /\ walk.decision # NotFound /\ Act.share # {}
  /\ Found # NoFile /\ Tree[Found] = "dir"
  /\ Reply(301)

\* The Location is the path with a slash behind it.
RedirectDirectory ==
  /\ Sharing /\ Found # NoFile /\ Tree[Found] = "dir"
  /\ Reply(301)

\* Not served. Of the fallbacks only a return and an application are taken.
FallBack ==
  /\ Sharing /\ Found = NoFile
  /\ LET next == IF Len(walk.decision) > 1 THEN walk.decision[2]
                 ELSE [application |-> {}, return |-> {}]
     IN  \/ \E app \in next.application : ToApp(app)
         \/ next.application = {} /\ Reply(IF next.return = {} THEN 404 ELSE The(next.return))

StartFile ==
  /\ phase = "open"
  /\ SendHead(req.ask, req.head.method = <<"HEAD">>) /\ phase' = "sending"
  /\ UNCHANGED <<conf, req, walk, disk, fd, wsVars>>

SendFile ==
  /\ phase = "sending" /\ CopyChunk(req.ask)
  /\ UNCHANGED <<httpVars, disk, fd, wsVars>>

EndFile ==
  /\ phase = "sending" /\ CopyEnds
  /\ phase' = "sent" /\ fd' = NoFile
  /\ UNCHANGED <<conf, req, walk, disk, resp, copy, wsVars>>

AppAnswers == phase = "app" /\ \E status \in {200, 502} : Reply(status)

\* Only a decision for the application itself offers it the upgrade.
AppUpgrades ==
  /\ phase = "app" /\ Act.application # {} /\ Upgrades(req.head) /\ req.app \subseteq Sockets
  /\ phase' = "tunnel" /\ req' = NoRequest /\ walk' = NoWalk
  /\ UNCHANGED <<conf, staticVars, wsVars>>

TunnelStep ==
  /\ phase = "tunnel" /\ WsNext
  /\ UNCHANGED <<httpVars, staticVars>>

\* A close, an error, a client that is gone, the worker's end or idleness.
TunnelEnds ==
  /\ phase = "tunnel" /\ phase' = "closed"
  /\ UNCHANGED <<conf, req, walk, staticVars, wsVars>>

\* The files change under a connection that serves them.
FilesChange ==
  /\ phase \in {"idle", "open", "sending", "sent", "closed"}
  /\ \E p \in Places(conf.routes) : ActionAt(conf.routes, p).share # {}
  /\ Tick \/ (\E n \in 1 .. MaxSize : Publish(n)) \/ (\E n \in 0 .. MaxSize - 1 : Truncate(n))
  /\ UNCHANGED <<httpVars, wsVars>>

Next ==
  \/ Boot \/ Reject \/ Connect \/ Leave \/ Finish_request
  \/ \E q \in Requests : RefuseHead(q) \/ \E ask \in Asks(q) : ReceiveHead(q, ask)
  \/ StatusPage \/ RefuseRewrite \/ AnswerNotFound \/ AnswerReturn \/ StartApp
  \/ OpenFile \/ RedirectDirectory \/ FallBack \/ StartFile \/ SendFile \/ EndFile
  \/ AppAnswers \/ AppUpgrades \/ TunnelStep \/ TunnelEnds \/ FilesChange

Spec == Init /\ [][Next]_vars

-----------------------------------------------------------------------------
(* What the documentation says a match is, by itself: the name of a header *)
(* has no case, that of an argument is the one written; "*" is any text,   *)
(* but several of them any text of one line; a set needs a positive hit if *)
(* it has positives, and no negative one; a CIDR block is the addresses    *)
(* that agree with it in every bit of its prefix.                          *)

Fits(set, Hit(_)) ==
  LET hits == {e \in set : Hit(e)}
  IN  (\A e \in hits : ~e.neg) /\ (hits # {} \/ \A e \in set : e.neg)

Means(body, value) ==
  LET several == \E i, j \in DOMAIN body : i # j /\ body[i] = "*" /\ body[j] = "*"
  IN  Glob(body, value, IF several THEN NoDot ELSE {})

Text(set, value)   == Fits(set, LAMBDA e : Means(e.body, value))
Folded(set, value) == Fits(set, LAMBDA e : Means(Translate(e.body, Lower), Translate(value, Lower)))

Bit(ip, k) == (ip[((k - 1) \div 8) + 1] \div Weight[((k - 1) % 8) + 1]) % 2
Block(set, ip) ==
  Fits(set, LAMBDA e : Len(e.net) = Len(ip) /\ \A k \in 1 .. e.prefix : Bit(e.net, k) = Bit(ip, k))

Suits(m, q, path, query) ==
  /\ Text(m.method, q.method) /\ Folded(m.host, HostName(Host(q)))
  /\ Text(m.uri, path) /\ Text(m.query, query)
  /\ \A h \in m.headers : Folded(h.set, FirstValue(q.headers, h.name))
  /\ \A a \in m.arguments : Text(a.set, FirstValue(parse_args(query), a.name))
  /\ Block(m.source, q.remote)

SuitsStep(step, q, path, query) == \A m \in step.match : Suits(m, q, path, query)

\* No argument a configuration names is written with capitals.
LowerNames(routes) ==
  \A r \in DOMAIN routes : \A i \in DOMAIN routes[r] :
    \A m \in routes[r][i].match : \A a \in m.arguments : Translate(a.name, Lower) = a.name

(* Every route takes its first step that suits the request as the rewrites *)
(* before it left it, and the walk ends at an action of the last one; no   *)
(* action is found only where nothing suits or the hops are used up. It    *)
(* needs LowerNames: the code lowers the name of an argument as it does    *)
(* that of a header, and then no argument with a capital is ever found.    *)
FirstMatchWins ==
  Routed =>
    /\ \A k \in DOMAIN walk.trail :
         LET here  == walk.trail[k]
             steps == conf.routes[here.route]
         IN  /\ SuitsStep(steps[here.at], req.head, here.path, here.query)
             /\ \A i \in 1 .. here.at - 1 :
                  ~SuitsStep(steps[i], req.head, here.path, here.query)
    /\ walk.decision = NotFound =>
         \/ Len(walk.trail) = Hops
         \/ \A i \in DOMAIN conf.routes[walk.route] :
              ~SuitsStep(conf.routes[walk.route][i], req.head, walk.path, walk.query)

(* Every route and every pool a request is sent to exists, and no inline   *)
(* application is left behind (the unreachable! of compile_action), in the *)
(* fallbacks either.                                                       *)
NoDeadEnd ==
  phase \notin {"boot", "refused"} =>
    /\ phase = "app" => req.app \subseteq conf.pools
    /\ Routed => walk.route \in DOMAIN conf.routes
    /\ InlinePlaces(conf.routes) = {}

(* validate_action: "A fallback is a full action: it may re-enter routing  *)
(* via `route`". A request whose share has no file is answered at once only *)
(* if its fallback is a `return`.                                          *)
FallbackRuns ==
  [][Sharing /\ Found = NoFile /\ Len(walk.decision) > 1 /\ phase' = "sent" =>
       walk.decision[2].return # {}]_vars

(* No control byte reaches the application or the Location of a redirect   *)
(* to a directory, however often the target is decoded on the way; and     *)
(* none of the headers a configuration adds, its Locations included, has a *)
(* line break in it.                                                       *)
SinksClean ==
  phase \in {"app", "open", "sending", "sent"} /\ ~conf.listener.status =>
    /\ \A s \in {walk.path, walk.query, Host(req.head)} : ~has_control_byte(s)
    /\ \A k \in DOMAIN walk.decision : \A s \in walk.decision[k].location : ~reject_header_control(s)
    /\ \A k \in DOMAIN walk.ops : ~reject_header_control(walk.ops[k])

(* The client's copy is one version of the file, however often its         *)
(* download broke and the file was replaced meanwhile; and a 304 says of a *)
(* whole copy that it is the file.                                         *)
OneVersion ==
  /\ Cardinality(ToSet(copy.data)) <= 1
  /\ resp.status = 304 /\ resp.ver # 0 =>
       Whole /\ copy.data[1] = resp.ver /\ copy.total = resp.total

(* As many bytes are sent as the head says, unless the file was cut in the *)
(* meantime (the connection goes on even then: CutCloses); and a partial   *)
(* answer holds the bytes asked for, except that of a HEAD, which holds    *)
(* none.                                                                   *)
BodyExact ==
  /\ phase = "sent" => resp.sent = resp.owed \/ resp.cut
  /\ phase = "sending" => \A r \in req.ask.range :
       /\ resp.status = 206 /\ req.head.method # <<"HEAD">> =>
            resp.from .. resp.from + resp.owed - 1 = Meant(r, resp.total)
       /\ resp.status = 416 => Meant(r, resp.total) = {}

(* serve_static: "file truncated under us; header already sent". What is   *)
(* shorter than its head says must not be followed by another answer, which *)
(* the client would take for its rest.                                     *)
CutCloses == [][phase = "sent" /\ resp.sent # resp.owed => phase' # "idle"]_vars

\* Whatever dots and blanks a lenient mount ignores: a dot, an extension in
\* either case, and nothing else but these behind it.
IsSource(name, ext) ==
  \E i, j \in DOMAIN name :
    /\ i < j /\ name[i] = "." /\ Translate(SubSeq(name, i + 1, j), Lower) = ext
    /\ \A k \in i + 1 .. j : name[k] \notin {".", " "}
    /\ \A k \in j + 1 .. Len(name) : name[k] \in {".", " "}

(* A source is never sent as it is, whatever the share and however its     *)
(* name is written, unless the share lists it; and then no fallback of     *)
(* that share runs it.                                                     *)
SourcesHeld ==
  fd # NoFile =>
    \A ext \in SourceExts : IsSource(fd.at[2], ext) =>
      /\ ext \in The(Act.share).serve_sources
      /\ \A k \in DOMAIN walk.decision : walk.decision[k].application = {}
=============================================================================
