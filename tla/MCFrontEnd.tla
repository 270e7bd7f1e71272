----------------------------- MODULE MCFrontEnd -----------------------------
(* Instances of the front end for TLC: configurations, heads and frames    *)
(* that put each rule of routing, files and frames to work.                *)
EXTENDS FrontEnd

Pos(body) == [neg |-> FALSE, body |-> body]
Neg(body) == [neg |-> TRUE, body |-> body]
App(n)    == <<n, 0, 0>>

NoAct == [application |-> {}, route |-> {}, share |-> {}, return |-> {}, location |-> {}]
Serve(n)  == [NoAct EXCEPT !.application = {App(n)}]
Inlined   == [NoAct EXCEPT !.application = {Inline}]
Jump(r)   == [NoAct EXCEPT !.route = {r}]
Status(c) == [NoAct EXCEPT !.return = {c}]
Docs == [paths |-> 1, root |-> "www", uri |-> TRUE, suffix |-> <<>>, index |-> <<"index">>,
         types |-> {}, follow_symlinks |-> FALSE, serve_sources |-> {}]
Share(s) == [NoAct EXCEPT !.share = {s}]

Step(match, action) == [match |-> match, rewrite |-> {}, response_headers |-> <<>>,
                        action |-> action]
Match == [method |-> {}, host |-> {}, uri |-> {}, query |-> {}, headers |-> {},
          arguments |-> {}, source |-> {}]

Config(routes) == [listener |-> [route |-> {"main"}, status |-> FALSE], routes |-> routes,
                   applications |-> {App("app"), App("plain")}]

Blocks == {[neg |-> FALSE, net |-> <<10, 64>>, prefix |-> 10],
           [neg |-> TRUE, net |-> <<10, 65>>, prefix |-> 16]}

\* Guards on every field, before a catch-all.
Guarded == [main |-> <<
  Step({[Match EXCEPT !.uri = {Pos(<<"/", "a", "*", "a">>), Neg(<<"*", "b", "*", "a">>)}]},
       <<Status(204)>>),
  Step({[Match EXCEPT !.uri = {Pos(<<"/", "gone">>)}]},
       <<[Status(301) EXCEPT !.location = {<<"x">>}]>>),
  Step({[Match EXCEPT !.host = {Pos(<<"h">>)}, !.source = Blocks]},
       <<Jump("deep")>>),
  Step({[Match EXCEPT !.arguments = {[name |-> <<"p">>, set |-> {Pos(<<" ", "*">>)}]}]},
       <<Status(302)>>),
  Step({[Match EXCEPT !.method = {Pos(<<"GET">>)},
                      !.headers = {[name |-> "x", set |-> {Neg(<<"1">>)}]}]},
       <<Serve("app")>>)>>,
  deep |-> <<Step({[Match EXCEPT !.query = {Pos(<<"loop">>)}, !.uri = {Pos(<<"*">>)}]},
                  <<Jump("main")>>),
             Step({}, <<Inlined>>)>>]

\* Rewrites: to another path and query, to the root by an empty template, and
\* the identity, which decodes again.
Rewriting == [main |-> <<
  [Step({[Match EXCEPT !.uri = {Pos(<<"/", "a", "*">>)}]}, <<Jump("again")>>)
     EXCEPT !.rewrite = {<<[var |-> "uri"]>>}, !.response_headers = <<<<"x">>>>],
  [Step({[Match EXCEPT !.uri = {Pos(<<"/", "health">>)}]}, <<Share(Docs)>>)
     EXCEPT !.rewrite = {<<>>}],
  [Step({}, <<Serve("plain")>>)
     EXCEPT !.rewrite = {<<[lit |-> <<"/", "p", "?", "q", "=">>], [var |-> "args"]>>}]>>,
  again |-> <<Step({[Match EXCEPT !.uri = {Pos(<<"*", "php">>)}, !.query = {Pos(<<>>)}]},
                   <<Share(Docs), Status(403)>>),
              Step({[Match EXCEPT !.uri = {Pos(<<"*", "d">>)}]}, <<Share(Docs)>>),
              Step({}, <<Serve("plain")>>)>>]

\* Files first, then the application, itself inline.
Sharing0 == [main |-> <<Step({}, <<Share(Docs), Inlined>>)>>]
Sources  == [main |-> <<
  Step({[Match EXCEPT !.uri = {Pos(<<"*", "php">>)}]},
       <<Share([Docs EXCEPT !.serve_sources = {<<"php">>}])>>),
  Step({}, <<Share([Docs EXCEPT !.types = {Neg(<<"octet-stream">>)}]), Jump("main")>>)>>]

\* What validation refuses.
Refused == {
  [main |-> <<Step({}, <<Share([Docs EXCEPT !.serve_sources = {<<"php">>}]), Serve("app")>>)>>],
  [main |-> <<Step({}, <<Share(Docs), Jump("gone")>>)>>],
  [main |-> <<Step({}, <<Serve("gone")>>)>>],
  [main |-> <<Step({}, <<Status(204)>>), Step({}, <<Serve("app")>>)>>],
  [main |-> <<>>],
  [main |-> <<Step({}, <<[Status(204) EXCEPT !.location = {<<"x">>}]>>)>>],
  [main |-> <<Step({}, <<[Status(301) EXCEPT !.location = {<<"x", "CR">>}]>>)>>],
  [main |-> <<[Step({}, <<Serve("app")>>) EXCEPT !.response_headers = <<<<"x", "LF">>>>]>>],
  [main |-> <<Step({}, <<Serve("app"), Status(404)>>)>>]}

MCConfigs ==
  {Config(r) : r \in {Guarded, Rewriting, Sharing0, Sources} \cup Refused}
  \cup {[Config(Sources) EXCEPT !.listener = [route |-> {}, status |-> TRUE]],
        [Config(Sources) EXCEPT !.listener = [route |-> {"main"}, status |-> TRUE]],
        [Config(Sharing0) EXCEPT !.applications = @ \cup {<<"main", 1, 2>>}]}

\* An argument whose name is written with a capital.
MCCased == {Config([main |-> <<
  Step({[Match EXCEPT !.arguments = {[name |-> <<"H">>, set |-> {Pos(<<"x">>)}]}]}, <<Status(204)>>),
  Step({}, <<Serve("app")>>)>>])}

Plain == [method |-> <<"GET">>, target |-> <<"/">>, version |-> "1.1", remote |-> <<10, 1>>,
         headers |-> <<<<"host", <<"H", ":", "8">>>>>>, conditional |-> FALSE]
Get(target) == [Plain EXCEPT !.target = target]
With(extra) == [Plain EXCEPT !.headers = @ \o extra]

MCRequests ==
  {[Get(<<"/", "doc">>) EXCEPT !.conditional = TRUE]}
  \cup {Get(t) : t \in {
      <<"/", "a">>, <<"/", "a", "b", "a">>, <<"/", "a", "xff", "b", "a">>,
      <<"/", "a", "c", "%2f", "a">>,
      <<"/", "a", "/", "%2e", ".", "/", "..", "/", "doc">>,
      <<"/", "a", "%252e", "%252f", "php">>, <<"/", "a", "%250d">>, <<"/", "a", "%250d", "d">>,
      <<"/", "a", "%3f", "doc">>, <<"/", "%0d">>, <<"/", "a", "?", "p", "=", "+", "&", "p">>,
      <<"/", "?", "p", "=", "+", "x">>,
      <<"/", "dir">>, <<"/", "link">>, <<"/", "x", ".", "php">>, <<"/", "x", ".", "PHP", ".">>,
      <<"/", "?", "loop">>, <<"/", "gone">>, <<"/">>, <<"/", "health">>}}
  \cup {[Get(<<"/", "doc">>) EXCEPT !.method = <<"HEAD">>],
        [Get(<<"/", "doc">>) EXCEPT !.version = "1.0"],
        [Plain EXCEPT !.remote = <<10, 65>>], [Plain EXCEPT !.remote = <<10, 127>>],
        [Get(<<"/", "?", "loop">>) EXCEPT !.remote = <<10, 127>>]}
  \cup {With(x) : x \in {
      <<<<"content-length", <<"1">>>>, <<"content-length", <<"2">>>>>>,
      <<<<"content-length", <<"9">>>>>>, <<<<"transfer-encoding", <<"chunked">>>>>>,
      <<<<"host", <<"h">>>>>>, <<<<"connection", <<"close">>>>, <<"x", <<"1">>>>>>,
      <<<<"upgrade", <<"websocket">>>>, <<"connection", <<"keep-alive", ",", "upgrade">>>>,
        <<"sec-websocket-version", <<"13">>>>, <<"sec-websocket-key", <<"k">>>>>>}}

MCCasedHeads == {Get(<<"/", "?", name, "=", "x">>) : name \in {"H", "h"}}

MCTree == [at \in {<<"www", <<"/", "doc">>>>, <<"www", <<"/", "dir">>>>, <<"www", <<"/", "link">>>>,
                   <<"www", <<"/", "a", "CR", "d">>>>, <<"www", <<"/", "index">>>>,
                   <<"www", <<"/", "x", ".", "php">>>>, <<"www", <<"/", "x", ".", "PHP", ".">>>>} |->
  IF at[2][2] = "link" THEN "link" ELSE IF Last(at[2]) \in {"dir", "d"} THEN "dir" ELSE "file"]

MCSourceExts == {<<"php">>}
MCSockets == {App("app")}
MCMimes == [e \in {<<"/", "doc">>, <<"/", "index">>} |-> <<"text">>]
MCRanges == {[first |-> {0}, last |-> {0}], [first |-> {1}, last |-> {9}],
             [first |-> {}, last |-> {9}], [first |-> {2}, last |-> {1}]}

Frame(opcode, fin, payload) ==
  [opcode |-> opcode, fin |-> fin, payload |-> payload, len |-> Len(payload), ext |-> 0,
   masked |-> TRUE, rsv |-> FALSE]

Long == [i \in 1 .. 9 |-> "a"]

MCFrames == {
  Frame("text", TRUE, <<"a">>), Frame("text", FALSE, <<"a", "b">>), Frame("binary", FALSE, <<"b">>),
  Frame("continuation", TRUE, <<"c">>), Frame("continuation", FALSE, <<"a">>),
  Frame("continuation", TRUE, <<"a", "a", "a">>),
  Frame("ping", TRUE, <<"a">>), Frame("ping", FALSE, <<>>), Frame("close", TRUE, <<>>),
  Frame("reserved", TRUE, <<>>),
  [Frame("binary", TRUE, Long) EXCEPT !.ext = 2], [Frame("ping", TRUE, Long) EXCEPT !.ext = 2],
  [Frame("control", TRUE, Long) EXCEPT !.ext = 2],
  [Frame("text", TRUE, <<"a">>) EXCEPT !.masked = FALSE]}
=============================================================================
