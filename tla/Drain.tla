-------------------------------- MODULE Drain --------------------------------
(***************************************************************************)
(* The front of the router (buran-router, lib.rs): one accept loop per     *)
(* listener, the permits of settings.http.max_connections they share, the  *)
(* life of a connection as far as these need it (serve_connection of       *)
(* http1.rs), and the drain after SIGTERM: the loops stop, the connections *)
(* finish, the process exits, at the latest after the grace.               *)
(*                                                                         *)
(* A client connects once. What is served and how is not told apart.       *)
(***************************************************************************)
EXTENDS Integers, Sequences, FiniteSets, SequencesExt

CONSTANTS
  Clients,     \* those who connect
  Listeners,   \* accept loops
  MaxConn,     \* settings.http.max_connections
  Home,        \* the listener each client connects to
  MaxExtra,    \* bound on the requests of a client that the drain has to wait for
  MaxFails,    \* bound on the failures of accept()
  None         \* no client

ASSUME DrainAssumption ==
  /\ MaxConn \in Nat \ {0} /\ MaxExtra \in Nat /\ MaxFails \in Nat
  /\ Home \in [Clients -> Listeners]
  /\ None \notin Clients

VARIABLES
  loop,     \* where each accept loop is
  held,     \* the accepted connection that waits for a permit, or None
  waiters,  \* the loops in the queue of the semaphore
  free,     \* permits of ConnTracker::limit
  count,    \* ConnTracker::count
  conn,     \* where each connection is
  extra,    \* requests of each client that came with the one before, or after the signal
  fails,    \* failures of accept() so far
  shutdown, \* the watch channel
  main,     \* where Router::serve is
  woken     \* its Notified future has been notified

loopVars == <<loop, held, waiters, fails>>
mainVars == <<shutdown, main, woken>>
vars == <<loopVars, free, count, conn, extra, mainVars>>

LoopStates == {"accept", "backoff", "permit", "done"}
Serving    == {"idle", "head", "serve", "tunnel"}
Ending     == {"leave", "notify", "release"}
ConnStates == {"none", "backlog", "accepted", "closed"} \cup Serving \cup Ending
MainStates == {"serve", "check", "arm", "wait", "drained", "expired"}

Backlog(l) == {c \in Clients : conn[c] = "backlog" /\ Home[c] = l}
Running    == main \notin {"drained", "expired"}  \* the process has not exited

Init ==
  /\ loop = [l \in Listeners |-> "accept"]
  /\ held = [l \in Listeners |-> None]
  /\ waiters = <<>> /\ fails = 0
  /\ free = MaxConn /\ count = 0
  /\ conn = [c \in Clients |-> "none"]
  /\ extra = [c \in Clients |-> 0]
  /\ shutdown = FALSE /\ main = "serve" /\ woken = FALSE

-----------------------------------------------------------------------------
(* The kernel completes connections into the backlog of a bound listener. *)
Connect(c) ==
  /\ conn[c] = "none" /\ loop[Home[c]] # "done"
  /\ conn' = [conn EXCEPT ![c] = "backlog"]
  /\ UNCHANGED <<loopVars, free, count, extra, mainVars>>

\* Mutant: the permit is taken first and held while nobody connects.
AcceptParks(l) ==
  /\ loop[l] = "accept"
  /\ \/ /\ held[l] = None /\ free > 0
        /\ free' = free - 1 /\ held' = [held EXCEPT ![l] = l]
        /\ UNCHANGED <<count, conn>>
     \/ /\ held[l] = l
        /\ \E c \in Backlog(l) : conn' = [conn EXCEPT ![c] = "idle"]
        /\ held' = [held EXCEPT ![l] = None] /\ count' = count + 1
        /\ UNCHANGED free
  /\ UNCHANGED <<loop, waiters, fails, extra, mainVars>>

(* accept() returns a connection; the loop asks for a permit. *)
Accept(l) ==
  /\ loop[l] = "accept"
  /\ \E c \in Backlog(l) :
       /\ conn' = [conn EXCEPT ![c] = "accepted"]
       /\ held' = [held EXCEPT ![l] = c]
  /\ loop' = [loop EXCEPT ![l] = "permit"]
  /\ waiters' = Append(waiters, l)
  /\ UNCHANGED <<fails, free, count, extra, mainVars>>

(* EMFILE or ENFILE: back off, keep the listener. *)
AcceptFails(l) ==
  /\ loop[l] = "accept" /\ fails < MaxFails
  /\ fails' = fails + 1
  /\ loop' = [loop EXCEPT ![l] = "backoff"]
  /\ UNCHANGED <<held, waiters, free, count, conn, extra, mainVars>>

BackoffEnds(l) ==
  /\ loop[l] = "backoff"
  /\ loop' = [loop EXCEPT ![l] = "accept"]
  /\ UNCHANGED <<fails, held, waiters, free, count, conn, extra, mainVars>>

(* A permit, in the order of asking: count the connection, spawn its task. *)
Spawn(l) ==
  /\ loop[l] = "permit" /\ waiters # <<>> /\ Head(waiters) = l /\ free > 0
  /\ free' = free - 1 /\ waiters' = Tail(waiters)
  /\ count' = count + 1
  /\ conn' = [conn EXCEPT ![held[l]] = "idle"]
  /\ held' = [held EXCEPT ![l] = None]
  /\ loop' = [loop EXCEPT ![l] = "accept"]
  /\ UNCHANGED <<fails, extra, mainVars>>

(* The loop ends: its socket is closed, with what is in the backlog. *)
Close(l) ==
  /\ loop' = [loop EXCEPT ![l] = "done"]
  /\ held' = [held EXCEPT ![l] = None]
  /\ waiters' = RemoveFirst(waiters, l)
  /\ conn' = [c \in Clients |-> IF c = held[l] \/ c \in Backlog(l) THEN "closed" ELSE conn[c]]

(* Both selects of the loop watch the shutdown. *)
Stop(l) ==
  /\ shutdown /\ loop[l] \in {"accept", "permit"}
  /\ Close(l)
  /\ UNCHANGED <<fails, free, count, extra, mainVars>>

LoopNext(l) == Accept(l) \/ AcceptFails(l) \/ BackoffEnds(l) \/ Spawn(l) \/ Stop(l)

-----------------------------------------------------------------------------
Goto(c, state) ==
  /\ conn' = [conn EXCEPT ![c] = state]
  /\ UNCHANGED <<loopVars, free, count, mainVars>>

(* First bytes of a request: from here on the header budget runs. *)
FirstBytes(c) ==
  /\ conn[c] = "idle"
  /\ Goto(c, "head")
  /\ IF shutdown THEN extra[c] < MaxExtra /\ extra' = [extra EXCEPT ![c] = @ + 1]
                 ELSE UNCHANGED extra

HeadRead(c) == conn[c] = "head" /\ Goto(c, "serve") /\ UNCHANGED extra

(* The budget is spent, the client leaves, or the head is refused. *)
HeadFails(c) == conn[c] = "head" /\ Goto(c, "leave") /\ UNCHANGED extra

(* idle_timeout, or the client closes. *)
IdleEnds(c) == conn[c] = "idle" /\ Goto(c, "leave") /\ UNCHANGED extra

\* Mutant: the condition on the buffer is the wrong way round.
SeeShutdownLate(c) == conn[c] = "head" /\ shutdown /\ Goto(c, "leave") /\ UNCHANGED extra

(* The wait for the first byte of a request watches the shutdown. *)
SeeShutdown(c) == conn[c] = "idle" /\ shutdown /\ Goto(c, "leave") /\ UNCHANGED extra

(* An answer is written: wait for the next request, go on with the bytes of  *)
(* the next one that came with this one, or close.                          *)
Answer(c) ==
  /\ conn[c] = "serve"
  /\ \/ Goto(c, "idle") /\ UNCHANGED extra
     \/ Goto(c, "leave") /\ UNCHANGED extra
     \/ /\ extra[c] < MaxExtra
        /\ extra' = [extra EXCEPT ![c] = @ + 1]
        /\ Goto(c, "head")

(* A tunnel does not watch the shutdown. *)
Upgrade(c)    == conn[c] = "serve" /\ Goto(c, "tunnel") /\ UNCHANGED extra
TunnelEnds(c) == conn[c] = "tunnel" /\ Goto(c, "leave") /\ UNCHANGED extra

(* The end of the task: fetch_sub, notify_waiters by the last one, and the  *)
(* permit when the task's locals are dropped.                               *)
Uncount(c) ==
  /\ conn[c] = "leave"
  /\ count' = count - 1
  /\ conn' = [conn EXCEPT ![c] = IF count = 1 THEN "notify" ELSE "release"]
  /\ UNCHANGED <<loopVars, free, extra, mainVars>>

(* notify_waiters reaches the futures that exist, and stores nothing. *)
NotifyDrained(c) ==
  /\ conn[c] = "notify"
  /\ woken' = (woken \/ main = "wait")
  /\ conn' = [conn EXCEPT ![c] = "release"]
  /\ UNCHANGED <<loopVars, free, count, extra, shutdown, main>>

Release(c) ==
  /\ conn[c] = "release"
  /\ free' = free + 1
  /\ conn' = [conn EXCEPT ![c] = "closed"]
  /\ UNCHANGED <<loopVars, count, extra, mainVars>>

EndTask(c) == Uncount(c) \/ NotifyDrained(c) \/ Release(c)

ConnNext(c) ==
  \/ FirstBytes(c) \/ HeadRead(c) \/ HeadFails(c) \/ IdleEnds(c) \/ SeeShutdown(c)
  \/ Answer(c) \/ Upgrade(c) \/ TunnelEnds(c) \/ EndTask(c)

-----------------------------------------------------------------------------
Signal ==
  /\ ~shutdown /\ shutdown' = TRUE
  /\ UNCHANGED <<loopVars, free, count, conn, extra, main, woken>>

MainGoto(state) ==
  /\ main' = state
  /\ UNCHANGED <<loopVars, free, count, conn, extra, shutdown>>

\* Mutant: the drain begins when the first loop has ended.
JoinFirst ==
  /\ main = "serve" /\ \E l \in Listeners : loop[l] = "done"
  /\ MainGoto("check") /\ UNCHANGED woken

Join ==
  /\ main = "serve" /\ \A l \in Listeners : loop[l] = "done"
  /\ MainGoto("check") /\ UNCHANGED woken

(* The counter is loaded, then the Notified future is made, then awaited.   *)
Check == main = "check" /\ MainGoto(IF count = 0 THEN "drained" ELSE "arm") /\ UNCHANGED woken
Arm   == main = "arm"   /\ MainGoto("wait") /\ woken' = FALSE
Wake  == main = "wait"  /\ woken /\ MainGoto("check") /\ UNCHANGED woken

(* DRAIN_GRACE is over. *)
Expire == main = "wait" /\ MainGoto("expired") /\ UNCHANGED woken

Next ==
  /\ Running
  /\ \/ \E c \in Clients : Connect(c) \/ ConnNext(c)
     \/ \E l \in Listeners : LoopNext(l)
     \/ Signal \/ Join \/ Check \/ Arm \/ Wake \/ Expire

(* Tasks run on; a head is read within its budget and a request answered    *)
(* within its timeouts (Answered of Delivery). Clients need not send or     *)
(* leave, tunnels need not end, and neither idle_timeout nor the grace is   *)
(* waited for.                                                              *)
Fairness ==
  /\ \A l \in Listeners :
       WF_vars(Running /\ (Accept(l) \/ BackoffEnds(l) \/ Spawn(l))) /\ WF_vars(Running /\ Stop(l))
  /\ \A c \in Clients :
       WF_vars(Running /\ (HeadFails(c) \/ SeeShutdown(c) \/ Answer(c) \/ EndTask(c)))
  /\ WF_vars(Running /\ (Join \/ Check \/ Arm \/ Wake))

Spec     == Init /\ [][Next]_vars
FairSpec == Spec /\ Fairness

-----------------------------------------------------------------------------
Tasks == {c \in Clients : conn[c] \in Serving \cup Ending}

TypeOK ==
  /\ loop \in [Listeners -> LoopStates] /\ held \in [Listeners -> Clients \cup {None}]
  /\ waiters \in Seq(Listeners)
  /\ free \in 0..MaxConn /\ count \in Nat
  /\ conn \in [Clients -> ConnStates] /\ fails \in 0..MaxFails
  /\ extra \in [Clients -> 0..MaxExtra]
  /\ shutdown \in BOOLEAN /\ main \in MainStates /\ woken \in BOOLEAN

(* Beside the types: every task holds one permit until its end, and is       *)
(* counted until its own fetch_sub, whatever way the connection ended and    *)
(* whether or not a loop gave up its place in the semaphore's queue.         *)
Accounts ==
  /\ TypeOK
  /\ free + Cardinality(Tasks) = MaxConn
  /\ count = Cardinality({c \in Tasks : conn[c] \in Serving \cup {"leave"}})

(* lib.rs:217, "an idle listener never parks a permit inside accept() and    *)
(* cannot starve a busy one sharing the cap": a connection that waits in a   *)
(* backlog waits for connections that use up the whole cap, and nothing else.*)
WaitsOnlyAtCap ==
  \A c \in Clients :
    conn[c] = "backlog" ~> conn[c] # "backlog" \/ Cardinality(Tasks) = MaxConn \/ ~Running

(* docs/cli.md:66, "stop accepting": after the signal every loop ends and    *)
(* the drain begins, even at the cap and with connections that never end.    *)
DrainBegins == shutdown ~> main # "serve"

(* http1.rs:210, "the drain does not wait out their idle_timeout": after the *)
(* signal only tunnels stay, though no client closes and none times out.     *)
OnlyTunnelsStay ==
  shutdown ~> ~Running \/ \A c \in Tasks : conn[c] = "tunnel"

(* The shutdown goes forward in the loops and in the connections.            *)
ShutdownMoves == DrainBegins /\ OnlyTunnelsStay

(* docs/cli.md:66, "drain in-flight connections, exit": the process does not *)
(* exit as drained while a connection is open, also one that was accepted    *)
(* while the signal came.                                                    *)
CleanExit ==
  main = "drained" => \A c \in Clients : conn[c] \notin Serving \cup {"accepted"}

(* The drain trusts the counter: it is exact, so the exit is clean.          *)
DrainIsHonest == Accounts /\ CleanExit

(* lib.rs:132, "drain in-flight connections (bounded grace)": the drain      *)
(* waits for connections. When it sleeps and none is left, its wake-up has   *)
(* come or the last one is about to send it.                                 *)
WakeupComes ==
  main = "wait" /\ count = 0 => woken \/ \E c \in Clients : conn[c] = "notify"

(* docs/configuration.md:80, "At the cap the server stops accepting; surplus *)
(* connections wait in the kernel backlog (no fd consumed)".                 *)
CapHolds == Cardinality({c \in Clients : conn[c] = "accepted"} \cup Tasks) <= MaxConn

=============================================================================
