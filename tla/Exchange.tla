------------------------------ MODULE Exchange ------------------------------
(***************************************************************************)
(* What a worker promises the router about the frames it writes, whatever  *)
(* its buffers, callbacks and control frames: the promise reader_task and  *)
(* the connection task rely on, worker and router being two programs.      *)
(* `written[r]` are the frames of request r that reached the stream. A     *)
(* step may write several, for a worker batches them.                      *)
(***************************************************************************)
EXTENDS Naturals, Sequences, FiniteSets

CONSTANTS
  Requests, \* requests a worker may take
  Granted   \* requests it may hold at once

VARIABLE written

\* What may come next on the stream after a frame of the same request. Done
\* and Error are terminal, and Error is Done's stand-in before End only.
Follows ==
  LET going == {"Body", "Flush", "End", "Error"}
  IN  [Claim   |-> {"Headers", "Error"},
       Headers |-> going,
       Body    |-> going,
       Flush   |-> going,
       End     |-> {"Done"},
       Done    |-> {},
       Error   |-> {}]

Frames == DOMAIN Follows

Legal(s) ==
  /\ s # <<>> => s[1] = "Claim"
  /\ \A i \in 1 .. Len(s) - 1 : s[i + 1] \in Follows[s[i]]

\* Requests the worker holds: claimed and not ended.
Open(w) == {r \in Requests : w[r] # <<>> /\ w[r][Len(w[r])] \notin {"Done", "Error"}}

Init == written = [r \in Requests |-> <<>>]

Write(r) ==
  /\ \A s \in Requests \ {r} : written'[s] = written[s]
  /\ Len(written[r]) < Len(written'[r])
  /\ SubSeq(written'[r], 1, Len(written[r])) = written[r]
  /\ Legal(written'[r])
  /\ Cardinality(Open(written')) <= Granted

Next == \E r \in Requests : Write(r)

Spec == Init /\ [][Next]_written
=============================================================================
