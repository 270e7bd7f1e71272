----------------------------- MODULE WsDecoder ------------------------------
(***************************************************************************)
(* The WebSocket decoder of ws.rs, fed as the tunnel feeds it: bytes come  *)
(* in pieces of any length, and after each the decoder cuts what messages  *)
(* it can. A frame is what its header says, with a payload of bytes: "a"   *)
(* is a character, "b" and "c" are the halves of another one.              *)
(***************************************************************************)
EXTENDS Integers, SequencesExt

CONSTANTS
  Frames,     \* frames the client may send
  MaxMessage, \* max_message_size
  MaxControl, \* 125: the payload of a control frame
  MaxFrames   \* frames it sends

ASSUME DecoderAssumption ==
  /\ MaxMessage \in Nat /\ MaxControl \in Nat /\ MaxFrames \in Nat
  /\ \A f \in Frames : f.ext \in Nat /\ f.payload \in Seq(ToSet(f.payload)) /\ f.len = Len(f.payload)

VARIABLES
  buf,     \* frames in the buffer, whole or begun
  got,     \* how many bytes of the last one are there
  decoder, \* [opcode, frag]: the fragmented message in progress
  cut,     \* every frame cut off the buffer
  out,     \* the messages handed on
  verdict  \* "ok", or the error that ended the tunnel

wsVars == <<buf, got, decoder, cut, out, verdict>>

Controls == {"close", "ping", "pong"}
Start    == {"text", "binary"}
\* An opcode of eight or more; "control" is one that stands for nothing.
IsControl(f) == f.opcode \in Controls \cup {"control"}
Limit(f) == IF IsControl(f) THEN MaxControl ELSE MaxMessage
Size(f)  == 2 + f.ext + 4 + f.len
Nothing  == [opcode |-> "none", frag |-> <<>>]

WsInit ==
  /\ buf = <<>> /\ got = 0
  /\ decoder = Nothing
  /\ cut = <<>> /\ out = <<>> /\ verdict = "ok"

-----------------------------------------------------------------------------
(* parse_frame: what can be said of a frame of which `n` bytes are there.  *)

\* (a mistake) The lengths are looked at once the payload is there.
ParseLate(f, n) ==
  IF n < 2 THEN "more"
  ELSE IF f.rsv \/ ~f.masked THEN "protocol"
  ELSE IF n < Size(f) THEN "more"
  ELSE IF f.len > Limit(f) THEN IF IsControl(f) THEN "protocol" ELSE "too big"
  ELSE "frame"

Parse(f, n) ==
  IF n < 2 THEN "more"
  ELSE IF f.rsv \/ ~f.masked THEN "protocol"
  ELSE IF n < 2 + f.ext THEN "more"
  ELSE IF f.len > Limit(f) THEN IF IsControl(f) THEN "protocol" ELSE "too big"
  ELSE IF n < Size(f) THEN "more"
  ELSE "frame"

First   == buf[1]
Arrived == IF Len(buf) > 1 THEN Size(First) ELSE got
State   == IF buf = <<>> THEN "more" ELSE Parse(First, Arrived)
Pieces(f) == {1, 2, 2 + f.ext, Size(f) - 1, Size(f)}

\* A read, once the decoder has nothing to cut: more of the frame begun, or
\* its rest with the beginning of another.
Read ==
  /\ verdict = "ok" /\ State = "more"
  /\ \/ /\ buf # <<>>
        /\ got' \in {n \in Pieces(First) : n > got}
        /\ buf' = buf
     \/ /\ Len(cut) + Len(buf) < MaxFrames
        /\ \E f \in Frames : buf' = Append(buf, f) /\ got' \in Pieces(f)
  /\ UNCHANGED <<decoder, cut, out, verdict>>

-----------------------------------------------------------------------------
(* Decoder::next, one frame at a time. *)

\* "b" and "c" come in pairs.
Utf8(p) == \A i \in 0 .. Len(p) :
  (i > 0 /\ p[i] = "b") <=> (i < Len(p) /\ p[i + 1] = "c")

Fail(why) ==
  /\ verdict' = why
  /\ UNCHANGED <<buf, got, decoder, cut, out>>

Refuse == State \in {"protocol", "too big"} /\ Fail(State)

\* The frame leaves the buffer; what it completes goes on to the tunnel.
Take(message, rest) ==
  /\ buf' = Tail(buf)
  /\ got' = IF Len(buf) > 1 THEN got ELSE 0
  /\ cut' = Append(cut, First)
  /\ out' = out \o message
  /\ decoder' = rest

\* finish_message
Finish(opcode, payload, rest) ==
  IF opcode = "text" /\ ~Utf8(payload) THEN Fail("bad utf8")
  ELSE Take(<<[opcode |-> opcode, payload |-> payload]>>, rest) /\ UNCHANGED verdict

\* (a mistake) A ping drops the message in progress.
TakeControlResets ==
  /\ State = "frame" /\ First.opcode \in Controls
  /\ IF ~First.fin THEN Fail("protocol")
     ELSE /\ Take(<<[opcode |-> First.opcode, payload |-> First.payload]>>, Nothing)
          /\ verdict' = IF First.opcode = "close" THEN "closed" ELSE verdict

\* Control frames stand alone and leave the message in progress as it is.
TakeControl ==
  /\ State = "frame" /\ First.opcode \in Controls
  /\ IF ~First.fin THEN Fail("protocol")
     ELSE /\ Take(<<[opcode |-> First.opcode, payload |-> First.payload]>>, decoder)
          /\ verdict' = IF First.opcode = "close" THEN "closed" ELSE verdict

TakeStart ==
  /\ State = "frame" /\ First.opcode \in Start
  /\ IF decoder.opcode # "none" THEN Fail("protocol")
     ELSE IF First.fin THEN Finish(First.opcode, First.payload, decoder)
     ELSE Take(<<>>, [opcode |-> First.opcode, frag |-> First.payload]) /\ UNCHANGED verdict

TakeContinuation ==
  LET joined == decoder.frag \o First.payload
  IN  /\ State = "frame" /\ First.opcode = "continuation"
      /\ IF decoder.opcode = "none" THEN Fail("protocol")
         ELSE IF Len(joined) > MaxMessage THEN Fail("too big")
         ELSE IF First.fin THEN Finish(decoder.opcode, joined, Nothing)
         ELSE Take(<<>>, [decoder EXCEPT !.frag = joined]) /\ UNCHANGED verdict

TakeReserved ==
  /\ State = "frame" /\ First.opcode \notin Controls \cup Start \cup {"continuation"}
  /\ Fail("protocol")

WsNext ==
  /\ verdict = "ok"
  /\ Read \/ Refuse \/ TakeControl \/ TakeStart \/ TakeContinuation \/ TakeReserved

-----------------------------------------------------------------------------
(* What RFC 6455 makes of a whole sequence of frames, without a decoder.   *)

Data(s, i) == s[i].opcode \notin Controls
\* Before frame i a message is begun and not ended.
Within(s, i) == \E j \in 1 .. i - 1 : Data(s, j) /\ ~s[j].fin /\ \A k \in j + 1 .. i - 1 : ~Data(s, k)

\* What frame i says by itself; and the fragments joined up to it.
Said(s, i) == [opcode |-> s[i].opcode, payload |-> s[i].payload]
Joined(s) ==
  LET upto[i \in 0 .. Len(s)] ==
        IF i = 0 THEN [opcode |-> "none", payload |-> <<>>]
        ELSE IF ~Data(s, i) THEN upto[i - 1]
        ELSE IF s[i].opcode \in Start THEN Said(s, i)
        ELSE [opcode |-> upto[i - 1].opcode, payload |-> upto[i - 1].payload \o s[i].payload]
  IN  upto

\* The message frame i ends or goes on with; and all that end up to frame i.
Message(s, i) == IF Data(s, i) THEN Joined(s)[i] ELSE Said(s, i)
Messages(s) ==
  LET upto[i \in 0 .. Len(s)] ==
        IF i = 0 THEN <<>>
        ELSE IF s[i].fin THEN Append(upto[i - 1], Message(s, i)) ELSE upto[i - 1]
  IN  upto

Conforms(s) ==
  \A i \in DOMAIN s :
    /\ s[i].masked /\ ~s[i].rsv
    /\ IF ~Data(s, i) THEN s[i].fin /\ s[i].len <= MaxControl
       ELSE /\ s[i].opcode \in Start \cup {"continuation"} /\ s[i].len <= MaxMessage
            /\ (s[i].opcode = "continuation") <=> Within(s, i)
            /\ Len(Message(s, i).payload) <= MaxMessage
            /\ s[i].fin /\ Message(s, i).opcode = "text" => Utf8(Message(s, i).payload)

(* However the bytes are cut into reads: each message handed on is the     *)
(* concatenation of its own fragments, in order, pings between them apart; *)
(* what breaks the rules is refused and nothing else is.                   *)
MessagesWhole ==
  /\ out = Messages(cut)[Len(cut)]
  /\ Conforms(cut)
  /\ verdict \notin {"ok", "closed"} => ~Conforms(Append(cut, First))

(* What waits to be whole is at most one message limit of fragments and    *)
(* one frame: a payload over the limit is refused from its header, before  *)
(* a byte of it is kept. The sum of both is looked at only once the frame  *)
(* is there (SumKnownEarly), so a client can make the tunnel hold twice    *)
(* the limit, and no more; what one read brings beyond the frame is apart. *)
NeverHoards ==
  verdict = "ok" =>
    /\ Len(decoder.frag) <= MaxMessage
    /\ State \in {"more", "frame"} /\ buf # <<>> =>
         Len(decoder.frag) + Arrived <= MaxMessage + (2 + First.ext + 4) + Limit(First)

(* parse_frame: "The limit guards a single frame too, or a huge length     *)
(* would make us buffer it before the message-level check". No message is  *)
(* begun of which more than the limit is kept.                             *)
SumKnownEarly ==
  verdict = "ok" /\ State = "more" /\ buf # <<>> /\ First.opcode = "continuation" =>
    Len(decoder.frag) + (Arrived - (2 + First.ext + 4)) <= MaxMessage
=============================================================================
