---------------------------- MODULE StaticFiles -----------------------------
(***************************************************************************)
(* One response of serve_static.rs while the file it serves is replaced or *)
(* cut, and the client that keeps a copy: it resumes a broken download and *)
(* revalidates a whole one. A byte is named after the version of the file  *)
(* it comes from. Containment is the kernel's (openat2): a place of the    *)
(* tree either resolves or does not. All regular files are one file.       *)
(***************************************************************************)
EXTENDS Routing

CONSTANTS
  Tree,        \* <<root, path>> |-> "file", "dir" or "link": what the kernel finds there
  SourceExts,  \* extensions the modules and `execute` declare
  Mimes,       \* extension |-> MIME type, built in or overridden
  MaxSize,     \* bytes of the file
  MaxVersions, \* versions of it
  MaxClock,    \* seconds
  Ranges,      \* ranges a client asks for out of the blue
  NoFile

ASSUME StaticAssumption ==
  /\ MaxSize \in Nat \ {0} /\ MaxVersions \in Nat \ {0} /\ MaxClock \in Nat
  /\ \A at \in DOMAIN Tree : IsList(at[2])
  /\ NoFile \notin [at : DOMAIN Tree, ver : Nat]
  /\ \A r \in Ranges :
       /\ r \in [first : SUBSET Nat, last : SUBSET Nat] /\ Optional(r.first) /\ Optional(r.last)
       /\ r.first # {} \/ r.last # {}

VARIABLES
  clock,  \* the second it is
  taken,  \* lengths a version has had in this second
  files,  \* the versions: [mtime, size]; the last one has the name
  fd,     \* the open file: [at, ver], NoFile without one
  resp,   \* the response: what it said, and the bytes sent since
  copy    \* the client's copy: its ETag, its length, the bytes it has

disk == <<clock, taken, files>>
staticVars == <<disk, fd, resp, copy>>

Etag(v)  == <<files[v].mtime, files[v].size>>
NoRange  == [first |-> {}, last |-> {}]
Silent   == [status |-> 0, from |-> 0, owed |-> 0, sent |-> 0, total |-> 0, ver |-> 0,
             cut |-> FALSE]
Whole    == copy.total > 0 /\ Len(copy.data) = copy.total
Partial  == copy.data # <<>> /\ ~Whole

StaticInit ==
  /\ clock = 0
  /\ \E n \in 1 .. MaxSize : files = <<[mtime |-> 0, size |-> n]>> /\ taken = {n}
  /\ fd = NoFile /\ resp = Silent
  /\ copy = [tag |-> <<>>, total |-> 0, data |-> <<>>]

-----------------------------------------------------------------------------
(* The file system. No two files share second and length: the ETag is made *)
(* of these two, and what it promises holds of such files only.            *)

Tick ==
  /\ clock < MaxClock /\ clock' = clock + 1 /\ taken' = {}
  /\ UNCHANGED <<files, fd, resp, copy>>

\* A new file is renamed over the name: who has the old one open keeps it.
Publish(n) ==
  /\ Len(files) < MaxVersions
  /\ n \notin taken /\ taken' = taken \cup {n}
  /\ files' = Append(files, [mtime |-> clock, size |-> n])
  /\ UNCHANGED <<clock, fd, resp, copy>>

\* The file is cut in place, under whoever reads it.
Truncate(n) ==
  LET last == Len(files)
  IN  /\ n < files[last].size
      /\ n \notin taken /\ taken' = taken \cup {n}
      /\ files' = [files EXCEPT ![last] = [mtime |-> clock, size |-> n]]
      /\ resp' = [resp EXCEPT !.cut = @ \/ (fd # NoFile /\ fd.ver = last)]
      /\ UNCHANGED <<clock, fd, copy>>

-----------------------------------------------------------------------------
(* From template and path to a place of the tree. *)

\* Split at $uri, the rest appended; without it a path below the root.
Target(share, path) ==
  LET target == IF share.uri THEN path \o share.suffix ELSE share.suffix
  IN  IF target # <<>> /\ Last(target) = "/" THEN target \o share.index ELSE target

TrimEnd(s) ==
  LET kept == {i \in DOMAIN s : s[i] \notin {".", " "}}
  IN  SubSeq(s, 1, IF kept = {} THEN 0 ELSE Max(kept))

\* What follows the last dot: all of it, without one.
Extension(target) ==
  LET dots == {i \in DOMAIN target : target[i] = "."}
  IN  Translate(SubSeq(target, IF dots = {} THEN 1 ELSE Max(dots) + 1, Len(target)), Lower)

mime_for(target) ==
  LET ext == Extension(target)
  IN  IF ext \in DOMAIN Mimes THEN Mimes[ext] ELSE <<"octet-stream">>

\* (a mistake) The trailing dots are left on.
SourceExtDotted(target) == Extension(target)

\* The extension of a source, whatever dots a lenient mount would ignore.
SourceExt(target) == Extension(TrimEnd(target))

\* The place to open. NoFile: not served, the fallback is due.
Locate(share, path) ==
  LET target == Target(share, path)
      at     == <<share.root, target>>
  IN  IF /\ SourceExt(target) \notin SourceExts \ share.serve_sources
         /\ Insensitive(share.types, mime_for(target))
         /\ at \in DOMAIN Tree /\ (Tree[at] = "link" => share.follow_symlinks)
      THEN at ELSE NoFile

-----------------------------------------------------------------------------
(* Ranges. A first or last byte that is absent is {}; a suffix has no      *)
(* first. The answer is <<first, last>>, or <<>> when it cannot be met.    *)

\* (a mistake) What the client names is not cut to the file.
parse_rangeUnclamped(r, size) ==
  LET start == IF r.first = {} THEN size - CHOOSE x \in r.last : TRUE
               ELSE CHOOSE x \in r.first : TRUE
      end   == IF r.first = {} \/ r.last = {} THEN size - 1 ELSE CHOOSE x \in r.last : TRUE
  IN  IF size = 0 \/ start >= size \/ end < start THEN <<>> ELSE <<start, end>>

parse_range(r, size) ==
  LET Of(opt)  == CHOOSE x \in opt : TRUE
      suffix   == r.first = {}
      start    == IF ~suffix THEN Of(r.first)
                  ELSE IF Of(r.last) > size THEN 0 ELSE size - Of(r.last)
      end      == IF suffix \/ r.last = {} \/ Of(r.last) > size - 1 THEN size - 1 ELSE Of(r.last)
  IN  IF size = 0 \/ start >= size \/ end < start THEN <<>> ELSE <<start, end>>

\* The bytes a range names.
Meant(r, size) ==
  {b \in 0 .. size - 1 :
     IF r.first = {} THEN \E n \in r.last : b >= size - n
     ELSE (\A f \in r.first : b >= f) /\ (\A l \in r.last : b <= l)}

-----------------------------------------------------------------------------
(* The response. `ask` holds the conditions the client sent with it.       *)

\* (a mistake) Either condition will do.
NotModifiedEither(ask, v) == Etag(v) \in ask.none_match \/ files[v].mtime \in ask.since

\* If-None-Match wins over If-Modified-Since.
NotModified(ask, v) ==
  IF ask.none_match # {} THEN Etag(v) \in ask.none_match ELSE files[v].mtime \in ask.since

\* A range is honoured unless If-Range names another entity.
RangeAllowed(ask, v) == ask.if_range \subseteq {Etag(v)}

Answer(ask, head_only, v) ==
  LET size   == files[v].size
      ranged == \E r \in ask.range : RangeAllowed(ask, v)
      span   == IF ranged THEN parse_range(CHOOSE r \in ask.range : TRUE, size)
                          ELSE <<0, size - 1>>
      status == IF NotModified(ask, v) THEN 304 ELSE IF span = <<>> THEN 416
                ELSE IF ranged THEN 206 ELSE 200
      bodied == status \in {200, 206}
  IN  [status |-> status, from |-> IF bodied THEN span[1] ELSE 0,
       owed |-> IF bodied /\ ~head_only THEN span[2] + 1 - span[1] ELSE 0,
       sent |-> 0, total |-> size, ver |-> v, cut |-> FALSE]

\* openat2: the file is pinned, its attributes are not.
Open(at) == fd' = [at |-> at, ver |-> Len(files)]

\* fstat, the conditions, the head; a client that gets all of it starts over.
SendHead(ask, head_only) ==
  /\ resp' = Answer(ask, head_only, fd.ver)
  /\ copy' = IF resp'.status = 200 /\ ask.kept
             THEN [tag |-> Etag(fd.ver), total |-> resp'.total, data |-> <<>>] ELSE copy

\* One chunk is read and written; the client keeps it if it asked for it.
CopyChunk(ask) ==
  /\ resp.sent < resp.owed
  /\ resp.from + resp.sent < files[fd.ver].size
  /\ resp' = [resp EXCEPT !.sent = @ + 1]
  /\ copy' = IF ask.kept THEN [copy EXCEPT !.data = Append(@, fd.ver)] ELSE copy

\* All is sent, or the file was cut under the copy: the loop ends.
CopyEnds == resp.sent = resp.owed \/ resp.from + resp.sent >= files[fd.ver].size
=============================================================================
