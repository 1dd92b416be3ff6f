------------------------------- MODULE LogFile -------------------------------
(***************************************************************************)
(* A request to the cluster agent for the records of one log file          *)
(* (crates/rgkl): the search of the file for the first and the last record *)
(* of the times that were asked for, the read between them, forward or     *)
(* backward, and the watch of the file for what is written later.          *)
(* Meanwhile the container runtime writes to the file, and may rotate it.  *)
(*                                                                         *)
(* A position is a byte of what the container writes: its files are parts  *)
(* of one sequence of lines.  A line has its timestamp and its tag in its  *)
(* first byte, its newline in the last one and its message in between, so  *)
(* that a read which starts in the middle of a line finds no timestamp,    *)
(* unless the message is itself written like a line of a log.              *)
(***************************************************************************)
EXTENDS Integers, Sequences, FiniteSetsExt

CONSTANTS Cases,    \* the logs, how much of them is written, the requests
          Chunk     \* CHUNK_SIZE of the reverse reader

None == -1

\* ts is 0 if the line cannot be parsed; final is the tag F of a record's last
\* line; inner is the timestamp that the message begins with, or 0.
Line == [at : Nat, len : Nat \ {0, 1}, ts : Nat, final : BOOLEAN, inner : Nat]

\* A start or stop of 0 is one that is not given.
Request == [backward : BOOLEAN, start : Nat, stop : Nat,
            follow : {"default", "noop", "end"}]

ASSUME LogFileAssumption ==
  /\ Cases \subseteq [log : Seq(Line), size : Nat, req : Request]
  /\ Chunk \in Nat \ {0}
  /\ \A c \in Cases : \A i \in 1..Len(c.log) : c.log[i].inner # 0 => c.log[i].len >= 3
  /\ \A c \in Cases : \A i \in 1..Len(c.log) :
       c.log[i].at = IF i = 1 THEN 0 ELSE c.log[i - 1].at + c.log[i - 1].len
  /\ \A c \in Cases :
       c.size <= IF c.log = <<>> THEN 0 ELSE c.log[Len(c.log)].at + c.log[Len(c.log)].len
  \* The runtime stamps the lines in the order it writes them.
  /\ \A c \in Cases : \A i, j \in 1..Len(c.log) :
       (i < j /\ c.log[i].ts # 0 /\ c.log[j].ts # 0) => c.log[i].ts <= c.log[j].ts

VARIABLES
  log,        \* the lines the container writes
  size,       \* how much of them is written
  rot,        \* where the file was rotated, or None
  req,        \* the request
  pc,         \* what the task of the request does
  maxOffset,  \* length of the file when it was opened
  left, right, found,   \* of find_nearest_offset: bounds and result
  startPos,   \* where the read begins
  endPos,     \* where it ends, or None
  rpos,       \* position of the reader
  bufEnd,     \* end of what the reverse reader has left of its chunk
  part,       \* the bytes it has of a line: from part[1] up to part[2]
  gap,        \* history: where the read ended and where the follower began
  watch,      \* the file that is watched: "none", "old", "new"
  reopened,   \* the follower reads the file that came with the rotation
  event,      \* a change of the watched file waits for the task
  out,        \* the records sent: the bytes each was made of
  status,     \* the error sent, or "ok"
  cancelled,  \* ctx is cancelled
  gone,       \* the client does not receive any more
  torn,       \* history: lines of which a part could be read
  broken      \* history: the read itself failed

search == <<left, right, found>>
range  == <<startPos, endPos>>
reader == <<rpos, bufEnd, part>>
follow == <<gap, watch, reopened>>
given  == <<log, req>>
disk   == <<size, rot, torn>>
vars   == <<given, disk, pc, maxOffset, search, range, reader, follow, event, out, status,
            cancelled, gone, broken>>

-----------------------------------------------------------------------------
(* Lines and what is read of them.                                         *)

End(i)    == log[i].at + log[i].len
Total     == IF log = <<>> THEN 0 ELSE End(Len(log))
LineOf(p) == CHOOSE i \in 1..Len(log) : log[i].at <= p /\ p < End(i)
LineEnd(p) == End(LineOf(p))

\* The length of the file that the request opened.
OldSize == IF rot = None THEN size ELSE rot

\* The length of the file that the follower reads.
NewSize == IF reopened THEN size ELSE OldSize

\* A line may be there in part.
Partial(n) == {i \in 1..Len(log) : log[i].at < n /\ n < End(i)}

\* parse_timestamp of what begins at p: 0 if there is none.
Parse(p, finalOnly) ==
  LET l == log[LineOf(p)]
  IN  CASE p = l.at     -> IF finalOnly => l.final THEN l.ts ELSE 0
        [] p = l.at + 1 -> l.inner
        [] OTHER        -> 0

\* (fault: the scan for the last record also takes the parts of a record)
Scan_Parts(p, finalOnly) ==
  LET hits == {q \in {p} \cup {log[i].at : i \in 1..Len(log)} :
                 p <= q /\ q <= right /\ q < OldSize /\ Parse(q, FALSE) # 0}
  IN  IF hits = {} THEN None ELSE Min(hits)

\* (fault: the scan goes on to the end of the file)
Scan_Unbounded(p, finalOnly) ==
  LET hits == {q \in {p} \cup {log[i].at : i \in 1..Len(log)} :
                 p <= q /\ q < OldSize /\ Parse(q, finalOnly) # 0}
  IN  IF hits = {} THEN None ELSE Min(hits)

\* scan_timestamp: where the first timestamp at p or at a line behind it is, up to
\* right, or None.
Scan(p, finalOnly) ==
  LET hits == {q \in {p} \cup {log[i].at : i \in 1..Len(log)} :
                 p <= q /\ q <= right /\ q < OldSize /\ Parse(q, finalOnly) # 0}
  IN  IF hits = {} THEN None ELSE Min(hits)

\* The message of a line, without its newline, as far as it is before n.
TextEnd(p, n) == Min({LineEnd(p) - 1, n})

Init ==
  /\ \E c \in Cases : log = c.log /\ size = c.size /\ req = c.req
  /\ rot = None /\ torn = Partial(size)
  /\ pc = "open" /\ maxOffset = 0
  /\ left = 0 /\ right = -1 /\ found = <<>>
  /\ startPos = 0 /\ endPos = None
  /\ rpos = 0 /\ bufEnd = 0 /\ part = <<0, 0>>
  /\ gap = <<>> /\ watch = "none" /\ reopened = FALSE
  /\ event = FALSE /\ out = <<>> /\ status = "ok"
  /\ cancelled = FALSE /\ gone = FALSE /\ broken = FALSE

-----------------------------------------------------------------------------
(* The container runtime, the client and the agent's shutdown.             *)

service == <<pc, maxOffset, search, range, reader, follow, out, status, broken>>

\* Something is written: up to the end of a line, or a part of one.
Write ==
  \E n \in size + 1 .. Total :
    /\ Cardinality({i \in 1..Len(log) : size < End(i) /\ log[i].at < n}) = 1
    /\ size' = n
    /\ torn' = torn \cup Partial(n)
    /\ event' = (event \/ watch = IF rot = None THEN "old" ELSE "new")
    /\ UNCHANGED <<given, rot, service, cancelled, gone>>

\* The runtime renames the file and goes on in a new one.
Rotate ==
  /\ rot = None /\ pc # "open" /\ Partial(size) = {}
  /\ rot' = size
  /\ event' = (event \/ watch = "old")
  /\ UNCHANGED <<given, size, torn, service, cancelled, gone>>

Leave ==
  /\ ~gone /\ gone' = TRUE
  /\ UNCHANGED <<given, disk, service, event, cancelled>>

Shutdown ==
  /\ ~cancelled /\ cancelled' = TRUE
  /\ UNCHANGED <<given, disk, service, event, gone>>

-----------------------------------------------------------------------------
(* The task of the request: the search.                                    *)

outside == <<given, disk, gone>>

Ended(s) == pc' = "ended" /\ status' = s

\* A follower from the end looks at no times.
Start == IF ~req.backward /\ req.follow = "end" THEN 0 ELSE req.start
Stop  == IF ~req.backward /\ req.follow = "end" THEN 0 ELSE req.stop

\* find_nearest_offset begins with the whole range.
Begin(mode, low, n) ==
  /\ pc' = mode /\ left' = low /\ right' = n - 1 /\ found' = <<>>

\* The read begins: at the start, or at the end of the range and backward.
ReadRange(from, to) ==
  /\ startPos' = from /\ endPos' = to
  /\ IF req.backward
       THEN pc' = "back" /\ rpos' = to /\ bufEnd' = to /\ part' = <<0, 0>>
       ELSE pc' = "read" /\ rpos' = from /\ UNCHANGED <<bufEnd, part>>

\* The file is opened; its length now bounds the search.
Open ==
  /\ pc = "open" /\ maxOffset' = OldSize
  /\ \/ /\ Start # 0 /\ Begin("since", 0, OldSize)
        /\ UNCHANGED <<range, reader>>
     \/ /\ Start = 0 /\ Stop # 0 /\ Begin("until", 0, OldSize)
        /\ UNCHANGED <<range, reader>>
     \/ /\ Start = 0 /\ Stop = 0
        /\ ReadRange(IF ~req.backward /\ req.follow = "end" THEN OldSize ELSE 0,
                     IF req.backward THEN OldSize ELSE None)
        /\ UNCHANGED search
  /\ UNCHANGED <<outside, follow, event, out, status, cancelled, broken>>

probeOthers == <<outside, pc, maxOffset, range, reader, follow, event, out, status,
                 cancelled, broken>>

\* One round of find_nearest_offset: the first timestamp from the middle on
\* decides in which half it goes on, and is the result if it qualifies.
Probe(mode) ==
  /\ pc = mode /\ left <= right
  /\ LET mid == (left + right) \div 2
         at  == Scan(mid, mode = "until")
         ts  == Parse(at, mode = "until")
         ok  == IF mode = "since" THEN ts >= req.start ELSE ts <= req.stop
     IN  IF at = None
           THEN right' = mid - 1 /\ UNCHANGED <<left, found>>
           ELSE /\ found' = IF ok THEN <<at, TextEnd(at, OldSize) - at>> ELSE found
                /\ IF ok = (mode = "since")
                     THEN right' = at - 1 /\ UNCHANGED left
                     ELSE left' = at + 1 /\ UNCHANGED right
  /\ UNCHANGED probeOthers

\* The search for the start ends: nothing to read, or the end is next.
SinceFound ==
  /\ pc = "since" /\ left > right
  /\ IF found = <<>>
       THEN Ended("ok") /\ UNCHANGED <<search, range, reader>>
     ELSE IF Stop # 0
       THEN /\ Begin("until", IF req.backward THEN 0 ELSE found[1], maxOffset)
            /\ startPos' = found[1]
            /\ UNCHANGED <<endPos, reader, status>>
       ELSE /\ ReadRange(found[1], IF req.backward THEN maxOffset ELSE None)
            /\ UNCHANGED <<search, status>>
  /\ UNCHANGED <<outside, maxOffset, follow, event, out, cancelled, broken>>

\* The search for the end ends.
UntilFound ==
  /\ pc = "until" /\ left > right
  /\ IF found = <<>>
       THEN Ended("ok") /\ UNCHANGED <<range, reader>>
       ELSE ReadRange(startPos, found[1] + found[2]) /\ UNCHANGED status
  /\ UNCHANGED <<outside, maxOffset, search, follow, event, out, cancelled, broken>>

\* The file cannot be opened, read or watched.  The search also fails where its
\* middle is inside of a character of more than one byte: read_line wants UTF-8.
Fail ==
  /\ pc \in {"open", "since", "until", "watch", "seek", "listen", "lines"}
  /\ Ended("failed")
  /\ UNCHANGED <<outside, maxOffset, search, range, reader, follow, event, out,
                 cancelled, broken>>

-----------------------------------------------------------------------------
(* Sending.  What begins with a timestamp becomes a record; a client that  *)
(* is gone cancels the request.  Other text is left out, or ends the task  *)
(* by a panic: that depends on its words.                                  *)

Send(p, q, next) ==
  IF Parse(p, FALSE) # 0
    THEN /\ pc' = next
         /\ IF gone THEN cancelled' = TRUE /\ UNCHANGED out
                    ELSE out' = Append(out, <<p, q>>) /\ UNCHANGED cancelled
    ELSE /\ pc' \in IF p < q THEN {next, "panicked"} ELSE {next}
         /\ UNCHANGED <<out, cancelled>>

-----------------------------------------------------------------------------
(* The read forward.                                                       *)

Limit == IF endPos = None THEN OldSize ELSE Min({OldSize, endPos})

readOthers == <<outside, maxOffset, search, range, bufEnd, part, follow, event, status>>

\* A whole line.
ReadLine ==
  /\ pc = "read" /\ rpos < Limit /\ LineEnd(rpos) <= Limit
  /\ Send(rpos, LineEnd(rpos) - 1, "read")
  /\ rpos' = LineEnd(rpos)
  /\ UNCHANGED <<readOthers, broken>>

\* A read returns 0: what is left is taken for a line.
ReadEnd ==
  /\ pc = "read" /\ (rpos < Limit => LineEnd(rpos) > Limit)
  /\ IF rpos < Limit THEN Send(rpos, TextEnd(rpos, Limit), "searched")
                     ELSE pc' = "searched" /\ UNCHANGED <<out, cancelled>>
  /\ rpos' = Max({rpos, Limit})
  /\ UNCHANGED <<readOthers, broken>>

\* A failing read ends the search without a word.
ReadFail ==
  /\ pc = "read" /\ pc' = "searched" /\ broken' = TRUE
  /\ UNCHANGED <<readOthers, out, cancelled, rpos>>

\* TermReader looks at the context before it reads a chunk; what the last one held
\* of a line is taken for a line.
ReadStop ==
  /\ pc = "read" /\ cancelled
  /\ \/ pc' = "searched" /\ UNCHANGED <<out, rpos, cancelled>>
     \/ /\ rpos < Limit
        /\ \E q \in rpos + 1 .. TextEnd(rpos, Limit) :
             Send(rpos, q, "searched") /\ rpos' = q
  /\ UNCHANGED <<readOthers, broken>>

stayOthers == <<outside, maxOffset, search, range, bufEnd, part, out, cancelled, broken>>

\* After the search the task ends, or goes on to watch the file.
Searched ==
  /\ pc = "searched"
  /\ IF cancelled \/ endPos # None \/ req.follow = "noop"
       THEN Ended("ok")
       ELSE pc' = "watch" /\ UNCHANGED status
  /\ UNCHANGED <<stayOthers, rpos, follow, event>>

-----------------------------------------------------------------------------
(* The read backward, in chunks.                                           *)

Newlines == {p \in rpos .. bufEnd - 1 : p = LineEnd(p) - 1}

HasPart == part[1] < part[2]

backOthers == <<outside, maxOffset, search, range, follow, event, status, broken>>

TailEnd == IF HasPart THEN part[2] ELSE bufEnd

\* (fault: what was kept is forgotten when a newline ends the chunk)
BackLine_Forget ==
  /\ pc = "back" /\ rpos < bufEnd /\ Newlines # {}
  /\ LET n == Max(Newlines)
     IN  /\ bufEnd' = n
         /\ IF n + 1 = bufEnd THEN UNCHANGED <<pc, out, cancelled>>
                              ELSE Send(n + 1, TailEnd, "back")
  /\ part' = <<0, 0>>
  /\ UNCHANGED <<backOthers, rpos>>

\* What is behind the last newline of the chunk, with the part that is kept, is a
\* line.
BackLine ==
  /\ pc = "back" /\ rpos < bufEnd /\ Newlines # {}
  /\ LET n == Max(Newlines)
     IN  /\ bufEnd' = n
         /\ IF n + 1 = TailEnd THEN UNCHANGED <<pc, out, cancelled>>
                              ELSE Send(n + 1, TailEnd, "back")
  /\ part' = <<0, 0>>
  /\ UNCHANGED <<backOthers, rpos>>

\* No newline in the rest of the chunk: it is kept.
BackKeep ==
  /\ pc = "back" /\ rpos < bufEnd /\ Newlines = {}
  /\ part' = <<rpos, TailEnd>>
  /\ bufEnd' = rpos
  /\ UNCHANGED <<backOthers, pc, out, cancelled, rpos>>

\* The next chunk.
BackFill ==
  /\ pc = "back" /\ rpos = bufEnd /\ rpos > startPos
  /\ rpos' = Max({startPos, rpos - Chunk})
  /\ UNCHANGED <<backOthers, pc, out, cancelled, bufEnd, part>>

\* The beginning: what is kept is the last line.
BackEnd ==
  /\ pc = "back" /\ rpos = bufEnd /\ rpos <= startPos
  /\ IF HasPart THEN Send(part[1], part[2], "ended")
                ELSE pc' = "ended" /\ UNCHANGED <<out, cancelled>>
  /\ part' = <<0, 0>>
  /\ UNCHANGED <<backOthers, rpos, bufEnd>>

\* A read fails, or the context is done: the request ends without a word.  In the
\* second case a part of the line to come may still be sent.
BackFail ==
  /\ pc = "back" /\ pc' = "ended" /\ broken' = TRUE
  /\ UNCHANGED <<outside, maxOffset, search, range, reader, follow, event, status, out,
                 cancelled>>

BackStop ==
  /\ pc = "back" /\ cancelled
  /\ \/ pc' = "ended" /\ UNCHANGED <<out, cancelled>>
     \/ /\ rpos < bufEnd /\ Newlines # {}
        /\ \E q \in Max(Newlines) + 2 .. TailEnd : Send(Max(Newlines) + 1, q, "ended")
     \/ /\ rpos = bufEnd /\ rpos <= startPos
        /\ \E q \in part[1] + 1 .. part[2] : Send(part[1], q, "ended")
  /\ UNCHANGED <<backOthers, reader>>

-----------------------------------------------------------------------------
(* The follower.                                                           *)

\* The file of that name is watched from now on.
Watch ==
  /\ pc = "watch" /\ pc' = "seek"
  /\ watch' = IF rot = None THEN "old" ELSE "new"
  /\ UNCHANGED <<stayOthers, rpos, gap, reopened, event, status>>

\* (fault: the follower begins where the file ended when the request came)
Seek_Stale ==
  /\ pc = "seek" /\ pc' = "listen"
  /\ rpos' = maxOffset /\ gap' = <<rpos, size>> /\ reopened' = (rot # None)
  /\ UNCHANGED <<stayOthers, watch, event, status>>

\* The file of that name is opened again, at its end.
Seek ==
  /\ pc = "seek" /\ pc' = "listen"
  /\ rpos' = size /\ gap' = <<rpos, size>> /\ reopened' = (rot # None)
  /\ UNCHANGED <<stayOthers, watch, event, status>>

\* A change was reported: the lines loop begins.
Notified ==
  /\ pc = "listen" /\ event
  /\ pc' = "lines" /\ event' = FALSE
  /\ UNCHANGED <<stayOthers, rpos, follow, status>>

lineOthers == <<outside, maxOffset, search, range, bufEnd, part, follow, event, status,
                broken>>

\* (fault: the reader is past of a line that is there in part)
NextLine_PastEnd ==
  /\ pc = "lines" /\ rpos < NewSize /\ ~cancelled
  /\ Send(rpos, TextEnd(rpos, NewSize), "lines")
  /\ rpos' = LineEnd(rpos)
  /\ UNCHANGED lineOthers

\* (fault: a line for every change that is reported)
NextLine_One ==
  /\ pc = "lines" /\ rpos < NewSize /\ ~cancelled
  /\ Send(rpos, TextEnd(rpos, NewSize), "listen")
  /\ rpos' = Min({LineEnd(rpos), NewSize})
  /\ UNCHANGED lineOthers

\* lines() hands out a line, or what is there of it.
NextLine ==
  /\ pc = "lines" /\ rpos < NewSize /\ ~cancelled
  /\ Send(rpos, TextEnd(rpos, NewSize), "lines")
  /\ rpos' = Min({LineEnd(rpos), NewSize})
  /\ UNCHANGED lineOthers

\* The context is looked at when a line was read; no status is sent.
LinesStop ==
  /\ pc = "lines" /\ rpos < NewSize /\ cancelled
  /\ pc' = "ended" /\ rpos' = Min({LineEnd(rpos), NewSize})
  /\ UNCHANGED <<lineOthers, out, cancelled>>

NoMoreLines ==
  /\ pc = "lines" /\ rpos >= NewSize
  /\ pc' = "listen"
  /\ UNCHANGED <<lineOthers, out, cancelled, rpos>>

\* The agent shuts down, or the client was found gone.
ListenStop ==
  /\ pc = "listen" /\ cancelled /\ Ended("unavailable")
  /\ UNCHANGED <<stayOthers, rpos, follow, event>>

-----------------------------------------------------------------------------

Task == \/ Open \/ Probe("since") \/ Probe("until") \/ SinceFound \/ UntilFound
        \/ ReadLine \/ ReadEnd \/ Searched
        \/ BackLine \/ BackKeep \/ BackFill \/ BackEnd
        \/ Watch \/ Seek \/ Notified \/ NextLine \/ LinesStop \/ NoMoreLines \/ ListenStop

Next == \/ Write \/ Rotate \/ Leave \/ Shutdown
        \/ Task \/ Fail \/ ReadFail \/ ReadStop \/ BackFail \/ BackStop

\* The task goes on: the client receives, or its leaving is noticed.
Spec == Init /\ [][Next]_vars /\ WF_vars(Task)

-----------------------------------------------------------------------------
(* Properties.                                                             *)

Over == pc \in {"ended", "panicked"}

Lines == 1..Len(log)

TypeOK ==
  /\ pc \in {"open", "since", "until", "read", "searched", "back", "watch", "seek",
             "listen", "lines", "ended", "panicked"}
  /\ size \in 0..Total /\ rot \in {None} \cup 0..size /\ torn \subseteq Lines
  /\ maxOffset \in 0..size /\ left \in 0..size /\ right \in -1..size - 1
  /\ found # <<>> => found[1] >= 0 /\ found[2] > 0 /\ found[1] + found[2] <= size
  /\ startPos \in 0..size /\ endPos \in {None} \cup 0..size
  /\ rpos \in 0..size /\ bufEnd \in 0..size /\ part \in (0..size) \X (0..size)
  /\ gap # <<>> => gap[1] \in 0..gap[2] /\ gap[2] \in 0..rpos
  /\ watch \in {"none", "old", "new"} /\ status \in {"ok", "failed", "unavailable"}
  /\ reopened => rot # None
  /\ {reopened, event, cancelled, gone, broken} \subseteq BOOLEAN
  /\ \A k \in 1..Len(out) : 0 <= out[k][1] /\ out[k][1] < out[k][2] /\ out[k][2] <= size

\* No message of the log looks like the beginning of a line.
Plain == \A i \in Lines : log[i].inner = 0

\* The lines there were when the file was opened, that a search may find.
Known(low, finalOnly) == {i \in Lines : /\ low <= log[i].at /\ log[i].at < maxOffset
                                        /\ log[i].ts # 0
                                        /\ finalOnly => log[i].final}

\* The search by bytes finds, whatever is written meanwhile, the first line that
\* is not before the start, and the last final line that is not after the stop.
SearchExact ==
  (Plain /\ left > right) =>
    LET low  == IF req.backward THEN 0 ELSE startPos
        hits == IF pc = "since"
                  THEN {i \in Known(0, FALSE) : log[i].ts >= req.start}
                  ELSE {i \in Known(low, TRUE) : log[i].ts <= req.stop}
        hit  == IF pc = "since" THEN Min(hits) ELSE Max(hits)
    IN  pc \in {"since", "until"} =>
          IF hits = {} THEN found = <<>>
          ELSE /\ found # <<>> /\ found[1] = log[hit].at
               /\ found[1] + found[2] = End(hit) - 1 \/ hit \in torn

\* The lines the request asks for, of those that begin before n.
Wanted(n) ==
  {i \in Lines :
     /\ log[i].at < n /\ log[i].ts # 0
     /\ Start # 0 => log[i].ts >= Start
     /\ Stop # 0 => \E j \in Known(0, TRUE) : i <= j /\ log[j].ts <= Stop}

LineSent(k) == LineOf(out[k][1])

\* Record k is made of a line as it was written.
Whole(k) == /\ out[k][1] = log[LineSent(k)].at
            /\ out[k][2] = End(LineSent(k)) - 1 \/ LineSent(k) \in torn

\* A request that ends without an error has sent the lines that were asked for,
\* whole, once and in order, and those written meanwhile up to some moment; unless
\* it was cancelled, a read failed, or the text of a line ended it.
WindowSent ==
  (pc = "ended" /\ status = "ok" /\ Plain /\ ~cancelled /\ ~broken) =>
    /\ \A j, k \in 1..Len(out) :
         j < k => IF req.backward THEN LineSent(j) > LineSent(k) ELSE LineSent(j) < LineSent(k)
    /\ \A k \in 1..Len(out) : Whole(k)
    /\ \E n \in maxOffset..OldSize : {LineSent(k) : k \in 1..Len(out)} = Wanted(n)

\* A line lies in the time between the end of the search and the begin of the watch.
InGap(i) == log[i].at < gap[2] /\ gap[1] < End(i)

\* Nothing else is lost and nothing comes twice when the read of a log turns into
\* a watch of it: what the reader is past of was sent, in order.
FollowExact ==
  (pc \in {"listen", "lines"} /\ Plain /\ ~cancelled /\ ~broken) =>
    /\ \A j, k \in 1..Len(out) : j < k => LineSent(j) < LineSent(k)
    /\ \A i \in Lines \ torn :
         (log[i].ts # 0 /\ startPos <= log[i].at /\ End(i) <= rpos) =>
           InGap(i) \/ \E k \in 1..Len(out) : LineSent(k) = i /\ Whole(k)

\* The follower reads the file it watches, and is behind.
Behind == /\ pc \in {"listen", "lines"} /\ rpos < NewSize
          /\ watch = IF reopened THEN "new" ELSE "old"

\* A change that comes while the lines are read, or just after, is not missed: a
\* follower that is behind reads on.
CatchesUp == Behind ~> ~Behind

\* A request that does not follow ends, and one that was cancelled does, wherever it
\* is: the search of the offsets too comes to an end.
Ends == (cancelled \/ req.backward \/ req.follow = "noop" \/ Stop # 0) ~> Over
=============================================================================
