---------------------------- MODULE LogFileProofs ----------------------------
(***************************************************************************)
(* Theorems about LogFile, for any logs, requests and size of a chunk.     *)
(***************************************************************************)
EXTENDS LogFile, WellFoundedInduction, TLAPS

-----------------------------------------------------------------------------
(* What is inductive.                                                      *)

\* The log is one of the cases, and the parts that could be read were seen.
FileInv ==
  /\ \E c \in Cases : log = c.log /\ req = c.req
  /\ Partial(size) \subseteq torn /\ Partial(OldSize) \subseteq torn
  /\ Partial(maxOffset) \subseteq torn

\* The bounds lie in the file as it was opened.
Limits ==
  /\ maxOffset <= OldSize /\ left <= maxOffset /\ right < maxOffset
  /\ startPos <= maxOffset /\ (endPos # None => endPos <= OldSize)
  /\ found # <<>> => found[1] < maxOffset /\ found[1] + found[2] <= OldSize

Shapes ==
  /\ found \in {<<>>} \cup (Nat \X Nat) /\ gap \in {<<>>} \cup (Nat \X Nat)
  /\ gap # <<>> => pc \in {"listen", "lines", "ended", "panicked"}
  /\ out \in Seq(Nat \X Nat)

\* What the reverse reader keeps is next to what is left of its chunk.
KeptPart ==
  pc = "back" => /\ req.backward /\ endPos # None /\ rpos <= bufEnd
                 /\ HasPart => part[1] = bufEnd

Bounds == Limits /\ Shapes /\ KeptPart

TypeInv == FileInv /\ TypeOK /\ Bounds

\* The result of the search is line i.
IsFound(i) == /\ found[1] = log[i].at /\ found[1] + found[2] < End(i)
              /\ found[1] + found[2] = End(i) - 1 \/ i \in torn

\* The search for the start: lines before its bounds are before the start, and no
\* line behind them is before the result.
SinceInv ==
  (Plain /\ pc = "since") =>
    /\ Start # 0
    /\ \A i \in Known(0, FALSE) :
         /\ log[i].at < left => log[i].ts < req.start
         /\ right < log[i].at => found # <<>> /\ found[1] <= log[i].at
    /\ found # <<>> => \E i \in Known(0, FALSE) : log[i].ts >= req.start /\ IsFound(i)

\* The search for the end, the other way round.
Low == IF req.backward THEN 0 ELSE startPos

UntilInv ==
  (Plain /\ pc = "until") =>
    /\ Stop # 0 /\ Low <= left
    /\ \A i \in Known(Low, TRUE) :
         /\ right < log[i].at => log[i].ts > req.stop
         /\ log[i].at < left => found # <<>> /\ log[i].at <= found[1]
    /\ found # <<>> => \E i \in Known(Low, TRUE) : log[i].ts <= req.stop /\ IsFound(i)

SearchInv == (pc \in {"open", "since"} => startPos = 0) /\ SinceInv /\ UntilInv

\* The request wants what is written from its start on.
ByTime == req.backward \/ req.follow # "end"

\* The start was found: the lines from there on are those not before it.
FromStart ==
  /\ startPos = 0 \/ \E i \in Lines : startPos = log[i].at
  /\ \A i \in Lines : log[i].ts # 0 => (startPos <= log[i].at <=> log[i].ts >= Start)

\* The end was found: up to there are the lines that are not after it, or before one
\* that is not.
UpToStop ==
  /\ Stop = 0 => endPos = IF req.backward THEN maxOffset ELSE None
  /\ Stop # 0 => endPos # None
  /\ endPos # None => \A i \in Lines :
       /\ (log[i].at < endPos /\ endPos < End(i)) => endPos = End(i) - 1 \/ i \in torn
       /\ (Stop # 0 /\ log[i].ts # 0 /\ startPos <= log[i].at) =>
            (log[i].at < endPos <=> \E j \in Known(0, TRUE) : i <= j /\ log[j].ts <= Stop)

RangeInv ==
  Plain =>
    /\ (ByTime /\ pc \in {"until", "read", "searched", "back", "watch", "seek", "listen", "lines"})
         => FromStart
    /\ pc \in {"read", "searched", "back"} => UpToStop

\* Nothing went wrong so far.
Fine == Plain /\ ~cancelled /\ ~broken

\* Record k is line i.
IsLine(k, i) == /\ out[k][1] = log[i].at
                /\ out[k][2] = End(i) - 1 \/ i \in torn

EachALine == \A k \in 1..Len(out) : \E i \in Lines : IsLine(k, i)

IsSent(i) == \E k \in 1..Len(out) : out[k][1] = log[i].at

Ascending  == \A j, k \in 1..Len(out) : j < k => out[j][1] < out[k][1]
Descending == \A j, k \in 1..Len(out) : j < k => out[j][1] > out[k][1]

\* The read forward has sent the lines it is past of.
ReadInv ==
  (Fine /\ pc \in {"read", "searched", "watch", "seek"}) =>
    /\ ~req.backward /\ EachALine /\ Ascending
    /\ \A i \in Lines : IsSent(i) <=> (log[i].ts # 0 /\ startPos <= log[i].at /\ log[i].at < rpos)
    /\ endPos = None => \A i \in Lines : (log[i].at < rpos /\ rpos < End(i)) => i \in torn
    /\ pc = "read" => startPos <= rpos /\ rpos <= Limit
    /\ pc \in {"watch", "seek"} => endPos = None
    /\ pc = "searched" => IF endPos = None THEN maxOffset <= rpos /\ rpos <= OldSize
                                           ELSE rpos = endPos

\* The read backward has sent the lines behind the newline where it is, and what it
\* holds has no newline.
BackInv ==
  (Fine /\ pc = "back") =>
    /\ EachALine /\ Descending
    /\ \A i \in Lines : IsSent(i) <=> (log[i].ts # 0 /\ TailEnd < log[i].at /\ log[i].at < endPos)
    /\ TailEnd = endPos \/ \E i \in Lines : TailEnd = End(i) - 1 /\ TailEnd < endPos
    /\ \A i \in Lines : ~(bufEnd <= End(i) - 1 /\ End(i) - 1 < TailEnd)
    /\ startPos <= rpos \/ (rpos = endPos /\ bufEnd = endPos /\ ~HasPart)

\* The follower has sent the lines it is past of, but for those in the gap.
FollowInv ==
  (Fine /\ pc \in {"listen", "lines"}) =>
    /\ EachALine /\ Ascending /\ gap # <<>>
    /\ \A i \in Lines : IsSent(i) => log[i].at < rpos
    /\ \A i \in Lines \ torn :
         (log[i].ts # 0 /\ startPos <= log[i].at /\ End(i) <= rpos) => InGap(i) \/ IsSent(i)
    /\ \A i \in Lines : (log[i].at < rpos /\ rpos < End(i)) => i \in torn

NothingSent == pc \in {"open", "since", "until"} => out = <<>>

\* A request that ended well.
EndInv ==
  (Fine /\ pc = "ended" /\ status = "ok") =>
    /\ EachALine
    /\ IF req.backward THEN Descending ELSE Ascending
    /\ \E n \in maxOffset..OldSize : \A i \in Lines : IsSent(i) <=> i \in Wanted(n)

SentInv == ReadInv /\ BackInv /\ FollowInv /\ NothingSent /\ EndInv

IInv == TypeInv /\ SearchInv /\ RangeInv /\ SentInv

-----------------------------------------------------------------------------
(* The least and the greatest of some numbers.                             *)

LEMMA Least ==
  ASSUME NEW S, S \subseteq Nat, S # {}
  PROVE  Min(S) \in S /\ \A y \in S : Min(S) <= y
<1> DEFINE R == OpToRel(<, Nat)
<1>1. IsWellFoundedOn(R, Nat)
  BY NatLessThanWellFounded
<1> HIDE DEF R
<1>2. PICK x \in S : \A y \in S : ~ (<<y, x>> \in R)
  BY <1>1, WFMin
<1>3. \A y \in S : ~(y < x)
  BY <1>2 DEF R, OpToRel
<1>4. \A y \in S : x <= y
  BY <1>3
<1> QED
  BY <1>4 DEF Min

LEMMA Greatest ==
  ASSUME NEW n \in Nat, NEW S, S \subseteq 0..n, S # {}
  PROVE  Max(S) \in S /\ \A y \in S : y <= Max(S)
<1> DEFINE T == {n - y : y \in S}
<1>1. T \subseteq Nat /\ T # {}
  <2>1. ASSUME NEW y \in S PROVE n - y \in Nat
    <3>1. y \in 0..n
      OBVIOUS
    <3> QED
      BY <3>1
  <2>2. PICK y \in S : TRUE
    OBVIOUS
  <2> QED
    BY <2>1, <2>2, Zenon
<1>2. Min(T) \in T /\ \A y \in T : Min(T) <= y
  BY <1>1, Least
<1>3. PICK x \in S : Min(T) = n - x
  BY <1>2
<1>4. \A y \in S : n - x <= n - y
  BY <1>2, <1>3
<1>5. \A y \in S : y <= x
  BY <1>4
<1> QED
  BY <1>5 DEF Max

LEMMA MinOfTwo ==
  ASSUME NEW a \in Int, NEW b \in Int
  PROVE  Min({a, b}) = IF a <= b THEN a ELSE b
BY DEF Min

LEMMA MaxOfTwo ==
  ASSUME NEW a \in Int, NEW b \in Int
  PROVE  Max({a, b}) = IF a >= b THEN a ELSE b
BY DEF Max

-----------------------------------------------------------------------------
(* Lines.                                                                  *)

LEMMA LogFacts ==
  ASSUME FileInv
  PROVE  /\ log \in Seq(Line) /\ req \in Request /\ Len(log) \in Nat /\ Total \in Nat
         /\ \A i \in Lines :
              /\ log[i].at \in Nat /\ log[i].len \in Nat /\ log[i].len >= 2
              /\ log[i].ts \in Nat /\ log[i].final \in BOOLEAN /\ log[i].inner \in Nat
              /\ log[i].inner # 0 => log[i].len >= 3
              /\ End(i) \in Nat /\ End(i) = log[i].at + log[i].len /\ log[i].at < End(i)
              /\ log[i].at = IF i = 1 THEN 0 ELSE End(i - 1)
         /\ \A i, j \in Lines :
              (i < j /\ log[i].ts # 0 /\ log[j].ts # 0) => log[i].ts <= log[j].ts
         /\ Total = IF Len(log) = 0 THEN 0 ELSE End(Len(log))
<1>1. PICK c \in Cases : log = c.log /\ req = c.req
  BY DEF FileInv
<1>2. c \in [log : Seq(Line), size : Nat, req : Request]
  BY LogFileAssumption
<1>3. log \in Seq(Line) /\ req \in Request /\ Len(log) \in Nat /\ (log = <<>> <=> Len(log) = 0)
  BY <1>1, <1>2
<1>4. \A i \in Lines : log[i] \in Line
  BY <1>3 DEF Lines
<1>5. \A i \in Lines :
        /\ log[i].at \in Nat /\ log[i].len \in Nat /\ log[i].len >= 2
        /\ log[i].ts \in Nat /\ log[i].final \in BOOLEAN /\ log[i].inner \in Nat
        /\ End(i) \in Nat /\ End(i) = log[i].at + log[i].len
  BY <1>4 DEF Line, End
<1>a. \A i \in Lines : log[i].at < End(i)
  BY <1>5
<1>6. \A i \in Lines : log[i].inner # 0 => log[i].len >= 3
  BY <1>1, LogFileAssumption DEF Lines
<1>7. \A i \in Lines : log[i].at = IF i = 1 THEN 0 ELSE End(i - 1)
  BY <1>1, LogFileAssumption DEF Lines, End
<1>8. \A i, j \in Lines :
        (i < j /\ log[i].ts # 0 /\ log[j].ts # 0) => log[i].ts <= log[j].ts
  BY <1>1, LogFileAssumption DEF Lines
<1>9. Total = IF Len(log) = 0 THEN 0 ELSE End(Len(log))
  BY <1>3 DEF Total
<1>10. Total \in Nat
  BY <1>3, <1>5, <1>9 DEF Lines
<1> QED
  BY <1>3, <1>5, <1>a, <1>6, <1>7, <1>8, <1>9, <1>10

\* Lines follow each other.
LEMMA Apart ==
  ASSUME FileInv, NEW i \in Lines, NEW j \in Lines, i < j
  PROVE  End(i) <= log[j].at
<1> DEFINE Bad == {k \in Lines : i < k /\ End(i) > log[k].at}
<1> SUFFICES ASSUME Bad # {} PROVE FALSE
  <2>1. log[j].at \in Nat /\ End(i) \in Nat
    BY LogFacts
  <2> QED
    BY <2>1
<1>1. /\ Len(log) \in Nat
      /\ \A k \in Lines : /\ log[k].at \in Nat /\ End(k) \in Nat
                          /\ log[k].at = IF k = 1 THEN 0 ELSE End(k - 1)
  BY LogFacts
<1>a. \A k \in Lines : log[k].at < End(k)
  BY LogFacts
<1>2. Bad \subseteq Nat
  BY DEF Lines
<1>3. PICK k \in Bad : \A y \in Bad : k <= y
  BY <1>2, Least
<1>b. k \in Nat /\ i \in Nat /\ 1 <= i /\ i < k /\ k <= Len(log)
  BY <1>3 DEF Lines
<1>4. k - 1 \in Lines /\ k - 1 \notin Bad
  <2>1. k - 1 \in Lines
    BY <1>1, <1>b DEF Lines
  <2>2. ~(k <= k - 1)
    BY <1>b
  <2> QED
    BY <2>1, <2>2, <1>3
<1>5. k - 1 = i \/ End(i) <= log[k - 1].at
  BY <1>1, <1>b, <1>4, SMTT(20)
<1>6. log[k].at = End(k - 1)
  BY <1>1, <1>3, <1>4 DEF Lines
<1> QED
  BY <1>1, <1>a, <1>b, <1>3, <1>4, <1>5, <1>6

\* Every byte is one of a line.
LEMMA LineThere ==
  ASSUME FileInv, NEW p \in Nat, p < Total
  PROVE  \E i \in Lines : log[i].at <= p /\ p < End(i)
<1>1. /\ Len(log) \in Nat /\ Total = IF Len(log) = 0 THEN 0 ELSE End(Len(log))
      /\ \A k \in Lines : /\ log[k].at \in Nat /\ End(k) \in Nat
                          /\ log[k].at = IF k = 1 THEN 0 ELSE End(k - 1)
  BY LogFacts
<1> DEFINE S == {k \in Lines : p < End(k)}
<1>2. S \subseteq Nat /\ Len(log) \in S
  BY <1>1 DEF Lines
<1>3. PICK k \in S : \A y \in S : k <= y
  BY <1>2, Least
<1>4. CASE k = 1
  BY <1>1, <1>3, <1>4
<1>5. CASE k # 1
  <2>1. k - 1 \in Lines /\ k - 1 \notin S
    BY <1>1, <1>3, <1>5 DEF Lines
  <2> QED
    BY <1>1, <1>3, <1>5, <2>1
<1> QED
  BY <1>4, <1>5

LEMMA SameLine ==
  ASSUME FileInv, NEW i \in Lines, NEW j \in Lines, NEW p \in Int,
         log[i].at <= p, p < End(i), log[j].at <= p, p < End(j)
  PROVE  i = j
<1>1. i \in Nat /\ j \in Nat /\ log[i].at \in Nat /\ log[j].at \in Nat /\ End(i) \in Nat /\ End(j) \in Nat
  BY LogFacts DEF Lines
<1>2. CASE i < j
  BY <1>1, <1>2, Apart
<1>3. CASE j < i
  BY <1>1, <1>3, Apart
<1> QED
  BY <1>1, <1>2, <1>3

LEMMA LineFacts ==
  ASSUME FileInv, NEW p \in Nat, p < Total
  PROVE  /\ LineOf(p) \in Lines /\ log[LineOf(p)].at <= p /\ p < End(LineOf(p))
         /\ LineEnd(p) = End(LineOf(p)) /\ LineEnd(p) \in Nat /\ LineEnd(p) <= Total
<1>1. LineOf(p) \in Lines /\ log[LineOf(p)].at <= p /\ p < End(LineOf(p))
  BY LineThere DEF LineOf, Lines
<1>2. End(LineOf(p)) \in Nat /\ Len(log) \in Nat /\ \A i \in Lines : log[i].at \in Nat /\ End(i) \in Nat /\ log[i].at <= End(i)
  BY <1>1, LogFacts
<1>3. Len(log) \in Lines /\ Total = End(Len(log)) /\ LineOf(p) <= Len(log) /\ LineOf(p) \in Nat
  BY <1>1, <1>2, LogFacts DEF Lines
<1>4. End(LineOf(p)) <= Total
  <2>1. CASE LineOf(p) = Len(log)
    BY <2>1, <1>2, <1>3
  <2>2. CASE LineOf(p) < Len(log)
    BY <2>2, <1>1, <1>2, <1>3, Apart
  <2> QED
    BY <2>1, <2>2, <1>2, <1>3
<1> QED
  BY <1>1, <1>2, <1>4 DEF LineEnd

LEMMA LineIs ==
  ASSUME FileInv, NEW i \in Lines, NEW p \in Int, log[i].at <= p, p < End(i)
  PROVE  LineOf(p) = i /\ LineEnd(p) = End(i) /\ p \in Nat /\ p < Total
<1>1. log[i].at \in Nat /\ End(i) \in Nat
  BY LogFacts
<1>2. LineOf(p) \in Lines /\ log[LineOf(p)].at <= p /\ p < End(LineOf(p))
  BY DEF LineOf, Lines
<1>3. LineOf(p) = i
  BY <1>2, SameLine
<1>4. End(i) <= Total
  <2>1. Len(log) \in Nat /\ i \in Nat /\ i <= Len(log) /\ Len(log) \in Lines /\ Total = End(Len(log))
    BY LogFacts DEF Lines
  <2>2. CASE i = Len(log)
    BY <2>1, <2>2, <1>1
  <2>3. CASE i < Len(log)
    BY <2>1, <2>3, <1>1, Apart, LogFacts
  <2> QED
    BY <2>1, <2>2, <2>3
<1> QED
  BY <1>1, <1>3, <1>4, LogFacts DEF LineEnd

\* What can be parsed is the beginning of a line, or a message like one.
LEMMA ParseFacts ==
  ASSUME FileInv, NEW p \in Nat, p < Total, NEW f \in BOOLEAN, Parse(p, f) # 0
  PROVE  /\ Parse(p, f) \in Nat /\ p + 1 < LineEnd(p)
         /\ Plain => /\ p = log[LineOf(p)].at /\ Parse(p, f) = log[LineOf(p)].ts
                     /\ f => log[LineOf(p)].final
<1> DEFINE i == LineOf(p)
<1>1. i \in Lines /\ log[i].at <= p /\ p < End(i) /\ LineEnd(p) = End(i)
  BY LineFacts
<1>2. /\ log[i].at \in Nat /\ log[i].len \in Nat /\ log[i].len >= 2
      /\ log[i].ts \in Nat /\ log[i].final \in BOOLEAN /\ log[i].inner \in Nat
      /\ log[i].inner # 0 => log[i].len >= 3
      /\ End(i) = log[i].at + log[i].len
  BY <1>1, LogFacts
<1>3. Plain => log[i].inner = 0
  BY <1>1 DEF Plain
<1>4. CASE p = log[i].at
  BY <1>1, <1>2, <1>4 DEF Parse
<1>5. CASE p = log[i].at + 1
  BY <1>1, <1>2, <1>3, <1>5 DEF Parse
<1>6. CASE p # log[i].at /\ p # log[i].at + 1
  BY <1>6 DEF Parse
<1> QED
  BY <1>4, <1>5, <1>6

LEMMA ParseLine ==
  ASSUME FileInv, NEW i \in Lines, NEW f \in BOOLEAN
  PROVE  /\ LineOf(log[i].at) = i /\ LineEnd(log[i].at) = End(i)
         /\ log[i].at \in Nat /\ log[i].at < Total
         /\ Parse(log[i].at, f) = IF f => log[i].final THEN log[i].ts ELSE 0
<1>1. log[i].at \in Nat /\ End(i) \in Nat /\ log[i].at < End(i)
  BY LogFacts
<1>2. /\ LineOf(log[i].at) = i /\ LineEnd(log[i].at) = End(i) /\ log[i].at < Total
  BY <1>1, LineIs
<1> QED
  BY <1>1, <1>2 DEF Parse

-----------------------------------------------------------------------------
(* Type correctness.                                                       *)

LEMMA SizeFacts ==
  ASSUME TypeInv
  PROVE  /\ size \in Nat /\ size <= Total /\ OldSize \in Nat /\ OldSize <= size
         /\ NewSize \in Nat /\ NewSize <= size /\ maxOffset \in Nat
         /\ Chunk \in Nat /\ Chunk # 0
<1>1. Total \in Nat
  BY LogFacts DEF TypeInv
<1> QED
  BY <1>1, LogFileAssumption DEF TypeInv, TypeOK, Bounds, Limits, OldSize, NewSize, None

LEMMA FileInit == ASSUME Init PROVE FileInv
<1>1. PICK c \in Cases : log = c.log /\ size = c.size /\ req = c.req
  BY DEF Init
<1>2. c \in [log : Seq(Line), size : Nat, req : Request]
  BY LogFileAssumption
<1>a. log \in Seq(Line)
  BY <1>1, <1>2
<1>b. \A i \in Lines : log[i] \in Line
  BY <1>a DEF Lines
<1>3. \A i \in Lines : log[i].at \in Nat
  BY <1>b DEF Line
<1>4. Partial(0) = {}
  BY <1>3 DEF Partial, Lines
<1>5. OldSize = size /\ maxOffset = 0 /\ torn = Partial(size)
  BY DEF Init, OldSize
<1> QED
  BY <1>1, <1>4, <1>5 DEF FileInv

LEMMA InitType == ASSUME Init PROVE TypeInv
<1>1. FileInv
  BY FileInit
<1>2. PICK c \in Cases : log = c.log /\ size = c.size /\ req = c.req
  BY DEF Init
<1>3. size \in Nat /\ size <= Total
  BY <1>2, LogFileAssumption DEF Total, End
<1>4. torn \subseteq Lines
  BY DEF Init, Partial, Lines
<1>5. out = <<>> /\ out \in Seq(Nat \X Nat) /\ Len(out) = 0
  BY DEF Init
<1>6. TypeOK
  <2>1. Total \in Nat
    BY <1>1, LogFacts
  <2>2. part \in (0..size) \X (0..size) /\ size \in 0..Total
    BY <1>3, <2>1 DEF Init
  <2>3. \A k \in 1..Len(out) : 0 <= out[k][1] /\ out[k][1] < out[k][2] /\ out[k][2] <= size
    BY <1>5
  <2>4. /\ maxOffset \in 0..size /\ left \in 0..size /\ right \in -1..size - 1
        /\ startPos \in 0..size /\ endPos \in {None} \cup 0..size
        /\ rpos \in 0..size /\ bufEnd \in 0..size /\ rot \in {None} \cup 0..size
    BY <1>3 DEF Init
  <2>5. {reopened, event, cancelled, gone, broken} \subseteq BOOLEAN
    BY DEF Init
  <2>6. found = <<>> /\ gap = <<>> /\ ~reopened
    BY DEF Init
  <2>7. /\ pc \in {"open", "since", "until", "read", "searched", "back", "watch", "seek",
                  "listen", "lines", "ended", "panicked"}
        /\ watch \in {"none", "old", "new"} /\ status \in {"ok", "failed", "unavailable"}
    BY DEF Init
  <2> QED
    BY <1>4, <2>2, <2>3, <2>4, <2>5, <2>6, <2>7 DEF TypeOK
<1>7. Bounds
  BY <1>3, <1>5 DEF Init, Bounds, Limits, Shapes, KeptPart, OldSize, None
<1> QED
  BY <1>1, <1>6, <1>7 DEF TypeInv

\* The log and the request stay.
LEMMA Fixed == ASSUME [Next]_vars PROVE log' = log /\ req' = req
BY DEF Next, vars, given, Write, Rotate, Leave, Shutdown, Task, Fail, ReadFail, ReadStop, BackFail,
       BackStop, Open, Probe, probeOthers, outside, SinceFound, UntilFound, ReadLine, readOthers,
       ReadEnd, Searched, stayOthers, BackLine, backOthers, BackKeep, BackFill, BackEnd, Watch,
       Seek, Notified, NextLine, lineOthers, LinesStop, NoMoreLines, ListenStop

\* Only the container runtime changes the files, and maxOffset is set once.
LEMMA DiskStays ==
  ASSUME Task \/ Fail \/ ReadFail \/ ReadStop \/ BackFail \/ BackStop \/ Leave \/ Shutdown
  PROVE  UNCHANGED <<size, rot, torn>>
BY DEF disk, Leave, Shutdown, Task, Fail, ReadFail, ReadStop, BackFail,
       BackStop, Open, Probe, probeOthers, outside, SinceFound, UntilFound, ReadLine, readOthers,
       ReadEnd, Searched, stayOthers, BackLine, backOthers, BackKeep, BackFill, BackEnd, Watch,
       Seek, Notified, NextLine, lineOthers, LinesStop, NoMoreLines, ListenStop

LEMMA MaxStays == ASSUME [Next]_vars, ~Open PROVE maxOffset' = maxOffset
BY DEF Next, vars, service, Write, Rotate, Leave, Shutdown, Task, Fail, ReadFail, ReadStop, BackFail,
       BackStop, Probe, probeOthers, outside, SinceFound, UntilFound, ReadLine, readOthers,
       ReadEnd, Searched, stayOthers, BackLine, backOthers, BackKeep, BackFill, BackEnd, Watch,
       Seek, Notified, NextLine, lineOthers, LinesStop, NoMoreLines, ListenStop

LEMMA NextCases ==
  ASSUME [Next]_vars
  PROVE  \/ Write \/ Rotate \/ UNCHANGED vars
         \/ Task \/ Fail \/ ReadFail \/ ReadStop \/ BackFail \/ BackStop \/ Leave \/ Shutdown
BY DEF Next

\* Files grow, and what was seen torn stays so.
LEMMA DiskStep ==
  ASSUME TypeInv, [Next]_vars
  PROVE  /\ size' \in Nat /\ size <= size' /\ size' <= Total /\ torn \subseteq torn'
         /\ OldSize' \in Nat /\ OldSize <= OldSize' /\ OldSize' <= size'
         /\ torn' \subseteq Lines
         /\ Partial(size') \subseteq torn' /\ Partial(OldSize') \subseteq torn'
         /\ rot' \in {None} \cup 0..size' /\ (rot # None => rot' = rot)
<1>1. /\ size \in Nat /\ size <= Total /\ Total \in Nat /\ rot \in {None} \cup 0..size
      /\ OldSize \in Nat /\ OldSize <= size /\ torn \subseteq Lines
      /\ Partial(size) \subseteq torn /\ Partial(OldSize) \subseteq torn
  BY SizeFacts, LogFacts DEF TypeInv, TypeOK, FileInv
<1>2. CASE Write
  <2>1. PICK n \in size + 1 .. Total : size' = n /\ torn' = torn \cup Partial(n) /\ rot' = rot
    BY <1>2 DEF Write
  <2>2. Partial(n) \subseteq Lines
    BY DEF Partial, Lines
  <2>3. OldSize' = IF rot = None THEN n ELSE OldSize
    BY <2>1 DEF OldSize
  <2> QED
    BY <1>1, <2>1, <2>2, <2>3 DEF None, OldSize
<1>3. CASE Rotate
  <2>1. rot = None /\ rot' = size /\ size' = size /\ torn' = torn
    BY <1>3 DEF Rotate
  <2>2. OldSize' = size /\ OldSize = size
    BY <1>1, <2>1 DEF OldSize, None
  <2> QED
    BY <1>1, <2>1, <2>2
<1>4. CASE UNCHANGED <<size, rot, torn>>
  BY <1>1, <1>4 DEF OldSize
<1>5. CASE UNCHANGED vars
  BY <1>4, <1>5 DEF vars, disk
<1> QED
  BY <1>2, <1>3, <1>4, <1>5, NextCases, DiskStays

LEMMA FileStep ==
  ASSUME TypeInv, [Next]_vars
  PROVE  FileInv'
<1>1. log' = log /\ req' = req
  BY Fixed
<1>2. \A n : Partial(n)' = Partial(n)
  BY <1>1 DEF Partial, End
<1>3. Partial(size)' = Partial(size') /\ Partial(OldSize)' = Partial(OldSize')
      /\ Partial(maxOffset)' = Partial(maxOffset')
  BY <1>1 DEF Partial, End
<1>4. Partial(maxOffset') \subseteq torn'
  <2>1. CASE Open
    BY <2>1, DiskStep DEF Open, TypeInv, FileInv
  <2>2. CASE ~Open
    BY <2>2, MaxStays, DiskStep DEF TypeInv, FileInv
  <2> QED
    BY <2>1, <2>2
<1> QED
  BY <1>1, <1>3, <1>4, DiskStep DEF FileInv, TypeInv

\* The parts of TypeOK.
Kinds ==
  /\ pc \in {"open", "since", "until", "read", "searched", "back", "watch", "seek",
             "listen", "lines", "ended", "panicked"}
  /\ watch \in {"none", "old", "new"} /\ status \in {"ok", "failed", "unavailable"}
  /\ reopened => rot # None
  /\ {reopened, event, cancelled, gone, broken} \subseteq BOOLEAN

DiskOK == size \in 0..Total /\ rot \in {None} \cup 0..size /\ torn \subseteq Lines

Numbers ==
  /\ maxOffset \in 0..size /\ left \in 0..size /\ right \in -1..size - 1
  /\ startPos \in 0..size /\ endPos \in {None} \cup 0..size
  /\ rpos \in 0..size /\ bufEnd \in 0..size /\ part \in (0..size) \X (0..size)

Results ==
  /\ found # <<>> => found[1] >= 0 /\ found[2] > 0 /\ found[1] + found[2] <= size
  /\ gap # <<>> => gap[1] \in 0..gap[2] /\ gap[2] \in 0..rpos

OutOK == \A k \in 1..Len(out) : 0 <= out[k][1] /\ out[k][1] < out[k][2] /\ out[k][2] <= size

LEMMA TypeParts == TypeOK <=> Kinds /\ DiskOK /\ Numbers /\ Results /\ OutOK
BY DEF TypeOK, Kinds, DiskOK, Numbers, Results, OutOK

LEMMA TypePartsNext == TypeOK' <=> Kinds' /\ DiskOK' /\ Numbers' /\ Results' /\ OutOK'
BY DEF TypeOK, Kinds, DiskOK, Numbers, Results, OutOK

LEMMA SameLog == ASSUME [Next]_vars PROVE Total' = Total /\ Lines' = Lines
<1>1. log' = log
  BY Fixed
<1> QED
  BY <1>1 DEF Total, Lines, End

LEMMA DiskOKStep == ASSUME TypeInv, [Next]_vars PROVE DiskOK'
<1>1. Total' = Total /\ Lines' = Lines
  BY SameLog
<1> QED
  BY <1>1, DiskStep DEF DiskOK

LEMMA OutSame ==
  ASSUME TypeInv, [Next]_vars, out' = out
  PROVE  OutOK' /\ out' \in Seq(Nat \X Nat)
<1>1. out \in Seq(Nat \X Nat) /\ OutOK /\ size \in Nat /\ size' \in Nat /\ size <= size'
  BY DiskStep, SizeFacts, TypeParts DEF TypeInv, Bounds, Shapes
<1>2. \A k \in 1..Len(out) : out[k] \in Nat \X Nat
  BY <1>1
<1> QED
  BY <1>1, <1>2 DEF OutOK

LEMMA NumFacts ==
  ASSUME TypeInv
  PROVE  /\ left \in Nat /\ right \in Int /\ startPos \in Nat /\ endPos \in Int
         /\ rpos \in Nat /\ bufEnd \in Nat /\ part[1] \in Nat /\ part[2] \in Nat
         /\ rpos <= size /\ bufEnd <= size /\ part[1] <= size /\ part[2] <= size
         /\ endPos # None => endPos \in Nat /\ endPos <= OldSize
         /\ left <= maxOffset /\ right < maxOffset /\ startPos <= maxOffset /\ maxOffset <= OldSize
         /\ found # <<>> => /\ found[1] \in Nat /\ found[2] \in Nat /\ found[2] > 0
                            /\ found[1] < maxOffset /\ found[1] + found[2] <= OldSize
<1>1. Numbers /\ Limits /\ Shapes /\ Results /\ size \in Nat
  BY TypeParts, SizeFacts DEF TypeInv, Bounds
<1>2. /\ left \in Nat /\ right \in Int /\ startPos \in Nat /\ endPos \in Int
      /\ rpos \in Nat /\ bufEnd \in Nat /\ part[1] \in Nat /\ part[2] \in Nat
      /\ rpos <= size /\ bufEnd <= size /\ part[1] <= size /\ part[2] <= size
      /\ endPos # None => endPos \in Nat
  BY <1>1 DEF Numbers, None
<1>3. found # <<>> => /\ found[1] \in Nat /\ found[2] \in Nat /\ found[2] > 0
  BY <1>1 DEF Shapes, Results
<1> QED
  BY <1>1, <1>2, <1>3 DEF Limits

LEMMA LimitsStay ==
  ASSUME TypeInv, [Next]_vars, UNCHANGED <<maxOffset, left, right, startPos, endPos, found>>
  PROVE  Limits'
<1>1. OldSize \in Nat /\ OldSize' \in Nat /\ OldSize <= OldSize' /\ maxOffset \in Nat
  BY DiskStep, SizeFacts
<1>2. found # <<>> => found[1] + found[2] \in Nat
  BY NumFacts
<1>3. found # <<>> => found[1] < maxOffset /\ found[1] + found[2] <= OldSize'
  BY <1>1, <1>2, NumFacts
<1>4. maxOffset <= OldSize' /\ (endPos # None => endPos <= OldSize')
  BY <1>1, NumFacts
<1> QED
  BY <1>3, <1>4, NumFacts DEF Limits

LEMMA EnvType ==
  ASSUME TypeInv, [Next]_vars, Write \/ Rotate \/ Leave \/ Shutdown \/ UNCHANGED vars
  PROVE  TypeOK' /\ Bounds'
<1>1. UNCHANGED service /\ {event', cancelled', gone'} \subseteq BOOLEAN
  <2>1. CASE Write
    BY <2>1 DEF Write, TypeInv, TypeOK
  <2>2. CASE Rotate
    BY <2>2 DEF Rotate, TypeInv, TypeOK
  <2>3. CASE Leave \/ Shutdown \/ UNCHANGED vars
    BY <2>3 DEF Leave, Shutdown, TypeInv, TypeOK, vars, service
  <2> QED
    BY <2>1, <2>2, <2>3
<1>2. UNCHANGED <<pc, maxOffset, left, right, found, startPos, endPos, rpos, bufEnd, part,
                  gap, watch, reopened, out, status, broken>>
  BY <1>1 DEF service, search, range, reader, follow
<1>3. Kinds /\ Numbers /\ Results /\ OutOK /\ Bounds
  BY TypeParts DEF TypeInv
<1>4. Kinds'
  BY <1>1, <1>2, <1>3, DiskStep DEF Kinds
<1>5. Numbers'
  BY <1>2, <1>3, DiskStep, SizeFacts DEF Numbers, None
<1>6. Results'
  BY <1>2, <1>3, DiskStep, SizeFacts DEF Results, Bounds, Shapes
<1>7. Limits'
  BY <1>2, LimitsStay
<1>8. Shapes'
  BY <1>2, <1>3 DEF Bounds, Shapes
<1>9. KeptPart'
  BY <1>2, <1>3, Fixed DEF Bounds, KeptPart, HasPart
<1> QED
  BY <1>2, <1>4, <1>5, <1>6, <1>7, <1>8, <1>9, DiskOKStep, OutSame, TypePartsNext DEF Bounds

\* What scan_timestamp finds.
LEMMA ScanFacts ==
  ASSUME TypeInv, NEW p \in Nat, NEW f \in BOOLEAN
  PROVE  \/ /\ Scan(p, f) = None
            /\ \A i \in Lines : (p <= log[i].at /\ log[i].at <= right) => Parse(log[i].at, f) = 0
         \/ /\ Scan(p, f) \in Nat /\ p <= Scan(p, f) /\ Scan(p, f) <= right
            /\ Scan(p, f) < OldSize /\ Scan(p, f) < Total /\ Parse(Scan(p, f), f) # 0
<1> DEFINE hits == {q \in {p} \cup {log[i].at : i \in 1..Len(log)} :
                      p <= q /\ q <= right /\ q < OldSize /\ Parse(q, f) # 0}
<1>1. Scan(p, f) = IF hits = {} THEN None ELSE Min(hits)
  BY DEF Scan
<1>2. FileInv /\ \A i \in Lines : log[i].at \in Nat
  BY LogFacts DEF TypeInv
<1>3. hits \subseteq Nat
  BY <1>2 DEF Lines
<1>4. OldSize \in Nat /\ OldSize <= Total /\ right \in Int /\ right < OldSize /\ Total \in Nat
  BY <1>2, SizeFacts, NumFacts, LogFacts
<1>5. CASE hits = {}
  <2>1. ASSUME NEW i \in Lines, p <= log[i].at, log[i].at <= right
        PROVE  Parse(log[i].at, f) = 0
    <3>1. log[i].at \in {p} \cup {log[j].at : j \in 1..Len(log)} /\ log[i].at < OldSize
      BY <1>2, <1>4, <2>1 DEF Lines
    <3> QED
      BY <3>1, <2>1, <1>5
  <2> QED
    BY <2>1, <1>1, <1>5
<1>6. CASE hits # {}
  <2>1. Min(hits) \in hits
    BY <1>3, <1>6, Least
  <2>2. Scan(p, f) \in hits
    BY <2>1, <1>1, <1>6
  <2> HIDE DEF hits
  <2>3. Scan(p, f) \in Nat
    BY <2>2, <1>3
  <2> USE DEF hits
  <2>4. p <= Scan(p, f) /\ Scan(p, f) <= right /\ Scan(p, f) < OldSize /\ Parse(Scan(p, f), f) # 0
    BY <2>2
  <2>5. Scan(p, f) < Total
    BY <2>3, <2>4, <1>4
  <2> QED
    BY <2>3, <2>4, <2>5
<1> QED
  BY <1>5, <1>6

LEMMA TextFacts ==
  ASSUME FileInv, NEW p \in Nat, p < Total, NEW n \in Nat, p < n
  PROVE  /\ TextEnd(p, n) = IF LineEnd(p) - 1 <= n THEN LineEnd(p) - 1 ELSE n
         /\ TextEnd(p, n) \in Nat /\ TextEnd(p, n) <= n
         /\ p + 1 < LineEnd(p) => p < TextEnd(p, n)
         /\ p <= TextEnd(p, n)
<1>1. LineEnd(p) \in Nat /\ p < LineEnd(p)
  BY LineFacts
<1>2. TextEnd(p, n) = IF LineEnd(p) - 1 <= n THEN LineEnd(p) - 1 ELSE n
  BY <1>1, MinOfTwo DEF TextEnd
<1> QED
  BY <1>1, <1>2

\* What a round of the search does.
LEMMA ProbeFacts ==
  ASSUME TypeInv, NEW mode \in {"since", "until"}, Probe(mode)
  PROVE  /\ UNCHANGED <<size, rot, torn, gone, pc, maxOffset, startPos, endPos, rpos, bufEnd, part,
                        gap, watch, reopened, event, out, status, cancelled, broken>>
         /\ pc = mode
         /\ \E mid \in Nat, at \in {None} \cup Nat :
              /\ left <= mid /\ mid <= right /\ at = Scan(mid, mode = "until")
              /\ \/ /\ at = None /\ left' = left /\ right' = mid - 1 /\ found' = found
                 \/ /\ at # None /\ mid <= at /\ at <= right /\ at < Total /\ at < OldSize
                    /\ Parse(at, mode = "until") # 0
                    /\ LET ts == Parse(at, mode = "until")
                           ok == IF mode = "since" THEN ts >= req.start ELSE ts <= req.stop
                       IN  /\ found' = IF ok THEN <<at, TextEnd(at, OldSize) - at>> ELSE found
                           /\ IF ok = (mode = "since")
                                THEN right' = at - 1 /\ left' = left
                                ELSE left' = at + 1 /\ right' = right
<1> DEFINE mid == (left + right) \div 2
           at  == Scan(mid, mode = "until")
<1>1. left \in Nat /\ right \in Int /\ left <= right /\ pc = mode
  BY NumFacts DEF Probe
<1>2. mid \in Nat /\ left <= mid /\ mid <= right
  BY <1>1
<1>3. \/ at = None
      \/ /\ at \in Nat /\ mid <= at /\ at <= right /\ at < OldSize /\ at < Total
         /\ Parse(at, mode = "until") # 0
  BY <1>2, ScanFacts
<1>4. UNCHANGED <<size, rot, torn, gone, pc, maxOffset, startPos, endPos, rpos, bufEnd, part,
                  gap, watch, reopened, event, out, status, cancelled, broken>>
  BY DEF Probe, probeOthers, outside, disk, range, reader, follow
<1>5. /\ at = None => left' = left /\ right' = mid - 1 /\ found' = found
      /\ at # None =>
           LET ts == Parse(at, mode = "until")
               ok == IF mode = "since" THEN ts >= req.start ELSE ts <= req.stop
           IN  /\ found' = IF ok THEN <<at, TextEnd(at, OldSize) - at>> ELSE found
               /\ IF ok = (mode = "since")
                    THEN right' = at - 1 /\ left' = left
                    ELSE left' = at + 1 /\ right' = right
  BY DEF Probe
<1>6. at \in {None} \cup Nat
  BY <1>3
<1> HIDE DEF mid, at
<1> QED
  BY <1>1, <1>2, <1>3, <1>4, <1>5, <1>6 DEF None, at

LEMMA TaskIsNext == ASSUME Task \/ Fail \/ ReadFail \/ ReadStop \/ BackFail \/ BackStop
                    PROVE  Next /\ UNCHANGED <<size, rot, torn>> /\ OldSize' = OldSize
BY DiskStays DEF Next, OldSize

LEMMA ProbeType ==
  ASSUME TypeInv, NEW mode \in {"since", "until"}, Probe(mode)
  PROVE  TypeOK' /\ Bounds'
<1>1. [Next]_vars
  BY DEF Next, Task
<1> DEFINE f == mode = "until"
<1>2. PICK mid \in Nat, at \in {None} \cup Nat :
        /\ left <= mid /\ mid <= right
        /\ \/ /\ at = None /\ left' = left /\ right' = mid - 1 /\ found' = found
           \/ /\ at # None /\ mid <= at /\ at <= right /\ at < Total /\ at < OldSize
              /\ Parse(at, f) # 0
              /\ found' \in {<<at, TextEnd(at, OldSize) - at>>, found}
              /\ \/ right' = at - 1 /\ left' = left
                 \/ left' = at + 1 /\ right' = right
  <2>1. PICK mid \in Nat, at \in {None} \cup Nat :
          /\ left <= mid /\ mid <= right
          /\ \/ /\ at = None /\ left' = left /\ right' = mid - 1 /\ found' = found
             \/ /\ at # None /\ mid <= at /\ at <= right /\ at < Total /\ at < OldSize
                /\ Parse(at, f) # 0
                /\ LET ts == Parse(at, mode = "until")
                       ok == IF mode = "since" THEN ts >= req.start ELSE ts <= req.stop
                   IN  /\ found' = IF ok THEN <<at, TextEnd(at, OldSize) - at>> ELSE found
                       /\ IF ok = (mode = "since")
                            THEN right' = at - 1 /\ left' = left
                            ELSE left' = at + 1 /\ right' = right
    BY ProbeFacts
  <2> QED
    BY <2>1
<1>3. /\ UNCHANGED <<size, rot, torn, gone, pc, maxOffset, startPos, endPos, rpos, bufEnd, part,
                     gap, watch, reopened, event, out, status, cancelled, broken>>
      /\ pc = mode
  BY ProbeFacts
<1>4. /\ left \in Nat /\ right \in Int /\ maxOffset \in Nat /\ OldSize \in Nat /\ size \in Nat
      /\ left <= maxOffset /\ right < maxOffset /\ maxOffset <= OldSize /\ OldSize <= size
      /\ OldSize' = OldSize
  BY <1>3, NumFacts, SizeFacts DEF OldSize
<1>5. /\ left' \in Nat /\ right' \in Int /\ left' <= maxOffset /\ -1 <= right' /\ right' < maxOffset
  BY <1>2, <1>4 DEF None
<1>6. found' # found => /\ found' \in Nat \X Nat /\ found'[1] < maxOffset /\ found'[2] > 0
                        /\ found'[1] + found'[2] <= OldSize
  <2> SUFFICES ASSUME found' # found PROVE /\ found' \in Nat \X Nat /\ found'[1] < maxOffset
                                           /\ found'[2] > 0 /\ found'[1] + found'[2] <= OldSize
    OBVIOUS
  <2>1. at \in Nat /\ at < Total /\ at < OldSize /\ at < maxOffset /\ Parse(at, f) # 0
        /\ found' = <<at, TextEnd(at, OldSize) - at>>
    BY <1>2, <1>4
  <2>2. at + 1 < LineEnd(at)
    BY <2>1, ParseFacts DEF TypeInv
  <2>3. TextEnd(at, OldSize) \in Nat /\ at < TextEnd(at, OldSize) /\ TextEnd(at, OldSize) <= OldSize
    BY <2>1, <2>2, <1>4, TextFacts DEF TypeInv
  <2> QED
    BY <2>1, <2>3
<1>7. Kinds /\ Numbers /\ Results /\ OutOK /\ Bounds
  BY TypeParts DEF TypeInv
<1>8. Kinds'
  BY <1>3, <1>7 DEF Kinds
<1>9. Numbers'
  BY <1>3, <1>4, <1>5, <1>7 DEF Numbers
<1>10. Results' /\ Limits' /\ Shapes'
  <2>1. CASE found' = found
    BY <2>1, <1>3, <1>4, <1>5, <1>7 DEF Results, Bounds, Limits, Shapes
  <2>2. CASE found' # found
    <3>1. found'[1] \in Nat /\ found'[2] \in Nat
      BY <2>2, <1>6
    <3>2. found'[1] >= 0 /\ found'[1] + found'[2] <= size
      BY <2>2, <3>1, <1>6, <1>4
    <3>3. Results'
      BY <2>2, <3>2, <1>3, <1>6, <1>7 DEF Results
    <3>4. Limits'
      BY <2>2, <1>3, <1>4, <1>5, <1>6, <1>7 DEF Bounds, Limits
    <3>5. Shapes'
      BY <2>2, <1>3, <1>6, <1>7 DEF Bounds, Shapes
    <3> QED
      BY <3>3, <3>4, <3>5
  <2> QED
    BY <2>1, <2>2
<1>11. KeptPart'
  BY <1>3 DEF KeptPart
<1> QED
  BY <1>1, <1>3, <1>8, <1>9, <1>10, <1>11, DiskOKStep, OutSame, TypePartsNext DEF Bounds

LEMMA OpenType == ASSUME TypeInv, Open PROVE TypeOK' /\ Bounds'
<1>1. [Next]_vars /\ OldSize' = OldSize /\ UNCHANGED <<size, rot, torn>>
  BY TaskIsNext DEF Task
<1>2. /\ UNCHANGED <<gone, gap, watch, reopened, event, out, status, cancelled, broken>>
      /\ pc = "open" /\ maxOffset' = OldSize
  BY DEF Open, outside, follow
<1>3. \/ /\ pc' \in {"since", "until"} /\ left' = 0 /\ right' = OldSize - 1 /\ found' = <<>>
         /\ UNCHANGED <<startPos, endPos, rpos, bufEnd, part>>
      \/ /\ UNCHANGED <<left, right, found>>
         /\ startPos' \in {0, OldSize}
         /\ \/ /\ req.backward /\ pc' = "back" /\ endPos' = OldSize /\ rpos' = OldSize /\ bufEnd' = OldSize
               /\ part' = <<0, 0>>
            \/ /\ pc' = "read" /\ endPos' = None /\ rpos' = startPos' /\ UNCHANGED <<bufEnd, part>>
  BY DEF Open, Begin, ReadRange, search, range, reader
<1>4. Kinds /\ Numbers /\ Results /\ OutOK /\ Bounds
  BY TypeParts DEF TypeInv
<1>5. /\ OldSize \in Nat /\ size \in Nat /\ OldSize <= size /\ maxOffset \in Nat /\ maxOffset <= OldSize
  BY NumFacts, SizeFacts
<1>6. Kinds'
  BY <1>1, <1>2, <1>3, <1>4 DEF Kinds
<1>7. Numbers'
  <2>1. part' \in (0..size) \X (0..size)
    BY <1>3, <1>4, <1>5 DEF Numbers
  <2>2. CASE /\ left' = 0 /\ right' = OldSize - 1
             /\ UNCHANGED <<startPos, endPos, rpos, bufEnd, part>>
    BY <1>1, <1>2, <1>4, <1>5, <2>1, <2>2 DEF Numbers
  <2>3. CASE UNCHANGED <<left, right, found>>
    <3>1. startPos' \in 0..size /\ endPos' \in {None} \cup 0..size /\ rpos' \in 0..size
          /\ bufEnd' \in 0..size
      BY <1>3, <1>4, <1>5 DEF Numbers
    <3> QED
      BY <1>1, <1>2, <1>4, <1>5, <2>1, <2>3, <3>1 DEF Numbers
  <2> QED
    BY <1>3, <2>2, <2>3
<1>8. gap = <<>>
  BY <1>2, <1>4 DEF Bounds, Shapes
<1>9. Results' /\ Shapes'
  BY <1>1, <1>2, <1>3, <1>4, <1>8 DEF Results, Bounds, Shapes
<1>10. Limits'
  <2>1. left' \in Nat /\ left' <= OldSize /\ right' < OldSize
    BY <1>3, <1>5, NumFacts
  <2>2. startPos' <= OldSize /\ (endPos' # None => endPos' <= OldSize)
    BY <1>3, <1>5, NumFacts DEF None
  <2>3. found' # <<>> => found'[1] < OldSize /\ found'[1] + found'[2] <= OldSize
    BY <1>3, <1>5, NumFacts
  <2> QED
    BY <1>1, <1>2, <2>1, <2>2, <2>3, <1>5 DEF Limits
<1>11. KeptPart'
  BY <1>1, <1>2, <1>3, <1>5, Fixed DEF KeptPart, HasPart, None
<1> QED
  BY <1>1, <1>2, <1>6, <1>7, <1>9, <1>10, <1>11, DiskOKStep, OutSame, TypePartsNext DEF Bounds

LEMMA FoundType == ASSUME TypeInv, SinceFound \/ UntilFound PROVE TypeOK' /\ Bounds'
<1>1. [Next]_vars /\ OldSize' = OldSize /\ UNCHANGED <<size, rot, torn>>
  BY TaskIsNext DEF Task
<1>2. /\ UNCHANGED <<gone, gap, watch, reopened, event, out, cancelled, broken, maxOffset>>
      /\ pc \in {"since", "until"}
  BY DEF SinceFound, UntilFound, outside, follow
<1>3. \/ /\ pc' = "ended" /\ status' = "ok"
         /\ UNCHANGED <<left, right, found, startPos, endPos, rpos, bufEnd, part>>
      \/ /\ found # <<>> /\ pc' = "until" /\ left' \in {0, found[1]} /\ right' = maxOffset - 1
         /\ found' = <<>> /\ startPos' = found[1] /\ UNCHANGED <<endPos, rpos, bufEnd, part, status>>
      \/ /\ UNCHANGED <<left, right, found, status>> /\ found # <<>>
         /\ \/ startPos' = found[1] /\ endPos' \in {maxOffset, None}
            \/ startPos' = startPos /\ endPos' = found[1] + found[2]
         /\ \/ /\ req.backward /\ pc' = "back" /\ endPos' # None /\ rpos' = endPos' /\ bufEnd' = endPos'
               /\ part' = <<0, 0>>
            \/ /\ pc' = "read" /\ rpos' = startPos' /\ UNCHANGED <<bufEnd, part>>
  <2>1. CASE SinceFound
    <3>1. CASE found = <<>>
      BY <2>1, <3>1 DEF SinceFound, Ended, search, range, reader
    <3>2. CASE found # <<>> /\ Stop # 0
      BY <2>1, <3>2 DEF SinceFound, Begin, reader
    <3>3. CASE found # <<>> /\ Stop = 0
      <4>1. ReadRange(found[1], IF req.backward THEN maxOffset ELSE None) /\ UNCHANGED <<search, status>>
        BY <2>1, <3>3 DEF SinceFound
      <4>2. maxOffset # None
        BY SizeFacts DEF None
      <4> QED
        BY <4>1, <4>2, <3>3 DEF ReadRange, search
    <3> QED
      BY <3>1, <3>2, <3>3
  <2>2. CASE UntilFound
    <3>1. CASE found = <<>>
      BY <2>2, <3>1 DEF UntilFound, Ended, search, range, reader
    <3>2. CASE found # <<>>
      <4>1. ReadRange(startPos, found[1] + found[2]) /\ UNCHANGED <<search, status>>
        BY <2>2, <3>2 DEF UntilFound
      <4>2. found[1] + found[2] # None
        BY <3>2, NumFacts DEF None
      <4> QED
        BY <4>1, <4>2, <3>2 DEF ReadRange, search
    <3> QED
      BY <3>1, <3>2
  <2> QED
    BY <2>1, <2>2
<1>4. Kinds /\ Numbers /\ Results /\ OutOK /\ Bounds
  BY TypeParts DEF TypeInv
<1>5. /\ OldSize \in Nat /\ size \in Nat /\ OldSize <= size /\ maxOffset \in Nat /\ maxOffset <= OldSize
      /\ found # <<>> => /\ found[1] \in Nat /\ found[2] \in Nat /\ found[1] < maxOffset
                         /\ found[1] + found[2] \in Nat /\ found[1] + found[2] <= OldSize
  BY NumFacts, SizeFacts, SMTT(20)
<1>6. Kinds'
  BY <1>1, <1>2, <1>3, <1>4 DEF Kinds
<1>7. /\ left' \in Nat /\ left' <= maxOffset /\ right' \in Int /\ -1 <= right' /\ right' < maxOffset
      /\ startPos' \in Nat /\ startPos' <= maxOffset
      /\ endPos' \in {None} \cup 0..OldSize
      /\ rpos' \in 0..OldSize \/ rpos' = rpos
  <2>1. /\ left \in Nat /\ left <= maxOffset /\ right \in Int /\ -1 <= right /\ right < maxOffset
        /\ startPos \in Nat /\ startPos <= maxOffset /\ endPos \in {None} \cup 0..OldSize
    BY <1>4, <1>5, NumFacts DEF Numbers, None
  <2>2. /\ left' \in Nat /\ left' <= maxOffset /\ right' \in Int /\ -1 <= right' /\ right' < maxOffset
    BY <1>3, <1>5, <2>1
  <2>3. startPos' \in Nat /\ startPos' <= maxOffset
    BY <1>3, <1>5, <2>1
  <2>4. endPos' \in {None} \cup 0..OldSize
    BY <1>3, <1>5, <2>1
  <2>5. rpos' \in 0..OldSize \/ rpos' = rpos
    BY <1>3, <1>5, <2>3, <2>4
  <2> QED
    BY <2>2, <2>3, <2>4, <2>5
<1>8. Numbers'
  BY <1>1, <1>2, <1>3, <1>4, <1>5, <1>7, SMTT(20) DEF Numbers, None
<1>9. gap = <<>>
  BY <1>2, <1>4 DEF Bounds, Shapes
<1>10. Results' /\ Shapes'
  BY <1>1, <1>2, <1>3, <1>4, <1>9 DEF Results, Bounds, Shapes
<1>11. Limits'
  <2>1. found' # <<>> => found'[1] < maxOffset /\ found'[1] + found'[2] <= OldSize
    BY <1>3, <1>5
  <2> QED
    BY <1>1, <1>2, <1>5, <1>7, <2>1 DEF Limits, None
<1>12. KeptPart'
  BY <1>1, <1>2, <1>3, <1>5, <1>7, Fixed DEF KeptPart, HasPart, None
<1> QED
  BY <1>1, <1>2, <1>6, <1>8, <1>10, <1>11, <1>12, DiskOKStep, OutSame, TypePartsNext DEF Bounds

LEMMA SendType ==
  ASSUME TypeInv, NEW p \in Nat, NEW q \in Nat, q <= size, Parse(p, FALSE) # 0 => p < q,
         NEW next, Send(p, q, next), size' = size
  PROVE  /\ OutOK' /\ out' \in Seq(Nat \X Nat)
         /\ cancelled' \in BOOLEAN /\ pc' \in {next, "panicked"}
<1>1. out \in Seq(Nat \X Nat) /\ OutOK /\ cancelled \in BOOLEAN /\ size \in Nat
  BY TypeParts, SizeFacts DEF TypeInv, Bounds, Shapes, Kinds
<1>2. CASE out' = out
  <2>1. cancelled' \in BOOLEAN /\ pc' \in {next, "panicked"}
    BY <1>1 DEF Send
  <2> QED
    BY <1>1, <1>2, <2>1 DEF OutOK
<1>3. CASE out' # out
  <2>1. out' = Append(out, <<p, q>>) /\ p < q /\ cancelled' = cancelled /\ pc' = next
    BY <1>3 DEF Send
  <2>2. <<p, q>> \in Nat \X Nat
    OBVIOUS
  <2>3. /\ Append(out, <<p, q>>) \in Seq(Nat \X Nat)
        /\ Len(Append(out, <<p, q>>)) = Len(out) + 1 /\ Len(out) \in Nat
        /\ Append(out, <<p, q>>)[Len(out) + 1] = <<p, q>>
        /\ \A k \in 1..Len(out) : Append(out, <<p, q>>)[k] = out[k]
    BY <1>1, <2>2
  <2>4. ASSUME NEW k \in 1..Len(out')
        PROVE  0 <= out'[k][1] /\ out'[k][1] < out'[k][2] /\ out'[k][2] <= size
    <3>1. CASE k = Len(out) + 1
      BY <2>1, <2>3, <3>1
    <3>2. CASE k # Len(out) + 1
      <4>1. k \in 1..Len(out) /\ out'[k] = out[k]
        BY <2>1, <2>3, <3>2
      <4> QED
        BY <4>1, <1>1 DEF OutOK
    <3> QED
      BY <3>1, <3>2
  <2> QED
    BY <1>1, <2>1, <2>3, <2>4 DEF OutOK
<1> QED
  BY <1>2, <1>3

\* The search is over: what is left to show of a step.
LEMMA RestType ==
  ASSUME TypeInv, [Next]_vars,
         UNCHANGED <<size, rot, torn, maxOffset, left, right, startPos, endPos, found>>,
         Kinds', OutOK', out' \in Seq(Nat \X Nat), KeptPart',
         rpos' \in 0..size, bufEnd' \in 0..size, part' \in (0..size) \X (0..size),
         gap' \in {<<>>} \cup (Nat \X Nat),
         gap' # <<>> => /\ gap'[1] \in 0..gap'[2] /\ gap'[2] \in 0..rpos'
                        /\ pc' \in {"listen", "lines", "ended", "panicked"}
  PROVE  TypeOK' /\ Bounds'
<1>1. Numbers /\ Results /\ Shapes
  BY TypeParts DEF TypeInv, Bounds
<1>2. Numbers' /\ Results' /\ Shapes'
  BY <1>1 DEF Numbers, Results, Shapes
<1> QED
  BY <1>2, LimitsStay, DiskOKStep, TypePartsNext DEF Bounds

LEMMA LimitFacts ==
  ASSUME TypeInv
  PROVE  /\ Limit = IF endPos = None THEN OldSize ELSE endPos
         /\ Limit \in Nat /\ Limit <= OldSize /\ Limit <= size
<1>1. OldSize \in Nat /\ OldSize <= size /\ size \in Nat /\ endPos \in Int
      /\ (endPos # None => endPos \in Nat /\ endPos <= OldSize)
  BY SizeFacts, NumFacts
<1> QED
  BY <1>1, MinOfTwo DEF Limit

LEMMA ParseBefore ==
  ASSUME TypeInv, NEW p \in Nat, p < size, Parse(p, FALSE) # 0
  PROVE  p + 1 < LineEnd(p)
<1>1. p < Total
  BY SizeFacts, LogFacts DEF TypeInv
<1> QED
  BY <1>1, ParseFacts DEF TypeInv

LEMMA TextEndFacts ==
  ASSUME TypeInv, NEW p \in Nat, NEW n \in Nat, p < n, n <= size
  PROVE  /\ TextEnd(p, n) = IF LineEnd(p) - 1 <= n THEN LineEnd(p) - 1 ELSE n
         /\ TextEnd(p, n) \in Nat /\ TextEnd(p, n) <= n /\ p <= TextEnd(p, n)
         /\ LineEnd(p) \in Nat /\ p < LineEnd(p) /\ LineEnd(p) <= Total
         /\ Parse(p, FALSE) # 0 => p < TextEnd(p, n) /\ p < LineEnd(p) - 1
<1>1. p < size /\ p < Total /\ FileInv
  BY SizeFacts, LogFacts DEF TypeInv
<1>2. /\ TextEnd(p, n) = IF LineEnd(p) - 1 <= n THEN LineEnd(p) - 1 ELSE n
      /\ TextEnd(p, n) \in Nat /\ TextEnd(p, n) <= n /\ p <= TextEnd(p, n)
      /\ p + 1 < LineEnd(p) => p < TextEnd(p, n)
  BY <1>1, TextFacts
<1>3. LineEnd(p) \in Nat /\ p < LineEnd(p) /\ LineEnd(p) <= Total
  BY <1>1, LineFacts
<1>4. Parse(p, FALSE) # 0 => p + 1 < LineEnd(p)
  BY <1>1, ParseBefore
<1>5. p + 1 < LineEnd(p) => p < LineEnd(p) - 1
  BY <1>3
<1> QED
  BY <1>2, <1>3, <1>4, <1>5

LEMMA ReadType ==
  ASSUME TypeInv, ReadLine \/ ReadEnd \/ ReadFail \/ ReadStop
  PROVE  TypeOK' /\ Bounds'
<1>1. [Next]_vars /\ UNCHANGED <<size, rot, torn>>
  BY TaskIsNext DEF Task
<1>2. /\ UNCHANGED <<gone, maxOffset, left, right, found, startPos, endPos, bufEnd, part, gap, watch,
                     reopened, event, status>>
      /\ pc = "read" /\ broken' \in {broken, TRUE}
  BY DEF ReadLine, ReadEnd, ReadFail, ReadStop, readOthers, outside, search, range, follow
<1>3. Kinds /\ Numbers /\ OutOK /\ Bounds
  BY TypeParts DEF TypeInv
<1>4. /\ Limit \in Nat /\ Limit <= size /\ size \in Nat /\ size <= Total /\ Total \in Nat /\ FileInv
      /\ rpos \in Nat /\ rpos <= size
  BY LimitFacts, SizeFacts, NumFacts, LogFacts DEF TypeInv
<1>5. /\ pc' \in {"read", "searched", "panicked"} /\ cancelled' \in BOOLEAN /\ rpos' \in 0..size
      /\ OutOK' /\ out' \in Seq(Nat \X Nat)
  <2>1. CASE ReadLine
    <3>1. /\ rpos < Limit /\ LineEnd(rpos) <= Limit /\ Send(rpos, LineEnd(rpos) - 1, "read")
          /\ rpos' = LineEnd(rpos)
      BY <2>1 DEF ReadLine
    <3>2. LineEnd(rpos) \in Nat /\ rpos < LineEnd(rpos)
      BY <3>1, <1>4, LineFacts
    <3>3. Parse(rpos, FALSE) # 0 => rpos < LineEnd(rpos) - 1
      BY <3>1, <1>4, TextEndFacts
    <3> DEFINE q == LineEnd(rpos) - 1
    <3>4. q \in Nat /\ q <= size
      BY <3>1, <3>2, <1>4
    <3>5. /\ OutOK' /\ out' \in Seq(Nat \X Nat)
          /\ cancelled' \in BOOLEAN /\ pc' \in {"read", "panicked"}
      BY <3>1, <3>3, <3>4, <1>1, <1>4, SendType
    <3> QED
      BY <3>1, <3>2, <3>5, <1>4
  <2>2. CASE ReadEnd
    <3>1. rpos' = IF rpos >= Limit THEN rpos ELSE Limit
      BY <2>2, <1>4, MaxOfTwo DEF ReadEnd
    <3>2. CASE rpos < Limit
      <4>1. Send(rpos, TextEnd(rpos, Limit), "searched")
        BY <2>2, <3>2 DEF ReadEnd
      <4>2. TextEnd(rpos, Limit) \in Nat /\ TextEnd(rpos, Limit) <= size
            /\ (Parse(rpos, FALSE) # 0 => rpos < TextEnd(rpos, Limit))
        <5>1. /\ TextEnd(rpos, Limit) \in Nat /\ TextEnd(rpos, Limit) <= Limit
              /\ (Parse(rpos, FALSE) # 0 => rpos < TextEnd(rpos, Limit))
          BY <3>2, <1>4, TextEndFacts
        <5>2. TextEnd(rpos, Limit) <= size
          <6> DEFINE t == TextEnd(rpos, Limit)
          <6>1. t \in Nat /\ t <= Limit
            BY <5>1
          <6> QED
            BY <6>1, <1>4
        <5> QED
          BY <5>1, <5>2
      <4>3. /\ OutOK' /\ out' \in Seq(Nat \X Nat)
            /\ cancelled' \in BOOLEAN /\ pc' \in {"searched", "panicked"}
        BY <4>1, <4>2, <1>1, <1>4, SendType
      <4> QED
        BY <3>1, <4>3, <1>4
    <3>3. CASE ~(rpos < Limit)
      BY <2>2, <3>1, <3>3, <1>1, <1>3, <1>4, OutSame DEF ReadEnd, Kinds
    <3> QED
      BY <3>2, <3>3
  <2>3. CASE ReadFail
    BY <2>3, <1>1, <1>3, <1>4, OutSame DEF ReadFail, Kinds
  <2>4. CASE ReadStop
    <3>1. CASE UNCHANGED <<out, rpos, cancelled>>
      <4>1. pc' \in {"searched", "panicked"}
        BY <2>4 DEF ReadStop, Send
      <4> QED
        BY <3>1, <4>1, <1>1, <1>3, <1>4, OutSame DEF Kinds
    <3>2. CASE ~UNCHANGED <<out, rpos, cancelled>>
      <4>1. rpos < Limit
        BY <2>4, <3>2 DEF ReadStop
      <4>a. rpos < Total
        BY <4>1, <1>4
      <4>2. PICK q \in rpos + 1 .. TextEnd(rpos, Limit) : Send(rpos, q, "searched") /\ rpos' = q
        BY <2>4, <3>2 DEF ReadStop
      <4>3. TextEnd(rpos, Limit) \in Nat /\ TextEnd(rpos, Limit) <= Limit
        BY <4>1, <4>a, <1>4, TextFacts
      <4>4. q \in Nat /\ rpos < q /\ q <= size
        BY <4>2, <4>3, <1>4
      <4>5. /\ OutOK' /\ out' \in Seq(Nat \X Nat)
            /\ cancelled' \in BOOLEAN /\ pc' \in {"searched", "panicked"}
        BY <4>2, <4>4, <1>1, <1>4, SendType
      <4> QED
        BY <4>2, <4>4, <4>5, <1>4
    <3> QED
      BY <3>1, <3>2
  <2> QED
    BY <2>1, <2>2, <2>3, <2>4
<1>6. Kinds'
  BY <1>1, <1>2, <1>3, <1>5 DEF Kinds
<1>7. gap = <<>>
  BY <1>2, <1>3 DEF Bounds, Shapes
<1>8. KeptPart'
  BY <1>5 DEF KeptPart
<1> QED
  BY <1>1, <1>2, <1>3, <1>5, <1>6, <1>7, <1>8, RestType DEF Numbers

LEMMA StayType ==
  ASSUME TypeInv,
         Searched \/ Watch \/ Seek \/ Notified \/ NoMoreLines \/ ListenStop \/ LinesStop \/ Fail
  PROVE  TypeOK' /\ Bounds'
<1>1. [Next]_vars /\ UNCHANGED <<size, rot, torn>>
  BY TaskIsNext DEF Task
<1>2. /\ UNCHANGED <<gone, maxOffset, left, right, found, startPos, endPos, bufEnd, part,
                     out, cancelled, broken>>
      /\ pc' \in {"ended", "watch", "seek", "listen", "lines"} /\ watch' \in {watch, "old", "new"}
      /\ status' \in {status, "ok", "failed", "unavailable"} /\ event' \in {event, FALSE}
      /\ reopened' \in {reopened, rot # None}
  BY DEF Searched, Watch, Seek, Notified, NoMoreLines, ListenStop, LinesStop, Fail, stayOthers,
         lineOthers, Ended, outside, search, range, reader, follow
<1>3. Kinds /\ Numbers /\ Results /\ OutOK /\ Bounds
  BY TypeParts DEF TypeInv
<1>4. /\ size \in Nat /\ NewSize \in Nat /\ NewSize <= size /\ rpos \in Nat /\ rpos <= size
      /\ size <= Total /\ Total \in Nat
  BY SizeFacts, NumFacts, LogFacts DEF TypeInv
<1>5. \/ rpos' = rpos /\ gap' = gap
      \/ rpos' = size /\ gap' = <<rpos, size>> /\ pc' = "listen"
      \/ rpos \in Nat /\ rpos' \in Nat /\ rpos <= rpos' /\ rpos' <= size /\ gap' = gap
  <2>1. CASE Searched \/ Watch \/ Notified \/ NoMoreLines \/ ListenStop
    BY <2>1 DEF Searched, Watch, Notified, NoMoreLines, ListenStop, lineOthers, follow
  <2>2. CASE Fail
    BY <2>2 DEF Fail, reader, follow
  <2>3. CASE Seek
    BY <2>3 DEF Seek
  <2>4. CASE LinesStop
    <3>1. rpos < NewSize /\ rpos' = Min({LineEnd(rpos), NewSize}) /\ gap' = gap
      BY <2>4 DEF LinesStop, lineOthers, follow
    <3>2. LineEnd(rpos) \in Nat /\ rpos < LineEnd(rpos)
      BY <3>1, <1>4, LineFacts DEF TypeInv
    <3> QED
      BY <3>1, <3>2, <1>4, MinOfTwo
  <2> QED
    BY <2>1, <2>2, <2>3, <2>4
<1>6. rpos' \in 0..size
  BY <1>4, <1>5
<1>7. gap' \in {<<>>} \cup (Nat \X Nat)
  BY <1>3, <1>4, <1>5 DEF Bounds, Shapes
<1>8. gap' # <<>> => gap'[1] \in 0..gap'[2] /\ gap'[2] \in 0..rpos'
  <2>1. CASE gap' = gap
    BY <2>1, <1>3, <1>4, <1>5, SMTT(20) DEF Results, Bounds, Shapes
  <2>2. CASE gap' = <<rpos, size>> /\ rpos' = size
    BY <2>2, <1>4
  <2> QED
    BY <2>1, <2>2, <1>5
<1>9. gap' # <<>> => pc' \in {"listen", "lines", "ended", "panicked"}
  <2>1. CASE Seek
    BY <2>1 DEF Seek
  <2>2. CASE ~Seek
    <3>1. gap' = gap
      BY <2>2 DEF Searched, Watch, Notified, NoMoreLines, ListenStop, LinesStop, Fail, stayOthers,
         lineOthers, follow
    <3>2. pc \in {"listen", "lines"} => pc' \in {"listen", "lines", "ended"}
      BY <2>2 DEF Searched, Watch, Notified, NoMoreLines, ListenStop, LinesStop, Fail, Ended
    <3>3. pc \notin {"ended", "panicked"}
      BY <2>2 DEF Searched, Watch, Notified, NoMoreLines, ListenStop, LinesStop, Fail
    <3> QED
      BY <3>1, <3>2, <3>3, <1>3 DEF Bounds, Shapes
  <2> QED
    BY <2>1, <2>2
<1>10. Kinds'
  BY <1>1, <1>2, <1>3 DEF Kinds
<1>11. KeptPart'
  BY <1>2 DEF KeptPart
<1> QED
  BY <1>1, <1>2, <1>3, <1>6, <1>7, <1>8, <1>9, <1>10, <1>11, RestType, OutSame DEF Numbers

LEMMA NextLineType == ASSUME TypeInv, NextLine PROVE TypeOK' /\ Bounds'
<1>1. [Next]_vars /\ UNCHANGED <<size, rot, torn>>
  BY TaskIsNext DEF Task
<1>2. /\ UNCHANGED <<gone, maxOffset, left, right, found, startPos, endPos, bufEnd, part, gap, watch,
                     reopened, event, status, broken>>
      /\ pc = "lines" /\ rpos < NewSize /\ Send(rpos, TextEnd(rpos, NewSize), "lines")
      /\ rpos' = Min({LineEnd(rpos), NewSize})
  BY DEF NextLine, lineOthers, outside, search, range, follow
<1>3. Kinds /\ Numbers /\ Results /\ OutOK /\ Bounds
  BY TypeParts DEF TypeInv
<1>4. /\ size \in Nat /\ NewSize \in Nat /\ NewSize <= size /\ rpos \in Nat
  BY SizeFacts, NumFacts
<1>5. /\ TextEnd(rpos, NewSize) \in Nat /\ TextEnd(rpos, NewSize) <= NewSize
      /\ LineEnd(rpos) \in Nat /\ rpos < LineEnd(rpos)
      /\ Parse(rpos, FALSE) # 0 => rpos < TextEnd(rpos, NewSize)
  BY <1>2, <1>4, TextEndFacts
<1>6. TextEnd(rpos, NewSize) <= size
  <2> DEFINE t == TextEnd(rpos, NewSize)
  <2>1. t \in Nat /\ t <= NewSize
    BY <1>5
  <2> QED
    BY <2>1, <1>4
<1>7. OutOK' /\ out' \in Seq(Nat \X Nat) /\ cancelled' \in BOOLEAN /\ pc' \in {"lines", "panicked"}
  BY <1>1, <1>2, <1>4, <1>5, <1>6, SendType
<1>8. rpos' \in 0..size /\ rpos <= rpos'
  BY <1>2, <1>4, <1>5, MinOfTwo
<1>9. gap # <<>> => gap[1] \in 0..gap[2] /\ gap[2] \in 0..rpos'
  BY <1>3, <1>4, <1>8 DEF Results, Bounds, Shapes
<1>10. Kinds'
  BY <1>1, <1>2, <1>3, <1>7 DEF Kinds
<1>11. KeptPart'
  BY <1>7 DEF KeptPart
<1>12. gap \in {<<>>} \cup (Nat \X Nat)
  BY <1>3 DEF Bounds, Shapes
<1> QED
  BY <1>1, <1>2, <1>3, <1>7, <1>8, <1>9, <1>10, <1>11, <1>12, RestType DEF Numbers

\* What the reverse reader has: where the next line ends, and its newlines.
LEMMA BackFacts ==
  ASSUME TypeInv, pc = "back"
  PROVE  /\ rpos \in Nat /\ bufEnd \in Nat /\ rpos <= bufEnd /\ bufEnd <= size
         /\ TailEnd \in Nat /\ bufEnd <= TailEnd /\ TailEnd <= size
         /\ HasPart => part[1] = bufEnd /\ part[2] = TailEnd /\ bufEnd < TailEnd
         /\ ~HasPart => TailEnd = bufEnd
         /\ Newlines \subseteq rpos .. bufEnd - 1
         /\ Newlines # {} => /\ Max(Newlines) \in Newlines /\ Max(Newlines) \in Nat
                             /\ rpos <= Max(Newlines) /\ Max(Newlines) < bufEnd
                             /\ \A n \in Newlines : n <= Max(Newlines)
<1>1. /\ rpos \in Nat /\ bufEnd \in Nat /\ rpos <= bufEnd /\ bufEnd <= size /\ size \in Nat
      /\ part[1] \in Nat /\ part[2] \in Nat /\ part[1] <= size /\ part[2] <= size
      /\ HasPart => part[1] = bufEnd
  BY NumFacts, SizeFacts DEF TypeInv, Bounds, KeptPart
<1>2. /\ TailEnd \in Nat /\ bufEnd <= TailEnd /\ TailEnd <= size
      /\ HasPart => part[1] = bufEnd /\ part[2] = TailEnd /\ bufEnd < TailEnd
      /\ ~HasPart => TailEnd = bufEnd
  BY <1>1 DEF HasPart, TailEnd
<1>3. Newlines \subseteq rpos .. bufEnd - 1
  BY DEF Newlines
<1>4. Newlines \subseteq 0..bufEnd
  BY <1>1, <1>3
<1>5. Newlines # {} => Max(Newlines) \in Newlines /\ \A n \in Newlines : n <= Max(Newlines)
  BY <1>1, <1>4, Greatest
<1>6. Newlines # {} => Max(Newlines) \in rpos .. bufEnd - 1
  BY <1>3, <1>5
<1> QED
  BY <1>1, <1>2, <1>3, <1>5, <1>6

LEMMA BackType ==
  ASSUME TypeInv, BackLine \/ BackKeep \/ BackFill \/ BackEnd \/ BackFail \/ BackStop
  PROVE  TypeOK' /\ Bounds'
<1>1. [Next]_vars /\ UNCHANGED <<size, rot, torn>> /\ req' = req
  BY TaskIsNext, Fixed DEF Task
<1>2. /\ UNCHANGED <<gone, maxOffset, left, right, found, startPos, endPos, gap, watch,
                     reopened, event, status>>
      /\ pc = "back" /\ broken' \in {broken, TRUE}
  BY DEF BackLine, BackKeep, BackFill, BackEnd, BackFail, BackStop, backOthers, outside, search,
         range, follow
<1>3. Kinds /\ Numbers /\ Results /\ OutOK /\ Bounds
  BY TypeParts DEF TypeInv
<1>4. /\ size \in Nat /\ startPos \in Nat /\ Chunk \in Nat
      /\ rpos \in Nat /\ bufEnd \in Nat /\ rpos <= bufEnd /\ bufEnd <= size
      /\ TailEnd \in Nat /\ bufEnd <= TailEnd /\ TailEnd <= size
      /\ HasPart => part[1] = bufEnd /\ part[2] = TailEnd /\ bufEnd < TailEnd
      /\ ~HasPart => TailEnd = bufEnd
      /\ part \in (0..size) \X (0..size) /\ cancelled \in BOOLEAN
      /\ Newlines # {} => /\ Max(Newlines) \in Nat
                          /\ rpos <= Max(Newlines) /\ Max(Newlines) < bufEnd
  BY <1>2, <1>3, BackFacts, SizeFacts, NumFacts DEF Numbers, Kinds
<1>5. /\ pc' \in {"back", "ended", "panicked"} /\ cancelled' \in BOOLEAN
      /\ OutOK' /\ out' \in Seq(Nat \X Nat)
  <2>1. CASE UNCHANGED <<out, cancelled>>
    BY <2>1, <1>1, <1>4, OutSame DEF BackLine, BackKeep, BackFill, BackEnd, BackFail, BackStop, Send
  <2>2. ASSUME NEW p \in Nat, NEW q \in Nat, p < q, q <= size, NEW next \in {"back", "ended"},
               Send(p, q, next)
        PROVE  /\ pc' \in {"back", "ended", "panicked"} /\ cancelled' \in BOOLEAN
               /\ OutOK' /\ out' \in Seq(Nat \X Nat)
    <3>1. /\ pc' \in {next, "panicked"} /\ cancelled' \in BOOLEAN
          /\ OutOK' /\ out' \in Seq(Nat \X Nat)
      BY <2>2, <1>1, SendType
    <3> QED
      BY <3>1
  <2>3. CASE BackLine /\ ~UNCHANGED <<out, cancelled>>
    <3>1. /\ Newlines # {} /\ Max(Newlines) + 1 # TailEnd
          /\ Send(Max(Newlines) + 1, TailEnd, "back")
      BY <2>3 DEF BackLine
    <3>2. Max(Newlines) + 1 \in Nat /\ Max(Newlines) + 1 < TailEnd
      BY <3>1, <1>4
    <3> QED
      BY <3>1, <3>2, <1>4, <2>2
  <2>4. CASE BackEnd /\ ~UNCHANGED <<out, cancelled>>
    <3>1. HasPart /\ Send(part[1], part[2], "ended")
      BY <2>4 DEF BackEnd
    <3> QED
      BY <3>1, <1>4, <2>2
  <2>5. CASE BackStop /\ ~UNCHANGED <<out, cancelled>>
    <3>1. CASE /\ rpos < bufEnd /\ Newlines # {}
               /\ \E q \in Max(Newlines) + 2 .. TailEnd : Send(Max(Newlines) + 1, q, "ended")
      <4>1. PICK q \in Max(Newlines) + 2 .. TailEnd : Send(Max(Newlines) + 1, q, "ended")
        BY <3>1
      <4>2. q \in Nat /\ Max(Newlines) + 1 \in Nat /\ Max(Newlines) + 1 < q /\ q <= size
        BY <3>1, <4>1, <1>4
      <4> QED
        BY <4>1, <4>2, <2>2
    <3>2. CASE /\ rpos = bufEnd /\ rpos <= startPos
               /\ \E q \in part[1] + 1 .. part[2] : Send(part[1], q, "ended")
      <4>1. PICK q \in part[1] + 1 .. part[2] : Send(part[1], q, "ended")
        BY <3>2
      <4>2. q \in Nat /\ part[1] \in Nat /\ part[1] < q /\ q <= size
        BY <4>1, NumFacts, <1>4
      <4> QED
        BY <4>1, <4>2, <2>2
    <3> QED
      BY <2>5, <3>1, <3>2 DEF BackStop
  <2> QED
    BY <2>1, <2>3, <2>4, <2>5 DEF BackKeep, BackFill, BackFail
<1>6. /\ rpos' \in 0..size /\ bufEnd' \in 0..size /\ part' \in (0..size) \X (0..size)
      /\ rpos' <= bufEnd' /\ (part'[1] < part'[2] => part'[1] = bufEnd')
  <2>1. CASE BackLine
    <3>1. bufEnd' = Max(Newlines) /\ Newlines # {} /\ part' = <<0, 0>> /\ rpos' = rpos
      BY <2>1 DEF BackLine
    <3> QED
      BY <3>1, <1>4
  <2>2. CASE BackKeep
    <3>1. part' = <<rpos, TailEnd>> /\ bufEnd' = rpos /\ rpos' = rpos
      BY <2>2 DEF BackKeep
    <3> QED
      BY <3>1, <1>4
  <2>3. CASE BackFill
    <3>1. rpos = bufEnd /\ rpos > startPos /\ rpos' = Max({startPos, rpos - Chunk})
          /\ UNCHANGED <<bufEnd, part>>
      BY <2>3 DEF BackFill
    <3>2. rpos' = IF startPos >= rpos - Chunk THEN startPos ELSE rpos - Chunk
      BY <3>1, <1>4, MaxOfTwo
    <3> QED
      BY <3>1, <3>2, <1>4 DEF HasPart
  <2>4. CASE BackEnd
    BY <2>4, <1>4 DEF BackEnd
  <2>5. CASE BackFail \/ BackStop
    BY <2>5, <1>4 DEF BackFail, BackStop, reader, HasPart
  <2> QED
    BY <2>1, <2>2, <2>3, <2>4, <2>5
<1>7. Kinds'
  BY <1>1, <1>2, <1>3, <1>5 DEF Kinds
<1>8. gap = <<>>
  BY <1>2, <1>3 DEF Bounds, Shapes
<1>9. KeptPart'
  BY <1>1, <1>2, <1>3, <1>6 DEF KeptPart, Bounds, HasPart
<1> QED
  BY <1>1, <1>2, <1>5, <1>6, <1>7, <1>8, <1>9, RestType

LEMMA TypeStep == ASSUME TypeInv, [Next]_vars PROVE TypeInv'
<1>1. TypeOK' /\ Bounds'
  BY EnvType, ProbeType, OpenType, FoundType, ReadType, StayType, NextLineType, BackType
     DEF Next, Task
<1> QED
  BY <1>1, FileStep DEF TypeInv

\* The type invariant.
THEOREM TypeCorrect == Spec => []TypeOK
<1>1. Init => TypeInv
  BY InitType
<1>2. TypeInv /\ [Next]_vars => TypeInv'
  BY TypeStep
<1>3. TypeInv => TypeOK
  BY DEF TypeInv
<1> QED
  BY <1>1, <1>2, <1>3, PTL DEF Spec

-----------------------------------------------------------------------------
(* The search.                                                             *)

LEMMA SameKnown ==
  ASSUME [Next]_vars
  PROVE  /\ Lines' = Lines /\ Plain' = Plain /\ Start' = Start /\ Stop' = Stop
         /\ \A i \in Lines : End(i)' = End(i)
         /\ maxOffset' = maxOffset =>
              /\ \A low : Known(low, FALSE)' = Known(low, FALSE)
              /\ \A low : Known(low, TRUE)' = Known(low, TRUE)
<1>1. log' = log /\ req' = req
  BY Fixed
<1> QED
  BY <1>1 DEF Lines, Plain, Start, Stop, End, Known

LEMMA KnownFacts ==
  ASSUME TypeInv, NEW low \in Int, NEW i, i \in Known(low, FALSE) \/ i \in Known(low, TRUE)
  PROVE  /\ i \in Lines /\ i \in Nat /\ log[i].at \in Nat /\ log[i].ts \in Nat /\ log[i].ts # 0
         /\ low <= log[i].at /\ log[i].at < maxOffset
<1>1. i \in Lines /\ log[i].ts # 0 /\ low <= log[i].at /\ log[i].at < maxOffset
  BY DEF Known
<1> QED
  BY <1>1, LogFacts DEF TypeInv, Lines

\* Lines that begin earlier come earlier, with earlier times.
LEMMA InTime ==
  ASSUME TypeInv, NEW i \in Lines, NEW j \in Lines, log[i].ts # 0, log[j].ts # 0,
         log[i].at <= log[j].at
  PROVE  i <= j /\ log[i].ts <= log[j].ts
<1>1. /\ FileInv /\ i \in Nat /\ j \in Nat /\ log[i].at \in Nat /\ log[j].at \in Nat
      /\ log[i].ts \in Nat /\ log[j].ts \in Nat /\ End(j) \in Nat /\ log[j].at < End(j)
  BY LogFacts DEF TypeInv, Lines
<1>2. ~(j < i)
  BY <1>1, Apart
<1>3. CASE i = j
  BY <1>1, <1>3
<1>4. CASE i < j
  BY <1>1, <1>4, LogFacts
<1> QED
  BY <1>1, <1>2, <1>3, <1>4

\* The lines that a search can find.
Candidates(mode) ==
  {i \in Lines : /\ log[i].at < maxOffset /\ log[i].ts # 0
                 /\ (mode = "until") => log[i].final}

LEMMA CandidatesKnown ==
  ASSUME TypeInv
  PROVE  Candidates("since") = Known(0, FALSE) /\ Candidates("until") = Known(0, TRUE)
<1>1. \A i \in Lines : log[i].at \in Nat
  BY LogFacts DEF TypeInv
<1> QED
  BY <1>1 DEF Candidates, Known

\* In a plain log the scan finds the first line there is.
LEMMA ProbeLine ==
  ASSUME TypeInv, Plain, NEW mode \in {"since", "until"}, Probe(mode)
  PROVE  \E mid \in Nat : /\ left <= mid /\ mid <= right
           /\ \/ /\ left' = left /\ right' = mid - 1 /\ found' = found
                 /\ \A i \in Candidates(mode) : ~(mid <= log[i].at /\ log[i].at <= right)
              \/ \E i \in Candidates(mode) :
                   /\ mid <= log[i].at /\ log[i].at <= right
                   /\ LET ok == IF mode = "since" THEN log[i].ts >= req.start
                                                  ELSE log[i].ts <= req.stop
                      IN  /\ IF ok THEN IsFound(i)' ELSE found' = found
                          /\ ok => found' # <<>> /\ found'[1] = log[i].at
                          /\ IF ok = (mode = "since")
                               THEN right' = log[i].at - 1 /\ left' = left
                               ELSE left' = log[i].at + 1 /\ right' = right
<1> DEFINE f == mode = "until"
<1>1. PICK mid \in Nat, at \in {None} \cup Nat :
              /\ left <= mid /\ mid <= right /\ at = Scan(mid, f)
              /\ \/ /\ at = None /\ left' = left /\ right' = mid - 1 /\ found' = found
                 \/ /\ at # None /\ mid <= at /\ at <= right /\ at < Total /\ at < OldSize
                    /\ Parse(at, f) # 0
                    /\ LET ts == Parse(at, f)
                           ok == IF mode = "since" THEN ts >= req.start ELSE ts <= req.stop
                       IN  /\ found' = IF ok THEN <<at, TextEnd(at, OldSize) - at>> ELSE found
                           /\ IF ok = (mode = "since")
                                THEN right' = at - 1 /\ left' = left
                                ELSE left' = at + 1 /\ right' = right
  BY ProbeFacts
<1>f. f \in BOOLEAN
  OBVIOUS
<1> HIDE DEF f
<1>2. /\ FileInv /\ OldSize \in Nat /\ size \in Nat /\ OldSize <= size /\ size <= Total /\ Total \in Nat
      /\ right < maxOffset /\ right \in Int /\ maxOffset \in Nat /\ maxOffset <= OldSize
  BY SizeFacts, NumFacts, LogFacts DEF TypeInv
<1>3. CASE at = None
  <2>1. \A i \in Lines : (mid <= log[i].at /\ log[i].at <= right) => Parse(log[i].at, f) = 0
    <3>1. Scan(mid, f) = None /\ Scan(mid, f) \notin Nat
      BY <1>1, <1>3 DEF None
    <3> QED
      BY <3>1, <1>f, ScanFacts
  <2>2. ASSUME NEW i \in Candidates(mode), mid <= log[i].at, log[i].at <= right PROVE FALSE
    <3>1. i \in Lines /\ log[i].ts # 0 /\ (f => log[i].final)
      BY DEF Candidates, f
    <3>2. Parse(log[i].at, f) = IF f => log[i].final THEN log[i].ts ELSE 0
      BY <3>1, <1>2, <1>f, ParseLine
    <3> QED
      BY <2>1, <2>2, <3>1, <3>2
  <2>3. left' = left /\ right' = mid - 1 /\ found' = found
    BY <1>1, <1>3
  <2>4. \A i \in Candidates(mode) : ~(mid <= log[i].at /\ log[i].at <= right)
    BY <2>2
  <2> QED
    BY <1>1, <2>3, <2>4 DEF f
<1>4. CASE at # None
  <2>1. /\ at \in Nat /\ mid <= at /\ at <= right /\ at < Total /\ at < OldSize /\ Parse(at, f) # 0
    BY <1>1, <1>4
  <2>i. PICK i \in Lines : i = LineOf(at)
    BY <2>1, <1>2, LineFacts
  <2>2. /\ at = log[i].at /\ Parse(at, f) = log[i].ts /\ (f => log[i].final) /\ at + 1 < LineEnd(at)
    BY <2>1, <2>i, <1>2, <1>f, ParseFacts
  <2>3. i \in Lines /\ LineEnd(at) = End(i) /\ End(i) \in Nat
    BY <2>1, <2>i, <1>2, LineFacts
  <2>4. i \in Candidates(mode)
    BY <2>1, <2>2, <2>3, <1>2 DEF Candidates, f
  <2>5. /\ TextEnd(at, OldSize) = IF End(i) - 1 <= OldSize THEN End(i) - 1 ELSE OldSize
        /\ TextEnd(at, OldSize) \in Nat
    <3>1. at < OldSize /\ OldSize <= size
      BY <2>1, <1>2
    <3> QED
      BY <3>1, <2>1, <2>3, <1>2, TextEndFacts
  <2>b. TextEnd(at, OldSize) < End(i)
    BY <2>1, <2>3, <2>5, <1>2
  <2>6. TextEnd(at, OldSize) = End(i) - 1 \/ i \in torn
    <3>1. CASE End(i) - 1 <= OldSize
      BY <2>5, <3>1
    <3>2. CASE OldSize < End(i) - 1
      <4>1. log[i].at < OldSize /\ OldSize < End(i)
        BY <2>1, <2>2, <2>3, <3>2, <1>2
      <4>2. i \in Partial(OldSize)
        BY <4>1, <2>3 DEF Partial, Lines
      <4> QED
        BY <4>2 DEF TypeInv, FileInv
    <3> QED
      BY <3>1, <3>2, <2>3, <1>2
  <2>7. log' = log /\ torn' = torn /\ End(i)' = End(i)
    <3>1. [Next]_vars /\ torn' = torn
      BY ProbeFacts DEF Next, Task
    <3> QED
      BY <3>1, Fixed DEF End
  <2>8. found' = <<at, TextEnd(at, OldSize) - at>> => IsFound(i)' /\ found' # <<>> /\ found'[1] = log[i].at
    <3>1. at + (TextEnd(at, OldSize) - at) = TextEnd(at, OldSize)
      <4> DEFINE t == TextEnd(at, OldSize)
      <4>1. t \in Nat
        BY <2>5
      <4> HIDE DEF t
      <4>2. at + (t - at) = t
        BY <4>1, <2>1
      <4> QED
        BY <4>2 DEF t
    <3> QED
      BY <3>1, <2>2, <2>b, <2>6, <2>7 DEF IsFound
  <2>9. LET ok == IF mode = "since" THEN log[i].ts >= req.start ELSE log[i].ts <= req.stop
        IN  /\ found' = IF ok THEN <<at, TextEnd(at, OldSize) - at>> ELSE found
            /\ IF ok = (mode = "since")
                 THEN right' = log[i].at - 1 /\ left' = left
                 ELSE left' = log[i].at + 1 /\ right' = right
    BY <1>1, <1>4, <2>2
  <2> QED
    BY <1>1, <2>1, <2>2, <2>4, <2>8, <2>9 DEF f
<1> QED
  BY <1>3, <1>4

LEMMA SinceStep ==
  ASSUME TypeInv, SearchInv, Plain, Probe("since")
  PROVE  SinceInv'
<1>1. [Next]_vars /\ maxOffset' = maxOffset /\ pc' = pc /\ pc = "since" /\ torn' = torn
  BY ProbeFacts DEF Next, Task
<1>2. /\ Lines' = Lines /\ Start' = Start /\ log' = log /\ req' = req
      /\ Known(0, FALSE)' = Known(0, FALSE) /\ \A i \in Lines : End(i)' = End(i)
  BY <1>1, SameKnown, Fixed
<1> DEFINE K == Known(0, FALSE)
<1>3. /\ \A i \in K : /\ log[i].at < left => log[i].ts < req.start
                      /\ right < log[i].at => found # <<>> /\ found[1] <= log[i].at
      /\ found # <<>> => \E i \in K : log[i].ts >= req.start /\ IsFound(i)
      /\ Start # 0
  BY <1>1 DEF SearchInv, SinceInv
<1>4. \A i \in K : i \in Lines /\ log[i].at \in Nat /\ log[i].ts \in Nat /\ log[i].ts # 0
  <2> SUFFICES ASSUME NEW i \in Known(0, FALSE)
               PROVE  i \in Lines /\ log[i].at \in Nat /\ log[i].ts \in Nat /\ log[i].ts # 0
    OBVIOUS
  <2>1. 0 \in Int
    OBVIOUS
  <2> QED
    BY <2>1, KnownFacts
<1>5. left \in Nat /\ right \in Int /\ req.start \in Nat
  <2>1. req \in Request
    BY LogFacts DEF TypeInv
  <2> QED
    BY <2>1, NumFacts DEF Request
<1>6. PICK mid \in Nat :
        /\ left <= mid /\ mid <= right
        /\ \/ /\ left' = left /\ right' = mid - 1 /\ found' = found
              /\ \A i \in K : ~(mid <= log[i].at /\ log[i].at <= right)
           \/ \E i \in K :
                /\ mid <= log[i].at /\ log[i].at <= right
                /\ IF log[i].ts >= req.start
                     THEN /\ IsFound(i)' /\ found' # <<>> /\ found'[1] = log[i].at
                          /\ right' = log[i].at - 1 /\ left' = left
                     ELSE /\ found' = found /\ left' = log[i].at + 1 /\ right' = right
  <2>1. K = Candidates("since")
    BY CandidatesKnown
  <2> HIDE DEF K
  <2> QED
    BY <2>1, ProbeLine
<1> HIDE DEF K
<1>7. found' = found => \A i \in K : IsFound(i) => IsFound(i)'
  BY <1>1, <1>2, <1>4 DEF IsFound
<1>8. CASE /\ left' = left /\ right' = mid - 1 /\ found' = found
           /\ \A i \in K : ~(mid <= log[i].at /\ log[i].at <= right)
  <2>1. \A i \in K : right' < log[i].at => right < log[i].at
    BY <1>4, <1>5, <1>6, <1>8
  <2> QED
    BY <2>1, <1>1, <1>2, <1>3, <1>7, <1>8 DEF SinceInv, K
<1>9. ASSUME NEW i \in K, mid <= log[i].at, log[i].at <= right, log[i].ts >= req.start,
             IsFound(i)', found' # <<>>, found'[1] = log[i].at, right' = log[i].at - 1, left' = left
      PROVE  SinceInv'
  <2>1. \A j \in K : right' < log[j].at => found'[1] <= log[j].at
    BY <1>4, <1>9
  <2> QED
    BY <2>1, <1>1, <1>2, <1>3, <1>9 DEF SinceInv, K
<1>10. ASSUME NEW i \in K, mid <= log[i].at, log[i].at <= right, ~(log[i].ts >= req.start),
              found' = found, left' = log[i].at + 1, right' = right
       PROVE  SinceInv'
  <2>1. ASSUME NEW j \in K, log[j].at < left' PROVE log[j].ts < req.start
    <3>1. log[j].at <= log[i].at
      BY <1>4, <1>10, <2>1
    <3>2. log[j].ts <= log[i].ts
      BY <3>1, <1>4, InTime
    <3> QED
      BY <3>2, <1>4, <1>5, <1>10
  <2> QED
    BY <2>1, <1>1, <1>2, <1>3, <1>7, <1>10 DEF SinceInv, K
<1> QED
  BY <1>6, <1>8, <1>9, <1>10

LEMMA LowFacts == ASSUME TypeInv PROVE Low \in Nat
BY NumFacts DEF Low

LEMMA UntilStep ==
  ASSUME TypeInv, SearchInv, Plain, Probe("until")
  PROVE  UntilInv'
<1>1. [Next]_vars /\ maxOffset' = maxOffset /\ pc' = pc /\ pc = "until" /\ torn' = torn
      /\ startPos' = startPos
  BY ProbeFacts DEF Next, Task
<1>2. /\ Lines' = Lines /\ Stop' = Stop /\ log' = log /\ req' = req /\ Low' = Low
      /\ \A i \in Lines : End(i)' = End(i)
  BY <1>1, SameKnown, Fixed DEF Low
<1>a. Known(Low, TRUE)' = Known(Low, TRUE)
  BY <1>1, <1>2 DEF Known
<1> DEFINE K == Known(Low, TRUE)
           C == Candidates("until")
<1>3. /\ \A i \in K : /\ right < log[i].at => log[i].ts > req.stop
                      /\ log[i].at < left => found # <<>> /\ log[i].at <= found[1]
      /\ found # <<>> => \E i \in K : log[i].ts <= req.stop /\ IsFound(i)
      /\ Stop # 0 /\ Low <= left
  BY <1>1 DEF SearchInv, UntilInv
<1>4. \A i \in K : /\ i \in Lines /\ log[i].at \in Nat /\ log[i].ts \in Nat /\ log[i].ts # 0
                   /\ i \in C
  <2> SUFFICES ASSUME NEW i \in Known(Low, TRUE)
               PROVE  /\ i \in Lines /\ log[i].at \in Nat /\ log[i].ts \in Nat /\ log[i].ts # 0
                      /\ i \in C
    OBVIOUS
  <2>1. Low \in Int
    BY LowFacts
  <2>2. i \in Lines /\ log[i].at \in Nat /\ log[i].ts \in Nat /\ log[i].ts # 0
    BY <2>1, KnownFacts
  <2>3. i \in C
    BY <2>2 DEF Known, Candidates
  <2> QED
    BY <2>2, <2>3
<1>5. left \in Nat /\ right \in Int /\ req.stop \in Nat /\ Low \in Nat
  <2>1. req \in Request
    BY LogFacts DEF TypeInv
  <2> QED
    BY <2>1, NumFacts, LowFacts DEF Request
<1>6. PICK mid \in Nat :
        /\ left <= mid /\ mid <= right
        /\ \/ /\ left' = left /\ right' = mid - 1 /\ found' = found
              /\ \A i \in C : ~(mid <= log[i].at /\ log[i].at <= right)
           \/ \E i \in C :
                /\ mid <= log[i].at /\ log[i].at <= right
                /\ IF log[i].ts <= req.stop
                     THEN /\ IsFound(i)' /\ found' # <<>> /\ found'[1] = log[i].at
                          /\ left' = log[i].at + 1 /\ right' = right
                     ELSE /\ found' = found /\ right' = log[i].at - 1 /\ left' = left
  BY ProbeLine
<1>b. \A i \in C : (mid <= log[i].at) => i \in K
  <2> SUFFICES ASSUME NEW i \in C, mid <= log[i].at PROVE i \in Known(Low, TRUE)
    OBVIOUS
  <2>2. /\ i \in Lines /\ log[i].at < maxOffset /\ log[i].ts # 0 /\ log[i].final
        /\ log[i].at \in Nat
    BY LogFacts DEF Candidates, TypeInv
  <2>3. Low <= log[i].at
    BY <2>2, <1>3, <1>5, <1>6
  <2> QED
    BY <2>2, <2>3 DEF Known
<1> HIDE DEF K, C
<1>7. found' = found => \A i \in K : IsFound(i) => IsFound(i)'
  BY <1>1, <1>2, <1>4 DEF IsFound
<1>8. CASE /\ left' = left /\ right' = mid - 1 /\ found' = found
           /\ \A i \in C : ~(mid <= log[i].at /\ log[i].at <= right)
  <2>1. \A i \in K : right' < log[i].at => right < log[i].at
    BY <1>4, <1>5, <1>6, <1>8
  <2> QED
    BY <2>1, <1>1, <1>2, <1>a, <1>3, <1>7, <1>8 DEF UntilInv, K
<1>9. ASSUME NEW i \in K, mid <= log[i].at, log[i].at <= right, log[i].ts <= req.stop,
             IsFound(i)', found' # <<>>, found'[1] = log[i].at, left' = log[i].at + 1, right' = right
      PROVE  UntilInv'
  <2>1. \A j \in K : log[j].at < left' => log[j].at <= found'[1]
    BY <1>4, <1>9
  <2>2. Low <= left'
    BY <1>3, <1>4, <1>5, <1>6, <1>9
  <2> QED
    BY <2>1, <2>2, <1>1, <1>2, <1>a, <1>3, <1>9 DEF UntilInv, K
<1>10. ASSUME NEW i \in K, mid <= log[i].at, log[i].at <= right, ~(log[i].ts <= req.stop),
              found' = found, right' = log[i].at - 1, left' = left
       PROVE  UntilInv'
  <2>1. ASSUME NEW j \in K, right' < log[j].at PROVE log[j].ts > req.stop
    <3>1. log[i].at <= log[j].at
      BY <1>4, <1>10, <2>1
    <3>2. log[i].ts <= log[j].ts
      BY <3>1, <1>4, InTime
    <3> QED
      BY <3>2, <1>4, <1>5, <1>10
  <2> QED
    BY <2>1, <1>1, <1>2, <1>a, <1>3, <1>7, <1>10 DEF UntilInv, K
<1> QED
  BY <1>6, <1>8, <1>9, <1>10, <1>b

\* The state of the service stays in a step of its surroundings.
LEMMA EnvStays ==
  ASSUME Write \/ Rotate \/ Leave \/ Shutdown \/ UNCHANGED vars
  PROVE  UNCHANGED <<pc, maxOffset, left, right, found, startPos, endPos, rpos, bufEnd, part,
                     gap, watch, reopened, out, status, broken>>
<1>1. UNCHANGED service
  BY DEF Write, Rotate, Leave, Shutdown, vars, service
<1> QED
  BY <1>1 DEF service, search, range, reader, follow

\* What can follow when neither the search nor its surroundings make the step.
LEMMA OtherPc ==
  ASSUME Task \/ Fail \/ ReadFail \/ ReadStop \/ BackFail \/ BackStop,
         ~Open, ~Probe("since"), ~Probe("until"), ~SinceFound, ~UntilFound
  PROVE  /\ pc' \in {"read", "searched", "back", "watch", "seek", "listen", "lines", "ended", "panicked"}
         /\ UNCHANGED <<maxOffset, startPos, endPos>>
         /\ pc \in {"open", "since", "until"} => pc' = "ended" /\ status' = "failed"
BY DEF Task, Fail, ReadFail, ReadStop, BackFail, BackStop, ReadLine, ReadEnd, Searched, BackLine,
       BackKeep, BackFill, BackEnd, Watch, Seek, Notified, NextLine, LinesStop, NoMoreLines,
       ListenStop, Send, Ended, readOthers, stayOthers, backOthers, lineOthers, range

LEMMA SearchStep ==
  ASSUME TypeInv, SearchInv, [Next]_vars
  PROVE  SearchInv'
<1>1. /\ Lines' = Lines /\ Plain' = Plain /\ Start' = Start /\ Stop' = Stop /\ log' = log /\ req' = req
      /\ \A i \in Lines : End(i)' = End(i)
      /\ torn \subseteq torn'
  BY SameKnown, Fixed, DiskStep
<1>2. maxOffset' = maxOffset => /\ Known(0, FALSE)' = Known(0, FALSE)
                                /\ startPos' = startPos =>
                                     /\ Low' = Low
                                     /\ Known(Low, TRUE)' = Known(Low, TRUE)
  BY <1>1 DEF Low, Known
<1>3. CASE Write \/ Rotate \/ Leave \/ Shutdown \/ UNCHANGED vars
  <2>1. UNCHANGED <<pc, maxOffset, left, right, found, startPos>>
    BY <1>3, EnvStays
  <2>2. \A i \in Lines : IsFound(i) => IsFound(i)'
    BY <2>1, <1>1 DEF IsFound
  <2>3. Known(0, FALSE) \subseteq Lines /\ Known(Low, TRUE) \subseteq Lines
    BY DEF Known
  <2>4. SinceInv'
    BY <2>1, <2>2, <2>3, <1>1, <1>2 DEF SearchInv, SinceInv
  <2>5. UntilInv'
    BY <2>1, <2>2, <2>3, <1>1, <1>2 DEF SearchInv, UntilInv
  <2> QED
    BY <2>1, <2>4, <2>5 DEF SearchInv
<1>4. CASE Open
  <2>1. startPos = 0 /\ maxOffset' = OldSize
    BY <1>4 DEF SearchInv, Open
  <2>2. CASE pc' \in {"since", "until"}
    <3>1. /\ left' = 0 /\ right' = OldSize - 1 /\ found' = <<>> /\ startPos' = 0
          /\ pc' = "since" => Start # 0
          /\ pc' = "until" => Stop # 0
      BY <1>4, <2>1, <2>2 DEF Open, Begin, ReadRange, range
    <3>2. OldSize \in Nat
      BY SizeFacts
    <3>3. \A i \in Lines : log[i].at < OldSize => ~(log[i].at < left') /\ ~(right' < log[i].at)
      <4>1. \A i \in Lines : log[i].at \in Nat
        BY LogFacts DEF TypeInv
      <4> QED
        BY <4>1, <3>1, <3>2
    <3>4. Low' = 0
      BY <3>1 DEF Low
    <3>5. \A i \in Known(0, FALSE)' : i \in Lines /\ log[i].at < OldSize
      BY <1>1, <2>1 DEF Known
    <3>6. \A i \in Known(Low, TRUE)' : i \in Lines /\ log[i].at < OldSize
      BY <1>1, <2>1 DEF Known
    <3>7. SinceInv'
      <4>1. \A i \in Known(0, FALSE)' : ~(log[i].at < left') /\ ~(right' < log[i].at)
        BY <3>3, <3>5
      <4> QED
        BY <4>1, <3>1, <1>1 DEF SinceInv
    <3>8. UntilInv'
      <4>1. \A i \in Known(Low, TRUE)' : ~(log[i].at < left') /\ ~(right' < log[i].at)
        BY <3>3, <3>6
      <4>2. Low' <= left'
        BY <3>1, <3>4
      <4>3. pc' = "until" => Stop' # 0
        BY <3>1, <1>1
      <4>4. found' = <<>>
        BY <3>1
      <4>5. \A i \in Known(Low, TRUE)' : ~(log'[i].at < left') /\ ~(right' < log'[i].at)
        BY <4>1, <1>1
      <4> QED
        BY <4>2, <4>3, <4>4, <4>5, Zenon DEF UntilInv
    <3> QED
      BY <3>1, <3>7, <3>8 DEF SearchInv
  <2>3. CASE pc' \notin {"since", "until"}
    <3>1. pc' \in {"back", "read"}
      BY <1>4, <2>3 DEF Open, Begin, ReadRange
    <3> QED
      BY <3>1 DEF SearchInv, SinceInv, UntilInv
  <2> QED
    BY <2>2, <2>3
<1>5. CASE Probe("since")
  <2>1. pc' = "since" /\ startPos' = startPos /\ pc = "since"
    BY <1>5, ProbeFacts
  <2>2. SinceInv'
    BY <1>1, <1>5, SinceStep DEF SinceInv
  <2> QED
    BY <2>1, <2>2 DEF SearchInv, UntilInv
<1>6. CASE Probe("until")
  <2>1. pc' = "until"
    BY <1>6, ProbeFacts
  <2>2. UntilInv'
    BY <1>1, <1>6, UntilStep DEF UntilInv
  <2> QED
    BY <2>1, <2>2 DEF SearchInv, SinceInv
<1>7. CASE SinceFound
  <2>1. CASE pc' = "until"
    <3>1. /\ found # <<>> /\ Stop # 0 /\ left' = IF req.backward THEN 0 ELSE found[1]
          /\ right' = maxOffset - 1 /\ found' = <<>> /\ startPos' = found[1] /\ maxOffset' = maxOffset
      BY <1>7, <2>1 DEF SinceFound, Ended, Begin, ReadRange
    <3>2. maxOffset \in Nat /\ found[1] \in Nat
      BY <3>1, SizeFacts, NumFacts
    <3>3. Low' = left' /\ left' \in Nat
      BY <3>1, <3>2, <1>1 DEF Low
    <3>4. ASSUME NEW i \in Known(Low, TRUE)' PROVE ~(log[i].at < left') /\ ~(right' < log[i].at)
      <4>1. i \in Lines /\ log[i].at < maxOffset /\ Low' <= log[i].at
        BY <3>1, <3>4, <1>1 DEF Known
      <4>2. log[i].at \in Nat
        BY <4>1, LogFacts DEF TypeInv
      <4>3. Low' <= log[i].at => ~(log[i].at < left')
        BY <4>2, <3>3
      <4>4. log[i].at < maxOffset => ~(right' < log[i].at)
        BY <4>2, <3>1, <3>2
      <4> QED
        BY <4>1, <4>3, <4>4
    <3>5. Low' <= left' /\ Stop' # 0 /\ found' = <<>>
      BY <3>1, <3>3, <1>1
    <3>6. UntilInv'
      <4>1. \A i \in Known(Low, TRUE)' : ~(log'[i].at < left') /\ ~(right' < log'[i].at)
        BY <3>4, <1>1
      <4> QED
        BY <3>5, <4>1, Zenon DEF UntilInv
    <3>7. SinceInv' /\ (pc' \in {"open", "since"} => startPos' = 0)
      BY <2>1 DEF SinceInv
    <3> QED
      BY <3>6, <3>7 DEF SearchInv
  <2>2. CASE pc' # "until"
    <3>1. pc' \in {"back", "read", "ended"}
      BY <1>7, <2>2 DEF SinceFound, Ended, Begin, ReadRange
    <3> QED
      BY <3>1 DEF SearchInv, SinceInv, UntilInv
  <2> QED
    BY <2>1, <2>2
<1>8. CASE UntilFound
  <2>1. pc' \in {"back", "read", "ended"}
    BY <1>8 DEF UntilFound, Ended, ReadRange
  <2> QED
    BY <2>1 DEF SearchInv, SinceInv, UntilInv
<1>9. CASE /\ Task \/ Fail \/ ReadFail \/ ReadStop \/ BackFail \/ BackStop
           /\ ~Open /\ ~Probe("since") /\ ~Probe("until") /\ ~SinceFound /\ ~UntilFound
  <2>1. pc' \notin {"open", "since", "until"}
    BY <1>9, OtherPc
  <2> QED
    BY <2>1 DEF SearchInv, SinceInv, UntilInv
<1> QED
  BY <1>3, <1>4, <1>5, <1>6, <1>7, <1>8, <1>9, NextCases

LEMMA SearchInit == ASSUME Init PROVE SearchInv
BY DEF Init, SearchInv, SinceInv, UntilInv

\* Lines that begin at the same byte are the same, and the order of lines is that of
\* their bytes.
LEMMA Order ==
  ASSUME FileInv, NEW i \in Lines, NEW j \in Lines
  PROVE  i < j <=> log[i].at < log[j].at
<1>1. /\ i \in Nat /\ j \in Nat /\ log[i].at \in Nat /\ log[j].at \in Nat /\ End(i) \in Nat /\ End(j) \in Nat
      /\ log[i].at < End(i) /\ log[j].at < End(j)
  BY LogFacts DEF Lines
<1>2. CASE i < j
  BY <1>1, <1>2, Apart
<1>3. CASE j < i
  BY <1>1, <1>3, Apart
<1> QED
  BY <1>1, <1>2, <1>3

LEMMA LineNumbers ==
  ASSUME FileInv
  PROVE  Len(log) \in Nat /\ Lines \subseteq Nat /\ Lines \subseteq 0..Len(log)
BY LogFacts DEF Lines

LEMMA SinceEnd ==
  ASSUME TypeInv, SinceInv, Plain, left > right, pc = "since",
         NEW hits, hits = {i \in Known(0, FALSE) : log[i].ts >= req.start}
  PROVE  IF hits = {} THEN found = <<>>
         ELSE /\ found # <<>> /\ found[1] = log[Min(hits)].at
              /\ found[1] + found[2] = End(Min(hits)) - 1 \/ Min(hits) \in torn
<1> DEFINE K == Known(0, FALSE)
<1>1. /\ \A i \in K : /\ log[i].at < left => log[i].ts < req.start
                      /\ right < log[i].at => found # <<>> /\ found[1] <= log[i].at
      /\ found # <<>> => \E i \in K : log[i].ts >= req.start /\ IsFound(i)
      /\ hits = {i \in K : log[i].ts >= req.start}
  BY DEF SinceInv
<1>2. \A i \in K : i \in Lines /\ log[i].at \in Nat /\ log[i].ts \in Nat
  BY KnownFacts, 0 \in Int
<1> HIDE DEF K
<1>3. left \in Nat /\ right \in Int /\ req.start \in Nat
  <2>1. req \in Request
    BY LogFacts DEF TypeInv
  <2> QED
    BY <2>1, NumFacts DEF Request
<1>4. CASE hits = {}
  BY <1>1, <1>4
<1>5. CASE hits # {}
  <2>1. hits \subseteq Lines /\ Min(hits) \in hits /\ \A y \in hits : Min(hits) <= y
    <3>1. hits \subseteq Lines /\ hits \subseteq Nat
      BY <1>1, <1>2, LineNumbers DEF TypeInv
    <3> QED
      BY <3>1, <1>5, Least
  <2>2. PICK m \in hits : m = Min(hits)
    BY <2>1
  <2>3. m \in K /\ log[m].ts >= req.start
    BY <1>1
  <2>4. found # <<>> /\ found[1] <= log[m].at
    BY <2>3, <1>1, <1>2, <1>3
  <2>5. PICK i \in hits : IsFound(i)
    BY <2>4, <1>1
  <2>6. i = m
    <3>1. i \in Lines /\ m \in Lines /\ i \in Nat /\ m \in Nat /\ m <= i
      BY <2>1, <2>2, LineNumbers DEF TypeInv
    <3>2. ~(m < i)
      <4>1. log[i].at <= log[m].at
        BY <2>4, <2>5 DEF IsFound
      <4>2. log[i].at \in Nat /\ log[m].at \in Nat
        BY <3>1, LogFacts DEF TypeInv
      <4>3. ~(log[m].at < log[i].at)
        BY <4>1, <4>2
      <4> QED
        BY <4>3, <3>1, Order DEF TypeInv
    <3> QED
      BY <3>1, <3>2
  <2> QED
    BY <2>2, <2>4, <2>5, <2>6, <1>5 DEF IsFound
<1> QED
  BY <1>4, <1>5

LEMMA UntilEnd ==
  ASSUME TypeInv, UntilInv, Plain, left > right, pc = "until",
         NEW hits, hits = {i \in Known(Low, TRUE) : log[i].ts <= req.stop}
  PROVE  IF hits = {} THEN found = <<>>
         ELSE /\ found # <<>> /\ found[1] = log[Max(hits)].at
              /\ found[1] + found[2] = End(Max(hits)) - 1 \/ Max(hits) \in torn
<1> DEFINE K == Known(Low, TRUE)
<1>1. /\ \A i \in K : /\ right < log[i].at => log[i].ts > req.stop
                      /\ log[i].at < left => found # <<>> /\ log[i].at <= found[1]
      /\ found # <<>> => \E i \in K : log[i].ts <= req.stop /\ IsFound(i)
      /\ hits = {i \in K : log[i].ts <= req.stop}
  BY DEF UntilInv
<1>2. \A i \in K : i \in Lines /\ log[i].at \in Nat /\ log[i].ts \in Nat
  <2>1. Low \in Int
    BY LowFacts
  <2> QED
    BY <2>1, KnownFacts
<1> HIDE DEF K
<1>3. left \in Nat /\ right \in Int /\ req.stop \in Nat
  <2>1. req \in Request
    BY LogFacts DEF TypeInv
  <2> QED
    BY <2>1, NumFacts DEF Request
<1>4. CASE hits = {}
  BY <1>1, <1>4
<1>5. CASE hits # {}
  <2>1. hits \subseteq Lines /\ Max(hits) \in hits /\ \A y \in hits : y <= Max(hits)
    <3>1. hits \subseteq Lines /\ hits \subseteq 0..Len(log) /\ Len(log) \in Nat
      BY <1>1, <1>2, LineNumbers DEF TypeInv
    <3> QED
      BY <3>1, <1>5, Greatest
  <2>2. PICK m \in hits : m = Max(hits)
    BY <2>1
  <2>3. m \in K /\ log[m].ts <= req.stop
    BY <1>1
  <2>4. found # <<>> /\ log[m].at <= found[1]
    BY <2>3, <1>1, <1>2, <1>3
  <2>5. PICK i \in hits : IsFound(i)
    BY <2>4, <1>1
  <2>6. i = m
    <3>1. i \in Lines /\ m \in Lines /\ i \in Nat /\ m \in Nat /\ i <= m
      BY <2>1, <2>2, LineNumbers DEF TypeInv
    <3>2. ~(i < m)
      <4>1. log[m].at <= log[i].at
        BY <2>4, <2>5 DEF IsFound
      <4>2. log[i].at \in Nat /\ log[m].at \in Nat
        BY <3>1, LogFacts DEF TypeInv
      <4>3. ~(log[i].at < log[m].at)
        BY <4>1, <4>2
      <4> QED
        BY <4>3, <3>1, Order DEF TypeInv
    <3> QED
      BY <3>1, <3>2
  <2> QED
    BY <2>2, <2>4, <2>5, <2>6, <1>5 DEF IsFound
<1> QED
  BY <1>4, <1>5

LEMMA SearchEnd == ASSUME TypeInv, SearchInv PROVE SearchExact
<1> SUFFICES ASSUME Plain, left > right, pc \in {"since", "until"}
             PROVE  SearchExact
  BY DEF SearchExact
<1>1. CASE pc = "since"
  <2>1. IF {i \in Known(0, FALSE) : log[i].ts >= req.start} = {} THEN found = <<>>
        ELSE /\ found # <<>>
             /\ found[1] = log[Min({i \in Known(0, FALSE) : log[i].ts >= req.start})].at
             /\ \/ found[1] + found[2] = End(Min({i \in Known(0, FALSE) : log[i].ts >= req.start})) - 1
                \/ Min({i \in Known(0, FALSE) : log[i].ts >= req.start}) \in torn
    BY <1>1, SinceEnd DEF SearchInv
  <2> QED
    BY <1>1, <2>1, Zenon DEF SearchExact
<1>2. CASE pc = "until"
  <2>1. IF {i \in Known(Low, TRUE) : log[i].ts <= req.stop} = {} THEN found = <<>>
        ELSE /\ found # <<>>
             /\ found[1] = log[Max({i \in Known(Low, TRUE) : log[i].ts <= req.stop})].at
             /\ \/ found[1] + found[2] = End(Max({i \in Known(Low, TRUE) : log[i].ts <= req.stop})) - 1
                \/ Max({i \in Known(Low, TRUE) : log[i].ts <= req.stop}) \in torn
    BY <1>2, UntilEnd DEF SearchInv
  <2>2. pc # "since"
    BY <1>2
  <2> QED
    BY <1>2, <2>1, <2>2, Zenon DEF SearchExact, Low
<1> QED
  BY <1>1, <1>2

\* The search by bytes (find_nearest_offset) finds the first line that is not before
\* the start of the request and the last final line that is not after its end,
\* whatever is written to the file meanwhile.
THEOREM SearchCorrect == Spec => []SearchExact
<1>1. Init => TypeInv /\ SearchInv
  BY InitType, SearchInit
<1>2. TypeInv /\ SearchInv /\ [Next]_vars => (TypeInv /\ SearchInv)'
  BY TypeStep, SearchStep
<1>3. TypeInv /\ SearchInv => SearchExact
  BY SearchEnd
<1> QED
  BY <1>1, <1>2, <1>3, PTL DEF Spec

-----------------------------------------------------------------------------
(* The range that is read.                                                 *)

\* The start that was found is where the lines not before it begin.
LEMMA StartFound ==
  ASSUME TypeInv, SinceInv, Plain, left > right, pc = "since", found # <<>>, ByTime,
         startPos' = found[1], [Next]_vars
  PROVE  FromStart'
<1>1. PICK i \in Known(0, FALSE) : log[i].ts >= req.start /\ IsFound(i)
  BY DEF SinceInv
<1>2. /\ Lines' = Lines /\ log' = log /\ Start' = Start /\ Start = req.start /\ Start \in Nat
  <2>1. req \in Request
    BY LogFacts DEF TypeInv
  <2> QED
    BY <2>1, SameKnown, Fixed DEF Start, ByTime, Request
<1>3. /\ i \in Lines /\ log[i].at \in Nat /\ log[i].ts \in Nat /\ log[i].ts # 0 /\ log[i].at < maxOffset
      /\ startPos' = log[i].at
  BY <1>1, KnownFacts, 0 \in Int DEF IsFound
<1>4. left \in Nat /\ right \in Int /\ maxOffset \in Nat
  BY NumFacts, SizeFacts
<1>5. ASSUME NEW j \in Lines, log[j].ts # 0
      PROVE  log[i].at <= log[j].at <=> log[j].ts >= Start
  <2>1. log[j].at \in Nat /\ log[j].ts \in Nat
    BY LogFacts DEF TypeInv
  <2>2. log[i].at <= log[j].at => log[j].ts >= Start
    <3>1. log[i].at <= log[j].at => log[i].ts <= log[j].ts
      BY <1>3, <1>5, InTime
    <3> QED
      BY <3>1, <2>1, <1>1, <1>2, <1>3
  <2>3. ASSUME log[j].ts >= Start, log[j].at < log[i].at PROVE FALSE
    <3>1. j \in Known(0, FALSE)
      BY <2>1, <2>3, <1>3, <1>4, <1>5 DEF Known
    <3>2. /\ log[j].at < left => log[j].ts < req.start
          /\ right < log[j].at => found[1] <= log[j].at
      BY <3>1 DEF SinceInv
    <3>3. ~(log[j].at < left) /\ ~(right < log[j].at)
      <4>1. found[1] = log[i].at
        BY <1>1 DEF IsFound
      <4> QED
        BY <3>2, <4>1, <2>1, <2>3, <1>2, <1>3
    <3> QED
      BY <3>3, <2>1, <1>4
  <2> QED
    BY <2>1, <2>2, <2>3, <1>3
<1> QED
  BY <1>2, <1>3, <1>5 DEF FromStart

\* Behind the end that was found are the lines that are after it.
LEMMA StopFound ==
  ASSUME TypeInv, UntilInv, Plain, left > right, pc = "until", found # <<>>,
         startPos' = startPos, endPos' = found[1] + found[2], [Next]_vars, torn' = torn,
         maxOffset' = maxOffset
  PROVE  UpToStop'
<1>1. PICK f \in Known(Low, TRUE) : log[f].ts <= req.stop /\ IsFound(f)
  BY DEF UntilInv
<1>2. /\ Lines' = Lines /\ log' = log /\ Stop' = Stop /\ Stop = req.stop /\ Stop \in Nat /\ Stop # 0
      /\ Known(0, TRUE)' = Known(0, TRUE) /\ \A i \in Lines : End(i)' = End(i)
  <2>1. req \in Request /\ Stop # 0
    BY LogFacts DEF TypeInv, UntilInv
  <2> QED
    BY <2>1, SameKnown, Fixed DEF Stop, Request
<1>3. /\ f \in Lines /\ log[f].at \in Nat /\ log[f].ts \in Nat /\ log[f].ts # 0 /\ log[f].at < maxOffset
      /\ End(f) \in Nat /\ f \in Nat /\ log[f].final
  <2>1. Low \in Int
    BY LowFacts
  <2> QED
    BY <2>1, KnownFacts, LogFacts DEF TypeInv, Known
<1>4. left \in Nat /\ right \in Int /\ maxOffset \in Nat /\ Low \in Nat /\ startPos \in Nat
  BY NumFacts, SizeFacts, LowFacts
<1>5. /\ endPos' \in Nat /\ log[f].at < endPos' /\ endPos' < End(f)
      /\ endPos' = End(f) - 1 \/ f \in torn
  <2>1. found[1] \in Nat /\ found[2] \in Nat \ {0}
    BY NumFacts
  <2> QED
    BY <2>1, <1>1, <1>3 DEF IsFound
<1>6. ASSUME NEW i \in Lines, log[i].at < endPos', endPos' < End(i)
      PROVE  endPos' = End(i) - 1 \/ i \in torn
  <2>1. i = f
    <3>1. log[i].at \in Nat /\ endPos' \in Int
      BY <1>5, LogFacts DEF TypeInv
    <3>2. log[i].at <= endPos' /\ log[f].at <= endPos'
      BY <3>1, <1>3, <1>5, <1>6
    <3> QED
      BY <3>1, <3>2, <1>3, <1>5, <1>6, SameLine DEF TypeInv
  <2> QED
    BY <2>1, <1>5
<1>7. ASSUME NEW i \in Lines, log[i].ts # 0, startPos <= log[i].at
      PROVE  log[i].at < endPos' <=> \E j \in Known(0, TRUE) : i <= j /\ log[j].ts <= Stop
  <2>1. /\ log[i].at \in Nat /\ End(i) \in Nat /\ i \in Nat /\ log[i].at < End(i)
    BY LogFacts DEF TypeInv, Lines
  <2>2. f \in Known(0, TRUE)
    BY <1>1, <1>3, <1>4 DEF Known
  <2>3. ASSUME log[i].at < endPos' PROVE i <= f
    <3>1. ~(f < i)
      <4>1. f < i => End(f) <= log[i].at
        BY <1>3, Apart DEF TypeInv
      <4> QED
        BY <4>1, <2>1, <2>3, <1>3, <1>5
    <3> QED
      BY <3>1, <2>1, <1>3
  <2>4. ASSUME NEW j \in Known(0, TRUE), i <= j, log[j].ts <= Stop PROVE log[i].at < endPos'
    <3>1. /\ j \in Lines /\ j \in Nat /\ log[j].at \in Nat /\ log[j].ts \in Nat /\ log[j].ts # 0
          /\ log[j].at < maxOffset
      BY KnownFacts, 0 \in Int
    <3>2. log[j].final
      BY DEF Known
    <3>3. log[i].at <= log[j].at
      <4>1. ~(log[j].at < log[i].at)
        <5>1. ~(j < i)
          BY <2>4, <3>1, <2>1
        <5> QED
          BY <5>1, <3>1, Order DEF TypeInv
      <4> QED
        BY <4>1, <3>1, <2>1
    <3>4. Low <= log[j].at
      BY <3>1, <3>3, <2>1, <1>4, <1>7 DEF Low
    <3>5. j \in Known(Low, TRUE)
      BY <3>1, <3>2, <3>4 DEF Known
    <3>6. /\ right < log[j].at => log[j].ts > req.stop
          /\ log[j].at < left => log[j].at <= found[1]
      BY <3>5 DEF UntilInv
    <3>7. log[j].at < left
      BY <3>6, <3>1, <2>4, <1>2, <1>4
    <3>8. found[1] = log[f].at
      BY <1>1 DEF IsFound
    <3> QED
      BY <3>1, <3>3, <3>6, <3>7, <3>8, <2>1, <1>3, <1>5
  <2> QED
    BY <2>2, <2>3, <2>4, <1>1, <1>2
<1>8. endPos' # None
  BY <1>5 DEF None
<1>9. \A i \in Lines :
        /\ (log[i].at < endPos' /\ endPos' < End(i)) => endPos' = End(i) - 1 \/ i \in torn
        /\ (log[i].ts # 0 /\ startPos <= log[i].at) =>
             (log[i].at < endPos' <=> \E j \in Known(0, TRUE) : i <= j /\ log[j].ts <= Stop)
  BY <1>6, <1>7
<1> QED
  BY <1>2, <1>8, <1>9 DEF UpToStop

LEMMA RangeInit == ASSUME Init PROVE RangeInv
BY DEF Init, RangeInv

LEMMA RangeStays ==
  ASSUME TypeInv, [Next]_vars, startPos' = startPos
  PROVE  /\ ByTime' = ByTime
         /\ FromStart => FromStart'
         /\ (UpToStop /\ endPos' = endPos /\ maxOffset' = maxOffset) => UpToStop'
<1>1. /\ Lines' = Lines /\ log' = log /\ req' = req /\ Start' = Start /\ Stop' = Stop
      /\ torn \subseteq torn' /\ \A i \in Lines : End(i)' = End(i)
      /\ maxOffset' = maxOffset => Known(0, TRUE)' = Known(0, TRUE)
  BY SameKnown, Fixed, DiskStep
<1>2. ByTime' = ByTime /\ (FromStart => FromStart')
  BY <1>1 DEF ByTime, FromStart
<1>3. ASSUME UpToStop, endPos' = endPos, maxOffset' = maxOffset PROVE UpToStop'
  <2> DEFINE K == Known(0, TRUE)
  <2>1. K' = K
    BY <1>1, <1>3
  <2> HIDE DEF K
  <2>2. UpToStop => UpToStop'
    BY <1>1, <1>3, <2>1 DEF UpToStop, K
  <2> QED
    BY <2>2, <1>3
<1> QED
  BY <1>2, <1>3

LEMMA RangeStep ==
  ASSUME TypeInv, TypeInv', SearchInv, RangeInv, [Next]_vars
  PROVE  RangeInv'
<1>1. /\ Lines' = Lines /\ Plain' = Plain /\ Start' = Start /\ Stop' = Stop /\ log' = log /\ req' = req
      /\ torn \subseteq torn' /\ ByTime' = ByTime
  BY SameKnown, Fixed, DiskStep DEF ByTime
<1>s. Start \in Nat /\ Stop \in Nat
  <2>1. req \in Request
    BY LogFacts DEF TypeInv
  <2> QED
    BY <2>1 DEF Start, Stop, Request
<1> SUFFICES ASSUME Plain PROVE RangeInv'
  BY <1>1 DEF RangeInv
<1>2. CASE Write \/ Rotate \/ Leave \/ Shutdown \/ UNCHANGED vars
  <2>1. pc' = pc /\ maxOffset' = maxOffset /\ startPos' = startPos /\ endPos' = endPos
    BY <1>2, EnvStays
  <2> QED
    BY <2>1, <1>1, RangeStays DEF RangeInv
<1>3. CASE Open
  <2>1. startPos = 0 /\ maxOffset' = OldSize
    BY <1>3 DEF SearchInv, Open
  <2>2. CASE pc' \in {"back", "read"}
    <3>1. /\ Start = 0 /\ Stop = 0 /\ startPos' = IF ~req.backward /\ req.follow = "end" THEN OldSize ELSE 0
          /\ endPos' = IF req.backward THEN OldSize ELSE None
      BY <1>3, <2>2 DEF Open, Begin, ReadRange
    <3>2. \A i \in Lines : log[i].at \in Nat /\ log[i].ts \in Nat /\ End(i) \in Nat
      BY LogFacts DEF TypeInv
    <3>3. ByTime => FromStart'
      BY <3>1, <3>2, <1>1 DEF FromStart, ByTime
    <3>4. ASSUME NEW i \in Lines, endPos' # None, log[i].at < endPos', endPos' < End(i)
          PROVE  i \in torn'
      <4>1. endPos' = OldSize
        BY <3>1, <3>4
      <4>2. i \in Partial(OldSize)
        BY <4>1, <3>4 DEF Partial, Lines
      <4> QED
        BY <4>2, <1>1 DEF TypeInv, FileInv
    <3>5. UpToStop'
      <4>1. Stop' = 0
        BY <3>1, <1>1
      <4>2. endPos' = IF req'.backward THEN maxOffset' ELSE None
        BY <3>1, <2>1, <1>1
      <4>3. \A i \in Lines' : End(i)' = End(i)
        BY <1>1 DEF End
      <4>4. endPos' # None => \A i \in Lines' : (log'[i].at < endPos' /\ endPos' < End(i)') => i \in torn'
        BY <3>4, <4>3, <1>1
      <4> QED
        BY <4>1, <4>2, <4>4, Zenon DEF UpToStop
    <3> QED
      BY <3>3, <3>5, <1>1 DEF RangeInv
  <2>3. CASE pc' = "until"
    <3>1. Start = 0 /\ startPos' = 0
      BY <1>3, <2>1, <2>3 DEF Open, Begin, ReadRange, range
    <3>2. \A i \in Lines : log[i].at \in Nat /\ log[i].ts \in Nat
      BY LogFacts DEF TypeInv
    <3>3. FromStart'
      BY <3>1, <3>2, <1>1 DEF FromStart
    <3> QED
      BY <3>3, <2>3 DEF RangeInv
  <2>4. pc' \in {"since", "until", "back", "read"}
    BY <1>3 DEF Open, Begin, ReadRange
  <2>5. CASE pc' = "since"
    BY <2>5 DEF RangeInv
  <2> QED
    BY <2>2, <2>3, <2>4, <2>5
<1>4. CASE Probe("since") \/ Probe("until")
  <2>1. pc' = pc /\ pc \in {"since", "until"} /\ startPos' = startPos
    BY <1>4, ProbeFacts
  <2> QED
    BY <2>1, <1>1, RangeStays DEF RangeInv
<1>5. CASE SinceFound
  <2>1. pc = "since" /\ left > right /\ pc' \in {"ended", "until", "back", "read"}
    BY <1>5 DEF SinceFound, Ended, Begin, ReadRange
  <2>2. CASE pc' \in {"until", "back", "read"}
    <3>1. found # <<>> /\ startPos' = found[1] /\ maxOffset' = maxOffset
      BY <1>5, <2>2 DEF SinceFound, Ended, Begin, ReadRange
    <3>2. ByTime => FromStart'
      BY <2>1, <3>1, StartFound DEF SearchInv
    <3>3. CASE pc' \in {"back", "read"}
      <4>1. Stop = 0 /\ endPos' = IF req.backward THEN maxOffset ELSE None
        BY <1>5, <3>3 DEF SinceFound, Ended, Begin, ReadRange
      <4>2. ASSUME NEW i \in Lines, endPos' # None, log[i].at < endPos', endPos' < End(i)
            PROVE  i \in torn'
        <5>1. endPos' = maxOffset
          BY <4>1, <4>2
        <5>2. i \in Partial(maxOffset)
          BY <5>1, <4>2 DEF Partial, Lines
        <5> QED
          BY <5>2, <1>1 DEF TypeInv, FileInv
      <4>3. Stop' = 0
        BY <4>1, <1>1
      <4>4. endPos' = IF req'.backward THEN maxOffset' ELSE None
        BY <4>1, <3>1, <1>1
      <4>5. \A i \in Lines' : End(i)' = End(i)
        BY <1>1 DEF End
      <4>6. endPos' # None => \A i \in Lines' : (log'[i].at < endPos' /\ endPos' < End(i)') => i \in torn'
        BY <4>2, <4>5, <1>1
      <4>7. UpToStop'
        BY <4>3, <4>4, <4>6, Zenon DEF UpToStop
      <4> QED
        BY <4>7, <3>2, <1>1 DEF RangeInv
    <3>4. CASE pc' = "until"
      BY <3>4, <3>2, <1>1 DEF RangeInv
    <3> QED
      BY <2>2, <3>3, <3>4
  <2>3. CASE pc' = "ended"
    BY <2>3 DEF RangeInv
  <2> QED
    BY <2>1, <2>2, <2>3
<1>6. CASE UntilFound
  <2>1. pc = "until" /\ left > right /\ pc' \in {"ended", "back", "read"}
    BY <1>6 DEF UntilFound, Ended, ReadRange
  <2>2. CASE pc' \in {"back", "read"}
    <3>1. /\ found # <<>> /\ startPos' = startPos /\ endPos' = found[1] + found[2] /\ maxOffset' = maxOffset
          /\ torn' = torn
      BY <1>6, <2>2 DEF UntilFound, Ended, ReadRange, outside, disk
    <3>2. UpToStop'
      BY <2>1, <3>1, StopFound DEF SearchInv
    <3> QED
      BY <2>1, <3>1, <3>2, <1>1, RangeStays DEF RangeInv
  <2>3. CASE pc' = "ended"
    BY <2>3 DEF RangeInv
  <2> QED
    BY <2>1, <2>2, <2>3
<1>7. CASE /\ Task \/ Fail \/ ReadFail \/ ReadStop \/ BackFail \/ BackStop
           /\ ~Open /\ ~Probe("since") /\ ~Probe("until") /\ ~SinceFound /\ ~UntilFound
  <2>1. UNCHANGED <<maxOffset, startPos, endPos>>
    BY <1>7, OtherPc
  <2>2. pc' \in {"read", "searched", "back"} => pc \in {"read", "searched", "back"}
    BY <1>7 DEF Task, Fail, ReadFail, ReadStop, BackFail, BackStop, ReadLine, ReadEnd, Searched, BackLine,
       BackKeep, BackFill, BackEnd, Watch, Seek, Notified, NextLine, LinesStop, NoMoreLines,
       ListenStop, Send, Ended
  <2>3. pc' \in {"until", "watch", "seek", "listen", "lines"} => 
           pc \in {"read", "searched", "watch", "seek", "listen", "lines"}
    BY <1>7 DEF Task, Fail, ReadFail, ReadStop, BackFail, BackStop, ReadLine, ReadEnd, Searched, BackLine,
       BackKeep, BackFill, BackEnd, Watch, Seek, Notified, NextLine, LinesStop, NoMoreLines,
       ListenStop, Send, Ended
  <2> QED
    BY <2>1, <2>2, <2>3, <1>1, RangeStays DEF RangeInv
<1> QED
  BY <1>2, <1>3, <1>4, <1>5, <1>6, <1>7, NextCases

-----------------------------------------------------------------------------
(* What is sent.                                                           *)

\* Between a byte of a line and its end no other line begins.
LEMMA OneBegins ==
  ASSUME FileInv, NEW i \in Lines, NEW p \in Nat, log[i].at <= p, p < End(i),
         NEW j \in Lines, p <= log[j].at, log[j].at < End(i)
  PROVE  j = i /\ log[i].at = p
<1>1. /\ log[i].at \in Nat /\ log[j].at \in Nat /\ End(i) \in Nat /\ End(j) \in Nat /\ log[j].at < End(j)
  BY LogFacts
<1>2. log[i].at <= log[j].at /\ log[j].at <= log[j].at
  BY <1>1
<1>3. i = j
  BY <1>1, <1>2, SameLine
<1> QED
  BY <1>1, <1>3

\* Of a plain log only what starts with a line becomes a record.
LEMMA SendLine ==
  ASSUME FileInv, Plain, NEW i \in Lines, NEW p \in Nat, log[i].at <= p, p < End(i),
         NEW q, NEW next, Send(p, q, next), ~cancelled'
  PROVE  out' = IF p = log[i].at /\ log[i].ts # 0 THEN Append(out, <<p, q>>) ELSE out
<1>1. LineOf(p) = i /\ p < Total
  BY LineIs
<1>2. /\ log[i].at \in Nat /\ log[i].inner = 0
  BY LogFacts DEF Plain
<1>3. CASE p = log[i].at
  <2>1. Parse(p, FALSE) = log[i].ts
    BY <1>3, ParseLine
  <2> QED
    BY <2>1, <1>3 DEF Send
<1>4. CASE p # log[i].at
  <2>1. Parse(p, FALSE) = 0
    BY <1>1, <1>2, <1>4 DEF Parse
  <2> QED
    BY <2>1, <1>4 DEF Send
<1> QED
  BY <1>3, <1>4

LEMMA SentStays ==
  ASSUME [Next]_vars, TypeInv, out' = out
  PROVE  /\ EachALine => EachALine'
         /\ \A i \in Lines : IsSent(i)' <=> IsSent(i)
         /\ Ascending' = Ascending /\ Descending' = Descending
<1>1. /\ Lines' = Lines /\ log' = log /\ torn \subseteq torn' /\ \A i \in Lines : End(i)' = End(i)
  BY SameKnown, Fixed, DiskStep
<1> QED
  BY <1>1 DEF EachALine, IsLine, IsSent, Ascending, Descending

LEMMA SentMore ==
  ASSUME [Next]_vars, TypeInv, EachALine, NEW i \in Lines, NEW q,
         q = End(i) - 1 \/ i \in torn, out' = Append(out, <<log[i].at, q>>)
  PROVE  /\ EachALine'
         /\ \A j \in Lines : IsSent(j)' <=> IsSent(j) \/ j = i
         /\ (Ascending /\ \A j \in Lines : IsSent(j) => log[j].at < log[i].at) => Ascending'
         /\ (Descending /\ \A j \in Lines : IsSent(j) => log[j].at > log[i].at) => Descending'
<1>1. /\ Lines' = Lines /\ log' = log /\ torn \subseteq torn' /\ \A j \in Lines : End(j)' = End(j)
  BY SameKnown, Fixed, DiskStep
<1>2. /\ Len(out) \in Nat /\ Len(out') = Len(out) + 1
      /\ out'[Len(out) + 1] = <<log[i].at, q>>
      /\ \A k \in 1..Len(out) : out'[k] = out[k]
  <2>1. out \in Seq(Nat \X Nat)
    BY DEF TypeInv, Bounds, Shapes
  <2> QED
    BY <2>1
<1>3. 1..Len(out') = 1..Len(out) \cup {Len(out) + 1} /\ Len(out) + 1 \notin 1..Len(out)
  BY <1>2
<1>4. EachALine'
  <2> SUFFICES ASSUME NEW k \in 1..Len(out') PROVE \E j \in Lines : IsLine(k, j)'
    BY <1>1 DEF EachALine
  <2>1. CASE k = Len(out) + 1
    <3>1. out'[k][1] = log[i].at /\ out'[k][2] = q
      BY <2>1, <1>2
    <3>2. IsLine(k, i)'
      BY <3>1, <1>1 DEF IsLine
    <3> QED
      BY <3>2
  <2>2. CASE k \in 1..Len(out)
    <3>1. PICK j \in Lines : IsLine(k, j)
      BY <2>2 DEF EachALine
    <3>2. out'[k] = out[k]
      BY <2>2, <1>2
    <3>3. IsLine(k, j)'
      BY <3>1, <3>2, <1>1 DEF IsLine
    <3> QED
      BY <3>3
  <2> QED
    BY <2>1, <2>2, <1>3
<1>5. \A j \in Lines : IsSent(j)' <=> IsSent(j) \/ j = i
  <2>1. ASSUME NEW j \in Lines PROVE IsSent(j)' <=> IsSent(j) \/ log[i].at = log[j].at
    BY <1>1, <1>2, <1>3 DEF IsSent
  <2>2. ASSUME NEW j \in Lines, log[i].at = log[j].at PROVE j = i
    <3>1. /\ log[i].at \in Nat /\ log[i].at < End(i) /\ log[j].at < End(j)
      BY LogFacts DEF TypeInv
    <3>2. log[i].at <= log[i].at /\ log[j].at <= log[i].at
      BY <3>1, <2>2
    <3> QED
      BY <3>1, <3>2, <2>2, SameLine DEF TypeInv
  <2> QED
    BY <2>1, <2>2
<1>6. \A k \in 1..Len(out) : \E j \in Lines : IsSent(j) /\ out[k][1] = log[j].at
  BY DEF EachALine, IsLine, IsSent
<1>7. ASSUME Ascending, \A j \in Lines : IsSent(j) => log[j].at < log[i].at
      PROVE  Ascending'
  <2> SUFFICES ASSUME NEW j \in 1..Len(out'), NEW k \in 1..Len(out'), j < k
               PROVE  out'[j][1] < out'[k][1]
    BY DEF Ascending
  <2>1. j \in 1..Len(out)
    BY <1>2
  <2>2. CASE k \in 1..Len(out)
    BY <2>1, <2>2, <1>2, <1>7 DEF Ascending
  <2>3. CASE k = Len(out) + 1
    BY <2>1, <2>3, <1>2, <1>6, <1>7
  <2> QED
    BY <2>2, <2>3, <1>3
<1>8. ASSUME Descending, \A j \in Lines : IsSent(j) => log[j].at > log[i].at
      PROVE  Descending'
  <2> SUFFICES ASSUME NEW j \in 1..Len(out'), NEW k \in 1..Len(out'), j < k
               PROVE  out'[j][1] > out'[k][1]
    BY DEF Descending
  <2>1. j \in 1..Len(out)
    BY <1>2
  <2>2. CASE k \in 1..Len(out)
    BY <2>1, <2>2, <1>2, <1>8 DEF Descending
  <2>3. CASE k = Len(out) + 1
    BY <2>1, <2>3, <1>2, <1>6, <1>8
  <2> QED
    BY <2>2, <2>3, <1>3
<1> QED
  BY <1>4, <1>5, <1>7, <1>8

\* What Send does, when nothing goes wrong, with a line or with the rest of one.
LEMMA SendFine ==
  ASSUME [Next]_vars, TypeInv, Plain, EachALine, NEW i \in Lines,
         NEW p \in Nat, log[i].at <= p, p < End(i),
         NEW q, p = log[i].at => q = End(i) - 1 \/ i \in torn,
         NEW next, Send(p, q, next), ~cancelled'
  PROVE  /\ EachALine'
         /\ \A j \in Lines : IsSent(j)' <=> IsSent(j) \/ (j = i /\ p = log[i].at /\ log[i].ts # 0)
         /\ (Ascending /\ \A j \in Lines : IsSent(j) => log[j].at < p) => Ascending'
         /\ (Descending /\ \A j \in Lines : IsSent(j) => log[j].at > p) => Descending'
<1>1. out' = IF p = log[i].at /\ log[i].ts # 0 THEN Append(out, <<p, q>>) ELSE out
  BY SendLine DEF TypeInv
<1>2. CASE p = log[i].at /\ log[i].ts # 0
  BY <1>1, <1>2, SentMore
<1>3. CASE ~(p = log[i].at /\ log[i].ts # 0)
  BY <1>1, <1>3, SentStays
<1> QED
  BY <1>2, <1>3

\* The numbers of the next state.
NumbersFit ==
  /\ startPos \in Nat /\ maxOffset \in Nat /\ OldSize \in Nat /\ endPos \in Int
  /\ startPos <= maxOffset /\ maxOffset <= OldSize
  /\ endPos # None => endPos \in Nat /\ endPos <= OldSize
  /\ Limit = IF endPos = None THEN OldSize ELSE endPos

LEMMA NextNumbers == TypeInv' => NumbersFit'
<1>1. TypeInv => NumbersFit
  BY NumFacts, SizeFacts, LimitFacts DEF NumbersFit
<1> QED
  BY <1>1, PTL

LEMMA NoneSent ==
  ASSUME out' = <<>>
  PROVE  EachALine' /\ Ascending' /\ Descending' /\ \A i : ~IsSent(i)'
<1>1. 1..Len(out') = {}
  BY SMT
<1> QED
  BY <1>1 DEF EachALine, Ascending, Descending, IsSent

-----------------------------------------------------------------------------
(* The read forward.                                                       *)

\* Where a read forward begins.
LEMMA ReadStart ==
  ASSUME TypeInv, SearchInv, Plain, Open \/ SinceFound \/ UntilFound, pc' = "read"
  PROVE  /\ ~req.backward /\ out' = out /\ rpos' = startPos' /\ UNCHANGED disk
         /\ pc \in {"open", "since", "until"}
         /\ endPos' = None \/ startPos' < endPos'
         /\ ~ByTime => startPos' = OldSize
<1>1. CASE Open
  <2>1. ~req.backward /\ out' = out /\ UNCHANGED disk /\ pc = "open"
    BY <1>1 DEF Open, Begin, ReadRange, outside
  <2>2. rpos' = startPos' /\ endPos' = None /\ (~ByTime => startPos' = OldSize)
    BY <1>1, <2>1 DEF Open, Begin, ReadRange, ByTime
  <2> QED
    BY <2>1, <2>2
<1>2. CASE SinceFound
  <2>1. /\ ~req.backward /\ out' = out /\ UNCHANGED disk /\ pc = "since"
        /\ rpos' = startPos' /\ endPos' = None
    BY <1>2 DEF SinceFound, Begin, ReadRange, Ended, outside
  <2>2. ByTime
    BY <2>1 DEF SearchInv, SinceInv, Start, ByTime
  <2> QED
    BY <2>1, <2>2
<1>3. CASE UntilFound
  <2>1. /\ ~req.backward /\ out' = out /\ UNCHANGED disk /\ pc = "until"
        /\ rpos' = startPos' /\ startPos' = startPos /\ endPos' = found[1] + found[2] /\ found # <<>>
    BY <1>3 DEF UntilFound, ReadRange, Ended, outside
  <2>2. ByTime
    BY <2>1 DEF SearchInv, UntilInv, Stop, ByTime
  <2>3. startPos <= found[1]
    <3>1. PICK f \in Known(Low, TRUE) : found[1] = log[f].at
      BY <2>1 DEF SearchInv, UntilInv, IsFound
    <3>2. Low <= log[f].at
      BY DEF Known
    <3> QED
      BY <3>1, <3>2, <2>1 DEF Low
  <2>4. startPos' < endPos'
    BY <2>1, <2>3, NumFacts
  <2> QED
    BY <2>1, <2>2, <2>4
<1> QED
  BY <1>1, <1>2, <1>3

LEMMA ReadBegins ==
  ASSUME TypeInv, TypeInv', SearchInv, RangeInv', NothingSent, Plain, [Next]_vars,
         Open \/ SinceFound \/ UntilFound, pc' = "read"
  PROVE  ReadInv'
<1>1. /\ Lines' = Lines /\ Plain' = Plain /\ log' = log /\ req' = req /\ \A i \in Lines : End(i)' = End(i)
      /\ ByTime' = ByTime /\ Start' = Start
  BY SameKnown, Fixed DEF ByTime
<1>2. /\ ~req.backward /\ out' = <<>> /\ rpos' = startPos' /\ UNCHANGED disk
      /\ endPos' = None \/ startPos' < endPos'
      /\ ~ByTime => startPos' = OldSize
  BY ReadStart DEF NothingSent
<1>3. OldSize' = OldSize /\ torn' = torn
  BY <1>2 DEF OldSize, disk
<1>4. ByTime => FromStart'
  BY <1>1 DEF RangeInv
<1>5. startPos' \in Nat /\ maxOffset' \in Nat /\ OldSize \in Nat /\ startPos' <= OldSize /\ endPos' \in Int
      /\ (endPos' # None => endPos' \in Nat)
  BY <1>3, NextNumbers DEF NumbersFit
<1>6. \A i \in Lines : log[i].at \in Nat /\ End(i) \in Nat
  BY LogFacts DEF TypeInv
<1>7. (\A i \in Lines : IsSent(i) <=> (log[i].ts # 0 /\ startPos <= log[i].at /\ log[i].at < rpos))'
  <2>1. \A i \in Lines : ~(startPos' <= log[i].at /\ log[i].at < rpos')
    BY <1>2, <1>5, <1>6
  <2> QED
    BY <2>1, <1>1, <1>2, NoneSent
<1>8. ASSUME NEW i \in Lines, log[i].at < rpos', rpos' < End(i)
      PROVE  i \in torn'
  <2>1. ~ByTime
    <3>1. ASSUME NEW j \in Lines, startPos' = log[j].at PROVE FALSE
      <4>1. i = j
        <5>1. log[j].at < End(j)
          BY LogFacts DEF TypeInv
        <5>2. log[i].at <= startPos' /\ log[j].at <= startPos'
          BY <3>1, <1>2, <1>5, <1>6, <1>8
        <5> QED
          BY <5>1, <5>2, <3>1, <1>2, <1>5, <1>8, SameLine DEF TypeInv
      <4> QED
        BY <4>1, <3>1, <1>2, <1>5, <1>8
    <3>2. startPos' # 0
      BY <1>2, <1>6, <1>8
    <3> QED
      BY <3>1, <3>2, <1>1, <1>4 DEF FromStart
  <2>2. i \in Partial(OldSize)
    BY <2>1, <1>2, <1>8 DEF Partial, Lines
  <2> QED
    BY <2>2, <1>3 DEF TypeInv, FileInv
<1>9. (\A i \in Lines : (log[i].at < rpos /\ rpos < End(i)) => i \in torn)'
  BY <1>8, <1>1
<1>10. startPos' <= rpos' /\ rpos' <= Limit'
  BY <1>2, <1>3, <1>5, NextNumbers DEF NumbersFit
<1>11. EachALine' /\ Ascending'
  BY <1>2, NoneSent
<1> QED
  BY <1>1, <1>2, <1>7, <1>9, <1>10, <1>11 DEF ReadInv

\* What went wrong stays so.
LEMMA StaysFine ==
  ASSUME [Next]_vars, Fine'
  PROVE  Fine /\ ~cancelled' /\ ~broken'
<1>1. Plain' = Plain /\ Plain' /\ ~cancelled' /\ ~broken'
  BY SameKnown DEF Fine
<1>2. cancelled => cancelled'
  <2>1. ASSUME NEW p, NEW q, NEW n, Send(p, q, n) PROVE cancelled => cancelled'
    BY <2>1 DEF Send
  <2> QED
    BY <2>1, Zenon DEF Next, Task, vars, Write, Rotate, Leave, Shutdown, Open, Probe, SinceFound, UntilFound, Fail, ReadLine, ReadEnd,
       ReadFail, ReadStop, Searched, BackLine, BackKeep, BackFill, BackEnd, BackFail, BackStop, Watch, Seek,
       Notified, NextLine, LinesStop, NoMoreLines, ListenStop, probeOthers, stayOthers
<1>3. broken => broken'
  BY DEF Next, Task, vars, Write, Rotate, Leave, Shutdown, Open, Probe, SinceFound, UntilFound, Fail, ReadLine, ReadEnd,
       ReadFail, ReadStop, Searched, BackLine, BackKeep, BackFill, BackEnd, BackFail, BackStop, Watch, Seek,
       Notified, NextLine, LinesStop, NoMoreLines, ListenStop, probeOthers, stayOthers, backOthers, lineOthers,
       service
<1> QED
  BY <1>1, <1>2, <1>3 DEF Fine

\* The line of the reader.
LEMMA LineHere ==
  ASSUME TypeInv, NEW p \in Nat, NEW n \in Nat, p < n, n <= size
  PROVE  \E i \in Lines : /\ log[i].at <= p /\ p < End(i) /\ LineEnd(p) = End(i)
                          /\ log[i].at \in Nat /\ End(i) \in Nat
                          /\ TextEnd(p, n) = IF End(i) - 1 <= n THEN End(i) - 1 ELSE n
                          /\ \A j \in Lines : (p <= log[j].at /\ log[j].at < End(i)) => j = i /\ log[i].at = p
<1>1. p < Total
  BY SizeFacts, LogFacts DEF TypeInv
<1>2. PICK i \in Lines : i = LineOf(p)
  BY <1>1, LineFacts DEF TypeInv
<1>3. log[i].at <= p /\ p < End(i) /\ LineEnd(p) = End(i)
  BY <1>1, <1>2, LineFacts DEF TypeInv
<1>4. log[i].at \in Nat /\ End(i) \in Nat
  BY LogFacts DEF TypeInv
<1>5. TextEnd(p, n) = IF End(i) - 1 <= n THEN End(i) - 1 ELSE n
  BY <1>3, TextEndFacts
<1>6. \A j \in Lines : (p <= log[j].at /\ log[j].at < End(i)) => j = i /\ log[i].at = p
  BY <1>3, OneBegins DEF TypeInv
<1> QED
  BY <1>3, <1>4, <1>5, <1>6

\* No line goes on over the end of another.
LEMMA EndIsEdge ==
  ASSUME FileInv, NEW i \in Lines, NEW j \in Lines
  PROVE  ~(log[j].at < End(i) /\ End(i) < End(j))
<1>1. /\ i \in Nat /\ j \in Nat /\ End(i) \in Nat /\ End(j) \in Nat
      /\ log[i].at \in Nat /\ log[j].at \in Nat /\ log[j].at < End(j)
  BY LogFacts DEF Lines
<1>2. CASE i < j
  BY <1>1, <1>2, Apart
<1>3. CASE j < i
  BY <1>1, <1>3, Apart, LogFacts
<1> QED
  BY <1>1, <1>2, <1>3

LEMMA ReadLineStep ==
  ASSUME TypeInv, TypeInv', RangeInv, ReadInv, ReadLine, Fine'
  PROVE  ReadInv'
<1>0. [Next]_vars
  BY DEF Next, Task
<1>1. /\ Lines' = Lines /\ log' = log /\ req' = req /\ \A i \in Lines : End(i)' = End(i)
  BY <1>0, SameKnown, Fixed
<1>2. Fine /\ ~cancelled'
  BY <1>0, StaysFine
<1>3. /\ pc = "read" /\ rpos < Limit /\ LineEnd(rpos) <= Limit /\ rpos' = LineEnd(rpos)
      /\ Send(rpos, LineEnd(rpos) - 1, "read")
      /\ startPos' = startPos /\ endPos' = endPos /\ torn' = torn /\ OldSize' = OldSize
      /\ pc' \in {"read", "panicked"}
  BY DEF ReadLine, readOthers, outside, disk, range, OldSize, Send
<1>4. /\ rpos \in Nat /\ Limit \in Nat /\ Limit <= size /\ startPos \in Nat
      /\ Limit' = Limit
  BY <1>3, NumFacts, LimitFacts DEF Limit
<1>5. PICK i \in Lines :
        /\ log[i].at <= rpos /\ rpos < End(i) /\ LineEnd(rpos) = End(i)
        /\ log[i].at \in Nat /\ End(i) \in Nat
        /\ \A j \in Lines : (rpos <= log[j].at /\ log[j].at < End(i)) => j = i /\ log[i].at = rpos
  BY <1>3, <1>4, LineHere
<1>6. /\ ~req.backward /\ EachALine /\ Ascending /\ startPos <= rpos
      /\ \A j \in Lines : IsSent(j) <=> (log[j].ts # 0 /\ startPos <= log[j].at /\ log[j].at < rpos)
  BY <1>2, <1>3 DEF ReadInv
<1>7. /\ EachALine' /\ Ascending'
      /\ \A j \in Lines : IsSent(j)' <=> IsSent(j) \/ (j = i /\ rpos = log[i].at /\ log[i].ts # 0)
  BY <1>0, <1>2, <1>3, <1>4, <1>5, <1>6, SendFine DEF Fine
<1>8. (\A j \in Lines : IsSent(j) <=> (log[j].ts # 0 /\ startPos <= log[j].at /\ log[j].at < rpos))'
  <2> SUFFICES ASSUME NEW j \in Lines
               PROVE  IsSent(j)' <=> (log[j].ts # 0 /\ startPos <= log[j].at /\ log[j].at < End(i))
    BY <1>1, <1>3, <1>5
  <2>1. log[j].at \in Nat
    BY LogFacts DEF TypeInv
  <2>2. CASE log[j].at < rpos
    BY <2>1, <2>2, <1>4, <1>5, <1>6, <1>7
  <2>3. CASE rpos <= log[j].at /\ log[j].at < End(i)
    BY <2>1, <2>3, <1>4, <1>5, <1>6, <1>7
  <2>4. CASE End(i) <= log[j].at
    BY <2>1, <2>4, <1>4, <1>5, <1>6, <1>7
  <2> QED
    BY <2>1, <2>2, <2>3, <2>4, <1>4, <1>5
<1>9. (\A j \in Lines : ~(log[j].at < rpos /\ rpos < End(j)))'
  BY <1>1, <1>3, <1>5, EndIsEdge DEF TypeInv
<1>10. startPos' <= rpos' /\ rpos' <= Limit'
  BY <1>3, <1>4, <1>5, <1>6
<1> QED
  BY <1>1, <1>3, <1>6, <1>7, <1>8, <1>9, <1>10 DEF ReadInv

\* Where the range is cut inside of a line, the line ends there or is torn.
LEMMA LimitCut ==
  ASSUME TypeInv, UpToStop, NEW i \in Lines, log[i].at < Limit, Limit < End(i)
  PROVE  Limit = End(i) - 1 \/ i \in torn
<1>1. CASE endPos = None
  <2>1. Limit = OldSize
    BY <1>1, LimitFacts
  <2>2. i \in Partial(OldSize)
    BY <2>1 DEF Partial, Lines
  <2> QED
    BY <2>2 DEF TypeInv, FileInv
<1>2. CASE endPos # None
  <2>1. Limit = endPos
    BY <1>2, LimitFacts
  <2> QED
    BY <2>1, <1>2 DEF UpToStop
<1> QED
  BY <1>1, <1>2

LEMMA ReadEndStep ==
  ASSUME TypeInv, RangeInv, ReadInv, ReadEnd, Fine'
  PROVE  ReadInv'
<1>0. [Next]_vars
  BY DEF Next, Task
<1>1. /\ Lines' = Lines /\ log' = log /\ req' = req /\ \A i \in Lines : End(i)' = End(i)
  BY <1>0, SameKnown, Fixed
<1>2. Fine /\ ~cancelled'
  BY <1>0, StaysFine
<1>3. /\ pc = "read" /\ rpos' = Max({rpos, Limit})
      /\ startPos' = startPos /\ endPos' = endPos /\ torn' = torn /\ OldSize' = OldSize
      /\ maxOffset' = maxOffset /\ pc' \in {"searched", "panicked"}
  BY DEF ReadEnd, readOthers, outside, disk, range, OldSize, Send
<1>4. /\ rpos \in Nat /\ Limit \in Nat /\ Limit <= size /\ startPos \in Nat /\ maxOffset <= OldSize
      /\ Limit = IF endPos = None THEN OldSize ELSE endPos
      /\ maxOffset \in Nat /\ OldSize \in Nat
  BY <1>3, NumFacts, LimitFacts, SizeFacts
<1>5. /\ ~req.backward /\ EachALine /\ Ascending /\ startPos <= rpos /\ rpos <= Limit
      /\ \A j \in Lines : IsSent(j) <=> (log[j].ts # 0 /\ startPos <= log[j].at /\ log[j].at < rpos)
      /\ UpToStop
      /\ endPos = None => \A i \in Lines : (log[i].at < rpos /\ rpos < End(i)) => i \in torn
  BY <1>2, <1>3 DEF ReadInv, RangeInv, Fine
<1>6. rpos' = Limit
  BY <1>3, <1>4, <1>5, MaxOfTwo
<1>7. /\ EachALine' /\ Ascending'
      /\ (\A j \in Lines : IsSent(j) <=> (log[j].ts # 0 /\ startPos <= log[j].at /\ log[j].at < rpos))'
  <2>1. CASE rpos = Limit
    <3>1. out' = out
      BY <2>1, <1>4 DEF ReadEnd
    <3>2. EachALine' /\ Ascending' /\ \A j \in Lines : IsSent(j)' <=> IsSent(j)
      BY <3>1, <1>0, <1>5, SentStays
    <3> QED
      BY <3>2, <2>1, <1>1, <1>3, <1>5, <1>6
  <2>2. CASE rpos < Limit
    <3>1. LineEnd(rpos) > Limit /\ Send(rpos, TextEnd(rpos, Limit), "searched")
      BY <2>2 DEF ReadEnd
    <3>2. PICK i \in Lines :
            /\ log[i].at <= rpos /\ rpos < End(i) /\ LineEnd(rpos) = End(i)
            /\ log[i].at \in Nat /\ End(i) \in Nat
            /\ TextEnd(rpos, Limit) = IF End(i) - 1 <= Limit THEN End(i) - 1 ELSE Limit
            /\ \A j \in Lines : (rpos <= log[j].at /\ log[j].at < End(i)) => j = i /\ log[i].at = rpos
      BY <2>2, <1>4, LineHere
    <3>3. TextEnd(rpos, Limit) = End(i) - 1 \/ i \in torn
      <4>1. log[i].at < Limit /\ Limit < End(i)
        BY <3>1, <3>2, <2>2, <1>4
      <4>2. Limit = End(i) - 1 \/ i \in torn
        BY <4>1, <1>5, LimitCut
      <4>3. Limit = End(i) - 1 => TextEnd(rpos, Limit) = End(i) - 1
        BY <3>2, <1>4
      <4> QED
        BY <4>2, <4>3
    <3>4. /\ EachALine' /\ Ascending'
          /\ \A j \in Lines : IsSent(j)' <=> IsSent(j) \/ (j = i /\ rpos = log[i].at /\ log[i].ts # 0)
      BY <3>1, <3>2, <3>3, <1>0, <1>2, <1>4, <1>5, SendFine DEF Fine
    <3>5. ASSUME NEW j \in Lines
          PROVE  IsSent(j)' <=> (log[j].ts # 0 /\ startPos <= log[j].at /\ log[j].at < Limit)
      <4>1. log[j].at \in Nat
        BY LogFacts DEF TypeInv
      <4>2. CASE log[j].at < rpos
        BY <4>1, <4>2, <3>2, <3>4, <2>2, <1>4, <1>5
      <4>3. CASE rpos <= log[j].at /\ log[j].at < End(i)
        BY <4>1, <4>3, <3>2, <3>4, <2>2, <1>4, <1>5
      <4>4. CASE End(i) <= log[j].at
        BY <4>1, <4>4, <3>1, <3>2, <3>4, <2>2, <1>4, <1>5
      <4> QED
        BY <4>1, <4>2, <4>3, <4>4, <3>2, <1>4
    <3> QED
      BY <3>4, <3>5, <1>1, <1>3, <1>6
  <2> QED
    BY <2>1, <2>2, <1>4, <1>5
<1>8. endPos' = None => (\A i \in Lines : (log[i].at < rpos /\ rpos < End(i)) => i \in torn)'
  <2> SUFFICES ASSUME endPos = None, NEW i \in Lines, log[i].at < OldSize, OldSize < End(i) PROVE i \in torn
    BY <1>1, <1>3, <1>4, <1>6
  <2>1. i \in Partial(OldSize)
    BY DEF Partial, Lines
  <2> QED
    BY <2>1 DEF TypeInv, FileInv
<1>9. IF endPos' = None THEN maxOffset' <= rpos' /\ rpos' <= OldSize' ELSE rpos' = endPos'
  BY <1>3, <1>4, <1>6
<1>10. CASE pc' = "searched"
  BY <1>10, <1>1, <1>3, <1>5, <1>7, <1>8, <1>9 DEF ReadInv
<1>11. CASE pc' = "panicked"
  BY <1>11 DEF ReadInv
<1> QED
  BY <1>3, <1>10, <1>11

\* Nothing is read in this step.
LEMMA ReadStays ==
  ASSUME TypeInv, TypeInv', RangeInv, ReadInv, [Next]_vars, Fine', out' = out, rpos' = rpos,
         UNCHANGED <<startPos, endPos, maxOffset>>,
         \/ pc' = pc
         \/ pc = "searched" /\ pc' = "watch" /\ endPos = None
         \/ pc = "watch" /\ pc' = "seek"
  PROVE  ReadInv'
<1> SUFFICES ASSUME pc' \in {"read", "searched", "watch", "seek"} PROVE ReadInv'
  BY DEF ReadInv
<1>1. /\ Lines' = Lines /\ log' = log /\ req' = req /\ \A i \in Lines : End(i)' = End(i)
      /\ torn \subseteq torn' /\ OldSize' \in Nat /\ OldSize <= OldSize'
  BY SameKnown, Fixed, DiskStep
<1>2. Fine /\ pc \in {"read", "searched", "watch", "seek"}
  BY StaysFine
<1>3. /\ ~req.backward /\ EachALine /\ Ascending
      /\ \A i \in Lines : IsSent(i) <=> (log[i].ts # 0 /\ startPos <= log[i].at /\ log[i].at < rpos)
      /\ endPos = None => \A i \in Lines : (log[i].at < rpos /\ rpos < End(i)) => i \in torn
      /\ pc = "read" => startPos <= rpos /\ rpos <= Limit
      /\ pc \in {"watch", "seek"} => endPos = None
      /\ pc = "searched" => IF endPos = None THEN maxOffset <= rpos /\ rpos <= OldSize
                                             ELSE rpos = endPos
  BY <1>2 DEF ReadInv
<1>4. EachALine' /\ Ascending' /\ \A i \in Lines : IsSent(i)' <=> IsSent(i)
  BY <1>3, SentStays
<1>5. (\A i \in Lines : IsSent(i) <=> (log[i].ts # 0 /\ startPos <= log[i].at /\ log[i].at < rpos))'
  BY <1>1, <1>3, <1>4
<1>6. endPos' = None => (\A i \in Lines : (log[i].at < rpos /\ rpos < End(i)) => i \in torn)'
  BY <1>1, <1>3
<1>7. pc' = "read" => startPos' <= rpos' /\ rpos' <= Limit'
  <2>1. rpos \in Nat /\ OldSize \in Nat /\ Limit = IF endPos = None THEN OldSize ELSE endPos
    BY NumFacts, SizeFacts, LimitFacts
  <2>2. Limit' = IF endPos = None THEN OldSize' ELSE endPos
    BY NextNumbers DEF NumbersFit
  <2> QED
    BY <2>1, <2>2, <1>1, <1>3
<1>8. pc' \in {"watch", "seek"} => endPos' = None
  BY <1>3
<1>9. pc' = "searched" => IF endPos' = None THEN maxOffset' <= rpos' /\ rpos' <= OldSize'
                                            ELSE rpos' = endPos'
  <2>1. rpos \in Nat /\ OldSize \in Nat
    BY NumFacts, SizeFacts
  <2> QED
    BY <2>1, <1>1, <1>3
<1> QED
  BY <1>1, <1>3, <1>4, <1>5, <1>6, <1>7, <1>8, <1>9 DEF ReadInv

-----------------------------------------------------------------------------
(* The read backward.                                                      *)

LEMMA BackBegins ==
  ASSUME TypeInv, TypeInv', NothingSent, [Next]_vars,
         Open \/ SinceFound \/ UntilFound, pc' = "back"
  PROVE  BackInv'
<1>1. /\ Lines' = Lines /\ log' = log /\ req' = req /\ \A i \in Lines : End(i)' = End(i)
  BY SameKnown, Fixed
<1>2. /\ out' = out /\ pc \in {"open", "since", "until"}
      /\ rpos' = endPos' /\ bufEnd' = endPos' /\ part' = <<0, 0>>
  <2>1. CASE Open
    BY <2>1 DEF Open, Begin, ReadRange
  <2>2. CASE SinceFound
    BY <2>2 DEF SinceFound, Begin, ReadRange, Ended
  <2>3. CASE UntilFound
    BY <2>3 DEF UntilFound, ReadRange, Ended
  <2> QED
    BY <2>1, <2>2, <2>3
<1>3. EachALine' /\ Descending' /\ \A i : ~IsSent(i)'
  BY <1>2, NoneSent DEF NothingSent
<1>4. ~HasPart' /\ TailEnd' = endPos'
  <2>1. ~HasPart'
    BY <1>2 DEF HasPart
  <2> QED
    BY <2>1, <1>2 DEF TailEnd
<1>5. endPos' \in Int
  BY NextNumbers DEF NumbersFit
<1>6. \A i \in Lines : log[i].at \in Nat /\ End(i) \in Nat
  BY LogFacts DEF TypeInv
<1>7. (\A i \in Lines : ~IsSent(i) /\ ~(TailEnd < log[i].at /\ log[i].at < endPos))'
  BY <1>1, <1>3, <1>4, <1>5, <1>6
<1>8. (\A i \in Lines : ~(bufEnd <= End(i) - 1 /\ End(i) - 1 < TailEnd))'
  BY <1>1, <1>2, <1>4, <1>5, <1>6
<1> QED
  BY <1>2, <1>3, <1>4, <1>7, <1>8 DEF BackInv

\* The tail ends where the range does, or before the newline of a line.
LEMMA TailFacts ==
  ASSUME TypeInv, BackInv, Fine, pc = "back"
  PROVE  /\ endPos \in Nat /\ TailEnd <= endPos
         /\ \A k \in Lines : log[k].at = TailEnd => ~(log[k].at < endPos)
<1>1. TailEnd = endPos \/ \E i \in Lines : TailEnd = End(i) - 1 /\ TailEnd < endPos
  BY DEF BackInv
<1>2. endPos \in Nat /\ TailEnd \in Nat
  BY BackFacts, NumFacts DEF TypeInv, Bounds, KeptPart
<1>3. ASSUME NEW k \in Lines, log[k].at = TailEnd, log[k].at < endPos PROVE FALSE
  <2>1. PICK i \in Lines : TailEnd = End(i) - 1
    BY <1>1, <1>2, <1>3
  <2>2. /\ log[i].at \in Nat /\ log[k].at \in Nat /\ End(i) \in Nat /\ End(k) \in Nat
        /\ End(i) = log[i].at + log[i].len /\ log[i].len \in Nat /\ log[i].len >= 2 /\ log[k].at < End(k)
    BY LogFacts DEF TypeInv
  <2>3. log[i].at <= log[k].at /\ log[k].at < End(i) /\ log[i].at # log[k].at /\ log[k].at <= log[k].at
    BY <2>1, <2>2, <1>3
  <2>4. i = k
    BY <2>2, <2>3, SameLine DEF TypeInv
  <2> QED
    BY <2>3, <2>4
<1> QED
  BY <1>1, <1>2, <1>3

\* A line that begins before the end of the tail, with no newline between, ends there.
LEMMA TailLine ==
  ASSUME TypeInv, RangeInv, BackInv, Fine, pc = "back", NEW j \in Lines, log[j].at < TailEnd,
         \A i \in Lines : ~(log[j].at <= End(i) - 1 /\ End(i) - 1 < TailEnd)
  PROVE  /\ TailEnd < End(j) /\ (TailEnd = End(j) - 1 \/ j \in torn)
         /\ log[j].at < endPos
<1>1. TailEnd = endPos \/ \E i \in Lines : TailEnd = End(i) - 1 /\ TailEnd < endPos
  BY DEF BackInv
<1>2. endPos \in Nat /\ TailEnd \in Nat /\ TailEnd <= endPos
  BY BackFacts, TailFacts
<1>3. log[j].at \in Nat /\ End(j) \in Nat /\ log[j].at < End(j)
  BY LogFacts DEF TypeInv
<1>4. ~(log[j].at <= End(j) - 1 /\ End(j) - 1 < TailEnd)
  OBVIOUS
<1>5. TailEnd <= End(j) - 1 /\ log[j].at < endPos
  BY <1>2, <1>3, <1>4
<1>6. CASE TailEnd = endPos
  <2>1. UpToStop
    BY DEF RangeInv, Fine
  <2>2. endPos # None /\ log[j].at < endPos /\ endPos < End(j)
    BY <1>2, <1>3, <1>5, <1>6 DEF None
  <2> QED
    BY <2>1, <2>2, <1>5, <1>6 DEF UpToStop
<1>7. CASE TailEnd # endPos
  <2>1. PICK i \in Lines : TailEnd = End(i) - 1
    BY <1>1, <1>7
  <2>2. log[i].at \in Nat /\ End(i) \in Nat /\ log[i].at < End(i)
    BY LogFacts DEF TypeInv
  <2>3. log[i].at <= TailEnd /\ TailEnd < End(i) /\ log[j].at <= TailEnd /\ TailEnd < End(j)
    BY <2>1, <2>2, <1>2, <1>3, <1>5
  <2>4. i = j
    BY <2>3, <1>2, SameLine DEF TypeInv
  <2> QED
    BY <2>1, <2>3, <2>4, <1>5
<1> QED
  BY <1>6, <1>7

\* The newline of a line.
LEMMA NewlineIs ==
  ASSUME TypeInv, pc = "back"
  PROVE  /\ \A n \in Newlines : \E i \in Lines : n = End(i) - 1
         /\ \A i \in Lines : (rpos <= End(i) - 1 /\ End(i) - 1 < bufEnd) => End(i) - 1 \in Newlines
<1>1. /\ rpos \in Nat /\ bufEnd \in Nat /\ bufEnd <= size /\ size <= Total /\ size \in Nat /\ Total \in Nat
  BY BackFacts, SizeFacts, LogFacts DEF TypeInv
<1>2. ASSUME NEW n \in Newlines PROVE \E i \in Lines : n = End(i) - 1
  <2>1. n \in Nat /\ n < Total /\ n = LineEnd(n) - 1
    BY <1>1 DEF Newlines
  <2> QED
    BY <2>1, LineFacts DEF TypeInv
<1>3. ASSUME NEW i \in Lines, rpos <= End(i) - 1, End(i) - 1 < bufEnd PROVE End(i) - 1 \in Newlines
  <2>1. log[i].at \in Nat /\ End(i) \in Nat /\ log[i].at < End(i)
    BY LogFacts DEF TypeInv
  <2>2. PICK n \in Int : n = End(i) - 1
    BY <2>1
  <2>3. log[i].at <= n /\ n < End(i) /\ n \in rpos .. bufEnd - 1
    BY <2>1, <2>2, <1>1, <1>3
  <2>4. LineEnd(n) = End(i)
    BY <2>3, LineIs DEF TypeInv
  <2> QED
    BY <2>2, <2>3, <2>4 DEF Newlines
<1> QED
  BY <1>2, <1>3

LEMMA BackStays ==
  ASSUME TypeInv, BackInv, [Next]_vars, Fine', out' = out, UNCHANGED <<pc, rpos, bufEnd, part, startPos, endPos>>
  PROVE  BackInv'
<1> SUFFICES ASSUME pc = "back" PROVE BackInv'
  BY DEF BackInv
<1>1. /\ Lines' = Lines /\ log' = log /\ \A i \in Lines : End(i)' = End(i)
  BY SameKnown, Fixed
<1>2. Fine
  BY StaysFine
<1>3. EachALine' /\ Descending' /\ \A i \in Lines : IsSent(i)' <=> IsSent(i)
  BY <1>2, SentStays DEF BackInv
<1>4. TailEnd' = TailEnd /\ HasPart' = HasPart
  BY DEF TailEnd, HasPart
<1> QED
  BY <1>1, <1>2, <1>3, <1>4 DEF BackInv

\* The line that comes after a newline, and what was kept of it.
LEMMA BackLineStep ==
  ASSUME TypeInv, RangeInv, BackInv, BackLine, Fine'
  PROVE  BackInv'
<1>0. [Next]_vars
  BY DEF Next, Task
<1>1. /\ Lines' = Lines /\ log' = log /\ req' = req /\ \A i \in Lines : End(i)' = End(i)
  BY <1>0, SameKnown, Fixed
<1>2. Fine /\ ~cancelled'
  BY <1>0, StaysFine
<1>3. /\ pc = "back" /\ rpos < bufEnd /\ Newlines # {} /\ part' = <<0, 0>>
      /\ rpos' = rpos /\ startPos' = startPos /\ endPos' = endPos /\ torn' = torn
  BY DEF BackLine, backOthers, outside, disk, range
<1>4. PICK n \in Newlines : n = Max(Newlines)
  BY <1>3, BackFacts
<1>5. /\ bufEnd' = n
      /\ IF n + 1 = TailEnd THEN UNCHANGED <<pc, out, cancelled>> ELSE Send(n + 1, TailEnd, "back")
  BY <1>4 DEF BackLine
<1>6. /\ rpos \in Nat /\ bufEnd \in Nat /\ TailEnd \in Nat /\ bufEnd <= TailEnd /\ TailEnd <= size
      /\ n \in Nat /\ rpos <= n /\ n < bufEnd /\ \A m \in Newlines : m <= n
  BY <1>3, <1>4, BackFacts
<1>7. PICK i \in Lines : n = End(i) - 1
  BY <1>3, NewlineIs
<1>8. /\ EachALine /\ Descending /\ startPos <= rpos
      /\ \A k \in Lines : IsSent(k) <=> (log[k].ts # 0 /\ TailEnd < log[k].at /\ log[k].at < endPos)
      /\ \A k \in Lines : ~(bufEnd <= End(k) - 1 /\ End(k) - 1 < TailEnd)
  BY <1>2, <1>3, <1>6 DEF BackInv
<1>9. endPos \in Nat /\ TailEnd <= endPos /\ \A k \in Lines : log[k].at = TailEnd => ~(log[k].at < endPos)
  BY <1>2, <1>3, TailFacts
<1>10. \A k \in Lines : log[k].at \in Nat /\ End(k) \in Nat
  BY LogFacts DEF TypeInv
<1>11. \A k \in Lines : ~(n + 1 <= End(k) - 1 /\ End(k) - 1 < TailEnd)
  <2> SUFFICES ASSUME NEW k \in Lines, n + 1 <= End(k) - 1, End(k) - 1 < bufEnd PROVE FALSE
    BY <1>6, <1>8, <1>10
  <2>1. rpos <= End(k) - 1
    BY <1>6, <1>10
  <2>2. End(k) - 1 \in Newlines
    BY <2>1, <1>3, NewlineIs
  <2> QED
    BY <2>2, <1>6, <1>10
<1>12. /\ EachALine' /\ Descending'
       /\ \A k \in Lines : IsSent(k)' <=> (log[k].ts # 0 /\ n < log[k].at /\ log[k].at < endPos)
  <2>1. CASE n + 1 = TailEnd
    <3>1. EachALine' /\ Descending' /\ \A k \in Lines : IsSent(k)' <=> IsSent(k)
      BY <2>1, <1>0, <1>5, <1>8, SentStays
    <3>2. ASSUME NEW k \in Lines, n < log[k].at, log[k].at < endPos PROVE TailEnd < log[k].at
      BY <3>2, <2>1, <1>6, <1>9, <1>10
    <3> QED
      BY <3>1, <3>2, <2>1, <1>6, <1>8, <1>10
  <2>2. CASE n + 1 # TailEnd
    <3>1. n + 1 < TailEnd
      BY <2>2, <1>6
    <3>2. PICK j \in Lines :
            /\ log[j].at <= n + 1 /\ n + 1 < End(j)
            /\ \A k \in Lines : (n + 1 <= log[k].at /\ log[k].at < End(j)) => k = j /\ log[j].at = n + 1
      <4>1. n + 1 \in Nat /\ size \in Nat
        BY <1>6, SizeFacts
      <4> QED
        BY <4>1, <3>1, <1>6, LineHere
    <3>3. log[j].at = n + 1
      <4>1. ~(log[j].at < End(i) /\ End(i) < End(j))
        BY EndIsEdge DEF TypeInv
      <4> QED
        BY <4>1, <3>2, <1>7, <1>10, <1>6
    <3>4. TailEnd < End(j) /\ (TailEnd = End(j) - 1 \/ j \in torn) /\ log[j].at < endPos
      BY <3>1, <3>3, <1>2, <1>3, <1>11, TailLine
    <3>5. Send(n + 1, TailEnd, "back") /\ n + 1 \in Nat
      BY <2>2, <1>5, <1>6
    <3>6. \A k \in Lines : IsSent(k) => log[k].at > n + 1
      BY <3>1, <1>6, <1>8, <1>10
    <3>7. /\ EachALine' /\ Descending'
          /\ \A k \in Lines : IsSent(k)' <=> IsSent(k) \/ (k = j /\ log[j].ts # 0)
      BY <3>2, <3>3, <3>4, <3>5, <3>6, <1>0, <1>2, <1>8, SendFine DEF Fine
    <3>8. ASSUME NEW k \in Lines
          PROVE  IsSent(k)' <=> (log[k].ts # 0 /\ n < log[k].at /\ log[k].at < endPos)
      <4>1. CASE k = j
        BY <4>1, <3>1, <3>3, <3>4, <3>7, <1>6, <1>8, <1>10
      <4>2. CASE k # j
        <5>1. ~(n + 1 <= log[k].at /\ log[k].at <= TailEnd)
          BY <4>2, <3>2, <3>4, <1>6, <1>10
        <5> QED
          BY <5>1, <4>2, <3>1, <3>7, <1>6, <1>8, <1>10
      <4> QED
        BY <4>1, <4>2
    <3> QED
      BY <3>7, <3>8
  <2> QED
    BY <2>1, <2>2
<1>13. ~HasPart' /\ TailEnd' = n
  <2>1. ~HasPart'
    BY <1>3 DEF HasPart
  <2> QED
    BY <2>1, <1>5 DEF TailEnd
<1>14. (\A k \in Lines : IsSent(k) <=> (log[k].ts # 0 /\ TailEnd < log[k].at /\ log[k].at < endPos))'
  BY <1>1, <1>3, <1>12, <1>13
<1>15. (\E k \in Lines : TailEnd = End(k) - 1 /\ TailEnd < endPos)'
  BY <1>1, <1>3, <1>6, <1>7, <1>9, <1>13
<1>16. (\A k \in Lines : ~(bufEnd <= End(k) - 1 /\ End(k) - 1 < TailEnd))'
  BY <1>1, <1>5, <1>6, <1>10, <1>13
<1> QED
  BY <1>3, <1>8, <1>12, <1>14, <1>15, <1>16 DEF BackInv

LEMMA BackKeepStep ==
  ASSUME TypeInv, BackInv, BackKeep, Fine'
  PROVE  BackInv'
<1>0. [Next]_vars
  BY DEF Next, Task
<1>1. /\ Lines' = Lines /\ log' = log /\ \A i \in Lines : End(i)' = End(i)
  BY <1>0, SameKnown, Fixed
<1>2. Fine
  BY <1>0, StaysFine
<1>3. /\ pc = "back" /\ rpos < bufEnd /\ Newlines = {} /\ part' = <<rpos, TailEnd>> /\ bufEnd' = rpos
      /\ rpos' = rpos /\ startPos' = startPos /\ endPos' = endPos /\ out' = out
  BY DEF BackKeep, backOthers, range
<1>4. rpos \in Nat /\ bufEnd \in Nat /\ TailEnd \in Nat /\ bufEnd <= TailEnd
  BY <1>3, BackFacts
<1>5. /\ EachALine /\ Descending /\ startPos <= rpos
      /\ \A k \in Lines : IsSent(k) <=> (log[k].ts # 0 /\ TailEnd < log[k].at /\ log[k].at < endPos)
      /\ TailEnd = endPos \/ \E i \in Lines : TailEnd = End(i) - 1 /\ TailEnd < endPos
      /\ \A k \in Lines : ~(bufEnd <= End(k) - 1 /\ End(k) - 1 < TailEnd)
  BY <1>2, <1>3, <1>4 DEF BackInv
<1>6. EachALine' /\ Descending' /\ \A k \in Lines : IsSent(k)' <=> IsSent(k)
  BY <1>0, <1>3, <1>5, SentStays
<1>7. HasPart' /\ TailEnd' = TailEnd
  <2>1. HasPart'
    BY <1>3, <1>4 DEF HasPart
  <2> QED
    BY <2>1, <1>3 DEF TailEnd
<1>8. \A k \in Lines : ~(rpos <= End(k) - 1 /\ End(k) - 1 < TailEnd)
  <2>1. \A k \in Lines : End(k) \in Nat
    BY LogFacts DEF TypeInv
  <2>2. \A k \in Lines : ~(rpos <= End(k) - 1 /\ End(k) - 1 < bufEnd)
    BY <1>3, NewlineIs
  <2> QED
    BY <2>1, <2>2, <1>4, <1>5
<1>9. (\A k \in Lines : ~(bufEnd <= End(k) - 1 /\ End(k) - 1 < TailEnd))'
  BY <1>8, <1>1, <1>3, <1>7
<1>10. (\A k \in Lines : IsSent(k) <=> (log[k].ts # 0 /\ TailEnd < log[k].at /\ log[k].at < endPos))'
  BY <1>1, <1>3, <1>5, <1>6, <1>7
<1>11. (TailEnd = endPos \/ \E i \in Lines : TailEnd = End(i) - 1 /\ TailEnd < endPos)'
  BY <1>1, <1>3, <1>5, <1>7
<1> QED
  BY <1>3, <1>5, <1>6, <1>9, <1>10, <1>11 DEF BackInv

LEMMA BackFillStep ==
  ASSUME TypeInv, BackInv, BackFill, Fine'
  PROVE  BackInv'
<1>0. [Next]_vars
  BY DEF Next, Task
<1>1. /\ Lines' = Lines /\ log' = log /\ \A i \in Lines : End(i)' = End(i)
  BY <1>0, SameKnown, Fixed
<1>2. Fine
  BY <1>0, StaysFine
<1>3. /\ pc = "back" /\ part' = part /\ bufEnd' = bufEnd
      /\ rpos' = Max({startPos, rpos - Chunk}) /\ startPos' = startPos /\ endPos' = endPos /\ out' = out
  BY DEF BackFill, backOthers, range
<1>4. startPos' <= rpos'
  <2>1. startPos \in Int /\ rpos - Chunk \in Int
    BY NumFacts, SizeFacts
  <2> QED
    BY <2>1, <1>3, MaxOfTwo
<1>5. EachALine' /\ Descending' /\ \A k \in Lines : IsSent(k)' <=> IsSent(k)
  BY <1>0, <1>2, <1>3, SentStays DEF BackInv
<1>6. TailEnd' = TailEnd
  BY <1>3 DEF TailEnd, HasPart
<1> QED
  BY <1>1, <1>2, <1>3, <1>4, <1>5, <1>6 DEF BackInv

-----------------------------------------------------------------------------
(* The follower.                                                           *)

LEMMA FollowStays ==
  ASSUME TypeInv, FollowInv, [Next]_vars, Fine', out' = out, UNCHANGED <<rpos, startPos, gap>>,
         pc' \in {"listen", "lines"} => pc \in {"listen", "lines"}
  PROVE  FollowInv'
<1> SUFFICES ASSUME pc \in {"listen", "lines"} PROVE FollowInv'
  BY DEF FollowInv
<1>1. /\ Lines' = Lines /\ log' = log /\ torn \subseteq torn' /\ \A i \in Lines : End(i)' = End(i)
  BY SameKnown, Fixed, DiskStep
<1>2. Fine
  BY StaysFine
<1>3. /\ EachALine /\ Ascending /\ gap # <<>>
      /\ \A i \in Lines : IsSent(i) => log[i].at < rpos
      /\ \A i \in Lines \ torn :
           (log[i].ts # 0 /\ startPos <= log[i].at /\ End(i) <= rpos) => InGap(i) \/ IsSent(i)
      /\ \A i \in Lines : (log[i].at < rpos /\ rpos < End(i)) => i \in torn
  BY <1>2 DEF FollowInv
<1>4. EachALine' /\ Ascending' /\ \A i \in Lines : IsSent(i)' <=> IsSent(i)
  BY <1>3, SentStays
<1>5. \A i \in Lines : InGap(i)' <=> InGap(i)
  BY <1>1 DEF InGap
<1>6. (\A i \in Lines \ torn :
         (log[i].ts # 0 /\ startPos <= log[i].at /\ End(i) <= rpos) => InGap(i) \/ IsSent(i))'
  BY <1>1, <1>3, <1>4, <1>5
<1>7. (\A i \in Lines : IsSent(i) => log[i].at < rpos)'
  BY <1>1, <1>3, <1>4
<1>8. (\A i \in Lines : (log[i].at < rpos /\ rpos < End(i)) => i \in torn)'
  BY <1>1, <1>3
<1> QED
  BY <1>3, <1>4, <1>6, <1>7, <1>8 DEF FollowInv

LEMMA SeekStep ==
  ASSUME TypeInv, ReadInv, Seek, Fine'
  PROVE  FollowInv'
<1>0. [Next]_vars
  BY DEF Next, Task
<1>1. /\ Lines' = Lines /\ log' = log /\ torn \subseteq torn' /\ \A i \in Lines : End(i)' = End(i)
  BY <1>0, SameKnown, Fixed, DiskStep
<1>2. Fine
  BY <1>0, StaysFine
<1>3. /\ pc = "seek" /\ rpos' = size /\ gap' = <<rpos, size>> /\ startPos' = startPos /\ out' = out
  BY DEF Seek, stayOthers, range
<1>4. /\ EachALine /\ Ascending
      /\ \A i \in Lines : IsSent(i) <=> (log[i].ts # 0 /\ startPos <= log[i].at /\ log[i].at < rpos)
  BY <1>2, <1>3 DEF ReadInv
<1>5. EachALine' /\ Ascending' /\ \A i \in Lines : IsSent(i)' <=> IsSent(i)
  BY <1>0, <1>3, <1>4, SentStays
<1>6. /\ rpos \in Nat /\ rpos <= size /\ size \in Nat
      /\ \A i \in Lines : log[i].at \in Nat /\ End(i) \in Nat /\ log[i].at < End(i)
  BY NumFacts, SizeFacts, LogFacts DEF TypeInv
<1>7. (\A i \in Lines : IsSent(i) => log[i].at < rpos)'
  BY <1>1, <1>3, <1>4, <1>5, <1>6
<1>8. ASSUME NEW i \in Lines, log[i].ts # 0, startPos <= log[i].at, End(i) <= size
      PROVE  InGap(i)' \/ IsSent(i)
  <2>1. CASE log[i].at < rpos
    BY <2>1, <1>4, <1>8
  <2>2. CASE rpos <= log[i].at
    <3>1. log[i].at < size /\ rpos < End(i)
      BY <2>2, <1>6, <1>8
    <3>2. gap'[1] = rpos /\ gap'[2] = size
      BY <1>3
    <3> QED
      BY <3>1, <3>2, <1>1 DEF InGap
  <2> QED
    BY <2>1, <2>2, <1>6
<1>9. (\A i \in Lines \ torn :
         (log[i].ts # 0 /\ startPos <= log[i].at /\ End(i) <= rpos) => InGap(i) \/ IsSent(i))'
  BY <1>1, <1>3, <1>5, <1>8
<1>10. ASSUME NEW i \in Lines, log[i].at < size, size < End(i) PROVE i \in torn
  <2>1. i \in Partial(size)
    BY <1>10 DEF Partial, Lines
  <2> QED
    BY <2>1 DEF TypeInv, FileInv
<1>11. (\A i \in Lines : (log[i].at < rpos /\ rpos < End(i)) => i \in torn)'
  BY <1>1, <1>3, <1>10
<1>12. gap' # <<>>
  BY <1>3
<1> QED
  BY <1>5, <1>7, <1>9, <1>11, <1>12 DEF FollowInv

LEMMA NextLineStep ==
  ASSUME TypeInv, FollowInv, NextLine, Fine'
  PROVE  FollowInv'
<1>0. [Next]_vars
  BY DEF Next, Task
<1>1. /\ Lines' = Lines /\ log' = log /\ \A i \in Lines : End(i)' = End(i)
  BY <1>0, SameKnown, Fixed
<1>2. Fine /\ ~cancelled'
  BY <1>0, StaysFine
<1>3. /\ pc = "lines" /\ rpos < NewSize /\ rpos' = Min({LineEnd(rpos), NewSize})
      /\ Send(rpos, TextEnd(rpos, NewSize), "lines")
      /\ startPos' = startPos /\ gap' = gap /\ torn' = torn
  BY DEF NextLine, lineOthers, outside, disk, range, follow
<1>4. rpos \in Nat /\ NewSize \in Nat /\ NewSize <= size
  BY NumFacts, SizeFacts
<1>5. PICK i \in Lines :
        /\ log[i].at <= rpos /\ rpos < End(i) /\ LineEnd(rpos) = End(i)
        /\ log[i].at \in Nat /\ End(i) \in Nat
        /\ TextEnd(rpos, NewSize) = IF End(i) - 1 <= NewSize THEN End(i) - 1 ELSE NewSize
        /\ \A j \in Lines : (rpos <= log[j].at /\ log[j].at < End(i)) => j = i /\ log[i].at = rpos
  BY <1>3, <1>4, LineHere
<1>6. /\ EachALine /\ Ascending /\ gap # <<>>
      /\ \A j \in Lines : IsSent(j) => log[j].at < rpos
      /\ \A j \in Lines \ torn :
           (log[j].ts # 0 /\ startPos <= log[j].at /\ End(j) <= rpos) => InGap(j) \/ IsSent(j)
      /\ \A j \in Lines : (log[j].at < rpos /\ rpos < End(j)) => j \in torn
  BY <1>2, <1>3 DEF FollowInv
<1>7. \A j \in Lines : log[j].at \in Nat /\ End(j) \in Nat /\ log[j].at < End(j)
  BY LogFacts DEF TypeInv
<1>8. rpos' = IF End(i) <= NewSize THEN End(i) ELSE NewSize
  BY <1>3, <1>4, <1>5, MinOfTwo
<1>9. ASSUME NEW j \in Lines, log[j].at < NewSize, NewSize < End(j) PROVE j \in torn
  <2>1. j \in Partial(size) \/ j \in Partial(OldSize)
    BY <1>9 DEF Partial, Lines, NewSize
  <2> QED
    BY <2>1 DEF TypeInv, FileInv
<1>10. TextEnd(rpos, NewSize) = End(i) - 1 \/ i \in torn
  BY <1>3, <1>4, <1>5, <1>9
<1>11. /\ EachALine' /\ Ascending'
       /\ \A j \in Lines : IsSent(j)' <=> IsSent(j) \/ (j = i /\ rpos = log[i].at /\ log[i].ts # 0)
  BY <1>0, <1>2, <1>3, <1>4, <1>5, <1>6, <1>10, SendFine DEF Fine
<1>12. (\A j \in Lines : IsSent(j) => log[j].at < rpos)'
  <2>1. rpos < rpos'
    BY <1>3, <1>4, <1>5, <1>8
  <2>2. \A j \in Lines : IsSent(j)' => log[j].at <= rpos
    BY <1>4, <1>6, <1>7, <1>11
  <2>3. rpos' \in Nat
    BY <1>4, <1>5, <1>8
  <2>4. \A j \in Lines : IsSent(j)' => log[j].at < rpos'
    BY <2>1, <2>2, <2>3, <1>4, <1>7
  <2> QED
    BY <2>4, <1>1
<1>13. ASSUME NEW j \in Lines \ torn, log[j].ts # 0, startPos <= log[j].at, End(j) <= rpos'
       PROVE  InGap(j) \/ IsSent(j)'
  <2>1. CASE End(j) <= rpos
    BY <2>1, <1>6, <1>11, <1>13
  <2>2. CASE rpos < End(j)
    <3>1. rpos <= log[j].at
      BY <2>2, <1>4, <1>6, <1>7
    <3>2. log[j].at < End(i)
      BY <1>4, <1>5, <1>7, <1>8, <1>13
    <3> QED
      BY <3>1, <3>2, <1>5, <1>11, <1>13
  <2> QED
    BY <2>1, <2>2, <1>4, <1>7
<1>14. \A j \in Lines : InGap(j)' <=> InGap(j)
  BY <1>1, <1>3 DEF InGap
<1>15. (\A j \in Lines \ torn :
          (log[j].ts # 0 /\ startPos <= log[j].at /\ End(j) <= rpos) => InGap(j) \/ IsSent(j))'
  BY <1>1, <1>3, <1>13, <1>14
<1>16. (\A j \in Lines : (log[j].at < rpos /\ rpos < End(j)) => j \in torn)'
  <2>1. CASE rpos' = End(i)
    BY <2>1, <1>1, EndIsEdge DEF TypeInv
  <2>2. CASE rpos' = NewSize
    BY <2>2, <1>1, <1>3, <1>9
  <2> QED
    BY <2>1, <2>2, <1>8
<1> QED
  BY <1>3, <1>6, <1>11, <1>12, <1>15, <1>16 DEF FollowInv

-----------------------------------------------------------------------------
(* The end.                                                                *)

\* What is wanted is what lies in the range.
LEMMA WantedIs ==
  ASSUME TypeInv, FromStart, UpToStop, NEW n \in Nat, endPos # None => n = maxOffset,
         NEW m, m = IF endPos = None THEN n ELSE endPos
  PROVE  \A i \in Lines : i \in Wanted(n) <=> (log[i].ts # 0 /\ startPos <= log[i].at /\ log[i].at < m)
<1> SUFFICES ASSUME NEW i \in Lines, log[i].ts # 0
             PROVE  i \in Wanted(n) <=> (startPos <= log[i].at /\ log[i].at < m)
  BY DEF Wanted
<1>1. /\ log[i].at \in Nat /\ log[i].ts \in Nat /\ i \in Nat /\ startPos \in Nat /\ maxOffset \in Nat
      /\ req \in Request
  BY LogFacts, NumFacts, SizeFacts, SMTT(20) DEF TypeInv, Lines
<1>2. startPos <= log[i].at <=> log[i].ts >= Start
  BY DEF FromStart
<1>3. (Start # 0 => log[i].ts >= Start) <=> startPos <= log[i].at
  BY <1>1, <1>2
<1>4. CASE Stop = 0
  <2>1. m = n
    BY <1>4 DEF UpToStop
  <2>2. i \in Wanted(n) <=> (log[i].at < n /\ (Start # 0 => log[i].ts >= Start))
    BY <1>4 DEF Wanted
  <2> QED
    BY <2>1, <2>2, <1>3
<1>5. CASE Stop # 0
  <2> DEFINE Before == \E j \in Known(0, TRUE) : i <= j /\ log[j].ts <= Stop
  <2>1. m = endPos /\ n = maxOffset
    BY <1>5 DEF UpToStop
  <2>2. startPos <= log[i].at => (log[i].at < endPos <=> Before)
    BY <1>5, <2>1 DEF UpToStop
  <2>3. Before => log[i].at < maxOffset
    <3> SUFFICES ASSUME NEW j \in Known(0, TRUE), i <= j PROVE log[i].at < maxOffset
      OBVIOUS
    <3>1. j \in Lines /\ j \in Nat /\ log[j].at \in Nat /\ log[j].at < maxOffset
      BY KnownFacts, 0 \in Int
    <3>2. ~(log[j].at < log[i].at)
      <4>1. ~(j < i)
        BY <3>1, <1>1
      <4> QED
        BY <4>1, <3>1, Order DEF TypeInv
    <3> QED
      BY <3>1, <3>2, <1>1
  <2>4. i \in Wanted(n) <=> (log[i].at < n /\ (Start # 0 => log[i].ts >= Start) /\ Before)
    BY <1>5 DEF Wanted
  <2> HIDE DEF Before
  <2> QED
    BY <2>1, <2>2, <2>3, <2>4, <1>3
<1> QED
  BY <1>4, <1>5

\* A search that finds no start or no end: nothing is wanted.
LEMMA NothingWanted ==
  ASSUME TypeInv, SearchInv, RangeInv, Plain, SinceFound \/ UntilFound, found = <<>>
  PROVE  \A i \in Lines : i \notin Wanted(maxOffset)
<1> SUFFICES ASSUME NEW i \in Lines, i \in Wanted(maxOffset) PROVE FALSE
  OBVIOUS
<1>1. /\ log[i].at < maxOffset /\ log[i].ts # 0 /\ (Start # 0 => log[i].ts >= Start)
      /\ Stop # 0 => \E j \in Known(0, TRUE) : i <= j /\ log[j].ts <= Stop
  BY DEF Wanted
<1>2. /\ log[i].at \in Nat /\ log[i].ts \in Nat /\ i \in Nat /\ req \in Request
      /\ left \in Nat /\ right \in Int /\ startPos \in Nat
  BY LogFacts, NumFacts, SizeFacts, SMTT(20) DEF TypeInv, Lines
<1>3. CASE SinceFound
  <2>1. pc = "since" /\ left > right
    BY <1>3 DEF SinceFound
  <2>2. i \in Known(0, FALSE)
    BY <1>1, <1>2 DEF Known
  <2>3. Start # 0 /\ (log[i].at < left => log[i].ts < req.start) /\ ~(right < log[i].at)
    BY <2>1, <2>2 DEF SearchInv, SinceInv
  <2>4. Start = req.start /\ req.start \in Nat
    BY <2>3, <1>2 DEF Start, Request
  <2> QED
    BY <2>1, <2>3, <2>4, <1>1, <1>2
<1>4. CASE UntilFound
  <2>1. pc = "until" /\ left > right
    BY <1>4 DEF UntilFound
  <2>2. Stop # 0
    BY <2>1 DEF SearchInv, UntilInv
  <2>3. Stop = req.stop /\ req.stop \in Nat /\ ByTime
    BY <2>2, <1>2 DEF Stop, ByTime, Request
  <2>4. FromStart
    BY <2>1, <2>3 DEF RangeInv
  <2>5. PICK j \in Known(0, TRUE) : i <= j /\ log[j].ts <= Stop
    BY <2>2, <1>1
  <2>6. /\ j \in Lines /\ j \in Nat /\ log[j].at \in Nat /\ log[j].ts \in Nat /\ log[j].ts # 0
        /\ log[j].at < maxOffset
    BY KnownFacts, 0 \in Int
  <2>7. log[j].final
    BY DEF Known
  <2>8. log[i].at <= log[j].at
    <3>1. ~(log[j].at < log[i].at)
      <4>1. ~(j < i)
        BY <2>5, <2>6, <1>2
      <4> QED
        BY <4>1, <2>6, Order DEF TypeInv
    <3> QED
      BY <3>1, <2>6, <1>2
  <2>9. startPos <= log[i].at
    <3>1. startPos <= log[i].at <=> log[i].ts >= Start
      BY <2>4, <1>1 DEF FromStart
    <3>2. log[i].ts >= Start
      BY <1>1, <1>2
    <3> QED
      BY <3>1, <3>2
  <2>10. Low <= log[j].at
    BY <2>6, <2>8, <2>9, <1>2 DEF Low
  <2>11. j \in Known(Low, TRUE)
    BY <2>6, <2>7, <2>10 DEF Known
  <2>12. (right < log[j].at => log[j].ts > req.stop) /\ ~(log[j].at < left)
    BY <2>1, <2>11 DEF SearchInv, UntilInv
  <2> QED
    BY <2>1, <2>3, <2>5, <2>6, <2>12, <1>2
<1> QED
  BY <1>3, <1>4

LEMMA EndCases ==
  ASSUME [Next]_vars, Fine', pc' = "ended", status' = "ok", pc # "ended"
  PROVE  SinceFound \/ UntilFound \/ Searched \/ BackEnd
<1>1. ~cancelled' /\ ~broken'
  BY StaysFine
<1>2. Fine
  BY StaysFine
<1> QED
  BY <1>1, <1>2 DEF Fine, Next, Task, vars, Write, Rotate, Leave, Shutdown, service, Open, Begin, ReadRange, Probe, probeOthers,
     Fail, ReadLine, ReadEnd, ReadFail, ReadStop, BackLine, BackKeep, BackFill, BackFail, BackStop, Watch, Seek,
     Notified, NextLine, LinesStop, NoMoreLines, ListenStop, Send, Ended, stayOthers, backOthers, readOthers

LEMMA EndsWell ==
  ASSUME TypeInv, [Next]_vars, maxOffset' = maxOffset, NEW n \in maxOffset..OldSize, EachALine',
         IF req.backward THEN Descending' ELSE Ascending',
         \A i \in Lines : IsSent(i)' <=> i \in Wanted(n)
  PROVE  EndInv'
<1>1. /\ Lines' = Lines /\ log' = log /\ req' = req /\ Start' = Start /\ Stop' = Stop
      /\ OldSize' \in Nat /\ OldSize <= OldSize'
  BY SameKnown, Fixed, DiskStep
<1>2. n \in maxOffset'..OldSize'
  <2>1. maxOffset \in Nat /\ OldSize \in Nat
    BY SizeFacts
  <2> QED
    BY <2>1, <1>1
<1>3. Wanted(n)' = Wanted(n)
  <2> DEFINE K == Known(0, TRUE)
  <2>1. K' = K
    BY SameKnown
  <2> HIDE DEF K
  <2> QED
    BY <2>1, <1>1 DEF Wanted, K
<1>4. \E m \in maxOffset'..OldSize' : \A i \in Lines' : IsSent(i)' <=> i \in Wanted(m)'
  BY <1>1, <1>2, <1>3
<1> QED
  BY <1>1, <1>4, Zenon DEF EndInv

LEMMA SearchedEnds ==
  ASSUME TypeInv, RangeInv, ReadInv, Searched, pc' = "ended", Fine'
  PROVE  EndInv'
<1>0. [Next]_vars
  BY DEF Next, Task
<1>1. Fine /\ ~cancelled'
  BY <1>0, StaysFine
<1>2. /\ pc = "searched" /\ (endPos # None \/ req.follow = "noop") /\ out' = out /\ maxOffset' = maxOffset
  BY <1>1 DEF Searched, Fine, stayOthers
<1>3. /\ ~req.backward /\ EachALine /\ Ascending
      /\ \A i \in Lines : IsSent(i) <=> (log[i].ts # 0 /\ startPos <= log[i].at /\ log[i].at < rpos)
      /\ IF endPos = None THEN maxOffset <= rpos /\ rpos <= OldSize ELSE rpos = endPos
  BY <1>1, <1>2 DEF ReadInv
<1>4. UpToStop
  BY <1>1, <1>2 DEF RangeInv, Fine
<1>5. ByTime
  <2>1. endPos # None => Stop # 0
    BY <1>3, <1>4 DEF UpToStop
  <2> QED
    BY <2>1, <1>2 DEF Stop, ByTime
<1>6. FromStart
  BY <1>1, <1>2, <1>5 DEF RangeInv, Fine
<1>7. rpos \in Nat /\ maxOffset \in Nat /\ OldSize \in Nat /\ maxOffset <= OldSize
  BY NumFacts, SizeFacts
<1>8. PICK n \in maxOffset..OldSize : n = IF endPos = None THEN rpos ELSE maxOffset
  BY <1>3, <1>7
<1>9. n \in Nat /\ rpos = IF endPos = None THEN n ELSE endPos
  BY <1>3, <1>7, <1>8
<1>10. \A i \in Lines : i \in Wanted(n) <=> (log[i].ts # 0 /\ startPos <= log[i].at /\ log[i].at < rpos)
  BY <1>4, <1>6, <1>8, <1>9, WantedIs
<1>11. EachALine' /\ Ascending' /\ \A i \in Lines : IsSent(i)' <=> IsSent(i)
  BY <1>0, <1>2, <1>3, SentStays
<1>12. \A i \in Lines : IsSent(i)' <=> i \in Wanted(n)
  BY <1>3, <1>10, <1>11
<1> QED
  BY <1>0, <1>2, <1>3, <1>11, <1>12, EndsWell

LEMMA FoundEnds ==
  ASSUME TypeInv, SearchInv, RangeInv, NothingSent, SinceFound \/ UntilFound, pc' = "ended", Fine'
  PROVE  EndInv'
<1>0. [Next]_vars
  BY DEF Next, Task
<1>1. Plain
  BY <1>0, StaysFine DEF Fine
<1>2. /\ found = <<>> /\ out' = out /\ maxOffset' = maxOffset /\ pc \in {"since", "until"}
  BY DEF SinceFound, UntilFound, Begin, ReadRange
<1>3. EachALine' /\ Ascending' /\ Descending' /\ \A i : ~IsSent(i)'
  BY <1>2, NoneSent DEF NothingSent
<1>4. \A i \in Lines : i \notin Wanted(maxOffset)
  BY <1>1, <1>2, NothingWanted
<1>5. maxOffset \in maxOffset..OldSize
  BY NumFacts, SizeFacts
<1>6. PICK n \in maxOffset..OldSize : n = maxOffset
  BY <1>5
<1>7. \A i \in Lines : IsSent(i)' <=> i \in Wanted(n)
  BY <1>3, <1>4, <1>6
<1> QED
  BY <1>0, <1>2, <1>3, <1>7, EndsWell

\* The last line of a read backward is the one at the start.
LEMMA BackEnds ==
  ASSUME TypeInv, RangeInv, BackInv, BackEnd, pc' = "ended", Fine'
  PROVE  EndInv'
<1>0. [Next]_vars
  BY DEF Next, Task
<1>1. Fine /\ ~cancelled'
  BY <1>0, StaysFine
<1>2. /\ pc = "back" /\ rpos = bufEnd /\ rpos <= startPos /\ maxOffset' = maxOffset
      /\ IF HasPart THEN Send(part[1], part[2], "ended") ELSE out' = out
  BY DEF BackEnd, backOthers
<1>3. /\ EachALine /\ Descending
      /\ \A k \in Lines : IsSent(k) <=> (log[k].ts # 0 /\ TailEnd < log[k].at /\ log[k].at < endPos)
      /\ \A k \in Lines : ~(bufEnd <= End(k) - 1 /\ End(k) - 1 < TailEnd)
      /\ startPos <= rpos \/ (rpos = endPos /\ bufEnd = endPos /\ ~HasPart)
  BY <1>1, <1>2 DEF BackInv
<1>4. /\ rpos \in Nat /\ startPos \in Nat /\ endPos \in Nat /\ TailEnd \in Nat /\ TailEnd <= size /\ size \in Nat
      /\ TailEnd <= endPos /\ endPos # None
      /\ HasPart => part[1] = bufEnd /\ part[2] = TailEnd /\ bufEnd < TailEnd
      /\ ~HasPart => TailEnd = bufEnd
      /\ \A k \in Lines : log[k].at = TailEnd => ~(log[k].at < endPos)
      /\ \A k \in Lines : log[k].at \in Nat /\ End(k) \in Nat
  <2>1. req.backward /\ endPos # None
    BY <1>2 DEF TypeInv, Bounds, KeptPart
  <2> QED
    BY <2>1, <1>1, <1>2, BackFacts, NumFacts, SizeFacts, TailFacts, LogFacts DEF TypeInv
<1>5. req.backward /\ FromStart /\ UpToStop
  <2>1. req.backward
    BY <1>2 DEF TypeInv, Bounds, KeptPart
  <2>2. ByTime
    BY <2>1 DEF ByTime
  <2> QED
    BY <2>1, <2>2, <1>1, <1>2 DEF RangeInv, Fine
<1>6. /\ EachALine' /\ Descending'
      /\ \A k \in Lines : IsSent(k)' <=> (log[k].ts # 0 /\ startPos <= log[k].at /\ log[k].at < endPos)
  <2>1. CASE HasPart
    <3>1. /\ rpos = startPos /\ startPos < TailEnd /\ Send(startPos, TailEnd, "ended")
      BY <2>1, <1>2, <1>3, <1>4
    <3>2. PICK j \in Lines :
            /\ log[j].at <= startPos /\ startPos < End(j)
            /\ \A k \in Lines : (startPos <= log[k].at /\ log[k].at < End(j)) => k = j /\ log[j].at = startPos
      BY <3>1, <1>4, LineHere
    <3>3. log[j].at = startPos
      <4>1. CASE startPos = 0
        BY <4>1, <3>2, <1>4
      <4>2. CASE startPos # 0
        <5>1. PICK k \in Lines : startPos = log[k].at
          BY <4>2, <1>5 DEF FromStart
        <5> QED
          BY <5>1, <3>2, <1>4
      <4> QED
        BY <4>1, <4>2
    <3>4. TailEnd < End(j) /\ (TailEnd = End(j) - 1 \/ j \in torn) /\ log[j].at < endPos
      BY <3>1, <3>3, <1>1, <1>2, <1>3, TailLine
    <3>5. \A k \in Lines : IsSent(k) => log[k].at > startPos
      BY <3>1, <1>3, <1>4
    <3>6. /\ EachALine' /\ Descending'
          /\ \A k \in Lines : IsSent(k)' <=> IsSent(k) \/ (k = j /\ log[j].ts # 0)
      BY <3>1, <3>2, <3>3, <3>4, <3>5, <1>0, <1>1, <1>3, <1>4, SendFine DEF Fine
    <3>7. ASSUME NEW k \in Lines
          PROVE  IsSent(k)' <=> (log[k].ts # 0 /\ startPos <= log[k].at /\ log[k].at < endPos)
      <4>1. CASE k = j
        BY <4>1, <3>1, <3>3, <3>4, <3>6, <1>3, <1>4
      <4>2. CASE k # j
        <5>1. ~(startPos <= log[k].at /\ log[k].at <= TailEnd)
          BY <4>2, <3>2, <3>4, <1>4
        <5> QED
          BY <5>1, <4>2, <3>1, <3>6, <1>3, <1>4
      <4> QED
        BY <4>1, <4>2
    <3> QED
      BY <3>6, <3>7
  <2>2. CASE ~HasPart
    <3>1. EachALine' /\ Descending' /\ \A k \in Lines : IsSent(k)' <=> IsSent(k)
      BY <2>2, <1>0, <1>2, <1>3, SentStays
    <3>2. TailEnd = rpos /\ (rpos = startPos \/ endPos <= startPos)
      BY <2>2, <1>2, <1>3, <1>4
    <3>3. ASSUME NEW k \in Lines
          PROVE  (TailEnd < log[k].at /\ log[k].at < endPos) <=> (startPos <= log[k].at /\ log[k].at < endPos)
      <4>1. CASE rpos = startPos
        BY <4>1, <3>2, <1>4
      <4>2. CASE endPos <= startPos
        BY <4>2, <3>2, <1>3, <1>4
      <4> QED
        BY <4>1, <4>2, <3>2
    <3> QED
      BY <3>1, <3>3, <1>3
  <2> QED
    BY <2>1, <2>2
<1>7. PICK n \in maxOffset..OldSize : n = maxOffset
  BY NumFacts, SizeFacts
<1>8. \A k \in Lines : k \in Wanted(n) <=> (log[k].ts # 0 /\ startPos <= log[k].at /\ log[k].at < endPos)
  <2>1. n \in Nat
    BY <1>7, SizeFacts
  <2> QED
    BY <2>1, <1>4, <1>5, <1>7, WantedIs
<1>9. \A k \in Lines : IsSent(k)' <=> k \in Wanted(n)
  BY <1>6, <1>8
<1> QED
  BY <1>0, <1>2, <1>5, <1>6, <1>9, EndsWell

LEMMA EndStep ==
  ASSUME TypeInv, SearchInv, RangeInv, SentInv, [Next]_vars
  PROVE  EndInv'
<1> SUFFICES ASSUME Fine', pc' = "ended", status' = "ok" PROVE EndInv'
  BY DEF EndInv
<1>1. CASE pc # "ended"
  <2>1. SinceFound \/ UntilFound \/ Searched \/ BackEnd
    BY <1>1, EndCases
  <2> QED
    BY <2>1, SearchedEnds, FoundEnds, BackEnds DEF SentInv
<1>2. CASE pc = "ended"
  <2>1. Write \/ Rotate \/ Leave \/ Shutdown \/ UNCHANGED vars
    BY <1>2 DEF Next, Task, Open, Probe, SinceFound, UntilFound, Fail, ReadLine, ReadEnd, ReadFail, ReadStop,
       Searched, BackLine, BackKeep, BackFill, BackEnd, BackFail, BackStop, Watch, Seek, Notified, NextLine,
       LinesStop, NoMoreLines, ListenStop
  <2>2. out' = out /\ maxOffset' = maxOffset /\ status' = status
    BY <2>1, EnvStays
  <2>3. Fine
    BY StaysFine
  <2>4. /\ EachALine /\ IF req.backward THEN Descending ELSE Ascending
        /\ \E n \in maxOffset..OldSize : \A i \in Lines : IsSent(i) <=> i \in Wanted(n)
    BY <1>2, <2>2, <2>3 DEF SentInv, EndInv
  <2>5. PICK n \in maxOffset..OldSize : \A i \in Lines : IsSent(i) <=> i \in Wanted(n)
    BY <2>4
  <2>6. /\ EachALine' /\ Descending' = Descending /\ Ascending' = Ascending
        /\ \A i \in Lines : IsSent(i)' <=> IsSent(i)
    BY <2>2, <2>4, SentStays
  <2> QED
    BY <2>2, <2>4, <2>5, <2>6, EndsWell
<1> QED
  BY <1>1, <1>2

-----------------------------------------------------------------------------
(* Every step.                                                             *)

ByOthers == Write \/ Rotate \/ Leave \/ Shutdown \/ UNCHANGED vars

LEMMA ReadFrom ==
  ASSUME [Next]_vars, Fine', pc' \in {"read", "searched", "watch", "seek"}
  PROVE  \/ ByOthers \/ ReadLine \/ ReadEnd \/ Watch
         \/ (Open \/ SinceFound \/ UntilFound) /\ pc' = "read"
         \/ Searched /\ pc' = "watch" /\ endPos = None
<1>1. Fine /\ ~cancelled' /\ ~broken'
  BY StaysFine
<1> QED
  BY <1>1 DEF ByOthers, Fine, Next, Task, Open, Begin, ReadRange, Probe, probeOthers, SinceFound, UntilFound, Fail,
     ReadFail, ReadStop, BackLine, BackKeep, BackFill, BackEnd, BackFail, BackStop, Seek,
     Notified, NextLine, LinesStop, NoMoreLines, ListenStop, Searched, Send, Ended, readOthers

LEMMA BackFrom ==
  ASSUME [Next]_vars, Fine', pc' = "back"
  PROVE  ByOthers \/ BackLine \/ BackKeep \/ BackFill \/ Open \/ SinceFound \/ UntilFound
<1>1. Fine /\ ~cancelled' /\ ~broken'
  BY StaysFine
<1> QED
  BY <1>1 DEF ByOthers, Fine, Next, Task, Probe, probeOthers, Fail, ReadLine, ReadEnd, ReadFail, ReadStop,
     Searched, BackEnd, BackFail, BackStop, Watch, Seek, Notified, NextLine, LinesStop, NoMoreLines,
     ListenStop, Send, Ended

LEMMA FollowFrom ==
  ASSUME [Next]_vars, Fine', pc' \in {"listen", "lines"}
  PROVE  \/ ByOthers \/ Seek \/ NextLine
         \/ (Notified \/ NoMoreLines) /\ pc \in {"listen", "lines"}
<1>1. Fine /\ ~cancelled' /\ ~broken'
  BY StaysFine
<1> QED
  BY <1>1 DEF ByOthers, Fine, Next, Task, Open, Begin, ReadRange, Probe, probeOthers, SinceFound, UntilFound, Fail,
     ReadLine, ReadEnd, ReadFail, ReadStop, Searched, BackLine, BackKeep, BackFill, BackEnd, BackFail,
     BackStop, Watch, Notified, LinesStop, NoMoreLines, ListenStop, Send, Ended

LEMMA ReadStep ==
  ASSUME TypeInv, TypeInv', SearchInv, RangeInv, RangeInv', SentInv, [Next]_vars
  PROVE  ReadInv'
<1> SUFFICES ASSUME Fine', pc' \in {"read", "searched", "watch", "seek"} PROVE ReadInv'
  BY DEF ReadInv
<1>1. ReadInv /\ NothingSent /\ Plain
  BY StaysFine DEF SentInv, Fine
<1>2. CASE ByOthers
  <2>1. UNCHANGED <<pc, out, rpos, startPos, endPos, maxOffset>>
    BY <1>2, EnvStays DEF ByOthers
  <2> QED
    BY <2>1, <1>1, ReadStays
<1>3. CASE ReadLine
  BY <1>1, <1>3, ReadLineStep
<1>4. CASE ReadEnd
  BY <1>1, <1>4, ReadEndStep
<1>5. CASE Watch
  <2>1. UNCHANGED <<out, rpos, startPos, endPos, maxOffset>> /\ pc = "watch" /\ pc' = "seek"
    BY <1>5 DEF Watch, stayOthers, range
  <2> QED
    BY <2>1, <1>1, ReadStays
<1>6. CASE (Open \/ SinceFound \/ UntilFound) /\ pc' = "read"
  BY <1>1, <1>6, ReadBegins
<1>7. CASE Searched /\ pc' = "watch" /\ endPos = None
  <2>1. UNCHANGED <<out, rpos, startPos, endPos, maxOffset>> /\ pc = "searched"
    BY <1>7 DEF Searched, stayOthers, range
  <2> QED
    BY <2>1, <1>1, <1>7, ReadStays
<1> QED
  BY <1>2, <1>3, <1>4, <1>5, <1>6, <1>7, ReadFrom

LEMMA BackStep ==
  ASSUME TypeInv, TypeInv', RangeInv, SentInv, [Next]_vars
  PROVE  BackInv'
<1> SUFFICES ASSUME Fine', pc' = "back" PROVE BackInv'
  BY DEF BackInv
<1>1. BackInv /\ NothingSent
  BY DEF SentInv
<1>2. CASE ByOthers
  <2>1. UNCHANGED <<pc, out, rpos, bufEnd, part, startPos, endPos>>
    BY <1>2, EnvStays DEF ByOthers
  <2> QED
    BY <2>1, <1>1, BackStays
<1>3. CASE BackLine
  BY <1>1, <1>3, BackLineStep
<1>4. CASE BackKeep
  BY <1>1, <1>4, BackKeepStep
<1>5. CASE BackFill
  BY <1>1, <1>5, BackFillStep
<1>6. CASE Open \/ SinceFound \/ UntilFound
  BY <1>1, <1>6, BackBegins
<1> QED
  BY <1>2, <1>3, <1>4, <1>5, <1>6, BackFrom

LEMMA FollowStep ==
  ASSUME TypeInv, SentInv, [Next]_vars
  PROVE  FollowInv'
<1> SUFFICES ASSUME Fine', pc' \in {"listen", "lines"} PROVE FollowInv'
  BY DEF FollowInv
<1>1. FollowInv /\ ReadInv
  BY DEF SentInv
<1>2. CASE ByOthers
  <2>1. UNCHANGED <<pc, out, rpos, startPos, gap>>
    BY <1>2, EnvStays DEF ByOthers
  <2> QED
    BY <2>1, <1>1, FollowStays
<1>3. CASE Seek
  BY <1>1, <1>3, SeekStep
<1>4. CASE NextLine
  BY <1>1, <1>4, NextLineStep
<1>5. CASE (Notified \/ NoMoreLines) /\ pc \in {"listen", "lines"}
  <2>1. UNCHANGED <<out, rpos, startPos, gap>>
    BY <1>5 DEF Notified, NoMoreLines, stayOthers, lineOthers, range, follow
  <2> QED
    BY <2>1, <1>1, <1>5, FollowStays
<1> QED
  BY <1>2, <1>3, <1>4, <1>5, FollowFrom

LEMMA SilentStep ==
  ASSUME NothingSent, [Next]_vars
  PROVE  NothingSent'
<1> SUFFICES ASSUME pc' \in {"open", "since", "until"} PROVE out' = out /\ pc \in {"open", "since", "until"}
  BY DEF NothingSent
<1>1. CASE ByOthers
  BY <1>1, EnvStays DEF ByOthers
<1>2. CASE Open \/ Probe("since") \/ Probe("until") \/ SinceFound \/ UntilFound
  BY <1>2 DEF Open, Probe, probeOthers, SinceFound, UntilFound
<1>3. CASE /\ Task \/ Fail \/ ReadFail \/ ReadStop \/ BackFail \/ BackStop
           /\ ~Open /\ ~Probe("since") /\ ~Probe("until") /\ ~SinceFound /\ ~UntilFound
  BY <1>3, OtherPc
<1> QED
  BY <1>1, <1>2, <1>3, NextCases DEF ByOthers

LEMMA SentInit == ASSUME Init PROVE SentInv
BY DEF Init, SentInv, ReadInv, BackInv, FollowInv, NothingSent, EndInv

LEMMA Invariant == Spec => []IInv
<1>1. Init => IInv
  BY InitType, SearchInit, RangeInit, SentInit DEF IInv
<1>2. IInv /\ [Next]_vars => IInv'
  <2> SUFFICES ASSUME IInv, [Next]_vars PROVE IInv'
    OBVIOUS
  <2>1. TypeInv /\ SearchInv /\ RangeInv /\ SentInv
    BY DEF IInv
  <2>2. TypeInv' /\ SearchInv'
    BY <2>1, TypeStep, SearchStep
  <2>3. RangeInv'
    BY <2>1, <2>2, RangeStep
  <2>4. ReadInv' /\ BackInv'
    BY <2>1, <2>2, <2>3, ReadStep, BackStep
  <2>5. FollowInv' /\ EndInv'
    BY <2>1, FollowStep, EndStep
  <2>6. NothingSent'
    BY <2>1, SilentStep DEF SentInv
  <2> QED
    BY <2>2, <2>3, <2>4, <2>5, <2>6 DEF IInv, SentInv
<1> QED
  BY <1>1, <1>2, PTL DEF Spec

\* Record k is made of the line that begins with it.
LEMMA RecordIsLine ==
  ASSUME TypeInv, NEW k, NEW i \in Lines, out[k][1] = log[i].at
  PROVE  LineSent(k) = i /\ (IsLine(k, i) => Whole(k))
<1>1. log[i].at \in Nat /\ log[i].at < End(i) /\ log[i].at <= log[i].at
  BY LogFacts DEF TypeInv
<1>2. LineOf(log[i].at) = i
  BY <1>1, LineIs DEF TypeInv
<1> QED
  BY <1>2 DEF LineSent, Whole, IsLine

LEMMA Records ==
  ASSUME TypeInv, EachALine
  PROVE  /\ \A k \in 1..Len(out) : Whole(k) /\ LineSent(k) \in Lines /\ IsSent(LineSent(k))
         /\ \A i \in Lines : IsSent(i) => \E k \in 1..Len(out) : LineSent(k) = i /\ Whole(k)
         /\ Ascending => \A j, k \in 1..Len(out) : j < k => LineSent(j) < LineSent(k)
         /\ Descending => \A j, k \in 1..Len(out) : j < k => LineSent(j) > LineSent(k)
<1>1. ASSUME NEW k \in 1..Len(out)
      PROVE  /\ Whole(k) /\ LineSent(k) \in Lines /\ out[k][1] = log[LineSent(k)].at
             /\ IsSent(LineSent(k))
  <2>1. PICK i \in Lines : IsLine(k, i)
    BY DEF EachALine
  <2>2. LineSent(k) = i /\ Whole(k) /\ out[k][1] = log[i].at
    BY <2>1, RecordIsLine DEF IsLine
  <2> QED
    BY <2>2 DEF IsSent
<1>2. ASSUME NEW i \in Lines, IsSent(i)
      PROVE  \E k \in 1..Len(out) : LineSent(k) = i /\ Whole(k)
  BY <1>1, <1>2, RecordIsLine DEF IsSent
<1>3. ASSUME NEW j \in 1..Len(out), NEW k \in 1..Len(out)
      PROVE  LineSent(j) < LineSent(k) <=> out[j][1] < out[k][1]
  BY <1>1, Order DEF TypeInv
<1>5. \A k \in 1..Len(out) : out[k][1] \in Nat /\ LineSent(k) \in Nat
  BY <1>1, LogFacts, LineNumbers DEF TypeInv
<1>6. Ascending => \A j, k \in 1..Len(out) : j < k => LineSent(j) < LineSent(k)
  BY <1>3 DEF Ascending
<1>7. Descending => \A j, k \in 1..Len(out) : j < k => LineSent(j) > LineSent(k)
  <2> SUFFICES ASSUME Descending, NEW j \in 1..Len(out), NEW k \in 1..Len(out), j < k
               PROVE  LineSent(k) < LineSent(j)
    BY <1>5
  <2>1. out[k][1] < out[j][1]
    BY <1>5 DEF Descending
  <2> QED
    BY <2>1, <1>3
<1> QED
  BY <1>1, <1>2, <1>6, <1>7

\* A request that ends without an error (and was not cancelled, and no read failed)
\* has sent the lines that lie in its times, each whole, once and in order, and those
\* written meanwhile up to some moment.
THEOREM WindowCorrect == Spec => []WindowSent
<1>1. ASSUME IInv PROVE WindowSent
  <2> SUFFICES ASSUME Fine, pc = "ended", status = "ok" PROVE WindowSent
    BY DEF WindowSent, Fine
  <2>1. TypeInv /\ EndInv
    BY <1>1 DEF IInv, SentInv
  <2>2. EachALine /\ IF req.backward THEN Descending ELSE Ascending
    BY <2>1 DEF EndInv
  <2>3. PICK n \in maxOffset..OldSize : \A i \in Lines : IsSent(i) <=> i \in Wanted(n)
    BY <2>1 DEF EndInv
  <2>4. {LineSent(k) : k \in 1..Len(out)} = Wanted(n)
    <3>1. Wanted(n) \subseteq Lines
      BY DEF Wanted
    <3>2. \A k \in 1..Len(out) : LineSent(k) \in Wanted(n)
      BY <2>1, <2>2, <2>3, Records
    <3>3. \A i \in Wanted(n) : \E k \in 1..Len(out) : LineSent(k) = i
      BY <3>1, <2>1, <2>2, <2>3, Records
    <3> QED
      BY <3>2, <3>3
  <2>5. \A k \in 1..Len(out) : Whole(k)
    BY <2>1, <2>2, Records
  <2>6. \A j, k \in 1..Len(out) :
          j < k => IF req.backward THEN LineSent(j) > LineSent(k) ELSE LineSent(j) < LineSent(k)
    BY <2>1, <2>2, Records
  <2> QED
    BY <2>4, <2>5, <2>6 DEF WindowSent
<1> QED
  BY <1>1, Invariant, PTL

\* Whatever is written, and also when the file is rotated: but for the lines between
\* the end of the search and the begin of the watch, a follower has sent each whole
\* line it is past of, in the order of the file.
THEOREM FollowCorrect == Spec => []FollowExact
<1>1. ASSUME IInv PROVE FollowExact
  <2> SUFFICES ASSUME Fine, pc \in {"listen", "lines"} PROVE FollowExact
    BY DEF FollowExact, Fine
  <2>1. TypeInv /\ FollowInv
    BY <1>1 DEF IInv, SentInv
  <2>2. /\ EachALine /\ Ascending
        /\ \A i \in Lines \ torn :
             (log[i].ts # 0 /\ startPos <= log[i].at /\ End(i) <= rpos) => InGap(i) \/ IsSent(i)
    BY <2>1 DEF FollowInv
  <2>3. \A i \in Lines : IsSent(i) => \E k \in 1..Len(out) : LineSent(k) = i /\ Whole(k)
    BY <2>1, <2>2, Records
  <2>4. \A j, k \in 1..Len(out) : j < k => LineSent(j) < LineSent(k)
    BY <2>1, <2>2, Records
  <2> QED
    BY <2>2, <2>3, <2>4 DEF FollowExact
<1> QED
  BY <1>1, Invariant, PTL

=============================================================================
