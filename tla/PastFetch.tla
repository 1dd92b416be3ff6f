------------------------------ MODULE PastFetch ------------------------------
(***************************************************************************)
(* The past phase of a log stream (modules/shared/logs): one fetcher       *)
(* goroutine per source, the goroutine of mergeLogStreams that merges      *)
(* their channels through a heap, and the goroutine of startHead_UNSAFE or *)
(* startTail_UNSAFE that takes the merged records, stops at the limit and  *)
(* hands them to the forwarder on pastCh.  All channels are unbuffered: a  *)
(* send and the receive that matches it are one step.                      *)
(*                                                                         *)
(* A record is its source, its place in that source's feed and its         *)
(* timestamp.  The feed of a source is what its log holds after the time   *)
(* and grep filters, in the order the fetcher reads it: oldest first in    *)
(* modes head and all, newest first in mode tail.                          *)
(***************************************************************************)
EXTENDS Integers, Sequences, FiniteSets

CONSTANTS Sources,   \* containers whose logs are read
          Options,   \* the modes and fetchers to consider
          MaxNum,    \* the limit N given to WithHead or WithTail
          Feeds      \* Feeds[mode]: the feeds the logs may hold

Modes == {"head", "tail", "all"}
Time  == Nat \ {0}

\* A feed is sorted in the order in which it is read.
ASSUME PastFetchAssumption ==
  /\ Options \subseteq [mode : Modes, fetcher : {"kube", "agent"}]
  /\ MaxNum \in Nat
  /\ Sources # {}
  /\ \A o \in Options : o.mode \in DOMAIN Feeds
  /\ \A m \in DOMAIN Feeds : Feeds[m] \subseteq [Sources -> Seq(Time)]
  /\ \A m \in DOMAIN Feeds : \A f \in Feeds[m], s \in Sources : \A i, j \in 1..Len(f[s]) :
       i <= j => IF m = "tail" THEN f[s][i] >= f[s][j] ELSE f[s][i] <= f[s][j]

VARIABLES
  options,    \* the mode and the LogFetcher in use
  feed,       \* feed[s]: timestamps of the log of s, in reading order
  failed,     \* sources whose read failed before the end of their log
  fetcher,    \* fetcher[s]: at its read, at its send, sending an error, over
  pos,        \* pos[s]: records of feed[s] the fetcher has read
  heap,       \* pq of mergeLogStreams: at most one record of each stream
  want,       \* streams the merge has to read before it pops again
  merge,      \* the merge goroutine
  cur,        \* the record the merge popped last
  taker,      \* the consumer goroutine of startHead/startTail
  buf,        \* what the consumer holds: tailRecords, or the record it sends
  sent,       \* records delivered on pastCh, in order
  err,        \* the stream's error is set
  cancelled   \* rootCtx is cancelled (Close, or a failing follower)

vars == <<options, feed, failed, fetcher, pos, heap, want, merge, cur, taker, buf, sent,
          err, cancelled>>

Mode    == options.mode       \* streamMode
Fetcher == options.fetcher
Reverse == options.mode = "tail"

\* a may come before b in the merged order (Less of the two heaps).
Ord(a, b) == IF Reverse THEN a >= b ELSE a <= b

Record == [src : Sources, pos : Nat, ts : Nat]

\* LogRecord{err: err}: its timestamp is the zero time.
ErrRecord(s) == [src |-> s, pos |-> 0, ts |-> 0]
IsErr(r)     == r.pos = 0

LogRecord(s, p) == [src |-> s, pos |-> p, ts |-> feed[s][p]]

\* The records a fetcher may have handed out so far, errors included.
Genuine == {r \in Record : /\ r.pos <= pos[r.src]
                           /\ r.ts = IF IsErr(r) THEN 0 ELSE feed[r.src][r.pos]}

\* (fault: the consumer returns without cancelling that context)
CtxDone_NotCancelled == cancelled

\* The context of the fetchers and the merge: derived from rootCtx, and
\* cancelled by the consumer when it returns.
CtxDone == cancelled \/ taker = "done"

\* (fault: one record too many)
LimitReached_OffByOne(count) == Mode # "all" /\ count > MaxNum

\* The limit is looked at after a record was taken.
LimitReached(count) == Mode # "all" /\ count >= MaxNum

Init ==
  /\ options \in Options /\ feed \in Feeds[options.mode]
  /\ failed = {}
  /\ fetcher = [s \in Sources |-> "read"]
  /\ pos = [s \in Sources |-> 0]
  /\ heap = {} /\ want = Sources /\ merge = "read"
  /\ cur = ErrRecord(CHOOSE s \in Sources : TRUE)   \* no record yet
  /\ taker = "recv" /\ buf = <<>> /\ sent = <<>>
  /\ err = FALSE /\ cancelled = FALSE

-----------------------------------------------------------------------------
(* The fetcher goroutine of a source.  An operator with an underscore in   *)
(* its name is a faulty form of the definition it is named after: the      *)
(* properties are seen to fail when it takes that definition's place.      *)

\* what no step of a fetcher writes, and no step of the consumer but Take
others      == <<options, feed, heap, want, merge, cur, taker, buf, sent, err, cancelled>>
takerOthers == <<options, feed, failed, fetcher, pos, heap, want, merge, cur, err, cancelled>>

\* next() returned a record: the goroutine goes on to its send.
FetcherRead(s) ==
  /\ fetcher[s] = "read" /\ pos[s] < Len(feed[s])
  /\ fetcher' = [fetcher EXCEPT ![s] = "send"]
  /\ pos' = [pos EXCEPT ![s] = @ + 1]
  /\ UNCHANGED <<others, failed>>

\* The read failed: the fetcher goes on to send the error.  The backward
\* fetcher of Kubernetes only prints an error of its next request, and ends as
\* if it were at the beginning of the log.
FetcherFail(s) ==
  /\ fetcher[s] = "read"
  /\ \/ fetcher' = [fetcher EXCEPT ![s] = "senderr"]
     \/ Reverse /\ Fetcher = "kube" /\ fetcher' = [fetcher EXCEPT ![s] = "closed"]
  /\ failed' = failed \cup {s}
  /\ UNCHANGED <<others, pos>>

\* The end of the log: the channel is closed.
FetcherEOF(s) ==
  /\ fetcher[s] = "read" /\ pos[s] = Len(feed[s])
  /\ fetcher' = [fetcher EXCEPT ![s] = "closed"]
  /\ UNCHANGED <<others, failed, pos>>

\* The context is over.  The Kubernetes fetcher sees it at its read and at
\* its sends; the agent fetcher only at its read, it sends with a plain
\* channel send.
FetcherCancel(s) ==
  /\ CtxDone
  /\ \/ fetcher[s] = "read"
     \/ fetcher[s] \in {"send", "senderr"} /\ Fetcher = "kube"
  /\ fetcher' = [fetcher EXCEPT ![s] = "closed"]
  /\ UNCHANGED <<others, failed, pos>>

\* The cancelled request makes the Kubernetes fetcher's read fail, and it
\* offers that error like any other.
FetcherCancelErr(s) ==
  /\ CtxDone /\ Fetcher = "kube" /\ fetcher[s] = "read"
  /\ fetcher' = [fetcher EXCEPT ![s] = "senderr"]
  /\ UNCHANGED <<others, failed, pos>>

-----------------------------------------------------------------------------
(* The goroutine of mergeLogStreams.  It fills its heap from the streams   *)
(* in the order of its arguments; any order is allowed here.               *)

\* It receives a record from a stream and pushes it on the heap.
MergeRead(s) ==
  /\ merge = "read" /\ s \in want /\ fetcher[s] \in {"send", "senderr"}
  /\ heap' = heap \cup {IF fetcher[s] = "send" THEN LogRecord(s, pos[s])
                                               ELSE ErrRecord(s)}
  /\ want' = want \ {s}
  /\ fetcher' = [fetcher EXCEPT ![s] = IF @ = "send" THEN "read" ELSE "closed"]
  /\ UNCHANGED <<options, feed, failed, pos, merge, cur, taker, buf, sent, err, cancelled>>

\* The stream is closed: nothing of it enters the heap any more.
MergeSkip(s) ==
  /\ merge = "read" /\ s \in want /\ fetcher[s] = "closed"
  /\ want' = want \ {s}
  /\ UNCHANGED <<options, feed, failed, fetcher, pos, heap, merge, cur, taker, buf, sent,
                 err, cancelled>>

popOthers == <<options, feed, failed, fetcher, pos, want, taker, buf, sent, err, cancelled>>

\* (faults: any record of the heap; before the next record of the last source
\* was read; the heap of the other direction)
MergePop_Any ==
  /\ merge = "read" /\ want = {} /\ merge' = "send"
  /\ \E r \in heap : heap' = heap \ {r} /\ cur' = r
  /\ UNCHANGED popOthers

MergePop_Early ==
  /\ merge = "read" /\ merge' = "send"
  /\ \E r \in heap : /\ \A q \in heap : Ord(r.ts, q.ts)
                    /\ heap' = heap \ {r} /\ cur' = r
  /\ UNCHANGED popOthers

\* Every stream was read: the first record of the heap is popped.
MergePop ==
  /\ merge = "read" /\ want = {}
  /\ \E r \in heap :
       /\ \A q \in heap : Ord(r.ts, q.ts)
       /\ heap' = heap \ {r} /\ cur' = r
  /\ merge' = "send"
  /\ UNCHANGED popOthers

\* The heap is empty: the merged channel is closed.
MergeEnd ==
  /\ merge = "read" /\ want = {} /\ heap = {}
  /\ merge' = "closed"
  /\ UNCHANGED <<options, feed, failed, fetcher, pos, heap, want, cur, taker, buf, sent,
                 err, cancelled>>

\* select with ctx.Done: the only place where the merge sees the context.
MergeCancel ==
  /\ merge = "send" /\ CtxDone
  /\ merge' = "closed"
  /\ UNCHANGED <<options, feed, failed, fetcher, pos, heap, want, cur, taker, buf, sent,
                 err, cancelled>>

-----------------------------------------------------------------------------
(* The consumer goroutine of startHead_UNSAFE and startTail_UNSAFE.        *)

\* (fault: an error ends it, and is not kept)
Take_Mute ==
  /\ merge = "send" /\ taker = "recv"
  /\ merge' = "read" /\ want' = {cur.src}
  /\ IF IsErr(cur)
       THEN taker' = "done" /\ UNCHANGED buf
       ELSE buf' = Append(buf, cur) /\ taker' = "send"
  /\ UNCHANGED <<options, feed, failed, fetcher, pos, heap, cur, sent, err, cancelled>>

\* It receives a merged record.  An error ends it, and in mode tail the
\* records collected so far are never sent.
Take ==
  /\ merge = "send" /\ taker = "recv"
  /\ merge' = "read" /\ want' = {cur.src}
  /\ IF IsErr(cur)
       THEN err' = TRUE /\ taker' = "done" /\ UNCHANGED buf
       ELSE /\ buf' = Append(buf, cur)
            /\ taker' = IF ~Reverse THEN "send"
                        ELSE IF LimitReached(Len(buf) + 1) THEN "flush" ELSE "recv"
            /\ UNCHANGED err
  /\ UNCHANGED <<options, feed, failed, fetcher, pos, heap, cur, sent, cancelled>>

\* The merged channel is closed: the range loop ends.
TakeClosed ==
  /\ merge = "closed" /\ taker = "recv"
  /\ taker' = IF Reverse THEN "flush" ELSE "done"
  /\ UNCHANGED <<takerOthers, buf, sent>>

\* Modes head and all: the record goes to the forwarder, then the limit is
\* looked at.
Emit ==
  /\ taker = "send"
  /\ sent' = Append(sent, buf[1]) /\ buf' = <<>>
  /\ taker' = IF LimitReached(Len(sent) + 1) THEN "done" ELSE "recv"
  /\ UNCHANGED takerOthers

\* Mode tail: the collected records go out last to first, so oldest first.
Flush ==
  /\ taker = "flush" /\ buf # <<>>
  /\ sent' = Append(sent, buf[Len(buf)]) /\ buf' = SubSeq(buf, 1, Len(buf) - 1)
  /\ UNCHANGED <<takerOthers, taker>>

FlushEnd ==
  /\ taker = "flush" /\ buf = <<>>
  /\ taker' = "done"
  /\ UNCHANGED <<takerOthers, buf, sent>>

\* select with ctx.Done at a send to the forwarder.
TakerCancel ==
  /\ cancelled /\ taker \in {"send", "flush"} /\ buf # <<>>
  /\ taker' = "done"
  /\ UNCHANGED <<takerOthers, buf, sent>>

\* rootCtx is cancelled from outside: Stream.Close, or a follower's error.
Cancel ==
  /\ ~cancelled
  /\ cancelled' = TRUE
  /\ UNCHANGED <<options, feed, failed, fetcher, pos, heap, want, merge, cur, taker, buf,
                 sent, err>>

\* The phase is over: the consumer returned, and the merge, and the fetchers,
\* save for an agent fetcher at a send that nobody receives any more.
Finished ==
  /\ taker = "done" /\ merge = "closed"
  /\ \A s \in Sources :
       \/ fetcher[s] = "closed"
       \/ fetcher[s] \in {"send", "senderr"} /\ Fetcher = "agent"

Terminated == Finished /\ UNCHANGED vars

-----------------------------------------------------------------------------

FetcherStep(s) == \/ FetcherRead(s) \/ FetcherFail(s) \/ FetcherEOF(s)
                  \/ FetcherCancel(s) \/ FetcherCancelErr(s)

MergeStep == \/ \E s \in Sources : MergeRead(s) \/ MergeSkip(s)
             \/ MergePop \/ MergeEnd \/ MergeCancel

TakerStep == Take \/ TakeClosed \/ Emit \/ Flush \/ FlushEnd \/ TakerCancel

Next == \/ \E s \in Sources : FetcherStep(s)
        \/ MergeStep
        \/ TakerStep
        \/ Cancel
        \/ Terminated

Spec == Init /\ [][Next]_vars

\* Every goroutine that can go on does.  That the sends of the consumer go
\* through is the forwarder's part: it receives until rootCtx is cancelled.
Fairness == /\ \A s \in Sources : WF_vars(FetcherStep(s))
            /\ WF_vars(MergeStep)
            /\ WF_vars(TakerStep)

FairSpec == Spec /\ Fairness

-----------------------------------------------------------------------------
(* Properties.                                                             *)

TypeOK ==
  /\ options \in Options /\ feed \in Feeds[options.mode]
  /\ failed \subseteq Sources
  /\ fetcher \in [Sources -> {"read", "send", "senderr", "closed"}]
  /\ pos \in [Sources -> Nat]
  /\ \A s \in Sources : /\ pos[s] <= Len(feed[s])
                        /\ fetcher[s] = "send" => pos[s] > 0
  /\ \A r \in heap : r \in Genuine
  /\ want \subseteq Sources
  /\ merge \in {"read", "send", "closed"}
  /\ cur \in Genuine
  /\ taker \in {"recv", "send", "flush", "done"}
  /\ taker = "send" => buf # <<>>
  /\ buf \in Seq(Record)  /\ \A i \in 1..Len(buf)  : buf[i] \in Genuine
  /\ sent \in Seq(Record) /\ \A i \in 1..Len(sent) : sent[i] \in Genuine
  /\ err \in BOOLEAN /\ cancelled \in BOOLEAN

\* The forwarder receives the records of all sources in the order of their
\* timestamps: what mergeLogStreams promises, kept by the reversal of the
\* tail and by every cancellation.
SentSorted ==
  \A i, j \in 1..Len(sent) : i <= j => sent[i].ts <= sent[j].ts

\* How many records of s are in a sequence of records.
CountOf(s, seq) == Cardinality({i \in 1..Len(seq) : seq[i].src = s})

\* Where they are in the log of s.
Positions(s, seq) == {seq[i].pos : i \in {j \in 1..Len(seq) : seq[j].src = s}}

\* What was sent is the window that was asked for: of every log the first
\* records in reading order, none twice; if a record was left out then the
\* limit is used up and no record that was sent comes after it; and the limit
\* is not exceeded, save that a limit of 0 lets one record pass.
Window ==
  /\ \A s \in Sources : Positions(s, sent) = 1..CountOf(s, sent)
  /\ \A s \in Sources : CountOf(s, sent) < Len(feed[s]) =>
       /\ LimitReached(Len(sent))
       /\ \A i \in 1..Len(sent) :
            Ord(sent[i].ts, feed[s][CountOf(s, sent) + 1])
  /\ Mode # "all" => Len(sent) <= MaxNum \/ Len(sent) <= 1

\* Err() tells the truth when logs are read forward: when the past phase ended by
\* itself and no error was reported, the records sent are the window of the
\* complete logs, whatever reads failed on the way.
WindowOrError == (~Reverse /\ taker = "done" /\ ~cancelled /\ ~err) => Window

\* In every mode they are if all reads worked.
WindowUnlessFailed ==
  (taker = "done" /\ ~cancelled /\ failed = {}) => Window /\ ~err

\* The phase ends: the consumer closes pastCh, so that the forwarder leaves its
\* first loop, and no goroutine outlives it, since the consumer cancels the
\* context of the fetchers and of the merge when it returns; the agent's fetcher
\* alone may be left behind at its send.
AllEnd == <>Finished

-----------------------------------------------------------------------------
(* The ordered merge this implements.  What the abstract merge has taken is *)
(* what was sent and what the consumer still holds.  Cancelling the stream  *)
(* gives up every source: a fetcher that noticed closes its channel, while  *)
(* the merge goes on with the records of the others until its next send.    *)

Rev(seq) == [i \in 1..Len(seq) |-> seq[Len(seq) + 1 - i]]

taken == IF Reverse THEN buf \o Rev(sent) ELSE sent \o buf

Merge == INSTANCE OrderedMerge WITH
           mode <- Mode,
           failed <- IF cancelled THEN Sources ELSE failed

MergeSpec == Merge!Spec
=============================================================================
