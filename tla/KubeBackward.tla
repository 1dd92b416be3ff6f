----------------------------- MODULE KubeBackward -----------------------------
(***************************************************************************)
(* KubeLogFetcher.StreamBackward (modules/shared/logs/log-fetcher.go): the *)
(* log of a container is read from its end to its beginning through an API *)
(* that only returns the last so many lines.  Each batch asks for more     *)
(* lines than the one before and keeps what comes before the start of the  *)
(* last batch, which it knows by its timestamp.  Meanwhile the container   *)
(* writes, and the runtime may rotate old lines away.                      *)
(*                                                                         *)
(* A record is its place in the log, 1, 2, 3, ...; the log holds the       *)
(* places first..last.  The grep, start and stop time filters, which drop  *)
(* records of a batch or end the loop early, are left out.                 *)
(***************************************************************************)
EXTENDS Integers, Sequences

CONSTANTS BatchSizeHint,  \* of FetcherOptions
          MinBatch,       \* the least batch size, 10 in the code
          TimeOf(_),      \* the timestamp of the record at a place
          MaxLast,        \* bound: records ever written
          MaxTail,        \* bound: tailLines and batchSize grow up to here
          Events          \* what may happen to the read:
                          \*   "rotate":  the runtime drops old lines
                          \*   "apiErr":  a request fails, or the pod is gone
                          \*   "readErr": reading a batch fails
                          \*   "ctx":     the context ends

ASSUME KubeBackwardAssumption ==
  /\ BatchSizeHint \in Nat /\ MinBatch \in Nat \ {0}
  /\ MaxLast \in Nat /\ MaxTail \in Nat \ {0}
  /\ \A p \in 1..MaxLast : TimeOf(p) \in Nat \ {0}
  /\ \A p, q \in 1..MaxLast : p <= q => TimeOf(p) <= TimeOf(q)

NoTime == 0   \* the zero time.Time

VARIABLES first, last,     \* what the log holds now
          pc,              \* "open", "fetch", "read", "send", "done"
          firstTS,         \* the result of getFirstTimestamp
          batchSize, tailLines,
          from, to,        \* the places of the lines the API returned
          lastBatchStart,  \* lastBatchStartTS
          batch,           \* batchRecords still to send, newest first
          out,             \* records sent
          failure,         \* "none", "silent" or "sent" to the consumer
          ctxDone

logVars   == <<first, last>>
sizeVars  == <<batchSize, tailLines>>
batchVars == <<from, to, lastBatchStart, batch, out>>
backwardVars == <<logVars, pc, firstTS, sizeVars, batchVars, failure, ctxDone>>

Larger(a, b)  == IF a > b THEN a ELSE b
Smaller(a, b) == IF a < b THEN a ELSE b
Capped(n)     == Smaller(n, MaxTail)

BackwardInit ==
  /\ first = 1 /\ last \in 0..MaxLast
  /\ pc = "open" /\ firstTS = NoTime /\ batchSize = 0 /\ tailLines = 0
  /\ from = 1 /\ to = 0 /\ lastBatchStart = NoTime
  /\ batch = <<>> /\ out = <<>> /\ failure = "none" /\ ctxDone = FALSE

-----------------------------------------------------------------------------
(* The container, its runtime, and the consumer's context.                 *)

Write ==
  /\ last < MaxLast
  /\ last' = last + 1
  /\ UNCHANGED <<first, pc, firstTS, sizeVars, batchVars, failure, ctxDone>>

Rotate ==
  /\ "rotate" \in Events
  /\ first' \in (first + 1)..(last + 1)
  /\ UNCHANGED <<last, pc, firstTS, sizeVars, batchVars, failure, ctxDone>>

EndContext ==
  /\ "ctx" \in Events /\ ~ctxDone
  /\ ctxDone' = TRUE
  /\ UNCHANGED <<logVars, pc, firstTS, sizeVars, batchVars, failure>>

-----------------------------------------------------------------------------
(* StreamBackward.                                                         *)

\* The first timestamp is read; with none there is nothing to stream.
Open ==
  /\ pc = "open"
  /\ IF first > last
       THEN pc' = "done" /\ UNCHANGED <<firstTS, sizeVars>>
       ELSE /\ pc' = "fetch" /\ firstTS' = TimeOf(first)
            /\ batchSize' = Capped(Larger(BatchSizeHint, MinBatch))
            /\ tailLines' = batchSize'
  /\ UNCHANGED <<logVars, batchVars, failure, ctxDone>>

\* An operator with an underscore in its name is a faulty form of the
\* definition it is named after: the properties are seen to fail when it takes
\* that definition's place.

\* The API returns the last tailLines lines.
Fetch ==
  /\ pc = "fetch" /\ ~ctxDone
  /\ from' = Larger(first, last + 1 - tailLines) /\ to' = last
  /\ pc' = "read"
  /\ UNCHANGED <<logVars, firstTS, sizeVars, lastBatchStart, batch, out, failure, ctxDone>>

\* A request that fails ends the loop, and the consumer sees the end of the
\* log.
FetchFail ==
  /\ pc = "fetch" /\ "apiErr" \in Events
  /\ pc' = "done" /\ failure' = "silent"
  /\ UNCHANGED <<logVars, firstTS, sizeVars, batchVars, ctxDone>>

\* A read that fails: the records of the batch are dropped, the consumer gets
\* the error.
ReadFail ==
  /\ pc = "read" /\ "readErr" \in Events
  /\ pc' = "done" /\ failure' = "sent"
  /\ UNCHANGED <<logVars, firstTS, sizeVars, batchVars, ctxDone>>

\* The batch starts no earlier than the last one did: the log ran ahead.
RanAhead == lastBatchStart # NoTime /\ TimeOf(from) >= lastBatchStart

\* (fault: the last batch is read again)
IsStop_AtEnd(p) == p = to + 1

\* The first record with the timestamp that the last batch began with, where
\* the reading of a batch stops.
IsStop(p) ==
  /\ p \in from..(to + 1)
  /\ p = to + 1 \/ (lastBatchStart # NoTime /\ TimeOf(p) = lastBatchStart)
  /\ \A q \in from..(p - 1) : lastBatchStart = NoTime \/ TimeOf(q) # lastBatchStart

\* The batch was read.  An empty one ends the loop, one that is ahead is
\* fetched again with more lines, another one is reversed and sent.
ReadBatch ==
  /\ pc = "read" /\ ~ctxDone
  /\ IF from > to
       THEN pc' = "done" /\ UNCHANGED <<sizeVars, batch, lastBatchStart>>
     ELSE IF RanAhead
       THEN /\ pc' = "fetch"
            /\ batchSize' = Capped(2 * batchSize)
            /\ tailLines' = Capped(tailLines + 2 * batchSize)
            /\ UNCHANGED <<batch, lastBatchStart>>
       ELSE /\ pc' = "send" /\ lastBatchStart' = TimeOf(from)
            /\ \E p \in from..(to + 1) :
                 IsStop(p) /\ batch' = [i \in 1..(p - from) |-> p - i]
            /\ UNCHANGED sizeVars
  /\ UNCHANGED <<logVars, firstTS, from, to, out, failure, ctxDone>>

Send ==
  /\ pc = "send" /\ batch # <<>>
  /\ out' = Append(out, Head(batch)) /\ batch' = Tail(batch)
  /\ UNCHANGED <<logVars, pc, firstTS, sizeVars, from, to, lastBatchStart, failure, ctxDone>>

\* (faults: the comparison is turned round; it is strict)
BatchEnd_Swapped ==
  /\ pc = "send" /\ batch = <<>>
  /\ IF lastBatchStart >= firstTS
       THEN pc' = "done" /\ UNCHANGED tailLines
       ELSE pc' = "fetch" /\ tailLines' = Capped(tailLines + batchSize)
  /\ UNCHANGED <<logVars, firstTS, batchSize, batchVars, failure, ctxDone>>

BatchEnd_Strict ==
  /\ pc = "send" /\ batch = <<>>
  /\ IF lastBatchStart < firstTS
       THEN pc' = "done" /\ UNCHANGED tailLines
       ELSE pc' = "fetch" /\ tailLines' = Capped(tailLines + batchSize)
  /\ UNCHANGED <<logVars, firstTS, batchSize, batchVars, failure, ctxDone>>

\* The batch that reached the first timestamp is the last one.
BatchEnd ==
  /\ pc = "send" /\ batch = <<>>
  /\ IF lastBatchStart <= firstTS
       THEN pc' = "done" /\ UNCHANGED tailLines
       ELSE pc' = "fetch" /\ tailLines' = Capped(tailLines + batchSize)
  /\ UNCHANGED <<logVars, firstTS, batchSize, batchVars, failure, ctxDone>>

\* The context is looked at in a request, after a batch was read, and at each
\* send.
CtxEnd ==
  /\ ctxDone
  /\ pc \in {"fetch", "read"} \/ (pc = "send" /\ batch # <<>>)
  /\ pc' = "done"
  /\ UNCHANGED <<logVars, firstTS, sizeVars, batchVars, failure, ctxDone>>

-----------------------------------------------------------------------------

Loop == Open \/ Fetch \/ FetchFail \/ ReadFail \/ ReadBatch \/ Send \/ BatchEnd \/ CtxEnd

\* The channel is closed, nothing more need happen.
BackwardDone == pc = "done" /\ UNCHANGED backwardVars

BackwardNext == Loop \/ Write \/ Rotate \/ EndContext \/ BackwardDone

BackwardSpec == BackwardInit /\ [][BackwardNext]_backwardVars

\* The goroutine goes on, and its consumer receives.
FairBackwardSpec == BackwardSpec /\ WF_backwardVars(Loop)

-----------------------------------------------------------------------------
(* Properties.                                                             *)

BackwardTypeOK ==
  /\ first \in 1..(MaxLast + 1) /\ last \in 0..MaxLast
  /\ pc \in {"open", "fetch", "read", "send", "done"}
  /\ {firstTS, lastBatchStart} \subseteq {NoTime} \cup {TimeOf(p) : p \in 1..MaxLast}
  /\ {batchSize, tailLines} \subseteq 0..MaxTail
  /\ from \in 1..(MaxLast + 1) /\ to \in 0..MaxLast
  /\ batch \in Seq(1..MaxLast) /\ out \in Seq(1..MaxLast)
  /\ failure \in {"none", "silent", "sent"} /\ ctxDone \in BOOLEAN

\* The log is read backward record by record: across the batches none is left
\* out, none is sent twice and none comes out of order, although the container
\* writes between two requests.
Contiguous == \A i \in 1..(Len(out) - 1) : out[i + 1] = out[i] - 1

\* The beginning that the log had when it was opened was rotated away.
Rotated == \E p \in 1..(first - 1) : TimeOf(p) = firstTS

\* A loop that ended by itself has reached the beginning that the log had
\* when it was opened, if that is still there.  The container may write as it
\* likes meanwhile.
ReachesBeginning ==
  (pc = "done" /\ failure = "none" /\ ~ctxDone) =>
    \/ out = <<>> /\ firstTS = NoTime
    \/ out # <<>> /\ TimeOf(out[Len(out)]) = firstTS
    \/ Rotated

\* The loop ends: the batches get to "the beginning of the logs".
Ends == <>(pc = "done")

\* They do as long as that beginning is there.
EndsUnlessRotated == <>(pc = "done" \/ Rotated)
=============================================================================
