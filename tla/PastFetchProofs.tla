--------------------------- MODULE PastFetchProofs ---------------------------
(***************************************************************************)
(* Type correctness, the order and the completeness of the output of       *)
(* PastFetch, and that it implements OrderedMerge, for every set of        *)
(* sources, every mode, limit and fetcher, and all sorted feeds; and that  *)
(* the batches of the backward fetcher below it (KubeBackward) join and    *)
(* reach the beginning of the log.                                         *)
(***************************************************************************)
EXTENDS PastFetch, KubeBackward, FiniteSetTheorems, SequenceTheorems, TLAPS

\* How many records of s the merge has received.
Given(s) == IF fetcher[s] = "send" THEN pos[s] - 1 ELSE pos[s]

\* Everything of s that may still reach the merge may come after time t.
Ahead(t, s) ==
  fetcher[s] # "closed" =>
    \A i \in 1..Len(feed[s]) : i > Given(s) => Ord(t, feed[s][i])

\* Every record that may still be taken may come after time t.
AllAfter(t) ==
  /\ \A r \in heap : ~IsErr(r) => Ord(t, r.ts)
  /\ (merge = "send" /\ ~IsErr(cur)) => Ord(t, cur.ts)
  /\ \A s \in Sources : Ahead(t, s)

\* A stream that is not closed is about to be read, or the last record read
\* of it is still in the merge: the merge never pops past a stream unread.
Represented ==
  \A s \in Sources :
    \/ fetcher[s] = "closed" \/ s \in want \/ merge = "closed"
    \/ \E r \in heap : r.src = s /\ ~IsErr(r) /\ r.pos <= Given(s)
    \/ merge = "send" /\ cur.src = s /\ ~IsErr(cur) /\ cur.pos <= Given(s)

\* A record that was popped comes before all that stayed on the heap.
PoppedFirst ==
  merge = "send" => want = {} /\ \A r \in heap : Ord(cur.ts, r.ts)

\* What the consumer holds in each of its states.
Holding ==
  /\ Reverse  => taker # "send"  /\ (taker = "recv" => sent = <<>>)
  /\ ~Reverse => taker # "flush" /\ (taker = "recv" => buf = <<>>)
                                 /\ (taker = "send" => Len(buf) = 1)

\* As long as the consumer may still take a record, all that comes may come
\* after all it took.
TakenBefore ==
  taker \in {"recv", "send"} =>
    /\ \A i \in 1..Len(buf)  : AllAfter(buf[i].ts)
    /\ \A i \in 1..Len(sent) : AllAfter(sent[i].ts)

\* The records held are after those sent; the tail holds the newest first.
BufAfterSent ==
  /\ \A i \in 1..Len(sent), j \in 1..Len(buf) : sent[i].ts <= buf[j].ts
  /\ Reverse => \A i, j \in 1..Len(buf) : i <= j => buf[i].ts >= buf[j].ts

IInv == /\ TypeOK /\ Represented /\ PoppedFirst /\ Holding
        /\ TakenBefore /\ BufAfterSent /\ SentSorted

-----------------------------------------------------------------------------

\* The feeds, as the assumption gives them.
LEMMA FeedFacts ==
  ASSUME options \in Options, feed \in Feeds[options.mode], NEW s \in Sources
  PROVE  /\ feed[s] \in Seq(Time) /\ Len(feed[s]) \in Nat
         /\ \A i \in 1..Len(feed[s]) : feed[s][i] \in Time
         /\ \A i, j \in 1..Len(feed[s]) : i <= j => Ord(feed[s][i], feed[s][j])
<1>1. options.mode \in DOMAIN Feeds
  BY PastFetchAssumption
<1>2. feed[s] \in Seq(Time)
  BY <1>1, PastFetchAssumption
<1>3. \A i \in 1..Len(feed[s]) : feed[s][i] \in Time
  BY <1>2
<1>4. \A i, j \in 1..Len(feed[s]) : i <= j => Ord(feed[s][i], feed[s][j])
  BY <1>1, PastFetchAssumption DEF Ord, Reverse
<1>5. QED
  BY <1>2, <1>3, <1>4

LEMMA OrdTransitive ==
  ASSUME NEW a \in Nat, NEW b \in Nat, NEW c \in Nat, Ord(a, b), Ord(b, c)
  PROVE  Ord(a, c)
BY DEF Ord

\* A record stays genuine while the fetchers go on.
LEMMA GenuineStable ==
  ASSUME pos \in [Sources -> Nat], pos' \in [Sources -> Nat], feed' = feed,
         \A s \in Sources : pos[s] <= pos'[s],
         NEW r \in Genuine
  PROVE  r \in Genuine'
BY DEF Genuine, Record, IsErr

\* The initial states have the right types.
LEMMA TypeInit == Init => TypeOK
<1> SUFFICES ASSUME Init PROVE TypeOK
  OBVIOUS
<1>1. (CHOOSE s \in Sources : TRUE) \in Sources
  BY PastFetchAssumption
<1>2. cur \in Genuine
  BY <1>1 DEF Init, Genuine, Record, ErrRecord, IsErr
<1>3. \A s \in Sources : pos[s] = 0 /\ Len(feed[s]) \in Nat /\ fetcher[s] = "read"
  BY FeedFacts DEF Init
<1>4. <<>> \in Seq(Record) /\ Len(<<>>) = 0
  OBVIOUS
<1>5. /\ buf \in Seq(Record) /\ \A i \in 1..Len(buf) : buf[i] \in Genuine
      /\ sent \in Seq(Record) /\ \A i \in 1..Len(sent) : sent[i] \in Genuine
  BY <1>4 DEF Init
<1>6. pos \in [Sources -> Nat] /\ \A s \in Sources : pos[s] <= Len(feed[s])
  BY <1>3 DEF Init
<1>7. QED
  BY <1>2, <1>3, <1>5, <1>6 DEF Init, TypeOK

\* Every step keeps the types.
LEMMA TypeStep == TypeOK /\ [Next]_vars => TypeOK'
<1> SUFFICES ASSUME TypeOK, [Next]_vars PROVE TypeOK'
  OBVIOUS
<1>1. ASSUME NEW s \in Sources, FetcherRead(s) PROVE TypeOK'
  <2>1. pos' \in [Sources -> Nat] /\ \A t \in Sources : pos[t] <= pos'[t]
    BY <1>1 DEF FetcherRead, TypeOK
  <2>2. \A t \in Sources : pos'[t] <= Len(feed[t])
    <3>1. Len(feed[s]) \in Nat
      BY FeedFacts DEF TypeOK
    <3>2. QED
      BY <1>1, <3>1 DEF FetcherRead, TypeOK
  <2>3. \A r \in Genuine : r \in Genuine'
    BY <1>1, <2>1, GenuineStable DEF TypeOK, FetcherRead, others
  <2>4. QED
    BY <1>1, <2>1, <2>2, <2>3 DEF FetcherRead, TypeOK, others
<1>2. ASSUME NEW s \in Sources,
             FetcherFail(s) \/ FetcherEOF(s) \/ FetcherCancel(s) \/ FetcherCancelErr(s)
      PROVE  TypeOK'
  BY <1>2, ZenonT(30) DEF FetcherFail, FetcherEOF, FetcherCancel, FetcherCancelErr, TypeOK,
              others, Genuine
<1>3. ASSUME NEW s \in Sources, MergeRead(s) PROVE TypeOK'
  <2>1. ErrRecord(s) \in Genuine
    BY DEF TypeOK, Genuine, Record, ErrRecord, IsErr
  <2>2. LogRecord(s, pos[s]) \in Genuine \/ pos[s] = 0
    <3>1. pos[s] \in 0..Len(feed[s])
      BY FeedFacts DEF TypeOK
    <3>2. pos[s] # 0 => feed[s][pos[s]] \in Nat
      BY <3>1, FeedFacts DEF TypeOK, Time
    <3>3. QED
      BY <3>1, <3>2 DEF TypeOK, Genuine, Record, LogRecord, IsErr
  <2>3. Genuine' = Genuine
    BY <1>3 DEF MergeRead, Genuine
  <2>4. \A r \in heap' : r \in Genuine
    BY <1>3, <2>1, <2>2 DEF MergeRead, TypeOK
  <2>5. /\ fetcher' \in [Sources -> {"read", "send", "senderr", "closed"}]
        /\ \A t \in Sources : fetcher'[t] = "send" => fetcher[t] = "send"
    BY <1>3 DEF MergeRead, TypeOK
  <2>6. QED
    BY <1>3, <2>3, <2>4, <2>5 DEF MergeRead, TypeOK
<1>4. ASSUME NEW s \in Sources, MergeSkip(s) PROVE TypeOK'
  BY <1>4 DEF MergeSkip, TypeOK, Genuine
<1>5. CASE MergePop
  BY <1>5 DEF MergePop, popOthers, TypeOK, Genuine
<1>6. CASE MergeEnd \/ MergeCancel
  BY <1>6 DEF MergeEnd, MergeCancel, TypeOK, Genuine
<1>7. CASE Take
  <2>1. Genuine' = Genuine
    BY <1>7 DEF Take, Genuine
  <2>2. cur \in Record /\ cur.src \in Sources
    BY DEF TypeOK, Genuine, Record
  <2>3. /\ buf' \in Seq(Record) /\ \A i \in 1..Len(buf') : buf'[i] \in Genuine
        /\ taker' = "send" => buf' # <<>>
    <3>1. CASE IsErr(cur)
      BY <1>7, <3>1 DEF Take, TypeOK
    <3>2. CASE ~IsErr(cur)
      <4>1. buf' = Append(buf, cur) /\ buf \in Seq(Record) /\ cur \in Genuine
        BY <1>7, <3>2 DEF Take, TypeOK
      <4>2. Len(buf') = Len(buf) + 1 /\ buf' # <<>>
        BY <2>2, <4>1
      <4>3. QED
        BY <2>2, <4>1, <4>2 DEF TypeOK
    <3>3. QED
      BY <3>1, <3>2
  <2>4. QED
    BY <1>7, <2>1, <2>2, <2>3 DEF Take, TypeOK
<1>8. CASE TakeClosed \/ FlushEnd \/ TakerCancel \/ Cancel
  BY <1>8 DEF TakeClosed, FlushEnd, TakerCancel, Cancel, takerOthers, TypeOK, Genuine
<1>9. CASE Emit
  <2>1. Genuine' = Genuine
    BY <1>9 DEF Emit, Genuine, takerOthers
  <2>2. Len(buf) > 0 /\ buf[1] \in Genuine /\ buf[1] \in Record
    BY <1>9 DEF Emit, TypeOK, Genuine
  <2>3. QED
    BY <1>9, <2>1, <2>2 DEF Emit, TypeOK, takerOthers
<1>10. CASE Flush
  <2>1. Genuine' = Genuine
    BY <1>10 DEF Flush, Genuine, takerOthers
  <2>2. Len(buf) \in 1..Len(buf) /\ Len(buf) - 1 \in 0..Len(buf)
    BY <1>10 DEF Flush, TypeOK
  <2>3. /\ buf' \in Seq(Record) /\ \A i \in 1..Len(buf') : buf'[i] \in Genuine
        /\ sent' \in Seq(Record) /\ \A i \in 1..Len(sent') : sent'[i] \in Genuine
    BY <1>10, <2>2 DEF Flush, TypeOK
  <2>4. QED
    BY <1>10, <2>1, <2>3 DEF Flush, TypeOK, takerOthers
<1>11. CASE UNCHANGED vars
  BY <1>11 DEF vars, TypeOK, Genuine
<1>12. QED
  BY <1>1, <1>2, <1>3, <1>4, <1>5, <1>6, <1>7, <1>8, <1>9, <1>10, <1>11
  DEF Next, FetcherStep, MergeStep, TakerStep, Terminated

\* The variables keep their types, and every record on the way to the
\* forwarder is one of its source's log.
THEOREM TypeCorrect == Spec => []TypeOK
BY TypeInit, TypeStep, PTL DEF Spec

-----------------------------------------------------------------------------

\* The mode does not change, nor with it the order of the merge.
LEMMA ReverseFixed == [Next]_vars => Reverse' = Reverse
BY DEF Reverse, Next, vars, FetcherStep, FetcherRead, FetcherFail, FetcherEOF, FetcherCancel,
       FetcherCancelErr, others, MergeStep, MergeRead, MergeSkip, MergePop, popOthers,
       MergeEnd, MergeCancel, TakerStep, Take, TakeClosed, Emit, Flush, FlushEnd,
       TakerCancel, takerOthers, Cancel, Terminated

\* What may still come after time t goes on doing so, whoever takes a step:
\* records only move from the feeds to the heap and from there to cur.
LEMMA AfterStep ==
  ASSUME TypeOK, [Next]_vars, NEW t \in Nat, AllAfter(t)
  PROVE  AllAfter(t)'
<1>0. \A a, b : Ord(a, b)' <=> Ord(a, b)
  BY ReverseFixed DEF Ord
<1>1. ASSUME UNCHANGED feed, UNCHANGED <<heap, merge, cur>>,
             \A s \in Sources : fetcher'[s] # "closed" =>
               fetcher[s] # "closed" /\ Given(s)' = Given(s)
      PROVE  AllAfter(t)'
  BY <1>0, <1>1 DEF AllAfter, Ahead
<1>2. ASSUME UNCHANGED <<feed, fetcher, pos>>,
             \A r \in heap' : r \in heap,
             (merge' = "send") => \/ merge = "send" /\ cur' = cur
                                  \/ cur' \in heap
      PROVE  AllAfter(t)'
  BY <1>0, <1>2 DEF AllAfter, Ahead, Given
<1>3. ASSUME NEW s \in Sources, FetcherStep(s) PROVE AllAfter(t)'
  <2>1. pos[s] \in Nat /\ \A u \in Sources \ {s} : fetcher'[u] = fetcher[u] /\ pos'[u] = pos[u]
    BY <1>3 DEF FetcherStep, FetcherRead, FetcherFail, FetcherEOF, FetcherCancel,
                FetcherCancelErr, TypeOK
  <2>2. fetcher'[s] # "closed" => fetcher[s] # "closed" /\ Given(s)' = Given(s)
    <3>1. CASE FetcherRead(s)
      BY <3>1 DEF FetcherRead, TypeOK, Given
    <3>2. CASE FetcherFail(s) \/ FetcherCancelErr(s)
      BY <3>2 DEF FetcherFail, FetcherCancelErr, TypeOK, Given
    <3>3. CASE FetcherEOF(s) \/ FetcherCancel(s)
      BY <3>3 DEF FetcherEOF, FetcherCancel, TypeOK
    <3>4. QED
      BY <1>3, <3>1, <3>2, <3>3 DEF FetcherStep
  <2>3. UNCHANGED <<feed, heap, merge, cur>>
    BY <1>3 DEF FetcherStep, FetcherRead, FetcherFail, FetcherEOF, FetcherCancel,
                FetcherCancelErr, others
  <2>4. QED
    BY <1>1, <2>1, <2>2, <2>3 DEF Given
<1>4. ASSUME NEW s \in Sources, MergeRead(s) PROVE AllAfter(t)'
  <2>1. /\ feed' = feed /\ pos' = pos /\ merge' = "read" /\ Len(feed[s]) \in Nat
        /\ pos[s] \in Nat /\ pos[s] <= Len(feed[s])
        /\ \A u \in Sources \ {s} : fetcher'[u] = fetcher[u]
    BY <1>4, FeedFacts DEF MergeRead, TypeOK
  <2>2. CASE fetcher[s] = "send"
    <3>1. heap' = heap \cup {LogRecord(s, pos[s])} /\ fetcher'[s] = "read" /\ pos[s] > 0
      BY <1>4, <2>2 DEF MergeRead, TypeOK
    <3>2. Ord(t, feed[s][pos[s]])
      BY <1>0, <2>1, <2>2, <3>1 DEF AllAfter, Ahead, Given
    <3>3. \A r \in heap' : ~IsErr(r) => Ord(t, r.ts)
      BY <1>0, <3>1, <3>2 DEF AllAfter, LogRecord
    <3>4. \A u \in Sources : Ahead(t, u)'
      BY <1>0, <2>1, <2>2, <3>1 DEF AllAfter, Ahead, Given
    <3>5. QED
      BY <1>0, <2>1, <3>3, <3>4 DEF AllAfter
  <2>3. CASE fetcher[s] = "senderr"
    <3>1. heap' = heap \cup {ErrRecord(s)} /\ fetcher'[s] = "closed"
      BY <1>4, <2>3 DEF MergeRead, TypeOK
    <3>2. \A r \in heap' : ~IsErr(r) => Ord(t, r.ts)
      BY <1>0, <3>1 DEF AllAfter, ErrRecord, IsErr
    <3>3. \A u \in Sources : Ahead(t, u)'
      BY <1>0, <2>1, <3>1 DEF AllAfter, Ahead, Given
    <3>4. QED
      BY <1>0, <2>1, <3>2, <3>3 DEF AllAfter
  <2>4. QED
    BY <1>4, <2>2, <2>3 DEF MergeRead
<1>5. CASE \E s \in Sources : MergeSkip(s)
  BY <1>2, <1>5 DEF MergeSkip
<1>6. CASE MergePop \/ MergeEnd \/ MergeCancel \/ Take
  BY <1>2, <1>6 DEF MergePop, popOthers, MergeEnd, MergeCancel, Take
<1>7. CASE \/ TakeClosed \/ Emit \/ Flush \/ FlushEnd \/ TakerCancel \/ Cancel
           \/ UNCHANGED vars
  BY <1>2, <1>7 DEF TakeClosed, Emit, Flush, FlushEnd, TakerCancel, Cancel, takerOthers, vars
<1>8. QED
  BY <1>3, <1>4, <1>5, <1>6, <1>7 DEF Next, MergeStep, TakerStep, Terminated

\* No stream is passed over unread.
LEMMA RepresentedStep ==
  ASSUME TypeOK, Represented, PoppedFirst, [Next]_vars
  PROVE  Represented'
<1> DEFINE InHeap(s) == \E r \in heap : r.src = s /\ ~IsErr(r) /\ r.pos <= Given(s)
           InCur(s)  == merge = "send" /\ cur.src = s /\ ~IsErr(cur) /\ cur.pos <= Given(s)
           Rep(s)    == fetcher[s] = "closed" \/ s \in want \/ merge = "closed"
                        \/ InHeap(s) \/ InCur(s)
<1> SUFFICES ASSUME NEW s \in Sources PROVE Rep(s)'
  BY DEF Represented
<1>0. Rep(s)
  BY DEF Represented
<1>1. ASSUME NEW u \in Sources, FetcherStep(u) PROVE Rep(s)'
  <2>1. UNCHANGED <<heap, merge, cur, want>>
    BY <1>1 DEF FetcherStep, FetcherRead, FetcherFail, FetcherEOF, FetcherCancel,
                FetcherCancelErr, others
  <2>2. fetcher'[s] = "closed" \/ (fetcher[s] # "closed" /\ Given(s)' = Given(s))
    BY <1>1 DEF FetcherStep, FetcherRead, FetcherFail, FetcherEOF, FetcherCancel,
                FetcherCancelErr, TypeOK, Given
  <2>3. QED
    BY <1>0, <2>1, <2>2
<1>2. ASSUME NEW u \in Sources, MergeRead(u) PROVE Rep(s)'
  <2>1. /\ pos' = pos /\ merge = "read" /\ merge' = "read" /\ want' = want \ {u}
        /\ heap \subseteq heap'
        /\ \A v \in Sources \ {u} : fetcher'[v] = fetcher[v]
    BY <1>2 DEF MergeRead, TypeOK
  <2>2. CASE s # u
    BY <1>0, <2>1, <2>2 DEF Given
  <2>3. CASE s = u /\ fetcher[u] = "send"
    <3>1. LogRecord(s, pos[s]) \in heap' /\ fetcher'[s] = "read" /\ pos[s] > 0 /\ pos[s] \in Nat
      BY <1>2, <2>3 DEF MergeRead, TypeOK
    <3>2. QED
      BY <2>1, <3>1 DEF LogRecord, IsErr, Given
  <2>4. CASE s = u /\ fetcher[u] = "senderr"
    BY <1>2, <2>4 DEF MergeRead, TypeOK
  <2>5. QED
    BY <1>2, <2>2, <2>3, <2>4 DEF MergeRead
<1>3. ASSUME NEW u \in Sources, MergeSkip(u) PROVE Rep(s)'
  BY <1>0, <1>3 DEF MergeSkip, Given
<1>4. CASE MergePop
  <2>1. PICK r \in heap : heap' = heap \ {r} /\ cur' = r
    BY <1>4 DEF MergePop, popOthers
  <2>2. QED
    BY <1>0, <1>4, <2>1 DEF MergePop, popOthers, Given
<1>5. CASE MergeEnd \/ MergeCancel
  BY <1>5 DEF MergeEnd, MergeCancel
<1>6. CASE Take
  BY <1>0, <1>6 DEF Take, PoppedFirst, Given
<1>7. CASE \/ TakeClosed \/ Emit \/ Flush \/ FlushEnd \/ TakerCancel \/ Cancel
           \/ UNCHANGED vars
  BY <1>0, <1>7 DEF TakeClosed, Emit, Flush, FlushEnd, TakerCancel, Cancel,
                    takerOthers, vars, Given
<1>8. QED
  BY <1>1, <1>2, <1>3, <1>4, <1>5, <1>6, <1>7
  DEF Next, MergeStep, TakerStep, Terminated

\* A popped record stays the first of the merge until it is taken.
LEMMA PoppedFirstStep ==
  ASSUME TypeOK, PoppedFirst, [Next]_vars
  PROVE  PoppedFirst'
<1>1. ASSUME UNCHANGED <<heap, want, cur>>, merge' = "send" => merge = "send"
      PROVE  PoppedFirst'
  BY <1>1, ReverseFixed DEF PoppedFirst, Ord
<1>2. CASE \E s \in Sources : FetcherStep(s)
  BY <1>1, <1>2 DEF FetcherStep, FetcherRead, FetcherFail, FetcherEOF,
                    FetcherCancel, FetcherCancelErr, others
<1>3. CASE MergeStep
  BY <1>3, ReverseFixed DEF MergeStep, MergeRead, MergeSkip, MergePop, popOthers, MergeEnd,
              MergeCancel, PoppedFirst, Ord
<1>4. CASE Take
  BY <1>4 DEF Take, PoppedFirst
<1>5. CASE \/ TakeClosed \/ Emit \/ Flush \/ FlushEnd \/ TakerCancel \/ Cancel
           \/ UNCHANGED vars
  BY <1>1, <1>5 DEF TakeClosed, Emit, Flush, FlushEnd, TakerCancel, Cancel, takerOthers, vars
<1>6. QED
  BY <1>2, <1>3, <1>4, <1>5 DEF Next, TakerStep, Terminated

\* The consumer holds what its state says.
LEMMA HoldingStep ==
  ASSUME TypeOK, Holding, [Next]_vars
  PROVE  Holding'
<1>1. ASSUME UNCHANGED <<taker, buf, sent>> PROVE Holding'
  BY <1>1, ReverseFixed DEF Holding
<1>2. CASE (\E s \in Sources : FetcherStep(s)) \/ MergeStep \/ Cancel \/ UNCHANGED vars
  BY <1>1, <1>2 DEF FetcherStep, FetcherRead, FetcherFail, FetcherEOF,
       FetcherCancel, FetcherCancelErr, others, MergeStep, MergeRead, MergeSkip,
       MergePop, popOthers, MergeEnd, MergeCancel, Cancel, vars
<1>3. CASE Take
  <2>1. buf \in Seq(Record) /\ cur \in Record
    BY DEF TypeOK, Genuine
  <2>2. Len(Append(buf, cur)) = Len(buf) + 1 /\ Len(<<>>) = 0
    BY <2>1
  <2>3. CASE IsErr(cur)
    BY <1>3, <2>3, ReverseFixed DEF Take, Holding
  <2>4. CASE ~IsErr(cur) /\ Reverse
    <3>1. taker = "recv" /\ taker' \in {"flush", "recv"} /\ sent' = sent
      BY <1>3, <2>4 DEF Take
    <3>2. QED
      BY <2>4, <3>1, ReverseFixed DEF Holding
  <2>5. CASE ~IsErr(cur) /\ ~Reverse
    <3>1. taker = "recv" /\ taker' = "send" /\ buf' = Append(buf, cur)
      BY <1>3, <2>5 DEF Take
    <3>2. QED
      BY <2>2, <2>5, <3>1, ReverseFixed DEF Holding
  <2>6. QED
    BY <2>3, <2>4, <2>5
<1>4. CASE TakeClosed \/ Emit \/ Flush \/ FlushEnd \/ TakerCancel
  BY <1>4, ReverseFixed DEF TakeClosed, Emit, Flush, FlushEnd, TakerCancel, Holding
<1>5. QED
  BY <1>2, <1>3, <1>4 DEF Next, TakerStep, Terminated

\* The record the consumer takes comes before all that is still to come.
LEMMA CurBeforeRest ==
  ASSUME TypeOK, Represented, PoppedFirst, merge = "send", ~IsErr(cur), merge' # "send",
         UNCHANGED <<feed, fetcher, pos, heap, cur>>, Reverse' = Reverse
  PROVE  AllAfter(cur.ts)'
<1>1. cur.ts \in Nat /\ cur.pos \in Nat \ {0} /\ cur.src \in Sources
      /\ cur.ts = feed[cur.src][cur.pos] /\ cur.pos <= pos[cur.src]
  BY DEF TypeOK, Genuine, Record, IsErr
<1>2. \A r \in heap : Ord(cur.ts, r.ts) /\ r.ts \in Nat
  BY DEF PoppedFirst, TypeOK, Genuine, Record
<1>3. ASSUME NEW r \in Genuine, ~IsErr(r), Ord(cur.ts, r.ts),
             NEW i \in 1..Len(feed[r.src]), i >= r.pos
      PROVE  Ord(cur.ts, feed[r.src][i])
  <2>1. /\ r.src \in Sources /\ r.ts \in Nat /\ r.pos \in 1..pos[r.src]
        /\ r.ts = feed[r.src][r.pos]
    BY <1>3 DEF Genuine, Record, IsErr, TypeOK
  <2>2. pos[r.src] \in Nat /\ pos[r.src] <= Len(feed[r.src]) /\ Len(feed[r.src]) \in Nat
    BY <2>1, FeedFacts DEF TypeOK
  <2>3. r.pos \in 1..Len(feed[r.src]) /\ r.pos <= i
    BY <1>3, <2>1, <2>2
  <2>4. Ord(r.ts, feed[r.src][i]) /\ feed[r.src][i] \in Nat
    BY <2>1, <2>3, FeedFacts DEF TypeOK, Time
  <2>5. QED
    BY <1>1, <1>3, <2>1, <2>4, OrdTransitive
<1>4. ASSUME NEW s \in Sources PROVE Ahead(cur.ts, s)
  <2>1. SUFFICES ASSUME fetcher[s] # "closed", NEW i \in 1..Len(feed[s]), i > Given(s)
                 PROVE  Ord(cur.ts, feed[s][i])
    BY DEF Ahead
  <2>2. s \notin want /\ Given(s) \in Int
    BY DEF PoppedFirst, Given, TypeOK
  <2>3. CASE \E r \in heap : r.src = s /\ ~IsErr(r) /\ r.pos <= Given(s)
    <3>1. PICK r \in heap : r.src = s /\ ~IsErr(r) /\ r.pos <= Given(s)
      BY <2>3
    <3>2. r \in Genuine /\ r.pos \in Nat /\ i \in Int
      BY <3>1, FeedFacts DEF TypeOK, Genuine, Record
    <3>3. i >= r.pos
      BY <2>1, <2>2, <3>1, <3>2
    <3>4. QED
      BY <1>2, <1>3, <3>1, <3>2, <3>3
  <2>4. CASE cur.src = s /\ cur.pos <= Given(s)
    <3>1. cur \in Genuine /\ i \in Int /\ Ord(cur.ts, cur.ts)
      BY <1>1, FeedFacts DEF TypeOK, Ord
    <3>2. i >= cur.pos
      BY <1>1, <2>1, <2>2, <2>4, <3>1
    <3>3. QED
      BY <1>3, <2>4, <3>1, <3>2
  <2>5. QED
    BY <2>1, <2>2, <2>3, <2>4 DEF Represented
<1>5. QED
  BY <1>2, <1>4 DEF AllAfter, Ahead, Given, PoppedFirst, Ord

\* What was taken stays before what is to come, the record just taken too.
LEMMA TakenBeforeStep ==
  ASSUME TypeOK, Represented, PoppedFirst, Holding, TakenBefore, [Next]_vars
  PROVE  TakenBefore'
<1>1. ASSUME NEW r \in Record, AllAfter(r.ts) PROVE AllAfter(r.ts)'
  BY <1>1, AfterStep DEF Record
<1>2. /\ buf \in Seq(Record)  /\ \A i \in 1..Len(buf)  : buf[i] \in Record
      /\ sent \in Seq(Record) /\ \A i \in 1..Len(sent) : sent[i] \in Record
  BY DEF TypeOK
<1>3. ASSUME taker' \in {"recv", "send"} => taker \in {"recv", "send"},
             UNCHANGED <<buf, sent>>
      PROVE  TakenBefore'
  BY <1>1, <1>2, <1>3 DEF TakenBefore
<1>4. CASE Take
  <2>1. CASE IsErr(cur)
    BY <1>4, <2>1 DEF Take, TakenBefore
  <2>2. CASE ~IsErr(cur)
    <3>1. /\ buf' = Append(buf, cur) /\ sent' = sent /\ taker = "recv"
          /\ merge = "send" /\ merge' = "read" /\ UNCHANGED <<feed, fetcher, pos, heap, cur>>
      BY <1>4, <2>2 DEF Take
    <3>2. AllAfter(cur.ts)' /\ cur \in Record
      BY <2>2, <3>1, ReverseFixed, CurBeforeRest DEF TypeOK, Genuine
    <3>3. cur' = cur
      BY <1>4 DEF Take
    <3>4. \A i \in 1..Len(buf') : buf'[i] = cur \/ (i \in 1..Len(buf) /\ buf'[i] = buf[i])
      BY <1>2, <3>1, <3>2
    <3>5. \A i \in 1..Len(buf') : AllAfter(buf[i].ts)'
      BY <1>1, <1>2, <3>1, <3>2, <3>3, <3>4 DEF TakenBefore
    <3>6. \A i \in 1..Len(sent') : AllAfter(sent[i].ts)'
      BY <1>1, <1>2, <3>1 DEF TakenBefore
    <3>7. QED
      BY <3>5, <3>6 DEF TakenBefore
  <2>3. QED
    BY <2>1, <2>2
<1>5. CASE Emit
  <2>1. /\ buf' = <<>> /\ Len(buf) > 0 /\ sent' = Append(sent, buf[1]) /\ taker = "send"
    BY <1>5 DEF Emit, TypeOK
  <2>2. \A i \in 1..Len(sent') :
          sent'[i] = buf[1] \/ (i \in 1..Len(sent) /\ sent'[i] = sent[i])
    BY <1>2, <2>1
  <2>3. 1 \in 1..Len(buf) /\ buf[1] \in Record /\ AllAfter(buf[1].ts)
    BY <1>2, <2>1 DEF TakenBefore
  <2>4. PICK x \in Record : x = buf[1] /\ AllAfter(x.ts)'
    BY <1>1, <2>3
  <2>5. \A i \in 1..Len(sent') : AllAfter(sent[i].ts)'
    BY <1>1, <1>2, <2>1, <2>2, <2>4 DEF TakenBefore
  <2>6. Len(buf') = 0
    BY <2>1
  <2>7. QED
    BY <2>5, <2>6 DEF TakenBefore
<1>6. CASE Flush \/ FlushEnd
  BY <1>6 DEF Flush, FlushEnd, TakenBefore
<1>7. CASE TakeClosed \/ TakerCancel \/ Cancel \/ UNCHANGED vars
  BY <1>3, <1>7 DEF TakeClosed, TakerCancel, Cancel, takerOthers, vars
<1>8. CASE (\E s \in Sources : FetcherStep(s)) \/ MergeStep
  BY <1>3, <1>8 DEF FetcherStep, FetcherRead, FetcherFail, FetcherEOF,
       FetcherCancel, FetcherCancelErr, others, MergeStep, MergeRead, MergeSkip,
       MergePop, popOthers, MergeEnd, MergeCancel
<1>9. QED
  BY <1>4, <1>5, <1>6, <1>7, <1>8 DEF Next, TakerStep, Terminated

\* The output stays sorted, and what the consumer holds stays after it.
LEMMA OutputStep ==
  ASSUME TypeOK, Holding, TakenBefore, BufAfterSent, SentSorted, [Next]_vars
  PROVE  BufAfterSent' /\ SentSorted'
<1>1. /\ buf \in Seq(Record)  /\ \A i \in 1..Len(buf)  : buf[i].ts \in Nat
      /\ sent \in Seq(Record) /\ \A i \in 1..Len(sent) : sent[i].ts \in Nat
      /\ cur \in Record
  BY DEF TypeOK, Record, Genuine
<1>2. ASSUME UNCHANGED <<buf, sent>> PROVE BufAfterSent' /\ SentSorted'
  BY <1>2, ReverseFixed DEF BufAfterSent, SentSorted
<1>3. CASE Take
  <2>1. CASE IsErr(cur)
    BY <1>2, <1>3, <2>1 DEF Take
  <2>2. CASE ~IsErr(cur)
    <3>1. /\ buf' = Append(buf, cur) /\ sent' = sent /\ taker = "recv" /\ merge = "send"
      BY <1>3, <2>2 DEF Take
    <3>2. /\ \A i \in 1..Len(buf)  : Ord(buf[i].ts, cur.ts)
          /\ \A i \in 1..Len(sent) : Ord(sent[i].ts, cur.ts)
      BY <2>2, <3>1 DEF TakenBefore, AllAfter
    <3>3. /\ Len(buf') = Len(buf) + 1 /\ buf'[Len(buf) + 1] = cur
          /\ \A i \in 1..Len(buf) : buf'[i] = buf[i]
      BY <1>1, <3>1
    <3>4. CASE Reverse
      <4>1. sent = <<>> /\ Len(sent) = 0
        BY <3>1, <3>4 DEF Holding
      <4>2. \A i \in 1..Len(buf) : buf[i].ts >= cur.ts
        BY <3>2, <3>4 DEF Ord
      <4>3. \A i \in 1..Len(buf') : i \in 1..Len(buf) \/ buf'[i] = cur
        BY <1>1, <3>1
      <4>4. \A i \in 1..Len(buf') : i <= Len(buf) + 1 /\ i \in Nat
        BY <3>3
      <4>5. \A i, j \in 1..Len(buf') : i <= j => buf'[i].ts >= buf'[j].ts
        <5>1. SUFFICES ASSUME NEW i \in 1..Len(buf'), NEW j \in 1..Len(buf'), i <= j
                       PROVE  buf'[i].ts >= buf'[j].ts
          OBVIOUS
        <5>2. Len(buf) \in Nat /\ cur.ts \in Nat
          BY <1>1 DEF Record
        <5>3. CASE j \in 1..Len(buf)
          BY <3>3, <3>4, <4>4, <5>1, <5>2, <5>3 DEF BufAfterSent
        <5>4. CASE j = Len(buf) + 1
          BY <3>3, <4>2, <4>3, <5>2, <5>4
        <5>5. QED
          BY <3>3, <5>2, <5>3, <5>4
      <4>6. QED
        BY <3>1, <4>1, <4>5 DEF BufAfterSent, SentSorted
    <3>5. CASE ~Reverse
      <4>1. buf = <<>> /\ Len(buf) = 0
        BY <3>1, <3>5 DEF Holding
      <4>2. Len(buf') = 1 /\ buf'[1] = cur
        BY <3>3, <4>1
      <4>3. \A i \in 1..Len(sent) : sent[i].ts <= cur.ts
        BY <3>2, <3>5 DEF Ord
      <4>4. QED
        BY <3>1, <3>5, <4>2, <4>3, ReverseFixed DEF BufAfterSent, SentSorted
    <3>6. QED
      BY <3>4, <3>5
  <2>3. QED
    BY <2>1, <2>2
<1>4. ASSUME NEW k \in 1..Len(buf), sent' = Append(sent, buf[k]),
             Len(buf') < k \/ Len(buf') = 0,
             \A i \in 1..Len(buf') : buf'[i] = buf[i],
             Len(buf') \in Nat, Len(buf') <= Len(buf),
             Reverse \/ Len(buf') = 0
      PROVE  BufAfterSent' /\ SentSorted'
  <2>1. /\ Len(sent') = Len(sent) + 1 /\ sent'[Len(sent) + 1] = buf[k]
        /\ \A i \in 1..Len(sent) : sent'[i] = sent[i]
        /\ Len(sent) \in Nat /\ Len(buf) \in Nat
    BY <1>1, <1>4 DEF TypeOK
  <2>2. SentSorted'
    BY <1>1, <1>4, <2>1 DEF BufAfterSent, SentSorted
  <2>3. \A j \in 1..Len(buf') : j \in 1..Len(buf) /\ buf'[j] = buf[j] /\ j <= k /\ Reverse
    BY <1>4, <2>1
  <2>4. \A i \in 1..Len(sent'), j \in 1..Len(buf') : sent'[i].ts <= buf'[j].ts
    BY <1>4, <2>1, <2>3 DEF BufAfterSent
  <2>5. \A i, j \in 1..Len(buf') : i <= j => buf'[i].ts >= buf'[j].ts
    BY <2>3 DEF BufAfterSent
  <2>6. QED
    BY <2>2, <2>4, <2>5 DEF BufAfterSent
<1>5. CASE Emit
  <2>1. buf # <<>> /\ sent' = Append(sent, buf[1]) /\ Len(buf') = 0
    BY <1>5 DEF Emit, TypeOK
  <2>2. 1 \in 1..Len(buf) /\ Len(buf) \in Nat
    BY <1>1, <2>1
  <2>3. QED
    BY <1>4, <2>1, <2>2
<1>6. CASE Flush
  <2>1. /\ buf # <<>> /\ Reverse
        /\ sent' = Append(sent, buf[Len(buf)])
        /\ buf' = SubSeq(buf, 1, Len(buf) - 1)
    BY <1>6 DEF Flush, Holding
  <2>2. Len(buf) \in 1..Len(buf) /\ Len(buf) \in Nat
    BY <1>1, <2>1
  <2>3. PICK n \in Nat : n = Len(buf) - 1
    BY <2>2
  <2>4. Len(SubSeq(buf, 1, n)) = n /\ \A i \in 1..n : SubSeq(buf, 1, n)[i] = buf[i]
    BY <1>1, <2>2, <2>3
  <2>5. QED
    BY <1>4, <2>1, <2>2, <2>3, <2>4
<1>7. CASE FlushEnd \/ TakeClosed \/ TakerCancel \/ Cancel \/ UNCHANGED vars
  BY <1>2, <1>7 DEF FlushEnd, TakeClosed, TakerCancel, Cancel, takerOthers, vars
<1>8. CASE (\E s \in Sources : FetcherStep(s)) \/ MergeStep
  BY <1>2, <1>8 DEF FetcherStep, FetcherRead, FetcherFail, FetcherEOF,
       FetcherCancel, FetcherCancelErr, others, MergeStep, MergeRead, MergeSkip,
       MergePop, popOthers, MergeEnd, MergeCancel
<1>9. QED
  BY <1>3, <1>5, <1>6, <1>7, <1>8 DEF Next, TakerStep, Terminated

\* The inductive invariant holds initially.
LEMMA InvInit == Init => IInv
<1> SUFFICES ASSUME Init PROVE IInv
  OBVIOUS
<1>1. TypeOK
  BY TypeInit
<1>2. Len(buf) = 0 /\ Len(sent) = 0
  BY DEF Init
<1>3. Represented /\ PoppedFirst /\ Holding
  BY DEF Init, Represented, PoppedFirst, Holding
<1>4. TakenBefore /\ BufAfterSent /\ SentSorted
  BY <1>2 DEF TakenBefore, BufAfterSent, SentSorted
<1>5. QED
  BY <1>1, <1>3, <1>4 DEF IInv

\* Every step keeps the inductive invariant.
LEMMA InvStep == IInv /\ [Next]_vars => IInv'
BY TypeStep, RepresentedStep, PoppedFirstStep, HoldingStep, TakenBeforeStep,
   OutputStep DEF IInv

\* Whatever is read, in whatever interleaving, and however the phase is
\* cancelled: the forwarder receives records in the order of their timestamps.
THEOREM OutputSorted == Spec => []SentSorted
<1>1. IInv => SentSorted
  BY DEF IInv
<1>2. QED
  BY <1>1, InvInit, InvStep, PTL DEF Spec

-----------------------------------------------------------------------------
(* The window.                                                             *)

\* The records in the merge: on the heap, or popped and not yet taken.
Flight == heap \cup {r \in {cur} : merge = "send"}

\* How many records of s the consumer took, and which.
Took(s)      == CountOf(s, buf) + CountOf(s, sent)
Total        == Len(buf) + Len(sent)
TookPlaces(s) == Positions(s, buf) \cup Positions(s, sent)
Held         == {buf[i] : i \in 1..Len(buf)} \cup {sent[i] : i \in 1..Len(sent)}

\* No source has more than one record in the merge, and none while the merge
\* waits for it.  A source whose error is there has ended.
OneEach ==
  /\ \A r, q \in Flight : r.src = q.src => r = q
  /\ \A r \in Flight : r.src \notin want
  /\ merge = "send" => cur \notin heap
  /\ \A r \in Flight : IsErr(r) => fetcher[r.src] = "closed"

\* What was taken of a log is its first records; the next one is in the merge,
\* or still to be sent to it.
NextUp ==
  /\ \A s \in Sources : TookPlaces(s) = 1..Took(s)
  /\ \A r \in Flight : ~IsErr(r) =>
       /\ r.pos = Took(r.src) + 1
       /\ fetcher[r.src] # "closed" => Given(r.src) = Took(r.src) + 1
  /\ merge # "closed" => \A s \in Sources :
       fetcher[s] = "closed" \/ (\E r \in Flight : r.src = s) \/ Given(s) = Took(s)

\* The consumer has all of s, or the last of it is in the merge.
AllGiven(s) ==
  \/ Took(s) = Len(feed[s])
  \/ \E r \in Flight : r.src = s /\ ~IsErr(r) /\ r.pos = Len(feed[s])

\* While nobody cancelled, a fetcher ends at the end of its log or with an
\* error, which reading forward is in the merge.
EndsTold ==
  ~CtxDone =>
    /\ \A r \in Flight : IsErr(r) => r.src \in failed
    /\ \A s \in Sources : fetcher[s] = "senderr" => s \in failed
    /\ merge # "closed" => \A s \in Sources : fetcher[s] = "closed" =>
         \/ AllGiven(s)
         \/ ~Reverse /\ \E r \in Flight : r.src = s /\ IsErr(r)
         \/ Reverse /\ s \in failed

\* Nothing is left out silently.
Sound == ~cancelled /\ (failed = {} \/ (~Reverse /\ ~err))

ErrTrue == err /\ ~cancelled => failed # {}

\* The records that were not taken may come after those that were.
RestAfter ==
  Sound =>
    \A s \in Sources : \A k \in 1..Len(feed[s]) : k > Took(s) =>
      \A r \in Held : Ord(r.ts, feed[s][k])

AllTook == \A s \in Sources : Took(s) = Len(feed[s])

\* The consumer stops when the limit is used up or nothing is left.
StopsRight ==
  Sound => /\ (merge = "closed" /\ taker # "done") => AllTook
           /\ taker \in {"flush", "done"} => LimitReached(Total) \/ AllTook
           /\ taker = "done" => buf = <<>>

\* The limit is not exceeded, save by a first record.
LimitKept ==
  /\ Mode # "all" => Total <= MaxNum \/ Total <= 1
  /\ taker = "recv" => Total = 0 \/ ~LimitReached(Total)

\* The invariant behind the window and the refinement.
WindowInv == /\ IInv /\ OneEach /\ NextUp /\ EndsTold
             /\ ErrTrue /\ RestAfter /\ StopsRight /\ LimitKept

-----------------------------------------------------------------------------
(* Counting what was taken.                                                *)

\* An empty sequence has no record of s.
LEMMA CountEmpty ==
  ASSUME NEW s
  PROVE  CountOf(s, <<>>) = 0 /\ Positions(s, <<>>) = {}
<1>1. Len(<<>>) = 0
  OBVIOUS
<1>2. {i \in 1..Len(<<>>) : <<>>[i].src = s} = {}
  BY <1>1
<1>3. QED
  BY <1>2, FS_EmptySet DEF CountOf, Positions

\* One more record.
LEMMA CountAppend ==
  ASSUME NEW seq \in Seq(Record), NEW r \in Record, NEW s
  PROVE  /\ CountOf(s, seq) \in Nat
         /\ CountOf(s, Append(seq, r)) =
              IF r.src = s THEN CountOf(s, seq) + 1 ELSE CountOf(s, seq)
         /\ Positions(s, Append(seq, r)) =
              IF r.src = s THEN Positions(s, seq) \cup {r.pos} ELSE Positions(s, seq)
<1> DEFINE I == {i \in 1..Len(seq) : seq[i].src = s}
           J == {i \in 1..Len(Append(seq, r)) : Append(seq, r)[i].src = s}
<1>1. Len(seq) \in Nat /\ IsFiniteSet(1..Len(seq))
  BY FS_Interval
<1>2. IsFiniteSet(I) /\ Cardinality(I) \in Nat
  BY <1>1, FS_Subset, FS_CardinalityType
<1>3. /\ Len(Append(seq, r)) = Len(seq) + 1
      /\ \A i \in 1..Len(seq) : Append(seq, r)[i] = seq[i]
      /\ Append(seq, r)[Len(seq) + 1] = r
  OBVIOUS
<1>4. J = IF r.src = s THEN I \cup {Len(seq) + 1} ELSE I
  BY <1>1, <1>3
<1>5. Len(seq) + 1 \notin I
  BY <1>1
<1>6. Cardinality(J) = IF r.src = s THEN Cardinality(I) + 1 ELSE Cardinality(I)
  BY <1>2, <1>4, <1>5, FS_AddElement
<1>7. {Append(seq, r)[i].pos : i \in J} =
        IF r.src = s THEN {seq[i].pos : i \in I} \cup {r.pos} ELSE {seq[i].pos : i \in I}
  BY <1>3, <1>4
<1>8. QED
  BY <1>2, <1>6, <1>7 DEF CountOf, Positions

\* The same, for what the consumer holds: it goes from buf to sent, or a
\* record is taken.
TookSame == /\ \A s \in Sources : Took(s)' = Took(s) /\ TookPlaces(s)' = TookPlaces(s)
            /\ Total' = Total /\ Held' = Held

TookOne ==
  /\ Total' = Total + 1 /\ Held' = Held \cup {cur}
  /\ \A s \in Sources :
       IF s = cur.src THEN Took(s)' = Took(s) + 1 /\ TookPlaces(s)' = TookPlaces(s) \cup {cur.pos}
                      ELSE Took(s)' = Took(s) /\ TookPlaces(s)' = TookPlaces(s)

\* Counts are numbers.
LEMMA TookType ==
  ASSUME TypeOK, NEW s \in Sources
  PROVE  Took(s) \in Nat /\ Total \in Nat
<1>1. CountOf(s, buf) \in Nat /\ CountOf(s, sent) \in Nat
  BY CountAppend DEF TypeOK, Genuine
<1>2. QED
  BY <1>1 DEF Took, Total, TypeOK

\* A record that goes from buf to sent stays taken.
LEMMA TookMove ==
  ASSUME TypeOK, NEW b \in Seq(Record), NEW r \in Record,
         buf = Append(b, r), buf' = b, sent' = Append(sent, r)
  PROVE  TookSame
<1>1. sent \in Seq(Record) /\ Len(sent) \in Nat /\ Len(b) \in Nat
  BY DEF TypeOK
<1>2. ASSUME NEW s \in Sources PROVE Took(s)' = Took(s) /\ TookPlaces(s)' = TookPlaces(s)
  <2>1. /\ CountOf(s, b) \in Nat /\ CountOf(s, sent) \in Nat
        /\ CountOf(s, buf) + CountOf(s, sent) = CountOf(s, b) + CountOf(s, Append(sent, r))
        /\ Positions(s, buf) \cup Positions(s, sent)
             = Positions(s, b) \cup Positions(s, Append(sent, r))
    <3>1. /\ CountOf(s, b) \in Nat
          /\ CountOf(s, buf) = IF r.src = s THEN CountOf(s, b) + 1 ELSE CountOf(s, b)
          /\ Positions(s, buf) = IF r.src = s THEN Positions(s, b) \cup {r.pos}
                                              ELSE Positions(s, b)
      BY CountAppend
    <3>2. /\ CountOf(s, sent) \in Nat
          /\ CountOf(s, Append(sent, r))
               = IF r.src = s THEN CountOf(s, sent) + 1 ELSE CountOf(s, sent)
          /\ Positions(s, Append(sent, r))
               = IF r.src = s THEN Positions(s, sent) \cup {r.pos} ELSE Positions(s, sent)
      BY <1>1, CountAppend
    <3>3. QED
      BY <3>1, <3>2
  <2>2. CountOf(s, buf)' = CountOf(s, b) /\ CountOf(s, sent)' = CountOf(s, Append(sent, r))
    BY DEF CountOf
  <2>3. /\ Positions(s, buf)' = Positions(s, b)
        /\ Positions(s, sent)' = Positions(s, Append(sent, r))
    BY DEF Positions
  <2>4. QED
    BY <2>1, <2>2, <2>3 DEF Took, TookPlaces
<1>3. Total' = Total
  BY <1>1 DEF Total
<1>4. ASSUME NEW q \in Seq(Record)
      PROVE  {Append(q, r)[i] : i \in 1..Len(Append(q, r))} = {q[i] : i \in 1..Len(q)} \cup {r}
  <2>1. /\ Len(Append(q, r)) = Len(q) + 1 /\ Len(q) \in Nat
        /\ \A i \in 1..Len(q) : Append(q, r)[i] = q[i]
        /\ Append(q, r)[Len(q) + 1] = r
    OBVIOUS
  <2>2. 1..(Len(q) + 1) = (1..Len(q)) \cup {Len(q) + 1}
    BY <2>1
  <2>3. QED
    BY <2>1, <2>2
<1>5. Held' = Held
  BY <1>1, <1>4 DEF Held
<1>6. QED
  BY <1>2, <1>3, <1>5 DEF TookSame

\* What the consumer sends is the last record it holds.
LEMMA Moves ==
  ASSUME TypeOK, Holding, Emit \/ Flush
  PROVE  \E b \in Seq(Record), r \in Record :
           /\ buf = Append(b, r) /\ buf' = b /\ sent' = Append(sent, r)
           /\ Emit => b = <<>>
<1>1. CASE Emit
  <2>1. taker = "send" /\ Len(buf) = 1 /\ buf' = <<>> /\ sent' = Append(sent, buf[1])
    BY <1>1 DEF Emit, Holding, TypeOK
  <2>2. buf \in Seq(Record) /\ buf[1] \in Record
    BY <2>1 DEF TypeOK
  <2>3. buf = Append(<<>>, buf[1]) /\ <<>> \in Seq(Record)
    BY <2>1, <2>2
  <2>4. QED
    BY <2>1, <2>2, <2>3
<1>2. CASE Flush
  <2>1. /\ buf # <<>> /\ sent' = Append(sent, buf[Len(buf)]) /\ taker = "flush"
        /\ buf' = SubSeq(buf, 1, Len(buf) - 1)
    BY <1>2 DEF Flush
  <2>2. buf \in Seq(Record) /\ Len(buf) \in Nat \ {0}
    BY <2>1 DEF TypeOK
  <2>3. PICK n \in Nat : Len(buf) = n + 1
    <3>1. Len(buf) - 1 \in Nat /\ Len(buf) = (Len(buf) - 1) + 1
      BY <2>2
    <3>2. QED
      BY <3>1
  <2>4. PICK r \in Record : r = buf[Len(buf)]
    BY <2>2
  <2>5. PICK b : b = SubSeq(buf, 1, n)
    OBVIOUS
  <2>6. b \in Seq(Record) /\ Len(b) = n /\ \A i \in 1..n : b[i] = buf[i]
    BY <2>2, <2>3, <2>5
  <2>7. /\ Append(b, r) \in Seq(Record) /\ Len(Append(b, r)) = Len(buf)
        /\ \A i \in 1..Len(buf) : Append(b, r)[i] = buf[i]
    BY <2>2, <2>3, <2>4, <2>6
  <2>8. buf = Append(b, r)
    BY <2>2, <2>7
  <2>9. buf' = b /\ sent' = Append(sent, r) /\ ~Emit
    BY <2>1, <2>3, <2>4, <2>5 DEF Emit
  <2>10. QED
    BY <2>6, <2>8, <2>9
<1>3. QED
  BY <1>1, <1>2

\* A step moves what the consumer holds, takes one record, or does neither.
LEMMA TookStep ==
  ASSUME TypeOK, Holding, [Next]_vars
  PROVE  TookSame \/ (Take /\ ~IsErr(cur) /\ TookOne)
<1>1. ASSUME UNCHANGED <<buf, sent>> PROVE TookSame
  BY <1>1 DEF TookSame, Took, TookPlaces, Total, Held
<1>2. CASE Take
  <2>1. CASE IsErr(cur)
    BY <1>1, <1>2, <2>1 DEF Take
  <2>2. CASE ~IsErr(cur)
    <3>1. /\ buf' = Append(buf, cur) /\ sent' = sent /\ buf \in Seq(Record)
          /\ sent \in Seq(Record) /\ cur \in Record
      BY <1>2, <2>2 DEF Take, TypeOK, Genuine
    <3>2. /\ Len(buf') = Len(buf) + 1 /\ buf'[Len(buf) + 1] = cur
          /\ \A i \in 1..Len(buf) : buf'[i] = buf[i]
          /\ Len(buf) \in Nat /\ Len(sent) \in Nat
      BY <3>1
    <3>3. Total' = Total + 1
      BY <3>1, <3>2 DEF Total
    <3>4. 1..Len(buf') = (1..Len(buf)) \cup {Len(buf) + 1}
      BY <3>2
    <3>5. Held' = Held \cup {cur}
      BY <3>1, <3>2, <3>4 DEF Held
    <3>6. ASSUME NEW s \in Sources
          PROVE IF s = cur.src
                  THEN Took(s)' = Took(s) + 1 /\ TookPlaces(s)' = TookPlaces(s) \cup {cur.pos}
                  ELSE Took(s)' = Took(s) /\ TookPlaces(s)' = TookPlaces(s)
      <4>1. CountOf(s, sent) \in Nat
        BY <3>1, CountAppend
      <4>2. QED
        BY <3>1, <4>1, CountAppend DEF Took, TookPlaces
    <3>7. QED
      BY <1>2, <2>2, <3>3, <3>5, <3>6 DEF TookOne
  <2>3. QED
    BY <2>1, <2>2
<1>3. CASE Emit \/ Flush
  BY <1>3, Moves, TookMove
<1>4. CASE \/ (\E s \in Sources : FetcherStep(s)) \/ MergeStep \/ TakeClosed \/ FlushEnd
           \/ TakerCancel \/ Cancel \/ UNCHANGED vars
  BY <1>1, <1>4 DEF FetcherStep, FetcherRead, FetcherFail, FetcherEOF,
       FetcherCancel, FetcherCancelErr, others, MergeStep, MergeRead, MergeSkip,
       MergePop, popOthers, MergeEnd, MergeCancel, Cancel, vars, TakeClosed, FlushEnd, TakerCancel
<1>5. QED
  BY <1>2, <1>3, <1>4 DEF Next, TakerStep, Terminated

\* Taking a record that is no error is the step that takes one.
LEMMA TakeOne ==
  ASSUME TypeOK, Holding, Take, ~IsErr(cur), [Next]_vars
  PROVE  TookOne
<1>1. cur \in Record /\ buf \in Seq(Record) /\ Len(buf) \in Nat /\ buf' = Append(buf, cur)
      /\ sent' = sent /\ Len(sent) \in Nat
  BY DEF Take, TypeOK, Genuine
<1>2. Total' # Total
  BY <1>1 DEF Total
<1>3. QED
  BY <1>2, TookStep DEF TookSame

-----------------------------------------------------------------------------
(* The steps, one conjunct of the invariant after the other.               *)

\* How the records in the merge change.
LEMMA FlightSame ==
  ASSUME TypeOK,
         \/ \E s \in Sources : FetcherStep(s) \/ MergeSkip(s)
         \/ MergePop \/ MergeEnd \/ TakeClosed \/ Emit \/ Flush \/ FlushEnd \/ TakerCancel
         \/ Cancel \/ UNCHANGED vars
  PROVE  Flight' = Flight
<1>1. ASSUME UNCHANGED <<heap, merge, cur>> PROVE Flight' = Flight
  BY <1>1 DEF Flight
<1>2. CASE MergePop
  <2>1. PICK r \in heap : heap' = heap \ {r} /\ cur' = r
    BY <1>2 DEF MergePop
  <2>2. QED
    BY <1>2, <2>1 DEF Flight, MergePop
<1>3. CASE MergeEnd
  BY <1>3 DEF Flight, MergeEnd
<1>4. CASE \/ \E s \in Sources : FetcherStep(s) \/ MergeSkip(s)
           \/ TakeClosed \/ Emit \/ Flush \/ FlushEnd \/ TakerCancel \/ Cancel
           \/ UNCHANGED vars
  BY <1>1, <1>4 DEF FetcherStep, FetcherRead, FetcherFail, FetcherEOF,
       FetcherCancel, FetcherCancelErr, others, MergeSkip, Cancel, vars, TakeClosed,
       Emit, Flush, FlushEnd, TakerCancel, takerOthers
<1>5. QED
  BY <1>2, <1>3, <1>4

\* What the merge reads from s: the record s was at, or its error.
Fills(s, r) ==
  /\ r \in Record /\ r.src = s /\ Flight' = Flight \cup {r}
  /\ s \in want /\ want' = want \ {s}
  /\ merge = "read"
  /\ UNCHANGED <<merge, cur, feed, failed, pos, taker, err, cancelled, options>>
  /\ \A t \in Sources \ {s} : fetcher'[t] = fetcher[t]
  /\ \/ /\ fetcher[s] = "send" /\ fetcher'[s] = "read"
        /\ ~IsErr(r) /\ r.pos = pos[s]
     \/ fetcher[s] = "senderr" /\ fetcher'[s] = "closed" /\ IsErr(r)

\* The merge reads a record or an error.
LEMMA FlightRead ==
  ASSUME TypeOK, NEW s \in Sources, MergeRead(s)
  PROVE  \E r : Fills(s, r)
<1>0. /\ s \in want /\ want' = want \ {s}
      /\ merge = "read"
      /\ UNCHANGED <<merge, cur, feed, failed, pos, taker, err, cancelled, options>>
      /\ \A t \in Sources \ {s} : fetcher'[t] = fetcher[t]
  BY DEF MergeRead, TypeOK
<1>1. CASE fetcher[s] = "send"
  <2>1. heap' = heap \cup {LogRecord(s, pos[s])} /\ fetcher'[s] = "read" /\ pos[s] > 0
    BY <1>1 DEF MergeRead, TypeOK
  <2>2. pos[s] \in 1..Len(feed[s]) /\ Len(feed[s]) \in Nat
    BY <2>1, FeedFacts DEF TypeOK
  <2>3. LogRecord(s, pos[s]) \in Record /\ ~IsErr(LogRecord(s, pos[s]))
    BY <2>2, FeedFacts DEF LogRecord, Record, IsErr, Time, TypeOK
  <2>4. Fills(s, LogRecord(s, pos[s]))
    BY <1>0, <1>1, <2>1, <2>3 DEF Fills, Flight, LogRecord
  <2>5. QED
    BY <2>4
<1>2. CASE fetcher[s] = "senderr"
  <2>1. heap' = heap \cup {ErrRecord(s)} /\ fetcher'[s] = "closed"
    BY <1>2 DEF MergeRead, TypeOK
  <2>2. Fills(s, ErrRecord(s))
    BY <1>0, <1>2, <2>1 DEF Fills, Flight, ErrRecord, Record, IsErr
  <2>3. QED
    BY <2>2
<1>3. QED
  BY <1>1, <1>2 DEF MergeRead

\* The consumer takes a record from the merge.
LEMMA FlightTake ==
  ASSUME TypeOK, OneEach, PoppedFirst, Take
  PROVE  /\ cur \in Flight /\ Flight' = Flight \ {cur}
         /\ want = {} /\ want' = {cur.src} /\ merge = "send" /\ merge' = "read"
         /\ \A r \in Flight' : r.src # cur.src
         /\ UNCHANGED <<cur, feed, failed, pos, fetcher, cancelled, options>>
<1>1. merge = "send" /\ merge' = "read" /\ heap' = heap
  BY DEF Take
<1>2. Flight = heap \cup {cur} /\ Flight' = heap /\ cur \notin heap
  BY <1>1 DEF Flight, OneEach
<1>3. QED
  BY <1>1, <1>2 DEF Take, OneEach, PoppedFirst

\* A closed channel stays closed.
LEMMA ClosedStays ==
  ASSUME TypeOK, [Next]_vars, NEW s \in Sources, fetcher[s] = "closed"
  PROVE  fetcher'[s] = "closed"
BY DEF TypeOK, Next, vars, FetcherStep, FetcherRead, FetcherFail, FetcherEOF, FetcherCancel,
       FetcherCancelErr, others, MergeStep, MergeRead, MergeSkip, MergePop, popOthers,
       MergeEnd, MergeCancel, TakerStep, Take, TakeClosed, Emit, Flush, FlushEnd,
       TakerCancel, takerOthers, Cancel, Terminated

\* A source has one record in the merge at a time.
LEMMA OneEachStep ==
  ASSUME TypeOK, OneEach, PoppedFirst, [Next]_vars
  PROVE  OneEach'
<1>0. \A r \in Flight : r.src \in Sources
  BY DEF Flight, TypeOK, Genuine, Record
<1>1. ASSUME Flight' \subseteq Flight, want' \subseteq want,
             merge' = "send" => cur' \notin heap'
      PROVE  OneEach'
  BY <1>0, <1>1, ClosedStays DEF OneEach, IsErr
<1>2. CASE \E s \in Sources : FetcherStep(s) \/ MergeSkip(s)
  <2>1. Flight' = Flight /\ want' \subseteq want /\ UNCHANGED <<heap, merge, cur>>
    BY <1>2, FlightSame DEF FetcherStep, FetcherRead, FetcherFail, FetcherEOF,
       FetcherCancel, FetcherCancelErr, others, MergeSkip
  <2>2. QED
    BY <1>1, <2>1 DEF OneEach
<1>3. CASE \/ TakeClosed \/ Emit \/ Flush \/ FlushEnd \/ TakerCancel
           \/ Cancel \/ UNCHANGED vars
  <2>1. Flight' = Flight /\ want' = want /\ UNCHANGED <<heap, merge, cur>>
    BY <1>3, FlightSame
                    DEF Cancel, vars, TakeClosed, Emit, Flush, FlushEnd, TakerCancel, takerOthers
  <2>2. QED
    BY <1>1, <2>1 DEF OneEach
<1>4. CASE MergePop
  <2>1. Flight' = Flight /\ want' = want /\ cur' \notin heap'
    BY <1>4, FlightSame DEF MergePop, popOthers
  <2>2. QED
    BY <1>1, <2>1
<1>5. CASE MergeEnd \/ MergeCancel
  <2>1. Flight' \subseteq Flight /\ want' = want /\ merge' = "closed"
    BY <1>5 DEF MergeEnd, MergeCancel, Flight
  <2>2. QED
    BY <1>1, <2>1
<1>6. ASSUME NEW s \in Sources, MergeRead(s) PROVE OneEach'
  <2>1. PICK n : Fills(s, n)
    BY <1>6, FlightRead
  <2>2. /\ n.src = s /\ Flight' = Flight \cup {n}
        /\ s \in want /\ want' = want \ {s} /\ merge' # "send"
        /\ (IsErr(n) => fetcher'[s] = "closed")
    BY <2>1 DEF Fills
  <2>3. \A r \in Flight : r.src # s /\ r.src \notin want
    BY <2>2 DEF OneEach
  <2>4. \A r, q \in Flight' : r.src = q.src => r = q
    BY <2>2, <2>3 DEF OneEach
  <2>5. \A r \in Flight' : r.src \notin want'
    BY <2>2, <2>3
  <2>6. \A r \in Flight' : IsErr(r) => fetcher'[r.src] = "closed"
    BY <1>0, <2>2, ClosedStays DEF OneEach
  <2>7. QED
    BY <2>2, <2>4, <2>5, <2>6 DEF OneEach, IsErr
<1>7. CASE Take
  <2>1. /\ Flight' \subseteq Flight /\ merge' = "read" /\ want' = {cur.src}
        /\ \A r \in Flight' : r.src # cur.src
    BY <1>7, FlightTake
  <2>2. QED
    BY <1>0, <2>1, ClosedStays DEF OneEach, IsErr
<1>8. QED
  BY <1>2, <1>3, <1>4, <1>5, <1>6, <1>7 DEF Next, MergeStep, TakerStep, Terminated

\* A step of a fetcher that leaves its channel open leaves what it has given.
LEMMA FetcherGives ==
  ASSUME TypeOK, NEW s \in Sources, FetcherStep(s)
  PROVE  /\ UNCHANGED <<options, feed, want, merge, cur, taker, buf, sent, err, cancelled>>
         /\ fetcher[s] # "closed"
         /\ fetcher'[s] # "closed" => Given(s)' = Given(s)
         /\ \A t \in Sources \ {s} : fetcher'[t] = fetcher[t] /\ Given(t)' = Given(t)
<1>1. \A t \in Sources \ {s} : fetcher'[t] = fetcher[t] /\ pos'[t] = pos[t]
  BY DEF FetcherStep, FetcherRead, FetcherFail, FetcherEOF, FetcherCancel,
         FetcherCancelErr, TypeOK
<1>2. UNCHANGED <<options, feed, want, merge, cur, taker, buf, sent, err, cancelled>>
  BY DEF FetcherStep, FetcherRead, FetcherFail, FetcherEOF, FetcherCancel,
         FetcherCancelErr, others
<1>3. fetcher[s] # "closed" /\ (fetcher'[s] # "closed" => Given(s)' = Given(s))
  <2>1. CASE FetcherRead(s)
    BY <2>1 DEF FetcherRead, TypeOK, Given
  <2>2. CASE FetcherFail(s) \/ FetcherEOF(s) \/ FetcherCancel(s) \/ FetcherCancelErr(s)
    BY <2>2 DEF FetcherFail, FetcherEOF, FetcherCancel, FetcherCancelErr, TypeOK, Given
  <2>3. QED
    BY <2>1, <2>2 DEF FetcherStep
<1>4. QED
  BY <1>1, <1>2, <1>3 DEF Given

\* The consumer takes the records of a log in their order, without a gap.
LEMMA NextUpStep ==
  ASSUME TypeOK, OneEach, NextUp, PoppedFirst, Holding, [Next]_vars
  PROVE  NextUp'
<1>0. /\ \A r \in Flight : r.src \in Sources /\ r.pos \in Nat
      /\ \A s \in Sources : Took(s) \in Nat
  BY TookType DEF Flight, TypeOK, Genuine, Record
<1>1. ASSUME TookSame, Flight' \subseteq Flight,
             merge' # "closed" => Flight' = Flight /\ merge # "closed",
             \A s \in Sources : fetcher'[s] # "closed" =>
               fetcher[s] # "closed" /\ Given(s)' = Given(s)
      PROVE  NextUp'
  <2>1. \A s \in Sources : TookPlaces(s)' = 1..Took(s)'
    BY <1>1 DEF NextUp, TookSame
  <2>2. \A r \in Flight' : ~IsErr(r) =>
          /\ r.pos = Took(r.src)' + 1
          /\ fetcher'[r.src] # "closed" => Given(r.src)' = Took(r.src)' + 1
    BY <1>0, <1>1 DEF NextUp, TookSame
  <2>3. merge' # "closed" => \A s \in Sources :
          fetcher'[s] = "closed" \/ (\E r \in Flight' : r.src = s) \/ Given(s)' = Took(s)'
    BY <1>1 DEF NextUp, TookSame
  <2>4. QED
    BY <2>1, <2>2, <2>3 DEF NextUp, IsErr
<1>2. ASSUME NEW s \in Sources, FetcherStep(s) PROVE NextUp'
  <2>1. TookSame
    BY <1>2, FetcherGives DEF TookSame, Took, TookPlaces, Total, Held
  <2>2. Flight' = Flight
    BY <1>2, FlightSame
  <2>3. QED
    BY <1>1, <1>2, <2>1, <2>2, FetcherGives
<1>3. CASE \/ \E s \in Sources : MergeSkip(s)
           \/ MergePop \/ MergeEnd \/ MergeCancel
  <2>1. TookSame
    BY <1>3 DEF TookSame, Took, TookPlaces, Total, Held, MergeSkip, MergePop, popOthers,
                MergeEnd, MergeCancel
  <2>2. /\ UNCHANGED <<fetcher, pos>>
        /\ merge' # "closed" => merge # "closed" /\ ~MergeEnd /\ ~MergeCancel
    BY <1>3 DEF MergeSkip, MergePop, popOthers, MergeEnd, MergeCancel
  <2>3. Flight' \subseteq Flight /\ (merge' # "closed" => Flight' = Flight)
    BY <1>3, <2>2, FlightSame DEF Flight, MergeCancel
  <2>4. QED
    BY <1>1, <2>1, <2>2, <2>3 DEF Given
<1>4. CASE \/ TakeClosed \/ Emit \/ Flush \/ FlushEnd \/ TakerCancel
           \/ Cancel \/ UNCHANGED vars
  <2>1. /\ UNCHANGED <<fetcher, pos, merge>> /\ ~(Take /\ ~IsErr(cur) /\ TookOne)
    BY <1>4 DEF TakeClosed, Emit, Flush, FlushEnd, TakerCancel, takerOthers, Cancel, vars, Take
  <2>2. TookSame /\ Flight' = Flight
    BY <1>4, <2>1, TookStep, FlightSame
  <2>3. QED
    BY <1>1, <2>1, <2>2 DEF Given
<1>5. ASSUME NEW s \in Sources, MergeRead(s) PROVE NextUp'
  <2>1. TookSame
    BY <1>5 DEF TookSame, Took, TookPlaces, Total, Held, MergeRead
  <2>2. PICK n : Fills(s, n)
    BY <1>5, FlightRead
  <2>3. /\ n.src = s /\ Flight' = Flight \cup {n} /\ s \in want /\ merge = "read" /\ pos' = pos
        /\ \A t \in Sources \ {s} : fetcher'[t] = fetcher[t] /\ Given(t)' = Given(t)
        /\ \/ /\ fetcher[s] = "send" /\ fetcher'[s] = "read"
              /\ ~IsErr(n) /\ n.pos = pos[s]
           \/ fetcher[s] = "senderr" /\ fetcher'[s] = "closed" /\ IsErr(n)
    BY <2>2 DEF Fills, Given
  <2>4. \A r \in Flight : r.src # s
    BY <2>3 DEF OneEach
  <2>5. fetcher'[s] = "read" => Given(s)' = pos[s] /\ Given(s) = pos[s] - 1 /\ pos[s] \in Nat
    BY <2>3 DEF Given, TypeOK
  <2>6. Given(s) = Took(s)
    BY <2>3, <2>4 DEF NextUp
  <2>7. \A r \in Flight' : ~IsErr(r) =>
          /\ r.pos = Took(r.src)' + 1
          /\ fetcher'[r.src] # "closed" => Given(r.src)' = Took(r.src)' + 1
    <3>1. SUFFICES ASSUME NEW r \in Flight', ~IsErr(r)
          PROVE /\ r.pos = Took(r.src)' + 1
                /\ fetcher'[r.src] # "closed" => Given(r.src)' = Took(r.src)' + 1
      OBVIOUS
    <3>2. CASE r \in Flight
      BY <1>0, <2>1, <2>3, <2>4, <3>1, <3>2 DEF NextUp, TookSame
    <3>3. CASE r = n
      BY <1>0, <2>1, <2>3, <2>5, <2>6, <3>1, <3>3 DEF TookSame
    <3>4. QED
      BY <2>3, <3>2, <3>3
  <2>8. \A t \in Sources :
          fetcher'[t] = "closed" \/ (\E r \in Flight' : r.src = t) \/ Given(t)' = Took(t)'
    BY <2>1, <2>3 DEF NextUp, TookSame
  <2>9. \A t \in Sources : TookPlaces(t)' = 1..Took(t)'
    BY <2>1 DEF NextUp, TookSame
  <2>10. QED
    BY <2>7, <2>8, <2>9 DEF NextUp, IsErr
<1>6. CASE Take
  <2>1. /\ cur \in Flight /\ Flight' = Flight \ {cur} /\ merge = "send"
        /\ \A r \in Flight' : r.src # cur.src
        /\ UNCHANGED <<cur, pos, fetcher>>
    BY <1>6, FlightTake
  <2>2. \A t \in Sources : Given(t)' = Given(t)
    BY <2>1 DEF Given
  <2>3. ASSUME IsErr(cur), TookSame PROVE NextUp'
    <3>1. fetcher'[cur.src] = "closed"
      BY <2>1, <2>3 DEF OneEach
    <3>2. \A r \in Flight' : ~IsErr(r) =>
          /\ r.pos = Took(r.src)' + 1
          /\ fetcher'[r.src] # "closed" => Given(r.src)' = Took(r.src)' + 1
      BY <1>0, <2>1, <2>2, <2>3 DEF NextUp, TookSame
    <3>3. \A t \in Sources :
            fetcher'[t] = "closed" \/ (\E r \in Flight' : r.src = t) \/ Given(t)' = Took(t)'
      BY <2>1, <2>2, <2>3, <3>1 DEF NextUp, TookSame
    <3>4. \A t \in Sources : TookPlaces(t)' = 1..Took(t)'
      BY <2>3 DEF NextUp, TookSame
    <3>5. QED
      BY <3>2, <3>3, <3>4 DEF NextUp, IsErr
  <2>4. ASSUME ~IsErr(cur), TookOne PROVE NextUp'
    <3>1. cur.src \in Sources /\ cur.pos = Took(cur.src) + 1 /\ Took(cur.src)' = Took(cur.src) + 1
          /\ (fetcher[cur.src] # "closed" => Given(cur.src) = Took(cur.src)')
      BY <1>0, <2>1, <2>4 DEF NextUp, TookOne
    <3>2. \A r \in Flight' : ~IsErr(r) =>
          /\ r.pos = Took(r.src)' + 1
          /\ fetcher'[r.src] # "closed" => Given(r.src)' = Took(r.src)' + 1
      BY <1>0, <2>1, <2>2, <2>4 DEF NextUp, TookOne
    <3>3. \A t \in Sources :
            fetcher'[t] = "closed" \/ (\E r \in Flight' : r.src = t) \/ Given(t)' = Took(t)'
      BY <2>1, <2>2, <2>4, <3>1 DEF NextUp, TookOne
    <3>4. \A t \in Sources : TookPlaces(t)' = 1..Took(t)'
      <4>1. SUFFICES ASSUME NEW t \in Sources PROVE TookPlaces(t)' = 1..Took(t)'
        OBVIOUS
      <4>2. CASE t # cur.src
        BY <2>4, <4>2 DEF NextUp, TookOne
      <4>3. CASE t = cur.src
        <5>1. TookPlaces(t)' = (1..Took(t)) \cup {Took(t) + 1} /\ Took(t)' = Took(t) + 1
          BY <2>4, <3>1, <4>3 DEF NextUp, TookOne
        <5>2. 1..(Took(t) + 1) = (1..Took(t)) \cup {Took(t) + 1}
          BY <1>0
        <5>3. QED
          BY <5>1, <5>2
      <4>4. QED
        BY <4>2, <4>3
    <3>5. QED
      BY <3>2, <3>3, <3>4 DEF NextUp, IsErr
  <2>5. CASE IsErr(cur)
    BY <2>3, <2>5, TookStep
  <2>6. CASE ~IsErr(cur)
    BY <1>6, <2>4, <2>6, TakeOne
  <2>7. QED
    BY <2>5, <2>6
<1>7. QED
  BY <1>2, <1>3, <1>4, <1>5, <1>6 DEF Next, MergeStep, TakerStep, Terminated

\* What is over stays over.
LEMMA OverStays ==
  ASSUME TypeOK, [Next]_vars
  PROVE  /\ CtxDone => CtxDone'
         /\ Sound' => Sound
         /\ taker = "done" => taker' = "done"
         /\ merge = "closed" => merge' = "closed"
<1>1. /\ (cancelled => cancelled') /\ failed \subseteq failed' /\ (err => err')
      /\ taker = "done" => taker' = "done"
      /\ merge = "closed" => merge' = "closed"
  BY DEF TypeOK, Next, vars, FetcherStep, FetcherRead, FetcherFail, FetcherEOF, FetcherCancel,
       FetcherCancelErr, others, MergeStep, MergeRead, MergeSkip, MergePop, popOthers,
       MergeEnd, MergeCancel, TakerStep, Take, TakeClosed, Emit, Flush, FlushEnd,
       TakerCancel, takerOthers, Cancel, Terminated
<1>2. QED
  BY <1>1, ReverseFixed DEF CtxDone, Sound

\* Until somebody cancels, no log ends before its end unnoticed.
LEMMA EndsToldStep ==
  ASSUME TypeOK, OneEach, NextUp, EndsTold, PoppedFirst, Holding, [Next]_vars
  PROVE  EndsTold'
<1> SUFFICES ASSUME ~CtxDone' PROVE EndsTold'
  BY DEF EndsTold
<1>0. /\ ~CtxDone /\ taker # "done"
      /\ \A r \in Flight : r.src \in Sources /\ r.pos \in Nat
      /\ \A s \in Sources : Took(s) \in Nat /\ Len(feed[s]) \in Nat
  BY OverStays, TookType, FeedFacts DEF Flight, TypeOK, Genuine, Record, CtxDone
<1> DEFINE Told(s) == \/ AllGiven(s)
                      \/ ~Reverse /\ \E r \in Flight : r.src = s /\ IsErr(r)
                      \/ Reverse /\ s \in failed
<1>1. ASSUME UNCHANGED feed, TookSame, Flight' = Flight, failed \subseteq failed',
             NEW s \in Sources, Told(s)
      PROVE  Told(s)'
  BY <1>1, ReverseFixed DEF AllGiven, TookSame, IsErr
<1>2. ASSUME UNCHANGED <<feed, fetcher, failed>>, TookSame, Flight' = Flight,
             merge' # "closed" => merge # "closed"
      PROVE  EndsTold'
  <2>1. \A r \in Flight' : IsErr(r) => r.src \in failed'
    BY <1>0, <1>2 DEF EndsTold
  <2>2. \A s \in Sources : fetcher'[s] = "senderr" => s \in failed'
    BY <1>0, <1>2 DEF EndsTold
  <2>3. merge' # "closed" => \A s \in Sources : fetcher'[s] = "closed" => Told(s)'
    BY <1>0, <1>1, <1>2 DEF EndsTold
  <2>4. QED
    BY <2>1, <2>2, <2>3 DEF EndsTold, IsErr
<1>3. ASSUME NEW s \in Sources, FetcherStep(s) PROVE EndsTold'
  <2>1. TookSame /\ Flight' = Flight /\ UNCHANGED <<feed, merge>>
        /\ \A t \in Sources \ {s} : fetcher'[t] = fetcher[t]
    BY <1>3, FetcherGives, FlightSame DEF TookSame, Took, TookPlaces, Total, Held
  <2>2. /\ failed \subseteq failed'
        /\ fetcher'[s] = "senderr" => fetcher[s] = "senderr" \/ s \in failed'
    BY <1>0, <1>3 DEF FetcherStep, FetcherRead, FetcherFail, FetcherEOF, FetcherCancel,
         FetcherCancelErr, TypeOK
  <2>3. merge # "closed" /\ fetcher'[s] = "closed" => Told(s)'
    <3>1. SUFFICES ASSUME merge # "closed", fetcher'[s] = "closed" PROVE Told(s)'
      OBVIOUS
    <3>2. CASE FetcherEOF(s)
      <4>1. Given(s) = Len(feed[s]) /\ fetcher[s] = "read"
        BY <3>2 DEF FetcherEOF, Given
      <4>2. AllGiven(s)
        <5>1. CASE \E r \in Flight : r.src = s
          <6>1. PICK r \in Flight : r.src = s
            BY <5>1
          <6>2. ~IsErr(r)
            BY <4>1, <6>1 DEF OneEach
          <6>3. r.pos = Len(feed[s])
            BY <4>1, <6>1, <6>2 DEF NextUp
          <6>4. QED
            BY <6>1, <6>2, <6>3 DEF AllGiven
        <5>2. CASE ~\E r \in Flight : r.src = s
          BY <3>1, <4>1, <5>2 DEF NextUp, AllGiven
        <5>3. QED
          BY <5>1, <5>2
      <4>3. QED
        BY <1>1, <2>1, <2>2, <4>2
    <3>3. CASE FetcherFail(s)
      BY <3>1, <3>3, ReverseFixed DEF FetcherFail, TypeOK
    <3>4. QED
      BY <1>0, <1>3, <3>1, <3>2, <3>3
      DEF FetcherStep, FetcherRead, FetcherCancel, FetcherCancelErr, TypeOK
  <2>4. \A r \in Flight' : IsErr(r) => r.src \in failed'
    BY <1>0, <2>1, <2>2 DEF EndsTold
  <2>5. \A t \in Sources : fetcher'[t] = "senderr" => t \in failed'
    BY <1>0, <2>1, <2>2 DEF EndsTold
  <2>6. merge' # "closed" => \A t \in Sources : fetcher'[t] = "closed" => Told(t)'
    BY <1>0, <1>1, <2>1, <2>2, <2>3 DEF EndsTold
  <2>7. QED
    BY <2>4, <2>5, <2>6 DEF EndsTold, IsErr
<1>4. ASSUME NEW s \in Sources, MergeRead(s) PROVE EndsTold'
  <2>1. PICK n : Fills(s, n)
    BY <1>4, FlightRead
  <2>2. TookSame
    BY <1>4 DEF TookSame, Took, TookPlaces, Total, Held, MergeRead
  <2>3. /\ n.src = s /\ Flight' = Flight \cup {n} /\ merge # "closed" /\ UNCHANGED <<feed, failed>>
        /\ \A t \in Sources \ {s} : fetcher'[t] = fetcher[t]
        /\ \/ fetcher'[s] = "read" /\ ~IsErr(n)
           \/ fetcher[s] = "senderr" /\ fetcher'[s] = "closed" /\ IsErr(n)
    BY <2>1 DEF Fills
  <2>4. \A r \in Flight' : IsErr(r) => r.src \in failed'
    BY <1>0, <2>3 DEF EndsTold
  <2>5. \A t \in Sources : fetcher'[t] = "senderr" => t \in failed'
    BY <1>0, <2>3 DEF EndsTold
  <2>6. \A t \in Sources : fetcher'[t] = "closed" => Told(t)'
    <3>1. SUFFICES ASSUME NEW t \in Sources, fetcher'[t] = "closed" PROVE Told(t)'
      OBVIOUS
    <3>2. CASE t = s
      <4>1. n \in Flight' /\ IsErr(n) /\ s \in failed'
        BY <1>0, <2>3, <3>1, <3>2 DEF EndsTold
      <4>2. QED
        BY <2>3, <3>2, <4>1 DEF IsErr
    <3>3. CASE t # s
      <4>1. Told(t)
        BY <1>0, <2>3, <3>1, <3>3 DEF EndsTold
      <4>2. QED
        BY <2>2, <2>3, <4>1, ReverseFixed DEF AllGiven, TookSame, IsErr
    <3>4. QED
      BY <3>2, <3>3
  <2>7. QED
    BY <2>4, <2>5, <2>6 DEF EndsTold, IsErr
<1>5. CASE Take
  <2>1. /\ cur \in Flight /\ Flight' = Flight \ {cur} /\ merge = "send"
        /\ \A r \in Flight' : r.src # cur.src
        /\ UNCHANGED <<cur, feed, failed, fetcher>>
    BY <1>5, FlightTake
  <2>2. ~IsErr(cur)
    BY <1>5 DEF Take, CtxDone
  <2>3. TookOne
    BY <1>5, <2>2, TakeOne
  <2>4. \A r \in Flight' : IsErr(r) => r.src \in failed'
    BY <1>0, <2>1 DEF EndsTold
  <2>5. \A t \in Sources : fetcher'[t] = "senderr" => t \in failed'
    BY <1>0, <2>1 DEF EndsTold
  <2>6. \A t \in Sources : fetcher'[t] = "closed" => Told(t)'
    <3>1. SUFFICES ASSUME NEW t \in Sources, fetcher'[t] = "closed" PROVE Told(t)'
      OBVIOUS
    <3>2. Told(t)
      BY <1>0, <2>1, <3>1 DEF EndsTold
    <3>3. CASE t = cur.src
      <4>1. Took(t)' = Took(t) + 1 /\ cur.pos = Took(t) + 1
        BY <2>1, <2>2, <2>3, <3>3 DEF TookOne, NextUp
      <4>2. \A r \in Flight : r.src = t => r = cur
        BY <2>1, <3>3
      <4>3. cur.pos <= Len(feed[t])
        <5>1. cur.pos <= pos[t] /\ cur.pos \in Nat /\ pos[t] \in Nat /\ pos[t] <= Len(feed[t])
          BY <3>3 DEF TypeOK, Genuine, Record
        <5>2. QED
          BY <1>0, <5>1
      <4>4. Took(t) # Len(feed[t])
        BY <1>0, <4>1, <4>3
      <4>5. (\E r \in Flight : r.src = t /\ ~IsErr(r) /\ r.pos = Len(feed[t]))
              => Took(t)' = Len(feed'[t])
        BY <2>1, <4>1, <4>2
      <4>6. ~\E r \in Flight : r.src = t /\ IsErr(r)
        BY <2>2, <4>2
      <4>7. QED
        BY <2>1, <3>2, <4>4, <4>5, <4>6, ReverseFixed DEF AllGiven
    <3>4. CASE t # cur.src
      <4>1. Took(t)' = Took(t)
        BY <2>3, <3>4 DEF TookOne
      <4>2. \A r \in Flight : r.src = t => r \in Flight'
        BY <2>1, <3>4
      <4>3. QED
        BY <2>1, <3>2, <4>1, <4>2, ReverseFixed DEF AllGiven, IsErr
    <3>5. QED
      BY <3>3, <3>4
  <2>7. QED
    BY <2>4, <2>5, <2>6 DEF EndsTold, IsErr
<1>6. CASE (\E s \in Sources : MergeSkip(s)) \/ MergePop \/ MergeEnd
  <2>1. TookSame /\ UNCHANGED <<feed, fetcher, failed>>
    BY <1>6 DEF TookSame, Took, TookPlaces, Total, Held, MergeSkip, MergePop, popOthers, MergeEnd
  <2>2. QED
    BY <1>2, <1>6, <2>1, FlightSame, OverStays
<1>7. CASE MergeCancel
  BY <1>0, <1>7 DEF MergeCancel
<1>8. CASE \/ TakeClosed \/ Emit \/ Flush \/ FlushEnd \/ TakerCancel
           \/ Cancel \/ UNCHANGED vars
  <2>1. /\ UNCHANGED <<feed, fetcher, failed, merge>> /\ ~(Take /\ ~IsErr(cur) /\ TookOne)
    BY <1>8 DEF TakeClosed, Emit, Flush, FlushEnd, TakerCancel, takerOthers, Cancel, vars, Take
  <2>2. TookSame /\ Flight' = Flight
    BY <1>8, <2>1, TookStep, FlightSame
  <2>3. QED
    BY <1>2, <2>1, <2>2
<1>9. QED
  BY <1>3, <1>4, <1>5, <1>6, <1>7, <1>8 DEF Next, MergeStep, TakerStep, Terminated

\* An error is kept only where a read failed, until somebody cancels.
LEMMA ErrTrueStep ==
  ASSUME TypeOK, OneEach, PoppedFirst, EndsTold, ErrTrue, [Next]_vars
  PROVE  ErrTrue'
<1>1. ASSUME failed \subseteq failed', err' => err, cancelled => cancelled' PROVE ErrTrue'
  BY <1>1 DEF ErrTrue
<1>2. CASE Take
  <2>1. CASE IsErr(cur) /\ ~cancelled
    <3>1. cur \in Flight /\ ~CtxDone /\ failed' = failed
      BY <1>2, <2>1, FlightTake DEF Take, CtxDone
    <3>2. cur.src \in failed
      BY <2>1, <3>1 DEF EndsTold
    <3>3. QED
      BY <3>1, <3>2 DEF ErrTrue
  <2>2. CASE ~IsErr(cur) \/ cancelled
    BY <1>2, <2>2 DEF Take, ErrTrue
  <2>3. QED
    BY <2>1, <2>2
<1>3. CASE (\E s \in Sources : FetcherStep(s)) \/ MergeStep
  BY <1>1, <1>3 DEF FetcherStep, FetcherRead, FetcherFail, FetcherEOF,
       FetcherCancel, FetcherCancelErr, others, MergeStep, MergeRead, MergeSkip,
       MergePop, popOthers, MergeEnd, MergeCancel
<1>4. CASE \/ TakeClosed \/ Emit \/ Flush \/ FlushEnd \/ TakerCancel
           \/ Cancel \/ UNCHANGED vars
  BY <1>1, <1>4 DEF TakeClosed, Emit, Flush, FlushEnd, TakerCancel, takerOthers, Cancel, vars
<1>5. QED
  BY <1>2, <1>3, <1>4 DEF Next, TakerStep, Terminated

\* The record that is taken comes before every record of a log that has not
\* failed and was not taken.
LEMMA CurBeforeLogs ==
  ASSUME TypeOK, Represented, PoppedFirst, OneEach, NextUp, EndsTold,
         merge = "send", ~IsErr(cur), ~CtxDone,
         NEW s \in Sources, Reverse => s \notin failed,
         NEW k \in 1..Len(feed[s]), k > Took(s), s = cur.src => k > Took(s) + 1
  PROVE  Ord(cur.ts, feed[s][k])
<1>1. ASSUME NEW r \in Flight, r.src = s, ~IsErr(r), Ord(cur.ts, r.ts)
      PROVE  Ord(cur.ts, feed[s][k])
  <2>1. r \in Genuine /\ cur \in Genuine
    BY DEF Flight, TypeOK
  <2>2. /\ r.pos = Took(s) + 1 /\ Took(s) \in Nat /\ r.ts = feed[s][r.pos]
        /\ r.pos <= pos[s] /\ pos[s] <= Len(feed[s]) /\ pos[s] \in Nat /\ Len(feed[s]) \in Nat
    BY <1>1, <2>1, TookType, FeedFacts DEF NextUp, Genuine, TypeOK
  <2>3. r.pos \in 1..Len(feed[s]) /\ k \in 1..Len(feed[s]) /\ r.pos <= k
    BY <2>2
  <2>4. Ord(r.ts, feed[s][k]) /\ feed[s][k] \in Nat
    BY <2>2, <2>3, FeedFacts DEF TypeOK, Time
  <2>5. QED
    BY <1>1, <2>1, <2>4, OrdTransitive DEF Genuine, Record
<1>2. \A r \in Flight : Ord(cur.ts, r.ts)
  <2>1. cur.ts \in Nat
    BY DEF TypeOK, Genuine, Record
  <2>2. QED
    BY <2>1 DEF Flight, PoppedFirst, Ord
<1>3. CASE \E r \in Flight : r.src = s /\ ~IsErr(r)
  BY <1>1, <1>2, <1>3
<1>4. CASE \E r \in Flight : r.src = s /\ IsErr(r)
  <2>1. PICK r \in Flight : r.src = s /\ IsErr(r)
    BY <1>4
  <2>2. s \in failed /\ ~Reverse
    BY <2>1 DEF EndsTold
  <2>3. r \in Genuine /\ r.ts = 0 /\ Ord(cur.ts, 0)
    BY <1>2, <2>1 DEF Flight, TypeOK, Genuine
  <2>4. cur.ts \in Time
    <3>1. cur \in Genuine /\ cur.src \in Sources /\ cur.pos \in Nat \ {0}
          /\ cur.ts = feed[cur.src][cur.pos] /\ cur.pos <= pos[cur.src]
          /\ pos[cur.src] \in Nat /\ pos[cur.src] <= Len(feed[cur.src])
      BY DEF TypeOK, Genuine, Record, IsErr
    <3>2. Len(feed[cur.src]) \in Nat
      BY <3>1, FeedFacts DEF TypeOK
    <3>3. cur.pos \in 1..Len(feed[cur.src])
      BY <3>1, <3>2
    <3>4. QED
      BY <3>1, <3>3, FeedFacts DEF TypeOK
  <2>5. QED
    BY <2>2, <2>3, <2>4 DEF Ord, Time
<1>5. CASE ~\E r \in Flight : r.src = s
  <2>1. s \notin want /\ merge # "closed"
    BY DEF PoppedFirst
  <2>2. \A r \in heap : r \in Flight
    BY DEF Flight
  <2>3. cur \in Flight
    BY DEF Flight
  <2>4. fetcher[s] = "closed"
    BY <1>5, <2>1, <2>2, <2>3 DEF Represented
  <2>5. Took(s) = Len(feed[s])
    BY <1>5, <2>1, <2>4 DEF EndsTold, AllGiven
  <2>6. Took(s) \in Nat
    BY TookType
  <2>7. QED
    BY <2>5, <2>6
<1>6. QED
  BY <1>3, <1>4, <1>5

\* What was not taken stays behind what was.
LEMMA RestAfterStep ==
  ASSUME TypeOK, Represented, PoppedFirst, Holding, OneEach, NextUp, EndsTold, RestAfter,
         [Next]_vars
  PROVE  RestAfter'
<1> SUFFICES ASSUME Sound' PROVE RestAfter'
  BY DEF RestAfter
<1>1. Sound
  BY OverStays
<1>2. feed' = feed /\ \A a, b : Ord(a, b)' <=> Ord(a, b)
  <2>1. feed' = feed
    BY DEF Next, vars, FetcherStep, FetcherRead, FetcherFail, FetcherEOF, FetcherCancel,
       FetcherCancelErr, others, MergeStep, MergeRead, MergeSkip, MergePop, popOthers,
       MergeEnd, MergeCancel, TakerStep, Take, TakeClosed, Emit, Flush, FlushEnd,
       TakerCancel, takerOthers, Cancel, Terminated
  <2>2. QED
    BY <2>1, ReverseFixed DEF Ord
<1>3. CASE TookSame
  BY <1>1, <1>2, <1>3 DEF RestAfter, TookSame
<1>4. CASE Take /\ ~IsErr(cur) /\ TookOne
  <2>1. merge = "send" /\ ~CtxDone
    BY <1>1, <1>4 DEF Take, CtxDone, Sound
  <2>2. ASSUME NEW s \in Sources, NEW k \in 1..Len(feed[s]), k > Took(s)'
        PROVE  \A r \in Held' : Ord(r.ts, feed[s][k])
    <3>1. /\ Took(s) \in Nat /\ k \in Nat
          /\ s = cur.src => Took(s)' = Took(s) + 1
          /\ s # cur.src => Took(s)' = Took(s)
      BY <1>4, TookType DEF TookOne
    <3>2. k > Took(s) /\ (s = cur.src => k > Took(s) + 1)
      BY <2>2, <3>1
    <3>3. \A r \in Held : Ord(r.ts, feed[s][k])
      BY <1>1, <3>2 DEF RestAfter
    <3>4. Reverse => s \notin failed
      BY <1>1 DEF Sound
    <3>5. Ord(cur.ts, feed[s][k])
      BY <1>4, <2>1, <3>2, <3>4, CurBeforeLogs
    <3>6. QED
      BY <1>4, <3>3, <3>5 DEF TookOne
  <2>3. QED
    BY <1>2, <2>2 DEF RestAfter
<1>5. QED
  BY <1>3, <1>4, TookStep

\* The consumer stops at the limit or when there is nothing left.
LEMMA StopsRightStep ==
  ASSUME TypeOK, Represented, Holding, EndsTold, StopsRight, ErrTrue', [Next]_vars
  PROVE  StopsRight'
<1> SUFFICES ASSUME Sound' PROVE StopsRight'
  BY DEF StopsRight
<1>1. /\ Sound /\ (~IsErr(cur) \/ ~Take)
      /\ \A n : LimitReached(n)' <=> LimitReached(n)
  <2>1. Sound
    BY OverStays
  <2>2. Mode' = Mode
    BY DEF Mode, Next, vars, FetcherStep, FetcherRead, FetcherFail, FetcherEOF, FetcherCancel,
       FetcherCancelErr, others, MergeStep, MergeRead, MergeSkip, MergePop, popOthers,
       MergeEnd, MergeCancel, TakerStep, Take, TakeClosed, Emit, Flush, FlushEnd,
       TakerCancel, takerOthers, Cancel, Terminated
  <2>3. ~IsErr(cur) \/ ~Take
    BY DEF Take, ErrTrue, Sound
  <2>4. QED
    BY <2>1, <2>2, <2>3 DEF LimitReached
<1>2. ASSUME TookSame, UNCHANGED <<feed, buf, taker>>,
             (merge' = "closed" /\ taker' # "done") => merge = "closed" \/ AllTook
      PROVE  StopsRight'
  BY <1>1, <1>2 DEF StopsRight, AllTook, TookSame
<1>3. CASE \E s \in Sources : FetcherStep(s) \/ MergeRead(s) \/ MergeSkip(s)
  <2>1. UNCHANGED <<feed, buf, sent, taker, merge>>
    BY <1>3 DEF MergeRead, MergeSkip, FetcherStep, FetcherRead, FetcherFail, FetcherEOF,
       FetcherCancel, FetcherCancelErr, others
  <2>2. QED
    BY <1>2, <2>1 DEF TookSame, Took, TookPlaces, Total, Held
<1>4. CASE MergePop \/ MergeCancel \/ Cancel \/ UNCHANGED vars
  <2>1. /\ UNCHANGED <<feed, buf, sent, taker>>
        /\ (merge' = "closed" /\ taker' # "done") => merge = "closed"
    BY <1>1, <1>4 DEF MergePop, popOthers, MergeCancel, Cancel, vars, CtxDone, Sound
  <2>2. QED
    BY <1>2, <2>1 DEF TookSame, Took, TookPlaces, Total, Held
<1>5. CASE MergeEnd
  <2>1. UNCHANGED <<feed, buf, sent, taker>> /\ want = {} /\ heap = {} /\ merge = "read"
    BY <1>5 DEF MergeEnd
  <2>2. ASSUME taker # "done" PROVE AllTook
    <3>1. ~CtxDone /\ (Reverse => failed = {})
      BY <1>1, <2>2 DEF CtxDone, Sound
    <3>2. Flight = {}
      BY <2>1 DEF Flight
    <3>3. \A s \in Sources : fetcher[s] = "closed"
      BY <2>1 DEF Represented
    <3>4. QED
      BY <2>1, <3>1, <3>2, <3>3 DEF EndsTold, AllGiven, AllTook
  <2>3. QED
    BY <1>2, <2>1, <2>2 DEF TookSame, Took, TookPlaces, Total, Held
<1>6. CASE Take
  <2>1. /\ merge' = "read" /\ taker = "recv" /\ taker' \in {"send", "flush", "recv"}
        /\ taker' = "flush" => Reverse /\ LimitReached(Len(buf) + 1)
    BY <1>1, <1>6 DEF Take
  <2>2. TookOne
    BY <1>1, <1>6, TakeOne
  <2>3. ASSUME taker' = "flush" PROVE LimitReached(Total)'
    <3>1. Len(sent) = 0 /\ Len(buf) \in Nat
      BY <2>1, <2>3 DEF Holding, TypeOK
    <3>2. Total' = Len(buf) + 1
      BY <2>2, <3>1 DEF TookOne, Total
    <3>3. PICK n : n = Total'
      OBVIOUS
    <3>4. LimitReached(n)' /\ n = Total'
      BY <1>1, <2>1, <2>3, <3>2, <3>3
    <3>5. QED
      BY <3>4 DEF LimitReached
  <2>4. QED
    BY <2>1, <2>3 DEF StopsRight
<1>7. CASE TakeClosed
  <2>1. /\ UNCHANGED <<feed, buf, sent, merge>> /\ merge = "closed" /\ taker = "recv"
        /\ taker' = IF Reverse THEN "flush" ELSE "done"
    BY <1>7 DEF TakeClosed, takerOthers
  <2>2. AllTook /\ (~Reverse => buf = <<>>)
    <3>1. ~Reverse => Len(buf) = 0 /\ buf \in Seq(Record)
      BY <2>1 DEF Holding, TypeOK
    <3>2. QED
      BY <1>1, <2>1, <3>1 DEF StopsRight, Holding
  <2>3. AllTook'
    BY <2>1, <2>2 DEF AllTook, Took
  <2>4. QED
    BY <2>1, <2>2, <2>3 DEF StopsRight
<1>8. CASE Emit
  <2>1. /\ merge' = merge /\ feed' = feed /\ taker = "send" /\ buf' = <<>> /\ Len(buf) = 1
        /\ taker' = IF LimitReached(Len(sent) + 1) THEN "done" ELSE "recv"
        /\ Len(sent) \in Nat
    BY <1>8 DEF Emit, takerOthers, Holding, TypeOK
  <2>2. TookSame
    BY <1>8, TookStep DEF Emit, Take
  <2>3. Total' = Len(sent) + 1
    BY <2>1, <2>2 DEF TookSame, Total
  <2>4. ASSUME taker' = "done" PROVE LimitReached(Total)'
    <3>1. PICK n : n = Total'
      OBVIOUS
    <3>2. LimitReached(n)' /\ n = Total'
      BY <1>1, <2>1, <2>3, <2>4, <3>1
    <3>3. QED
      BY <3>2 DEF LimitReached
  <2>5. (merge' = "closed" /\ taker' # "done") => AllTook'
    BY <1>1, <2>1, <2>2 DEF StopsRight, AllTook, TookSame
  <2>6. QED
    BY <2>1, <2>4, <2>5 DEF StopsRight
<1>9. CASE Flush \/ FlushEnd
  <2>1. /\ merge' = merge /\ feed' = feed /\ taker = "flush" /\ taker' \in {"flush", "done"}
        /\ taker' = "done" => buf' = <<>>
    BY <1>9 DEF Flush, FlushEnd, takerOthers
  <2>2. TookSame
    BY <1>9, TookStep DEF Flush, FlushEnd, Take
  <2>3. AllTook => AllTook'
    BY <2>1, <2>2 DEF AllTook, TookSame
  <2>4. LimitReached(Total) => LimitReached(Total)'
    <3>1. PICK n : n = Total /\ n = Total'
      BY <2>2 DEF TookSame
    <3>2. LimitReached(n) => LimitReached(n)'
      BY <1>1
    <3>3. QED
      BY <3>1, <3>2 DEF LimitReached
  <2>5. QED
    BY <1>1, <2>1, <2>3, <2>4 DEF StopsRight
<1>10. CASE TakerCancel
  BY <1>1, <1>10 DEF TakerCancel, Sound
<1>11. QED
  BY <1>3, <1>4, <1>5, <1>6, <1>7, <1>8, <1>9, <1>10 DEF Next, MergeStep, TakerStep, Terminated

\* No more records are taken than the limit allows.
LEMMA LimitKeptStep ==
  ASSUME TypeOK, Holding, LimitKept, [Next]_vars
  PROVE  LimitKept'
<1>0. Total \in Nat /\ MaxNum \in Nat /\ Mode' = Mode
  <2>1. Total \in Nat
    BY DEF Total, TypeOK
  <2>2. QED
    BY <2>1, PastFetchAssumption
    DEF Mode, Next, vars, FetcherStep, FetcherRead, FetcherFail, FetcherEOF, FetcherCancel,
       FetcherCancelErr, others, MergeStep, MergeRead, MergeSkip, MergePop, popOthers,
       MergeEnd, MergeCancel, TakerStep, Take, TakeClosed, Emit, Flush, FlushEnd,
       TakerCancel, takerOthers, Cancel, Terminated
<1>1. ASSUME TookSame, taker' = "recv" => taker = "recv" PROVE LimitKept'
  BY <1>0, <1>1 DEF LimitKept, TookSame, LimitReached
<1>2. CASE Take /\ ~IsErr(cur) /\ TookOne
  <2>1. /\ taker = "recv" /\ Total' = Total + 1 /\ Len(buf) \in Nat
        /\ taker' = "recv" => Reverse /\ ~LimitReached(Len(buf) + 1)
    BY <1>2 DEF Take, TookOne, TypeOK
  <2>2. taker' = "recv" => Total = Len(buf)
    BY <2>1 DEF Holding, Total, TypeOK
  <2>3. QED
    BY <1>0, <2>1, <2>2 DEF LimitKept, LimitReached
<1>3. CASE Emit /\ TookSame
  <2>1. /\ Len(buf) = 1 /\ Len(sent) \in Nat
        /\ taker' = "recv" => ~LimitReached(Len(sent) + 1)
    BY <1>3 DEF Emit, Holding, TypeOK
  <2>2. Total' = Total /\ Total = Len(sent) + 1
    BY <1>3, <2>1 DEF TookSame, Total
  <2>3. QED
    BY <1>0, <2>1, <2>2 DEF LimitKept, LimitReached
<1>4. CASE TookSame /\ ~Emit
  <2>1. taker' = "recv" => taker = "recv"
    BY <1>4 DEF Next, vars, FetcherStep, FetcherRead, FetcherFail, FetcherEOF, FetcherCancel,
       FetcherCancelErr, others, MergeStep, MergeRead, MergeSkip, MergePop, popOthers,
       MergeEnd, MergeCancel, TakerStep, Take, TakeClosed, Flush, FlushEnd,
       TakerCancel, takerOthers, Cancel, Terminated
  <2>2. QED
    BY <1>1, <1>4, <2>1
<1>5. QED
  BY <1>2, <1>3, <1>4, TookStep

\* Nothing was taken yet.
LEMMA WindowInit == Init => WindowInv
<1> SUFFICES ASSUME Init PROVE WindowInv
  OBVIOUS
<1>1. IInv
  BY InvInit
<1>2. Flight = {}
  BY DEF Init, Flight
<1>3. /\ \A s \in Sources : Took(s) = 0 /\ TookPlaces(s) = {}
      /\ Total = 0 /\ Held = {}
  BY CountEmpty DEF Init, Took, TookPlaces, Total, Held
<1>4. OneEach
  BY <1>2 DEF Init, OneEach
<1>5. NextUp
  <2>1. \A s \in Sources : Given(s) = 0
    BY DEF Init, Given
  <2>2. \A s \in Sources : TookPlaces(s) = 1..Took(s)
    <3>1. 1..0 = {}
      OBVIOUS
    <3>2. QED
      BY <1>3, <3>1
  <2>3. \A s \in Sources : Given(s) = Took(s)
    BY <1>3, <2>1
  <2>4. QED
    BY <1>2, <2>2, <2>3 DEF NextUp
<1>6. EndsTold
  BY <1>2 DEF Init, EndsTold
<1>7. ErrTrue /\ RestAfter
  BY <1>3 DEF Init, ErrTrue, RestAfter
<1>8. StopsRight /\ LimitKept
  BY <1>3 DEF Init, StopsRight, LimitKept
<1>9. QED
  BY <1>1, <1>4, <1>5, <1>6, <1>7, <1>8 DEF WindowInv

\* Every step keeps the invariant.
LEMMA WindowStep == WindowInv /\ [Next]_vars => WindowInv'
<1> SUFFICES ASSUME WindowInv, [Next]_vars PROVE WindowInv'
  OBVIOUS
<1>1. IInv'
  BY InvStep DEF WindowInv
<1>2. OneEach' /\ NextUp' /\ EndsTold'
  BY OneEachStep, NextUpStep, EndsToldStep DEF WindowInv, IInv
<1>3. ErrTrue' /\ RestAfter'
  BY ErrTrueStep, RestAfterStep DEF WindowInv, IInv
<1>4. StopsRight' /\ LimitKept'
  BY <1>3, StopsRightStep, LimitKeptStep DEF WindowInv, IInv
<1>5. QED
  BY <1>1, <1>2, <1>3, <1>4 DEF WindowInv

\* What the invariant says when the consumer is done.
LEMMA WindowAtEnd ==
  ASSUME WindowInv, Sound, taker = "done"
  PROVE  Window
<1>1. buf = <<>> /\ (LimitReached(Total) \/ AllTook)
  BY DEF WindowInv, StopsRight
<1>2. sent \in Seq(Record) /\ Len(sent) \in Nat
  BY DEF WindowInv, IInv, TypeOK
<1>3. /\ \A s \in Sources : Took(s) = CountOf(s, sent) /\ TookPlaces(s) = Positions(s, sent)
      /\ Total = Len(sent)
      /\ \A i \in 1..Len(sent) : sent[i] \in Held
  <2>1. \A s \in Sources : CountOf(s, sent) \in Nat
    BY <1>2, CountAppend DEF WindowInv, IInv, TypeOK, Genuine
  <2>2. QED
    BY <1>1, <1>2, <2>1, CountEmpty DEF Took, TookPlaces, Total, Held
<1>4. \A s \in Sources : Positions(s, sent) = 1..CountOf(s, sent)
  BY <1>3 DEF WindowInv, NextUp
<1>5. ASSUME NEW s \in Sources, CountOf(s, sent) < Len(feed[s])
      PROVE  /\ LimitReached(Len(sent))
             /\ \A i \in 1..Len(sent) : Ord(sent[i].ts, feed[s][CountOf(s, sent) + 1])
  <2>1. Took(s) \in Nat /\ Len(feed[s]) \in Nat /\ Took(s) = CountOf(s, sent)
    BY <1>3, TookType, FeedFacts DEF WindowInv, IInv, TypeOK
  <2>2. LimitReached(Len(sent))
    BY <1>1, <1>3, <1>5, <2>1 DEF AllTook
  <2>3. PICK k \in 1..Len(feed[s]) : k = CountOf(s, sent) + 1 /\ k > Took(s)
    BY <1>5, <2>1
  <2>4. QED
    BY <1>3, <2>2, <2>3 DEF WindowInv, RestAfter
<1>6. Mode # "all" => Len(sent) <= MaxNum \/ Len(sent) <= 1
  BY <1>3 DEF WindowInv, LimitKept
<1>7. QED
  BY <1>4, <1>5, <1>6 DEF Window

\* Reading forward, a past phase that ends by itself without an error sent the
\* window of the complete logs.
THEOREM WindowCorrect == Spec => []WindowOrError
<1>1. WindowInv => WindowOrError
  BY WindowAtEnd DEF WindowOrError, Sound
<1>2. QED
  BY <1>1, WindowInit, WindowStep, PTL DEF Spec

\* In every mode, a past phase that ends by itself and whose reads all worked
\* sent the window, and reports no error.
THEOREM WindowComplete == Spec => []WindowUnlessFailed
<1>1. WindowInv => WindowUnlessFailed
  <2>1. ASSUME WindowInv, taker = "done", ~cancelled, failed = {} PROVE Window /\ ~err
    BY <2>1, WindowAtEnd DEF Sound, WindowInv, ErrTrue
  <2>2. QED
    BY <2>1 DEF WindowUnlessFailed
<1>2. QED
  BY <1>1, WindowInit, WindowStep, PTL DEF Spec

-----------------------------------------------------------------------------
(* The ordered merge.                                                      *)

\* Reversing and appending.
LEMMA RevType ==
  ASSUME NEW q \in Seq(Record)
  PROVE  /\ Rev(q) \in Seq(Record) /\ Len(Rev(q)) = Len(q)
         /\ \A i \in 1..Len(q) : Rev(q)[i] = q[Len(q) + 1 - i]
<1>1. Len(q) \in Nat /\ \A i \in 1..Len(q) : Len(q) + 1 - i \in 1..Len(q) /\ q[i] \in Record
  BY LenProperties
<1>2. Rev(q) \in [1..Len(q) -> Record]
  BY <1>1 DEF Rev
<1>3. Rev(q) \in Seq(Record) /\ Len(Rev(q)) = Len(q)
  BY <1>1, <1>2
<1>4. QED
  BY <1>3 DEF Rev

\* The last record becomes the first.
LEMMA RevAppend ==
  ASSUME NEW q \in Seq(Record), NEW r \in Record
  PROVE  Rev(Append(q, r)) = <<r>> \o Rev(q)
<1> PICK m \in Nat : m = Len(q)
  OBVIOUS
<1>1. /\ Append(q, r) \in Seq(Record) /\ Len(Append(q, r)) = m + 1
      /\ \A i \in 1..m : Append(q, r)[i] = q[i]
      /\ Append(q, r)[m + 1] = r
  BY AppendProperties
<1>2. /\ Rev(Append(q, r)) \in Seq(Record) /\ Len(Rev(Append(q, r))) = m + 1
      /\ \A i \in 1..(m + 1) : Rev(Append(q, r))[i] = Append(q, r)[m + 1 + 1 - i]
  <2>1. PICK x \in Seq(Record) : x = Append(q, r) /\ Len(x) = m + 1
    BY <1>1
  <2>2. /\ Rev(x) \in Seq(Record) /\ Len(Rev(x)) = m + 1
        /\ \A i \in 1..(m + 1) : Rev(x)[i] = x[m + 1 + 1 - i]
    <3>1. /\ Rev(x) \in Seq(Record) /\ Len(Rev(x)) = Len(x)
          /\ \A i \in 1..Len(x) : Rev(x)[i] = x[Len(x) + 1 - i]
      BY RevType
    <3>2. QED
      BY <2>1, <3>1, Zenon
  <2>3. QED
    BY <2>1, <2>2
<1>3. /\ Rev(q) \in Seq(Record) /\ Len(Rev(q)) = m
      /\ \A i \in 1..m : Rev(q)[i] = q[m + 1 - i]
  BY RevType
<1>4. <<r>> \in Seq(Record) /\ Len(<<r>>) = 1 /\ <<r>>[1] = r
  OBVIOUS
<1>5. /\ <<r>> \o Rev(q) \in Seq(Record) /\ Len(<<r>> \o Rev(q)) = m + 1
      /\ \A i \in 1..(1 + m) :
           (<<r>> \o Rev(q))[i] = IF i <= 1 THEN <<r>>[i] ELSE Rev(q)[i - 1]
  BY <1>3, <1>4, ConcatProperties
<1>6. ASSUME NEW i \in 1..(m + 1) PROVE Rev(Append(q, r))[i] = (<<r>> \o Rev(q))[i]
  <2>1. CASE i = 1
    <3>1. m + 1 + 1 - i = m + 1 /\ i \in 1..(1 + m)
      BY <2>1
    <3>2. QED
      BY <1>1, <1>2, <1>4, <1>5, <2>1, <3>1
  <2>2. CASE i # 1
    <3>1. /\ m + 1 + 1 - i \in 1..m /\ i - 1 \in 1..m /\ i \in 1..(1 + m) /\ ~(i <= 1)
          /\ m + 1 + 1 - i = m + 1 - (i - 1)
      BY <2>2
    <3>2. Rev(Append(q, r))[i] = q[m + 1 + 1 - i]
      BY <1>1, <1>2, <3>1
    <3>3. (<<r>> \o Rev(q))[i] = q[m + 1 - (i - 1)]
      BY <1>3, <1>5, <3>1
    <3>4. QED
      BY <3>1, <3>2, <3>3
  <2>3. QED
    BY <2>1, <2>2
<1>7. QED
  BY <1>2, <1>5, <1>6, SeqEqual

\* What moves from the end of a sequence to the end of a reversed one.
LEMMA RevMove ==
  ASSUME NEW b \in Seq(Record), NEW q \in Seq(Record), NEW r \in Record
  PROVE  Append(b, r) \o Rev(q) = b \o Rev(Append(q, r))
<1>1. Rev(q) \in Seq(Record) /\ <<r>> \in Seq(Record)
  BY RevType
<1>2. (b \o <<r>>) \o Rev(q) = b \o (<<r>> \o Rev(q))
  BY <1>1, ConcatAssociative
<1>3. QED
  BY <1>2, AppendIsConcat, RevAppend

\* Nothing to reverse.
LEMMA RevEmpty == Rev(<<>>) = <<>>
<1>1. <<>> \in Seq(Record) /\ Len(<<>>) = 0
  OBVIOUS
<1>2. Rev(<<>>) \in Seq(Record) /\ Len(Rev(<<>>)) = 0
  BY <1>1, RevType
<1>3. QED
  BY <1>2, EmptySeq

\* What the abstract merge has taken when the consumer waits for a record.
LEMMA TakenAtRecv ==
  ASSUME TypeOK, Holding, taker = "recv"
  PROVE  /\ taken \in Seq(Record) /\ Len(taken) = Total
         /\ \A s \in Sources : CountOf(s, taken) = Took(s)
         /\ taken = IF Reverse THEN buf ELSE sent
<1>1. buf \in Seq(Record) /\ sent \in Seq(Record)
  BY DEF TypeOK
<1>2. CASE Reverse
  <2>1. sent = <<>>
    BY <1>2 DEF Holding
  <2>2. Rev(sent) = <<>>
    BY <2>1, RevEmpty
  <2>3. taken = buf
    BY <1>1, <1>2, <2>2 DEF taken
  <2>4. \A s \in Sources : CountOf(s, buf) \in Nat /\ CountOf(s, sent) = 0
    BY <1>1, <2>1, CountEmpty, CountAppend DEF TypeOK, Genuine
  <2>5. QED
    BY <1>1, <1>2, <2>1, <2>3, <2>4 DEF Took, Total
<1>3. CASE ~Reverse
  <2>1. buf = <<>>
    BY <1>3 DEF Holding
  <2>2. taken = sent
    BY <1>1, <1>3, <2>1 DEF taken
  <2>3. \A s \in Sources : CountOf(s, sent) \in Nat /\ CountOf(s, buf) = 0
    BY <1>1, <2>1, CountEmpty, CountAppend DEF TypeOK, Genuine
  <2>4. QED
    BY <1>1, <1>3, <2>1, <2>2, <2>3 DEF Took, Total
<1>4. QED
  BY <1>2, <1>3

\* What the consumer takes is appended; what it passes on stays taken.
LEMMA TakenStep ==
  ASSUME TypeOK, Holding, [Next]_vars
  PROVE  \/ taken' = taken
         \/ Take /\ ~IsErr(cur) /\ taken' = Append(taken, cur)
<1>1. ASSUME UNCHANGED <<buf, sent>> PROVE taken' = taken
  BY <1>1, ReverseFixed DEF taken, Rev
<1>2. CASE Take
  <2>1. CASE IsErr(cur)
    BY <1>1, <1>2, <2>1 DEF Take
  <2>2. CASE ~IsErr(cur)
    <3>1. /\ buf' = Append(buf, cur) /\ sent' = sent /\ taker = "recv" /\ cur \in Record
          /\ buf \in Seq(Record) /\ sent \in Seq(Record)
      BY <1>2, <2>2 DEF Take, TypeOK, Genuine
    <3>2. taken = IF Reverse THEN buf ELSE sent
      BY <3>1, TakenAtRecv
    <3>3. CASE Reverse
      <4>1. sent = <<>>
        BY <3>1, <3>3 DEF Holding
      <4>2. Rev(sent)' = <<>>
        <5>1. Rev(sent)' = Rev(<<>>)
          BY <3>1, <4>1 DEF Rev
        <5>2. QED
          BY <5>1, RevEmpty
      <4>3. Append(buf, cur) \o <<>> = Append(buf, cur)
        BY <3>1, ConcatEmptySeq, AppendProperties
      <4>4. taken' = Append(buf, cur)
        BY <3>1, <3>3, <4>2, <4>3, ReverseFixed DEF taken
      <4>5. QED
        BY <1>2, <2>2, <3>2, <3>3, <4>4
    <3>4. CASE ~Reverse
      <4>1. buf = <<>>
        BY <3>1, <3>4 DEF Holding
      <4>2. taken' = sent \o <<cur>>
        BY <3>1, <3>4, <4>1, ReverseFixed DEF taken
      <4>3. QED
        BY <1>2, <2>2, <3>1, <3>2, <3>4, <4>2
    <3>5. QED
      BY <3>3, <3>4
  <2>3. QED
    BY <2>1, <2>2
<1>3. CASE Emit \/ Flush
  <2>1. PICK b \in Seq(Record), r \in Record :
          /\ buf = Append(b, r) /\ buf' = b /\ sent' = Append(sent, r)
          /\ Emit => b = <<>>
    BY <1>3, Moves
  <2>2. sent \in Seq(Record)
    BY DEF TypeOK
  <2>3. CASE Reverse
    <3>1. Append(b, r) \o Rev(sent) = b \o Rev(Append(sent, r))
      BY <2>2, RevMove
    <3>2. Rev(sent)' = Rev(Append(sent, r))
      BY <2>1 DEF Rev
    <3>3. QED
      BY <2>1, <2>3, <3>1, <3>2, ReverseFixed DEF taken
  <2>4. CASE ~Reverse
    <3>1. b = <<>>
      BY <1>3, <2>1, <2>4 DEF Flush, Holding
    <3>2. sent \o Append(b, r) = Append(sent, r) /\ Append(sent, r) \o <<>> = Append(sent, r)
      <4>1. Append(b, r) = <<r>>
        BY <3>1
      <4>2. Append(sent, r) = sent \o <<r>> /\ Append(sent, r) \in Seq(Record)
        BY <2>2, AppendIsConcat, AppendProperties
      <4>3. QED
        BY <4>1, <4>2, ConcatEmptySeq
    <3>3. QED
      BY <2>1, <2>4, <3>1, <3>2, ReverseFixed DEF taken
  <2>5. QED
    BY <2>3, <2>4
<1>4. CASE \/ (\E s \in Sources : FetcherStep(s)) \/ MergeStep \/ TakeClosed \/ FlushEnd
           \/ TakerCancel \/ Cancel \/ UNCHANGED vars
  BY <1>1, <1>4 DEF FetcherStep, FetcherRead, FetcherFail, FetcherEOF,
       FetcherCancel, FetcherCancelErr, others, MergeStep, MergeRead, MergeSkip,
       MergePop, popOthers, MergeEnd, MergeCancel, Cancel, vars, TakeClosed, FlushEnd, TakerCancel
<1>5. QED
  BY <1>2, <1>3, <1>4 DEF Next, TakerStep, Terminated

\* The initial states of the past phase are initial states of the merge.
LEMMA MergeInit == Init => Merge!Init
<1> SUFFICES ASSUME Init PROVE Merge!Init
  OBVIOUS
<1>1. TypeOK /\ Holding
  BY InvInit DEF IInv
<1>2. taken = <<>>
  BY <1>1, TakenAtRecv DEF Init
<1>3. Mode \in DOMAIN Feeds /\ feed \in Feeds[Mode]
  BY PastFetchAssumption DEF Init, Mode
<1>4. (IF cancelled THEN Sources ELSE failed) = {}
  BY DEF Init
<1>5. QED
  BY <1>2, <1>3, <1>4 DEF Merge!Init

\* A record that the consumer takes is one the abstract merge may take.
LEMMA MergeTake ==
  ASSUME WindowInv, [Next]_vars, Take, ~IsErr(cur), taken' = Append(taken, cur)
  PROVE  Merge!Take(cur.src)
<1>1. /\ taker = "recv" /\ merge = "send" /\ TypeOK /\ Holding
      /\ UNCHANGED <<options, feed, failed, cancelled>> /\ cur \in Flight
  BY FlightTake DEF Take, WindowInv, IInv
<1>2. /\ taken \in Seq(Record) /\ Len(taken) = Total /\ Total \in Nat
      /\ \A s \in Sources : Merge!Count(s) = Took(s)
  <2>1. /\ taken \in Seq(Record) /\ Len(taken) = Total
        /\ \A s \in Sources : CountOf(s, taken) = Took(s)
    BY <1>1, TakenAtRecv
  <2>2. \A s \in Sources : Merge!Count(s) = CountOf(s, taken)
    BY DEF Merge!Count, CountOf, Merge!Cardinality, Cardinality
  <2>3. Total \in Nat
    BY <1>1 DEF Total, TypeOK
  <2>4. QED
    BY <2>1, <2>2, <2>3
<1>3. ~Merge!LimitUsed
  <2>1. Total = 0 \/ ~LimitReached(Total)
    BY <1>1 DEF WindowInv, LimitKept
  <2>2. QED
    BY <1>2, <2>1 DEF Merge!LimitUsed, LimitReached
<1>4. /\ cur.src \in Sources /\ cur.pos = Took(cur.src) + 1 /\ cur.ts = feed[cur.src][cur.pos]
      /\ cur.pos <= pos[cur.src] /\ pos[cur.src] <= Len(feed[cur.src])
      /\ cur.pos \in Nat /\ pos[cur.src] \in Nat /\ cur \in Record
      /\ Took(cur.src) \in Nat /\ Len(feed[cur.src]) \in Nat
  <2>1. cur.src \in Sources /\ cur \in Genuine
    BY <1>1 DEF TypeOK, Genuine, Record
  <2>2. QED
    BY <1>1, <2>1, TookType, FeedFacts DEF WindowInv, NextUp, TypeOK, Genuine, Record
<1>5. Merge!Left(cur.src)
  BY <1>2, <1>4 DEF Merge!Left
<1>6. ASSUME NEW t \in Sources \ (IF cancelled THEN Sources ELSE failed), Merge!Left(t)
      PROVE  Merge!Before(Merge!NextOf(cur.src), Merge!NextOf(t))
  <2>1. ~CtxDone /\ t \in Sources /\ t \notin failed
    BY <1>1, <1>6 DEF CtxDone
  <2>2. Took(t) \in Nat /\ Len(feed[t]) \in Nat /\ Took(t) < Len(feed[t])
    BY <1>1, <1>2, <1>6, TookType, FeedFacts DEF Merge!Left, TypeOK
  <2>3. PICK k \in 1..Len(feed[t]) : k = Took(t) + 1
    BY <2>2
  <2>4. Ord(cur.ts, feed[t][k])
    <3>1. CASE t = cur.src
      <4>1. cur.ts = feed[t][k] /\ cur.ts \in Nat
        BY <1>4, <2>3, <3>1 DEF Record
      <4>2. QED
        BY <4>1 DEF Ord
    <3>2. CASE t # cur.src
      BY <1>1, <2>1, <2>2, <2>3, <3>2, CurBeforeLogs DEF WindowInv, IInv
    <3>3. QED
      BY <3>1, <3>2
  <2>5. Merge!NextOf(t) = feed[t][k] /\ Merge!NextOf(cur.src) = cur.ts
    BY <1>2, <1>4, <2>1, <2>3 DEF Merge!NextOf
  <2>6. QED
    BY <2>4, <2>5 DEF Merge!Before, Ord, Reverse, Mode
<1>7. cur = [src |-> cur.src, pos |-> Merge!Count(cur.src) + 1, ts |-> Merge!NextOf(cur.src)]
  <2>1. Merge!Count(cur.src) + 1 = cur.pos /\ Merge!NextOf(cur.src) = cur.ts
    BY <1>2, <1>4 DEF Merge!NextOf
  <2>2. cur = [src |-> cur.src, pos |-> cur.pos, ts |-> cur.ts]
    BY <1>4 DEF Record
  <2>3. QED
    BY <2>1, <2>2
<1>8. UNCHANGED <<Mode, feed, IF cancelled THEN Sources ELSE failed>>
  BY <1>1 DEF Mode
<1>9. QED
  BY <1>3, <1>5, <1>6, <1>7, <1>8 DEF Merge!Take

\* Every step of the past phase is a step of the merge, or none.
LEMMA MergeSimulated == WindowInv /\ [Next]_vars => [Merge!Next]_(Merge!vars)
<1> SUFFICES ASSUME WindowInv, [Next]_vars PROVE [Merge!Next]_(Merge!vars)
  OBVIOUS
<1>1. TypeOK /\ Holding
  BY DEF WindowInv, IInv
<1>2. CASE Take /\ ~IsErr(cur) /\ taken' = Append(taken, cur)
  <2>1. cur.src \in Sources
    BY <1>1 DEF TypeOK, Genuine, Record
  <2>2. QED
    BY <1>2, <2>1, MergeTake DEF Merge!Next
<1>3. CASE taken' = taken
  <2> DEFINE G  == IF cancelled THEN Sources ELSE failed
  <2>1. UNCHANGED <<Mode, feed>> /\ (cancelled => cancelled') /\ failed \subseteq failed'
    BY <1>1 DEF Mode, Next, vars, FetcherStep, FetcherRead, FetcherFail, FetcherEOF,
       FetcherCancel, FetcherCancelErr, others, MergeStep, MergeRead, MergeSkip, MergePop,
       popOthers, MergeEnd, MergeCancel, TakerStep, Take, TakeClosed, Emit, Flush, FlushEnd,
       TakerCancel, takerOthers, Cancel, Terminated, TypeOK
  <2>2. failed \subseteq Sources /\ failed' \subseteq Sources
    BY <1>1, TypeStep DEF TypeOK
  <2>3. PICK F \in SUBSET Sources : F = G'
    BY <2>2
  <2>4. G' = G \cup F
    BY <2>1, <2>2, <2>3
  <2>5. Merge!GiveUp(F)
    BY <1>3, <2>1, <2>4 DEF Merge!GiveUp
  <2>6. QED
    BY <2>5 DEF Merge!Next
<1>4. QED
  BY <1>1, <1>2, <1>3, TakenStep

\* The past phase, with its goroutines, channels and heap, implements the
\* ordered merge.
THEOREM ImplementsMerge == Spec => MergeSpec
<1>1. Spec => Merge!Init
  BY MergeInit DEF Spec
<1>2. Spec => []WindowInv
  BY WindowInit, WindowStep, PTL DEF Spec
<1>3. Spec => [][Merge!Next]_(Merge!vars)
  BY <1>2, MergeSimulated, PTL DEF Spec
<1>4. QED
  BY <1>1, <1>3 DEF MergeSpec, Merge!Spec

-----------------------------------------------------------------------------
(* Sequences.                                                              *)

LEMMA EmptyIsSeq == ASSUME NEW S PROVE <<>> \in Seq(S)
OBVIOUS

LEMMA Lengths ==
  ASSUME NEW S, NEW s \in Seq(S)
  PROVE  Len(s) \in Nat /\ (s = <<>> <=> Len(s) = 0) /\ \A i \in 1..Len(s) : s[i] \in S
OBVIOUS

LEMMA TailSeq ==
  ASSUME NEW S, NEW b \in Seq(S), b # <<>>
  PROVE  /\ Head(b) = b[1] /\ Head(b) \in S /\ Tail(b) \in Seq(S)
         /\ Len(Tail(b)) = Len(b) - 1
         /\ \A i \in 1..Len(Tail(b)) : Tail(b)[i] = b[i + 1]
OBVIOUS

LEMMA AppendSeq ==
  ASSUME NEW S, NEW s \in Seq(S), NEW x \in S
  PROVE  /\ Append(s, x) \in Seq(S)
         /\ Len(Append(s, x)) = Len(s) + 1
         /\ Append(s, x)[Len(s) + 1] = x
         /\ \A i \in 1..Len(s) : Append(s, x)[i] = s[i]
OBVIOUS

LEMMA DownSeq ==
  ASSUME NEW S, NEW n \in Nat, NEW b, b \in [1..n -> S]
  PROVE  b \in Seq(S) /\ Len(b) = n /\ (b = <<>> <=> n = 0)
OBVIOUS

-----------------------------------------------------------------------------
(* Type correctness.                                                       *)

Times == {TimeOf(p) : p \in 1..MaxLast}

LEMMA TimesType == /\ Times \subseteq Nat \ {0}
                   /\ \A p \in 1..MaxLast : TimeOf(p) \in Times
BY KubeBackwardAssumption DEF Times

LEMMA CappedType ==
  ASSUME NEW n \in Nat \ {0} PROVE Capped(n) \in 1..MaxTail
BY KubeBackwardAssumption DEF Capped, Smaller

\* The sizes are not zero once the loop runs, and a batch starts after the
\* rotated lines.
Sizes ==
  /\ pc \in {"fetch", "read", "send"} => batchSize > 0 /\ tailLines > 0
  /\ pc = "read" => to <= last

LEMMA InitType == ASSUME BackwardInit PROVE BackwardTypeOK /\ Sizes
<1>1. <<>> \in Seq(1..MaxLast)
  BY EmptyIsSeq
<1>2. /\ first \in 1..(MaxLast + 1) /\ from \in 1..(MaxLast + 1) /\ to \in 0..MaxLast
      /\ {batchSize, tailLines} \subseteq 0..MaxTail
  BY KubeBackwardAssumption DEF BackwardInit
<1>3. {firstTS, lastBatchStart} \subseteq {NoTime} \cup {TimeOf(p) : p \in 1..MaxLast}
  BY DEF BackwardInit
<1> QED
  BY <1>1, <1>2, <1>3 DEF BackwardInit, BackwardTypeOK, Sizes

LEMMA BackwardTypeStep == ASSUME BackwardTypeOK, Sizes, [BackwardNext]_backwardVars PROVE BackwardTypeOK' /\ Sizes'
<1> USE KubeBackwardAssumption
<1>1. CASE Open
  <2>1. CASE first > last
    BY <1>1, <2>1 DEF Open, BackwardTypeOK, Sizes, logVars, sizeVars, batchVars
  <2>2. CASE ~(first > last)
    <3>1. first \in 1..MaxLast
      BY <2>2 DEF BackwardTypeOK
    <3>2. batchSize' \in 1..MaxTail /\ tailLines' \in 1..MaxTail
      <4>1. Larger(BatchSizeHint, MinBatch) \in Nat \ {0}
        BY DEF Larger
      <4> QED
        BY <1>1, <2>2, <4>1, CappedType DEF Open
    <3>3. /\ pc' = "fetch" /\ firstTS' = TimeOf(first)
          /\ UNCHANGED <<logVars, batchVars, failure, ctxDone>>
      BY <1>1, <2>2 DEF Open
    <3> QED
      BY <3>1, <3>2, <3>3 DEF BackwardTypeOK, Sizes, logVars, batchVars
  <2> QED
    BY <2>1, <2>2
<1>2. CASE Fetch
  BY <1>2 DEF Fetch, BackwardTypeOK, Sizes, Larger, logVars, sizeVars
<1>3. CASE FetchFail \/ ReadFail \/ BatchEnd \/ CtxEnd
  <2>1. tailLines' \in 0..MaxTail /\ (pc' # "done" => tailLines' > 0)
    <3>1. CASE BatchEnd
      <4>1. tailLines + batchSize \in Nat \ {0}
        BY <3>1 DEF BatchEnd, BackwardTypeOK, Sizes
      <4> QED
        BY <3>1, <4>1, CappedType DEF BatchEnd, BackwardTypeOK
    <3> QED
      BY <1>3, <3>1 DEF FetchFail, ReadFail, CtxEnd, BackwardTypeOK, sizeVars
  <2> QED
    BY <1>3, <2>1 DEF FetchFail, ReadFail, BatchEnd, CtxEnd, BackwardTypeOK, Sizes, logVars, sizeVars,
                      batchVars
<1>4. CASE ReadBatch
  <2>1. CASE from > to
    BY <1>4, <2>1 DEF ReadBatch, BackwardTypeOK, Sizes, logVars, sizeVars
  <2>2. CASE ~(from > to) /\ RanAhead
    <3>1. 2 * batchSize \in Nat \ {0} /\ tailLines + 2 * batchSize \in Nat \ {0}
      BY <1>4, SMTT(20) DEF ReadBatch, BackwardTypeOK, Sizes
    <3>2. batchSize' \in 1..MaxTail /\ tailLines' \in 1..MaxTail
      BY <1>4, <2>2, <3>1, CappedType DEF ReadBatch
    <3> QED
      BY <1>4, <2>2, <3>2, SMTT(20) DEF ReadBatch, BackwardTypeOK, Sizes, logVars
  <2>3. CASE ~(from > to) /\ ~RanAhead
    <3>1. PICK p \in from..(to + 1) : batch' = [i \in 1..(p - from) |-> p - i]
      BY <1>4, <2>3 DEF ReadBatch
    <3>2. batch' \in [1..(p - from) -> 1..MaxLast] /\ p - from \in Nat
      BY <2>3, <3>1 DEF BackwardTypeOK
    <3>3. batch' \in Seq(1..MaxLast)
      BY <3>2, DownSeq
    <3>4. lastBatchStart' = TimeOf(from) /\ from \in 1..MaxLast /\ pc' = "send"
      BY <1>4, <2>3 DEF ReadBatch, BackwardTypeOK
    <3> QED
      BY <1>4, <2>3, <3>3, <3>4 DEF ReadBatch, BackwardTypeOK, Sizes, logVars, sizeVars
  <2> QED
    BY <2>1, <2>2, <2>3
<1>5. CASE Send
  BY <1>5, TailSeq, AppendSeq DEF Send, BackwardTypeOK, Sizes, logVars, sizeVars
<1>6. CASE Write
  BY <1>6, SMTT(20) DEF Write, BackwardTypeOK, Sizes, sizeVars, batchVars
<1>7. CASE Rotate
  BY <1>7 DEF Rotate, BackwardTypeOK, Sizes, sizeVars, batchVars
<1>8. CASE EndContext
  BY <1>8 DEF EndContext, BackwardTypeOK, Sizes, logVars, sizeVars, batchVars
<1>9. CASE UNCHANGED backwardVars
  BY <1>9 DEF backwardVars, BackwardTypeOK, Sizes, logVars, sizeVars, batchVars
<1> QED
  BY <1>1, <1>2, <1>3, <1>4, <1>5, <1>6, <1>7, <1>8, <1>9 DEF BackwardNext, Loop, BackwardDone

\* Every reachable state has its type: the lines a batch is computed from are
\* lines that the log has, or had.
THEOREM BackwardTypeCorrect == BackwardSpec => []BackwardTypeOK
<1>1. BackwardSpec => [](BackwardTypeOK /\ Sizes)
  BY InitType, BackwardTypeStep, PTL DEF BackwardSpec
<1> QED
  BY <1>1, PTL

-----------------------------------------------------------------------------
(* The beginning of the log.                                               *)

\* The last record sent, or still to send, begins the last batch.
BatchInv ==
  /\ pc \in {"open", "fetch", "read"} => batch = <<>>
  /\ lastBatchStart = NoTime => out = <<>> /\ batch = <<>> /\ pc # "send"
  /\ lastBatchStart # NoTime /\ batch # <<>> => TimeOf(batch[Len(batch)]) = lastBatchStart
  /\ lastBatchStart # NoTime /\ batch = <<>> =>
       out # <<>> /\ TimeOf(out[Len(out)]) = lastBatchStart

\* The first timestamp is that of a record which the log held, and nothing the
\* log holds or the loop has read is older.
FirstInv ==
  /\ pc = "open" => firstTS = NoTime /\ lastBatchStart = NoTime /\ failure = "none"
  /\ pc \in {"fetch", "read", "send"} => firstTS # NoTime
  /\ firstTS # NoTime => \E p \in 1..last : TimeOf(p) = firstTS
  /\ \A p \in first..MaxLast : TimeOf(p) >= firstTS
  /\ pc = "read" => /\ \A p \in from..MaxLast : TimeOf(p) >= firstTS
                    /\ from > to => \A p \in 1..to : p < first
  /\ pc = "read" => \E p \in 1..to : TimeOf(p) = firstTS
  /\ lastBatchStart # NoTime => lastBatchStart >= firstTS

BackwardInv == BackwardTypeOK /\ Sizes /\ BatchInv /\ FirstInv /\ ReachesBeginning

LEMMA IInit == ASSUME BackwardInit PROVE BackwardInv
<1>1. BackwardTypeOK /\ Sizes
  BY InitType
<1>2. \A p \in first..MaxLast : TimeOf(p) >= NoTime
  BY KubeBackwardAssumption DEF BackwardInit, NoTime
<1> QED
  BY <1>1, <1>2 DEF BackwardInv, BackwardInit, BatchInv, FirstInv, ReachesBeginning, NoTime

LEMMA BatchStep ==
  ASSUME BackwardTypeOK, Sizes, BatchInv, FirstInv, [BackwardNext]_backwardVars PROVE BatchInv'
<1>1. CASE Send
  <2>1. /\ Head(batch) = batch[1] /\ Tail(batch) \in Seq(1..MaxLast)
        /\ Len(Tail(batch)) = Len(batch) - 1
        /\ \A i \in 1..Len(Tail(batch)) : Tail(batch)[i] = batch[i + 1]
        /\ Head(batch) \in 1..MaxLast
    BY <1>1, TailSeq DEF Send, BackwardTypeOK
  <2>2. out' = Append(out, Head(batch)) /\ batch' = Tail(batch)
        /\ UNCHANGED <<pc, lastBatchStart>> /\ pc = "send" /\ batch # <<>>
    BY <1>1 DEF Send
  <2>3. Len(out') = Len(out) + 1 /\ out'[Len(out) + 1] = Head(batch) /\ out' \in Seq(1..MaxLast)
    BY <2>1, <2>2, AppendSeq DEF BackwardTypeOK
  <2>4. Len(batch) \in Nat \ {0} /\ Len(out) \in Nat
        /\ (batch' = <<>> <=> Len(batch') = 0) /\ (out' = <<>> <=> Len(out') = 0)
    BY <2>1, <2>2, <2>3, Lengths, SMTT(20) DEF BackwardTypeOK
  <2>5. CASE batch' = <<>>
    BY <2>1, <2>2, <2>3, <2>4, <2>5 DEF BatchInv
  <2>6. CASE batch' # <<>>
    <3>1. batch'[Len(batch')] = batch[Len(batch)]
      BY <2>1, <2>2, <2>4, <2>6
    <3> QED
      BY <2>2, <2>6, <3>1 DEF BatchInv
  <2> QED
    BY <2>5, <2>6
<1>2. CASE ReadBatch
  <2>1. CASE from > to \/ RanAhead
    BY <1>2, <2>1 DEF ReadBatch, BatchInv
  <2>2. CASE ~(from > to) /\ ~RanAhead
    <3> HIDE DEF RanAhead
    <3>0. \E p \in from..(to + 1) : IsStop(p) /\ batch' = [i \in 1..(p - from) |-> p - i]
      BY <1>2, <2>2, Zenon DEF ReadBatch
    <3>1. PICK p \in from..(to + 1) :
            IsStop(p) /\ batch' = [i \in 1..(p - from) |-> p - i]
      BY <3>0
    <3>2. lastBatchStart' = TimeOf(from) /\ pc' = "send" /\ from \in 1..MaxLast
      <4>1. lastBatchStart' = TimeOf(from) /\ pc' = "send"
        BY <1>2, <2>2, Zenon DEF ReadBatch
      <4>2. from \in 1..MaxLast
        BY <2>2, KubeBackwardAssumption DEF BackwardTypeOK
      <4> QED
        BY <4>1, <4>2
    <3>3. p # from
      BY <2>2, <3>1, KubeBackwardAssumption, SMTT(20) DEF IsStop, RanAhead, BackwardTypeOK
    <3>4. batch' \in Seq(1..MaxLast) /\ Len(batch') = p - from /\ batch' # <<>>
      <4>0. from \in Nat /\ to \in 0..MaxLast /\ p \in (from + 1)..(to + 1)
        BY <2>2, <3>1, <3>3 DEF BackwardTypeOK
      <4>1. batch' \in [1..(p - from) -> 1..MaxLast] /\ p - from \in Nat \ {0}
        <5>1. p - from \in Nat \ {0}
          BY <4>0
        <5>2. \A i \in 1..(p - from) : p - i \in 1..MaxLast
          BY <3>2, <4>0, KubeBackwardAssumption
        <5> QED
          BY <3>1, <5>1, <5>2
      <4> QED
        BY <4>1, DownSeq
    <3>5. batch'[Len(batch')] = from
      BY <2>2, <3>1, <3>3, <3>4 DEF BackwardTypeOK
    <3>6. TimeOf(from) # NoTime
      BY <3>2, KubeBackwardAssumption DEF NoTime
    <3> QED
      BY <3>2, <3>4, <3>5, <3>6 DEF BatchInv
  <2> QED
    BY <1>2, <2>1, <2>2 DEF ReadBatch
<1>3. CASE Open \/ Fetch \/ FetchFail \/ ReadFail \/ BatchEnd \/ CtxEnd
  BY <1>3 DEF Open, Fetch, FetchFail, ReadFail, BatchEnd, CtxEnd, BatchInv, batchVars
<1>4. CASE Write \/ Rotate \/ EndContext \/ UNCHANGED backwardVars
  BY <1>4 DEF Write, Rotate, EndContext, backwardVars, BatchInv, batchVars
<1> QED
  BY <1>1, <1>2, <1>3, <1>4 DEF BackwardNext, Loop, BackwardDone

LEMMA FirstStep ==
  ASSUME BackwardTypeOK, Sizes, BatchInv, FirstInv, [BackwardNext]_backwardVars PROVE FirstInv'
<1> USE KubeBackwardAssumption DEF FirstInv
<1>1. CASE Open
  <2>1. CASE first > last
    BY <1>1, <2>1 DEF Open, logVars, batchVars
  <2>2. CASE ~(first > last)
    <3>1. first \in 1..MaxLast /\ first \in 1..last
      BY <2>2 DEF BackwardTypeOK
    <3>2. \A p \in first..MaxLast : TimeOf(p) >= TimeOf(first)
      BY <3>1
    <3>3. /\ pc' = "fetch" /\ firstTS' = TimeOf(first) /\ lastBatchStart' = NoTime
          /\ UNCHANGED <<first, last>>
      BY <1>1, <2>2 DEF Open, logVars, batchVars
    <3> QED
      BY <3>1, <3>2, <3>3 DEF NoTime
  <2> QED
    BY <2>1, <2>2
<1>2. CASE Fetch
  <2>1. from' = Larger(first, last + 1 - tailLines) /\ to' = last /\ pc' = "read"
        /\ UNCHANGED <<first, last, firstTS, lastBatchStart, failure>>
    BY <1>2 DEF Fetch, logVars
  <2>2. from' >= first /\ from' \in Int
    BY <2>1, SMTT(20) DEF Larger, BackwardTypeOK
  <2>3. \A p \in from'..MaxLast : p \in first..MaxLast
    BY <2>2 DEF BackwardTypeOK
  <2>4. from' > to' => first > last
    BY <1>2, <2>1, SMTT(20) DEF Larger, BackwardTypeOK, Sizes, Fetch
  <2>5. firstTS # NoTime
    BY <1>2 DEF Fetch
  <2>6. \A p \in 1..last : from' > to' => p < first
    BY <2>4 DEF BackwardTypeOK
  <2> QED
    BY <2>1, <2>3, <2>5, <2>6
<1>3. CASE ReadBatch
  <2>1. /\ UNCHANGED <<first, last, firstTS, from, to, failure>>
        /\ pc = "read" /\ pc' \in {"done", "fetch", "send"}
    BY <1>3 DEF ReadBatch, logVars
  <2>2. lastBatchStart' = lastBatchStart \/ (lastBatchStart' = TimeOf(from) /\ from \in from..MaxLast)
    BY <1>3, SMTT(20) DEF ReadBatch, BackwardTypeOK
  <2> QED
    BY <2>1, <2>2
<1>4. CASE Send \/ FetchFail \/ ReadFail \/ BatchEnd \/ CtxEnd
  BY <1>4 DEF Send, FetchFail, ReadFail, BatchEnd, CtxEnd, logVars, batchVars
<1>5. CASE Write
  <2>1. \A p \in 1..last : p \in 1..last'
    BY <1>5 DEF Write, BackwardTypeOK
  <2> QED
    BY <1>5, <2>1 DEF Write, batchVars
<1>6. CASE Rotate
  <2>1. first' > first /\ first' \in Int
    BY <1>6 DEF Rotate, BackwardTypeOK
  <2>2. (\A p \in first'..MaxLast : p \in first..MaxLast) /\ \A p \in Int : p < first => p < first'
    BY <2>1, SMTT(20) DEF BackwardTypeOK
  <2>3. UNCHANGED <<last, pc, firstTS, batchVars, failure>>
    BY <1>6 DEF Rotate
  <2> QED
    BY <2>2, <2>3 DEF batchVars
<1>7. CASE EndContext \/ UNCHANGED backwardVars
  BY <1>7 DEF EndContext, backwardVars, logVars, batchVars
<1> QED
  BY <1>1, <1>2, <1>3, <1>4, <1>5, <1>6, <1>7 DEF BackwardNext, Loop, BackwardDone

LEMMA ReachStep == ASSUME BackwardInv, [BackwardNext]_backwardVars PROVE ReachesBeginning'
<1> USE KubeBackwardAssumption
<1>1. CASE pc = "done"
  <2>1. /\ UNCHANGED <<pc, firstTS, out, failure>> /\ (ctxDone => ctxDone')
        /\ first' >= first /\ first' \in Int
    BY <1>1, SMTT(20) DEF BackwardNext, Loop, Open, Fetch, FetchFail, ReadFail, ReadBatch, Send, BatchEnd, CtxEnd,
       BackwardDone, Write, Rotate, EndContext, backwardVars, logVars, batchVars, BackwardInv, BackwardTypeOK
  <2>2. \A p \in 1..(first - 1) : p \in 1..(first' - 1)
    BY <2>1 DEF BackwardInv, BackwardTypeOK
  <2>3. Rotated => Rotated'
    BY <2>1, <2>2 DEF Rotated
  <2> QED
    BY <2>1, <2>3 DEF BackwardInv, ReachesBeginning
<1>2. CASE Open
  BY <1>2 DEF Open, BackwardInv, FirstInv, BatchInv, ReachesBeginning, batchVars
<1>3. CASE ReadBatch
  <2>1. CASE from > to
    <3>1. PICK p \in 1..to : TimeOf(p) = firstTS
      BY <1>3 DEF ReadBatch, BackwardInv, FirstInv
    <3>2. p \in 1..(first - 1)
      BY <1>3, <2>1, <3>1 DEF ReadBatch, BackwardInv, FirstInv, BackwardTypeOK
    <3>3. Rotated'
      BY <1>3, <3>1, <3>2 DEF ReadBatch, Rotated, logVars
    <3> QED
      BY <3>3 DEF ReachesBeginning
  <2>2. CASE ~(from > to)
    BY <1>3, <2>2 DEF ReadBatch, ReachesBeginning
  <2> QED
    BY <2>1, <2>2
<1>4. CASE BatchEnd
  <2>1. CASE lastBatchStart <= firstTS
    <3>1. lastBatchStart # NoTime /\ batch = <<>> /\ lastBatchStart >= firstTS
      BY <1>4 DEF BatchEnd, BackwardInv, FirstInv, BatchInv
    <3>2. lastBatchStart \in Nat /\ firstTS \in Nat
      <4>1. {firstTS, lastBatchStart} \subseteq {NoTime} \cup Times
        BY DEF BackwardInv, BackwardTypeOK, Times
      <4>2. firstTS \in {NoTime} \cup Times /\ lastBatchStart \in {NoTime} \cup Times
        BY <4>1
      <4>3. Times \subseteq Nat
        BY TimesType
      <4> QED
        BY <4>2, <4>3 DEF NoTime
    <3>3. lastBatchStart = firstTS
      BY <2>1, <3>1, <3>2
    <3> QED
      BY <1>4, <3>1, <3>3 DEF BatchEnd, BackwardInv, BatchInv, ReachesBeginning, batchVars
  <2>2. CASE ~(lastBatchStart <= firstTS)
    BY <1>4, <2>2 DEF BatchEnd, ReachesBeginning
  <2> QED
    BY <2>1, <2>2
<1>5. CASE pc # "done" /\ (FetchFail \/ ReadFail \/ CtxEnd \/ Fetch \/ Send)
  BY <1>5 DEF FetchFail, ReadFail, CtxEnd, Fetch, Send, ReachesBeginning
<1>6. CASE pc # "done" /\ (Write \/ Rotate \/ EndContext \/ UNCHANGED backwardVars)
  BY <1>6 DEF Write, Rotate, EndContext, backwardVars, ReachesBeginning
<1> QED
  BY <1>1, <1>2, <1>3, <1>4, <1>5, <1>6 DEF BackwardNext, Loop, BackwardDone

LEMMA Invariance == BackwardSpec => []BackwardInv
<1>1. BackwardInit => BackwardInv
  BY IInit
<1>2. BackwardInv /\ [BackwardNext]_backwardVars => BackwardInv'
  BY BackwardTypeStep, BatchStep, FirstStep, ReachStep DEF BackwardInv
<1> QED
  BY <1>1, <1>2, PTL DEF BackwardSpec

\* A loop that ends by itself does so at the beginning that the log had when it
\* was opened, whatever the container wrote and however the sizes of the
\* batches fell, unless that beginning was rotated away.
THEOREM BeginningReached == BackwardSpec => []ReachesBeginning
<1>1. BackwardInv => ReachesBeginning
  BY DEF BackwardInv
<1> QED
  BY <1>1, Invariance, PTL

-----------------------------------------------------------------------------
(* No record is left out or sent twice.                                    *)

DistinctTimes == \A p, q \in 1..MaxLast : p < q => TimeOf(p) < TimeOf(q)

\* What was sent and what is to be sent go down record by record, and the log,
\* when it is read, reaches up to what was sent last.
ContInv ==
  /\ Contiguous
  /\ \A i \in 1..(Len(batch) - 1) : batch[i + 1] = batch[i] - 1
  /\ \A i \in 1..Len(batch) : batch[i] <= last
  /\ batch # <<>> /\ out # <<>> => batch[1] = out[Len(out)] - 1
  /\ out # <<>> => out[Len(out)] <= last /\ (pc = "read" => out[Len(out)] <= to)

LEMMA ContSend == ASSUME BackwardTypeOK, ContInv, Send PROVE ContInv'
<1>1. /\ Head(batch) = batch[1] /\ Head(batch) \in 1..MaxLast
      /\ Len(Tail(batch)) = Len(batch) - 1
      /\ \A i \in 1..Len(Tail(batch)) : Tail(batch)[i] = batch[i + 1]
  BY TailSeq DEF Send, BackwardTypeOK
<1>2. out' = Append(out, Head(batch)) /\ batch' = Tail(batch)
      /\ UNCHANGED <<last, to, pc>> /\ pc = "send" /\ batch # <<>>
  BY DEF Send, logVars
<1>3. /\ Len(out') = Len(out) + 1 /\ out'[Len(out) + 1] = Head(batch)
      /\ \A i \in 1..Len(out) : out'[i] = out[i]
  BY <1>1, <1>2, AppendSeq DEF BackwardTypeOK
<1>4. Len(out) \in Nat /\ Len(batch) \in Nat \ {0} /\ (out = <<>> <=> Len(out) = 0)
      /\ (\A i \in 1..Len(batch) : batch[i] \in Nat) /\ (\A i \in 1..Len(out) : out[i] \in Nat)
  <2>1. batch \in Seq(1..MaxLast) /\ out \in Seq(1..MaxLast) /\ 1..MaxLast \subseteq Nat
    BY KubeBackwardAssumption DEF BackwardTypeOK
  <2>2. Len(out) \in Nat /\ (out = <<>> <=> Len(out) = 0) /\ \A i \in 1..Len(out) : out[i] \in Nat
    BY <2>1, Lengths
  <2>3. Len(batch) \in Nat /\ Len(batch) # 0 /\ \A i \in 1..Len(batch) : batch[i] \in Nat
    <3>1. batch # <<>> /\ batch \in Seq(1..MaxLast)
      BY <1>2, <2>1
    <3>2. Len(batch) \in Nat /\ (batch = <<>> <=> Len(batch) = 0)
          /\ \A i \in 1..Len(batch) : batch[i] \in 1..MaxLast
      BY <3>1, Lengths
    <3> QED
      BY <2>1, <3>1, <3>2
  <2> QED
    BY <2>2, <2>3
<1>5. Contiguous'
  <2> SUFFICES ASSUME NEW i \in 1..Len(out) PROVE out'[i + 1] = out'[i] - 1
    BY <1>3, <1>4 DEF Contiguous
  <2>1. CASE i < Len(out)
    BY <1>3, <1>4, <2>1 DEF ContInv, Contiguous
  <2>2. CASE i = Len(out)
    BY <1>1, <1>2, <1>3, <1>4, <2>2 DEF ContInv
  <2> QED
    BY <1>4, <2>1, <2>2
<1>6. /\ \A i \in 1..(Len(batch') - 1) : batch'[i + 1] = batch'[i] - 1
      /\ \A i \in 1..Len(batch') : batch'[i] <= last'
  <2>1. \A i \in 1..Len(batch') : batch'[i] = batch[i + 1] /\ i + 1 \in 2..Len(batch)
    BY <1>1, <1>2, <1>4
  <2>2. Len(batch') = Len(batch) - 1
    BY <1>1, <1>2
  <2>3. \A i \in 1..Len(batch') : batch'[i] <= last'
    BY <1>2, <1>4, <2>1 DEF ContInv
  <2>4. \A i \in 1..(Len(batch') - 1) : batch'[i + 1] = batch'[i] - 1
    <3> SUFFICES ASSUME NEW i \in 1..(Len(batch') - 1) PROVE batch'[i + 1] = batch'[i] - 1
      OBVIOUS
    <3>1. i + 1 \in 1..(Len(batch) - 1) /\ i \in 1..Len(batch') /\ i + 1 \in 1..Len(batch')
      BY <1>4, <2>2
    <3> QED
      BY <2>1, <3>1 DEF ContInv
  <2> QED
    BY <2>3, <2>4
<1>7. batch' # <<>> => batch'[1] = out'[Len(out')] - 1
  <2>1. batch' # <<>> => Len(batch') \in Nat \ {0}
    BY <1>2, <1>1, TailSeq, Lengths DEF BackwardTypeOK
  <2>2. batch' # <<>> => 1 \in 1..(Len(batch) - 1) /\ batch'[1] = batch[2]
    BY <1>1, <1>2, <1>4, <2>1
  <2> QED
    BY <1>1, <1>2, <1>3, <2>2 DEF ContInv
<1>8. out'[Len(out')] <= last'
  BY <1>1, <1>2, <1>3, <1>4 DEF ContInv
<1> QED
  BY <1>2, <1>5, <1>6, <1>7, <1>8 DEF ContInv

\* The batch that was read ends where the last one began.
LEMMA ContRead ==
  ASSUME DistinctTimes, BackwardTypeOK, Sizes, BatchInv, ContInv, ReadBatch, ~(from > to), ~RanAhead
  PROVE  ContInv'
<1> USE KubeBackwardAssumption
<1> HIDE DEF RanAhead
<1>1. \E p \in from..(to + 1) : IsStop(p) /\ batch' = [i \in 1..(p - from) |-> p - i]
  BY Zenon DEF ReadBatch
<1>2. PICK p \in from..(to + 1) : IsStop(p) /\ batch' = [i \in 1..(p - from) |-> p - i]
  BY <1>1
<1>3. UNCHANGED <<last, out, to>> /\ pc = "read" /\ pc' = "send"
  BY Zenon DEF ReadBatch, logVars
<1>4. from \in 1..MaxLast /\ to \in 1..MaxLast /\ to <= last /\ last \in Nat
  BY <1>3 DEF BackwardTypeOK, Sizes
<1>5. p - from \in Nat /\ p \in Nat
  BY <1>2, <1>4
<1>6. /\ Len(batch') = p - from /\ (batch' = <<>> <=> p - from = 0)
      /\ \A i \in 1..(p - from) : batch'[i] = p - i
  <2>1. batch' \in [1..(p - from) -> Int]
    BY <1>2, <1>5
  <2> QED
    BY <1>2, <1>5, <2>1, DownSeq
<1>7. out # <<>> => p = out[Len(out)]
  <2> SUFFICES ASSUME out # <<>> PROVE p = out[Len(out)]
    OBVIOUS
  <2> DEFINE L == out[Len(out)]
  <2>1. L \in 1..MaxLast
    BY Lengths DEF BackwardTypeOK
  <2>2. L <= to
    BY <1>3 DEF ContInv
  <2>3. lastBatchStart # NoTime /\ TimeOf(L) = lastBatchStart
    BY <1>3 DEF BatchInv
  <2> HIDE DEF L
  <2>4. TimeOf(from) \in Nat /\ TimeOf(L) \in Nat /\ TimeOf(from) < TimeOf(L)
    BY <1>4, <2>1, <2>3 DEF RanAhead
  <2>5. from < L
    BY <1>4, <2>1, <2>4
  <2>6. ~(\A q \in from..to : TimeOf(q) # lastBatchStart)
    BY <1>4, <2>1, <2>2, <2>3, <2>5
  <2>7. p \in from..to
    BY <1>2, <1>4, <2>3, <2>6 DEF IsStop
  <2>8. TimeOf(p) = TimeOf(L)
    BY <1>2, <1>4, <2>3, <2>7 DEF IsStop
  <2>9. p \in 1..MaxLast
    BY <1>4, <2>7
  <2>10. p = L
    BY <2>1, <2>8, <2>9 DEF DistinctTimes
  <2> QED
    BY <2>10 DEF L
<1>8. \A i \in 1..Len(batch') : batch'[i] <= last'
  BY <1>2, <1>3, <1>4, <1>5, <1>6
<1>9. \A i \in 1..(Len(batch') - 1) : batch'[i + 1] = batch'[i] - 1
  <2> SUFFICES ASSUME NEW i \in 1..(Len(batch') - 1) PROVE batch'[i + 1] = batch'[i] - 1
    OBVIOUS
  <2>1. i \in 1..(p - from) /\ i + 1 \in 1..(p - from)
    BY <1>5, <1>6
  <2> QED
    BY <1>5, <1>6, <2>1
<1>10. batch' # <<>> /\ out' # <<>> => batch'[1] = out'[Len(out')] - 1
  BY <1>3, <1>5, <1>6, <1>7
<1> QED
  BY <1>3, <1>8, <1>9, <1>10 DEF ContInv, Contiguous

LEMMA ContStep ==
  ASSUME DistinctTimes, BackwardTypeOK, Sizes, BatchInv, ContInv, [BackwardNext]_backwardVars PROVE ContInv'
<1>1. CASE Send
  BY <1>1, ContSend
<1>2. CASE ReadBatch
  <2>1. CASE from > to \/ RanAhead
    BY <1>2, <2>1 DEF ReadBatch, ContInv, Contiguous, logVars
  <2> QED
    BY <1>2, <2>1, ContRead
<1>3. CASE Fetch
  BY <1>3 DEF Fetch, ContInv, Contiguous, logVars
<1>4. CASE Open \/ FetchFail \/ ReadFail \/ BatchEnd \/ CtxEnd
  BY <1>4 DEF Open, FetchFail, ReadFail, BatchEnd, CtxEnd, ContInv, Contiguous, logVars,
              batchVars
<1>5. CASE Write
  <2>1. out # <<>> => out[Len(out)] \in Nat
    BY Lengths, KubeBackwardAssumption DEF BackwardTypeOK
  <2>2. \A i \in 1..Len(batch) : batch[i] \in Nat
    BY Lengths, KubeBackwardAssumption DEF BackwardTypeOK
  <2>3. last' = last + 1 /\ last \in Nat /\ UNCHANGED <<pc, batchVars>>
    BY <1>5, KubeBackwardAssumption DEF Write, BackwardTypeOK
  <2> QED
    BY <2>1, <2>2, <2>3 DEF ContInv, Contiguous, batchVars
<1>6. CASE Rotate \/ EndContext \/ UNCHANGED backwardVars
  BY <1>6 DEF Rotate, EndContext, backwardVars, ContInv, Contiguous, logVars, batchVars
<1> QED
  BY <1>1, <1>2, <1>3, <1>4, <1>5, <1>6 DEF BackwardNext, Loop, BackwardDone

\* If no two records have the same timestamp, the batches join: the reading
\* goes back record by record, although the container writes between two
\* requests and the runtime rotates the log.
THEOREM BatchesJoin == ASSUME DistinctTimes PROVE BackwardSpec => []Contiguous
<1>1. BackwardInit => ContInv
  BY DEF BackwardInit, ContInv, Contiguous
<1>2. BackwardInv /\ ContInv /\ [BackwardNext]_backwardVars => ContInv'
  BY ContStep DEF BackwardInv
<1>3. ContInv => Contiguous
  BY DEF ContInv
<1> QED
  BY <1>1, <1>2, <1>3, Invariance, PTL DEF BackwardSpec

=============================================================================
