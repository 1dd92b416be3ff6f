-------------------------- MODULE HealthMonitorProofs --------------------------
(***************************************************************************)
(* Theorems about HealthMonitor, for any clients, any finite set of        *)
(* endpoint slices and any number of changes.                              *)
(***************************************************************************)
EXTENDS HealthMonitor, FiniteSetTheorems, TLAPS

-----------------------------------------------------------------------------
(* Sequences.                                                              *)

LEMMA HeadTail ==
  ASSUME NEW S, NEW s \in Seq(S), s # <<>> PROVE Head(s) \in S /\ Tail(s) \in Seq(S)
OBVIOUS

LEMMA EmptySeq == ASSUME NEW S PROVE <<>> \in Seq(S)
OBVIOUS

LEMMA FunctionSeq ==
  ASSUME NEW S, NEW n \in Nat, NEW f \in [1..n -> S] PROVE f \in Seq(S) /\ Len(f) = n
OBVIOUS

LEMMA Items ==
  ASSUME NEW S, NEW s \in Seq(S)
  PROVE  /\ Len(s) \in Nat /\ DOMAIN s = 1..Len(s)
         /\ \A i \in 1..Len(s) : s[i] \in S
         /\ s # <<>> => Head(s) = s[1] /\ 1 \in 1..Len(s)
OBVIOUS

LEMMA AppendItems ==
  ASSUME NEW S, NEW s \in Seq(S), NEW x
  PROVE  /\ Len(Append(s, x)) = Len(s) + 1 /\ Append(s, x)[Len(s) + 1] = x
         /\ \A i \in 1..Len(s) : Append(s, x)[i] = s[i]
OBVIOUS

-----------------------------------------------------------------------------
(* Type correctness.                                                       *)

LEMMA StatusType ==
  ASSUME NEW es, NEW old PROVE NewStatus(es, old) \in Status
BY DEF NewStatus, Status

\* One client starts the worker, with w.mu held.
Starting ==
  /\ worker = "none" => wMu = "free"
  /\ worker = "starting" => wMu = "start"
  /\ \A c \in Clients : client[c] = "starting" => worker = "starting"
  /\ \A c, d \in Clients : client[c] = "starting" /\ client[d] = "starting" => c = d

\* An update keeps the types, and starts a publication only with w.mu held.
LEMMA UpdateType ==
  ASSUME TypeOK, NEW es \in [Slices -> Slice], UpdateStatus(es)
  PROVE  /\ cache' \in [Slices -> Slice] /\ lastStatus' \in Status /\ lost' \in BOOLEAN
         /\ wMu' \in {"free", "start", "informer"} /\ toCall' \in Seq(Clients)
         /\ wasReady' \subseteq Waiters
         /\ wMu' # "informer" => toCall' = <<>>
<1>1. cache' \in [Slices -> Slice] /\ lastStatus' \in Status /\ lost' \in BOOLEAN
  BY StatusType DEF UpdateStatus, TypeOK, Ready, Empty
<1>2. wasReady' \subseteq Waiters
  BY DEF UpdateStatus, TypeOK
<1>3. /\ wMu' \in {"free", "start", "informer"} /\ toCall' \in Seq(Clients)
      /\ wMu' # "informer" => toCall' = <<>>
  <2>1. \/ toCall' = subs /\ wMu' = "informer"
        \/ toCall' = <<>> /\ wMu' = "free"
    BY Zenon DEF UpdateStatus
  <2>2. subs \in Seq(Clients)
    BY DEF TypeOK
  <2>3. QED
    BY <2>1, <2>2, EmptySeq
<1>4. QED
  BY <1>1, <1>2, <1>3

\* What the informer tells leaves all but its own variables alone.
LEMMA TellFrame ==
  ASSUME NEW e \in Slices, Told(e)
  PROVE  UNCHANGED <<workerVars, subs, toCall, run, sendVars, goVars, clientVars>>
BY DEF Told, Change, Replace, Miss, Tell

LEMMA WorkerType ==
  ASSUME TypeOK, Starting, NEW c \in Clients,
         WorkerStart(c) \/ WorkerReady(c) \/ WorkerFail(c)
  PROVE  TypeOK'
<1>1. CASE WorkerStart(c)
  <2>1. store' \in [Slices -> Slice]
    BY <1>1 DEF WorkerStart
  <2> DEFINE N == {[slice |-> e, state |-> store'[e]] :
                     e \in {d \in Slices : store'[d] # "gone"}}
  <2>2. IsFiniteSet(N)
    <3>1. IsFiniteSet({d \in Slices : store'[d] # "gone"})
      BY FS_Subset, HealthMonitorAssumption
    <3> DEFINE D == {d \in Slices : store'[d] # "gone"}
               f == [e \in D |-> [slice |-> e, state |-> store'[e]]]
    <3>2. f \in Surjection(D, N)
      BY DEF Surjection
    <3>3. QED
      BY <3>1, <3>2, FS_Surjection
  <2>3. Cardinality(N) \in Nat
    BY <2>2, FS_CardinalityType
  <2>4. notes' \in [1..Cardinality(N) -> N]
    <3>1. notes' \in SetToSeqs(N)
      BY <1>1 DEF WorkerStart
    <3>2. QED
      BY <3>1 DEF SetToSeqs
  <2>5. N \subseteq Note
    BY <2>1 DEF Note
  <2> HIDE DEF N
  <2>6. notes' \in Seq(Note) /\ Len(notes') \in Nat
    <3>1. notes' \in [1..Cardinality(N) -> Note]
      BY <2>4, <2>5
    <3>2. QED
      BY <2>3, <3>1, FunctionSeq
  <2>7. toCall = <<>>
    BY <1>1 DEF WorkerStart, TypeOK, Starting
  <2>8. QED
    BY <1>1, <2>1, <2>6, <2>7 DEF WorkerStart, TypeOK, sendVars, goVars
<1>2. CASE WorkerReady(c)
  <2> DEFINE es == [e \in Slices |-> IF store[e] = "gone" THEN cache[e] ELSE store[e]]
  <2>1. es \in [Slices -> Slice]
    BY DEF TypeOK
  <2>2. UpdateStatus(es)
    BY <1>2 DEF WorkerReady
  <2> HIDE DEF es
  <2>3. QED
    BY <1>2, <2>1, <2>2, UpdateType
    DEF WorkerReady, TypeOK, storeVars, sliceVars, sendVars, goVars
<1>3. CASE WorkerFail(c)
  <2>1. toCall = <<>>
    BY <1>3 DEF WorkerFail, TypeOK, Starting
  <2>2. notes' \in Seq(Note)
    BY <1>3 DEF WorkerFail
  <2>3. QED
    BY <1>3, <2>1, <2>2 DEF WorkerFail, TypeOK, storeVars, sendVars, goVars
<1>4. QED
  BY <1>1, <1>2, <1>3

LEMMA BusType ==
  ASSUME TypeOK, HandleNote \/ HandleTombstone \/ PublishNext \/ PublishEnd
                 \/ \E e \in Slices : Told(e)
  PROVE  TypeOK'
<1>1. CASE HandleNote
  <2> DEFINE es == [cache EXCEPT ![Head(notes).slice] = Head(notes).state]
  <2>1. Head(notes) \in Note /\ Tail(notes) \in Seq(Note)
    <3>1. notes \in Seq(Note) /\ notes # <<>>
      BY <1>1 DEF HandleNote, TypeOK
    <3>2. QED
      BY <3>1, HeadTail
  <2>2. es \in [Slices -> Slice]
    BY <1>1, <2>1 DEF HandleNote, Note, TypeOK
  <2>3. UpdateStatus(es)
    BY <1>1 DEF HandleNote
  <2> HIDE DEF es
  <2>4. QED
    BY <1>1, <2>1, <2>2, <2>3, UpdateType
    DEF HandleNote, TypeOK, storeVars, sendVars, goVars
<1>2. CASE PublishNext
  <2>1. Head(toCall) \in Clients /\ Tail(toCall) \in Seq(Clients)
    BY <1>2 DEF PublishNext, TypeOK
  <2>2. wMu = "informer"
    BY <1>2 DEF PublishNext, TypeOK
  <2>3. QED
    BY <1>2, <2>1, <2>2
    DEF PublishNext, TypeOK, Tellable, storeVars, sliceVars, workerVars, sendVars, goVars,
        clientVars
<1>3. CASE PublishEnd
  BY <1>3 DEF PublishEnd, TypeOK, storeVars, sliceVars, sendVars, goVars, clientVars
<1>4. CASE HandleTombstone
  <2>1. toCall = <<>>
    BY <1>4 DEF HandleTombstone, TypeOK
  <2> QED
    BY <1>4, <2>1
    DEF HandleTombstone, TypeOK, storeVars, sliceVars, sendVars, goVars, clientVars
<1>5. ASSUME NEW e \in Slices, Told(e) PROVE TypeOK'
  <2>1. PICK s \in Slice \cup {"unknown"} : Tell(e, s)
    BY <1>5 DEF Told, Change, Replace, Miss
  <2>2. notes' \in Seq(Note) /\ changes' \in Nat
    <3>1. [slice |-> e, state |-> s] \in Note
      BY DEF Note
    <3> QED
      BY <2>1, <3>1 DEF Tell, TypeOK
  <2>3. store' \in [Slices -> Slice] /\ born' \subseteq Slices /\ replaced' \subseteq Slices
    BY <1>5 DEF Told, Change, Replace, Miss, TypeOK, Slice
  <2> QED
    BY <2>1, <2>2, <2>3 DEF Tell, TypeOK, workerVars, sendVars, goVars, clientVars
<1>6. QED
  BY <1>1, <1>2, <1>3, <1>4, <1>5

LEMMA ClientType ==
  ASSUME TypeOK, NEW c \in Clients, BusStep(c) \/ GoStep(c) \/ ClientStep(c) \/ Leave(c)
  PROVE  TypeOK'
<1> USE DEF TypeOK, Tellable, storeVars, sliceVars, workerVars, sendVars, goVars, clientVars, goRest,
            clientRest
<1>1. CASE BusStep(c)
  BY <1>1 DEF BusStep, HandlerRun, HandlerPanic
<1>2. CASE FirstGet(c) \/ FirstRun(c) \/ CloseChannel(c)
  <2>1. CASE FirstGet(c)
    BY <2>1 DEF FirstGet
  <2>2. CASE FirstRun(c)
    <3>1. CASE MayOffer(c, first[c])
      BY <2>2, <3>1 DEF FirstRun
    <3>2. CASE ~MayOffer(c, first[c])
      BY <2>2, <3>2 DEF FirstRun
    <3>3. QED
      BY <3>1, <3>2
  <2>3. CASE CloseChannel(c)
    BY <2>3 DEF CloseChannel
  <2>4. QED
    BY <1>2, <2>1, <2>2, <2>3
<1>3. CASE Unsubscribe(c)
  <2>1. subs' \in Seq(Clients)
    BY <1>3 DEF Unsubscribe
  <2>2. QED
    BY <1>3, <2>1 DEF Unsubscribe
<1>4. CASE Ask(c)
  BY <1>4 DEF Ask
<1>5. CASE Watch(c)
  <2>1. subs' \in Seq(Clients)
    BY <1>5 DEF Watch
  <2>2. QED
    BY <1>5, <2>1 DEF Watch
<1>6. CASE Receive(c)
  BY <1>6 DEF Receive, AfterReceive
<1>7. CASE Forward(c) \/ ClientEnd(c) \/ Leave(c)
  BY <1>7 DEF Forward, ClientEnd, Leave
<1>8. QED
  BY <1>1, <1>2, <1>3, <1>4, <1>5, <1>6, <1>7 DEF GoStep, ClientStep

LEMMA InitType == Init => TypeOK /\ Starting
<1> SUFFICES ASSUME Init PROVE TypeOK /\ Starting
  OBVIOUS
<1>1. /\ store \in [Slices -> Slice] /\ cache \in [Slices -> Slice]
      /\ lastStatus \in Status
  BY DEF Init, Slice, Status
<1>2. /\ run \in [Clients -> Tellable] /\ last \in [Clients -> Tellable]
      /\ first \in [Clients -> Tellable]
      /\ sending \in [Clients -> {None, "bus", "first", "panic"}]
  BY DEF Init, Tellable
<1>3. /\ notes \in Seq(Note)
      /\ subs \in Seq(Clients) /\ toCall \in Seq(Clients)
  BY EmptySeq DEF Init
<1>4. /\ goroutine \in [Clients -> {"off", "get", "first", "wait", "close", "done"}]
      /\ client \in [Clients -> {"off", "starting", "ask", "watch", "recv",
                                 "forward", "ok", "error"}]
  BY DEF Init
<1>5. TypeOK
  BY <1>1, <1>2, <1>3, <1>4 DEF Init, TypeOK
<1>6. Starting
  BY DEF Init, Starting
<1>7. QED
  BY <1>5, <1>6

LEMMA TypeStep == ASSUME TypeOK, Starting, [Next]_vars PROVE TypeOK'
<1>1. CASE Next
  BY <1>1, WorkerType, BusType, ClientType DEF Next, Step
<1>2. CASE UNCHANGED vars
  BY <1>2 DEF vars, TypeOK, storeVars, sliceVars, workerVars, sendVars, goVars, clientVars
<1>3. QED
  BY <1>1, <1>2

LEMMA StartStep == ASSUME TypeOK, Starting, [Next]_vars PROVE Starting'
<1> USE DEF TypeOK, Starting
<1>1. CASE HandleNote
  <2>1. worker = "running" /\ UNCHANGED <<worker, client>>
    BY <1>1 DEF HandleNote
  <2>2. QED
    BY <2>1
<1>2. ASSUME NEW c \in Clients, WorkerStart(c) PROVE Starting'
  BY <1>2 DEF WorkerStart
<1>3. ASSUME NEW c \in Clients, WorkerReady(c) PROVE Starting'
  <2>1. worker' = "running" /\ client' = [client EXCEPT ![c] = "ask"]
    BY <1>3 DEF WorkerReady
  <2>2. client[c] = "starting"
    BY <1>3 DEF WorkerReady
  <2>3. QED
    BY <2>1, <2>2
<1>4. ASSUME NEW c \in Clients, WorkerFail(c) PROVE Starting'
  BY <1>4 DEF WorkerFail
<1>5. CASE PublishNext \/ PublishEnd \/ HandleTombstone \/ \E e \in Slices : Told(e)
  BY <1>5, TellFrame DEF PublishNext, PublishEnd, HandleTombstone, workerVars, clientVars
<1>6. ASSUME NEW c \in Clients, BusStep(c) \/ GoStep(c) PROVE Starting'
  BY <1>6
  DEF BusStep, HandlerRun, HandlerPanic, GoStep, FirstGet, FirstRun, Unsubscribe,
      CloseChannel, goRest, workerVars, clientVars
<1>7. ASSUME NEW c \in Clients, ClientStep(c) \/ Leave(c) PROVE Starting'
  <2>1. /\ UNCHANGED <<worker, wMu>>
        /\ \A d \in Clients : client'[d] = "starting" => client[d] = "starting"
    BY <1>7
    DEF ClientStep, Ask, Watch, Receive, AfterReceive, Forward, ClientEnd, Leave,
        clientRest, workerVars
  <2>2. QED
    BY <2>1
<1>8. CASE UNCHANGED vars
  BY <1>8 DEF vars, workerVars, clientVars
<1>9. QED
  BY <1>1, <1>2, <1>3, <1>4, <1>5, <1>6, <1>7, <1>8 DEF Next, Step

\* Every reachable state has its type, and no publication goes on once w.mu is
\* released.
THEOREM TypeCorrect == Spec => []TypeOK
<1>1. Spec => [](TypeOK /\ Starting)
  BY InitType, TypeStep, StartStep, PTL DEF Spec
<1>2. QED
  BY <1>1, PTL

-----------------------------------------------------------------------------
(* The status.                                                             *)

\* Before the worker runs nothing is known; from then on the status and what
\* is remembered of the past fit the slices.
StatusInv ==
  /\ worker # "running" => lastStatus = "UNKNOWN" /\ ~lost
  /\ StatusTrue
  /\ worker = "running" => /\ Empty(cache) => lost
                           /\ Ready(cache) => ~lost

LEMMA UpdateStep ==
  ASSUME TypeOK, StatusInv, NEW es \in [Slices -> Slice], UpdateStatus(es),
         worker' = "running"
  PROVE  StatusInv'
<1>1. ~(Empty(es) /\ Ready(es))
  BY DEF Empty, Ready
<1>2. /\ cache' = es /\ lastStatus' = NewStatus(es, lastStatus)
      /\ lost' = IF Ready(es) THEN FALSE ELSE lost \/ Empty(es)
  BY DEF UpdateStatus
<1>3. Empty(cache)' = Empty(es) /\ Ready(cache)' = Ready(es)
  BY <1>2 DEF Empty, Ready
<1>4. (lastStatus \in {"NOTFOUND", "PENDING"}) <=>
        (worker = "running" /\ ~Ready(cache) /\ lost)
  BY DEF StatusInv, StatusTrue
<1>5. worker # "running" => ~lost
  BY DEF StatusInv
<1>6. lastStatus' = "PENDING" <=> ~Empty(es) /\ ~Ready(es) /\ lost'
  <2>1. CASE ~Empty(es) /\ ~Ready(es)
    <3>1. lost => worker = "running" /\ ~Ready(cache)
      BY DEF StatusInv
    <3>2. QED
      BY <1>2, <1>4, <2>1, <3>1 DEF NewStatus
  <2>2. QED
    BY <1>2, <2>1 DEF NewStatus
<1>7. (lastStatus' = "NOTFOUND" <=> Empty(es)) /\ (lastStatus' = "SUCCESS" <=> Ready(es))
  BY <1>1, <1>2 DEF NewStatus
<1>8. QED
  BY <1>1, <1>2, <1>3, <1>6, <1>7 DEF StatusInv, StatusTrue

\* The steps that leave the status alone.
LEMMA StatusFrame ==
  ASSUME StatusInv, UNCHANGED <<worker, cache, lastStatus, lost>>
  PROVE  StatusInv'
BY DEF StatusInv, StatusTrue, Empty, Ready

LEMMA StatusStep == ASSUME TypeOK, Starting, StatusInv, [Next]_vars PROVE StatusInv'
<1>1. CASE HandleNote
  <2> DEFINE es == [cache EXCEPT ![Head(notes).slice] = Head(notes).state]
  <2>1. Head(notes) \in Note
    <3>1. notes \in Seq(Note) /\ notes # <<>>
      BY <1>1 DEF HandleNote, TypeOK
    <3>2. QED
      BY <3>1, HeadTail
  <2>2. es \in [Slices -> Slice]
    BY <1>1, <2>1 DEF HandleNote, Note, TypeOK
  <2>3. UpdateStatus(es) /\ worker' = "running"
    BY <1>1 DEF HandleNote
  <2> HIDE DEF es
  <2>4. QED
    BY <2>2, <2>3, UpdateStep
<1>2. ASSUME NEW c \in Clients, WorkerReady(c) PROVE StatusInv'
  <2> DEFINE es == [e \in Slices |-> IF store[e] = "gone" THEN cache[e] ELSE store[e]]
  <2>1. es \in [Slices -> Slice]
    BY DEF TypeOK
  <2>2. UpdateStatus(es) /\ worker' = "running"
    BY <1>2 DEF WorkerReady
  <2> HIDE DEF es
  <2>3. QED
    BY <2>1, <2>2, UpdateStep
<1>3. ASSUME NEW c \in Clients, WorkerStart(c) \/ WorkerFail(c) PROVE StatusInv'
  <2>1. worker # "running" /\ worker' # "running"
    BY <1>3 DEF WorkerStart, WorkerFail, Starting
  <2>2. QED
    BY <1>3, <2>1 DEF WorkerStart, WorkerFail, StatusInv, StatusTrue
<1>4. ASSUME NEW c \in Clients, BusStep(c) \/ GoStep(c) \/ ClientStep(c) \/ Leave(c)
      PROVE  StatusInv'
  BY <1>4, StatusFrame
  DEF BusStep, HandlerRun, HandlerPanic, GoStep, FirstGet, FirstRun, Unsubscribe,
      CloseChannel, ClientStep, Ask, Watch, Receive, Forward, ClientEnd, Leave, goRest,
      clientRest, workerVars
<1>5. CASE PublishNext \/ PublishEnd \/ HandleTombstone \/ \E e \in Slices : Told(e)
  BY <1>5, TellFrame, StatusFrame DEF PublishNext, PublishEnd, HandleTombstone, workerVars
<1>6. CASE UNCHANGED vars
  BY <1>6, StatusFrame DEF vars, workerVars
<1>7. QED
  BY <1>1, <1>2, <1>3, <1>4, <1>5, <1>6 DEF Next, Step

\* The status says what the slices say, and PENDING what happened before.
THEOREM StatusCorrect == Spec => []StatusTrue
<1>1. Init => StatusInv
  BY DEF Init, StatusInv, StatusTrue
<1>2. TypeOK /\ Starting /\ StatusInv /\ [Next]_vars => StatusInv'
  BY StatusStep
<1>3. StatusInv => StatusTrue
  BY DEF StatusInv
<1>4. QED
  BY <1>1, <1>2, <1>3, InitType, TypeStep, StartStep, PTL DEF Spec

-----------------------------------------------------------------------------
(* The cache.                                                              *)

\* A slice's last change that waits has the state the informer's store has or is
\* a tombstone; a slice without one is in the cache as it is in the store.  No
\* change tells that a slice was replaced.
Pending(e) == \E i \in 1..Len(notes) : notes[i].slice = e

NotesInv ==
  /\ worker # "running" => \A e \in Slices : cache[e] = "gone"
  /\ worker # "none" =>
       \A i \in 1..Len(notes) :
         \/ notes[i].slice \in replaced
         \/ notes[i].state \in {"unknown", store[notes[i].slice]}
         \/ \E j \in 1..Len(notes) : i < j /\ notes[j].slice = notes[i].slice
  /\ worker = "running" => \A e \in Slices \ replaced : Pending(e) \/ cache[e] = store[e]

LEMMA NotesHandle ==
  ASSUME TypeOK, NotesInv, HandleNote PROVE NotesInv'
<1>1. /\ worker = "running" /\ worker' = "running" /\ UNCHANGED <<store, replaced>>
      /\ cache' = [cache EXCEPT ![Head(notes).slice] = Head(notes).state]
      /\ notes # <<>> /\ notes' = Tail(notes) /\ Head(notes).state # "unknown"
  BY DEF HandleNote, UpdateStatus, storeVars
<1>2. /\ notes \in Seq(Note) /\ cache \in [Slices -> Slice]
      /\ Len(notes) \in Nat \ {0}
  BY <1>1 DEF TypeOK
<1>3. /\ Len(notes') = Len(notes) - 1
      /\ \A i \in 1..Len(notes') : notes'[i] = notes[i + 1] /\ i + 1 \in 1..Len(notes)
  BY <1>1, <1>2
<1>4. Head(notes) = notes[1] /\ 1 \in 1..Len(notes) /\ notes[1].slice \in Slices
  <2>1. Head(notes) = notes[1] /\ 1 \in 1..Len(notes)
    BY <1>1, <1>2, Items
  <2>2. notes[1] \in Note
    BY <1>2, <2>1, Items
  <2>3. QED
    BY <2>1, <2>2 DEF Note
<1>5. ASSUME NEW j \in 1..Len(notes), 1 < j
      PROVE  j - 1 \in 1..Len(notes') /\ notes'[j - 1] = notes[j]
  <2>1. j - 1 \in 1..Len(notes')
    BY <1>2, <1>3, <1>5
  <2>2. (j - 1) + 1 = j
    BY <1>2
  <2>3. QED
    BY <1>3, <2>1, <2>2
<1>6. ASSUME NEW i \in 1..Len(notes')
      PROVE  \/ notes'[i].slice \in replaced'
             \/ notes'[i].state \in {"unknown", store'[notes'[i].slice]}
             \/ \E j \in 1..Len(notes') : i < j /\ notes'[j].slice = notes'[i].slice
  <2>1. CASE \/ notes[i + 1].slice \in replaced
             \/ notes[i + 1].state \in {"unknown", store[notes[i + 1].slice]}
    BY <1>1, <1>3, <2>1
  <2>2. ASSUME NEW j \in 1..Len(notes), i + 1 < j, notes[j].slice = notes[i + 1].slice
        PROVE  \E k \in 1..Len(notes') : i < k /\ notes'[k].slice = notes'[i].slice
    <3>1. 1 < j /\ i < j - 1
      BY <1>3, <2>2
    <3>2. QED
      BY <1>3, <1>5, <2>2, <3>1
  <2>3. QED
    BY <1>1, <1>3, <2>1, <2>2 DEF NotesInv
<1>7. ASSUME NEW e \in Slices \ replaced PROVE Pending(e)' \/ cache'[e] = store'[e]
  <2>1. CASE \E j \in 1..Len(notes) : 1 < j /\ notes[j].slice = e
    BY <1>5, <2>1 DEF Pending
  <2>2. CASE ~(\E j \in 1..Len(notes) : 1 < j /\ notes[j].slice = e)
    <3>1. CASE notes[1].slice = e
      <4>1. notes[1].state = store[e]
        BY <1>1, <1>4, <1>7, <2>2, <3>1 DEF NotesInv
      <4>2. QED
        BY <1>1, <1>2, <1>4, <3>1, <4>1
    <3>2. CASE notes[1].slice # e
      <4>1. ~Pending(e)
        BY <1>2, <2>2, <3>2 DEF Pending
      <4>2. QED
        BY <1>1, <1>2, <1>4, <3>2, <4>1 DEF NotesInv
    <3>3. QED
      BY <3>1, <3>2
  <2>3. QED
    BY <2>1, <2>2
<1>8. QED
  BY <1>1, <1>6, <1>7 DEF NotesInv

LEMMA NotesTell ==
  ASSUME TypeOK, NotesInv, NEW e \in Slices, NEW s, Tell(e, s),
         s \in {"unknown", store'[e]}, replaced \subseteq replaced',
         \A d \in Slices \ replaced' : d # e => store'[d] = store[d]
  PROVE  NotesInv'
<1> DEFINE n == [slice |-> e, state |-> s]
<1>1. /\ worker # "none" /\ notes' = Append(notes, n) /\ UNCHANGED <<worker, cache>>
  BY DEF Tell, workerVars
<1>2. notes \in Seq(Note) /\ Len(notes) \in Nat
  BY DEF TypeOK
<1>3. /\ Len(notes') = Len(notes) + 1 /\ notes'[Len(notes')] = n
      /\ \A i \in 1..Len(notes) : notes'[i] = notes[i] /\ i \in 1..Len(notes')
  BY <1>1, <1>2, AppendItems
<1>4. n.slice = e /\ n.state = s
  OBVIOUS
<1> HIDE DEF n
<1>5. ASSUME NEW i \in 1..Len(notes')
      PROVE  \/ notes'[i].slice \in replaced'
             \/ notes'[i].state \in {"unknown", store'[notes'[i].slice]}
             \/ \E j \in 1..Len(notes') : i < j /\ notes'[j].slice = notes'[i].slice
  <2>1. CASE i = Len(notes')
    BY <1>3, <1>4, <2>1
  <2>2. CASE i # Len(notes')
    <3>1. i \in 1..Len(notes) /\ i < Len(notes') /\ Len(notes') \in 1..Len(notes')
      BY <1>2, <1>3, <2>2
    <3>2. notes[i].slice \in Slices
      <4>1. notes[i] \in Note
        BY <1>2, <3>1, Items
      <4>2. QED
        BY <4>1 DEF Note
    <3>3. CASE notes[i].slice = e
      BY <1>3, <1>4, <3>1, <3>3
    <3>4. CASE notes[i].slice # e
      <4>1. \/ notes[i].slice \in replaced
            \/ notes[i].state \in {"unknown", store[notes[i].slice]}
            \/ \E j \in 1..Len(notes) : i < j /\ notes[j].slice = notes[i].slice
        BY <1>1, <3>1 DEF NotesInv
      <4>2. notes[i].slice \in replaced' \/ store'[notes[i].slice] = store[notes[i].slice]
        BY <3>2, <3>4
      <4>3. QED
        BY <1>3, <3>1, <4>1, <4>2
    <3>5. QED
      BY <3>3, <3>4
  <2>3. QED
    BY <2>1, <2>2
<1>6. ASSUME NEW d \in Slices \ replaced', worker' = "running"
      PROVE  Pending(d)' \/ cache'[d] = store'[d]
  <2>1. CASE d = e
    <3>1. Len(notes') \in 1..Len(notes')
      BY <1>2, <1>3
    <3>2. QED
      BY <1>3, <1>4, <2>1, <3>1 DEF Pending
  <2>2. CASE d # e
    BY <1>1, <1>3, <1>6, <2>2 DEF NotesInv, Pending
  <2>3. QED
    BY <2>1, <2>2
<1>7. QED
  BY <1>1, <1>5, <1>6 DEF NotesInv

LEMMA NotesTold ==
  ASSUME TypeOK, NotesInv, NEW e \in Slices, Told(e) PROVE NotesInv'
<1> USE DEF TypeOK
<1>1. ASSUME NEW s \in Slice, Change(e, s) PROVE NotesInv'
  BY <1>1, NotesTell DEF Change
<1>2. ASSUME NEW s \in Slice, NEW d \in Slices, Replace(d, e, s) PROVE NotesInv'
  BY <1>2, NotesTell DEF Replace
<1>3. CASE Miss(e)
  BY <1>3, NotesTell DEF Miss
<1>4. QED
  BY <1>1, <1>2, <1>3 DEF Told

LEMMA NotesFrame ==
  ASSUME NotesInv, UNCHANGED <<worker, cache, store, replaced, notes>> PROVE NotesInv'
BY DEF NotesInv, Pending

LEMMA NotesStep == ASSUME TypeOK, Starting, NotesInv, [Next]_vars PROVE NotesInv'
<1>1. ASSUME NEW c \in Clients, WorkerStart(c) PROVE NotesInv'
  <2> DEFINE N == {[slice |-> e, state |-> store'[e]] :
                     e \in {d \in Slices : store'[d] # "gone"}}
  <2>1. \A n \in N : n.state = store'[n.slice]
    OBVIOUS
  <2>2. notes' \in [1..Cardinality(N) -> N]
    <3>1. notes' \in SetToSeqs(N)
      BY <1>1 DEF WorkerStart
    <3>2. QED
      BY <3>1 DEF SetToSeqs
  <2>3. notes' \in Seq(Note)
    BY <1>1, WorkerType DEF TypeOK
  <2> HIDE DEF N
  <2>4. \A i \in 1..Len(notes') : notes'[i] \in N
    <3>1. DOMAIN notes' = 1..Len(notes')
      BY <2>3, Items
    <3>2. QED
      BY <2>2, <3>1
  <2>5. worker # "running" /\ worker' = "starting" /\ cache' = cache
    BY <1>1 DEF WorkerStart
  <2>6. QED
    BY <2>1, <2>4, <2>5 DEF NotesInv
<1>2. ASSUME NEW c \in Clients, WorkerReady(c) PROVE NotesInv'
  <2>1. worker = "starting"
    BY <1>2 DEF WorkerReady, Starting
  <2>2. /\ worker' = "running" /\ UNCHANGED <<store, replaced, notes>>
        /\ cache' = [e \in Slices |-> IF store[e] = "gone" THEN cache[e] ELSE store[e]]
    BY <1>2 DEF WorkerReady, UpdateStatus, storeVars, sliceVars
  <2>3. \A e \in Slices : cache'[e] = store'[e]
    BY <2>1, <2>2 DEF NotesInv
  <2>4. QED
    BY <2>1, <2>2, <2>3 DEF NotesInv
<1>3. ASSUME NEW c \in Clients, WorkerFail(c) PROVE NotesInv'
  <2>1. worker = "starting" /\ worker' = "none" /\ cache' = cache
    BY <1>3 DEF WorkerFail, Starting
  <2>2. QED
    BY <2>1 DEF NotesInv
<1>4. ASSUME NEW c \in Clients, BusStep(c) \/ GoStep(c) \/ ClientStep(c) \/ Leave(c)
      PROVE  NotesInv'
  BY <1>4, NotesFrame
  DEF BusStep, HandlerRun, HandlerPanic, GoStep, FirstGet, FirstRun, Unsubscribe,
      CloseChannel, ClientStep, Ask, Watch, Receive, Forward, ClientEnd, Leave, goRest,
      clientRest, workerVars, storeVars, sliceVars
<1>5. CASE PublishNext \/ PublishEnd \/ HandleTombstone
  BY <1>5, NotesFrame
  DEF PublishNext, PublishEnd, HandleTombstone, workerVars, storeVars, sliceVars
<1>6. CASE UNCHANGED vars
  BY <1>6, NotesFrame DEF vars, workerVars, storeVars, sliceVars
<1>7. QED
  BY <1>1, <1>2, <1>3, <1>4, <1>5, <1>6, NotesHandle, NotesTold DEF Next, Step

\* When no change waits the cache is the informer's store, whatever was handled
\* before and after Start copied it; save for the slices that were replaced while
\* the watch was interrupted.
THEOREM CacheCorrect == Spec => []CacheCurrent
<1>1. Init => NotesInv
  BY DEF Init, NotesInv
<1>2. TypeOK /\ Starting /\ NotesInv /\ [Next]_vars => NotesInv'
  BY NotesStep
<1>3. TypeOK /\ NotesInv => CacheCurrent
  <2> SUFFICES ASSUME NotesInv, worker = "running", notes = <<>>,
                      NEW e \in Slices \ replaced
               PROVE  cache[e] = store[e]
    BY DEF CacheCurrent
  <2>1. ~Pending(e)
    BY DEF Pending
  <2>2. QED
    BY <2>1 DEF NotesInv
<1>4. QED
  BY <1>1, <1>2, <1>3, InitType, TypeStep, StartStep, PTL DEF Spec

-----------------------------------------------------------------------------
(* The wait for the service.                                               *)

In(s, c) == \E i \in 1..Len(s) : s[i] = c

LEMMA InTail ==
  ASSUME NEW S, NEW s \in Seq(S), s # <<>>, NEW c, In(Tail(s), c) PROVE In(s, c)
BY DEF In

LEMMA InHead == ASSUME NEW S, NEW s \in Seq(S), s # <<>> PROVE In(s, Head(s))
BY DEF In

LEMMA InAppend ==
  ASSUME NEW S, NEW s \in Seq(S), NEW x, NEW c, c # x, In(Append(s, x), c) PROVE In(s, c)
BY AppendItems DEF In

Early == {"off", "starting", "ask", "watch"}

\* A client that does not watch yet is unknown to the bus and was told nothing.
Unknown(c) ==
  client[c] \in Early => /\ ~In(subs, c) /\ ~In(toCall, c) /\ goroutine[c] = "off"
                         /\ run[c] = None /\ first[c] = None /\ last[c] = None

\* SUCCESS, on its way to a waiter or the status now, was so since it asked.
Waited(c) ==
  /\ client[c] \in {"watch", "recv"} /\ lastStatus = "SUCCESS" => c \in wasReady
  /\ client[c] = "recv" /\ "SUCCESS" \in {run[c], first[c], last[c]} => c \in wasReady
  /\ client[c] = "ok" => c \in wasReady
  /\ client[c] # "forward"

WaitInv == \A c \in Waiters : Unknown(c) /\ Waited(c)

LEMMA WaitUpdate ==
  ASSUME TypeOK, WaitInv, NEW es, UpdateStatus(es),
         UNCHANGED <<subs, run, first, last, goroutine>>,
         \A c \in Waiters : \/ client'[c] = client[c]
                            \/ client[c] \in Early /\ client'[c] \in {"ask"}
  PROVE  WaitInv'
<1>1. lastStatus' = "SUCCESS" => Ready(es)
  BY DEF UpdateStatus, NewStatus
<1>2. /\ wasReady \subseteq wasReady'
      /\ Ready(es) => \A c \in Waiters : client[c] \in {"watch", "recv"} => c \in wasReady'
  BY DEF UpdateStatus
<1>3. toCall' = subs \/ toCall' = <<>>
  BY DEF UpdateStatus
<1>4. \A c : ~In(<<>>, c)
  BY DEF In
<1> SUFFICES ASSUME NEW c \in Waiters PROVE Unknown(c)' /\ Waited(c)'
  BY DEF WaitInv
<1>5. Unknown(c) /\ Waited(c)
  BY DEF WaitInv
<1>6. In(subs', c) <=> In(subs, c)
  BY DEF In
<1>7. In(toCall', c) => In(subs, c)
  BY <1>3, <1>4
<1>8. Unknown(c)'
  BY <1>5, <1>6, <1>7 DEF Unknown, Early
<1>9. Waited(c)'
  BY <1>1, <1>2, <1>5 DEF Waited, Early
<1> QED
  BY <1>8, <1>9

\* The steps that leave the bus and what is told alone.
LEMMA WaitFrame ==
  ASSUME WaitInv, UNCHANGED <<subs, toCall, run, first, last, goroutine, lastStatus, wasReady>>,
         \A c \in Waiters : \/ client'[c] = client[c]
                            \/ client[c] \in Early /\ client'[c] \in {"starting", "ask"}
                            \/ client'[c] = "error"
  PROVE  WaitInv'
BY DEF WaitInv, Unknown, Waited, Early, In

LEMMA WaitBus ==
  ASSUME TypeOK, WaitInv, PublishNext PROVE WaitInv'
<1> DEFINE h == Head(toCall)
<1>1. h \in Clients /\ toCall' = Tail(toCall) /\ run' = [run EXCEPT ![h] = lastStatus]
  BY HeadTail DEF PublishNext, TypeOK
<1>2. In(toCall, h) /\ \A c : In(toCall', c) => In(toCall, c)
  BY <1>1, InHead, InTail DEF PublishNext, TypeOK
<1>3. UNCHANGED <<subs, first, last, goroutine, lastStatus, wasReady, client>>
  BY DEF PublishNext, workerVars, sendVars, goVars, clientVars
<1>4. \A c \in Clients : run'[c] = IF c = h THEN lastStatus ELSE run[c]
  BY <1>1 DEF TypeOK
<1> HIDE DEF h
<1>5. \A c \in Waiters : Unknown(c) => Unknown(c)'
  BY <1>2, <1>3, <1>4 DEF Unknown, Clients, In
<1>6. \A c \in Waiters : Unknown(c) /\ Waited(c) => Waited(c)'
  BY <1>2, <1>3, <1>4 DEF Unknown, Waited, Clients, Early
<1> QED
  BY <1>5, <1>6 DEF WaitInv

LEMMA WaitHandler ==
  ASSUME TypeOK, WaitInv, NEW c \in Clients, BusStep(c) \/ GoStep(c) PROVE WaitInv'
<1>1. UNCHANGED <<toCall, lastStatus, wasReady, client>>
  BY DEF BusStep, HandlerRun, HandlerPanic, GoStep, FirstGet, FirstRun, Unsubscribe,
         CloseChannel, goRest, workerVars, clientVars
<1>2. \A d : In(subs', d) => In(subs, d)
  <2>1. subs' = subs \/ (subs # <<>> /\ subs' = Tail(subs))
    BY DEF BusStep, HandlerRun, HandlerPanic, GoStep, FirstGet, FirstRun, Unsubscribe,
           CloseChannel, goRest
  <2> QED
    BY <2>1, InTail DEF TypeOK
<1>3. \A d \in Waiters : \/ d # c \/ client[d] \notin Early
                         \/ UNCHANGED <<run[d], first[d], last[d], goroutine[d]>>
  BY DEF BusStep, HandlerRun, HandlerPanic, GoStep, FirstGet, FirstRun, Unsubscribe,
         CloseChannel, goRest, sendVars, goVars, TypeOK, WaitInv, Unknown, Clients
<1>4. \A d \in Waiters \ {c} : UNCHANGED <<run[d], first[d], last[d], goroutine[d]>>
  BY DEF BusStep, HandlerRun, HandlerPanic, GoStep, FirstGet, FirstRun, Unsubscribe,
         CloseChannel, goRest, sendVars, goVars, TypeOK, Clients
<1>5. "SUCCESS" \in {run[c], first[c], last[c]}' =>
        "SUCCESS" \in {run[c], first[c], last[c], lastStatus}
  BY DEF BusStep, HandlerRun, HandlerPanic, GoStep, FirstGet, FirstRun, Unsubscribe,
         CloseChannel, goRest, sendVars, goVars, TypeOK, None
<1>6. \A d \in Waiters : Unknown(d) => Unknown(d)'
  BY <1>1, <1>2, <1>3, <1>4 DEF Unknown, In
<1>7. \A d \in Waiters : Waited(d) => Waited(d)'
  BY <1>1, <1>4, <1>5 DEF Waited
<1> QED
  BY <1>6, <1>7 DEF WaitInv

LEMMA WaitClient ==
  ASSUME TypeOK, WaitInv, NEW c \in Clients, ClientStep(c) PROVE WaitInv'
<1>1. CASE Ask(c)
  <2>1. UNCHANGED <<subs, toCall, run, first, last, goroutine, lastStatus>>
        /\ wasReady \subseteq wasReady'
    BY <1>1 DEF Ask, clientRest, sendVars, goVars, workerVars
  <2>2. \A d \in Waiters \ {c} : client'[d] = client[d]
    BY <1>1 DEF Ask, TypeOK, Clients
  <2>3. \/ client'[c] = "ok" /\ c \in wasReady'
        \/ client'[c] = "watch" /\ lastStatus # "SUCCESS"
    BY <1>1 DEF Ask, TypeOK
  <2>4. c \in Waiters /\ client[c] \in Early
    BY <1>1 DEF Ask, HasWorker, Early
  <2> QED
    BY <2>1, <2>2, <2>3, <2>4 DEF WaitInv, Unknown, Waited, Early, In
<1>2. CASE Watch(c)
  <2>1. /\ UNCHANGED <<toCall, run, first, last, lastStatus, wasReady>>
        /\ subs' = Append(subs, c)
    BY <1>2 DEF Watch, clientRest, sendVars, workerVars
  <2>2. \A d \in Waiters \ {c} : client'[d] = client[d] /\ goroutine'[d] = goroutine[d]
    BY <1>2 DEF Watch, TypeOK, Clients
  <2>3. client'[c] = "recv" /\ (c \in Waiters => client[c] = "watch")
    BY <1>2, HealthMonitorAssumption DEF Watch, TypeOK
  <2>4. \A d \in Waiters \ {c} : In(subs', d) => In(subs, d)
    BY <2>1, InAppend DEF TypeOK
  <2>5. \A d \in Waiters \ {c} : Unknown(d)' /\ Waited(d)'
    BY <2>1, <2>2, <2>4 DEF WaitInv, Unknown, Waited, In
  <2>6. c \in Waiters => Unknown(c)' /\ Waited(c)'
    BY <2>1, <2>3 DEF WaitInv, Unknown, Waited, Early, None
  <2> QED
    BY <2>5, <2>6 DEF WaitInv
<1>3. CASE Receive(c)
  <2>1. UNCHANGED <<subs, toCall, first, last, lastStatus, wasReady>>
    BY <1>3 DEF Receive, workerVars
  <2>2. \A d \in Waiters \ {c} : UNCHANGED <<client[d], run[d], goroutine[d]>>
    BY <1>3 DEF Receive, TypeOK, Clients
  <2>3. client[c] = "recv" /\ run'[c] \in {run[c], None}
    BY <1>3 DEF Receive, TypeOK
  <2>4. c \in Waiters => \/ client'[c] = "ok" /\ last[c] = "SUCCESS"
                         \/ client'[c] = "recv"
    BY <1>3, HealthMonitorAssumption DEF Receive, AfterReceive, TypeOK
  <2>5. \A d \in Waiters \ {c} : Unknown(d)' /\ Waited(d)'
    BY <2>1, <2>2 DEF WaitInv, Unknown, Waited, In
  <2>6. c \in Waiters => Unknown(c)' /\ Waited(c)'
    BY <2>1, <2>3, <2>4 DEF WaitInv, Unknown, Waited, Early, None
  <2> QED
    BY <2>5, <2>6 DEF WaitInv
<1>4. CASE Forward(c)
  <2>1. c \notin Waiters
    BY <1>4 DEF Forward, WaitInv, Waited
  <2> QED
    BY <1>4, <2>1, WaitFrame
    DEF Forward, clientRest, sendVars, goVars, workerVars, TypeOK, Clients
<1>5. CASE ClientEnd(c)
  BY <1>5, WaitFrame DEF ClientEnd, clientRest, sendVars, goVars, workerVars, TypeOK, Clients
<1> QED
  BY <1>1, <1>2, <1>3, <1>4, <1>5 DEF ClientStep

LEMMA WaitStep == ASSUME TypeOK, WaitInv, [Next]_vars PROVE WaitInv'
<1>1. CASE HandleNote
  BY <1>1, WaitUpdate DEF HandleNote, sendVars, goVars
<1>2. ASSUME NEW c \in Clients, WorkerReady(c) PROVE WaitInv'
  BY <1>2, WaitUpdate DEF WorkerReady, sendVars, goVars, Early, TypeOK, Clients
<1>3. ASSUME NEW c \in Clients, WorkerStart(c) \/ WorkerFail(c) \/ Leave(c) PROVE WaitInv'
  <2>1. \A d \in Waiters : \/ client'[d] = client[d]
                           \/ client[d] \in Early /\ client'[d] \in {"starting", "ask"}
                           \/ client'[d] = "error"
    BY <1>3 DEF WorkerStart, WorkerFail, Leave, Early, TypeOK, Clients
  <2> QED
    BY <1>3, <2>1, WaitFrame
    DEF WorkerStart, WorkerFail, Leave, sendVars, goVars, clientRest, workerVars
<1>4. CASE PublishNext
  BY <1>4, WaitBus
<1>5. CASE PublishEnd \/ HandleTombstone \/ \E e \in Slices : Told(e)
  BY <1>5, TellFrame, WaitFrame
  DEF PublishEnd, HandleTombstone, workerVars, sendVars, goVars, clientVars
<1>6. ASSUME NEW c \in Clients, BusStep(c) \/ GoStep(c) \/ ClientStep(c) PROVE WaitInv'
  BY <1>6, WaitHandler, WaitClient
<1>7. CASE UNCHANGED vars
  BY <1>7, WaitFrame DEF vars, workerVars, sendVars, goVars, clientVars
<1> QED
  BY <1>1, <1>2, <1>3, <1>4, <1>5, <1>6, <1>7 DEF Next, Step

\* ReadyWait does not return on a SUCCESS that is older than its call, although
\* two goroutines tell it and a publication may still be on its way.
THEOREM WaitCorrect == Spec => []WaitedForReady
<1>1. Init => WaitInv
  BY DEF Init, WaitInv, Unknown, Waited, In, Clients, None
<1>2. TypeOK /\ WaitInv /\ [Next]_vars => WaitInv'
  BY WaitStep
<1>3. WaitInv => WaitedForReady
  BY DEF WaitInv, Waited, WaitedForReady
<1> QED
  BY <1>1, <1>2, <1>3, TypeCorrect, PTL DEF Spec

-----------------------------------------------------------------------------
(* What each client is told.                                               *)

\* Before its goroutine starts the bus does not know the client.
Unheard(c) ==
  /\ client[c] \in Early => goroutine[c] = "off"
  /\ goroutine[c] = "off" => /\ ~In(subs, c) /\ ~In(toCall, c)
                             /\ run[c] = None /\ sending[c] = None /\ last[c] = None

\* What is at its send is what the client was told last.
Sends(c) ==
  /\ sending[c] = "bus" => run[c] # None /\ last[c] = run[c]
  /\ sending[c] = "first" => goroutine[c] = "first" /\ last[c] # None
  /\ goroutine[c] = "first" /\ sending[c] # "first" => first[c] # None

\* A client that was told nothing yet will get the status now.
Starts(c) == goroutine[c] = "get" \/ (goroutine[c] = "first" /\ first[c] = lastStatus)

\* The status has reached a subscribed client, or is on its way to it.
Reached(c) ==
  In(subs, c) /\ ~In(toCall, c) =>
    /\ run[c] # None => run[c] = lastStatus
    /\ run[c] = None /\ c \notin gone \cup overtaken =>
         IF last[c] = None THEN Starts(c) ELSE last[c] = lastStatus

ToldOk(c) == Unheard(c) /\ Sends(c) /\ Reached(c)

ToldInv == \A c \in Clients : ToldOk(c)

\* A step of others, or one that only makes c go or be subscribed no more.
LEMMA ToldFrame ==
  ASSUME NEW c, ToldOk(c),
         UNCHANGED <<run[c], sending[c], last[c], first[c], goroutine[c], lastStatus>>,
         In(subs', c) => In(subs, c), In(toCall', c) <=> In(toCall, c),
         gone \subseteq gone', overtaken \subseteq overtaken',
         client'[c] \in Early => client[c] \in Early
  PROVE  ToldOk(c)'
BY DEF ToldOk, Unheard, Sends, Reached, Starts, In

LEMMA ToldUpdate ==
  ASSUME TypeOK, ToldInv, NEW es, UpdateStatus(es), toCall = <<>>,
         UNCHANGED <<subs, run, sending, last, overtaken, first, goroutine, gone>>,
         \A c \in Clients : client'[c] \in Early => client[c] \in Early
  PROVE  ToldInv'
<1>1. \A c : ~In(<<>>, c)
  BY DEF In
<1>2. \A c : In(subs', c) <=> In(subs, c)
  BY DEF In
<1>3. CASE lastStatus' = lastStatus
  <2>1. toCall' = <<>>
    BY <1>3 DEF UpdateStatus
  <2> QED
    BY <1>1, <1>2, <1>3, <2>1, ToldFrame DEF ToldInv
<1>4. CASE lastStatus' # lastStatus
  <2>1. toCall' = subs
    BY <1>4 DEF UpdateStatus
  <2> SUFFICES ASSUME NEW c \in Clients PROVE ToldOk(c)'
    BY DEF ToldInv
  <2>2. ToldOk(c)
    BY DEF ToldInv
  <2>3. In(toCall', c) <=> In(subs, c)
    BY <2>1 DEF In
  <2>4. Unheard(c)'
    BY <1>2, <2>2, <2>3 DEF ToldOk, Unheard
  <2>5. Sends(c)'
    BY <2>2 DEF ToldOk, Sends
  <2>6. Reached(c)'
    BY <1>2, <2>3 DEF Reached
  <2> QED
    BY <2>4, <2>5, <2>6 DEF ToldOk
<1> QED
  BY <1>3, <1>4

LEMMA ToldPublish == ASSUME TypeOK, ToldInv, PublishNext PROVE ToldInv'
<1>0. PICK h \in Clients : h = Head(toCall)
  BY HeadTail DEF PublishNext, TypeOK
<1>1. toCall' = Tail(toCall) /\ run' = [run EXCEPT ![h] = lastStatus] /\ run[h] = None
  BY <1>0 DEF PublishNext
<1>2. /\ In(toCall, h) /\ \A c : In(toCall', c) => In(toCall, c)
      /\ \A c : c # h /\ In(toCall, c) => In(toCall', c)
  <2>1. toCall \in Seq(Clients) /\ toCall # <<>>
    BY DEF PublishNext, TypeOK
  <2>2. ASSUME NEW c, c # h, In(toCall, c) PROVE In(toCall', c)
    <3>1. PICK i \in 1..Len(toCall) : toCall[i] = c
      BY <2>2 DEF In
    <3>2. i # 1 /\ Len(toCall) \in Nat
      BY <1>0, <2>1, <2>2, <3>1, Items
    <3>3. i - 1 \in 1..Len(Tail(toCall)) /\ Tail(toCall)[i - 1] = c
      BY <2>1, <3>1, <3>2
    <3> QED
      BY <1>1, <3>3 DEF In
  <2> QED
    BY <1>0, <1>1, <2>1, <2>2, InHead, InTail
<1>3. UNCHANGED <<subs, sending, first, last, overtaken, goroutine, lastStatus, client, gone>>
  BY DEF PublishNext, workerVars, sendVars, goVars, clientVars
<1>4. lastStatus # None
  BY DEF TypeOK, Status, None
<1>5. ASSUME NEW c \in Clients, c # h PROVE ToldOk(c)'
  <2>1. run'[c] = run[c]
    BY <1>1, <1>5 DEF TypeOK
  <2>2. In(subs', c) => In(subs, c)
    BY <1>3
  <2> QED
    BY <1>2, <1>3, <1>5, <2>1, <2>2, ToldFrame DEF ToldInv
<1>6. ToldOk(h)'
  <2>1. run'[h] = lastStatus
    BY <1>1 DEF TypeOK
  <2>2. ToldOk(h)
    BY DEF ToldInv
  <2>3. Unheard(h)'
    BY <1>2, <1>3, <2>2 DEF ToldOk, Unheard
  <2>4. Sends(h)'
    BY <1>1, <1>3, <1>4, <2>1, <2>2 DEF ToldOk, Sends
  <2>5. Reached(h)'
    BY <1>3, <1>4, <2>1 DEF Reached
  <2> QED
    BY <2>3, <2>4, <2>5 DEF ToldOk
<1> QED
  BY <1>5, <1>6 DEF ToldInv

\* A step of client c or of its goroutines leaves the others alone.
LEMMA ToldOthers ==
  ASSUME TypeOK, ToldInv, NEW c \in Clients, BusStep(c) \/ GoStep(c) \/ ClientStep(c),
         NEW d \in Clients, d # c
  PROVE  ToldOk(d)'
<1>1. UNCHANGED <<run[d], sending[d], last[d], first[d], goroutine[d], lastStatus, toCall,
                  client[d], gone>> /\ overtaken \subseteq overtaken'
  BY DEF BusStep, HandlerRun, HandlerPanic, GoStep, FirstGet, FirstRun, Unsubscribe,
      CloseChannel, ClientStep, Ask, Watch, Receive, Forward, ClientEnd, goRest, clientRest,
      workerVars, sendVars, goVars, clientVars, TypeOK
<1>2. In(subs', d) => In(subs, d)
  <2>1. \/ subs' = subs
        \/ subs # <<>> /\ subs' = Tail(subs)
        \/ subs' = Append(subs, c)
    BY DEF BusStep, HandlerRun, HandlerPanic, GoStep, FirstGet, FirstRun, Unsubscribe,
      CloseChannel, ClientStep, Ask, Watch, Receive, Forward, ClientEnd, goRest, clientRest
  <2> QED
    BY <2>1, InTail, InAppend DEF TypeOK
<1> QED
  BY <1>1, <1>2, ToldFrame DEF ToldInv, In

LEMMA ToldBus == ASSUME TypeOK, ToldInv, NEW c \in Clients, BusStep(c) PROVE ToldOk(c)'
<1>1. ToldOk(c)
  BY DEF ToldInv
<1>2. UNCHANGED <<subs, toCall, lastStatus, overtaken, first, goroutine, client, gone>>
  BY DEF BusStep, HandlerRun, HandlerPanic, workerVars, sendVars, goVars, clientVars
<1>3. In(subs', c) = In(subs, c) /\ In(toCall', c) = In(toCall, c)
  BY <1>2 DEF In
<1>4. CASE HandlerRun(c)
  <2>1. run[c] # None /\ sending[c] = None
    BY <1>4 DEF HandlerRun
  <2>2. CASE MayOffer(c, run[c])
    <3>1. run'[c] = run[c] /\ sending'[c] = "bus" /\ last'[c] = run[c]
      BY <1>4, <2>2 DEF HandlerRun, TypeOK
    <3>2. Unheard(c)' /\ Sends(c)'
      BY <1>1, <1>2, <1>3, <2>1, <3>1 DEF ToldOk, Unheard, Sends, None
    <3>3. Reached(c)'
      BY <1>1, <1>2, <1>3, <2>1, <3>1 DEF ToldOk, Reached
    <3> QED
      BY <3>2, <3>3 DEF ToldOk
  <2>3. CASE ~MayOffer(c, run[c])
    <3>1. run'[c] = None /\ sending'[c] = None /\ last'[c] = last[c]
      BY <1>4, <2>1, <2>3 DEF HandlerRun, TypeOK
    <3>2. c \in gone \/ last[c] = run[c]
      BY <2>3 DEF MayOffer
    <3>3. Unheard(c)' /\ Sends(c)'
      BY <1>1, <1>2, <1>3, <2>1, <3>1 DEF ToldOk, Unheard, Sends, None
    <3>4. Reached(c)'
      BY <1>1, <1>2, <1>3, <2>1, <3>1, <3>2 DEF ToldOk, Reached
    <3> QED
      BY <3>3, <3>4 DEF ToldOk
  <2> QED
    BY <2>2, <2>3
<1>5. CASE HandlerPanic(c)
  <2>1. UNCHANGED <<run, last>> /\ sending'[c] = "panic" /\ sending[c] = "bus"
    BY <1>5 DEF HandlerPanic, TypeOK
  <2> QED
    BY <1>1, <1>2, <1>3, <2>1 DEF ToldOk, Unheard, Sends, Reached, Starts, None
<1> QED
  BY <1>4, <1>5 DEF BusStep

LEMMA ToldGo == ASSUME TypeOK, ToldInv, NEW c \in Clients, GoStep(c) PROVE ToldOk(c)'
<1>1. ToldOk(c)
  BY DEF ToldInv
<1>2. UNCHANGED <<toCall, lastStatus, run, client, gone>>
  BY DEF GoStep, FirstGet, FirstRun, Unsubscribe, CloseChannel, goRest, workerVars, clientVars
<1>3. In(subs', c) => In(subs, c)
  <2>1. subs' = subs \/ (subs # <<>> /\ subs' = Tail(subs))
    BY DEF GoStep, FirstGet, FirstRun, Unsubscribe, CloseChannel
  <2> QED
    BY <2>1, InTail DEF TypeOK
<1>4. In(toCall', c) = In(toCall, c) /\ lastStatus # None
  BY <1>2 DEF In, TypeOK, Status, None
<1>5. CASE FirstGet(c)
  <2>1. UNCHANGED <<sending, last, overtaken>> /\ goroutine[c] = "get"
        /\ goroutine'[c] = "first" /\ first'[c] = lastStatus
    BY <1>5 DEF FirstGet, sendVars, TypeOK
  <2> QED
    BY <1>1, <1>2, <1>3, <1>4, <2>1 DEF ToldOk, Unheard, Sends, Reached, Starts, Early
<1>6. CASE FirstRun(c)
  <2>1. goroutine[c] = "first" /\ sending[c] = None /\ first[c] # None
    BY <1>1, <1>6 DEF FirstRun, ToldOk, Sends, None
  <2>2. CASE MayOffer(c, first[c])
    <3>1. /\ goroutine' = goroutine /\ sending'[c] = "first" /\ last'[c] = first[c]
          /\ overtaken' = IF last[c] = None THEN overtaken ELSE overtaken \cup {c}
      BY <1>6, <2>2 DEF FirstRun, TypeOK
    <3>2. Unheard(c)' /\ Sends(c)'
      BY <1>1, <1>2, <1>3, <1>4, <2>1, <3>1 DEF ToldOk, Unheard, Sends, Early
    <3>3. Reached(c)'
      BY <1>1, <1>2, <1>3, <1>4, <2>1, <3>1 DEF ToldOk, Reached, Starts
    <3> QED
      BY <3>2, <3>3 DEF ToldOk
  <2>3. CASE ~MayOffer(c, first[c])
    <3>1. UNCHANGED <<sending, last, overtaken>> /\ goroutine'[c] = "wait"
      BY <1>6, <2>3 DEF FirstRun, sendVars, TypeOK
    <3>2. c \in gone \/ last[c] = first[c]
      BY <2>3 DEF MayOffer
    <3>3. Unheard(c)' /\ Sends(c)'
      BY <1>1, <1>2, <1>3, <1>4, <2>1, <3>1 DEF ToldOk, Unheard, Sends, Early, None
    <3>4. Reached(c)'
      BY <1>1, <1>2, <1>3, <1>4, <2>1, <3>1, <3>2 DEF ToldOk, Reached
    <3> QED
      BY <3>3, <3>4 DEF ToldOk
  <2> QED
    BY <2>2, <2>3
<1>7. CASE Unsubscribe(c) \/ CloseChannel(c)
  <2>1. /\ UNCHANGED <<sending, last, overtaken, first>>
        /\ goroutine[c] \in {"wait", "close"} /\ goroutine'[c] \in {"close", "done"}
    BY <1>7 DEF Unsubscribe, CloseChannel, sendVars, TypeOK
  <2> QED
    BY <1>1, <1>2, <1>3, <1>4, <2>1 DEF ToldOk, Unheard, Sends, Reached, Starts, Early
<1> QED
  BY <1>5, <1>6, <1>7 DEF GoStep

LEMMA ToldClient == ASSUME TypeOK, ToldInv, NEW c \in Clients, ClientStep(c) PROVE ToldOk(c)'
<1>1. ToldOk(c)
  BY DEF ToldInv
<1>2. CASE Ask(c) \/ Forward(c) \/ ClientEnd(c)
  <2>1. UNCHANGED <<subs, toCall, run, sending, last, first, goroutine, lastStatus, gone,
                    overtaken>>
    BY <1>2 DEF Ask, Forward, ClientEnd, clientRest, sendVars, goVars, workerVars
  <2>2. client'[c] \in Early => client[c] \in Early
    BY <1>2 DEF Ask, Forward, ClientEnd, HasWorker, Early, TypeOK
  <2> QED
    BY <1>1, <2>1, <2>2, ToldFrame DEF In
<1>3. CASE Watch(c)
  <2>1. UNCHANGED <<toCall, run, sending, last, first, lastStatus, gone, overtaken>>
    BY <1>3 DEF Watch, clientRest, sendVars, workerVars
  <2>2. client[c] \in Early /\ client'[c] = "recv" /\ goroutine'[c] = "get"
    BY <1>3 DEF Watch, HasWorker, Early, TypeOK
  <2> QED
    BY <1>1, <2>1, <2>2 DEF ToldOk, Unheard, Sends, Reached, Starts, Early, None
<1>4. CASE Receive(c)
  <2>1. /\ UNCHANGED <<subs, toCall, last, first, lastStatus, gone, overtaken>>
        /\ sending'[c] = None
    BY <1>4 DEF Receive, workerVars, TypeOK
  <2>2. client[c] = "recv" /\ client'[c] \notin Early
    BY <1>4 DEF Receive, AfterReceive, Early, TypeOK
  <2>3. In(toCall', c) = In(toCall, c) /\ In(subs', c) = In(subs, c)
    BY <2>1 DEF In
  <2>4. CASE sending[c] = "bus"
    <3>1. run'[c] = None /\ goroutine' = goroutine
      BY <1>4, <2>4 DEF Receive, TypeOK
    <3>2. Unheard(c)' /\ Sends(c)'
      BY <1>1, <2>1, <2>2, <2>3, <2>4, <3>1 DEF ToldOk, Unheard, Sends, None
    <3>3. Reached(c)'
      BY <1>1, <2>1, <2>3, <2>4, <3>1 DEF ToldOk, Sends, Reached
    <3> QED
      BY <3>2, <3>3 DEF ToldOk
  <2>5. CASE sending[c] = "first"
    <3>1. run' = run /\ goroutine'[c] = "wait"
      BY <1>4, <2>5 DEF Receive, TypeOK
    <3>2. Unheard(c)' /\ Sends(c)'
      BY <1>1, <2>1, <2>2, <2>3, <2>5, <3>1 DEF ToldOk, Unheard, Sends, None
    <3>3. Reached(c)'
      BY <1>1, <2>1, <2>3, <2>5, <3>1 DEF ToldOk, Sends, Reached
    <3> QED
      BY <3>2, <3>3 DEF ToldOk
  <2> QED
    BY <1>4, <2>4, <2>5 DEF Receive
<1> QED
  BY <1>2, <1>3, <1>4 DEF ClientStep

LEMMA ToldStep == ASSUME TypeOK, Starting, ToldInv, [Next]_vars PROVE ToldInv'
<1>1. CASE HandleNote
  BY <1>1, ToldUpdate DEF HandleNote, sendVars, goVars, TypeOK
<1>2. ASSUME NEW c \in Clients, WorkerReady(c) PROVE ToldInv'
  <2>1. toCall = <<>>
    BY <1>2 DEF WorkerReady, Starting, TypeOK
  <2>2. \A d \in Clients : client'[d] \in Early => client[d] \in Early
    BY <1>2 DEF WorkerReady, Early, TypeOK
  <2> QED
    BY <1>2, <2>1, <2>2, ToldUpdate DEF WorkerReady, sendVars, goVars
<1>3. ASSUME NEW c \in Clients, WorkerStart(c) \/ WorkerFail(c) \/ Leave(c) PROVE ToldInv'
  <2>1. /\ UNCHANGED <<subs, toCall, run, sending, last, first, goroutine, lastStatus,
                       overtaken>>
        /\ gone \subseteq gone'
    BY <1>3 DEF WorkerStart, WorkerFail, Leave, sendVars, goVars, clientRest, workerVars
  <2>2. \A d \in Clients : client'[d] \in Early => client[d] \in Early
    BY <1>3 DEF WorkerStart, WorkerFail, Leave, Early, TypeOK
  <2> QED
    BY <2>1, <2>2, ToldFrame DEF ToldInv, In
<1>4. CASE PublishNext
  BY <1>4, ToldPublish
<1>5. CASE PublishEnd \/ HandleTombstone \/ \E e \in Slices : Told(e)
  <2>1. UNCHANGED <<subs, toCall, run, sending, last, first, goroutine, lastStatus,
                    overtaken, gone, client>>
    BY <1>5, TellFrame DEF PublishEnd, HandleTombstone, workerVars, sendVars, goVars, clientVars
  <2> QED
    BY <2>1, ToldFrame DEF ToldInv, In
<1>6. ASSUME NEW c \in Clients, BusStep(c) \/ GoStep(c) \/ ClientStep(c) PROVE ToldInv'
  BY <1>6, ToldOthers, ToldBus, ToldGo, ToldClient DEF ToldInv
<1>7. CASE UNCHANGED vars
  BY <1>7, ToldFrame DEF vars, workerVars, sendVars, goVars, clientVars, ToldInv, In
<1> QED
  BY <1>1, <1>2, <1>3, <1>4, <1>5, <1>6, <1>7 DEF Next, Step

\* A client that is subscribed and still there was last told the status once all
\* is settled, however the goroutine of its first status and those of the bus
\* interleave, and whichever other client's handler an unsubscription removes.
THEOREM CurrentCorrect == Spec => []Current
<1>1. Init => ToldInv
  BY DEF Init, ToldInv, ToldOk, Unheard, Sends, Reached, In, None
<1>2. TypeOK /\ Starting /\ ToldInv /\ [Next]_vars => ToldInv'
  BY ToldStep
<1>3. TypeOK /\ ToldInv => Current
  <2> SUFFICES ASSUME TypeOK, ToldInv, NEW c \in Clients, Settled(c),
                      c \notin gone \cup overtaken, In(subs, c)
               PROVE  last[c] = lastStatus
    BY DEF Current, In
  <2>1. toCall = <<>> /\ run[c] = None /\ goroutine[c] = "wait"
    BY DEF Settled, TypeOK
  <2>2. ~In(toCall, c)
    BY <2>1 DEF In
  <2> QED
    BY <2>1, <2>2 DEF ToldInv, ToldOk, Reached, Starts
<1> QED
  BY <1>1, <1>2, <1>3, InitType, TypeStep, StartStep, PTL DEF Spec
=============================================================================
