-------------------------- MODULE SourceSyncProofs --------------------------
(***************************************************************************)
(* Theorems about SourceSync, for any set of containers, any number of     *)
(* updates and every combination of events.                                *)
(***************************************************************************)
EXTENDS SourceSync, TLAPS

\* An ADDED event of c is on its way to the stream.
Coming(c) == c \in toAdd \/ nextAdd = c \/ addRun = c

\* Events are about the containers they should be about: what is announced is
\* among the sources to be, or was deleted since.
Announced ==
  /\ \A c \in Containers : Coming(c) => c \in Target \cup deleted
  /\ toDelete \subseteq deleted
  /\ {nextDelete, deleteRun} \subseteq deleted \cup {None}

\* From Start's copy on: a source that was never deleted is among the stream's
\* sources, or comes, or could not be opened; and the stream has no other.
Following ==
  (phase \in {"fetch", "done"} /\ closing = "no") =>
    \A c \in Containers \ (deleted \cup refused) :
      /\ c \in sources => c \in Target
      /\ c \in Target => c \in sources \/ Coming(c)

\* A log is opened for what then is a source of the stream.
Readers ==
  \A c \in Containers \ deleted :
    /\ opened[c] <= 1
    /\ opened[c] > 0 => phase = "done" /\ c \in sources

\* Start's own update runs before it reads any log.
Starting == wMu = "start" => phase = "update"

IInv == TypeOK /\ Starting /\ Announced /\ Following /\ Readers

LEMMA InitIInv == Init => IInv
<1> SUFFICES ASSUME Init PROVE IInv
  OBVIOUS
<1> USE SourceSyncAssumption DEF Init
<1>1. TypeOK
  BY DEF TypeOK, Event
<1>2. Announced
  BY DEF Announced, Coming, Target
<1>3. Following /\ Readers
  BY DEF Following, Readers
<1>4. Starting
  BY DEF Starting
<1>5. QED
  BY <1>1, <1>2, <1>3, <1>4 DEF IInv

-----------------------------------------------------------------------------
(* Type correctness.                                                       *)

LEMMA TypeStep == ASSUME TypeOK, [Next]_vars PROVE TypeOK'
<1> USE SourceSyncAssumption DEF TypeOK, Event
<1>1. ASSUME NEW set \in SUBSET Containers, Observe(set) PROVE TypeOK'
  BY <1>1 DEF Observe, Update, runVars, sVars, pubVars
<1>2. CASE StartUpdate
  BY <1>2 DEF StartUpdate, Update, runVars
<1>3. ASSUME NEW c \in Containers, PublishAdd(c) \/ PublishDelete(c) PROVE TypeOK'
  BY <1>3 DEF PublishAdd, PublishDelete, wVars, runVars, sVars
<1>4. CASE BusStep
  BY <1>4 DEF BusStep, SpawnAdd, SpawnDelete, wVars, sVars
<1>5. CASE UpdateEnd
  BY <1>5 DEF UpdateEnd, pubVars, runVars
<1>6. CASE StartStep
  BY <1>6 DEF StartStep, StartFail, StartLock, StartSet, StartFetch, wVars, pubVars, runVars
<1>7. CASE HandleAdd
  BY <1>7 DEF HandleAdd, wVars, pubVars
<1>8. CASE HandleDelete
  BY <1>8 DEF HandleDelete, wVars, pubVars
<1>9. CASE Close
  BY <1>9 DEF Close, wVars, pubVars, runVars
<1>10. CASE UNCHANGED vars
  BY <1>10 DEF vars, wVars, pubVars, runVars, sVars
<1>11. QED
  BY <1>1, <1>2, <1>3, <1>4, <1>5, <1>6, <1>7, <1>8, <1>9, <1>10 DEF Next, WatcherStep

\* Every reachable state has its type, and w.mu is never released with an
\* event unpublished.
THEOREM TypeCorrect == Spec => []TypeOK
<1>1. Init => TypeOK
  BY InitIInv DEF IInv
<1>2. TypeOK /\ [Next]_vars => TypeOK'
  BY TypeStep
<1>3. QED
  BY <1>1, <1>2, PTL DEF Spec

-----------------------------------------------------------------------------
(* The invariant.                                                          *)

LEMMA StartingStep == ASSUME Starting, [Next]_vars PROVE Starting'
BY DEF Starting, Next, WatcherStep, BusStep, StartStep, Observe, Update, StartUpdate,
       UpdateEnd, PublishAdd, PublishDelete, SpawnAdd, SpawnDelete, StartFail, StartLock,
       StartSet, StartFetch, HandleAdd, HandleDelete, Close, vars, wVars, pubVars, sVars

\* An update that begins announces each difference, and remembers deletions.
LEMMA UpdateStep ==
  ASSUME IInv, wMu = "none", NEW holder \in {"start", "informer"},
         NEW set \in SUBSET Containers, Update(holder, set),
         UNCHANGED <<wSources, runVars, sources, opened, refused, closing>>,
         \/ phase' = phase
         \/ phase = "sync" /\ phase' = "update"
  PROVE  Announced' /\ Following' /\ Readers'
<1>1. /\ toAdd = {} /\ toDelete = {} /\ nextAdd = None /\ nextDelete = None
      /\ Target = wSources /\ Target' = set
  BY DEF IInv, TypeOK, Target, Update
<1>2. Announced'
  BY <1>1, SourceSyncAssumption DEF IInv, Announced, Coming, Update, runVars
<1>3. Following'
  <2> SUFFICES ASSUME phase \in {"fetch", "done"}, closing = "no",
                      NEW c \in Containers \ (deleted' \cup refused)
               PROVE  /\ c \in sources => c \in set
                      /\ c \in set => c \in sources \/ Coming(c)'
    BY <1>1 DEF Following
  <2>1. /\ c \in sources => c \in wSources
        /\ c \in wSources => c \in sources \/ addRun = c
    BY <1>1, SourceSyncAssumption DEF IInv, Following, Coming, Update
  <2>2. QED
    BY <2>1 DEF Update, Coming, runVars
<1>4. Readers'
  BY DEF IInv, Readers, Update
<1>5. QED
  BY <1>2, <1>3, <1>4

\* What publishing and spawning leave alone.
LEMMA PublishKeeps ==
  ASSUME IInv, NEW c \in Containers, PublishAdd(c) \/ PublishDelete(c)
  PROVE  Announced' /\ Following' /\ Readers'
<1> USE SourceSyncAssumption DEF IInv
<1>1. /\ Target' = Target /\ deleted' = deleted /\ refused' = refused
      /\ sources' = sources /\ opened' = opened /\ phase' = phase /\ closing' = closing
      /\ addRun' = addRun /\ deleteRun' = deleteRun /\ toDelete' \subseteq toDelete
      /\ nextDelete' \in toDelete \cup {nextDelete, None}
  BY DEF PublishAdd, PublishDelete, Target, wVars, runVars, sVars
<1>2. /\ \A d \in Containers : Coming(d)' => Coming(d)
      /\ closing = "no" => \A d \in Containers : Coming(d) => Coming(d)'
  BY DEF PublishAdd, PublishDelete, Coming, wVars, runVars, sVars
<1>3. Announced'
  BY <1>1, <1>2 DEF Announced
<1>4. Following'
  BY <1>1, <1>2 DEF Following
<1>5. Readers'
  BY <1>1 DEF Readers
<1>6. QED
  BY <1>3, <1>4, <1>5

LEMMA BusKeeps ==
  ASSUME IInv, BusStep
  PROVE  Announced' /\ Following' /\ Readers'
<1> USE SourceSyncAssumption DEF IInv
<1>1. /\ Target' = Target /\ deleted' = deleted /\ refused' = refused
      /\ sources' = sources /\ opened' = opened /\ phase' = phase /\ closing' = closing
      /\ toDelete' = toDelete
      /\ {nextDelete', deleteRun'} \subseteq {nextDelete, deleteRun, None}
  BY DEF BusStep, SpawnAdd, SpawnDelete, Target, wVars, sVars
<1>2. \A d \in Containers : Coming(d)' <=> Coming(d)
  BY DEF BusStep, SpawnAdd, SpawnDelete, Coming, wVars, sVars
<1>3. Announced'
  BY <1>1, <1>2 DEF Announced
<1>4. Following'
  BY <1>1, <1>2 DEF Following
<1>5. Readers'
  BY <1>1 DEF Readers
<1>6. QED
  BY <1>3, <1>4, <1>5

\* The sources to be become the watcher's sources.
LEMMA UpdateEndKeeps ==
  ASSUME IInv, UpdateEnd
  PROVE  Announced' /\ Following' /\ Readers'
<1> USE SourceSyncAssumption DEF IInv
<1>1. /\ Target' = Target /\ deleted' = deleted /\ refused' = refused
      /\ sources' = sources /\ opened' = opened /\ closing' = closing
      /\ toDelete' = toDelete /\ nextDelete' = nextDelete /\ deleteRun' = deleteRun
      /\ phase' \in {phase, "lock"}
  BY DEF UpdateEnd, Target, pubVars, runVars
<1>2. \A d \in Containers : Coming(d)' <=> Coming(d)
  BY DEF UpdateEnd, Coming, pubVars, runVars
<1>3. Announced'
  BY <1>1, <1>2 DEF Announced
<1>4. Following'
  BY <1>1, <1>2 DEF Following
<1>5. Readers'
  BY DEF UpdateEnd, Readers, Starting, pubVars
<1>6. QED
  BY <1>3, <1>4, <1>5

LEMMA StreamKeeps ==
  ASSUME IInv, StartStep \/ HandleAdd \/ HandleDelete \/ Close
  PROVE  Announced' /\ Following' /\ Readers'
<1> USE SourceSyncAssumption DEF IInv
<1>1. Announced'
  BY DEF StartStep, StartFail, StartLock, StartSet, StartFetch, HandleAdd, HandleDelete,
         Close, Announced, Coming, Target, wVars, pubVars, runVars
<1>2. CASE StartStep
  <2>1. Following'
    BY <1>2 DEF StartStep, StartFail, StartLock, StartSet, StartFetch, Following, Coming,
                Target, wVars, pubVars, runVars
  <2>2. Readers'
    BY <1>2 DEF StartStep, StartFail, StartLock, StartSet, StartFetch, Readers, TypeOK,
                wVars, pubVars
  <2>3. QED
    BY <1>1, <2>1, <2>2
<1>3. CASE HandleAdd
  <2>1. addRun \in Containers /\ addRun \in Target \cup deleted
    BY <1>3 DEF HandleAdd, TypeOK, Event, Announced, Coming
  <2>2. Following'
    BY <1>3, <2>1 DEF HandleAdd, MuFree, Following, Coming, Target, wVars, pubVars
  <2>3. Readers'
    BY <1>3, <2>1 DEF HandleAdd, Readers, TypeOK, wVars, pubVars
  <2>4. QED
    BY <1>1, <2>2, <2>3
<1>4. CASE HandleDelete
  BY <1>1, <1>4 DEF HandleDelete, Announced, Following, Readers, Coming, Target, wVars,
                    pubVars
<1>5. CASE Close
  BY <1>1, <1>5 DEF Close, Following, Readers, Coming, Target, wVars, pubVars, runVars
<1>6. QED
  BY <1>2, <1>3, <1>4, <1>5

LEMMA IInvStep == ASSUME IInv, [Next]_vars PROVE IInv'
<1>1. TypeOK' /\ Starting'
  BY TypeStep, StartingStep DEF IInv
<1>2. ASSUME NEW set \in SUBSET Containers, Observe(set) PROVE IInv'
  <2>1. CASE isReady
    BY <1>1, <1>2, <2>1, UpdateStep DEF Observe, sVars, IInv
  <2>2. CASE ~isReady
    BY <1>1, <1>2, <2>2 DEF Observe, IInv, Announced, Following, Readers, Coming, Target,
                            pubVars, runVars, sVars
  <2>3. QED
    BY <2>1, <2>2
<1>3. CASE StartUpdate
  <2>1. index \in SUBSET Containers
    BY DEF IInv, TypeOK
  <2>2. QED
    BY <1>1, <1>3, <2>1, UpdateStep DEF StartUpdate, IInv
<1>4. CASE (\E c \in Containers : PublishAdd(c) \/ PublishDelete(c)) \/ UpdateEnd \/ BusStep
  BY <1>1, <1>4, PublishKeeps, BusKeeps, UpdateEndKeeps DEF IInv
<1>5. CASE StartStep \/ HandleAdd \/ HandleDelete \/ Close
  BY <1>1, <1>5, StreamKeeps DEF IInv
<1>6. CASE UNCHANGED vars
  BY <1>1, <1>6 DEF IInv, Announced, Following, Readers, Coming, Target, vars, wVars,
                    pubVars, runVars, sVars
<1>7. QED
  BY <1>2, <1>3, <1>4, <1>5, <1>6 DEF Next, WatcherStep

LEMMA Invariance == Spec => []IInv
<1>1. Init => IInv
  BY InitIInv
<1>2. IInv /\ [Next]_vars => IInv'
  BY IInvStep
<1>3. QED
  BY <1>1, <1>2, PTL DEF Spec

\* The copy that Start makes of the watcher's sources and the events that come
\* before and after it fit together.
THEOREM HandoverExact == Spec => []Handover
<1>1. IInv => Handover
  BY SourceSyncAssumption
  DEF IInv, TypeOK, Following, Handover, Settled, Coming, Target
<1>2. QED
  BY <1>1, Invariance, PTL

\* No log is read twice, unless its container was deleted in between.
THEOREM ReadOnce == Spec => []OneReader
<1>1. IInv => OneReader
  BY DEF IInv, Readers, OneReader
<1>2. QED
  BY <1>1, Invariance, PTL

-----------------------------------------------------------------------------

\* A source of the stream has its log open, from the end of Start on.
Opened == phase = "done" => \A c \in sources : opened[c] > 0

LEMMA OpenedStep == ASSUME TypeOK, Opened, [Next]_vars PROVE Opened'
<1> USE DEF Opened
<1>1. sources \subseteq Containers /\ opened \in [Containers -> Nat]
  BY DEF TypeOK
<1>2. ASSUME NEW set \in SUBSET Containers, Observe(set) PROVE Opened'
  BY <1>2 DEF Observe, sVars
<1>3. CASE StartUpdate
  BY <1>3 DEF StartUpdate
<1>4. ASSUME NEW c \in Containers, PublishAdd(c) \/ PublishDelete(c) PROVE Opened'
  BY <1>4 DEF PublishAdd, PublishDelete, sVars
<1>5. CASE BusStep
  BY <1>5 DEF BusStep, SpawnAdd, SpawnDelete, sVars
<1>6. CASE UpdateEnd
  <2>1. phase' = "done" => phase = "done"
    BY <1>6 DEF UpdateEnd
  <2> QED
    BY <1>6, <2>1 DEF UpdateEnd
<1>7. CASE StartStep
  BY <1>1, <1>7 DEF StartStep, StartFail, StartLock, StartSet, StartFetch
<1>8. CASE HandleAdd
  <2>1. CASE UNCHANGED <<opened, sources>>
    BY <1>8, <2>1 DEF HandleAdd
  <2>2. CASE /\ opened' = [opened EXCEPT ![addRun] = @ + 1]
             /\ sources' = sources \cup {addRun}
    <3>1. phase' = phase /\ addRun \in Containers
      BY <1>8, SourceSyncAssumption DEF HandleAdd, TypeOK, Event
    <3>2. opened'[addRun] = opened[addRun] + 1 /\ \A c \in Containers \ {addRun} : opened'[c] = opened[c]
      BY <1>1, <2>2, <3>1
    <3> QED
      BY <1>1, <1>8, <2>2, <3>1, <3>2 DEF HandleAdd
  <2> QED
    BY <1>8, <2>1, <2>2 DEF HandleAdd
<1>9. CASE HandleDelete
  BY <1>9 DEF HandleDelete
<1>10. CASE Close
  BY <1>10 DEF Close
<1>11. CASE UNCHANGED vars
  BY <1>11 DEF vars, sVars
<1> QED
  BY <1>2, <1>3, <1>4, <1>5, <1>6, <1>7, <1>8, <1>9, <1>10, <1>11 DEF Next, WatcherStep

\* What the stream counts among its sources is being read, whichever of Start
\* and the handlers took it in, and also when a log could not be opened.
THEOREM SourcesAreRead == Spec => []SourcesRead
<1>1. Init => Opened
  BY DEF Init, Opened
<1>2. IInv /\ Opened /\ [Next]_vars => Opened'
  BY OpenedStep DEF IInv
<1>3. Opened => SourcesRead
  BY DEF Opened, SourcesRead
<1> QED
  BY <1>1, <1>2, <1>3, Invariance, PTL DEF Spec
=============================================================================
