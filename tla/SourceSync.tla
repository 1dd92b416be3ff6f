------------------------------ MODULE SourceSync ------------------------------
(***************************************************************************)
(* How a Stream (modules/shared/logs/stream.go) keeps its sources in step  *)
(* with those of its source watcher (source-watcher.go).  The watcher      *)
(* computes the wanted sources under w.mu and publishes the differences on *)
(* its event bus; the bus runs the stream's two handlers, each one at a    *)
(* time and in a goroutine of its own, and waits for the previous run of a *)
(* handler before it starts the next.  The handlers and Stream.Start take  *)
(* s.mu.                                                                   *)
(*                                                                         *)
(* The informers' caches and the paths are abstracted to the set of        *)
(* containers that match: index.                                           *)
(***************************************************************************)
EXTENDS Integers

CONSTANTS Containers,  \* the log sources there may be
          None,        \* no source
          MaxUpdates,  \* bound: changes the informers report
          Events       \* what may happen:
                       \*   "syncErr": the watcher cannot be started
                       \*   "openErr": a log cannot be opened
                       \*   "close":   the caller closes the stream

ASSUME SourceSyncAssumption == MaxUpdates \in Nat /\ None \notin Containers

VARIABLES
  index,     \* the containers that match, as the informers report them
  updates,   \* changes reported so far
  wMu,       \* holder of w.mu: "none", "start" or "informer"
  wSources,  \* w.sources
  isReady,   \* w.isReady
  want,      \* wantSources of the update that runs
  toAdd, toDelete,        \* its events still to publish
  nextAdd, nextDelete,    \* the event it publishes now, waiting for the handler
  addRun, deleteRun,      \* the event a handler works on
  phase,     \* of Start: "sync", "update", "lock", "set", "fetch", "done",
             \*   "failed"
  sources,   \* s.sources
  opened,    \* opened[c]: how often the log of c was opened to be read
  refused,   \* containers whose log could not be opened
  deleted,   \* containers of which a DELETED event was published
  closing    \* Close: "no", "added" (the first handler is unsubscribed),
             \*   "deleted" (both are), "closed"

pubVars  == <<want, toAdd, toDelete, nextAdd, nextDelete, deleted>>
runVars  == <<addRun, deleteRun>>
wVars    == <<index, updates, wMu, wSources, isReady>>
sVars    == <<phase, sources, opened, refused, closing>>
vars     == <<wVars, pubVars, runVars, sVars>>

\* What the watcher's sources are, or will be once the update that runs ends.
Target == IF wMu = "none" THEN wSources ELSE want

Init ==
  /\ index \in SUBSET Containers /\ updates = 0
  /\ wMu = "none" /\ wSources = {} /\ isReady = FALSE
  /\ want = {} /\ toAdd = {} /\ toDelete = {}
  /\ nextAdd = None /\ nextDelete = None /\ addRun = None /\ deleteRun = None
  /\ phase = "sync" /\ sources = {} /\ refused = {} /\ deleted = {}
  /\ opened = [c \in Containers |-> 0] /\ closing = "no"

-----------------------------------------------------------------------------
(* The source watcher.                                                     *)

\* updateSources_UNSAFE begins, with w.mu held by holder.
Update(holder, set) ==
  /\ wMu' = holder /\ want' = set
  /\ toAdd' = set \ wSources /\ toDelete' = wSources \ set
  /\ deleted' = deleted \cup toDelete'
  /\ UNCHANGED <<nextAdd, nextDelete>>

\* An informer's handler: the index changes, and the sources once the watcher
\* is ready.
Observe(set) ==
  /\ wMu = "none" /\ updates < MaxUpdates
  /\ index' = set /\ updates' = updates + 1
  /\ IF isReady THEN Update("informer", set) ELSE UNCHANGED <<wMu, pubVars>>
  /\ UNCHANGED <<wSources, isReady, runVars, sVars>>

\* The caches are synced: sw.Start updates the sources.
StartUpdate ==
  /\ phase = "sync" /\ wMu = "none"
  /\ Update("start", index)
  /\ phase' = "update"
  /\ UNCHANGED <<index, updates, wSources, isReady, runVars, sources, opened, refused, closing>>

\* No permission, or the caches do not sync: Start returns with the handlers
\* subscribed.
StartFail ==
  /\ "syncErr" \in Events /\ phase = "sync" /\ phase' = "failed"
  /\ UNCHANGED <<wVars, pubVars, runVars, sources, opened, refused, closing>>

\* Publish: the subscribed handlers of the event are looked up; ADDED events
\* come before DELETED events, the events of a kind in any order.
PublishAdd(c) ==
  /\ wMu # "none" /\ nextAdd = None /\ c \in toAdd
  /\ toAdd' = toAdd \ {c}
  /\ nextAdd' = IF closing = "no" THEN c ELSE None
  /\ UNCHANGED <<wVars, want, toDelete, nextDelete, deleted, runVars, sVars>>

PublishDelete(c) ==
  /\ wMu # "none" /\ toAdd = {} /\ nextAdd = None /\ nextDelete = None /\ c \in toDelete
  /\ toDelete' = toDelete \ {c}
  /\ nextDelete' = IF closing \in {"no", "added"} THEN c ELSE None
  /\ UNCHANGED <<wVars, want, toAdd, nextAdd, deleted, runVars, sVars>>

\* The handler's lock is free: its goroutine starts.
SpawnAdd ==
  /\ nextAdd # None /\ addRun = None
  /\ addRun' = nextAdd /\ nextAdd' = None
  /\ UNCHANGED <<wVars, want, toAdd, toDelete, nextDelete, deleted, deleteRun, sVars>>

SpawnDelete ==
  /\ nextDelete # None /\ deleteRun = None
  /\ deleteRun' = nextDelete /\ nextDelete' = None
  /\ UNCHANGED <<wVars, want, toAdd, toDelete, nextAdd, deleted, addRun, sVars>>

\* All events are published: the sources are replaced and w.mu is released;
\* at the end of sw.Start the watcher is ready.
UpdateEnd ==
  /\ wMu # "none"
  /\ toAdd = {} /\ toDelete = {} /\ nextAdd = None /\ nextDelete = None
  /\ wSources' = want /\ wMu' = "none"
  /\ isReady' = (isReady \/ wMu = "start")
  /\ phase' = IF wMu = "start" THEN "lock" ELSE phase
  /\ UNCHANGED <<index, updates, pubVars, runVars, sources, opened, refused, closing>>

-----------------------------------------------------------------------------
(* The stream.                                                             *)

\* An operator with an underscore in its name is a faulty form of the
\* definition it is named after: the properties are seen to fail when it takes
\* that definition's place.

\* (fault: a Start that fails does not release s.mu)
MuFree_Kept == phase \notin {"set", "fetch", "failed"}

\* Start holds s.mu from its Lock to its return; a handler takes and releases
\* it within one step.
MuFree == phase \notin {"set", "fetch"}

StartLock ==
  /\ phase = "lock" /\ phase' = "set"
  /\ UNCHANGED <<wVars, pubVars, runVars, sources, opened, refused, closing>>

\* (fault: Set does not take w.mu)
StartSet_Unlocked ==
  /\ phase = "set"
  /\ sources' = wSources /\ phase' = "fetch"
  /\ UNCHANGED <<wVars, pubVars, runVars, opened, refused, closing>>

\* sw.Set takes w.mu.
StartSet ==
  /\ phase = "set" /\ wMu = "none"
  /\ sources' = wSources /\ phase' = "fetch"
  /\ UNCHANGED <<wVars, pubVars, runVars, opened, refused, closing>>

\* The logs are opened, isStarted is set and s.mu released; or a log cannot be
\* opened and Start returns early.
StartFetch ==
  /\ phase = "fetch"
  /\ \/ /\ phase' = "done"
        /\ opened' = [c \in Containers |-> IF c \in sources THEN 1 ELSE 0]
     \/ "openErr" \in Events /\ phase' = "failed" /\ UNCHANGED opened
  /\ UNCHANGED <<wVars, pubVars, runVars, sources, refused, closing>>

\* (faults: the source is not looked up first; it is added before its log is
\* opened)
HandleAdd_Again ==
  /\ addRun # None /\ MuFree
  /\ IF phase = "done"
       THEN /\ opened' = [opened EXCEPT ![addRun] = @ + 1]
            /\ sources' = sources \cup {addRun}
            /\ UNCHANGED refused
       ELSE UNCHANGED <<opened, sources, refused>>
  /\ addRun' = None
  /\ UNCHANGED <<wVars, pubVars, deleteRun, phase, closing>>

HandleAdd_First ==
  /\ addRun # None /\ MuFree
  /\ \E fails \in {"openErr" \in Events, FALSE} :
       IF phase = "done" /\ addRun \notin sources
         THEN /\ opened' = [opened EXCEPT ![addRun] = @ + IF fails THEN 0 ELSE 1]
              /\ refused' = refused \cup IF fails THEN {addRun} ELSE {}
              /\ sources' = sources \cup {addRun}
         ELSE UNCHANGED <<opened, sources, refused>>
  /\ addRun' = None
  /\ UNCHANGED <<wVars, pubVars, deleteRun, phase, closing>>

\* handleSourceAdd: nothing before the stream is started, nor for a source it
\* has; else the log is opened, or that fails.
HandleAdd ==
  /\ addRun # None /\ MuFree
  /\ \/ /\ phase = "done" /\ addRun \notin sources
        /\ \/ /\ opened' = [opened EXCEPT ![addRun] = @ + 1]
              /\ sources' = sources \cup {addRun}
              /\ UNCHANGED refused
           \/ /\ "openErr" \in Events \/ closing = "closed"
              /\ refused' = refused \cup {addRun}
              /\ UNCHANGED <<opened, sources>>
     \/ /\ phase # "done" \/ addRun \in sources
        /\ UNCHANGED <<opened, sources, refused>>
  /\ addRun' = None
  /\ UNCHANGED <<wVars, pubVars, deleteRun, phase, closing>>

\* handleSourceDelete: what was opened goes on being read.
HandleDelete ==
  /\ deleteRun # None /\ MuFree
  /\ sources' = IF phase = "done" THEN sources \ {deleteRun} ELSE sources
  /\ deleteRun' = None
  /\ UNCHANGED <<wVars, pubVars, addRun, phase, opened, refused, closing>>

\* Close: the handlers are unsubscribed one after the other, then rootCtx is
\* cancelled.
Close ==
  /\ "close" \in Events /\ phase \in {"done", "failed"}
  /\ \/ closing = "no" /\ closing' = "added"
     \/ closing = "added" /\ closing' = "deleted"
     \/ closing = "deleted" /\ closing' = "closed"
  /\ UNCHANGED <<wVars, pubVars, runVars, phase, sources, opened, refused>>

-----------------------------------------------------------------------------

\* The goroutines of the watcher, the bus and the stream.
WatcherStep == \/ StartUpdate \/ UpdateEnd
               \/ \E c \in Containers : PublishAdd(c) \/ PublishDelete(c)
BusStep     == SpawnAdd \/ SpawnDelete
StartStep   == StartFail \/ StartLock \/ StartSet \/ StartFetch

Next == \/ WatcherStep \/ BusStep \/ StartStep \/ HandleAdd \/ HandleDelete
        \/ Close
        \/ \E set \in SUBSET Containers : Observe(set)

Spec == Init /\ [][Next]_vars

\* What can go on does, save for the cluster and the caller.
Fairness == /\ WF_vars(WatcherStep) /\ WF_vars(BusStep) /\ WF_vars(StartStep)
            /\ WF_vars(HandleAdd) /\ WF_vars(HandleDelete)

FairSpec == Spec /\ Fairness

-----------------------------------------------------------------------------
(* Properties.                                                             *)

Event == Containers \cup {None}

TypeOK ==
  /\ index \subseteq Containers /\ updates \in Nat
  /\ wMu \in {"none", "start", "informer"} /\ wSources \subseteq Containers
  /\ isReady \in BOOLEAN /\ want \subseteq Containers
  /\ toAdd \subseteq Containers /\ toDelete \subseteq Containers
  /\ {nextAdd, nextDelete, addRun, deleteRun} \subseteq Event
  /\ phase \in {"sync", "update", "lock", "set", "fetch", "done", "failed"}
  /\ sources \subseteq Containers /\ opened \in [Containers -> Nat]
  /\ refused \subseteq Containers /\ deleted \subseteq Containers
  /\ closing \in {"no", "added", "deleted", "closed"}
  /\ wMu = "none" => toAdd \cup toDelete = {} /\ nextAdd = None /\ nextDelete = None

\* No update runs and every handler returned.
Settled == wMu = "none" /\ addRun = None /\ deleteRun = None

\* Start copies the watcher's sources while events are under way: those that
\* came before it was started are dropped by the handlers, those that come
\* after are applied.  Between the two no source is lost and none is kept that
\* is gone: when all is settled the stream has exactly the watcher's sources,
\* as far as they never were deleted and could be opened.
Handover ==
  (phase = "done" /\ closing = "no" /\ Settled) =>
    \A c \in Containers \ (deleted \cup refused) : c \in sources <=> c \in wSources

\* The log of a source is read once, whether Start or a handler opened it and
\* however often its events come; only a deletion may change that.
OneReader == \A c \in Containers \ deleted : opened[c] <= 1

\* What the stream counts among its sources is being read.
SourcesRead == phase = "done" => \A c \in sources : opened[c] > 0

\* Start returns, whatever the informers report while it runs.
StartReturns == <>(phase \in {"done", "failed"})

\* Once it returned nothing is stuck: all events are handled in the end, and
\* the watcher's lock is free for the next change.
AllHandled == phase \in {"done", "failed"} ~> Settled
=============================================================================
