----------------------------- MODULE HealthMonitor -----------------------------
(***************************************************************************)
(* The dashboard's monitor of the cluster API                              *)
(* (modules/dashboard/internal/cluster-api/health-monitor.go): one worker, *)
(* created by the first client that asks for it, derives a status from the *)
(* endpoint slices of the service and publishes its changes on a bus;      *)
(* clients watch the status or wait for it to be SUCCESS                   *)
(* (modules/dashboard/graph/schema.resolvers.go).                          *)
(*                                                                         *)
(* The informer's handlers hold w.mu while the bus publishes.  The bus     *)
(* runs the handler of each client in a goroutine, and waits for its       *)
(* previous run before it starts the next.  Each client's channel is       *)
(* unbuffered: a send and the matching receive are one step.               *)
(*                                                                         *)
(* The informer's store has one slice of a name, the worker's cache one of *)
(* a uid.  After an interrupted watch the informer lists the slices again: *)
(* a deletion it missed arrives as a tombstone, a deletion and a creation  *)
(* under the same name as an update.                                       *)
(***************************************************************************)
EXTENDS Integers, Sequences, FiniteSets, SequencesExt

CONSTANTS Watchers,    \* clients of WatchHealthStatus
          Waiters,     \* clients of ReadyWait
          Slices,      \* uids of the service's endpoint slices, numbered
                       \*   in the order they come
          Name,        \* Name[e]: its name
          MaxChanges,  \* bound: changes the informer tells
          MaxLeaves    \* bound: clients that go

ASSUME HealthMonitorAssumption ==
  /\ MaxChanges \in Nat /\ MaxLeaves \in Nat /\ Watchers \cap Waiters = {}
  /\ Slices \subseteq Nat /\ IsFiniteSet(Slices)

Clients == Watchers \cup Waiters
Slice   == {"gone", "failing", "ready"}
Note    == [slice : Slices, state : Slice \cup {"unknown"}]  \* "unknown": a tombstone
Status  == {"UNKNOWN", "NOTFOUND", "PENDING", "FAILURE", "SUCCESS"}
None    == "none"

VARIABLES
  store,    \* the informer's store: a state for each slice
  born,     \* slices the informer has had
  replaced, \* slices that went without an event
  notes,    \* its changes that the handlers have not seen yet
  changes,  \* how many there were
  worker,   \* "none", "starting" (w.mu and the monitor's lock held), "running"
  cache,    \* w.esCache
  lastStatus,
  lost,     \* since it last had no slices, the service was not ready
  wMu,      \* w.mu: "free", "start", "informer", "panic" for a handler that fails
  subs,     \* the bus: clients whose handler is subscribed, in order
  toCall,   \* handlers the running publication has still to start
  run,      \* run[c]: the status c's handler was started with, None if its
            \*   lock is free
  sending,  \* sendStatus of c: who is in it: None, "bus", "first"; "panic" for
            \*   a send on a closed channel
  last,     \* last[c]: what c was told last, None at first
  overtaken,\* clients whose first status came after an update
  goroutine,\* c's goroutine: "off", "get", "first", "wait", "close", "done"
  first,    \* first[c]: the status it got
  client,   \* "off", "starting", "ask", "watch", "recv", "forward", "ok", "error"
  gone,     \* clients whose context is done
  closed,   \* clients whose channel is closed
  wasReady  \* waiters since whose question the service was ready

storeVars  == <<store, born, replaced, changes>>
sliceVars  == <<storeVars, notes>>
workerVars == <<worker, cache, lastStatus, lost, wMu>>
sendVars   == <<sending, last, overtaken>>
goVars     == <<goroutine, first, closed>>
clientVars == <<client, gone, wasReady>>
vars == <<sliceVars, workerVars, subs, toCall, run, sendVars, goVars, clientVars>>

Init ==
  /\ store = [e \in Slices |-> "gone"] /\ notes = <<>> /\ changes = 0
  /\ born = {} /\ replaced = {}
  /\ worker = "none" /\ cache = store /\ lastStatus = "UNKNOWN" /\ lost = FALSE
  /\ wMu = "free" /\ subs = <<>> /\ toCall = <<>>
  /\ run = [c \in Clients |-> None] /\ sending = run /\ last = run /\ first = run
  /\ overtaken = {} /\ goroutine = [c \in Clients |-> "off"] /\ client = goroutine
  /\ gone = {} /\ closed = {}
  /\ wasReady = {}

-----------------------------------------------------------------------------
(* The endpoint slices and the status.                                     *)

\* The informer's store changes, its handlers are told later.
Tell(e, s) ==
  /\ worker # "none" /\ changes < MaxChanges /\ changes' = changes + 1
  /\ notes' = Append(notes, [slice |-> e, state |-> s])
  /\ UNCHANGED <<workerVars, subs, toCall, run, sendVars, goVars, clientVars>>

OneOfAName(slices) ==
  \A d, e \in Slices : slices[d] # "gone" /\ slices[e] # "gone" /\ Name[d] = Name[e] => d = e

\* A uid is never given out again.
InOrder(slices) == \A e \in slices, d \in Slices : d < e => d \in slices

New(e) == e \notin born /\ InOrder(born \cup {e})

\* A slice is created, changed or deleted.  An update may leave its state as it
\* was.
Change(e, s) ==
  /\ Tell(e, s)
  /\ store[e] = "gone" => s # "gone" /\ New(e)
  /\ store' = [store EXCEPT ![e] = s] /\ born' = born \cup {e}
  /\ OneOfAName(store')
  /\ UNCHANGED replaced

\* While the watch was interrupted a slice was deleted and another one created
\* under its name: the informer tells an update of the one into the other.
Replace(d, e, s) ==
  /\ Tell(e, s)
  /\ store[d] # "gone" /\ s # "gone" /\ New(e) /\ Name[d] = Name[e]
  /\ store' = [store EXCEPT ![d] = "gone", ![e] = s]
  /\ born' = born \cup {e} /\ replaced' = replaced \cup {d}

\* While the watch was interrupted a slice was deleted.
Miss(d) ==
  /\ Tell(d, "unknown")
  /\ store[d] # "gone"
  /\ store' = [store EXCEPT ![d] = "gone"]
  /\ UNCHANGED <<born, replaced>>

Told(e) == (\E s \in Slice : Change(e, s) \/ \E d \in Slices : Replace(d, e, s)) \/ Miss(e)

Empty(es) == \A e \in Slices : es[e] = "gone"
Ready(es) == \E e \in Slices : es[e] = "ready"

\* An operator with an underscore in its name is a faulty form of the
\* definition it is named after: the properties are seen to fail when it takes
\* that definition's place.

\* (fault: PENDING does not last)
NewStatus_Forgets(es, old) ==
  IF Empty(es) THEN "NOTFOUND"
  ELSE IF Ready(es) THEN "SUCCESS"
  ELSE IF old = "NOTFOUND" THEN "PENDING" ELSE "FAILURE"

\* A service that comes up is pending until it is ready for the first time.
NewStatus(es, old) ==
  IF Empty(es) THEN "NOTFOUND"
  ELSE IF Ready(es) THEN "SUCCESS"
  ELSE IF old \in {"NOTFOUND", "PENDING"} THEN "PENDING" ELSE "FAILURE"

\* updateHealthStatus_UNSAFE, with w.mu held by holder: a new status is kept,
\* and its publication begins for the handlers subscribed now.  With nothing to
\* do w.mu is released at once.
UpdateStatus(es) ==
  LET new == NewStatus(es, lastStatus) IN
  /\ cache' = es /\ lastStatus' = new
  /\ lost' = IF Ready(es) THEN FALSE ELSE lost \/ Empty(es)
  /\ wasReady' = wasReady \cup
       IF Ready(es) THEN {c \in Waiters : client[c] \in {"watch", "recv"}} ELSE {}
  /\ IF new # lastStatus /\ subs # <<>>
       THEN toCall' = subs /\ wMu' = "informer"
       ELSE toCall' = <<>> /\ wMu' = "free"

\* (fault: deletions are not applied)
HandleNote_KeepsGone ==
  /\ worker = "running" /\ wMu = "free" /\ notes # <<>> /\ Head(notes).state # "unknown"
  /\ LET n == Head(notes) IN
       UpdateStatus([cache EXCEPT ![n.slice] = IF n.state = "gone" THEN @ ELSE n.state])
  /\ notes' = Tail(notes)
  /\ UNCHANGED <<storeVars, worker, subs, run, sendVars, goVars, client, gone>>

\* onInformerAdd, onInformerUpdate, onInformerDelete.
HandleNote ==
  /\ worker = "running" /\ wMu = "free" /\ notes # <<>> /\ Head(notes).state # "unknown"
  /\ UpdateStatus([cache EXCEPT ![Head(notes).slice] = Head(notes).state])
  /\ notes' = Tail(notes)
  /\ UNCHANGED <<storeVars, worker, subs, run, sendVars, goVars, client, gone>>

\* onInformerDelete takes what it gets for a slice: a tombstone is none.
HandleTombstone ==
  /\ worker = "running" /\ wMu = "free" /\ notes # <<>> /\ Head(notes).state = "unknown"
  /\ wMu' = "panic"
  /\ UNCHANGED <<sliceVars, worker, cache, lastStatus, lost, subs, toCall, run, sendVars,
                 goVars, clientVars>>

\* getOrCreateWorker, with the monitor's lock held: the informer lists the
\* slices and tells them one by one.
WorkerStart(c) ==
  /\ worker = "none" /\ client[c] = "off"
  /\ worker' = "starting" /\ wMu' = "start"
  /\ client' = [client EXCEPT ![c] = "starting"]
  /\ store' \in [Slices -> Slice] /\ OneOfAName(store')
  /\ born' = {e \in Slices : store'[e] # "gone"} /\ InOrder(born') /\ replaced' = {}
  /\ notes' \in SetToSeqs({[slice |-> e, state |-> store'[e]] :
                             e \in {d \in Slices : store'[d] # "gone"}})
  /\ changes' = Len(notes')
  /\ UNCHANGED <<cache, lastStatus, lost, subs, toCall, run, sendVars, goVars,
                 gone, wasReady>>

\* The store is synced: its slices are copied.
WorkerReady(c) ==
  /\ client[c] = "starting"
  /\ UpdateStatus([e \in Slices |-> IF store[e] = "gone" THEN cache[e] ELSE store[e]])
  /\ worker' = "running" /\ client' = [client EXCEPT ![c] = "ask"]
  /\ UNCHANGED <<sliceVars, subs, run, sendVars, goVars, gone>>

\* The client's context is done first: the worker is dropped, the next client
\* makes another.
WorkerFail(c) ==
  /\ client[c] = "starting" /\ Cardinality(gone) < MaxLeaves
  /\ worker' = "none" /\ wMu' = "free" /\ notes' = <<>>
  /\ client' = [client EXCEPT ![c] = "error"] /\ gone' = gone \cup {c}
  /\ UNCHANGED <<storeVars, cache, lastStatus, lost, subs, toCall, run, sendVars,
                 goVars, wasReady>>

-----------------------------------------------------------------------------
(* The bus.                                                                *)

\* (fault: it does not wait for the handler's previous run)
PublishNext_NoWait ==
  /\ toCall # <<>>
  /\ run' = [run EXCEPT ![Head(toCall)] = lastStatus] /\ toCall' = Tail(toCall)
  /\ UNCHANGED <<sliceVars, workerVars, subs, sendVars, goVars, clientVars>>

\* Publish: each handler's lock is taken, then its goroutine starts.
PublishNext ==
  /\ toCall # <<>> /\ run[Head(toCall)] = None
  /\ run' = [run EXCEPT ![Head(toCall)] = lastStatus] /\ toCall' = Tail(toCall)
  /\ UNCHANGED <<sliceVars, workerVars, subs, sendVars, goVars, clientVars>>

PublishEnd ==
  /\ wMu = "informer" /\ toCall = <<>> /\ wMu' = "free"
  /\ UNCHANGED <<sliceVars, worker, cache, lastStatus, lost, subs, toCall, run, sendVars,
                 goVars, clientVars>>

\* sendStatus: the client has not gone and was not told the same before.
MayOffer(c, status) == c \notin gone /\ last[c] # status

\* (fault: the handler's lock is not released when there is nothing to send)
HandlerRun_Keeps(c) ==
  /\ run[c] # None /\ sending[c] = None /\ MayOffer(c, run[c])
  /\ sending' = [sending EXCEPT ![c] = "bus"]
  /\ last' = [last EXCEPT ![c] = run[c]]
  /\ UNCHANGED <<sliceVars, workerVars, subs, toCall, run, overtaken, goVars, clientVars>>

\* The handler's goroutine takes the lock of sendStatus.
HandlerRun(c) ==
  /\ run[c] # None /\ sending[c] = None
  /\ IF MayOffer(c, run[c])
       THEN /\ sending' = [sending EXCEPT ![c] = "bus"]
            /\ last' = [last EXCEPT ![c] = run[c]]
            /\ UNCHANGED run
       ELSE run' = [run EXCEPT ![c] = None] /\ UNCHANGED <<sending, last>>
  /\ UNCHANGED <<sliceVars, workerVars, subs, toCall, overtaken, goVars, clientVars>>

HandlerPanic(c) ==
  /\ sending[c] = "bus" /\ c \in closed
  /\ sending' = [sending EXCEPT ![c] = "panic"]
  /\ UNCHANGED <<sliceVars, workerVars, subs, toCall, run, last, overtaken, goVars,
                 clientVars>>

-----------------------------------------------------------------------------
(* The goroutine of a client.                                              *)

goRest == <<sliceVars, workerVars, toCall, run, clientVars>>

\* GetHealthStatus for the initial state, which takes w.mu.
FirstGet(c) ==
  /\ goroutine[c] = "get" /\ wMu = "free"
  /\ first' = [first EXCEPT ![c] = lastStatus]
  /\ goroutine' = [goroutine EXCEPT ![c] = "first"]
  /\ UNCHANGED <<goRest, subs, sendVars, closed>>

\* sendStatus of the initial state, maybe after an update.
FirstRun(c) ==
  /\ goroutine[c] = "first" /\ sending[c] = None
  /\ IF MayOffer(c, first[c])
       THEN /\ sending' = [sending EXCEPT ![c] = "first"]
            /\ last' = [last EXCEPT ![c] = first[c]]
            /\ overtaken' = IF last[c] = None THEN overtaken ELSE overtaken \cup {c}
            /\ UNCHANGED goroutine
       ELSE goroutine' = [goroutine EXCEPT ![c] = "wait"] /\ UNCHANGED sendVars
  /\ first' = [first EXCEPT ![c] = None]
  /\ UNCHANGED <<goRest, subs, closed>>

\* The context is done.  The bus looks a handler up by its code, which all
\* clients share: the one subscribed first is removed.
Unsubscribe(c) ==
  /\ goroutine[c] = "wait" /\ c \in gone
  /\ subs' = IF subs = <<>> THEN subs ELSE Tail(subs)
  /\ goroutine' = [goroutine EXCEPT ![c] = "close"]
  /\ UNCHANGED <<goRest, sendVars, first, closed>>

CloseChannel(c) ==
  /\ goroutine[c] = "close"
  /\ closed' = closed \cup {c} /\ goroutine' = [goroutine EXCEPT ![c] = "done"]
  /\ UNCHANGED <<goRest, subs, sendVars, first>>

-----------------------------------------------------------------------------
(* The clients.                                                            *)

clientRest == <<sliceVars, workerVars, toCall, run>>

\* getOrCreateWorker returned to c.
HasWorker(c) == client[c] = "ask" \/ (client[c] = "off" /\ worker = "running")

\* ReadyWait returns at once if the service is ready.
Ask(c) ==
  /\ c \in Waiters /\ HasWorker(c) /\ wMu = "free"
  /\ IF lastStatus = "SUCCESS"
       THEN client' = [client EXCEPT ![c] = "ok"] /\ wasReady' = wasReady \cup {c}
       ELSE client' = [client EXCEPT ![c] = "watch"] /\ UNCHANGED wasReady
  /\ UNCHANGED <<clientRest, subs, sendVars, goVars, gone>>

\* WatchHealthStatus: subscribe, start the goroutine.
Watch(c) ==
  /\ client[c] = "watch" \/ (c \in Watchers /\ HasWorker(c))
  /\ subs' = Append(subs, c)
  /\ goroutine' = [goroutine EXCEPT ![c] = "get"]
  /\ client' = [client EXCEPT ![c] = "recv"]
  /\ UNCHANGED <<clientRest, sendVars, first, closed, gone, wasReady>>

\* (fault: any status counts as ready)
AfterReceive_Any(c, status) == IF c \in Waiters THEN "ok" ELSE "forward"

\* What a client does with a status: a watcher hands it on, a waiter waits for
\* SUCCESS.
AfterReceive(c, status) ==
  IF c \in Watchers THEN "forward" ELSE IF status = "SUCCESS" THEN "ok" ELSE "recv"

\* The status that is at its send is received.
Receive(c) ==
  /\ client[c] = "recv" /\ sending[c] \in {"bus", "first"} /\ c \notin closed
  /\ client' = [client EXCEPT ![c] = AfterReceive(c, last[c])]
  /\ sending' = [sending EXCEPT ![c] = None]
  /\ IF sending[c] = "bus"
       THEN run' = [run EXCEPT ![c] = None] /\ UNCHANGED goroutine
       ELSE goroutine' = [goroutine EXCEPT ![c] = "wait"] /\ UNCHANGED run
  /\ UNCHANGED <<sliceVars, workerVars, toCall, subs, last, overtaken, first, closed,
                 gone, wasReady>>

\* The websocket takes the status, unless its client has gone.
Forward(c) ==
  /\ client[c] = "forward" /\ c \notin gone
  /\ client' = [client EXCEPT ![c] = "recv"]
  /\ UNCHANGED <<clientRest, subs, sendVars, goVars, gone, wasReady>>

\* The client's context ends.
Leave(c) ==
  /\ c \notin gone /\ Cardinality(gone) < MaxLeaves
  /\ client[c] \in {"recv", "forward", "ok"}
  /\ gone' = gone \cup {c}
  /\ UNCHANGED <<clientRest, subs, sendVars, goVars, client, wasReady>>

\* A watcher ends when its channel is closed, a waiter with the context.
ClientEnd(c) ==
  /\ client[c] = "recv" /\ (IF c \in Watchers THEN c \in closed ELSE c \in gone)
  /\ client' = [client EXCEPT ![c] = "error"]
  /\ UNCHANGED <<clientRest, subs, sendVars, goVars, gone, wasReady>>

-----------------------------------------------------------------------------

BusStep(c) == HandlerRun(c) \/ HandlerPanic(c)
GoStep(c)  == FirstGet(c) \/ FirstRun(c) \/ Unsubscribe(c) \/ CloseChannel(c)
ClientStep(c) == Ask(c) \/ Watch(c) \/ Receive(c) \/ Forward(c) \/ ClientEnd(c)

\* A panic ends the program.
Running == wMu # "panic" /\ \A c \in Clients : sending[c] # "panic"

Step ==
  \/ HandleNote \/ HandleTombstone \/ PublishNext \/ PublishEnd
  \/ \E e \in Slices : Told(e)
  \/ \E c \in Clients : \/ WorkerStart(c) \/ WorkerReady(c) \/ WorkerFail(c)
                        \/ BusStep(c) \/ GoStep(c) \/ ClientStep(c) \/ Leave(c)

Next == Running /\ Step

Spec == Init /\ [][Next]_vars

\* Every goroutine goes on when it can, and a client that is there receives.
Fairness ==
  /\ WF_vars(HandleNote) /\ WF_vars(PublishNext) /\ WF_vars(PublishEnd)
  /\ \A c \in Clients : /\ WF_vars(WorkerReady(c)) /\ WF_vars(BusStep(c))
                        /\ WF_vars(GoStep(c)) /\ WF_vars(ClientStep(c))

FairSpec == Spec /\ Fairness

-----------------------------------------------------------------------------
(* Properties.                                                             *)

Tellable == Status \cup {None}

TypeOK ==
  /\ store \in [Slices -> Slice] /\ notes \in Seq(Note)
  /\ born \subseteq Slices /\ replaced \subseteq Slices
  /\ changes \in Nat /\ worker \in {"none", "starting", "running"}
  /\ cache \in [Slices -> Slice] /\ lastStatus \in Status /\ lost \in BOOLEAN
  /\ wMu \in {"free", "start", "informer", "panic"}
  /\ subs \in Seq(Clients) /\ toCall \in Seq(Clients)
  /\ run \in [Clients -> Tellable] /\ last \in [Clients -> Tellable]
  /\ first \in [Clients -> Tellable]
  /\ sending \in [Clients -> {None, "bus", "first", "panic"}] /\ overtaken \subseteq Clients
  /\ goroutine \in [Clients -> {"off", "get", "first", "wait", "close", "done"}]
  /\ client \in [Clients -> {"off", "starting", "ask", "watch", "recv", "forward", "ok", "error"}]
  /\ gone \subseteq Clients /\ closed \subseteq Clients
  /\ wasReady \subseteq Waiters
  /\ wMu # "informer" => toCall = <<>>

\* Once the informer's handlers have caught up the cache is the informer's
\* store, though Start copied it while changes waited to be handled; save for
\* slices that were replaced under their name while the watch was interrupted:
\* nothing takes them out of the cache (health-monitor.go:458).
CacheCurrent ==
  worker = "running" /\ notes = <<>> =>
    \A e \in Slices \ replaced : cache[e] = store[e]

\* The status says what the slices say; that a service is pending rather than
\* failing says that it came up and was not ready since.
StatusTrue ==
  worker = "running" =>
    /\ lastStatus = "NOTFOUND" <=> Empty(cache)
    /\ lastStatus = "SUCCESS" <=> Ready(cache)
    /\ lastStatus = "PENDING" <=> ~Empty(cache) /\ ~Ready(cache) /\ lost

\* ReadyWait returns only if the service was ready at some moment since it was
\* called, whichever of the two senders told it.
WaitedForReady == \A c \in Waiters : client[c] = "ok" => c \in wasReady

\* Nothing is on its way to c.
Settled(c) == wMu = "free" /\ run[c] = None /\ sending[c] = None /\ goroutine[c] = "wait"

\* No update is lost: when all is settled a client that is subscribed was last
\* told the status, save for one whose initial state came after an update, with
\* an older status.
Current ==
  \A c \in Clients :
    (Settled(c) /\ c \notin gone \cup overtaken /\ \E i \in 1..Len(subs) : subs[i] = c)
      => last[c] = lastStatus

\* A client that no longer receives.
SomeoneLeft == gone # {} \/ \E c \in Waiters : client[c] = "ok" /\ goroutine[c] # "off"

\* A publication ends and w.mu is released, as long as every client receives:
\* a client that does not can stop the worker.
Unfrozen == wMu = "informer" ~> (wMu = "free" \/ SomeoneLeft)

\* A watcher that goes has its channel closed, unless a status was on its way:
\* nobody takes what is at its forward any more, and the send behind it stays.
ClosesUnlessHeld ==
  \A c \in Watchers :
    (c \in gone /\ client[c] = "recv") ~> (c \in closed \/ client[c] = "forward" \/ ~Running)

\* One client does not hold up the monitor or itself: the lock is released and
\* the channel of who goes is closed, up to what the client itself leaves.
NobodyHeld == Unfrozen /\ ClosesUnlessHeld
=============================================================================
