# Kubetail: specifications

Kubetail reads the logs of the containers of a Kubernetes cluster, merges them
by time and shows them in a terminal or a browser. This directory holds TLA+
modules of its core, the TLC configurations that check them and theorems that
TLAPS proves. Paths below are relative to the repository's root (`modules/...`,
`crates/...`).

    tlc -workers 2 -config Past.cfg MCPastFetch.tla         # model-check one run
    tlapm PastFetchProofs.tla                               # check the proofs

`PROJECT.json` lists every run, the source lines each definition stands for, the
faults that show a property can fail, the findings, the hazards and the theorems.

## The system

| component | state | operations | talks to | makes it correct |
|---|---|---|---|---|
| **Log stream** `modules/shared/logs/stream.go` | `sources`, `err`, `isStarted`, `rootCtx`, the channels `pastCh`, `futureCh`, `outCh`, one wait group; in the forwarder the buffer and `lastTSMap` | `Start`, `Close`, `Err`, `Sources`, `handleSourceAdd`, `handleSourceDelete`; goroutines: past phase, a follower per source, forwarder, closer | source watcher (callbacks), fetchers (channels), the caller (`outCh`) | order, no loss, no duplicates, the limit, an error that shows, an end of every goroutine, no send on a closed channel |
| **Log fetchers** `log-fetcher.go`, `helpers.go`, `util.go`, `options.go` | position in a log, batch sizes, heap of the merge | `StreamForward`, `StreamBackward` for the Kubernetes API and for the agent; `mergeLogStreams`, `podLogsReader` | Kubernetes API, cluster agent (gRPC) | the whole log, in order, once; an end when the consumer stops |
| **Source watcher** `source-watcher.go` | `sources`, `nodeMap`, the workload index, `isReady` | `Start`, informer handlers, `Set`, `Subscribe`, `Unsubscribe`, `Close` | informers, the event bus (`asaskevich/EventBus`), log streams, GraphQL | subscribers converge to the wanted set, no deadlock |
| **Workload index** `source-watcher.go` | objects, lists by kind, ownership | `Add`, `Update`, `Remove`, `GetWorkloads`, `GetPodsOwnedByWorkload` | source watcher | answers as if computed from the live objects |
| **Health monitor** `modules/dashboard/internal/cluster-api/health-monitor.go` | endpoint slices, last status, worker cache | `Start`, `Shutdown`, `WatchHealthStatus`, `ReadyWait`, informer handlers | informer, bus, GraphQL | watchers see the last status, one client cannot stop another |
| **Connections** `modules/shared/k8shelpers` | caches of clients and factories, kubeconfig, service account token, permission cache | `GetOrCreate...`, `NewInformer`, `WaitUntilReady`, `Shutdown`, reload, refresh | Kubernetes API, file watcher | one computation per key, fresh configuration and token |
| **GraphQL of the dashboard** `modules/dashboard/graph` | one goroutine and channel per subscription | watches over several namespaces, paged lists, log records | connections, streams, websocket | events in order, an end when the client leaves |
| **GraphQL of the cluster API** `modules/cluster-api/graph` | as above, for log records and metadata | | agents, streams | |
| **CLI** `modules/cli` | flags, the consumer of a stream | `logs`, `serve` | streams | |
| **rgkl** `crates/rgkl` | file offset, searcher | forward and backward search, offset by timestamp, follow | file system | the records asked for, none twice |
| **Cluster agent** `crates/cluster_agent` | watched files | `LogRecords`, `LogMetadata` | rgkl, inotify, gRPC | watched files are the directory's files |
| **Dashboard UI** `dashboard-ui/src` | pages of the viewer, cursors, server status | load before and after, follow | GraphQL | |

What is hard to test in it is concurrency: a stream of two sources that follows
runs seven goroutines over unbuffered channels, with one context, one mutex, two
channels that are closed by somebody other than their sender, and callbacks that
come through an asynchronous bus. Errors arrive as records among the others, and
position in a log is known by timestamps that need not be unique. `PROJECT.json`
lists these hazards at their lines.

## Modules

| module | models | depends on |
|---|---|---|
| `OrderedMerge` | what the past phase promises: an abstract machine that always takes the first record left of all logs, up to a limit, and then stops | |
| `PastFetch` | the past phase in detail: forward or backward fetchers, the heap merge, the loop of `startHead_UNSAFE` or `startTail_UNSAFE` | `OrderedMerge` (refinement) |
| `PastFetchProofs` | theorems about `PastFetch` and about `KubeBackward`, the fetcher below it | |
| `KubeBackward` | `KubeLogFetcher.StreamBackward`: batches of growing size over a log that grows and rotates | |
| `Stream` | the life of one `Stream`, the past phase abstracted to "in order, up to the end that was read" | what `PastFetch` establishes |
| `StreamProofs` | theorems about `Stream` | |
| `SourceSync` | source watcher, event bus and the stream's `Start`, handlers and `Close`, with both locks: how the stream's sources follow the watcher's | |
| `SourceSyncProofs` | theorems about `SourceSync` | |
| `WorkloadIndex` | the watcher's workload index and its informers: from the events of workloads, pods and nodes to the sources of the paths | |
| `WorkloadIndexProofs` | theorems about `WorkloadIndex` | |
| `HealthMonitor` | the dashboard's monitor of the cluster API: worker, informer, bus, clients that watch or wait | |
| `HealthMonitorProofs` | theorems about `HealthMonitor` | |
| `KubeConfigWatch` | the desktop dashboard's kubeconfig: file, debounced reloads, bus, the connection manager and the clients as subscribers | |
| `Connections` | the manager's caches: nested locks by key, values built on one another, callers of the five entry points | extends `KubeConfigWatch` |
| `ConnectionsProofs` | theorems about both | |
| `ListWatch` | the dashboard's lists over several namespaces: merged pages, merged watches and the two hooks of the user interface | |
| `ListWatchProofs` | theorems about `ListWatch` | |
| `LogFile` | one request of the agent for a log file (`rgkl`): the search of the offsets, the read forward or backward, the watch and the follower, while the file is written and rotated | |
| `LogFileProofs` | theorems about `LogFile` | |
| `MC*` | sets of values for the runs | |

An operator with an underscore in its name (`MergePop_Early`) is a faulty form of
the definition it is named after: a bug that could be made at that place. It is
part of no behaviour and marked "(fault: ...)"; `PROJECT.json` names, for each property, one such fault
under which TLC finds the property violated.

### PastFetch

A record is a source, a place in its log and a timestamp. `feed[s]` is what the
log of `s` holds, in reading order, and the constant `Feeds` gives the logs to
consider. Each source has a fetcher goroutine (`fetcher`, `pos`), which reads and
sends on its own unbuffered channel. The merge (`merge`, `heap`, `want`, `cur`)
waits for the next record of every open stream, pops the least of the heap and
sends it. The consumer (`taker`) counts, keeps the tail, reverses and sends to
`pastCh`. Send and receive on an unbuffered channel are one step. When both sides
of a channel select on the context, nothing passes once it is done; a side that
does not select (the agent's fetcher) waits until somebody receives. At its end a
fetcher closes its channel; the agent's does so in the callback of its gRPC dispatcher,
which the model takes to be called.

The taker's `cancel` runs when the consumer returns, by the deferred call;
`Cancel` is the end of the stream's own context, at any moment.

`Ord` is the heap's order: by time in head and all mode, against time in tail
mode, where the fetchers read backward.

### Stream

`log[s]` is written while the stream runs; a record is its source, its place and
who read it (`via`: the past phase, or the follower of one opening). The phases of
`Start` are actions of their own (`StartPast`, one `OpenFollow` per source,
`StartDone`), since the containers write in between; `s.mu` is held over them. A
follower (`futPc`) receives from its log, sends to `futureCh`, and on an error
sets `err` and cancels the context. The forwarder (`fwd`) has its four loops:
past records while it keeps what followers send, the drain, the sorted replay
that skips what was sent, and the last loop. `CloseCancel` and `CloseOut` are the
two halves of `Close`. A panic (send on a closed channel) ends only the goroutine
in the model; in the program it ends the process.

Mode and follow are in the variable `options`, chosen at the start from the
constant `Options`, so that one run covers several modes.

Left out: the grep and time filters; the order in which `startFollow_UNSAFE` walks
a set; the record's text.

`Stream` abstracts the watcher to events that may come at any time for the sources
in `Late`; `SourceSync` has the watcher in detail and abstracts the reading of logs
to `opened`, how often a log was opened.

### KubeBackward

A record is its place in the log; the log is `first..last`, `Write` appends and
`Rotate` drops old records. The actions are the parts of the loop: request, read a
batch with its stop condition, send newest first, compute the next size. Records
have distinct timestamps unless `Pairs` is chosen for them, where two neighbours
share one.

### SourceSync

`index` is what matches the paths, as the informers report it. An update
(`updateSources_UNSAFE`) runs with `wMu` held over several steps: `Update` computes
the differences, `PublishAdd` and `PublishDelete` hand one event after the other to
the bus, `UpdateEnd` replaces `wSources` and releases the lock. The bus is that of
`asaskevich/EventBus` with transactional asynchronous handlers: the publisher waits
until the previous run of the same handler has returned (`nextAdd`, `nextDelete`),
then starts the handler in a goroutine (`SpawnAdd`, `SpawnDelete`). The two handlers
may run side by side. They and `Start` take `s.mu` (`MuFree`); `StartSet` needs
`w.mu`. `deleted` and `refused` are history variables of the properties.

Left out: the watcher's own `Close`. Which change of a pod or a node makes a
container match is the subject of `WorkloadIndex`.

### WorkloadIndex

`live` is the cluster, and `told` what the informers' events said up to now: events of
one object come in the order of its changes, those of different kinds in any order, and a
change that was overtaken before its handler ran is one event. `pending` are the objects
of the first lists, which `Start` waits for (`Ready`). The index is the code's three maps
(`dataMap`, `listMap`, `ownershipMap`, whose keys are kept apart in `ownerKeys`, since an
object without an entry is a leaf and one with an empty entry is not). Each handler is one
action, for `w.mu` is held over it: it changes the index (`IndexAdd`, `IndexUpdate`,
`IndexRemove`) and computes the sources anew (`UpdateSources`); that the publication of
the difference takes several steps is modelled in `SourceSync`. After an interrupted watch
an informer lists again: a deletion it missed comes as a tombstone, which `Remove` does
not know, and a deletion with a creation under the same name as an update. `odd` is a
history variable: the objects of which the informers told less than all, and those whose
owner references changed, which `Update` does not follow.

Left out: the filters by region, zone, system and node, several containers of a pod (a
container is a function of its pod), several namespaces (each has an index of its own).

### KubeConfigWatch and Connections

The content of the kubeconfig is the number of changes made to it. `Write` and `Replace`
change it, the second by giving the name to another file, as editors do, which fsnotify
then does not watch. `HandleEvent` starts the debounce timer anew, `Fire` starts its
function, and since a function that has started cannot be stopped there may be several
side by side (`callback[i]`): `Reload` under `w.mu`, `Publish` without it, `CallNext` per
subscriber, which waits for the previous run of that handler. The subscribers are the
connection manager, which takes its first configuration and subscribes later
(`ManagerGet`, `ManagerSubscribe`), and the clients: a goroutine that sends the first
configuration, subscribes and waits for the context, and a handler that sends the next
ones. `unseen` (a change fsnotify could not see) and `stale` (a subscriber that missed a
publication, or was handed an older configuration after a newer one) are history
variables. A panic ends the program (`crashed`).

`Connections` adds the caches. A key is a layer and a context: a REST config, what is
built on it (clientset, dynamic client), and what is built on the clientset (informer
factory, the fact that the API answered). A caller goes down from what it asks for
(`Lock`, which holds every lock on the way), computes the lowest and comes up again
(`Compute`, `ComputeFails`, `Pass`, `Answer`); `made` numbers the values and `base` keeps
on which value each was built. `Allowed` and `Denied` are the permission check of
`NewInformer`, `Cancel` the end of the context of `WaitUntilReady`.

Left out: `Shutdown`, the manager that runs in a cluster, namespaces of factories, the
errors channel of fsnotify, and a caller whose context is done before it starts.

### ListWatch

`log` is the API: its changes, whose number is the resource version. A page of a
namespace is cut by name from what it held at some version; `start` and `rvs` are what the
continue token holds. `MergeResults` cuts the joint pages of all namespaces and decides
where to go on, `Subscribe` starts one watch per namespace from the versions of the lists,
`Receive`, `ReceiveBad` and `Quit` are the three ways through the loop of `watchResource`,
and `Deliver` is the send on the common channel together with what the hook does with the
event: show it (`useListQueryWithSubscription`) or count it
(`useCounterQueryWithSubscription`). The counter's list is one page of one object. `pos[n]`
is the last event of namespace `n` that this connection delivered, `seen[n]` the last one
that any did.

`Lose` is the loss of the websocket. Its client connects again for ever and sends the same
subscription, with the versions the hook had when it subscribed (apollo-client.ts:39-40,
hooks.ts:406-409): `Subscribe` once more from `rvs`, so that the API tells all events since
then again. The list hook adds and drops objects by their identity; the counting hook adds
and subtracts, and `recounted` is by how much the lost connections moved it.

Left out: one namespace alone (its page is passed on as it is); the next query of a hook
after the end of a subscription, or after the error of an expired watch; the goroutines of a
lost connection (they have a channel of their own that nobody receives from, and end as
after `Leave`); a subscription of the list hook from an empty resource version after its
first page failed (it has no `error` check at hooks.ts:289; what comes is dropped as long as
there is no list); label selectors (the API then sends no remaining count,
and the code takes the list for complete), and a limit of 0 with several namespaces.

### HealthMonitor

`store` is the informer's store of endpoint slices, `notes` its changes in the order
in which the handlers will hear of them. A slice is a uid, as in the worker's cache; the
informer's store has one slice of a `Name`. `Change` is what a watch tells; after an
interrupted watch the informer lists again, and a slice that was deleted and created anew
is an update of the one into the other (`Replace`), one that is missing a tombstone
(`Miss`). The first leaves the old uid in the cache, the second is not the slice that
`onInformerDelete` takes it for: `HandleTombstone` panics. `HandleNote` is any of the three informer
handlers with `updateHealthStatus_UNSAFE`: it takes `w.mu`, applies the change to the
cache and, if the status is new, begins a publication that holds `w.mu` over several
steps (`PublishNext` once per subscribed handler, `PublishEnd`). As in `SourceSync`
the publisher waits until a handler's previous run has returned. `WorkerStart` and
`WorkerReady` are the halves of `Start`, with `w.mu` held while the informer lists the
slices; a client whose context ends first makes it fail (`WorkerFail`).

A client has a goroutine of the monitor (`goroutine`), which sends the initial state,
waits for the context, unsubscribes and closes, and a handler run by the bus (`run`).
Both go through `sendStatus`, whose lock is `sending`; the channel is unbuffered. The
client itself (`client`) asks, watches, receives and, if it is a watcher, forwards to
the websocket. `overtaken`, `lost`, `wasReady` and `replaced` are history variables
of the properties. A panic ends the program (`Running`).

Left out: `Shutdown`, the worker that does nothing where the cluster has no endpoint
slices, and the in-cluster monitor, which has one worker of the same kind.

### LogFile

A position is a byte of all that the container writes; a log is a sequence of `Line`s with
their places. A line has its timestamp and tag in its first byte, its newline in its last
one and the message in between, so that a read may begin or stop in the middle of a line:
`Parse` says whether it finds a timestamp there. `Write` appends up to the end of a line or
a part of one, as the runtime may; `Rotate` renames the file, and what is written later is
in another one (`OldSize` and `NewSize` are what the two readers see). `torn` are the lines
of which some read could have seen a part.

The request's task (`pc`) opens the file, searches the start and the end (`Probe`, one
round of `find_nearest_offset`, with `Scan` for `scan_timestamp`), reads between them, and
then ends or watches the file. The read forward has one action per line and one for what is
left at its end (`ReadLine`, `ReadEnd`); the read backward those of the reverse reader's
`next_line`: a line, a rest without newline that is kept for the chunk before, the next
chunk (`BackLine`, `BackKeep`, `BackFill`, `BackEnd`), with chunks of two bytes for 64 KB.
The follower is a watch (`Watch`), the reader at the end of the file (`Seek`), and the loop
of `listen_for_changes`, for which `event` is that some change was reported. `Send` is
`process_output`: a record, nothing, or the panic of its `unwrap`; a client that is gone
cancels the request at its next record. Times do not go back in the logs of the run.

Left out: logs in Docker's JSON format; the matcher of `grep`; the limit of 1 MB for a
line; a timestamp of which a part was written; that the runtime goes on for a moment with
the file it renamed; spaces at the end of a message, which the search does not count.

## Runs

| run | module | shows | bounds |
|---|---|---|---|
| `Past` | `MCPastFetch` | the window asked for, or in head mode an error; order; every goroutine ends save an agent's fetcher at its send; implements `OrderedMerge` | head, tail and tail with agent fetchers; two sources, every pair of sorted logs of up to two records with times 1..3, N = 2, failing reads and a cancellation |
| `BackwardRead` | `MCKubeBackward` | a batch continues where the last one ended, the beginning is reached, the loop ends unless the log is rotated | 8 records, batches of 2 (10 in the code): three batches and a clamped one; writes, rotation, failures, cancellation |
| `StreamFollow` | `MCStream` | nothing is sent on a closed channel; the join of past and future keeps order and loses nothing | head, tail with follow, all with follow; one source from the start, one added late; 3 records; failing reads and opens, the end of the context |
| `StreamStop` | `MCStream` | an end has a reason and reaches every goroutine; what is written while it is followed arrives; without follow the stream ends by itself | agent fetcher; one source, deleted and added again; 1 record; errors, the container's end, the caller's `Close` |
| `SyncHandover` | `MCSourceSync` | the stream gets the watcher's sources exactly, each log is read once, all events are handled once `Start` returned | two containers, three changes |
| `Index` | `MCWorkloadIndex` | the sources are at every moment those that the objects told so far amount to, and come to be those of the cluster | a deployment with replica set and pod, a pod that may be replaced by another of its name, their node; three changes, tombstones, missed replacements, changed owners |
| `MonitorWatch` | `MCHealthMonitor` | cache and status are true; no update is lost; a wait ends only after the service was ready; the worker's lock is released while clients receive; a watcher that goes has its channel closed unless a status is on its way | one watcher and one waiter, two slices of one name in three states, two changes, replacements and tombstones among them, one client that goes |
| `Connections` | `MCConnections` | the watcher has what is in the file; subscribers are not left behind but in the two ways the code has; one connection per context; every call returns | three changes with one client, one change with two clients, one change with two callers, three callers; a content that cannot be loaded, one without the context |
| `Lists` | `MCListWatch` | what the list shows of a namespace is what it held at the last event the hook had of it; the counter is wrong by what was told again and by nothing else; watches end together | two namespaces, three names, pages of two, two changes, one loss of the websocket; at the start alternating names, one namespace fills the page |
| `LogFile` | `MCLogFile` | the search by bytes finds the line it should; what is sent is the time asked for, in order and once; a follower loses nothing but what is written before it begins, and catches up; a request that does not follow, or is cancelled, ends | every log of up to three lines of four kinds and one of five, with 12 requests each; logs of up to three lines that are written from the beginning, in parts, rotated, for five requests; chunks of two bytes |
| `StreamLeave`, `SyncDeadlock` | | findings | the least number of records or changes that shows each |

The bounds are the constants `MaxWrites` (records written), `MaxAdds` (ADDED events
per source), `MaxNum` (the limit, from the code), `MaxLast` and `MaxTail`
(records and batch size of `KubeBackward`), `MaxUpdates` (changes the informers
report), `MaxChanges` (changes of the slices, of the cluster's objects or of the lists),
`MaxLeaves` (clients that go), `MaxLosses` (of the websocket), `MaxWrites` and `Scopes` in `Connections` (changes of the
file, and which clients and callers take part with how many of them). Interference needs two sources: the
merge compares heads pairwise and the forwarder treats sources independently. Two
records per log let a log be cut in its middle, empty or exhausted before the other.
Three records in `StreamFollow` are one for the past, one for the gap between the
two phases and one for the future. Two containers in `SyncHandover` let an update
publish one event while the handler works on another; three changes let a container
come, go and come back around `Start`. Two clients in `MonitorWatch` let one hold up
the publication to the other and make the bus remove the wrong handler; two uids of one
name are what a replacement needs; a slice that the worker finds and two changes give every change of status, PENDING included, while
an earlier one is still being sent. Three changes in `Index` let an owner, what it owns
and their node come or go in any order; two pods of one name are what a replacement needs,
and two levels of owners are the deepest the code has. Three writes in `Connections` give
two reloads side by side and a change after them; two callers are enough to compute a key
twice, and three to wait in a chain of locks. In `Lists` two changes and two versions let a
namespace be listed before and after a change of the other; pages of two cut three or four
objects once in the middle of the names; an object that is created before the lists has its
name in both namespaces. One loss lets both changes be told twice. In `LogFile` lines of two to four bytes with chunks
of two put a newline at every place of a chunk; three lines are one that is read, one in
the gap and one that is followed; times up to 2 and requests up to 3 ask for something
before, between, at and behind the lines there are.

Deadlock is checked except where the system really stops: a stream that was closed or a container
that ended leaves nothing to do (`StreamStop`), following streams wait for records
that the containers do not write (`StreamFollow`), nothing more happens in the cluster or
to the file (`SyncHandover`, `Index`, `MonitorWatch`, `Connections`, `Lists`, `LogFile`), and
`SyncDeadlock` states its deadlock as a property.

### Fairness

Weak fairness for every goroutine: the Go scheduler runs what can run. Strong
fairness for `FwdRange(f)`: the forwarder receives from many senders on one
channel, and Go queues waiting senders first come, first served; the send of one
follower is disabled whenever the forwarder is busy, so weak fairness would say
nothing. The caller is assumed to receive what the stream sends until it closes
it. In `SourceSync` weak fairness is enough: who waits for a lock competes only
with holders that take it finitely often (`Start` once, an informer for each of its
changes). In `HealthMonitor` every goroutine and every client that
has not gone goes on when it can. In `WorkloadIndex` the informers deliver and `Start` goes
on; what is missed or replaced needs no fairness. In `Connections` every caller goes on
once its lock is free and the API answers it, well or not; the watcher needs none, since
its properties speak of moments at which it is quiet. In `ListWatch` a goroutine that has something for the
hook delivers it and the last one closes the channel; `Quit` is strongly fair: a goroutine whose context is done and whose watch was closed
may take the closed channel's zero value again and again, but Go's `select` chooses at
random among what is ready. In `LogFile` the request's task goes on: its client receives, or
is found gone when it does not. The containers, failures, the source watcher's events and the caller's Close
have no fairness, except that a container's log read reaches what was written.

## Findings

Each is a run that checks one sentence of the code base and that TLC refutes.

- `StreamLeave`: `Close` closes `outCh` under the forwarder's send; a panic.
- `SyncDeadlock`: `Start` holds the stream's lock and waits in `Set` for the
  watcher's; an informer's handler holds that one, and publishes a second event
  while the handler of the first waits for the stream's lock.

Limits the models show: by themselves, or when a constant is changed or one of the
definitions named here is checked as a property. No run is kept for them.

- `Stream`, `NoGap`: a record written after the past was read (stream.go:155-169) and before
  the follower opened the end of the log is in neither, though the CLI announces "Return
  all records and stream new ones" (cli/cmd/logs.go:104).
- `PastFetch`, `WindowOrError` without its `~Reverse`: an error record has the zero timestamp and the
  reversed heap hands it out last, so that the limit cuts it off: a log that cannot be
  read is missing without a word (stream.go:202, util.go:168).
- `KubeBackward`, `Ends`: when the log is rotated during the read, the first timestamp never
  comes up and the loop asks for growing batches for ever (log-fetcher.go:185, 236-238).
- `ListWatch`, `PagesComplete`: the next page starts behind the last name shown in every
  namespace (schema.helpers.go:375-386). A name that several namespaces have, like the
  `kube-root-ca.crt` of each, is left out of the list where a page ends at it, though the
  hook means to "fetch rest" and to "wait for all data to get fetched" (hooks.ts:276, 287).
- `ListWatch`, `CountTrue` without `recounted`: the subscription that is sent again after a
  lost websocket starts at the versions of the lists, and the counting hook counts what
  is told again once more (apollo-client.ts:39, hooks.ts:406-409, 426); the count stays wrong
  until the page is loaded anew. `ViewConsistent` without `ToldAgain`: the list shows objects
  that are deleted until their deletion is told again.
- `ListWatch`: a later page that fails leaves the hook without its subscription; a
  namespace whose watch cannot be started leaves the watches of those before it running;
  and a client that left leaves a goroutine at its send for ever.
- `WorkloadIndex`: an object whose deletion arrives as a tombstone stays in the index, and its
  container stays a source; one that was replaced while the watch was interrupted is in
  no list, and its container is not found; a changed owner is not followed. README.md:25
  promises "in sync as containers start, stop or get replaced". `SourcesTrue` excepts
  these (`odd`). A change of a node's labels makes new sources of all its containers,
  whose logs are then followed anew.
- `KubeConfigWatch`: a kubeconfig that another file replaced is loaded once and not watched
  any more (`unseen`); a change between a subscriber's first configuration and its
  subscription is missed, and two publications may overtake each other (`stale`); the
  channel of a client is closed before its handler is unregistered, and a handler may
  send on it (`crashed`); the first send does not look at the context; unsubscribing one
  client removes the handler of the first.
- `Connections`: what was built for a context stays when the kubeconfig changes.
- `Stream` with `"ties"` in `Events`: two records of a source with one timestamp;
  the forwarder takes the second for one it has sent, and `NoLoss` fails.
- `Stream` with the agent fetcher, a late source and `"ctx"`: opening succeeds
  though the context is done, the follower sends on the closed future channel, and
  `NoSendOnFuture` fails. With the Kubernetes fetcher it cannot (`KubeFutureSafe`).
- `PastFetch` with the agent fetcher: a fetcher whose reader stopped at the limit waits for
  ever in its send (log-fetcher.go:460). `AllEnd` excepts it (`Finished`).
- `PastFetch` with a limit of 0: one record passes.
- `Stream`: `NoDuplicates` fails. The drain (stream.go:523-543) looks once at the
  future channel; a follower that has received a record and not yet offered it is
  missed, and its record is sent a second time.
- `HealthMonitor`: a client that goes while its resolver forwards a status nobody takes
  any more. If the goroutine of the client is at the send behind it, it never comes to
  close the channel; if the handler is, the channel is closed under its send, which
  panics, or until then the next publication waits with `w.mu` held and all other
  clients with it. `NobodyHeld` says what holds otherwise.
- `HealthMonitor`, `CacheCurrent` without `replaced`: an endpoint slice that was deleted and
  created anew under its name while the watch was interrupted stays in the cache for ever,
  since the update goes to the new uid (health-monitor.go:458): a service is SUCCESS by a
  slice that is gone. A deletion missed meanwhile comes as a tombstone, and the handler
  panics (health-monitor.go:466).
- `HealthMonitor`: the bus looks handlers up by their code, so that a client that goes
  removes the handler that was subscribed first, which may be another's.
- `HealthMonitor`: the initial state may be sent after a newer update (`overtaken`),
  and the client keeps the older status until the next change.
- `LogFile`, `FollowExact` without `InGap`: lines written between the end of the search and
  the seek of the follower are lost (stream_forward.rs:201-248).
- `LogFile`, `WindowSent` without `Plain`: a message that begins like a line of a log is
  taken for one by the search (offset.rs:166), since it may look at any byte.
- `LogFile`, `FollowExact` without its exception for `torn`: a line that is read by half is
  sent by half, and its rest is left out or, by its first word, ends the task in a panic
  (stream_forward.rs:278, writer.rs:134).
- `LogFile`: a search fails, and the request with it, if it looks into a character of
  several bytes: `read_line` reads a `String` (offset.rs:158). It is one way to `Fail`.
- `LogFile`: a start later than the last record, or an empty file, ends a request that
  follows (stream_forward.rs:152), though cluster_agent.proto:135 says "Follow from the
  start_time argument if present"; a follower from the end ignores the stop time.
- `LogFile`: a log that is rotated leaves its follower at the old file without a word, and
  one rotated between the watch and the second open is read but never woken for
  (`Behind` excepts it); a read that fails ends the search as if the log had ended
  (`broken`); a request that the agent cancels while it reads ends without the status
  that says so; a client that left a quiet log is noticed at the next record.
- `KubeBackward` with `Pairs`: a record that shares the batch boundary's timestamp is
  lost, and `Contiguous` fails.

## Proofs

For every value of the constants that meets the modules' assumptions:

- `PastFetchProofs!TypeCorrect`: `Spec => []TypeOK`. `TypeOK` is inductive. The type
  invariants of all modules are proved, and every other invariant that a run checks.
- `PastFetchProofs!OutputSorted`: `Spec => []SentSorted`. `SentSorted` is not
  inductive: whether the next record may be sent depends on what waits in the
  merge, the heap and the logs. The inductive invariant `IInv` adds, from the logs
  to the output: every source is represented in the heap or by the record being
  sent, or its stream is exhausted, or the merge still waits for it
  (`Represented`); the record the merge holds is least among the heap
  (`PoppedFirst`) and belongs to what was read (`Holding`); what was taken comes
  before everything in the merge (`TakenBefore`); and what the consumer holds
  comes after what it sent (`BufAfterSent`). Each action disturbs few of these;
  the lemmas go conjunct by conjunct. The assumption is that each log is sorted.
- `PastFetchProofs!WindowCorrect` (`Spec => []WindowOrError`), `WindowComplete`
  (`Spec => []WindowUnlessFailed`) and `ImplementsMerge` (`Spec => MergeSpec`). `WindowInv`
  counts: the consumer took the first `Took(s)` records of each log, and the next one is
  in the merge or still to be sent to it (`NextUp`), where each source has one record at
  most (`OneEach`). While nobody cancels, a channel closes at the end of its log or with
  an error, which reading forward is in the merge, at time 0, and so before every record
  (`EndsTold`). Hence the record that is taken comes before all of every log that did not
  fail (`CurBeforeLogs`): that is the guard of the abstract `Take`, and keeps what was
  taken before what was not (`RestAfter`). `StopsRight` and `LimitKept` say why and when
  the consumer ends. What the abstract merge has taken is the same after a record went
  from the consumer's buffer to `pastCh`, reversed or not (`TakenStep`); a failed read, or
  the cancellation, gives sources up (`GiveUp`).
- `StreamProofs!KubeFutureSafe`: with the Kubernetes fetcher no follower sends on
  the closed future channel, whatever is added while the stream is cancelled.
  Invariant `FutureInv`: once the channel is closed the context is done and nobody
  is at its send.
- `StreamProofs!DrainedOutSafe`: if the caller does not close before the end, the
  forwarder sends on no closed channel. Invariant `OutInv`: closed implies that the
  forwarder has returned or was never started.

- `StreamProofs!EndHasReason` (`Spec => []EndsForAReason`): the context is done only with an
  error that stays, after the caller's `Close`, or because the caller's context ended.
  Invariant `ReasonInv`: a follower sets the error before it cancels (`errset`).
- `StreamProofs!TypeCorrect` (`Spec => []TypeOK`), and for records of distinct timestamps
  `OrderKept` (`[]OutOrder`) and `NothingLost` (`[]NoLoss`). Two records of a
  source with one timestamp break the argument where the code goes by time: the sort of
  the kept records is not stable, and the forwarder takes a record no later than the last
  of the past phase for one it sent (see Findings). `SentInv`: a log is
  written in the order of time (`LogInv`); where the forwarder, the past phase and `Start`
  are in relation to each other (`ControlInv`); what a reader has passed on is behind its
  position, and what is kept of it comes after what was given (`ReadInv`). `FlowingInv`
  follows each record. The past phase gave all it read of a log, in tail mode from some
  record on (`PastRead`); `lastTS` is the time of the last one (`PastTime`), the limit
  counts them (`PastTally`), and it ends at the end of the logs or at the limit
  (`PastOver`). A record a follower read was given, is kept, is at its send, or is left
  out because the past phase gave it (`FlowInv`); once a kept record went on, no other one
  that is kept was given by the past phase (`KeptInv`).

- `PastFetchProofs!BackwardTypeCorrect`, `BeginningReached` (`BackwardSpec =>
  []ReachesBeginning`) and, for records of distinct timestamps, `BatchesJoin` (`BackwardSpec
  => []Contiguous`), for a log and batches of any size. `Sizes`: batches are not empty and do not end behind the log.
  `BatchInv`: the last record sent or to be sent begins the last batch. `FirstInv`: the
  first timestamp is that of a record the log had, and nothing older is there or was read;
  so a batch that does not reach it leaves something to fetch. `ContInv`: what was sent
  and what waits go down one by one, and every batch reaches up to what was sent last.

- `SourceSyncProofs!TypeCorrect`, `HandoverExact` (`Spec => []Handover`) and
  `ReadOnce` (`Spec => []OneReader`), for any containers, number of updates and
  combination of events. `Handover` speaks of settled states only; the invariant
  `IInv` says what holds on the way there. With `Target`, the sources the watcher
  will have once the running update ends: every event on its way is about a
  container in `Target` or one deleted since (`Announced`); from Start's copy on, a
  source of the stream is in `Target`, and one in `Target` is a source or its event is
  on its way (`Following`); a log is opened only for a source of a started stream
  (`Readers`); the watcher's first update comes before `Start` reads any log
  (`Starting`). That `Set` takes the watcher's lock is what makes `Following` hold at
  the copy: no update runs, so `Target` is what is copied. `SourcesAreRead` (`Spec =>
  []SourcesRead`) adds that an opening which fails does not make a source (`Opened`).

- `WorkloadIndexProofs!TypeCorrect` and `SourcesCorrect` (`Spec => []SourcesTrue`), for any
  objects with owners two levels up, any paths and changes. The property compares the
  sources with the owner references of what was told, top down by the code and bottom up
  by the specification. The invariant says of each map what it holds: `DataInv` and
  `ListInv` (the objects told and their kinds), `EdgeInv` (an edge of the ownership map is
  an owner reference, and the other way round, whichever end came first), `NodeInv`,
  `OwnersInv`, and `SourcesInv` (the sources are computed from the index as it is now). That
  an entry may stay without objects, and an object may be a leaf, makes the two
  directions agree only on pods, which own nothing (`LeavesOwn`).

- `HealthMonitorProofs!TypeCorrect`, `StatusCorrect` (`Spec => []StatusTrue`) and
  `CacheCorrect` (`Spec => []CacheCurrent`), for any clients, any finite set of slices
  and any number of changes. That a publication never outlives `w.mu` needs to know
  that one client starts the worker, with the lock held (`Starting`). `StatusInv` adds
  to the status that nothing is known before the worker runs, and that an empty cache
  counts as lost and a ready one does not. `NotesInv`: of a slice that was
  not replaced, the last waiting change has the state of the store or is a tombstone, and a slice without one is in the cache as it is in the store; before the
  worker runs the cache is empty. A tombstone ends the program, so that none is ever taken
  from what waits. `WaitCorrect` (`Spec =>
  []WaitedForReady`) follows a status from where it is computed to the client, through
  the bus, the handler and the initial send (`WaitInv`).
  `CurrentCorrect` (`Spec => []Current`): `ToldInv` says of each client that the bus does not
  know it before its goroutine starts (`Unheard`), that what is at its send is what it was
  told last (`Sends`), and that the status, once the bus called a subscribed client, is in
  its handler, was told last, or will be its initial state (`Reached`).

- `ConnectionsProofs!ConnectionShared` (`Spec => []OneConnection`), `TypeCorrect` and
  `WatcherHasFile` (`Spec => []WatcherCurrent`), for any contexts, callers, clients and
  writes. A caller holds the locks of all it waits for (`LockInv`, along `PathInv`), what
  is locked has no value yet (`EmptyInv`), hence no value is replaced, and a result stays
  what is in the cache (`ResultInv`, `BuiltInv`). `WatchInv`: when no event, timer or reload
  is to come, the file was loaded as it is.
  `SubscribersHaveConfig` (`Spec => []SubscribersCurrent`): `BusInv` says that
  publications carry configurations the watcher had, and the newest of them its own
  (`CallbackInv`), that no publication calls who has not subscribed (`BeforeInv`), that the
  manager's subscription stays (`ManagerInv`), and that a subscriber awaits a publication,
  or its handler has the watcher's configuration or gave it (`UpToDate`).

- `ListWatchProofs!TypeCorrect` and `ViewCorrect` (`Spec => []ViewConsistent`), for any
  namespaces, names, size of a page and changes. `LogInv`: an object is created once and
  changed while it is there, so that an event applied to what a namespace held gives what
  it held next (`Applied`). `AnswerInv` and `ListInv`: each answer is a page of one version
  behind the token, and the list has all objects up to the token, if no two have a name;
  the proof's core is that the cut of joint pages is a page of the joint objects (`PageCut`).
  `SeenInv`: a connection starts behind what the hook has had. An object that an event told
  again brings back was there before `seen`, so that it still is or its deletion comes
  between the two (`Gone`), which is what `ToldAgain` says.
  `CountCorrect` (`Spec => []CountTrue`), with `CountInv`: what the counting hook has of the
  only page it asks for and the number the API left out of it make up the snapshot, and
  from then on what the namespaces held at their last delivered events; the events of one
  object alternate, so that the count moves by one exactly when the set does. A new
  subscription takes the set back to the snapshot and leaves the count, and the difference
  of the two is what it adds to `recounted`.

- `LogFileProofs!TypeCorrect`, `SearchCorrect` (`Spec => []SearchExact`), `WindowCorrect`
  (`Spec => []WindowSent`) and `FollowCorrect` (`Spec => []FollowExact`), for logs of any
  lines, any requests and any size of a chunk, whatever is written, in whatever parts, and
  rotated meanwhile. One invariant, `IInv`, holds all four; TLC checked it on the instances
  of the run before it was proved.
  `FileInv`: a line that could be read by half is in `torn`; `Bounds` keeps the offsets in
  the file as it was opened. `SinceInv` and `UntilInv` are what the bisection keeps: lines
  before `left` are before the time searched for, and for a line behind `right` there is a
  result no worse. A step decides by the first line from the middle on that can be found
  (`Candidates`), behind lines without a timestamp and parts of a record; that the bounds
  stay right needs the timestamps to be in the order of the log. `RangeInv` says the
  same of the positions the search left (`FromStart`, `UpToStop`): the lines between them
  are the lines asked for. `ReadInv`, `BackInv` and `FollowInv` then say of each way to read
  that what was sent is the whole lines behind or before its place, once and in order: of
  the reverse reader besides that there is no newline between what is left of its chunk and
  the newline it stands at; of the follower that only lines in `gap` are left out. `EndInv`
  is what remains of it when the request ends. "The first line that" and "the line at a
  position" exist by the well-foundedness of the natural numbers, of which only a form
  without a predicate as a parameter can be used (`Least`, `Greatest`).

The assumptions are those the modules name (`PastFetchAssumption`, `StreamAssumption`,
`KubeBackwardAssumption`, `SourceSyncAssumption`, `WorkloadIndexAssumption`,
`HealthMonitorAssumption`, `WatchAssumption`, `ConnectionsAssumption`,
`ListWatchAssumption`, `LogFileAssumption`); TLC evaluates them in every run. The last one
says that the lines of a log follow one another and are stamped in the order they are
written, which is what the container runtime does and the bisection relies on; lines
without a timestamp may be anywhere. `BatchesJoin` assumes `DistinctTimes` besides, and two
theorems of `StreamProofs` say of which streams they speak.

Only model-checked: the liveness properties (`AllEnd`, `EndsUnlessRotated`, `Stops`,
`Delivered`, `AllHandled`, `InSync`, `NobodyHeld`, `CallsReturn`, `EndsTogether`, `CatchesUp`,
`Ends`), which need fairness and are beyond the prover.

## Plan

Done: `OrderedMerge`, `PastFetch`, `Stream`, `KubeBackward`, `SourceSync`, `WorkloadIndex`,
`HealthMonitor`, `KubeConfigWatch`, `Connections`, `ListWatch`, `LogFile`. To come, in this order:

1. The service account token: its refresh in the background and on demand; the cache of
   permission checks.
2. The agent's watched files; a follower's hand-over through the whole chain: `LogFile` as
   the log that `Stream` follows.
3. UI: viewer cursors over the fetcher.

## Not modelled

Generated code: the GraphQL servers (`graph/generated.go` of the dashboard and of the
cluster API) and the gRPC types (`clusteragentpb`). They are about three quarters of the
lines of the files counted here; what they do (decode a request, call a resolver, encode
its channel's values) is in the models as the call of the resolver. Likewise
configuration, Helm, authorizers and tokens of HTTP requests, terminal layout, widgets and
the wiring of servers: sequential code whose state is an argument or a file, with unit
tests for its cases. Pure conversions (path parsing, duration and time flags) are data here.
The components in `PROJECT.json` say of each part what of it is left out.
