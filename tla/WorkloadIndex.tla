---------------------------- MODULE WorkloadIndex ----------------------------
(***************************************************************************)
(* The source watcher (modules/shared/logs/source-watcher.go): from what   *)
(* the informers of the workloads, the pods and the nodes tell it, in      *)
(* whatever order they run, it computes the log sources that the caller's  *)
(* paths stand for.  The workload index keeps the objects (dataMap), their *)
(* uids by kind (listMap) and the uids an object owns (ownershipMap).      *)
(*                                                                         *)
(* An informer's events for one object come in the order of its changes,   *)
(* those of two informers in any order; told is what the events said up to *)
(* now.  A change that is overtaken by the next before the handler ran is  *)
(* one event.  After an interrupted watch an informer lists its objects    *)
(* again: a deletion it missed arrives as a tombstone, a deletion and a    *)
(* creation under the same name as an update.                              *)
(*                                                                         *)
(* The paths are those of one namespace, a pod has one container, and the  *)
(* filters by region, zone, system and node are left out.                  *)
(***************************************************************************)
EXTENDS Integers

CONSTANTS Objects,     \* uids of the workloads, pods and nodes there may be
          Kind,        \* Kind[u]: "deployment", "replicaset", "pod", "node"...
          Name,        \* Name[u]: its name
          Owners,      \* Owners[u]: the uids its owner references may name
          NodeOf,      \* NodeOf[u]: the node a pod runs on
          Paths,       \* parsed paths: [kind, name], the name may be "*"
          MaxChanges,  \* bound: changes in the cluster
          Events       \* "relist": a watch is interrupted
                       \* "reown":  owner references change

Pods  == {u \in Objects : Kind[u] = "pod"}
Nodes == {u \in Objects : Kind[u] = "node"}

\* Pods own nothing.  The owners of a pod, and theirs in turn, are all there
\* are: CronJob, Job, Pod or Deployment, ReplicaSet, Pod.
ASSUME WorkloadIndexAssumption ==
  /\ MaxChanges \in Nat
  /\ Owners \in [Objects -> SUBSET (Objects \ (Pods \cup Nodes))]
  /\ \A u \in Objects : \A o \in Owners[u] : \A top \in Owners[o] : Owners[top] = {}
  /\ NodeOf \in [Pods -> Nodes]

VARIABLES
  live,      \* live[u]: the object in the cluster
  born,      \* uids given out so far
  changes,   \* changes in the cluster so far
  told,      \* told[u]: the object as its informer last told it
  pending,   \* objects of the informers' first lists, not handled yet
  odd,       \* objects that came or went unannounced, or changed their owners
  dataMap,   \* dataMap[u]: the object
  listMap,   \* listMap[kind]: uids
  ownershipMap,  \* ownershipMap[u]: the uids u owns
  ownerKeys,     \* the keys of ownershipMap
  nodeMap,   \* nodeMap[n]: the node
  isReady,   \* w.isReady
  sources    \* w.sources

cluster   == <<live, born, changes>>
index     == <<dataMap, listMap, ownershipMap, ownerKeys>>
informers == <<told, pending, odd>>
vars      == <<cluster, informers, index, nodeMap, isReady, sources>>

\* An object: whether it exists, its owner references, and what else of it
\* counts: a pod's container id (0: not yet there), a node's labels.
Object == [up : BOOLEAN, owners : SUBSET Objects, id : Nat]
Absent == [up |-> FALSE, owners |-> {}, id |-> 0]

Kinds == {Kind[u] : u \in Objects}

\* The kinds an informer is started for.
Fetched ==
  LET asked == {path.kind : path \in Paths}
  IN  asked \cup {"pod", "node"}
      \cup (IF "deployment" \in asked THEN {"replicaset"} ELSE {})
      \cup (IF "cronjob" \in asked THEN {"job"} ELSE {})

Twins(u, v) == Kind[u] = Kind[v] /\ Name[u] = Name[v]

Init ==
  /\ \E alive \in SUBSET Objects, id \in {0, 1} :
       /\ \A u, v \in alive : Twins(u, v) => u = v
       /\ live = [u \in Objects |->
            IF u \in alive THEN [up |-> TRUE, owners |-> Owners[u], id |-> id] ELSE Absent]
       /\ born = alive
       /\ pending = {u \in alive : Kind[u] \in Fetched}
  /\ changes = 0 /\ told = [u \in Objects |-> Absent] /\ odd = {}
  /\ dataMap = [u \in Objects |-> Absent] /\ listMap = [k \in Kinds |-> {}]
  /\ ownershipMap = [u \in Objects |-> {}] /\ ownerKeys = {}
  /\ nodeMap = [n \in Nodes |-> Absent]
  /\ isReady = FALSE /\ sources = {}

-----------------------------------------------------------------------------
(* The cluster.                                                            *)

Change == changes < MaxChanges /\ changes' = changes + 1
          /\ UNCHANGED <<told, odd, index, nodeMap, isReady, sources>>

Create(u) ==
  /\ Change /\ u \notin born
  /\ \A v \in Objects : live[v].up => ~Twins(u, v)
  /\ \E owners \in {{}, Owners[u]} :
       live' = [live EXCEPT ![u] = [up |-> TRUE, owners |-> owners, id |-> 0]]
  /\ born' = born \cup {u}
  /\ UNCHANGED pending

\* A pod's container gets an id or is restarted, a node's labels change.
Modify(u) ==
  /\ Change /\ live[u].up /\ u \in Pods \cup Nodes
  /\ live' = [live EXCEPT ![u].id = @ + 1]
  /\ UNCHANGED <<born, pending>>

\* A controller releases or adopts the object.
Reown(u) ==
  /\ "reown" \in Events /\ Change /\ live[u].up
  /\ \E owners \in {{}, Owners[u]} \ {live[u].owners} :
       live' = [live EXCEPT ![u].owners = owners]
  /\ UNCHANGED <<born, pending>>

Delete(u) ==
  /\ Change /\ live[u].up
  /\ live' = [live EXCEPT ![u] = Absent]
  /\ pending' = pending \ {u}
  /\ UNCHANGED born

-----------------------------------------------------------------------------
(* The index and the sources.                                              *)

\* getLeafIDs: an object without an entry is a leaf.  Two levels down there
\* is none below.
Down(uids) ==
  UNION {IF u \in ownerKeys THEN ownershipMap[u] ELSE {u} : u \in uids}

Leaves(u) == Down(Down({u}))

GetWorkloads(path) ==
  {u \in IF path.kind \in Kinds THEN listMap[path.kind] ELSE {} :
     dataMap[u].up /\ path.name \in {"*", Name[u]}}

GetPodsOwnedByWorkload(u) == {p \in Leaves(u) \cap Pods : dataMap[p].up}

\* wantSources: containers that have an id, on a node that is known.
Wanted ==
  {<<p, dataMap[p].id, nodeMap[NodeOf[p]].id>> :
     p \in {q \in Pods :
              /\ \E path \in Paths : \E u \in GetWorkloads(path) : q \in GetPodsOwnedByWorkload(u)
              /\ dataMap[q].id > 0 /\ nodeMap[NodeOf[q]].up}}

\* updateSources_UNSAFE, once the watcher is ready.
UpdateSources == sources' = (IF isReady THEN Wanted ELSE {})'

IndexAdd(u, object) ==
  /\ dataMap' = [dataMap EXCEPT ![u] = object]
  /\ listMap' = [listMap EXCEPT ![Kind[u]] = @ \cup {u}]
  /\ ownershipMap' = [o \in Objects |->
       IF o \in object.owners THEN ownershipMap[o] \cup {u} ELSE ownershipMap[o]]
  /\ ownerKeys' = ownerKeys \cup object.owners

\* Update leaves the lists and the ownership map alone.
IndexUpdate(u, object) ==
  /\ dataMap' = [dataMap EXCEPT ![u] = object]
  /\ UNCHANGED <<listMap, ownershipMap, ownerKeys>>

\* (fault: the owners keep the object)
IndexRemove_KeepsEdges(u, object) ==
  /\ dataMap' = [dataMap EXCEPT ![u] = Absent]
  /\ listMap' = [listMap EXCEPT ![Kind[u]] = @ \ {u}]
  /\ UNCHANGED <<ownershipMap, ownerKeys>>

\* The entry of an owner stays when its last object is removed.
IndexRemove(u, object) ==
  /\ dataMap' = [dataMap EXCEPT ![u] = Absent]
  /\ listMap' = [listMap EXCEPT ![Kind[u]] = @ \ {u}]
  /\ ownershipMap' = [o \in Objects |->
       IF o \in object.owners THEN ownershipMap[o] \ {u} ELSE ownershipMap[o]]
  /\ UNCHANGED ownerKeys

-----------------------------------------------------------------------------
(* The handlers, which hold w.mu.                                          *)

\* The event that an object is there, is another or is gone.
Appeared(u) ==
  /\ Kind[u] \in Fetched /\ live[u].up /\ ~told[u].up
  /\ \A v \in Objects : told[v].up => ~Twins(u, v)
  /\ told' = [told EXCEPT ![u] = live[u]] /\ pending' = pending \ {u}
  /\ UNCHANGED odd

Changed(u) ==
  /\ told[u].up /\ live[u].up /\ told[u] # live[u]
  /\ told' = [told EXCEPT ![u] = live[u]]
  /\ odd' = odd \cup IF live[u].owners # told[u].owners THEN {u} ELSE {}
  /\ UNCHANGED pending

Vanished(u) ==
  /\ told[u].up /\ ~live[u].up
  /\ told' = [told EXCEPT ![u] = Absent]
  /\ UNCHANGED <<pending, odd>>

\* The same after an interrupted watch.
Missed(u) ==
  /\ "relist" \in Events /\ told[u].up /\ ~live[u].up
  /\ told' = [told EXCEPT ![u] = Absent]
  /\ odd' = odd \cup {u}
  /\ UNCHANGED pending

Replaced(u, v) ==
  /\ "relist" \in Events /\ told[u].up /\ ~live[u].up /\ live[v].up /\ u # v /\ Twins(u, v)
  /\ told' = [told EXCEPT ![u] = Absent, ![v] = live[v]]
  /\ odd' = odd \cup {u, v}
  /\ pending' = pending \ {v}

Workload(u) == Kind[u] # "node"

HandleWorkloadAdd(u) ==
  /\ Workload(u) /\ Appeared(u)
  /\ IndexAdd(u, live[u]) /\ UNCHANGED <<cluster, nodeMap, isReady>>
  /\ UpdateSources

\* Only pods are updated.
HandleWorkloadUpdate(u) ==
  /\ Workload(u) /\ Changed(u)
  /\ UNCHANGED <<cluster, nodeMap, isReady>>
  /\ IF u \in Pods THEN IndexUpdate(u, live[u]) /\ UpdateSources
                  ELSE UNCHANGED <<index, sources>>

\* The update of an object into another: the old one stays in the index, the
\* new one is in none of its lists.
HandleWorkloadReplaced(u, v) ==
  /\ Workload(u) /\ Replaced(u, v)
  /\ UNCHANGED <<cluster, nodeMap, isReady>>
  /\ IF v \in Pods THEN IndexUpdate(v, live[v]) /\ UpdateSources
                  ELSE UNCHANGED <<index, sources>>

HandleWorkloadDelete(u) ==
  /\ Workload(u) /\ Vanished(u)
  /\ IndexRemove(u, told[u]) /\ UNCHANGED <<cluster, nodeMap, isReady>>
  /\ UpdateSources

\* A tombstone is not an object that Remove knows.
HandleWorkloadTombstone(u) ==
  /\ Workload(u) /\ Missed(u)
  /\ UNCHANGED <<cluster, index, nodeMap, isReady>>
  /\ UpdateSources

\* (fault: the sources are not updated)
HandleNodeAdd_Silent(n) ==
  /\ n \in Nodes /\ Appeared(n)
  /\ nodeMap' = [nodeMap EXCEPT ![n] = live[n]]
  /\ UNCHANGED <<cluster, index, isReady, sources>>

HandleNodeAdd(n) ==
  /\ n \in Nodes /\ Appeared(n)
  /\ nodeMap' = [nodeMap EXCEPT ![n] = live[n]]
  /\ UNCHANGED <<cluster, index, isReady>>
  /\ UpdateSources

HandleNodeUpdate(n) ==
  /\ n \in Nodes /\ Changed(n)
  /\ nodeMap' = [nodeMap EXCEPT ![n] = live[n]]
  /\ UNCHANGED <<cluster, index, isReady>>
  /\ UpdateSources

HandleNodeDelete(n) ==
  /\ n \in Nodes /\ Vanished(n)
  /\ nodeMap' = [nodeMap EXCEPT ![n] = Absent]
  /\ UNCHANGED <<cluster, index, isReady>>
  /\ UpdateSources

\* A tombstone is not a node: the handler returns.
HandleNodeTombstone(n) ==
  /\ n \in Nodes /\ Missed(n)
  /\ UNCHANGED <<cluster, index, nodeMap, isReady, sources>>

\* Start: the first lists are handled, the watcher is ready.
Ready ==
  /\ ~isReady /\ pending = {}
  /\ isReady' = TRUE
  /\ UNCHANGED <<cluster, informers, index, nodeMap>>
  /\ UpdateSources

-----------------------------------------------------------------------------

Cluster == \E u \in Objects : Create(u) \/ Modify(u) \/ Reown(u) \/ Delete(u)

Handle ==
  \E u \in Objects :
    \/ HandleWorkloadAdd(u) \/ HandleWorkloadUpdate(u) \/ HandleWorkloadDelete(u)
    \/ HandleNodeAdd(u) \/ HandleNodeUpdate(u) \/ HandleNodeDelete(u)

Relist ==
  \E u \in Objects :
    \/ HandleWorkloadTombstone(u) \/ HandleNodeTombstone(u)
    \/ \E v \in Objects : HandleWorkloadReplaced(u, v)

Next == Cluster \/ Handle \/ Relist \/ Ready

Spec == Init /\ [][Next]_vars

\* The informers deliver, and Start goes on once the first lists are handled.
FairSpec == Spec /\ WF_vars(Handle) /\ WF_vars(Ready)

-----------------------------------------------------------------------------
(* Properties.                                                             *)

\* The containers that the paths stand for, in a view of the objects: those
\* of the pods that a workload of that kind and name is, owns, or owns by way
\* of an object it owns.
Below(view, u, p) ==
  \/ p = u
  \/ u \in view[p].owners
  \/ \E m \in Objects : view[m].up /\ u \in view[m].owners /\ m \in view[p].owners

Named(path, u) == Kind[u] = path.kind /\ path.name \in {"*", Name[u]}

Matches(view, p) ==
  /\ view[p].up /\ view[p].id > 0 /\ view[NodeOf[p]].up
  /\ \E path \in Paths, u \in Objects : view[u].up /\ Named(path, u) /\ Below(view, u, p)

\* Nothing went wrong unannounced with the pod, its owners or its node.
Ancestors(p) == {p, NodeOf[p]} \cup Owners[p] \cup UNION {Owners[o] : o \in Owners[p]}
Clean(p)     == Ancestors(p) \cap odd = {}

SourceOf(view, p) == <<p, view[p].id, view[NodeOf[p]].id>>

SourcesAre(view) ==
  \A p \in Pods : Clean(p) =>
    {s \in sources : s[1] = p} = IF Matches(view, p) THEN {SourceOf(view, p)} ELSE {}

\* The type invariant; an object that owns another has an entry.
TypeOK ==
  /\ live \in [Objects -> Object] /\ told \in [Objects -> Object]
  /\ born \subseteq Objects /\ changes \in Nat
  /\ pending \subseteq Objects /\ odd \subseteq Objects
  /\ dataMap \in [Objects -> Object] /\ listMap \in [Kinds -> SUBSET Objects]
  /\ ownershipMap \in [Objects -> SUBSET Objects] /\ ownerKeys \subseteq Objects
  /\ \A u \in Objects \ ownerKeys : ownershipMap[u] = {}
  /\ nodeMap \in [Nodes -> Object]
  /\ isReady \in BOOLEAN /\ sources \subseteq Pods \X Nat \X Nat

\* In whatever order the informers' events arrive (a pod before its replica
\* set, a replica set's end before its pods', a node last of all), the sources
\* are at every moment those that the objects told so far amount to: none is
\* missing, none is left behind, and each has its container's id and its
\* node's labels of now.
SourcesTrue == isReady => SourcesAre(told)

\* The sources come to be what is in the cluster and stay so: none waits for
\* an event that does not come.
InSync == <>[]SourcesAre(live)
=============================================================================
