------------------------- MODULE WorkloadIndexProofs -------------------------
(***************************************************************************)
(* Theorems about WorkloadIndex, for any objects, owners, paths and        *)
(* changes of the cluster.                                                 *)
(***************************************************************************)
EXTENDS WorkloadIndex, TLAPS

-----------------------------------------------------------------------------
(* The invariant.                                                          *)

Workloads == {u \in Objects : Workload(u)}

\* What does not exist has no owners, and no object names others than it may.
OwnersInv ==
  \A u \in Objects : /\ live[u].owners \subseteq Owners[u]
                     /\ told[u].owners \subseteq Owners[u]
                     /\ ~told[u].up => told[u] = Absent

\* The lists are by kind, and pods are not the owners of anything.
ListInv == /\ \A k \in Kinds : \A u \in listMap[k] : Kind[u] = k
           /\ ownerKeys \cap Pods = {}

\* Of an object whose informer kept nothing back, the index has what it was
\* told.
DataInv ==
  \A u \in Workloads \ odd :
    /\ dataMap[u].up = told[u].up
    /\ u \in Pods => dataMap[u] = told[u]
    /\ u \in listMap[Kind[u]] <=> told[u].up

EdgeInv ==
  \A u \in Workloads \ odd, o \in Objects :
    u \in ownershipMap[o] <=> o \in told[u].owners

NodeInv == \A n \in Nodes \ odd : nodeMap[n] = told[n]

\* The sources are never older than the index.
SourcesInv == sources = IF isReady THEN Wanted ELSE {}

IInv == TypeOK /\ OwnersInv /\ ListInv /\ DataInv /\ EdgeInv /\ NodeInv /\ SourcesInv

-----------------------------------------------------------------------------
(* The type invariant.                                                     *)

LEMMA AbsentType == Absent \in Object
BY DEF Absent, Object

\* The sources that a handler computes are well typed.
LEMMA WantedType ==
  ASSUME dataMap' \in [Objects -> Object], nodeMap' \in [Nodes -> Object]
  PROVE  Wanted' \subseteq Pods \X Nat \X Nat
<1>1. \A p \in Pods : dataMap'[p].id \in Nat
  BY DEF Object, Pods
<1>2. \A p \in Pods : nodeMap'[NodeOf[p]].id \in Nat
  BY WorkloadIndexAssumption DEF Object
<1> QED
  BY <1>1, <1>2 DEF Wanted

LEMMA TypeInit == ASSUME Init PROVE TypeOK
<1>1. PICK alive \in SUBSET Objects, id \in {0, 1} :
        /\ live = [u \in Objects |->
             IF u \in alive THEN [up |-> TRUE, owners |-> Owners[u], id |-> id] ELSE Absent]
        /\ born = alive
        /\ pending = {u \in alive : Kind[u] \in Fetched}
  BY DEF Init
<1>2. live \in [Objects -> Object]
  BY <1>1, AbsentType, WorkloadIndexAssumption DEF Object
<1> QED
  BY <1>1, <1>2, AbsentType DEF Init, TypeOK

\* What the index holds after an operation on a typed object.
LEMMA IndexType ==
  ASSUME TypeOK, NEW u \in Objects, NEW object \in Object,
         \/ IndexAdd(u, object)
         \/ IndexUpdate(u, object)
         \/ IndexRemove(u, object)
         \/ UNCHANGED index
  PROVE  /\ dataMap' \in [Objects -> Object] /\ listMap' \in [Kinds -> SUBSET Objects]
         /\ ownershipMap' \in [Objects -> SUBSET Objects] /\ ownerKeys' \subseteq Objects
         /\ \A o \in Objects \ ownerKeys' : ownershipMap'[o] = {}
<1>1. object.owners \subseteq Objects /\ Kind[u] \in Kinds
  BY DEF Object, Kinds
<1>2. CASE IndexAdd(u, object)
  BY <1>1, <1>2 DEF IndexAdd, TypeOK
<1>3. CASE IndexUpdate(u, object)
  BY <1>3 DEF IndexUpdate, TypeOK
<1>4. CASE IndexRemove(u, object)
  BY <1>1, <1>4, AbsentType DEF IndexRemove, TypeOK
<1>5. CASE UNCHANGED index
  BY <1>5 DEF index, TypeOK
<1> QED
  BY <1>2, <1>3, <1>4, <1>5

\* The events keep the informers' variables typed.
LEMMA ToldType ==
  ASSUME TypeOK, NEW u \in Objects, NEW v \in Objects,
         Appeared(u) \/ Changed(u) \/ Vanished(u) \/ Missed(u) \/ Replaced(u, v)
  PROVE  told' \in [Objects -> Object] /\ pending' \subseteq Objects /\ odd' \subseteq Objects
<1>1. live[u] \in Object /\ live[v] \in Object
  BY DEF TypeOK
<1>2. CASE Appeared(u) \/ Changed(u)
  BY <1>1, <1>2 DEF Appeared, Changed, TypeOK
<1>3. CASE Vanished(u) \/ Missed(u) \/ Replaced(u, v)
  BY <1>1, <1>3, AbsentType DEF Vanished, Missed, Replaced, TypeOK
<1> QED
  BY <1>2, <1>3

LEMMA ClusterType == ASSUME TypeOK, Cluster PROVE TypeOK'
<1>1. PICK u \in Objects : Create(u) \/ Modify(u) \/ Reown(u) \/ Delete(u)
  BY DEF Cluster
<1>2. changes' \in Nat /\ UNCHANGED <<told, odd, index, nodeMap, isReady, sources>>
  BY <1>1 DEF Create, Modify, Reown, Delete, Change, TypeOK
<1>3. live' \in [Objects -> Object] /\ born' \subseteq Objects /\ pending' \subseteq Objects
  <2>1. live[u] \in Object /\ Owners[u] \subseteq Objects
    BY WorkloadIndexAssumption DEF TypeOK
  <2>2. CASE Create(u)
    BY <2>1, <2>2 DEF Create, TypeOK, Object
  <2>3. CASE Modify(u)
    <3>1. [live[u] EXCEPT !.id = @ + 1] \in Object
      BY <2>1 DEF Object
    <3> QED
      BY <3>1, <2>3 DEF Modify, TypeOK
  <2>4. CASE Reown(u)
    <3>1. PICK owners \in {{}, Owners[u]} : live' = [live EXCEPT ![u].owners = owners]
      BY <2>4 DEF Reown
    <3>2. [live[u] EXCEPT !.owners = owners] \in Object
      BY <2>1, <3>1 DEF Object
    <3> QED
      BY <3>1, <3>2, <2>4 DEF Reown, TypeOK
  <2>5. CASE Delete(u)
    BY <2>5, AbsentType DEF Delete, TypeOK
  <2> QED
    BY <1>1, <2>2, <2>3, <2>4, <2>5
<1> QED
  BY <1>2, <1>3 DEF TypeOK, index

\* What a handler does: it hears of one event, changes one entry of the index
\* or the nodes, and leaves the cluster alone.
Shape(u, v, object) ==
  /\ Appeared(u) \/ Changed(u) \/ Vanished(u) \/ Missed(u) \/ Replaced(u, v)
  /\ \/ IndexAdd(u, object) \/ IndexUpdate(u, object) \/ IndexRemove(u, object)
     \/ IndexUpdate(v, object) \/ UNCHANGED index
  /\ nodeMap' \in [Nodes -> Object]
  /\ UNCHANGED <<cluster, isReady>>
  /\ UpdateSources \/ UNCHANGED <<index, nodeMap, sources>>

LEMMA HandlerShape ==
  ASSUME TypeOK, Handle \/ Relist
  PROVE  \E u, v \in Objects, object \in Object : Shape(u, v, object)
<1>1. \A u \in Objects : live[u] \in Object /\ told[u] \in Object
  BY DEF TypeOK
<1>2. nodeMap \in [Nodes -> Object]
  BY DEF TypeOK
<1>3. \A u \in Objects : HandleWorkloadAdd(u) => Shape(u, u, live[u])
  BY <1>2 DEF HandleWorkloadAdd, Shape
<1>4. \A u \in Objects : HandleWorkloadUpdate(u) => Shape(u, u, live[u])
  BY <1>2 DEF HandleWorkloadUpdate, Shape
<1>5. \A u \in Objects : HandleWorkloadDelete(u) => Shape(u, u, told[u])
  BY <1>2 DEF HandleWorkloadDelete, Shape
<1>6. \A u \in Objects : HandleWorkloadTombstone(u) => Shape(u, u, told[u])
  BY <1>2 DEF HandleWorkloadTombstone, Shape
<1>7. \A u, v \in Objects : HandleWorkloadReplaced(u, v) => Shape(u, v, live[v])
  BY <1>2 DEF HandleWorkloadReplaced, Shape
<1>8. \A u \in Objects : HandleNodeAdd(u) \/ HandleNodeUpdate(u) => Shape(u, u, live[u])
  BY <1>1, <1>2 DEF HandleNodeAdd, HandleNodeUpdate, Shape
<1>9. \A u \in Objects : HandleNodeDelete(u) \/ HandleNodeTombstone(u) => Shape(u, u, told[u])
  BY <1>2, AbsentType DEF HandleNodeDelete, HandleNodeTombstone, Shape
<1> QED
  BY <1>1, <1>3, <1>4, <1>5, <1>6, <1>7, <1>8, <1>9 DEF Handle, Relist

LEMMA ShapeType ==
  ASSUME TypeOK, NEW u \in Objects, NEW v \in Objects, NEW object \in Object, Shape(u, v, object)
  PROVE  TypeOK'
<1>1. told' \in [Objects -> Object] /\ pending' \subseteq Objects /\ odd' \subseteq Objects
  BY ToldType DEF Shape
<1>2. /\ dataMap' \in [Objects -> Object] /\ listMap' \in [Kinds -> SUBSET Objects]
      /\ ownershipMap' \in [Objects -> SUBSET Objects] /\ ownerKeys' \subseteq Objects
      /\ \A o \in Objects \ ownerKeys' : ownershipMap'[o] = {}
  BY IndexType DEF Shape
<1>3. nodeMap' \in [Nodes -> Object] /\ UNCHANGED <<cluster, isReady>>
  BY DEF Shape
<1>4. sources' \subseteq Pods \X Nat \X Nat
  <2>1. CASE UpdateSources
    <3>1. Wanted' \subseteq Pods \X Nat \X Nat
      BY WantedType, <1>2, <1>3
    <3> QED
      BY <2>1, <3>1 DEF UpdateSources
  <2>2. CASE UNCHANGED sources
    BY <2>2 DEF TypeOK
  <2> QED
    BY <2>1, <2>2 DEF Shape
<1> QED
  BY <1>1, <1>2, <1>3, <1>4 DEF TypeOK, cluster

LEMMA TypeNext == ASSUME TypeOK, [Next]_vars PROVE TypeOK'
<1>1. CASE Cluster
  BY <1>1, ClusterType
<1>2. CASE Handle \/ Relist
  BY <1>2, HandlerShape, ShapeType
<1>3. CASE Ready
  <2>1. Wanted' \subseteq Pods \X Nat \X Nat
    BY <1>3, WantedType DEF Ready, index, TypeOK
  <2> QED
    BY <1>3, <2>1 DEF Ready, UpdateSources, TypeOK, cluster, informers, index
<1>4. CASE UNCHANGED vars
  BY <1>4 DEF vars, cluster, informers, index, TypeOK
<1> QED
  BY <1>1, <1>2, <1>3, <1>4 DEF Next

\* The maps of the index hold objects and uids of the right kind in every state
\* the informers' events can lead to, and an owner of something has an entry.
THEOREM TypeCorrect == Spec => []TypeOK
<1>1. Init => TypeOK
  BY TypeInit
<1>2. TypeOK /\ [Next]_vars => TypeOK'
  BY TypeNext
<1> QED
  BY <1>1, <1>2, PTL DEF Spec

-----------------------------------------------------------------------------
(* The invariant holds.                                                    *)

LEMMA InvInit == ASSUME Init PROVE IInv
<1>1. TypeOK
  BY TypeInit
<1>2. \A u \in Objects : live[u].owners \subseteq Owners[u]
  <2>1. PICK alive \in SUBSET Objects, id \in {0, 1} :
          live = [u \in Objects |->
             IF u \in alive THEN [up |-> TRUE, owners |-> Owners[u], id |-> id] ELSE Absent]
    BY DEF Init
  <2> QED
    BY <2>1 DEF Absent
<1>3. OwnersInv
  BY <1>2 DEF Init, OwnersInv, Absent
<1>4. ListInv /\ EdgeInv /\ NodeInv
  BY DEF Init, ListInv, EdgeInv, NodeInv, Absent, Workloads, Nodes
<1>6. DataInv
  <2>1. \A u \in Workloads : Kind[u] \in Kinds
    BY DEF Workloads, Kinds
  <2> QED
    BY <2>1 DEF Init, DataInv, Absent, Workloads
<1>5. SourcesInv
  BY DEF Init, SourcesInv
<1> QED
  BY <1>1, <1>3, <1>4, <1>5, <1>6 DEF IInv

\* An event tells an object as it is in the cluster, or that there is none.
LEMMA OwnersNext ==
  ASSUME TypeOK, OwnersInv, NEW u \in Objects, NEW v \in Objects, UNCHANGED cluster,
         Appeared(u) \/ Changed(u) \/ Vanished(u) \/ Missed(u) \/ Replaced(u, v)
  PROVE  OwnersInv'
<1>1. \A x \in Objects : \/ told'[x] \in {told[x], Absent}
                         \/ live[x].up /\ told'[x] = live[x]
  <2>1. CASE Appeared(u) \/ Changed(u)
    BY <2>1 DEF Appeared, Changed, TypeOK
  <2>2. CASE Vanished(u) \/ Missed(u)
    BY <2>2 DEF Vanished, Missed, TypeOK
  <2>3. CASE Replaced(u, v)
    BY <2>3 DEF Replaced, TypeOK
  <2> QED
    BY <2>1, <2>2, <2>3
<1>2. Absent.owners = {} /\ ~Absent.up
  BY DEF Absent
<1> QED
  BY <1>1, <1>2 DEF OwnersInv, cluster

LEMMA ClusterOwners == ASSUME TypeOK, OwnersInv, Cluster PROVE OwnersInv'
<1>1. PICK u \in Objects : Create(u) \/ Modify(u) \/ Reown(u) \/ Delete(u)
  BY DEF Cluster
<1>2. UNCHANGED told
  BY <1>1 DEF Create, Modify, Reown, Delete, Change
<1>3. \A x \in Objects : live'[x].owners \subseteq Owners[x]
  <2>1. live[u] \in Object
    BY DEF TypeOK
  <2>2. CASE Create(u)
    BY <2>2 DEF Create, TypeOK, OwnersInv
  <2>3. CASE Modify(u)
    BY <2>1, <2>3 DEF Modify, TypeOK, OwnersInv, Object
  <2>4. CASE Reown(u)
    <3>1. PICK owners \in {{}, Owners[u]} : live' = [live EXCEPT ![u].owners = owners]
      BY <2>4 DEF Reown
    <3>2. [live[u] EXCEPT !.owners = owners].owners = owners
      BY <2>1 DEF Object
    <3> QED
      BY <3>1, <3>2 DEF TypeOK, OwnersInv
  <2>5. CASE Delete(u)
    BY <2>5 DEF Delete, TypeOK, OwnersInv, Absent
  <2> QED
    BY <1>1, <2>2, <2>3, <2>4, <2>5
<1> QED
  BY <1>2, <1>3 DEF OwnersInv

\* The lists stay by kind and pods own nothing.
LEMMA ListNext ==
  ASSUME TypeOK, OwnersInv, ListInv, NEW u \in Objects, NEW object,
         object.owners \subseteq Owners[u],
         \/ IndexAdd(u, object) \/ IndexUpdate(u, object) \/ IndexRemove(u, object)
         \/ UNCHANGED index
  PROVE  ListInv'
<1>1. object.owners \cap Pods = {} /\ Kind[u] \in Kinds
  BY WorkloadIndexAssumption DEF Kinds
<1>2. CASE IndexAdd(u, object)
  BY <1>1, <1>2 DEF IndexAdd, ListInv, TypeOK
<1>3. CASE IndexUpdate(u, object)
  BY <1>3 DEF IndexUpdate, ListInv
<1>4. CASE IndexRemove(u, object)
  BY <1>1, <1>4 DEF IndexRemove, ListInv, TypeOK
<1>5. CASE UNCHANGED index
  BY <1>5 DEF index, ListInv
<1> QED
  BY <1>2, <1>3, <1>4, <1>5

IndexInv == ListInv /\ DataInv /\ EdgeInv /\ NodeInv

LEMMA AddIndex ==
  ASSUME TypeOK, OwnersInv, IndexInv, NEW u \in Objects, HandleWorkloadAdd(u)
  PROVE  IndexInv'
<1> USE DEF HandleWorkloadAdd, Appeared
<1>1. ListInv'
  BY ListNext DEF IndexInv, OwnersInv
<1>2. DataInv'
  BY DEF IndexInv, DataInv, IndexAdd, TypeOK, Workloads, Kinds
<1>3. EdgeInv'
  <2>1. told[u].owners = {}
    BY DEF OwnersInv, Absent
  <2>2. SUFFICES ASSUME NEW x \in Workloads \ odd, NEW o \in Objects
                 PROVE  x \in ownershipMap'[o] <=> o \in told'[x].owners
    BY DEF EdgeInv
  <2>3. x \in ownershipMap[o] <=> o \in told[x].owners
    BY DEF IndexInv, EdgeInv
  <2>4. ownershipMap'[o] = IF o \in live[u].owners THEN ownershipMap[o] \cup {u} ELSE ownershipMap[o]
    BY DEF IndexAdd
  <2>5. told'[x] = IF x = u THEN live[u] ELSE told[x]
    BY DEF TypeOK, Workloads
  <2> QED
    BY <2>1, <2>3, <2>4, <2>5
<1>4. NodeInv'
  BY DEF IndexInv, NodeInv, Workload, Nodes, TypeOK
<1> QED
  BY <1>1, <1>2, <1>3, <1>4 DEF IndexInv

LEMMA UpdateIndex ==
  ASSUME TypeOK, OwnersInv, IndexInv, NEW u \in Objects, HandleWorkloadUpdate(u)
  PROVE  IndexInv'
<1> USE DEF HandleWorkloadUpdate, Changed
<1>1. ListInv'
  BY ListNext DEF IndexInv, OwnersInv
<1>2. DataInv'
  BY ZenonT(30) DEF IndexInv, DataInv, IndexUpdate, TypeOK, Workloads, index
<1>3. EdgeInv'
  <2>1. SUFFICES ASSUME NEW x \in Workloads \ odd', NEW o \in Objects
                 PROVE  x \in ownershipMap'[o] <=> o \in told'[x].owners
    BY DEF EdgeInv
  <2>2. x \notin odd /\ told'[x].owners = told[x].owners
    BY DEF TypeOK, Workloads
  <2>3. ownershipMap' = ownershipMap
    BY DEF IndexUpdate, index
  <2> QED
    BY <2>2, <2>3 DEF IndexInv, EdgeInv
<1>4. NodeInv'
  BY DEF IndexInv, NodeInv, Workload, Nodes, TypeOK
<1> QED
  BY <1>1, <1>2, <1>3, <1>4 DEF IndexInv

LEMMA DeleteIndex ==
  ASSUME TypeOK, OwnersInv, IndexInv, NEW u \in Objects, HandleWorkloadDelete(u)
  PROVE  IndexInv'
<1> USE DEF HandleWorkloadDelete, Vanished
<1>1. ListInv'
  BY ListNext DEF IndexInv, OwnersInv
<1>2. DataInv'
  BY DEF IndexInv, DataInv, IndexRemove, TypeOK, Workloads, Kinds, Absent
<1>3. EdgeInv'
  <2>1. SUFFICES ASSUME NEW x \in Workloads \ odd, NEW o \in Objects
                 PROVE  x \in ownershipMap'[o] <=> o \in told'[x].owners
    BY DEF EdgeInv
  <2>2. x \in ownershipMap[o] <=> o \in told[x].owners
    BY DEF IndexInv, EdgeInv
  <2>3. ownershipMap'[o] = IF o \in told[u].owners THEN ownershipMap[o] \ {u} ELSE ownershipMap[o]
    BY DEF IndexRemove
  <2>4. told'[x] = IF x = u THEN Absent ELSE told[x]
    BY DEF TypeOK, Workloads
  <2>5. Absent.owners = {}
    BY DEF Absent
  <2> QED
    BY <2>2, <2>3, <2>4, <2>5
<1>4. NodeInv'
  BY DEF IndexInv, NodeInv, Workload, Nodes, TypeOK
<1> QED
  BY <1>1, <1>2, <1>3, <1>4 DEF IndexInv

\* What a new list tells spoils the entries of the objects it is about, no
\* other.
LEMMA RelistIndex ==
  ASSUME TypeOK, OwnersInv, IndexInv, NEW u \in Objects, NEW v \in Objects,
         HandleWorkloadTombstone(u) \/ HandleNodeTombstone(u) \/ HandleWorkloadReplaced(u, v)
  PROVE  IndexInv'
<1>1. CASE HandleWorkloadTombstone(u) \/ HandleNodeTombstone(u)
  BY <1>1 DEF HandleWorkloadTombstone, HandleNodeTombstone, Missed, index, IndexInv, ListInv,
              DataInv, EdgeInv, NodeInv, TypeOK, Workloads, Nodes
<1>2. CASE HandleWorkloadReplaced(u, v)
  <2>1. ListInv'
    BY <1>2, ListNext DEF HandleWorkloadReplaced, IndexInv, OwnersInv
  <2>2. odd' = odd \cup {u, v} /\ told' = [told EXCEPT ![u] = Absent, ![v] = live[v]]
    BY <1>2 DEF HandleWorkloadReplaced, Replaced
  <2>3. /\ UNCHANGED <<listMap, ownershipMap, nodeMap>>
        /\ \A x \in Objects \ {v} : dataMap'[x] = dataMap[x]
    BY <1>2 DEF HandleWorkloadReplaced, IndexUpdate, index, TypeOK
  <2>4. DataInv' /\ EdgeInv' /\ NodeInv'
    BY <2>2, <2>3 DEF IndexInv, DataInv, EdgeInv, NodeInv, TypeOK, Workloads, Nodes
  <2> QED
    BY <2>1, <2>4 DEF IndexInv
<1> QED
  BY <1>1, <1>2

LEMMA NodeIndex ==
  ASSUME TypeOK, OwnersInv, IndexInv, NEW n \in Objects,
         HandleNodeAdd(n) \/ HandleNodeUpdate(n) \/ HandleNodeDelete(n)
  PROVE  IndexInv'
<1>1. UNCHANGED index /\ n \in Nodes /\ odd \subseteq odd'
  BY DEF HandleNodeAdd, HandleNodeUpdate, HandleNodeDelete, Appeared, Changed, Vanished
<1>2. \A x \in Objects \ {n} : told'[x] = told[x]
  BY DEF HandleNodeAdd, HandleNodeUpdate, HandleNodeDelete, Appeared, Changed, Vanished, TypeOK
<1>3. n \notin Workloads
  BY <1>1 DEF Workloads, Workload, Nodes
<1>4. NodeInv'
  BY <1>1 DEF HandleNodeAdd, HandleNodeUpdate, HandleNodeDelete, Appeared, Changed, Vanished,
              IndexInv, NodeInv, TypeOK, Nodes
<1>5. \A x \in Workloads : x \in Objects \ {n}
  BY <1>3 DEF Workloads
<1> QED
  BY <1>1, <1>2, <1>4, <1>5 DEF IndexInv, ListInv, DataInv, EdgeInv, index

LEMMA InvNext == ASSUME IInv, [Next]_vars PROVE IInv'
<1>1. TypeOK'
  BY TypeNext DEF IInv
<1>2. CASE Cluster
  <2>1. UNCHANGED <<told, odd, index, nodeMap, isReady, sources>>
    BY <1>2 DEF Cluster, Create, Modify, Reown, Delete, Change
  <2>2. OwnersInv'
    BY <1>2, ClusterOwners DEF IInv
  <2> QED
    BY <1>1, <2>1, <2>2 DEF IInv, ListInv, DataInv, EdgeInv, NodeInv, SourcesInv, Wanted,
       GetWorkloads, GetPodsOwnedByWorkload, Leaves, Down, index
<1>3. CASE Handle \/ Relist
  <2>1. PICK u, v \in Objects, object \in Object : Shape(u, v, object)
    BY <1>3, HandlerShape DEF IInv
  <2>2. OwnersInv'
    BY <2>1, OwnersNext DEF Shape, IInv
  <2>3. IndexInv'
    <3>1. IndexInv
      BY DEF IInv, IndexInv
    <3> QED
      BY <1>3, <3>1, AddIndex, UpdateIndex, DeleteIndex, RelistIndex, NodeIndex DEF Handle, Relist, IInv
  <2>4. SourcesInv'
    <3>1. CASE UpdateSources
      BY <3>1 DEF UpdateSources, SourcesInv
    <3>2. CASE UNCHANGED <<index, nodeMap, sources>>
      BY <2>1, <3>2 DEF Shape, SourcesInv, IInv, Wanted, GetWorkloads, GetPodsOwnedByWorkload,
         Leaves, Down, index
    <3> QED
      BY <2>1, <3>1, <3>2 DEF Shape
  <2> QED
    BY <1>1, <2>2, <2>3, <2>4 DEF IInv, IndexInv
<1>4. CASE Ready
  <2>1. OwnersInv' /\ ListInv' /\ DataInv' /\ EdgeInv' /\ NodeInv'
    BY <1>4 DEF Ready, cluster, informers, index, IInv, OwnersInv, ListInv, DataInv, EdgeInv, NodeInv
  <2>2. SourcesInv'
    BY <1>4 DEF Ready, UpdateSources, SourcesInv
  <2> QED
    BY <1>1, <2>1, <2>2 DEF IInv
<1>5. CASE UNCHANGED vars
  BY <1>1, <1>5 DEF vars, cluster, informers, index, IInv, OwnersInv, ListInv, DataInv, EdgeInv,
     NodeInv, SourcesInv, Wanted, GetWorkloads, GetPodsOwnedByWorkload, Leaves, Down
<1> QED
  BY <1>2, <1>3, <1>4, <1>5 DEF Next

-----------------------------------------------------------------------------
(* The invariant says what the sources are.                                *)

\* getLeafIDs finds a pod whose ancestors are clean below exactly the
\* workloads that own it.
LEMMA LeavesOwn ==
  ASSUME IInv, NEW p \in Pods, Clean(p), NEW u \in Objects
  PROVE  p \in Leaves(u) <=> Below(told, u, p)
<1>1. /\ p \in Workloads \ odd /\ p \notin ownerKeys
      /\ \A o \in Owners[p] : o \in Workloads \ odd
      /\ told[p].owners \subseteq Owners[p]
      /\ \A o \in Objects : o \notin ownerKeys => ownershipMap[o] = {}
  BY WorkloadIndexAssumption
     DEF Clean, Ancestors, IInv, OwnersInv, ListInv, TypeOK, Workloads, Workload, Pods, Nodes
<1>2. \A o \in Objects : p \in ownershipMap[o] <=> o \in told[p].owners
  BY <1>1 DEF IInv, EdgeInv
<1>3. \A m \in told[p].owners, o \in Objects : m \in ownershipMap[o] <=> o \in told[m].owners
  BY <1>1 DEF IInv, EdgeInv
<1>4. \A m \in Objects : ~told[m].up => told[m].owners = {}
  BY DEF IInv, OwnersInv, Absent
<1>5. p \in Objects /\ \A o \in Objects : ownershipMap[o] \subseteq Objects
  BY DEF Pods, IInv, TypeOK
<1>6. \A c : c \in Down({u}) <=> c \in IF u \in ownerKeys THEN ownershipMap[u] ELSE {u}
  BY DEF Down
<1>7. p \in Leaves(u) <=>
        \E c \in Down({u}) : p \in IF c \in ownerKeys THEN ownershipMap[c] ELSE {c}
  BY DEF Leaves, Down
<1>8. told[p].owners \subseteq Objects
  BY DEF IInv, TypeOK, Object, Pods
<1>9. ASSUME p \in Leaves(u) PROVE Below(told, u, p)
  <2>1. PICK c \in Down({u}) : p \in IF c \in ownerKeys THEN ownershipMap[c] ELSE {c}
    BY <1>7, <1>9
  <2>2. c \in Objects
    BY <1>5, <1>6, <2>1
  <2>3. p = c \/ c \in told[p].owners
    BY <1>2, <2>1, <2>2
  <2>4. u = c \/ (u \in ownerKeys /\ c \in ownershipMap[u])
    BY <1>6, <2>1
  <2>5. CASE c \in told[p].owners /\ c \in ownershipMap[u]
    <3>1. u \in told[c].owners /\ told[c].up
      BY <1>3, <1>4, <2>2, <2>5
    <3> QED
      BY <2>2, <2>5, <3>1 DEF Below
  <2> QED
    BY <1>2, <2>3, <2>4, <2>5 DEF Below
<1>10. ASSUME Below(told, u, p) PROVE p \in Leaves(u)
  <2>1. CASE p = u
    BY <1>1, <1>6, <1>7, <2>1
  <2>2. CASE u \in told[p].owners
    <3>1. p \in ownershipMap[u] /\ u \in ownerKeys
      BY <1>1, <1>2, <2>2
    <3> QED
      BY <1>1, <1>6, <1>7, <3>1
  <2>3. CASE \E m \in Objects : told[m].up /\ u \in told[m].owners /\ m \in told[p].owners
    <3>1. PICK m \in Objects : u \in told[m].owners /\ m \in told[p].owners
      BY <2>3
    <3>2. p \in ownershipMap[m] /\ m \in ownerKeys
      BY <1>1, <1>2, <3>1
    <3>3. m \in ownershipMap[u] /\ u \in ownerKeys
      BY <1>1, <1>3, <3>1
    <3> QED
      BY <1>6, <1>7, <3>2, <3>3
  <2> QED
    BY <1>10, <2>1, <2>2, <2>3 DEF Below
<1> QED
  BY <1>9, <1>10

\* So the workloads of a path that own it are those that were told.
LEMMA PathsMatch ==
  ASSUME IInv, NEW p \in Pods, Clean(p)
  PROVE  (\E path \in Paths : \E u \in GetWorkloads(path) : p \in GetPodsOwnedByWorkload(u))
         <=> told[p].up /\ \E path \in Paths, u \in Objects :
                             told[u].up /\ Named(path, u) /\ Below(told, u, p)
<1>1. \A u \in Objects : Below(told, u, p) => u \in Workloads \ odd
  <2>1. told[p].owners \subseteq Owners[p] /\ \A m \in Objects : told[m].owners \subseteq Owners[m]
    BY DEF IInv, OwnersInv, Pods
  <2>2. \A u \in Ancestors(p) : u \notin odd
    BY DEF Clean
  <2>3. p \in Workloads /\ \A m \in Objects : \A o \in Owners[m] : o \in Workloads
    BY WorkloadIndexAssumption DEF Workloads, Workload, Pods, Nodes
  <2> QED
    BY <2>1, <2>2, <2>3 DEF Below, Ancestors, Pods
<1>2. \A u \in Workloads \ odd : /\ dataMap[u].up = told[u].up
                                 /\ u \in listMap[Kind[u]] <=> told[u].up
  BY DEF IInv, DataInv
<1>3. p \in Workloads \ odd /\ p \in Objects
  BY <1>1 DEF Below, Pods
<1>4. \A u \in Objects, path \in Paths :
        u \in Workloads \ odd => (u \in GetWorkloads(path) <=> told[u].up /\ Named(path, u))
  BY <1>2 DEF GetWorkloads, Named, IInv, ListInv, Workloads, Kinds
<1>5. \A path \in Paths : GetWorkloads(path) \subseteq Objects
  BY DEF GetWorkloads, IInv, TypeOK
<1>6. \A u \in Objects : p \in GetPodsOwnedByWorkload(u) <=> told[p].up /\ Below(told, u, p)
  BY LeavesOwn, <1>2, <1>3 DEF GetPodsOwnedByWorkload
<1> QED
  BY <1>1, <1>4, <1>5, <1>6

LEMMA Implies == ASSUME IInv PROVE SourcesTrue
<1> SUFFICES ASSUME isReady, NEW p \in Pods, Clean(p)
             PROVE  {s \in sources : s[1] = p}
                      = IF Matches(told, p) THEN {SourceOf(told, p)} ELSE {}
  BY DEF SourcesTrue, SourcesAre
<1>1. dataMap[p] = told[p] /\ nodeMap[NodeOf[p]] = told[NodeOf[p]]
  BY WorkloadIndexAssumption
     DEF Clean, Ancestors, IInv, DataInv, NodeInv, Workloads, Workload, Pods
<1>2. sources = Wanted
  BY DEF IInv, SourcesInv
<1>3. (\E path \in Paths : \E u \in GetWorkloads(path) : p \in GetPodsOwnedByWorkload(u))
        /\ dataMap[p].id > 0 /\ nodeMap[NodeOf[p]].up
      <=> Matches(told, p)
  BY <1>1, PathsMatch DEF Matches
<1>4. {s \in Wanted : s[1] = p} = IF Matches(told, p) THEN {SourceOf(told, p)} ELSE {}
  BY <1>1, <1>3 DEF Wanted, SourceOf
<1> QED
  BY <1>2, <1>4

\* However the informers' events interleave, the index and getLeafIDs, which
\* never look at the objects' owners again, give at every moment the containers
\* that the told objects' owner references lead to.
THEOREM SourcesCorrect == Spec => []SourcesTrue
<1>1. Init => IInv
  BY InvInit
<1>2. IInv /\ [Next]_vars => IInv'
  BY InvNext
<1>3. IInv => SourcesTrue
  BY Implies
<1> QED
  BY <1>1, <1>2, <1>3, PTL DEF Spec
=============================================================================
