--------------------------- MODULE MCWorkloadIndex ---------------------------
(* Instances of WorkloadIndex for TLC: a deployment with its replica set and *)
(* a pod, a stateful set's pod that may be created again under its name, all *)
(* on one node.                                                              *)
EXTENDS WorkloadIndex

\* deployments/web and pods/db-0
SomePaths == {[kind |-> "deployment", name |-> "web"], [kind |-> "pod", name |-> "db-0"]}

SomeObjects == {"d", "r", "p", "s", "t", "n"}

SomeKinds ==
  [d |-> "deployment", r |-> "replicaset", p |-> "pod", s |-> "pod", t |-> "pod", n |-> "node"]

SomeNames ==
  [d |-> "web", r |-> "web-1", p |-> "web-1-a", s |-> "db-0", t |-> "db-0", n |-> "host"]

SomeOwners == [d |-> {}, r |-> {"d"}, p |-> {"r"}, s |-> {}, t |-> {}, n |-> {}]

SomeNodes == [u \in {"p", "s", "t"} |-> "n"]
=============================================================================
