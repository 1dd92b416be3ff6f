---------------------------- MODULE MCConnections ----------------------------
(* Connections for TLC. *)
EXTENDS Connections

\* Many changes and one client, fewer and two, a change and two callers, or
\* three callers.
FourScopes == {[writes |-> 3, clients |-> {"c1"}, callers |-> {}],
               [writes |-> 1, clients |-> {"c1", "c2"}, callers |-> {}],
               [writes |-> 1, clients |-> {}, callers |-> {"p1", "p2"}],
               [writes |-> 0, clients |-> {}, callers |-> Callers]}

\* The second content does not have the context any more.
SomeContexts == [v \in Configs |-> IF v \in {0, 3} THEN Contexts ELSE {}]
=============================================================================
