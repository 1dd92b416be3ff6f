----------------------------- MODULE MCListWatch -----------------------------
(* An instance of ListWatch for TLC. *)
EXTENDS ListWatch

CONSTANTS n1, n2

TwoNamespaces == {n1, n2}
ThreeNames == 1..3

Objects(S) == {[ns |-> o[1], name |-> o[2], uid |-> 0] : o \in S}

\* Names that alternate between the namespaces, one of which fills a page.  A name
\* that is in both, at the end of a page, comes with what is created.
SomeInitials == {Objects({<<n1, 1>>, <<n2, 2>>, <<n1, 3>>})}

=============================================================================
