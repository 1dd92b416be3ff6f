------------------------------ MODULE MCLogFile ------------------------------
(* Instances of LogFile for TLC. *)
EXTENDS LogFile

\* Kinds of lines: final ones of two and of three bytes, partial ones of four, one that
\* cannot be parsed, and one whose message is written like a line.
Short(t)   == [len |-> 2, ts |-> t, final |-> TRUE, inner |-> 0]
Final(t)   == [len |-> 3, ts |-> t, final |-> TRUE, inner |-> 0]
PartOf(t)  == [len |-> 4, ts |-> t, final |-> FALSE, inner |-> 0]
Bad        == [len |-> 2, ts |-> 0, final |-> FALSE, inner |-> 0]
Quote(t,u) == [len |-> 4, ts |-> t, final |-> TRUE, inner |-> u]

RECURSIVE Place(_, _)
Place(kinds, at) ==
  IF kinds = <<>> THEN <<>>
  ELSE <<[at |-> at, len |-> Head(kinds).len, ts |-> Head(kinds).ts,
          final |-> Head(kinds).final, inner |-> Head(kinds).inner]>>
       \o Place(Tail(kinds), at + Head(kinds).len)

Length(l) == IF l = <<>> THEN 0 ELSE l[Len(l)].at + l[Len(l)].len

\* Logs whose timestamps do not go back.
Logs(kinds, n) ==
  {Place(k, 0) : k \in {k \in UNION {[1..m -> kinds] : m \in 0..n} :
     \A i, j \in DOMAIN k : (i < j /\ k[i].ts # 0 /\ k[j].ts # 0) => k[i].ts <= k[j].ts}}

Req(b, s, t, f) == [backward |-> b, start |-> s, stop |-> t, follow |-> f]

\* Files that are written when the request comes: every range.
StillCases ==
  {[log |-> l, size |-> Length(l), req |-> Req(b, s, t, "noop")] :
     l \in Logs({Bad, Quote(1, 2), Final(1), Final(2)}, 3)
           \cup {Place(<<PartOf(1), Final(1), Bad, PartOf(2), Final(2)>>, 0)},
     b \in BOOLEAN, s \in {0, 2, 3}, t \in 0..1}

\* Files that are written to from the beginning, line by line or in parts.
GrowingCases ==
  {[log |-> l, size |-> 0, req |-> r] :
     l \in Logs({Final(1), PartOf(2)}, 2),
     r \in {Req(FALSE, 0, 0, "noop"), Req(FALSE, 2, 0, "default"), Req(TRUE, 0, 1, "noop")}}
  \cup
  {[log |-> Place(<<Short(1), Bad, Short(2)>>, 0), size |-> 0,
    req |-> Req(FALSE, 0, 0, "default")],
   [log |-> Place(<<Short(1), Short(1)>>, 0), size |-> 0, req |-> Req(FALSE, 0, 0, "end")]}

MCCases == StillCases \cup GrowingCases
=============================================================================
