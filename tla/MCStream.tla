------------------------------ MODULE MCStream ------------------------------
(* Instances of Stream for TLC.  The instances differ in their constants     *)
(* only; logs are short, since a hazard of the join of past and future shows *)
(* with one record on each side of it.                                       *)
EXTENDS Stream, TLC

Fetch(m)     == [mode |-> m, follow |-> FALSE]
Following(m) == [mode |-> m, follow |-> TRUE]

\* kubetail logs --head, --tail -f, --all -f
EveryKind  == {Fetch("head"), Following("tail"), Following("all")}
Tailing    == {Fetch("tail"), Following("tail")}
TailFollow == {Following("tail")}
=============================================================================
