---------------------------- MODULE OrderedMerge ----------------------------
(***************************************************************************)
(* What the past phase of a stream promises, without channels, goroutines  *)
(* or heaps: from feeds that are each sorted it takes records one by one,  *)
(* always one that no record still to be read comes before, until a limit  *)
(* is used up.  A feed whose read fails is given up: no more of it is      *)
(* taken.                                                                  *)
(***************************************************************************)
EXTENDS Integers, Sequences, FiniteSets

CONSTANTS Sources,
          MaxNum,  \* how many records to take, except in mode "all"
          Feeds    \* the feeds there may be in each mode

VARIABLES mode,    \* "head", "all", or "tail", which takes the last ones first
          feed,    \* feed[s]: the timestamps of source s, in merge order
          failed,  \* the sources that were given up
          taken    \* the records taken, in order

vars == <<mode, feed, failed, taken>>

Before(a, b) == IF mode = "tail" THEN a >= b ELSE a <= b

Count(s) == Cardinality({i \in 1..Len(taken) : taken[i].src = s})

Left(s) == Count(s) < Len(feed[s])

NextOf(s) == feed[s][Count(s) + 1]

LimitUsed == taken # <<>> /\ mode # "all" /\ Len(taken) >= MaxNum

Init == mode \in DOMAIN Feeds /\ feed \in Feeds[mode] /\ failed = {} /\ taken = <<>>

\* A source that failed may still have records on the way, but it does not
\* hold up the others.
Take(s) ==
  /\ ~LimitUsed /\ Left(s)
  /\ \A t \in Sources \ failed : Left(t) => Before(NextOf(s), NextOf(t))
  /\ taken' = Append(taken, [src |-> s, pos |-> Count(s) + 1, ts |-> NextOf(s)])
  /\ UNCHANGED <<mode, feed, failed>>

GiveUp(F) ==
  /\ failed' = failed \cup F
  /\ UNCHANGED <<mode, feed, taken>>

Next == \/ \E s \in Sources : Take(s)
        \/ \E F \in SUBSET Sources : GiveUp(F)

Spec == Init /\ [][Next]_vars
=============================================================================
