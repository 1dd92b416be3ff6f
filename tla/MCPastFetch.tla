---------------------------- MODULE MCPastFetch ----------------------------
(* Instances of PastFetch for TLC. *)
EXTENDS PastFetch

CONSTANTS MaxLen,    \* records in one log
          MaxTime    \* timestamps are 1..MaxTime

Times == 1..MaxTime

\* Logs sorted in reading order, with equal timestamps in one log and across
\* logs.
Sorted(m) ==
  {f \in UNION {[1..n -> Times] : n \in 0..MaxLen} :
     \A i, j \in DOMAIN f : i <= j => IF m = "tail" THEN f[i] >= f[j] ELSE f[i] <= f[j]}

MCFeeds == [m \in {"head", "tail"} |-> [Sources -> Sorted(m)]]

\* kubetail logs --head and --tail, and the dashboard's tail by agents
HeadAndTail == {[mode |-> "head", fetcher |-> "kube"], [mode |-> "tail", fetcher |-> "kube"],
                [mode |-> "tail", fetcher |-> "agent"]}
=============================================================================
