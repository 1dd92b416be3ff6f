------------------------------ MODULE ListWatch ------------------------------
(***************************************************************************)
(* The dashboard's lists over several namespaces: the resolver that merges *)
(* pages (listResourceMulti, mergeResults), the one that merges watches    *)
(* (watchResourceMulti, watchResource) and the two hooks of the user       *)
(* interface that fetch the pages, subscribe where they end and apply the  *)
(* events: one shows the objects, one only counts them.                    *)
(*                                                                         *)
(* The Kubernetes API is external: a log of changes, whose length is the   *)
(* resource version.  A list is what a namespace held at some version, in  *)
(* the order of the names, and a watch is the namespace's part of the log  *)
(* after a version.                                                        *)
(*                                                                         *)
(* When the websocket is lost its client connects again, as often as need  *)
(* be, and sends the subscription as it was (apollo-client.ts): the events *)
(* since the lists are told again.                                         *)
(***************************************************************************)
EXTENDS Integers, Sequences, FiniteSets

CONSTANTS Namespaces,   \* the namespaces the user may see
          Names,        \* names of objects, numbered in their order
          Initials,     \* what may be there at the start: sets of objects
          Limit,        \* size of a page
          Kinds,        \* the hooks to consider: "list", "count"
          MaxChanges,   \* bound on the changes of the cluster
          MaxLosses     \* bound on the losses of the websocket

ASSUME ListWatchAssumption ==
  /\ Names \subseteq Nat \ {0}
  /\ \A S \in Initials :
       IsFiniteSet(S) /\ S \subseteq [ns : Namespaces, name : Names, uid : {0}]
  /\ Limit \in Nat \ {0}
  /\ Kinds \subseteq {"list", "count"}
  /\ MaxChanges \in Nat /\ MaxLosses \in Nat

VARIABLES kind,       \* which hook it is
          initial,    \* what was there before the log starts
          log,        \* the changes of the cluster
          client,     \* what the hook is at
          start,      \* StartKey of the continue token, 0 without a token
          rvs,        \* the resource version of each namespace's list
          answer,     \* the answers to the requests for the current page
          items,      \* the objects the hook shows
          remaining,  \* remainingItemCount of its metadata
          watcher,    \* where each goroutine of watchResource is
          pos,        \* the version up to which its events were delivered
          broken,     \* whether the API ended the watch of a namespace
          ctxDone,    \* whether the context of the watches is done
          outCh,      \* the channel of the subscription
          losses,     \* how often the websocket was lost
          seen,       \* the version up to which the hook has had the events of
                      \*   a namespace, through whichever connection
          recounted   \* the objects, those deleted taken off, that the events
                      \*   told again had brought before

apiVars == <<initial, log>>
listVars == <<start, rvs, answer>>
viewVars == <<items, remaining>>
watchVars == <<watcher, pos, broken, ctxDone, outCh>>
pastVars == <<losses, seen, recounted>>
vars == <<kind, apiVars, client, listVars, viewVars, watchVars, pastVars>>

Item == [ns : Namespaces, name : Names, uid : 0..MaxChanges]
Change == [type : {"ADDED", "MODIFIED", "DELETED"}, item : Item]

\* What namespace n held at version r.
At(r, n) ==
  {i \in initial \union {log[k].item : k \in 1..r} :
     i.ns = n /\ \A k \in 1..r : log[k].item = i => log[k].type # "DELETED"}

Live == UNION {At(Len(log), n) : n \in Namespaces}

\* The objects of the lists a client has fetched, or is fetching.
Snapshot == UNION {At(rvs[n], n) : n \in Namespaces}

\* What the namespaces held when the last events of this connection happened.
Delivered == UNION {At(pos[n], n) : n \in Namespaces}

Size == IF kind = "list" THEN Limit ELSE 1

\* T is the first page of S: as many as fit, by name.
IsPage(T, S) ==
  /\ T \subseteq S
  /\ Cardinality(T) <= Size
  /\ T # S => Cardinality(T) = Size
  /\ \A t \in T, s \in S \ T : t.name <= s.name

None == [is |-> "none", rv |-> 0, page |-> {}, rest |-> {}]
Failed == [None EXCEPT !.is = "error"]

Answer == [is : {"none", "error", "list"}, rv : 0..MaxChanges,
           page : SUBSET Item, rest : SUBSET Item]

\* The events of a namespace's watch that are not delivered yet.
Ahead(n) == {k \in pos[n] + 1..Len(log) : log[k].item.ns = n}

IsNext(k, n) == \A j \in Ahead(n) : k <= j

TypeOK ==
  /\ kind \in Kinds
  /\ initial \subseteq Item
  /\ log \in Seq(Change) /\ Len(log) <= MaxChanges
  /\ client \in {"listing", "listed", "watching", "lost", "ended", "stuck", "gone"}
  /\ start \in Names \union {0}
  /\ rvs \in [Namespaces -> 0..MaxChanges]
  /\ answer \in [Namespaces -> Answer]
  /\ items \subseteq Item /\ remaining \in Int
  /\ watcher \in [Namespaces -> {"off", "select", "event", "bad", "done"}]
  /\ pos \in [Namespaces -> 0..MaxChanges]
  /\ \A n \in Namespaces :
       pos[n] <= Len(log) /\ (watcher[n] = "event" => Ahead(n) # {})
  /\ broken \in [Namespaces -> BOOLEAN]
  /\ ctxDone \in BOOLEAN
  /\ outCh \in {"none", "open", "closed"}
  /\ losses \in 0..MaxLosses
  /\ seen \in [Namespaces -> 0..MaxChanges] /\ recounted \in Int

Init ==
  /\ kind \in Kinds
  /\ initial \in Initials
  /\ log = <<>>
  /\ client = "listing"
  /\ start = 0
  /\ rvs = [n \in Namespaces |-> 0]
  /\ answer = [n \in Namespaces |-> None]
  /\ items = {}
  /\ remaining = 0
  /\ watcher = [n \in Namespaces |-> "off"]
  /\ pos = [n \in Namespaces |-> 0]
  /\ broken = [n \in Namespaces |-> FALSE]
  /\ ctxDone = FALSE
  /\ outCh = "none"
  /\ losses = 0
  /\ seen = [n \in Namespaces |-> 0]
  /\ recounted = 0

-----------------------------------------------------------------------------
(* The cluster.                                                            *)

Happens(type, i) ==
  /\ log' = Append(log, [type |-> type, item |-> i])
  /\ UNCHANGED <<kind, initial, client, listVars, viewVars, watchVars, pastVars>>

Create(n, m) ==
  /\ Len(log) < MaxChanges
  /\ \A i \in At(Len(log), n) : i.name # m
  /\ Happens("ADDED", [ns |-> n, name |-> m, uid |-> Len(log) + 1])

Modify(i) == Len(log) < MaxChanges /\ Happens("MODIFIED", i)

Delete(i) == Len(log) < MaxChanges /\ Happens("DELETED", i)

-----------------------------------------------------------------------------
(* Pages.                                                                  *)

\* (fault: every page is of what is there when it is asked for)
ListNamespace_Fresh(n) ==
  /\ client = "listing" /\ answer[n].is = "none"
  /\ LET found == {i \in At(Len(log), n) : i.name > start}
     IN \E page \in SUBSET found :
          /\ IsPage(page, found)
          /\ answer' = [answer EXCEPT ![n] = [is |-> "list", rv |-> Len(log),
                                              page |-> page, rest |-> found \ page]]
  /\ UNCHANGED <<kind, apiVars, client, start, rvs, viewVars, watchVars, pastVars>>

\* One of the concurrent requests.  Without a token it lists what is there
\* now; with one it goes on behind StartKey at the version of the first page.
ListNamespace(n) ==
  /\ client = "listing" /\ answer[n].is = "none"
  /\ LET r == IF start = 0 THEN Len(log) ELSE rvs[n]
         found == {i \in At(r, n) : i.name > start}
     IN \E page \in SUBSET found :
          /\ IsPage(page, found)
          /\ answer' = [answer EXCEPT ![n] =
               [is |-> "list", rv |-> r, page |-> page, rest |-> found \ page]]
  /\ UNCHANGED <<kind, apiVars, client, start, rvs, viewVars, watchVars, pastVars>>

ListFails(n) ==
  /\ client = "listing" /\ answer[n].is = "none"
  /\ answer' = [answer EXCEPT ![n] = Failed]
  /\ UNCHANGED <<kind, apiVars, client, start, rvs, viewVars, watchVars, pastVars>>

\* mergeResults cuts the joint pages, and the hook takes the page.  The token
\* names the last object shown; the counting hook never asks for a next page.
MergeResults ==
  /\ client = "listing"
  /\ \A n \in Namespaces : answer[n].is = "list"
  /\ LET found == UNION {answer[n].page : n \in Namespaces}
         rest == UNION {answer[n].rest : n \in Namespaces}
     IN \E page \in SUBSET found :
          LET left == rest \union (found \ page)
              more == page # {} /\ left # {}
          IN /\ IsPage(page, found)
             /\ items' = items \union page
             /\ remaining' = Cardinality(left)
             /\ IF more
                THEN start' \in {i.name : i \in page} /\ \A i \in page : i.name <= start'
                ELSE start' = 0
             /\ client' = IF more /\ kind = "list" THEN "listing" ELSE "listed"
  /\ rvs' = [n \in Namespaces |-> answer[n].rv]
  /\ answer' = [n \in Namespaces |-> None]
  /\ UNCHANGED <<kind, apiVars, watchVars, pastVars>>

\* One failed request fails the page.  The hook asks again for the first
\* page, but not for a later one.
MergeFails ==
  /\ client = "listing"
  /\ \A n \in Namespaces : answer[n].is # "none"
  /\ \E n \in Namespaces : answer[n].is = "error"
  /\ client' = IF start = 0 THEN "listing" ELSE "stuck"
  /\ answer' = [n \in Namespaces |-> None]
  /\ UNCHANGED <<kind, apiVars, start, rvs, viewVars, watchVars, pastVars>>

-----------------------------------------------------------------------------
(* Watches.                                                                *)

\* The hook subscribes from the versions of the lists, and after a loss the
\* client of the websocket does so again, from the same versions.
\* watchResourceMulti starts a goroutine for each namespace, or fails.
Subscribe ==
  /\ client \in {"listed", "lost"}
  /\ client' = "watching"
  /\ watcher' = [n \in Namespaces |-> "select"]
  /\ pos' = rvs
  /\ outCh' = "open"
  /\ IF client = "lost"
       THEN /\ recounted' = recounted + Cardinality(Delivered) - Cardinality(Snapshot)
            /\ UNCHANGED seen
       ELSE seen' = rvs /\ UNCHANGED recounted
  /\ UNCHANGED <<kind, apiVars, listVars, viewVars, broken, ctxDone, losses>>

SubscribeFails ==
  /\ client \in {"listed", "lost"}
  /\ client' = "stuck"
  /\ UNCHANGED <<kind, apiVars, listVars, viewVars, watchVars, pastVars>>

\* watchResource takes an event from the API.
Receive(n) ==
  /\ watcher[n] = "select" /\ ~broken[n]
  /\ Ahead(n) # {}
  /\ watcher' = [watcher EXCEPT ![n] = "event"]
  /\ UNCHANGED <<kind, apiVars, client, listVars, viewVars, pos, broken, ctxDone, outCh,
                 pastVars>>

\* (fault: the other goroutines are not stopped)
ReceiveBad_Alone(n) ==
  /\ watcher[n] = "select"
  /\ watcher' = [watcher EXCEPT ![n] = "bad"]
  /\ broken' = [broken EXCEPT ![n] = TRUE]
  /\ UNCHANGED <<kind, apiVars, client, listVars, viewVars, pos, ctxDone, outCh, pastVars>>

\* The API reports an error or ends the watch.  The goroutine stops all others,
\* and goes on to send what it got.  From a closed channel it gets it again.
ReceiveBad(n) ==
  /\ watcher[n] = "select"
  /\ watcher' = [watcher EXCEPT ![n] = "bad"]
  /\ broken' = [broken EXCEPT ![n] = TRUE]
  /\ ctxDone' = TRUE
  /\ UNCHANGED <<kind, apiVars, client, listVars, viewVars, pos, outCh, pastVars>>

\* The context is done: the goroutine leaves its loop.
Quit(n) ==
  /\ watcher[n] = "select" /\ ctxDone
  /\ watcher' = [watcher EXCEPT ![n] = "done"]
  /\ UNCHANGED <<kind, apiVars, client, listVars, viewVars, pos, broken, ctxDone, outCh,
                 pastVars>>

\* The list hook keeps an object it has and drops a deleted one.
ShowItem(c) ==
  /\ items' = IF c.type = "DELETED" THEN items \ {c.item}
              ELSE IF c.type = "ADDED" THEN items \union {c.item} ELSE items
  /\ UNCHANGED remaining

\* (fault: the hook counts every event)
CountItem_Any(c) ==
  /\ remaining' = IF c.type = "DELETED" THEN remaining - 1 ELSE remaining + 1
  /\ UNCHANGED items

\* The counting hook leaves the objects of the first page as they were.
CountItem(c) ==
  /\ remaining' = IF c.type = "DELETED" THEN remaining - 1
                  ELSE IF c.type = "ADDED" THEN remaining + 1 ELSE remaining
  /\ UNCHANGED items

\* An event goes through outCh to the hook.
Deliver(n) ==
  /\ watcher[n] = "event" /\ client = "watching"
  /\ \E k \in Ahead(n) :
       /\ IsNext(k, n)
       /\ IF kind = "list" THEN ShowItem(log[k]) ELSE CountItem(log[k])
       /\ pos' = [pos EXCEPT ![n] = k]
       /\ seen' = [seen EXCEPT ![n] = IF k > @ THEN k ELSE @]
  /\ watcher' = [watcher EXCEPT ![n] = "select"]
  /\ UNCHANGED <<kind, apiVars, client, listVars, broken, ctxDone, outCh, losses, recounted>>

\* The hook drops what has no type, or one it does not know.
DeliverBad(n) ==
  /\ watcher[n] = "bad" /\ client = "watching"
  /\ watcher' = [watcher EXCEPT ![n] = "select"]
  /\ UNCHANGED <<kind, apiVars, client, listVars, viewVars, pos, broken, ctxDone, outCh,
                 pastVars>>

\* The last goroutine has gone: the channel is closed and the subscription ends.
CloseOut ==
  /\ outCh = "open"
  /\ \A n \in Namespaces : watcher[n] = "done"
  /\ outCh' = "closed"
  /\ ctxDone' = TRUE
  /\ client' = IF client = "watching" THEN "ended" ELSE client
  /\ UNCHANGED <<kind, apiVars, listVars, viewVars, watcher, pos, broken, pastVars>>

\* The websocket is lost, and with it the subscription: the goroutines it had on
\* the server end, as after Leave, and are not followed any more.
Lose ==
  /\ client = "watching" /\ losses < MaxLosses
  /\ client' = "lost" /\ losses' = losses + 1
  /\ watcher' = [n \in Namespaces |-> "off"] /\ outCh' = "none"
  /\ broken' = [n \in Namespaces |-> FALSE] /\ ctxDone' = FALSE
  /\ UNCHANGED <<kind, apiVars, listVars, viewVars, pos, seen, recounted>>

\* The client closes the subscription, and nobody receives any more.
Leave ==
  /\ client \in {"watching", "lost"}
  /\ client' = "gone"
  /\ ctxDone' = TRUE
  /\ UNCHANGED <<kind, apiVars, listVars, viewVars, watcher, pos, broken, outCh, pastVars>>

-----------------------------------------------------------------------------

Cluster ==
  \/ \E n \in Namespaces, m \in Names : Create(n, m)
  \/ \E i \in Live : Modify(i) \/ Delete(i)

Listing ==
  \/ \E n \in Namespaces : ListNamespace(n) \/ ListFails(n)
  \/ MergeResults \/ MergeFails

Watching ==
  \/ Subscribe \/ SubscribeFails
  \/ \E n \in Namespaces :
       Receive(n) \/ ReceiveBad(n) \/ Quit(n) \/ Deliver(n) \/ DeliverBad(n)
  \/ CloseOut \/ Lose \/ Leave

Next == Cluster \/ Listing \/ Watching

\* Goroutines run.  A goroutine whose context is done may go on to receive from
\* a closed channel, but not for ever: select chooses among what is ready.
Fairness ==
  /\ \A n \in Namespaces : WF_vars(Deliver(n) \/ DeliverBad(n)) /\ SF_vars(Quit(n))
  /\ WF_vars(CloseOut)

Spec == Init /\ [][Next]_vars /\ Fairness

-----------------------------------------------------------------------------
(* Properties.                                                             *)

Subscribed == client \in {"watching", "lost", "ended", "gone"}

\* No name is in two of the namespaces that were listed.
DistinctNames == \A i, j \in Snapshot : i.name = j.name => i = j

\* Objects whose deletion the hook has had and will be told again.
ToldAgain(n) == {log[k].item : k \in {j \in pos[n] + 1..seen[n] : log[j].type = "DELETED"}}

\* What the list shows of a namespace is what that namespace held when the last
\* event the hook has had of it happened: pages cut across namespaces, snapshots
\* taken at different versions and the watches that follow them leave nothing
\* out and bring nothing back (schema.helpers.go:332, resolver.go:127,
\* hooks.ts:299).  When events are told again, after the websocket was lost,
\* objects may come back until their deletion is told again.  Where a name is in
\* two namespaces, a page that ends between them leaves objects out.
ViewConsistent ==
  kind = "list" /\ Subscribed =>
    \A n \in Namespaces :
      LET shown == {i \in items : i.ns = n}
      IN /\ shown \subseteq At(seen[n], n) \union ToldAgain(n)
         /\ DistinctNames => At(seen[n], n) \subseteq shown

\* The counting hook has the number of objects, from one page of one object, the
\* counts the API leaves out of it and the events since (schema.helpers.go:375,
\* hooks.ts:424), as long as the websocket is not lost.  The objects of the
\* events that are told again are then counted again, once for each loss.
CountTrue ==
  kind = "count" /\ Subscribed =>
    Cardinality(items) + remaining = Cardinality(Delivered) + recounted

\* When the watch of one namespace fails, or ends, the others end with it and the
\* client is told by the end of the subscription, unless it left or lost the
\* websocket before (schema.helpers.go:244, resolver.go:159).
EndsTogether ==
  (\E n \in Namespaces : broken[n]) /\ client = "watching" ~> client \in {"ended", "gone", "lost"}

\* The claim of hooks.ts:276 and 287, "fetch rest" and "wait for all data to get
\* fetched": the hook subscribes when it has all objects of the lists.
PagesComplete == kind = "list" /\ client = "listed" => items = Snapshot

=============================================================================
