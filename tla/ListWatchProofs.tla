--------------------------- MODULE ListWatchProofs ---------------------------
(***************************************************************************)
(* Theorems about ListWatch, for any namespaces, names, size of a page and *)
(* number of changes.                                                      *)
(***************************************************************************)
EXTENDS ListWatch, FiniteSetTheorems, TLAPS

-----------------------------------------------------------------------------
(* The log of the API.                                                     *)

Known == initial \union {log[k].item : k \in 1..Len(log)}

\* An object is created once, under a number nobody had before, and changed or
\* deleted only while it is there.
LogInv ==
  /\ initial \in Initials
  /\ IsFiniteSet(Known)
  /\ \A k \in 1..Len(log) :
       /\ log[k].item.uid <= k
       /\ log[k].type = "ADDED" => log[k].item.uid = k
       /\ log[k].type # "ADDED" => log[k].item \in At(k - 1, log[k].item.ns)

LEMMA LogType ==
  ASSUME TypeOK
  PROVE  /\ Len(log) \in Nat
         /\ \A k \in 1..Len(log) : log[k] \in Change
BY DEF TypeOK

LEMMA Empty == ASSUME NEW S PROVE <<>> \in Seq(S) /\ Len(<<>>) = 0
OBVIOUS

LEMMA Appended ==
  ASSUME NEW S, NEW s \in Seq(S), NEW x \in S
  PROVE  /\ Append(s, x) \in Seq(S)
         /\ Len(s) \in Nat
         /\ Len(Append(s, x)) = Len(s) + 1 /\ Append(s, x)[Len(s) + 1] = x
         /\ \A i \in 1..Len(s) : Append(s, x)[i] = s[i]
OBVIOUS

\* What a namespace held once it always held at that version.
LEMMA Frozen ==
  ASSUME NEW n, NEW r \in Nat, r <= Len(log), Len(log) \in Nat,
         initial' = initial, \A k \in 1..Len(log) : log'[k] = log[k]
  PROVE  At(r, n)' = At(r, n)
<1>1. \A k \in 1..r : log'[k] = log[k]
  OBVIOUS
<1>2. {log'[k].item : k \in 1..r} = {log[k].item : k \in 1..r}
  BY <1>1
<1> QED
  BY <1>1, <1>2 DEF At

LEMMA AtKnown ==
  ASSUME NEW n, NEW r \in Nat, r <= Len(log), Len(log) \in Nat
  PROVE  At(r, n) \subseteq Known /\ \A i \in At(r, n) : i.ns = n
BY DEF At, Known

\* The changes of other namespaces do not matter.
LEMMA Skip ==
  ASSUME NEW n, NEW r \in Nat, NEW q \in Nat, r <= q,
         \A k \in r + 1..q : log[k].item.ns # n
  PROVE  At(q, n) = At(r, n)
<1>1. \A k \in 1..q : k \in 1..r \/ k \in r + 1..q
  OBVIOUS
<1>2. 1..r \subseteq 1..q
  OBVIOUS
<1>3. ASSUME NEW i \in At(q, n) PROVE i \in At(r, n)
  BY <1>1, <1>2, <1>3 DEF At
<1>4. ASSUME NEW i \in At(r, n) PROVE i \in At(q, n)
  BY <1>1, <1>2, <1>4 DEF At
<1> QED
  BY <1>3, <1>4

\* What an event does to its namespace.
LEMMA Applied ==
  ASSUME TypeOK, LogInv, NEW k \in 1..Len(log)
  PROVE  LET c == log[k]
             old == At(k - 1, c.item.ns)
         IN /\ c.type \in {"ADDED", "MODIFIED", "DELETED"}
            /\ c.type = "ADDED" => c.item \notin old /\ At(k, c.item.ns) = old \union {c.item}
            /\ c.type = "MODIFIED" => At(k, c.item.ns) = old
            /\ c.type = "DELETED" => c.item \in old /\ At(k, c.item.ns) = old \ {c.item}
<1> DEFINE c == log[k]
           n == c.item.ns
           old == At(k - 1, n)
<1>1. k \in Nat /\ k - 1 \in Nat /\ 1..k = (1..(k - 1)) \union {k} /\ k \in 1..k
  BY LogType
<1>2. c.type \in {"ADDED", "MODIFIED", "DELETED"}
  BY LogType DEF Change
<1>3. CASE c.type = "ADDED"
  <2>1. \A j \in 1..(k - 1) : log[j].item # c.item
    <3>1. \A j \in 1..(k - 1) : log[j].item.uid <= j /\ log[j].item.uid \in Int
      BY LogType, ListWatchAssumption DEF LogInv, Change, Item, ListWatchAssumption
    <3>2. c.item.uid = k
      BY <1>3 DEF LogInv
    <3> QED
      BY <3>1, <3>2, LogType
  <2>2. At(k, n) = old \union {c.item}
    <3>1. ASSUME NEW i \in At(k, n) PROVE i \in old \union {c.item}
      BY <1>1, <3>1 DEF At
    <3>2. ASSUME NEW i \in old PROVE i \in At(k, n)
      BY <1>1, <1>3, <3>2 DEF At
    <3>3. c.item \in At(k, n)
      BY <1>1, <1>3, <2>1 DEF At
    <3> QED
      BY <3>1, <3>2, <3>3
  <2>3. c.item \notin old
    <3>1. \A S \in Initials : \A i \in S : i.uid = 0
      BY ListWatchAssumption DEF ListWatchAssumption
    <3>2. c.item \notin initial
      BY <1>1, <1>3, <3>1 DEF LogInv
    <3> QED
      BY <2>1, <3>2 DEF At
  <2> QED
    BY <1>3, <2>2, <2>3
<1>4. CASE c.type = "MODIFIED"
  <2>1. c.item \in old
    BY <1>4 DEF LogInv
  <2>2. At(k, n) = old
    <3>1. ASSUME NEW i \in At(k, n) PROVE i \in old
      BY <1>1, <2>1, <3>1 DEF At
    <3>2. ASSUME NEW i \in old PROVE i \in At(k, n)
      BY <1>1, <1>4, <3>2 DEF At
    <3> QED
      BY <3>1, <3>2
  <2> QED
    BY <1>4, <2>2
<1>5. CASE c.type = "DELETED"
  <2>1. At(k, n) = old \ {c.item}
    <3>1. ASSUME NEW i \in At(k, n) PROVE i \in old \ {c.item}
      BY <1>1, <1>5, <3>1 DEF At
    <3>2. ASSUME NEW i \in old \ {c.item} PROVE i \in At(k, n)
      BY <1>1, <1>5, <3>2 DEF At
    <3> QED
      BY <3>1, <3>2
  <2>2. c.item \in old
    BY <1>5 DEF LogInv
  <2> QED
    BY <1>5, <2>1, <2>2
<1> QED
  BY <1>2, <1>3, <1>4, <1>5

-----------------------------------------------------------------------------
(* Pages.                                                                  *)

LEMMA SizePositive == Size \in Nat \ {0}
BY ListWatchAssumption DEF Size, ListWatchAssumption

\* A page of all is cut from the pages of each namespace.  What has a name up to
\* that of its last object is on it, if no two objects have the same name.
LEMMA PageCut ==
  ASSUME NEW A, NEW P, NEW T, NEW m \in Namespaces,
         IsFiniteSet(UNION {A[n] : n \in Namespaces}),
         \A n \in Namespaces : IsPage(P[n], A[n]),
         IsPage(T, UNION {P[n] : n \in Namespaces}),
         \A i \in UNION {A[n] : n \in Namespaces} : i.name \in Nat,
         \A i, j \in UNION {A[n] : n \in Namespaces} : i.name = j.name => i = j,
         NEW t \in T, \A i \in T : i.name <= t.name,
         NEW x \in A[m], x.name <= t.name
  PROVE  x \in T
<1> DEFINE All == UNION {A[n] : n \in Namespaces}
           Found == UNION {P[n] : n \in Namespaces}
<1>1. T \subseteq Found /\ Found \subseteq All /\ x \in All /\ t \in All
  BY DEF IsPage
<1>2. CASE x \in P[m]
  <2>1. SUFFICES ASSUME x \notin T PROVE FALSE
    OBVIOUS
  <2>2. x \in Found \ T
    BY <1>2, <2>1
  <2>3. t.name <= x.name
    BY <2>2 DEF IsPage
  <2>4. t.name = x.name
    BY <2>3, <1>1
  <2> QED
    BY <2>4, <2>1, <1>1
<1>3. CASE x \notin P[m]
  <2>1. SUFFICES ASSUME x \notin T PROVE FALSE
    OBVIOUS
  <2>2. P[m] # A[m] /\ Cardinality(P[m]) = Size
    BY <1>3 DEF IsPage
  <2>3. \A p \in P[m] : p.name <= x.name /\ p \in All
    BY <1>3 DEF IsPage
  <2>4. x.name < t.name
    BY <1>1, <2>1
  <2>5. P[m] \subseteq T
    <3>1. SUFFICES ASSUME NEW p \in P[m], p \notin T PROVE FALSE
      OBVIOUS
    <3>2. t.name <= p.name
      BY <3>1 DEF IsPage
    <3> QED
      BY <3>2, <2>3, <2>4, <1>1
  <2>6. t \notin P[m]
    BY <2>3, <2>4, <1>1
  <2>7. IsFiniteSet(T) /\ IsFiniteSet(P[m])
    BY <1>1, <2>5, FS_Subset
  <2>8. Cardinality(P[m] \union {t}) = Size + 1
    BY <2>2, <2>6, <2>7, FS_AddElement
  <2>9. P[m] \union {t} \subseteq T
    BY <2>5
  <2>10. Cardinality(P[m] \union {t}) <= Cardinality(T)
    BY <2>9, <2>7, FS_Subset
  <2>11. Cardinality(T) <= Size /\ Cardinality(T) \in Nat
    BY <2>7, FS_CardinalityType DEF IsPage
  <2> QED
    BY <2>8, <2>10, <2>11, SizePositive
<1> QED
  BY <1>2, <1>3

\* A page leaves nothing out, or is full.
LEMMA FullPage ==
  ASSUME NEW S, NEW T, IsPage(T, S), T = {}
  PROVE  S = {}
<1>1. Cardinality(T) = 0
  BY FS_EmptySet
<1> QED
  BY <1>1, SizePositive DEF IsPage

-----------------------------------------------------------------------------
(* The invariant.                                                          *)

\* A request was answered with the version's objects behind StartKey.
AnswerInv ==
  client = "listing" =>
    \A n \in Namespaces : answer[n].is = "list" =>
      /\ answer[n].rv <= Len(log)
      /\ start # 0 => answer[n].rv = rvs[n]
      /\ IsPage(answer[n].page, {i \in At(answer[n].rv, n) : i.name > start})
      /\ answer[n].rest = {i \in At(answer[n].rv, n) : i.name > start} \ answer[n].page

RvInv == \A n \in Namespaces : rvs[n] <= Len(log)

\* Through all connections the hook has had more than the lists, and than it has
\* had through this one.
SeenInv ==
  \A n \in Namespaces :
    seen[n] <= Len(log) /\ (Subscribed => rvs[n] <= pos[n] /\ pos[n] <= seen[n])

\* The list has the objects up to StartKey, and all of them without one.
ListInv ==
  kind = "list" =>
    /\ client = "listing" /\ start = 0 => items = {}
    /\ client = "listing" /\ start # 0 =>
         /\ items \subseteq Snapshot
         /\ DistinctNames => items = {i \in Snapshot : i.name <= start}
    /\ client = "listed" =>
         /\ items \subseteq Snapshot
         /\ DistinctNames => items = Snapshot

IInv == TypeOK /\ LogInv /\ RvInv /\ SeenInv /\ AnswerInv /\ ListInv /\ ViewConsistent

LEMMA IInvInit == ASSUME Init PROVE IInv
<1>1. TypeOK
  <2>1. None \in Answer
    BY ListWatchAssumption DEF None, Answer, ListWatchAssumption
  <2>2. initial \subseteq Item
    BY ListWatchAssumption DEF Init, Item, ListWatchAssumption
  <2>3. log \in Seq(Change) /\ Len(log) = 0
    BY Empty DEF Init
  <2>4. /\ rvs \in [Namespaces -> 0..MaxChanges] /\ pos \in [Namespaces -> 0..MaxChanges]
        /\ seen \in [Namespaces -> 0..MaxChanges]
        /\ losses \in 0..MaxLosses /\ recounted \in Int /\ 0 <= MaxChanges
    BY ListWatchAssumption DEF Init, ListWatchAssumption
  <2>5. \A n \in Namespaces : pos[n] = 0 /\ watcher[n] = "off"
    BY DEF Init
  <2>6. answer \in [Namespaces -> Answer]
    BY <2>1 DEF Init
  <2>7. /\ kind \in Kinds /\ client = "listing" /\ start = 0 /\ items = {} /\ remaining = 0
        /\ broken \in [Namespaces -> BOOLEAN] /\ ctxDone \in BOOLEAN /\ outCh = "none"
        /\ watcher \in [Namespaces -> {"off", "select", "event", "bad", "done"}]
    BY DEF Init
  <2> QED
    BY <2>2, <2>3, <2>4, <2>5, <2>6, <2>7 DEF TypeOK
<1>2. Len(log) = 0 /\ log = <<>>
  BY DEF Init
<1>3. LogInv
  <2>1. Known = initial
    BY <1>2 DEF Known
  <2>2. IsFiniteSet(Known) /\ initial \in Initials
    BY <2>1, ListWatchAssumption DEF Init, ListWatchAssumption
  <2> QED
    BY <1>2, <2>2 DEF LogInv
<1>4. RvInv /\ SeenInv /\ AnswerInv
  BY <1>2 DEF Init, RvInv, SeenInv, Subscribed, AnswerInv, None
<1>5. ListInv /\ ViewConsistent
  BY DEF Init, ListInv, ViewConsistent, Subscribed
<1> QED
  BY <1>1, <1>3, <1>4, <1>5 DEF IInv

-----------------------------------------------------------------------------
(* Steps that leave the cluster alone keep what was said about it.         *)

LEMMA SameLog ==
  ASSUME LogInv, UNCHANGED apiVars PROVE LogInv' /\ \A r, n : At(r, n)' = At(r, n)
<1>1. \A r, n : At(r, n)' = At(r, n)
  BY DEF At, apiVars
<1>2. Known' = Known
  BY DEF Known, apiVars
<1> QED
  BY <1>1, <1>2 DEF LogInv, apiVars

LEMMA SameView ==
  ASSUME LogInv, ViewConsistent, UNCHANGED apiVars, UNCHANGED <<kind, rvs, items, pos, seen>>,
         Subscribed' => Subscribed
  PROVE  ViewConsistent'
<1>1. \A r, n : At(r, n)' = At(r, n)
  BY SameLog
<1>2. Snapshot' = Snapshot /\ \A n : ToldAgain(n)' = ToldAgain(n)
  BY <1>1 DEF Snapshot, ToldAgain, apiVars
<1> QED
  BY <1>1, <1>2 DEF ViewConsistent, DistinctNames

-----------------------------------------------------------------------------
(* Types.                                                                  *)

LEMMA FoundType ==
  ASSUME TypeOK, NEW n \in Namespaces, NEW r \in 0..Len(log)
  PROVE  At(r, n) \subseteq Item /\ \A i \in At(r, n) : i.ns = n
<1>1. initial \subseteq Item
  BY DEF TypeOK
<1>2. \A k \in 1..r : log[k].item \in Item
  BY LogType DEF Change
<1> QED
  BY <1>1, <1>2 DEF At

LEMMA TypeCluster ==
  ASSUME TypeOK, LogInv, Cluster
  PROVE  TypeOK' /\ \E c \in Change : log' = Append(log, c)
<1>1. PICK t \in {"ADDED", "MODIFIED", "DELETED"}, i \in Item :
        Happens(t, i) /\ Len(log) < MaxChanges
  <2>1. ASSUME NEW n \in Namespaces, NEW m \in Names, Create(n, m)
        PROVE  [ns |-> n, name |-> m, uid |-> Len(log) + 1] \in Item
    BY <2>1, LogType, ListWatchAssumption DEF Create, Item, ListWatchAssumption
  <2>2. \A i \in Live : i \in Item
    BY FoundType, LogType DEF Live
  <2> QED
    BY <2>1, <2>2 DEF Cluster, Create, Modify, Delete
<1> DEFINE c == [type |-> t, item |-> i]
<1>2. c \in Change /\ log' = Append(log, c)
  BY <1>1 DEF Happens, Change
<1>3. /\ log' \in Seq(Change) /\ Len(log') = Len(log) + 1 /\ Len(log) \in Nat
      /\ \A k \in 1..Len(log) : log'[k] = log[k]
  BY <1>2, Appended DEF TypeOK
<1>4. Len(log') <= MaxChanges
  BY <1>1, <1>3, ListWatchAssumption DEF ListWatchAssumption
<1>5. ASSUME NEW n \in Namespaces
      PROVE  pos'[n] <= Len(log') /\ (watcher'[n] = "event" => Ahead(n)' # {})
  <2>1. pos' = pos /\ watcher' = watcher /\ pos[n] \in Nat /\ pos[n] <= Len(log)
    BY <1>1, ListWatchAssumption DEF Happens, watchVars, TypeOK, ListWatchAssumption
  <2>2. Ahead(n) \subseteq Ahead(n)'
    BY <2>1, <1>3 DEF Ahead
  <2> QED
    BY <2>1, <2>2, <1>3 DEF TypeOK
<1>6. /\ UNCHANGED <<kind, initial, client, start, rvs, answer, items, remaining>>
      /\ UNCHANGED <<watcher, pos, broken, ctxDone, outCh, losses, seen, recounted>>
  BY <1>1 DEF Happens, listVars, viewVars, watchVars, pastVars
<1> QED
  BY <1>2, <1>3, <1>4, <1>5, <1>6 DEF TypeOK

LEMMA TypeAnswer ==
  ASSUME TypeOK, RvInv, NEW n \in Namespaces, ListNamespace(n) PROVE TypeOK'
<1> DEFINE r == IF start = 0 THEN Len(log) ELSE rvs[n]
           found == {i \in At(r, n) : i.name > start}
<1>1. r \in 0..Len(log) /\ r \in 0..MaxChanges
  BY LogType, ListWatchAssumption DEF TypeOK, RvInv, ListWatchAssumption
<1>2. At(r, n) \subseteq Item
  BY <1>1, FoundType
<1> HIDE DEF r
<1>3. PICK page \in SUBSET found :
        answer' = [answer EXCEPT ![n] =
          [is |-> "list", rv |-> r, page |-> page, rest |-> found \ page]]
  BY DEF ListNamespace, r
<1>4. [is |-> "list", rv |-> r, page |-> page, rest |-> found \ page] \in Answer
  BY <1>1, <1>2 DEF Answer
<1>5. answer' \in [Namespaces -> Answer]
  BY <1>3, <1>4 DEF TypeOK
<1>6. UNCHANGED <<kind, apiVars, client, start, rvs, viewVars, watchVars, pastVars>>
  BY DEF ListNamespace
<1> QED
  BY <1>5, <1>6 DEF TypeOK, apiVars, viewVars, watchVars, pastVars, Ahead

LEMMA FailedType == None \in Answer /\ Failed \in Answer
BY ListWatchAssumption DEF None, Failed, Answer, ListWatchAssumption

LEMMA TypeFails ==
  ASSUME TypeOK, NEW n \in Namespaces, ListFails(n) PROVE TypeOK'
<1>1. answer' \in [Namespaces -> Answer]
  BY FailedType DEF ListFails, TypeOK
<1> QED
  BY <1>1 DEF ListFails, TypeOK, apiVars, viewVars, watchVars, pastVars, Ahead

LEMMA TypeMergeFails ==
  ASSUME TypeOK, MergeFails PROVE TypeOK'
<1>1. answer' \in [Namespaces -> Answer]
  BY FailedType DEF MergeFails
<1>2. client' \in {"listing", "stuck"}
  BY DEF MergeFails
<1> QED
  BY <1>1, <1>2 DEF MergeFails, TypeOK, apiVars, viewVars, watchVars, pastVars, Ahead

\* A namespace's answer.
LEMMA AnswerFound ==
  ASSUME TypeOK, LogInv, AnswerInv, client = "listing", NEW n \in Namespaces,
         answer[n].is = "list"
  PROVE  /\ answer[n].rv \in 0..Len(log)
         /\ answer[n].page \subseteq At(answer[n].rv, n)
         /\ answer[n].rest \subseteq At(answer[n].rv, n)
         /\ At(answer[n].rv, n) \subseteq Known /\ At(answer[n].rv, n) \subseteq Item
<1>1. answer[n].rv \in 0..Len(log) /\ Len(log) \in Nat
  <2>1. answer[n].rv \in 0..MaxChanges
    BY DEF TypeOK, Answer
  <2>2. answer[n].rv <= Len(log)
    BY DEF AnswerInv
  <2> QED
    BY <2>1, <2>2, LogType, ListWatchAssumption DEF ListWatchAssumption
<1>2. At(answer[n].rv, n) \subseteq Known /\ At(answer[n].rv, n) \subseteq Item
  BY <1>1, AtKnown, FoundType
<1> QED
  BY <1>1, <1>2 DEF AnswerInv, IsPage

LEMMA TypeMerge ==
  ASSUME TypeOK, LogInv, AnswerInv, MergeResults PROVE TypeOK'
<1> DEFINE found == UNION {answer[n].page : n \in Namespaces}
           rest == UNION {answer[n].rest : n \in Namespaces}
<1>1. PICK page \in SUBSET found :
        LET left == rest \union (found \ page)
            more == page # {} /\ left # {}
        IN /\ items' = items \union page
           /\ remaining' = Cardinality(left)
           /\ IF more
              THEN start' \in {i.name : i \in page} /\ \A i \in page : i.name <= start'
              ELSE start' = 0
           /\ client' = IF more /\ kind = "list" THEN "listing" ELSE "listed"
  BY DEF MergeResults
<1>2. found \subseteq Known /\ rest \subseteq Known /\ found \subseteq Item
  BY AnswerFound DEF MergeResults
<1>3. Cardinality(rest \union (found \ page)) \in Nat
  BY <1>2, FS_Subset, FS_CardinalityType DEF LogInv
<1>4. start' \in Names \union {0}
  BY <1>1, <1>2 DEF Item
<1>5. items' \subseteq Item /\ remaining' \in Int /\ client' \in {"listing", "listed"}
  BY <1>1, <1>2, <1>3 DEF TypeOK
<1>6. rvs' \in [Namespaces -> 0..MaxChanges]
  BY DEF MergeResults, TypeOK, Answer
<1>7. answer' \in [Namespaces -> Answer]
  BY FailedType DEF MergeResults
<1>8. UNCHANGED <<kind, apiVars, watchVars, pastVars>>
  BY DEF MergeResults
<1> QED
  BY <1>4, <1>5, <1>6, <1>7, <1>8 DEF TypeOK, apiVars, watchVars, pastVars, Ahead

LEMMA DeliveredFinite ==
  ASSUME TypeOK, LogInv
  PROVE  /\ IsFiniteSet(Delivered) /\ Cardinality(Delivered) \in Nat
         /\ \A n \in Namespaces : \A i \in At(pos[n], n) : i.ns = n
<1>1. \A n \in Namespaces : pos[n] \in Nat /\ pos[n] <= Len(log)
  BY ListWatchAssumption DEF TypeOK, ListWatchAssumption
<1>2. \A n \in Namespaces : At(pos[n], n) \subseteq Known
                            /\ \A i \in At(pos[n], n) : i.ns = n
  BY <1>1, AtKnown, LogType
<1>3. Delivered \subseteq Known
  BY <1>2 DEF Delivered
<1> QED
  BY <1>2, <1>3, FS_Subset, FS_CardinalityType DEF LogInv

LEMMA SnapshotFinite ==
  ASSUME TypeOK, LogInv, RvInv PROVE IsFiniteSet(Snapshot) /\ Cardinality(Snapshot) \in Nat
<1>1. \A n \in Namespaces : rvs[n] \in Nat /\ rvs[n] <= Len(log)
  BY ListWatchAssumption DEF TypeOK, RvInv, ListWatchAssumption
<1>2. \A n \in Namespaces : At(rvs[n], n) \subseteq Known
  BY <1>1, AtKnown, LogType
<1>3. Snapshot \subseteq Known
  BY <1>2 DEF Snapshot
<1> QED
  BY <1>3, FS_Subset, FS_CardinalityType DEF LogInv

LEMMA TypeSubscribe ==
  ASSUME TypeOK, LogInv, RvInv, Subscribe PROVE TypeOK'
<1>1. /\ watcher' \in [Namespaces -> {"off", "select", "event", "bad", "done"}]
      /\ \A n \in Namespaces : watcher'[n] # "event"
  BY DEF Subscribe
<1>2. pos' \in [Namespaces -> 0..MaxChanges] /\ \A n \in Namespaces : pos'[n] <= Len(log)
  BY DEF Subscribe, TypeOK, RvInv
<1>3. /\ UNCHANGED <<kind, initial, log, start, rvs, answer, items, remaining, broken, ctxDone,
                      losses>>
      /\ client' = "watching" /\ outCh' = "open"
  BY DEF Subscribe, apiVars, listVars, viewVars
<1>4. seen' \in [Namespaces -> 0..MaxChanges]
  BY DEF Subscribe, TypeOK
<1>5. recounted' \in Int
  <2>1. Cardinality(Delivered) \in Nat /\ Cardinality(Snapshot) \in Nat
    BY DeliveredFinite, SnapshotFinite
  <2> QED
    BY <2>1 DEF Subscribe, TypeOK
<1> QED
  BY <1>1, <1>2, <1>3, <1>4, <1>5 DEF TypeOK

LEMMA TypeWatcher ==
  ASSUME TypeOK, NEW n \in Namespaces,
         Receive(n) \/ ReceiveBad(n) \/ Quit(n) \/ DeliverBad(n)
  PROVE  TypeOK'
<1>1. /\ UNCHANGED <<kind, initial, log, client, start, rvs, answer, items, remaining, pos, outCh,
                      losses, seen, recounted>>
      /\ \A m \in Namespaces : Ahead(m)' = Ahead(m)
  BY DEF Receive, ReceiveBad, Quit, DeliverBad, apiVars, listVars, viewVars, pastVars, Ahead
<1>2. PICK w \in {"select", "event", "bad", "done"} :
        watcher' = [watcher EXCEPT ![n] = w] /\ (w = "event" => Ahead(n) # {})
  BY DEF Receive, ReceiveBad, Quit, DeliverBad
<1>3. /\ watcher' \in [Namespaces -> {"off", "select", "event", "bad", "done"}]
      /\ \A m \in Namespaces : watcher'[m] = "event" => Ahead(m)' # {}
  BY <1>1, <1>2 DEF TypeOK
<1>4. broken' \in [Namespaces -> BOOLEAN] /\ ctxDone' \in BOOLEAN
  BY DEF Receive, ReceiveBad, Quit, DeliverBad, TypeOK
<1> QED
  BY <1>1, <1>3, <1>4 DEF TypeOK

LEMMA TypeEnd ==
  ASSUME TypeOK, SubscribeFails \/ CloseOut \/ Lose \/ Leave PROVE TypeOK'
<1>1. /\ UNCHANGED <<kind, initial, log, start, rvs, answer, items, remaining, pos, seen, recounted>>
      /\ \A m \in Namespaces : Ahead(m)' = Ahead(m)
  BY DEF SubscribeFails, CloseOut, Lose, Leave, apiVars, listVars, viewVars, watchVars, pastVars,
     Ahead
<1>2. /\ client' \in {"listing", "listed", "watching", "lost", "ended", "stuck", "gone"}
      /\ ctxDone' \in BOOLEAN /\ outCh' \in {"none", "open", "closed"}
  BY DEF SubscribeFails, CloseOut, Lose, Leave, TypeOK, watchVars
<1>3. /\ broken' \in [Namespaces -> BOOLEAN]
      /\ watcher' \in [Namespaces -> {"off", "select", "event", "bad", "done"}]
      /\ \A m \in Namespaces : watcher'[m] = "event" => watcher[m] = "event"
  BY DEF SubscribeFails, CloseOut, Lose, Leave, TypeOK, watchVars
<1>4. losses' \in 0..MaxLosses
  BY ListWatchAssumption
  DEF SubscribeFails, CloseOut, Lose, Leave, TypeOK, pastVars, ListWatchAssumption
<1> QED
  BY <1>1, <1>2, <1>3, <1>4 DEF TypeOK

\* What Deliver takes is the next change of the namespace.
LEMMA NextEvent ==
  ASSUME TypeOK, NEW n \in Namespaces, NEW k \in Ahead(n), IsNext(k, n)
  PROVE  /\ k \in 1..Len(log) /\ k - 1 \in Nat /\ pos[n] \in Nat /\ pos[n] <= k - 1
         /\ log[k] \in Change /\ log[k].item.ns = n
         /\ \A j \in pos[n] + 1..k - 1 : log[j].item.ns # n
<1>1. pos[n] \in Nat /\ Len(log) \in Nat /\ k \in pos[n] + 1..Len(log) /\ log[k].item.ns = n
  BY LogType, ListWatchAssumption DEF Ahead, TypeOK, ListWatchAssumption
<1>2. k \in 1..Len(log) /\ k - 1 \in Nat /\ pos[n] <= k - 1
  BY <1>1
<1>3. ASSUME NEW j \in pos[n] + 1..k - 1, log[j].item.ns = n PROVE FALSE
  <2>1. j \in Ahead(n)
    BY <1>1, <1>3 DEF Ahead
  <2> QED
    BY <2>1, <1>1, <1>3 DEF IsNext
<1> QED
  BY <1>1, <1>2, <1>3, LogType

LEMMA TypeDeliver ==
  ASSUME TypeOK, NEW n \in Namespaces, Deliver(n) PROVE TypeOK'
<1>1. PICK k \in Ahead(n) :
        /\ IsNext(k, n)
        /\ IF kind = "list" THEN ShowItem(log[k]) ELSE CountItem(log[k])
        /\ pos' = [pos EXCEPT ![n] = k]
        /\ seen' = [seen EXCEPT ![n] = IF k > @ THEN k ELSE @]
  BY DEF Deliver
<1>2. k \in 1..Len(log) /\ log[k] \in Change /\ Len(log) \in Nat
  BY <1>1, NextEvent, LogType
<1>3. items' \subseteq Item /\ remaining' \in Int
  BY <1>1, <1>2 DEF ShowItem, CountItem, TypeOK, Change
<1>4. /\ pos' \in [Namespaces -> 0..MaxChanges] /\ \A m \in Namespaces : pos'[m] <= Len(log)
      /\ seen' \in [Namespaces -> 0..MaxChanges]
  BY <1>1, <1>2, ListWatchAssumption DEF TypeOK, ListWatchAssumption
<1>5. /\ UNCHANGED <<kind, initial, log, client, start, rvs, answer, broken, ctxDone, outCh>>
      /\ UNCHANGED <<losses, recounted>>
      /\ watcher' = [watcher EXCEPT ![n] = "select"]
  BY DEF Deliver, apiVars, listVars
<1>6. ASSUME NEW m \in Namespaces, watcher'[m] = "event" PROVE Ahead(m)' # {}
  <2>1. m # n /\ watcher[m] = "event"
    BY <1>5, <1>6 DEF TypeOK
  <2>2. pos'[m] = pos[m]
    BY <1>1, <2>1 DEF TypeOK
  <2> QED
    BY <2>1, <2>2, <1>5 DEF Ahead, TypeOK
<1>7. watcher' \in [Namespaces -> {"off", "select", "event", "bad", "done"}]
  BY <1>5 DEF TypeOK
<1> QED
  BY <1>3, <1>4, <1>5, <1>6, <1>7 DEF TypeOK

-----------------------------------------------------------------------------
(* Every step keeps the invariant: the cluster.                            *)

LEMMA LogCluster ==
  ASSUME TypeOK, LogInv, Cluster PROVE LogInv'
<1>1. PICK c \in Change : log' = Append(log, c)
  BY TypeCluster
<1>2. /\ Len(log') = Len(log) + 1 /\ Len(log) \in Nat /\ log'[Len(log) + 1] = c
      /\ \A k \in 1..Len(log) : log'[k] = log[k]
  BY <1>1, Appended DEF TypeOK
<1>3. initial' = initial
  BY DEF Cluster, Create, Modify, Delete, Happens
<1>4. \A k \in 0..Len(log) : \A n : At(k, n)' = At(k, n)
  BY <1>2, <1>3, Frozen
<1>5. IsFiniteSet(Known')
  <2>1. Known' \subseteq Known \union {c.item}
    BY <1>2, <1>3 DEF Known
  <2> QED
    BY <2>1, FS_AddElement, FS_Subset DEF LogInv
<1>6. /\ c.item.uid <= Len(log) + 1
      /\ c.type = "ADDED" => c.item.uid = Len(log) + 1
      /\ c.type # "ADDED" => c.item \in At(Len(log), c.item.ns)
  <2>1. ASSUME NEW n \in Namespaces, NEW m \in Names, Create(n, m)
        PROVE  c = [type |-> "ADDED", item |-> [ns |-> n, name |-> m, uid |-> Len(log) + 1]]
    BY <2>1, <1>2, Appended DEF Create, Happens, TypeOK
  <2>2. ASSUME NEW i \in Live, Modify(i) \/ Delete(i)
        PROVE  c.item \in At(Len(log), c.item.ns) /\ c.type # "ADDED" /\ c.item.uid <= Len(log)
    <3>1. c.item = i /\ c.type # "ADDED"
      BY <2>2, <1>2 DEF Modify, Delete, Happens, TypeOK
    <3>2. c.item \in At(Len(log), c.item.ns)
      BY <2>2, <3>1, FoundType, LogType DEF Live
    <3>3. c.item.uid <= Len(log)
      BY <3>2, LogType, <1>2, ListWatchAssumption DEF At, LogInv, ListWatchAssumption, Change, Item
    <3> QED
      BY <3>1, <3>2, <3>3
  <2> QED
    BY <2>1, <2>2, <1>2 DEF Cluster, Change, Item
<1>7. ASSUME NEW k \in 1..Len(log')
      PROVE  /\ log'[k].item.uid <= k
             /\ log'[k].type = "ADDED" => log'[k].item.uid = k
             /\ log'[k].type # "ADDED" => log'[k].item \in At(k - 1, log[k].item.ns)'
  <2>1. CASE k \in 1..Len(log)
    <3>1. k - 1 \in 0..Len(log) /\ log'[k] = log[k]
      BY <2>1, <1>2
    <3>2. At(k - 1, log[k].item.ns) = At(k - 1, log'[k].item.ns)
      BY <3>1
    <3> QED
      BY <2>1, <3>1, <1>4 DEF LogInv
  <2>2. CASE k = Len(log) + 1
    <3>1. k - 1 = Len(log) /\ log'[k] = c
      BY <2>2, <1>2
    <3> QED
      BY <3>1, <1>2, <1>4, <1>6
  <2> QED
    BY <2>1, <2>2, <1>2
<1> QED
  BY <1>3, <1>5, <1>7 DEF LogInv

LEMMA InvCluster ==
  ASSUME IInv, Cluster PROVE IInv'
<1>1. TypeOK /\ LogInv /\ TypeOK' /\ LogInv'
  BY TypeCluster, LogCluster DEF IInv
<1>2. /\ Len(log') = Len(log) + 1 /\ Len(log) \in Nat
      /\ \A k \in 1..Len(log) : log'[k] = log[k]
  <2>1. PICK c \in Change : log' = Append(log, c)
    BY <1>1, TypeCluster
  <2> QED
    BY <2>1, <1>1, Appended DEF TypeOK
<1>3. UNCHANGED <<kind, initial, client, listVars, viewVars, watchVars, pastVars>>
  BY DEF Cluster, Create, Modify, Delete, Happens
<1>4. \A r \in 0..Len(log) : \A n : At(r, n)' = At(r, n)
  BY <1>2, <1>3, Frozen
<1>5. \A n \in Namespaces : /\ rvs[n] \in 0..Len(log) /\ pos[n] \in 0..Len(log)
                            /\ seen[n] \in 0..Len(log)
  BY <1>2, ListWatchAssumption DEF IInv, TypeOK, RvInv, SeenInv, ListWatchAssumption
<1>6. RvInv' /\ SeenInv'
  <2>1. \A n \in Namespaces : rvs[n] <= Len(log') /\ seen[n] <= Len(log')
    BY <1>2, <1>5
  <2> QED
    BY <1>3, <2>1 DEF IInv, SeenInv, RvInv, Subscribed, listVars, watchVars, pastVars
<1>7. Snapshot' = Snapshot
  BY <1>3, <1>4, <1>5 DEF Snapshot, listVars
<1>8. AnswerInv'
  <2>1. SUFFICES ASSUME client = "listing", NEW n \in Namespaces, answer[n].is = "list"
        PROVE  /\ answer[n].rv <= Len(log') /\ (start # 0 => answer[n].rv = rvs[n])
               /\ IsPage(answer[n].page, {i \in At(answer[n].rv, n) : i.name > start})
               /\ answer[n].rest = {i \in At(answer[n].rv, n) : i.name > start} \ answer[n].page
               /\ At(answer[n].rv, n)' = At(answer[n].rv, n)
    BY <1>3 DEF AnswerInv, listVars, IsPage, Size
  <2>2. answer[n].rv \in 0..Len(log)
    BY <2>1, <1>1, AnswerFound DEF IInv
  <2>3. answer' = answer
    BY <1>3 DEF listVars
  <2>4. At(answer[n].rv, n)' = At(answer[n].rv, n)
    BY <2>2, <2>3, <1>4
  <2>5. /\ answer[n].rv <= Len(log) /\ (start # 0 => answer[n].rv = rvs[n])
        /\ IsPage(answer[n].page, {i \in At(answer[n].rv, n) : i.name > start})
        /\ answer[n].rest = {i \in At(answer[n].rv, n) : i.name > start} \ answer[n].page
    BY <2>1 DEF IInv, AnswerInv
  <2>6. answer[n].rv <= Len(log')
    BY <2>2, <1>2
  <2> QED
    BY <2>4, <2>5, <2>6
<1>9. ListInv'
  BY <1>3, <1>7 DEF IInv, ListInv, DistinctNames, listVars, viewVars
<1>10. ViewConsistent'
  <2>1. \A n \in Namespaces : At(seen[n], n)' = At(seen[n], n) /\ ToldAgain(n)' = ToldAgain(n)
    <3>1. SUFFICES ASSUME NEW n \in Namespaces PROVE ToldAgain(n)' = ToldAgain(n)
      BY <1>3, <1>4, <1>5 DEF pastVars
    <3>2. \A k \in pos[n] + 1..seen[n] : log'[k] = log[k]
      BY <1>2, <1>5
    <3> QED
      BY <1>3, <3>2 DEF ToldAgain, watchVars, pastVars
  <2> QED
    BY <1>3, <1>7, <2>1 DEF IInv, ViewConsistent, Subscribed, DistinctNames, viewVars
<1> QED
  BY <1>1, <1>6, <1>8, <1>9, <1>10 DEF IInv

-----------------------------------------------------------------------------
(* Pages and their merge.                                                  *)

LEMMA InvAnswer ==
  ASSUME IInv, NEW n \in Namespaces, ListNamespace(n) PROVE IInv'
<1>1. /\ UNCHANGED apiVars
      /\ UNCHANGED <<kind, client, start, rvs, items, remaining, watcher, pos, seen>>
  BY DEF ListNamespace, viewVars, watchVars, pastVars
<1>2. TypeOK' /\ LogInv' /\ \A r, m : At(r, m)' = At(r, m)
  BY <1>1, TypeAnswer, SameLog DEF IInv
<1>3. RvInv' /\ SeenInv' /\ ListInv' /\ ViewConsistent'
  BY <1>1, <1>2, SameView DEF IInv, RvInv, SeenInv, ListInv, Subscribed, DistinctNames, Snapshot,
     apiVars
<1>4. AnswerInv'
  <2> DEFINE r == IF start = 0 THEN Len(log) ELSE rvs[n]
             found == {i \in At(r, n) : i.name > start}
  <2>1. r <= Len(log) /\ (start # 0 => r = rvs[n])
    BY LogType DEF IInv, RvInv
  <2> HIDE DEF r
  <2>2. PICK page \in SUBSET found :
          /\ IsPage(page, found)
          /\ answer' = [answer EXCEPT ![n] =
               [is |-> "list", rv |-> r, page |-> page, rest |-> found \ page]]
    BY DEF ListNamespace, r
  <2>3. answer'[n] = [is |-> "list", rv |-> r, page |-> page, rest |-> found \ page]
    BY <2>2 DEF IInv, TypeOK
  <2>4. \A m \in Namespaces \ {n} : answer'[m] = answer[m]
    BY <2>2 DEF IInv, TypeOK
  <2>5. \A T, S : IsPage(T, S)' = IsPage(T, S)
    BY <1>1 DEF IsPage, Size
  <2>6. SUFFICES ASSUME client = "listing", NEW m \in Namespaces, answer'[m].is = "list"
        PROVE  /\ answer'[m].rv <= Len(log)
               /\ start # 0 => answer'[m].rv = rvs[m]
               /\ IsPage(answer'[m].page, {i \in At(answer[m].rv, m)' : i.name > start})
               /\ answer'[m].rest = {i \in At(answer[m].rv, m)' : i.name > start} \ answer'[m].page
    BY <1>1, <2>5 DEF AnswerInv, apiVars
  <2>7. CASE m = n
    <3>1. At(answer[m].rv, m)' = At(r, n)
      BY <2>7, <2>3, <1>2
    <3>2. {i \in At(answer[m].rv, m)' : i.name > start} = found
      BY <3>1
    <3>3. answer'[m].rv = r /\ answer'[m].page = page /\ answer'[m].rest = found \ page
      BY <2>3, <2>7
    <3> HIDE DEF found
    <3> QED
      BY <2>1, <2>2, <2>7, <3>2, <3>3
  <2>8. CASE m # n
    <3>1. answer'[m] = answer[m] /\ answer[m].is = "list"
      BY <2>4, <2>6, <2>8
    <3>2. At(answer[m].rv, m)' = At(answer[m].rv, m)
      BY <3>1, <1>2
    <3> QED
      BY <2>6, <3>1, <3>2 DEF IInv, AnswerInv
  <2> QED
    BY <2>7, <2>8
<1> QED
  BY <1>2, <1>3, <1>4 DEF IInv

LEMMA InvFails ==
  ASSUME IInv, (\E n \in Namespaces : ListFails(n)) \/ MergeFails PROVE IInv'
<1>1. /\ UNCHANGED apiVars
      /\ UNCHANGED <<kind, start, rvs, items, remaining, watcher, pos, seen>>
      /\ client = "listing" /\ client' \in {"listing", "stuck"}
  BY DEF ListFails, MergeFails, viewVars, watchVars, pastVars
<1>2. TypeOK' /\ LogInv' /\ \A r, m : At(r, m)' = At(r, m)
  BY <1>1, TypeFails, TypeMergeFails, SameLog DEF IInv
<1>3. RvInv' /\ SeenInv' /\ ListInv' /\ ViewConsistent'
  BY <1>1, <1>2, SameView DEF IInv, RvInv, SeenInv, ListInv, Subscribed, DistinctNames, Snapshot,
     apiVars
<1>4. \A n \in Namespaces : answer'[n].is = "list" => answer'[n] = answer[n]
  BY DEF ListFails, MergeFails, IInv, TypeOK, Failed, None
<1>5. \A T, S : IsPage(T, S)' = IsPage(T, S)
  BY <1>1 DEF IsPage, Size
<1>6. AnswerInv'
  <2>1. SUFFICES ASSUME NEW m \in Namespaces, answer'[m].is = "list"
        PROVE  /\ answer'[m].rv <= Len(log)
               /\ start # 0 => answer'[m].rv = rvs[m]
               /\ IsPage(answer'[m].page, {i \in At(answer[m].rv, m)' : i.name > start})
               /\ answer'[m].rest = {i \in At(answer[m].rv, m)' : i.name > start} \ answer'[m].page
    BY <1>1, <1>5 DEF AnswerInv, apiVars
  <2>2. answer'[m] = answer[m]
    BY <1>4, <2>1
  <2>3. At(answer[m].rv, m)' = At(answer[m].rv, m)
    BY <2>2, <1>2
  <2> QED
    BY <1>1, <2>1, <2>2, <2>3 DEF IInv, AnswerInv
<1> QED
  BY <1>2, <1>3, <1>6 DEF IInv

LEMMA InvMerge ==
  ASSUME IInv, MergeResults PROVE IInv'
<1> DEFINE found == UNION {answer[n].page : n \in Namespaces}
           rest == UNION {answer[n].rest : n \in Namespaces}
           held(n) == At(answer[n].rv, n)
           behind(n) == {i \in held(n) : i.name > start}
           all == UNION {held(n) : n \in Namespaces}
<1>1. PICK page \in SUBSET found :
        LET left == rest \union (found \ page)
            more == page # {} /\ left # {}
        IN /\ IsPage(page, found)
           /\ items' = items \union page
           /\ IF more
              THEN start' \in {i.name : i \in page} /\ \A i \in page : i.name <= start'
              ELSE start' = 0
           /\ client' = IF more /\ kind = "list" THEN "listing" ELSE "listed"
  BY DEF MergeResults
<1>2. /\ UNCHANGED apiVars /\ UNCHANGED kind /\ client = "listing"
      /\ \A n \in Namespaces : answer[n].is = "list"
      /\ rvs' = [n \in Namespaces |-> answer[n].rv]
      /\ answer' = [n \in Namespaces |-> None]
  BY DEF MergeResults
<1>3. TypeOK /\ TypeOK' /\ LogInv /\ LogInv' /\ \A r, m : At(r, m)' = At(r, m)
  BY <1>2, TypeMerge, SameLog DEF IInv
<1>4. \A n \in Namespaces :
        /\ answer[n].rv <= Len(log) /\ (start # 0 => answer[n].rv = rvs[n])
        /\ IsPage(answer[n].page, behind(n)) /\ answer[n].rest = behind(n) \ answer[n].page
        /\ held(n) \subseteq Known /\ held(n) \subseteq Item
  BY <1>2, <1>3, AnswerFound DEF IInv, AnswerInv
<1>5. RvInv' /\ SeenInv' /\ AnswerInv' /\ ViewConsistent'
  <2>1. \A n \in Namespaces : rvs'[n] <= Len(log') /\ answer'[n].is = "none"
    BY <1>2, <1>4 DEF None, apiVars
  <2>2. seen' = seen /\ log' = log
    BY <1>2 DEF MergeResults, pastVars, apiVars
  <2> QED
    BY <1>1, <2>1, <2>2 DEF IInv, RvInv, SeenInv, AnswerInv, ViewConsistent, Subscribed
<1>6. Snapshot' = all
  BY <1>2, <1>3 DEF Snapshot
<1>7. /\ page \subseteq found /\ found \subseteq all /\ rest \subseteq all
      /\ \A i \in page : i.name > start
      /\ found \union rest = {i \in all : i.name > start}
  BY <1>4 DEF IsPage
<1>8. /\ IsFiniteSet(all) /\ IsFiniteSet({i \in all : i.name > start})
      /\ \A i \in all : i.name \in Nat /\ i.name > 0
  <2>1. all \subseteq Known /\ all \subseteq Item
    BY <1>4
  <2>2. IsFiniteSet(all)
    BY <2>1, <1>3, FS_Subset DEF LogInv
  <2>3. IsFiniteSet({i \in all : i.name > start})
    BY <2>2, FS_Subset
  <2>4. \A i \in Item : i.name \in Nat /\ i.name > 0
    <3>1. \A m \in Names : m \in Nat /\ m > 0
      BY ListWatchAssumption DEF ListWatchAssumption
    <3> QED
      BY <3>1 DEF Item
  <2> QED
    BY <2>1, <2>2, <2>3, <2>4
<1>9. ASSUME kind = "list", start # 0
      PROVE  /\ items \subseteq all
             /\ DistinctNames' => items = {i \in all : i.name <= start}
  <2>1. all = Snapshot
    BY <1>4, <1>9 DEF Snapshot
  <2> QED
    BY <2>1, <1>2, <1>6, <1>9 DEF IInv, ListInv, DistinctNames
<1>10. ASSUME kind = "list", start = 0 PROVE items = {}
  BY <1>2, <1>10 DEF IInv, ListInv
<1>11. start \in Nat
  BY <1>3, ListWatchAssumption DEF TypeOK, ListWatchAssumption
<1>12. ASSUME kind = "list" PROVE items \subseteq all /\ (DistinctNames' => items = {i \in all : i.name <= start})
  <2>1. CASE start # 0
    BY <2>1, <1>9, <1>12
  <2>2. CASE start = 0
    <3>1. {i \in all : i.name <= start} = {}
      BY <2>2, <1>8
    <3> QED
      BY <2>2, <3>1, <1>10, <1>12
  <2> QED
    BY <2>1, <2>2
<1>13. CASE page # {} /\ rest \union (found \ page) # {}
  <2>1. PICK t \in page : start' = t.name /\ \A i \in page : i.name <= t.name
    BY <1>1, <1>13
  <2>2. t.name > start /\ start' # 0 /\ t \in all
    BY <2>1, <1>7, <1>8
  <2>3. ASSUME DistinctNames', NEW x \in all, x.name <= t.name, x.name > start
        PROVE  x \in page
    <3>1. PICK m \in Namespaces : x \in behind(m)
      BY <2>3
    <3> DEFINE A == [n \in Namespaces |-> behind(n)]
               P == [n \in Namespaces |-> answer[n].page]
    <3>2. UNION {A[n] : n \in Namespaces} = {i \in all : i.name > start}
      OBVIOUS
    <3>3. UNION {P[n] : n \in Namespaces} = found
      OBVIOUS
    <3>4. \A n \in Namespaces : IsPage(P[n], A[n])
      BY <1>4
    <3>5. x \in A[m]
      BY <3>1
    <3>6. \A i, j \in all : i.name = j.name => i = j
      BY <2>3, <1>6 DEF DistinctNames
    <3>7. IsFiniteSet(UNION {A[n] : n \in Namespaces})
      BY <3>2, <1>8
    <3>8. IsPage(page, UNION {P[n] : n \in Namespaces})
      BY <3>3, <1>1
    <3>9. /\ \A i \in UNION {A[n] : n \in Namespaces} : i.name \in Nat
          /\ \A i, j \in UNION {A[n] : n \in Namespaces} : i.name = j.name => i = j
      BY <3>2, <3>6, <1>8
    <3> HIDE DEF A, P
    <3> QED
      BY <3>4, <3>5, <3>7, <3>8, <3>9, <2>1, <2>3, PageCut
  <2>4. ASSUME kind = "list"
        PROVE  /\ items' \subseteq all
               /\ DistinctNames' => items' = {i \in all : i.name <= start'}
    <3>1. items' = items \union page
      BY <1>1
    <3>2. \A i \in all : i.name <= start => i.name <= t.name
      BY <2>2, <1>8, <1>11
    <3>3. \A i \in all : i.name <= start \/ i.name > start
      BY <1>8, <1>11
    <3> QED
      BY <3>1, <3>2, <3>3, <2>1, <2>3, <2>4, <1>7, <1>12
  <2> QED
    BY <2>2, <2>4, <1>1, <1>2, <1>3, <1>5, <1>6, <1>13 DEF IInv, ListInv
<1>14. CASE page = {} \/ rest \union (found \ page) = {}
  <2>1. client' = "listed" /\ items' = items \union page
    BY <1>1, <1>14
  <2>2. page = found \union rest
    <3>1. CASE page = {}
      <4>1. found = {}
        BY <3>1, <1>1, FullPage
      <4>2. \A n \in Namespaces : answer[n].page = {}
        BY <4>1
      <4>3. \A n \in Namespaces : behind(n) = {}
        BY <4>2, <1>4, FullPage
      <4>4. \A n \in Namespaces : answer[n].rest = {}
        BY <4>3, <1>4
      <4>5. rest = {}
        BY <4>4
      <4> QED
        BY <3>1, <4>1, <4>5
    <3>2. CASE rest \union (found \ page) = {}
      BY <3>2, <1>7
    <3> QED
      BY <3>1, <3>2, <1>14
  <2>3. \A i \in all : i.name <= start \/ i.name > start
    BY <1>8, <1>11
  <2>4. ASSUME kind = "list"
        PROVE  items' \subseteq all /\ (DistinctNames' => items' = all)
    BY <2>1, <2>2, <2>3, <2>4, <1>7, <1>12
  <2> QED
    BY <2>1, <2>4, <1>2, <1>3, <1>5, <1>6 DEF IInv, ListInv
<1> QED
  BY <1>13, <1>14

-----------------------------------------------------------------------------
(* Watches.                                                                *)

LEMMA InvSubscribe ==
  ASSUME IInv, Subscribe PROVE IInv'
<1>1. /\ UNCHANGED apiVars /\ UNCHANGED <<kind, rvs, items>>
      /\ client \in {"listed", "lost"} /\ client' = "watching" /\ pos' = rvs
      /\ seen' = IF client = "lost" THEN seen ELSE rvs
  BY DEF Subscribe, listVars, viewVars
<1>2. TypeOK' /\ LogInv' /\ \A r, m : At(r, m)' = At(r, m)
  BY <1>1, TypeSubscribe, SameLog DEF IInv
<1>3. RvInv' /\ AnswerInv' /\ ListInv'
  BY <1>1 DEF IInv, RvInv, AnswerInv, ListInv, apiVars
<1>4. Snapshot' = Snapshot
  BY <1>1, <1>2 DEF Snapshot
<1>5. \A n \in Namespaces : /\ rvs[n] \in Nat /\ pos[n] \in Nat /\ seen[n] \in Nat
                            /\ client = "lost" => rvs[n] <= pos[n] /\ pos[n] <= seen[n]
  BY ListWatchAssumption DEF IInv, TypeOK, SeenInv, Subscribed, ListWatchAssumption
<1>6. SeenInv'
  BY <1>1, <1>5 DEF IInv, RvInv, SeenInv, apiVars
<1>7. ViewConsistent'
  <2>1. SUFFICES ASSUME kind = "list", NEW n \in Namespaces
        PROVE  LET shown == {i \in items : i.ns = n}
               IN /\ shown \subseteq At(seen'[n], n) \union ToldAgain(n)'
                  /\ DistinctNames => At(seen'[n], n) \subseteq shown
    BY <1>1, <1>2, <1>4 DEF ViewConsistent, DistinctNames
  <2>2. CASE client = "listed"
    <3>1. items \subseteq Snapshot /\ (DistinctNames => items = Snapshot)
      BY <2>1, <2>2 DEF IInv, ListInv
    <3>2. \A m \in Namespaces : \A i \in At(rvs[m], m) : i.ns = m
      BY DEF At
    <3> QED
      BY <1>1, <2>2, <3>1, <3>2 DEF Snapshot
  <2>3. CASE client = "lost"
    <3>1. seen' = seen
      BY <1>1, <2>3
    <3>2. ToldAgain(n) \subseteq ToldAgain(n)'
      <4>1. pos[n] + 1..seen[n] \subseteq rvs[n] + 1..seen[n]
        BY <1>5, <2>3
      <4> QED
        BY <1>1, <3>1, <4>1 DEF ToldAgain, apiVars
    <3> QED
      BY <2>1, <2>3, <3>1, <3>2 DEF IInv, ViewConsistent, Subscribed
  <2> QED
    BY <1>1, <2>2, <2>3
<1> QED
  BY <1>2, <1>3, <1>6, <1>7 DEF IInv

LEMMA InvWatcher ==
  ASSUME IInv,
         \/ \E n \in Namespaces : Receive(n) \/ ReceiveBad(n) \/ Quit(n) \/ DeliverBad(n)
         \/ SubscribeFails \/ CloseOut \/ Lose \/ Leave
  PROVE  IInv'
<1>1. /\ UNCHANGED apiVars /\ UNCHANGED <<kind, start, rvs, answer, items, pos, seen>>
      /\ client' = client \/ client' \in {"stuck", "lost", "ended", "gone"}
      /\ Subscribed' => Subscribed
  BY DEF Receive, ReceiveBad, Quit, DeliverBad, SubscribeFails, CloseOut, Lose, Leave, listVars,
         viewVars, watchVars, pastVars, Subscribed
<1>2. TypeOK' /\ LogInv' /\ \A r, m : At(r, m)' = At(r, m)
  BY <1>1, TypeWatcher, TypeEnd, SameLog DEF IInv
<1>3. Snapshot' = Snapshot
  BY <1>1, <1>2 DEF Snapshot
<1>4. RvInv' /\ SeenInv'
  BY <1>1 DEF IInv, RvInv, SeenInv, apiVars
<1>5. AnswerInv'
  BY <1>1, <1>2 DEF IInv, AnswerInv, IsPage, Size, apiVars
<1>6. ListInv'
  BY <1>1, <1>3 DEF IInv, ListInv, DistinctNames
<1>7. ViewConsistent'
  BY <1>1, SameView DEF IInv
<1> QED
  BY <1>2, <1>4, <1>5, <1>6, <1>7 DEF IInv

\* An object that was there and is no more was deleted in between.
LEMMA Gone ==
  ASSUME NEW n, NEW r \in Nat, NEW q \in Nat, r <= q,
         NEW i \in At(r, n), i \notin At(q, n)
  PROVE  \E j \in r + 1..q : log[j].item = i /\ log[j].type = "DELETED"
<1>1. /\ i \in initial \union {log[k].item : k \in 1..r} /\ i.ns = n
      /\ \A k \in 1..r : log[k].item = i => log[k].type # "DELETED"
  BY DEF At
<1>2. i \in initial \union {log[k].item : k \in 1..q}
  BY <1>1
<1>3. PICK j \in 1..q : log[j].item = i /\ log[j].type = "DELETED"
  BY <1>1, <1>2 DEF At
<1>4. j \notin 1..r
  BY <1>1, <1>3
<1> QED
  BY <1>3, <1>4

LEMMA InvDeliver ==
  ASSUME IInv, NEW n \in Namespaces, Deliver(n) PROVE IInv'
<1>1. PICK k \in Ahead(n) :
        /\ IsNext(k, n)
        /\ IF kind = "list" THEN ShowItem(log[k]) ELSE CountItem(log[k])
        /\ pos' = [pos EXCEPT ![n] = k]
        /\ seen' = [seen EXCEPT ![n] = IF k > @ THEN k ELSE @]
  BY DEF Deliver
<1>2. /\ UNCHANGED apiVars /\ UNCHANGED <<kind, start, rvs, answer, client>>
      /\ client = "watching"
  BY DEF Deliver, listVars
<1>3. TypeOK' /\ LogInv' /\ \A r, m : At(r, m)' = At(r, m)
  BY <1>2, TypeDeliver, SameLog DEF IInv
<1>4. Snapshot' = Snapshot
  BY <1>2, <1>3 DEF Snapshot
<1>5. RvInv' /\ AnswerInv' /\ ListInv'
  BY <1>2 DEF IInv, RvInv, AnswerInv, ListInv, apiVars
<1>6. /\ k \in 1..Len(log) /\ k - 1 \in Nat /\ pos[n] \in Nat /\ pos[n] <= k - 1
      /\ log[k].item.ns = n /\ Len(log) \in Nat
      /\ \A j \in pos[n] + 1..k - 1 : log[j].item.ns # n
  BY <1>1, NextEvent, LogType DEF IInv
<1>7. /\ pos'[n] = k /\ seen'[n] = IF k > seen[n] THEN k ELSE seen[n]
      /\ \A m \in Namespaces \ {n} : pos'[m] = pos[m] /\ seen'[m] = seen[m]
  BY <1>1 DEF IInv, TypeOK
<1>8. \A m \in Namespaces : /\ rvs[m] <= pos[m] /\ pos[m] <= seen[m] /\ seen[m] <= Len(log)
                            /\ rvs[m] \in Nat /\ pos[m] \in Nat /\ seen[m] \in Nat
  BY <1>2, ListWatchAssumption DEF IInv, TypeOK, SeenInv, Subscribed, ListWatchAssumption
<1>9. SeenInv'
  <2>1. ASSUME NEW m \in Namespaces
        PROVE  seen'[m] <= Len(log) /\ rvs[m] <= pos'[m] /\ pos'[m] <= seen'[m]
    <3>1. CASE m = n
      BY <1>6, <1>7, <1>8, <3>1
    <3>2. CASE m # n
      BY <1>7, <1>8, <3>2
    <3> QED
      BY <3>1, <3>2
  <2> QED
    BY <1>2, <2>1 DEF SeenInv, apiVars
<1>10. ViewConsistent'
  <2>1. SUFFICES ASSUME kind = "list", NEW m \in Namespaces
        PROVE  LET shown == {i \in items' : i.ns = m}
               IN /\ shown \subseteq At(seen'[m], m) \union ToldAgain(m)'
                  /\ DistinctNames => At(seen'[m], m) \subseteq shown
    BY <1>2, <1>3, <1>4 DEF ViewConsistent, DistinctNames
  <2>2. LET shown == {i \in items : i.ns = m}
        IN /\ shown \subseteq At(seen[m], m) \union ToldAgain(m)
           /\ DistinctNames => At(seen[m], m) \subseteq shown
    BY <1>2, <2>1 DEF IInv, ViewConsistent, Subscribed
  <2>3. items' = IF log[k].type = "DELETED" THEN items \ {log[k].item}
                 ELSE IF log[k].type = "ADDED" THEN items \union {log[k].item} ELSE items
    BY <1>1, <2>1 DEF ShowItem
  <2>4. ToldAgain(m)' = {log[j].item : j \in {j \in pos'[m] + 1..seen'[m] : log[j].type = "DELETED"}}
    BY <1>2 DEF ToldAgain, apiVars
  <2>5. /\ log[k].type \in {"ADDED", "MODIFIED", "DELETED"}
        /\ log[k].type = "ADDED" => At(k, n) = At(k - 1, n) \union {log[k].item}
        /\ log[k].type = "MODIFIED" => At(k, n) = At(k - 1, n)
        /\ log[k].type = "DELETED" => At(k, n) = At(k - 1, n) \ {log[k].item}
    BY <1>6, Applied DEF IInv
  <2>6. CASE m = n /\ k > seen[n]
    <3>1. At(k - 1, n) = At(seen[n], n)
      <4>1. seen[n] <= k - 1 /\ \A j \in seen[n] + 1..k - 1 : log[j].item.ns # n
        BY <1>6, <1>8, <2>6
      <4> QED
        BY <1>6, <1>8, <4>1, Skip
    <3>2. \A i \in ToldAgain(n) : i.ns # n
      <4>1. \A j \in pos[n] + 1..seen[n] : j \in pos[n] + 1..k - 1
        BY <1>6, <1>8, <2>6
      <4> QED
        BY <1>6, <4>1 DEF ToldAgain
    <3>3. seen'[n] = k
      BY <1>7, <2>6
    <3> QED
      BY <1>6, <2>2, <2>3, <2>5, <2>6, <3>1, <3>2, <3>3
  <2>7. CASE m = n /\ k <= seen[n]
    <3>1. seen'[n] = seen[n] /\ pos'[n] = k
      BY <1>6, <1>7, <1>8, <2>7
    <3>2. ASSUME NEW i \in ToldAgain(n), i.ns = n, log[k].type = "DELETED" => i # log[k].item
          PROVE  i \in ToldAgain(n)'
      <4>1. PICK j \in pos[n] + 1..seen[n] : log[j].item = i /\ log[j].type = "DELETED"
        BY DEF ToldAgain
      <4>2. j \notin pos[n] + 1..k - 1 /\ j # k
        BY <1>6, <3>2, <4>1
      <4>3. j \in k + 1..seen[n]
        BY <1>6, <1>8, <4>2
      <4> QED
        BY <2>4, <2>7, <3>1, <4>1, <4>3
    <3>3. CASE log[k].type = "ADDED"
      <4>1. log[k].item \in At(k, n)
        BY <2>5, <3>3
      <4>2. ASSUME log[k].item \notin At(seen[n], n) PROVE log[k].item \in ToldAgain(n)'
        <5> DEFINE i == log[k].item
        <5>1. k \in Nat /\ seen[n] \in Nat /\ i \in At(k, n) /\ i \notin At(seen[n], n)
          BY <1>6, <1>8, <4>1, <4>2
        <5> HIDE DEF i
        <5>2. \E j \in k + 1..seen[n] : log[j].item = i /\ log[j].type = "DELETED"
          BY <2>7, <5>1, Gone
        <5> QED
          BY <2>4, <2>7, <3>1, <5>2 DEF i
      <4>3. items' = items \union {log[k].item}
        BY <2>3, <3>3
      <4> QED
        BY <2>2, <2>7, <3>1, <3>2, <3>3, <4>2, <4>3
    <3>4. CASE log[k].type = "MODIFIED"
      BY <2>2, <2>3, <2>7, <3>1, <3>2, <3>4
    <3>5. CASE log[k].type = "DELETED"
      <4>1. log[k].item \notin At(seen[n], n)
        BY <1>6, <1>8, <2>7, <3>5 DEF At
      <4>2. items' = items \ {log[k].item}
        BY <2>3, <3>5
      <4> QED
        BY <2>2, <2>7, <3>1, <3>2, <4>1, <4>2
    <3> QED
      BY <2>5, <3>3, <3>4, <3>5
  <2>8. CASE m # n
    <3>1. pos'[m] = pos[m] /\ seen'[m] = seen[m]
      BY <1>7, <2>8
    <3>2. {i \in items' : i.ns = m} = {i \in items : i.ns = m}
      BY <1>6, <2>3, <2>8
    <3>3. ToldAgain(m)' = ToldAgain(m)
      BY <2>4, <3>1 DEF ToldAgain
    <3> QED
      BY <2>2, <3>1, <3>2, <3>3
  <2> QED
    BY <1>6, <1>8, <2>6, <2>7, <2>8
<1> QED
  BY <1>3, <1>5, <1>9, <1>10 DEF IInv

LEMMA InvNext == IInv /\ [Next]_vars => IInv'
<1>1. ASSUME IInv, UNCHANGED vars PROVE IInv'
  <2>1. /\ UNCHANGED apiVars
        /\ UNCHANGED <<kind, client, start, rvs, answer, items, remaining>>
        /\ UNCHANGED <<watcher, pos, broken, ctxDone, outCh, losses, seen, recounted>>
    BY <1>1 DEF vars, listVars, viewVars, watchVars, pastVars
  <2>2. LogInv' /\ \A r, m : At(r, m)' = At(r, m)
    BY <1>1, <2>1, SameLog DEF IInv
  <2>3. Snapshot' = Snapshot
    BY <2>1, <2>2 DEF Snapshot
  <2>4. TypeOK'
    BY <1>1, <2>1 DEF IInv, TypeOK, Ahead, apiVars
  <2>5. RvInv' /\ SeenInv' /\ AnswerInv' /\ ListInv'
    BY <1>1, <2>1, <2>2, <2>3 DEF IInv, RvInv, SeenInv, AnswerInv, ListInv, IsPage, Size,
       DistinctNames, Subscribed, apiVars
  <2>6. ViewConsistent'
    BY <1>1, <2>1, SameView DEF IInv, Subscribed
  <2> QED
    BY <2>2, <2>4, <2>5, <2>6 DEF IInv
<1> QED
  BY <1>1, InvCluster, InvAnswer, InvFails, InvMerge, InvSubscribe, InvWatcher, InvDeliver
     DEF Next, Listing, Watching

-----------------------------------------------------------------------------
(* The count.                                                              *)

\* The counting hook has what is on its only page, and the number of the rest.
CountInv ==
  kind = "count" =>
    /\ IsFiniteSet(items)
    /\ client = "listing" => items = {} /\ start = 0
    /\ client \in {"listing", "listed"} => recounted = 0
    /\ client = "listed" => Cardinality(items) + remaining = Cardinality(Snapshot)
    /\ Subscribed => Cardinality(items) + remaining = Cardinality(Delivered) + recounted

\* The page that is shown and what is left out of it are all there is.
LEMMA CountMerge == ASSUME IInv, CountInv, MergeResults PROVE CountInv'
<1> DEFINE found == UNION {answer[n].page : n \in Namespaces}
           rest == UNION {answer[n].rest : n \in Namespaces}
           held(n) == At(answer[n].rv, n)
<1>1. PICK page \in SUBSET found :
        LET left == rest \union (found \ page)
            more == page # {} /\ left # {}
        IN /\ items' = items \union page
           /\ remaining' = Cardinality(left)
           /\ client' = IF more /\ kind = "list" THEN "listing" ELSE "listed"
  BY DEF MergeResults
<1>2. /\ UNCHANGED apiVars /\ UNCHANGED kind /\ client = "listing"
      /\ \A n \in Namespaces : answer[n].is = "list"
      /\ rvs' = [n \in Namespaces |-> answer[n].rv]
  BY DEF MergeResults
<1>3. TypeOK /\ LogInv /\ \A r, m : At(r, m)' = At(r, m)
  BY <1>2, SameLog DEF IInv
<1>4. \A n \in Namespaces :
        /\ answer[n].page \subseteq {i \in held(n) : i.name > start}
        /\ answer[n].rest = {i \in held(n) : i.name > start} \ answer[n].page
        /\ held(n) \subseteq Known /\ held(n) \subseteq Item
        /\ \A i \in held(n) : i.ns = n
  BY <1>2, <1>3, AnswerFound DEF IInv, AnswerInv, IsPage, At
<1>5. \A i \in Item : i.name > 0
  <2>1. \A m \in Names : m \in Nat /\ m > 0
    BY ListWatchAssumption DEF ListWatchAssumption
  <2> QED
    BY <2>1 DEF Item
<1> SUFFICES ASSUME kind = "count"
             PROVE  /\ IsFiniteSet(items')
                    /\ Cardinality(items') + remaining' = Cardinality(Snapshot')
  <2>1. recounted' = recounted
    BY DEF MergeResults, pastVars
  <2> QED
    BY <1>1, <1>2, <2>1 DEF CountInv, Subscribed
<1>6. items = {} /\ start = 0
  BY <1>2 DEF CountInv
<1>7. Snapshot' = found \union rest
  <2>1. Snapshot' = UNION {held(n) : n \in Namespaces}
    BY <1>2, <1>3 DEF Snapshot
  <2>2. \A n \in Namespaces : answer[n].page \union answer[n].rest = held(n)
    BY <1>4, <1>5, <1>6
  <2> QED
    BY <2>1, <2>2
<1>8. found \intersect rest = {}
  BY <1>4
<1>9. found \subseteq Known /\ rest \subseteq Known
  BY <1>4
<1> HIDE DEF found, rest
<1> DEFINE left == rest \union (found \ page)
<1>10. page \union left = Snapshot' /\ page \intersect left = {}
  BY <1>7, <1>8
<1>11. IsFiniteSet(page) /\ IsFiniteSet(left)
  BY <1>3, <1>9, FS_Subset DEF LogInv
<1>12. items' = page /\ remaining' = Cardinality(left)
  BY <1>1, <1>6
<1> HIDE DEF left
<1>13. Cardinality(Snapshot') = Cardinality(page) + Cardinality(left)
  <2>1. Cardinality(page) \in Nat /\ Cardinality(left) \in Nat
    BY <1>11, FS_CardinalityType
  <2>2. Cardinality(page \union left)
          = Cardinality(page) + Cardinality(left) - Cardinality(page \intersect left)
    BY <1>11, FS_Union
  <2>3. Cardinality(page \intersect left) = 0
    BY <1>10, FS_EmptySet
  <2> QED
    BY <1>10, <2>1, <2>2, <2>3
<1> QED
  BY <1>11, <1>12, <1>13

\* An event changes what was delivered by one object, or by none, as it does the
\* count.
LEMMA CountDeliver == ASSUME IInv, CountInv, NEW n \in Namespaces, Deliver(n) PROVE CountInv'
<1>1. PICK k \in Ahead(n) :
        /\ IsNext(k, n)
        /\ IF kind = "list" THEN ShowItem(log[k]) ELSE CountItem(log[k])
        /\ pos' = [pos EXCEPT ![n] = k]
        /\ seen' = [seen EXCEPT ![n] = IF k > @ THEN k ELSE @]
  BY DEF Deliver
<1>2. /\ UNCHANGED apiVars /\ UNCHANGED <<kind, client, recounted>> /\ client = "watching"
  BY DEF Deliver
<1>3. TypeOK /\ LogInv /\ \A r, m : At(r, m)' = At(r, m)
  BY <1>2, SameLog DEF IInv
<1> SUFFICES ASSUME kind = "count"
             PROVE  /\ IsFiniteSet(items')
                    /\ Cardinality(items') + remaining' = Cardinality(Delivered') + recounted
  BY <1>2 DEF CountInv
<1> DEFINE i == log[k].item
<1>4. /\ k \in 1..Len(log) /\ k - 1 \in Nat /\ pos[n] \in Nat /\ pos[n] <= k - 1 /\ i.ns = n
      /\ \A j \in pos[n] + 1..k - 1 : log[j].item.ns # n
  BY <1>1, <1>3, NextEvent
<1>5. At(k - 1, n) = At(pos[n], n)
  BY <1>4, Skip
<1>6. /\ log[k].type \in {"ADDED", "MODIFIED", "DELETED"}
      /\ log[k].type = "ADDED" => i \notin At(pos[n], n) /\ At(k, n) = At(pos[n], n) \union {i}
      /\ log[k].type = "MODIFIED" => At(k, n) = At(pos[n], n)
      /\ log[k].type = "DELETED" => i \in At(pos[n], n) /\ At(k, n) = At(pos[n], n) \ {i}
  BY <1>3, <1>4, <1>5, Applied
<1>7. /\ items' = items /\ remaining \in Int
      /\ remaining' = IF log[k].type = "DELETED" THEN remaining - 1
                      ELSE IF log[k].type = "ADDED" THEN remaining + 1 ELSE remaining
  BY <1>1, <1>3 DEF CountItem, TypeOK
<1>8. /\ pos'[n] = k /\ \A m \in Namespaces \ {n} : pos'[m] = pos[m]
  BY <1>1, <1>3 DEF TypeOK
<1>9. /\ IsFiniteSet(Delivered) /\ Cardinality(Delivered) \in Nat
      /\ \A m \in Namespaces : \A j \in At(pos[m], m) : j.ns = m
  BY <1>3, DeliveredFinite
<1>10. Delivered' = UNION {At(pos'[m], m) : m \in Namespaces}
  BY <1>3 DEF Delivered
<1>11. /\ i \in Delivered <=> i \in At(pos[n], n)
       /\ log[k].type = "ADDED" => Delivered' = Delivered \union {i}
       /\ log[k].type = "MODIFIED" => Delivered' = Delivered
       /\ log[k].type = "DELETED" => Delivered' = Delivered \ {i}
  <2>1. i \in Delivered <=> i \in At(pos[n], n)
    BY <1>4, <1>9 DEF Delivered
  <2> DEFINE others == UNION {At(pos[m], m) : m \in Namespaces \ {n}}
  <2>2. Delivered = others \union At(pos[n], n)
    BY DEF Delivered
  <2>3. Delivered' = others \union At(k, n)
    BY <1>8, <1>10
  <2>4. i \notin others
    BY <1>4, <1>9
  <2> HIDE DEF others, i
  <2> QED
    BY <1>6, <2>1, <2>2, <2>3, <2>4
<1>12. /\ Cardinality(items) + remaining = Cardinality(Delivered) + recounted
       /\ IsFiniteSet(items) /\ Cardinality(items) \in Nat /\ recounted \in Int
  BY <1>2, <1>3, FS_CardinalityType DEF CountInv, Subscribed, TypeOK
<1> HIDE DEF i
<1>13. CASE log[k].type = "ADDED"
  <2>1. Cardinality(Delivered \union {i}) = Cardinality(Delivered) + 1
    BY <1>6, <1>9, <1>11, <1>13, FS_AddElement
  <2>2. Cardinality(Delivered') = Cardinality(Delivered) + 1
    BY <1>11, <1>13, <2>1
  <2>3. items' = items /\ remaining' = remaining + 1
    BY <1>7, <1>13
  <2> QED
    BY <1>7, <1>9, <1>12, <2>2, <2>3
<1>14. CASE log[k].type = "MODIFIED"
  BY <1>7, <1>11, <1>12, <1>14
<1>15. CASE log[k].type = "DELETED"
  <2>1. Cardinality(Delivered \ {i}) = Cardinality(Delivered) - 1
    BY <1>6, <1>9, <1>11, <1>15, FS_RemoveElement
  <2>2. Cardinality(Delivered') = Cardinality(Delivered) - 1
    BY <1>11, <1>15, <2>1
  <2>3. items' = items /\ remaining' = remaining - 1
    BY <1>7, <1>15
  <2> QED
    BY <1>7, <1>9, <1>12, <2>2, <2>3
<1> QED
  BY <1>6, <1>13, <1>14, <1>15

LEMMA CountNext == IInv /\ CountInv /\ [Next]_vars => CountInv'
<1> SUFFICES ASSUME IInv, CountInv, [Next]_vars PROVE CountInv'
  OBVIOUS
<1>1. CASE Cluster
  <2>1. /\ Len(log') = Len(log) + 1 /\ Len(log) \in Nat
        /\ \A k \in 1..Len(log) : log'[k] = log[k]
    <3>1. PICK c \in Change : log' = Append(log, c)
      BY <1>1, TypeCluster DEF IInv
    <3> QED
      BY <3>1, Appended DEF IInv, TypeOK
  <2>2. UNCHANGED <<kind, initial, client, start, rvs, items, remaining, pos, recounted>>
    BY <1>1 DEF Cluster, Create, Modify, Delete, Happens, listVars, viewVars, watchVars, pastVars
  <2>3. \A r \in 0..Len(log) : \A n : At(r, n)' = At(r, n)
    BY <2>1, <2>2, Frozen
  <2>4. \A n \in Namespaces : rvs[n] \in 0..Len(log) /\ pos[n] \in 0..Len(log)
    BY <2>1, ListWatchAssumption DEF IInv, TypeOK, RvInv, ListWatchAssumption
  <2>5. Snapshot' = Snapshot /\ Delivered' = Delivered
    BY <2>2, <2>3, <2>4 DEF Snapshot, Delivered
  <2> QED
    BY <2>2, <2>5 DEF CountInv, Subscribed
<1>2. CASE MergeResults
  BY <1>2, CountMerge
<1>3. CASE Subscribe
  <2>1. /\ UNCHANGED apiVars /\ UNCHANGED <<kind, rvs, items, remaining>>
        /\ client \in {"listed", "lost"} /\ client' = "watching" /\ pos' = rvs
        /\ recounted' = IF client = "lost"
                        THEN recounted + Cardinality(Delivered) - Cardinality(Snapshot)
                        ELSE recounted
    BY <1>3 DEF Subscribe, listVars, viewVars
  <2>2. Delivered' = Snapshot
    BY <2>1, SameLog DEF IInv, Delivered, Snapshot
  <2>3. /\ Cardinality(Delivered) \in Nat /\ Cardinality(Snapshot) \in Nat
        /\ recounted \in Int /\ remaining \in Int
    BY DeliveredFinite, SnapshotFinite DEF IInv, TypeOK
  <2> SUFFICES ASSUME kind = "count"
               PROVE  /\ IsFiniteSet(items)
                      /\ Cardinality(items) + remaining = Cardinality(Snapshot) + recounted'
    BY <2>1, <2>2 DEF CountInv
  <2>4. IsFiniteSet(items)
    BY DEF CountInv
  <2>5. CASE client = "listed"
    <3>1. Cardinality(items) + remaining = Cardinality(Snapshot) /\ recounted' = 0
      BY <2>1, <2>5 DEF CountInv
    <3> QED
      BY <2>3, <2>4, <3>1
  <2>6. CASE client = "lost"
    <3>1. Cardinality(items) + remaining = Cardinality(Delivered) + recounted
      BY <2>6 DEF CountInv, Subscribed
    <3>2. recounted' = recounted + Cardinality(Delivered) - Cardinality(Snapshot)
      BY <2>1, <2>6
    <3> QED
      BY <2>3, <2>4, <3>1, <3>2
  <2> QED
    BY <2>1, <2>5, <2>6
<1>4. ASSUME NEW n \in Namespaces, Deliver(n) PROVE CountInv'
  BY <1>4, CountDeliver
<1>5. CASE \/ \E n \in Namespaces :
                \/ ListNamespace(n) \/ ListFails(n) \/ Receive(n) \/ ReceiveBad(n)
                \/ Quit(n) \/ DeliverBad(n)
           \/ MergeFails \/ SubscribeFails \/ CloseOut \/ Lose \/ Leave \/ UNCHANGED vars
  <2>1. /\ UNCHANGED apiVars
        /\ UNCHANGED <<kind, start, rvs, items, remaining, pos, recounted>>
        /\ \/ client' = client
           \/ client' = "stuck"
           \/ client' \in {"lost", "ended", "gone"} /\ client \in {"watching", "lost"}
    BY <1>5 DEF ListNamespace, ListFails, Receive, ReceiveBad, Quit, DeliverBad, MergeFails,
       SubscribeFails, CloseOut, Lose, Leave, vars, listVars, viewVars, watchVars, pastVars
  <2>2. Snapshot' = Snapshot /\ Delivered' = Delivered
    BY <2>1, SameLog DEF IInv, Snapshot, Delivered
  <2> QED
    BY <2>1, <2>2 DEF CountInv, Subscribed
<1> QED
  BY <1>1, <1>2, <1>3, <1>4, <1>5 DEF Next, Listing, Watching

-----------------------------------------------------------------------------
(* The theorems.                                                           *)

LEMMA Invariant == Spec => []IInv
<1> QED
  BY IInvInit, InvNext, PTL DEF Spec

\* Everything stays in its type; a goroutine that holds an event has one, of its
\* namespace and behind what it delivered (resolver.go:127).
THEOREM TypeCorrect == Spec => []TypeOK
<1>1. IInv => TypeOK
  BY DEF IInv
<1> QED
  BY <1>1, Invariant, PTL

\* However the cluster changes between the pages, the snapshots and the events,
\* the list shows of each namespace what it held when the last event that the
\* hook has had happened, however often the websocket is lost; without two
\* objects of one name, all of it; and besides only what it will be told again to
\* have been deleted (schema.helpers.go:332, resolver.go:127, hooks.ts:299).
THEOREM ViewCorrect == Spec => []ViewConsistent
<1>1. IInv => ViewConsistent
  BY DEF IInv
<1> QED
  BY <1>1, Invariant, PTL

\* The counting hook has the number of objects that were there when the last
\* events it was told happened, for any number of namespaces, objects of one name
\* and changes between the lists and the watches, though it has only one object
\* and the API's counts of the others (schema.helpers.go:375, hooks.ts:424); and
\* with them, for each loss of the websocket, those that came with the events it
\* is told again, less those that went (apollo-client.ts:39).
THEOREM CountCorrect == Spec => []CountTrue
<1>1. Init => CountInv
  BY FS_EmptySet DEF Init, CountInv, Subscribed
<1>2. CountInv => CountTrue
  BY DEF CountInv, CountTrue
<1> QED
  BY <1>1, <1>2, CountNext, Invariant, PTL DEF Spec

=============================================================================
