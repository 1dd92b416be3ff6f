-------------------------- MODULE ConnectionsProofs --------------------------
(***************************************************************************)
(* Theorems about Connections, for any contexts, callers and changes of    *)
(* the kubeconfig.                                                         *)
(***************************************************************************)
EXTENDS Connections, TLAPS

-----------------------------------------------------------------------------
(* The invariant.                                                          *)

\* The layers whose computation waits for the one p is at.
Waiting(p) ==
  IF top[p] = want[p][1] THEN {}
  ELSE IF top[p] = "rest" /\ want[p][1] \in {"factory", "ready"} THEN {"client", want[p][1]}
  ELSE {want[p][1]}

Walks(p) == at[p] \in {"down", "compute", "up", "check"}

\* A caller is at the layer it wants or at one that is built on.
PathInv ==
  \A p \in Callers : Walks(p) =>
    /\ want[p] \in Keys
    /\ top[p] \in {want[p][1], "rest", "client"}
    /\ top[p] = "client" => want[p][1] \in {"client", "factory", "ready"}

\* It holds the locks of those that wait, and of the one it computes.
LockInv ==
  \A p \in Callers : Walks(p) =>
    /\ \A l \in Waiting(p) : lock[<<l, want[p][2]>>] = p
    /\ at[p] = "compute" => lock[Key(p)] = p

\* What is locked has no value yet.
EmptyInv == \A k \in Keys : lock[k] # Free => cache[k] = 0

\* A result is what is in the cache, and what is computed is built on it.
ResultInv ==
  \A p \in Callers :
    /\ at[p] \in {"up", "check", "end"} /\ got[p] # 0 => Key(p) \in Keys /\ got[p] = cache[Key(p)]
    /\ at[p] = "compute" /\ top[p] # "rest" =>
         got[p] # 0 /\ got[p] = cache[<<Below(top[p]), want[p][2]>>]

BuiltInv ==
  \A l \in Layers \ {"rest"}, k \in Contexts : cache[<<l, k>>] # 0 =>
    cache[<<Below(l), k>>] # 0 /\ base[<<l, k>>] = cache[<<Below(l), k>>]

IInv == CacheTypeOK /\ PathInv /\ LockInv /\ EmptyInv /\ ResultInv /\ BuiltInv

LEMMA Implies == ASSUME IInv PROVE OneConnection
BY DEF IInv, ResultInv, BuiltInv, OneConnection

LEMMA CacheInit == ASSUME Init PROVE IInv
<1>1. CacheTypeOK
  BY DEF Init, CacheTypeOK
<1>2. \A p \in Callers : at[p] = "off"
  BY DEF Init
<1>3. \A k \in Keys : cache[k] = 0 /\ lock[k] = Free
  BY DEF Init
<1>4. \A l \in Layers, k \in Contexts : <<l, k>> \in Keys
  BY DEF Keys
<1> QED
  BY <1>1, <1>2, <1>3, <1>4 DEF IInv, PathInv, LockInv, EmptyInv, ResultInv, BuiltInv, Walks

LEMMA CacheStutter == ASSUME IInv, UNCHANGED cacheVars PROVE IInv'
BY DEF IInv, CacheTypeOK, PathInv, LockInv, EmptyInv, ResultInv, BuiltInv, Walks, Waiting, Key,
       cacheVars, keyVars, callVars

-----------------------------------------------------------------------------
(* One caller moves.                                                       *)

\* The keys on the way of a caller.
LEMMA OnTheWay ==
  ASSUME CacheTypeOK, PathInv, NEW p \in Callers, Walks(p)
  PROVE  /\ want[p][1] \in Layers /\ want[p][2] \in Contexts
         /\ top[p] \in Layers /\ Key(p) \in Keys
         /\ \A l \in Layers : <<l, want[p][2]>> \in Keys
         /\ Waiting(p) \subseteq Layers /\ top[p] \notin Waiting(p)
BY DEF PathInv, Keys, Key, Waiting, Layers, CacheTypeOK

\* The others notice nothing of a lock that was free, or the caller's own, and
\* of a value where there was none.
LEMMA Others ==
  ASSUME IInv, NEW p \in Callers, NEW q \in Callers \ {p}, NEW k \in Keys,
         lock[k] = Free \/ lock[k] = p,
         UNCHANGED <<want[q], at[q], top[q], got[q]>>,
         \A j \in Keys \ {k} : lock'[j] = lock[j] /\ cache'[j] = cache[j],
         cache[k] # 0 => cache'[k] = cache[k]
  PROVE  /\ (Walks(q) => /\ want[q] \in Keys
                         /\ top[q] \in {want[q][1], "rest", "client"}
                         /\ top[q] = "client" => want[q][1] \in {"client", "factory", "ready"})'
         /\ (Walks(q) => /\ \A l \in Waiting(q) : lock[<<l, want[q][2]>>] = q
                         /\ at[q] = "compute" => lock[Key(q)] = q)'
         /\ (at[q] \in {"up", "check", "end"} /\ got[q] # 0 => Key(q) \in Keys /\ got[q] = cache[Key(q)])'
         /\ (at[q] = "compute" /\ top[q] # "rest" =>
               got[q] # 0 /\ got[q] = cache[<<Below(top[q]), want[q][2]>>])'
<1>1. q # Free
  BY ConnectionsAssumption DEF ConnectionsAssumption
<1>2. ASSUME Walks(q), NEW l \in Waiting(q) PROVE lock'[<<l, want[q][2]>>] = q
  <2>1. lock[<<l, want[q][2]>>] = q /\ <<l, want[q][2]>> \in Keys
    BY <1>2, OnTheWay DEF IInv, LockInv
  <2> QED
    BY <2>1, <1>1
<1>3. ASSUME at[q] = "compute" PROVE lock'[Key(q)] = q
  <2>1. lock[Key(q)] = q /\ Key(q) \in Keys
    BY <1>3, OnTheWay DEF IInv, LockInv, Walks
  <2> QED
    BY <2>1, <1>1
<1>4. ASSUME at[q] \in {"up", "check", "end"}, got[q] # 0 PROVE Key(q) \in Keys /\ got[q] = cache'[Key(q)]
  BY <1>4 DEF IInv, ResultInv
<1>5. ASSUME at[q] = "compute", top[q] # "rest"
      PROVE  got[q] # 0 /\ got[q] = cache'[<<Below(top[q]), want[q][2]>>]
  <2>1. got[q] # 0 /\ got[q] = cache[<<Below(top[q]), want[q][2]>>]
    BY <1>5 DEF IInv, ResultInv
  <2>2. <<Below(top[q]), want[q][2]>> \in Keys
    BY <1>5, OnTheWay DEF IInv, Walks, Below, Layers
  <2> QED
    BY <2>1, <2>2
<1>6. Waiting(q)' = Waiting(q) /\ Key(q)' = Key(q) /\ Walks(q)' = Walks(q)
  BY DEF Waiting, Key, Walks
<1> QED
  BY <1>2, <1>3, <1>4, <1>5, <1>6 DEF IInv, PathInv

\* What is left to show of a step of p.
PathOf(p) ==
  Walks(p) => /\ want[p] \in Keys
              /\ top[p] \in {want[p][1], "rest", "client"}
              /\ top[p] = "client" => want[p][1] \in {"client", "factory", "ready"}

LocksOf(p) ==
  Walks(p) => /\ \A l \in Waiting(p) : lock[<<l, want[p][2]>>] = p
              /\ at[p] = "compute" => lock[Key(p)] = p

ResultOf(p) ==
  /\ at[p] \in {"up", "check", "end"} /\ got[p] # 0 => Key(p) \in Keys /\ got[p] = cache[Key(p)]
  /\ at[p] = "compute" /\ top[p] # "rest" =>
       got[p] # 0 /\ got[p] = cache[<<Below(top[p]), want[p][2]>>]

LEMMA Moves ==
  ASSUME IInv, NEW p \in Callers, NEW k \in Keys, lock[k] = Free \/ lock[k] = p,
         \A q \in Callers \ {p} : UNCHANGED <<want[q], at[q], top[q], got[q]>>,
         \A j \in Keys \ {k} : lock'[j] = lock[j] /\ cache'[j] = cache[j],
         cache[k] # 0 => cache'[k] = cache[k],
         CacheTypeOK', EmptyInv', BuiltInv', PathOf(p)', LocksOf(p)', ResultOf(p)'
  PROVE  IInv'
<1>1. ASSUME NEW q \in Callers PROVE PathOf(q)' /\ LocksOf(q)' /\ ResultOf(q)'
  <2>1. CASE q = p
    BY <2>1
  <2>2. CASE q # p
    BY <2>2, Others DEF PathOf, LocksOf, ResultOf
  <2> QED
    BY <2>1, <2>2
<1>2. PathInv' /\ LockInv' /\ ResultInv'
  BY <1>1 DEF PathInv, LockInv, ResultInv, PathOf, LocksOf, ResultOf
<1> QED
  BY <1>2 DEF IInv

LEMMA OwnMove ==
  ASSUME CacheTypeOK, NEW p \in Callers, NEW a, NEW l, NEW v, Goes(p, a, l, v)
  PROVE  /\ at'[p] = a /\ top'[p] = l /\ got'[p] = v
         /\ \A q \in Callers \ {p} : at'[q] = at[q] /\ top'[q] = top[q] /\ got'[q] = got[q]
BY DEF Goes, CacheTypeOK

LEMMA OwnType ==
  ASSUME CacheTypeOK, NEW p \in Callers, NEW v \in Nat, NEW l \in Layers,
         NEW a \in {"off", "down", "compute", "up", "check", "end"}, Goes(p, a, l, v)
  PROVE  /\ at' \in [Callers -> {"off", "down", "compute", "up", "check", "end"}]
         /\ top' \in [Callers -> Layers \union {"none"}] /\ got' \in [Callers -> Nat]
BY DEF Goes, CacheTypeOK

LEMMA LockStep == ASSUME IInv, NEW p \in Callers, Lock(p) PROVE IInv'
<1>1. /\ UNCHANGED <<cache, base, made, kind, want, answer>>
      /\ at[p] = "down" /\ lock[Key(p)] = Free /\ Walks(p) /\ CacheTypeOK
  BY DEF Lock, Walks, IInv
<1>2. /\ want[p] \in Keys /\ want[p][1] \in Layers /\ want[p][2] \in Contexts
      /\ top[p] \in Layers /\ Key(p) \in Keys /\ top[p] \notin Waiting(p)
      /\ \A l \in Layers : <<l, want[p][2]>> \in Keys
      /\ PathOf(p) /\ LocksOf(p) /\ \A l \in Waiting(p) : l \in Layers
  BY <1>1, OnTheWay DEF IInv, PathInv, LockInv, PathOf, LocksOf
<1>3. CASE cache[Key(p)] # 0
  <2>1. Goes(p, "up", top[p], cache[Key(p)]) /\ UNCHANGED lock
    BY <1>3 DEF Lock
  <2>2. cache[Key(p)] \in Nat
    BY <1>1, <1>2 DEF CacheTypeOK
  <2>3. /\ at'[p] = "up" /\ top'[p] = top[p] /\ got'[p] = cache[Key(p)]
        /\ \A q \in Callers \ {p} : at'[q] = at[q] /\ top'[q] = top[q] /\ got'[q] = got[q]
    BY <1>1, <2>1, OwnMove
  <2>4. CacheTypeOK'
    BY <1>1, <1>2, <2>1, <2>2, OwnType DEF CacheTypeOK
  <2>5. EmptyInv' /\ BuiltInv'
    BY <1>1, <2>1 DEF IInv, EmptyInv, BuiltInv
  <2>6. PathOf(p)' /\ LocksOf(p)' /\ ResultOf(p)'
    BY <1>1, <1>2, <2>1, <2>3 DEF PathOf, LocksOf, ResultOf, Walks, Waiting, Key
  <2> QED
    BY <1>1, <1>2, <2>1, <2>3, <2>4, <2>5, <2>6, Moves
<1>4. CASE cache[Key(p)] = 0
  <2>1. /\ lock' = [lock EXCEPT ![Key(p)] = p]
        /\ IF top[p] = "rest" THEN Goes(p, "compute", "rest", 0)
                             ELSE Goes(p, "down", Below(top[p]), 0)
    BY <1>4 DEF Lock
  <2>2. lock'[Key(p)] = p /\ \A k \in Keys \ {Key(p)} : lock'[k] = lock[k]
    BY <1>1, <1>2, <2>1 DEF CacheTypeOK
  <2>3. /\ IF top[p] = "rest" THEN at'[p] = "compute" /\ top'[p] = "rest"
                               ELSE at'[p] = "down" /\ top'[p] = Below(top[p])
        /\ got'[p] = 0
        /\ \A q \in Callers \ {p} : at'[q] = at[q] /\ top'[q] = top[q] /\ got'[q] = got[q]
    BY <1>1, <2>1, OwnMove
  <2>4. CacheTypeOK'
    <3>1. Below(top[p]) \in Layers /\ "rest" \in Layers
      BY DEF Below, Layers
    <3>2. /\ at' \in [Callers -> {"off", "down", "compute", "up", "check", "end"}]
          /\ top' \in [Callers -> Layers \union {"none"}] /\ got' \in [Callers -> Nat]
      BY <1>1, <2>1, <3>1, OwnType
    <3>3. lock' \in [Keys -> Callers \union {Free}]
      BY <1>1, <2>1 DEF CacheTypeOK
    <3> QED
      BY <1>1, <3>2, <3>3 DEF CacheTypeOK
  <2>5. EmptyInv' /\ BuiltInv'
    BY <1>1, <1>4, <2>2 DEF IInv, EmptyInv, BuiltInv
  <2>6. PathOf(p)'
    BY <1>1, <1>2, <2>3 DEF PathOf, Below, Layers
  <2>7. LocksOf(p)'
    <3>1. CASE top[p] = "rest"
      BY <1>1, <1>2, <2>2, <2>3, <3>1 DEF LocksOf, Waiting, Key, Keys
    <3>2. CASE top[p] # "rest"
      <4>1. Waiting(p)' \subseteq Waiting(p) \union {top[p]}
        BY <1>1, <1>2, <2>3, <3>2 DEF Waiting, Below, PathOf, Layers
      <4>2. \A l \in Waiting(p) : lock'[<<l, want[p][2]>>] = p
        BY <1>1, <1>2, <2>2 DEF LocksOf, Key
      <4> QED
        BY <1>1, <2>2, <2>3, <3>2, <4>1, <4>2 DEF LocksOf, Key
    <3> QED
      BY <3>1, <3>2
  <2>8. ResultOf(p)'
    BY <2>3 DEF ResultOf
  <2> QED
    BY <1>1, <1>2, <2>2, <2>3, <2>4, <2>5, <2>6, <2>7, <2>8, Moves
<1> QED
  BY <1>3, <1>4

LEMMA ComputeStep == ASSUME IInv, NEW p \in Callers, Compute(p) PROVE IInv'
<1>1. /\ UNCHANGED <<kind, want, answer>> /\ Goes(p, "up", top[p], made + 1)
      /\ made' = made + 1
      /\ cache' = [cache EXCEPT ![Key(p)] = made + 1]
      /\ base' = [base EXCEPT ![Key(p)] = got[p]]
      /\ lock' = [lock EXCEPT ![Key(p)] = Free]
      /\ at[p] = "compute" /\ Walks(p) /\ CacheTypeOK
  BY DEF Compute, Walks, IInv
<1>2. /\ want[p] \in Keys /\ want[p][1] \in Layers /\ want[p][2] \in Contexts
      /\ top[p] \in Layers /\ Key(p) \in Keys /\ top[p] \notin Waiting(p)
      /\ \A l \in Layers : <<l, want[p][2]>> \in Keys
      /\ PathOf(p) /\ LocksOf(p) /\ \A l \in Waiting(p) : l \in Layers
  BY <1>1, OnTheWay DEF IInv, PathInv, LockInv, PathOf, LocksOf
<1>3. lock[Key(p)] = p /\ p # Free /\ cache[Key(p)] = 0
  BY <1>1, <1>2, ConnectionsAssumption DEF LocksOf, IInv, EmptyInv, ConnectionsAssumption
<1>4. /\ at'[p] = "up" /\ top'[p] = top[p] /\ got'[p] = made + 1
      /\ \A q \in Callers \ {p} : at'[q] = at[q] /\ top'[q] = top[q] /\ got'[q] = got[q]
  BY <1>1, OwnMove
<1>5. made + 1 \in Nat /\ made + 1 # 0 /\ got[p] \in Nat
  BY <1>1 DEF CacheTypeOK
<1>6. CacheTypeOK'
  BY <1>1, <1>2, <1>5, OwnType DEF CacheTypeOK
<1>7. /\ cache'[Key(p)] = made + 1 /\ base'[Key(p)] = got[p] /\ lock'[Key(p)] = Free
      /\ \A k \in Keys \ {Key(p)} : cache'[k] = cache[k] /\ base'[k] = base[k] /\ lock'[k] = lock[k]
  BY <1>1, <1>2 DEF CacheTypeOK
<1>8. EmptyInv'
  BY <1>1, <1>7 DEF IInv, EmptyInv
<1>9. BuiltInv'
  <2>1. SUFFICES ASSUME NEW l \in Layers \ {"rest"}, NEW k \in Contexts, cache'[<<l, k>>] # 0
        PROVE  cache'[<<Below(l), k>>] # 0 /\ base'[<<l, k>>] = cache'[<<Below(l), k>>]
    BY DEF BuiltInv
  <2>2. <<l, k>> \in Keys /\ <<Below(l), k>> \in Keys /\ Below(l) # l
    BY DEF Keys, Below, Layers
  <2>3. CASE <<l, k>> = Key(p)
    <3>1. top[p] = l /\ want[p][2] = k
      BY <2>3 DEF Key
    <3>2. got[p] # 0 /\ got[p] = cache[<<Below(l), k>>]
      BY <1>1, <3>1 DEF IInv, ResultInv
    <3> QED
      BY <1>7, <2>2, <2>3, <3>2
  <2>4. CASE <<l, k>> # Key(p)
    <3>1. cache[<<Below(l), k>>] # 0 /\ base[<<l, k>>] = cache[<<Below(l), k>>]
      BY <1>7, <2>1, <2>2, <2>4 DEF IInv, BuiltInv
    <3>2. <<Below(l), k>> # Key(p)
      BY <1>3, <3>1
    <3> QED
      BY <1>7, <2>2, <2>4, <3>1, <3>2
  <2> QED
    BY <2>3, <2>4
<1>10. PathOf(p)' /\ ResultOf(p)'
  BY <1>1, <1>2, <1>4, <1>7 DEF PathOf, ResultOf, Key
<1>11. LocksOf(p)'
  BY <1>1, <1>2, <1>4, <1>7 DEF LocksOf, Waiting, Key
<1> QED
  BY <1>1, <1>2, <1>3, <1>4, <1>6, <1>7, <1>8, <1>9, <1>10, <1>11, Moves

\* The caches are left alone, and a lock is released at most.
LEMMA Releases ==
  ASSUME IInv, NEW p \in Callers, NEW k \in Keys, lock[k] = p \/ UNCHANGED lock,
         UNCHANGED lock \/ lock' = [lock EXCEPT ![k] = Free],
         UNCHANGED <<cache, base, made, kind, want, answer>>,
         NEW a \in {"compute", "up"}, NEW l \in Layers, NEW v \in Nat, Goes(p, a, l, v),
         PathOf(p)', LocksOf(p)', ResultOf(p)'
  PROVE  IInv'
<1>1. CacheTypeOK'
  <2>1. lock' \in [Keys -> Callers \union {Free}]
    BY DEF IInv, CacheTypeOK
  <2> QED
    BY <2>1, OwnType DEF IInv, CacheTypeOK
<1>2. /\ \A j \in Keys : lock'[j] = lock[j] \/ (j = k /\ lock'[j] = Free)
      /\ \A j \in Keys : cache'[j] = cache[j]
  BY DEF IInv, CacheTypeOK
<1>3. EmptyInv' /\ BuiltInv'
  BY <1>2 DEF IInv, EmptyInv, BuiltInv
<1>4. \A q \in Callers \ {p} :
        at'[q] = at[q] /\ top'[q] = top[q] /\ got'[q] = got[q] /\ want'[q] = want[q]
  BY OwnMove DEF IInv
<1>5. ASSUME NEW q \in Callers \ {p} PROVE PathOf(q)' /\ LocksOf(q)' /\ ResultOf(q)'
  <2>1. PathOf(q) /\ LocksOf(q) /\ ResultOf(q)
    BY DEF IInv, PathInv, LockInv, ResultInv, PathOf, LocksOf, ResultOf
  <2>2. Walks(q)' = Walks(q) /\ Waiting(q)' = Waiting(q) /\ Key(q)' = Key(q)
    BY <1>4 DEF Walks, Waiting, Key
  <2>3. ASSUME NEW j \in Keys, lock[j] = q PROVE lock'[j] = q
    BY <1>2, <2>3
  <2>4. Walks(q) => Key(q) \in Keys /\ \A m \in Waiting(q) : <<m, want[q][2]>> \in Keys
    BY OnTheWay DEF IInv
  <2>5. LocksOf(q)'
    BY <1>4, <2>1, <2>2, <2>3, <2>4 DEF LocksOf, Walks
  <2>6. PathOf(q)'
    BY <1>4, <2>1, <2>2 DEF PathOf
  <2>7. ResultOf(q)'
    BY <1>4, <2>1, <2>2 DEF ResultOf, Below
  <2> QED
    BY <2>5, <2>6, <2>7
<1>6. \A q \in Callers : PathOf(q)' /\ LocksOf(q)' /\ ResultOf(q)'
  BY <1>5
<1>7. PathInv' /\ LockInv' /\ ResultInv'
  BY <1>6 DEF PathInv, LockInv, ResultInv, PathOf, LocksOf, ResultOf
<1> QED
  BY <1>1, <1>3, <1>7 DEF IInv

LEMMA FailStep == ASSUME IInv, NEW p \in Callers, ComputeFails(p) PROVE IInv'
<1>1. /\ UNCHANGED <<cache, base, made, kind, want, answer>> /\ Goes(p, "up", top[p], 0)
      /\ lock' = [lock EXCEPT ![Key(p)] = Free]
      /\ at[p] = "compute" /\ Walks(p) /\ CacheTypeOK
  BY DEF ComputeFails, Walks, IInv
<1>2. /\ top[p] \in Layers /\ Key(p) \in Keys /\ top[p] \notin Waiting(p)
      /\ \A l \in Layers : <<l, want[p][2]>> \in Keys
      /\ PathOf(p) /\ LocksOf(p) /\ \A l \in Waiting(p) : l \in Layers
  BY <1>1, OnTheWay DEF IInv, PathInv, LockInv, PathOf, LocksOf
<1>3. /\ at'[p] = "up" /\ top'[p] = top[p] /\ got'[p] = 0
  BY <1>1, OwnMove
<1>4. PathOf(p)' /\ ResultOf(p)'
  BY <1>1, <1>2, <1>3 DEF PathOf, ResultOf, Walks
<1>5. \A k \in Keys \ {Key(p)} : lock'[k] = lock[k]
  BY <1>1 DEF CacheTypeOK
<1>6. LocksOf(p)'
  BY <1>1, <1>2, <1>3, <1>5 DEF LocksOf, Waiting, Key
<1>7. lock[Key(p)] = p
  BY <1>1, <1>2 DEF LocksOf
<1> QED
  BY <1>1, <1>2, <1>4, <1>6, <1>7, Releases

LEMMA PassStep == ASSUME IInv, NEW p \in Callers, Pass(p) PROVE IInv'
<1> DEFINE k == <<Above(p), want[p][2]>>
<1>1. /\ UNCHANGED <<cache, base, made, kind, want, answer>>
      /\ at[p] = "up" /\ Walks(p) /\ CacheTypeOK /\ top[p] # want[p][1]
  BY DEF Pass, Walks, IInv
<1>2. /\ want[p] \in Keys /\ want[p][1] \in Layers /\ top[p] \in Layers /\ Key(p) \in Keys
      /\ \A l \in Layers : <<l, want[p][2]>> \in Keys
      /\ PathOf(p) /\ LocksOf(p) /\ ResultOf(p) /\ \A l \in Waiting(p) : l \in Layers
  BY <1>1, OnTheWay DEF IInv, PathInv, LockInv, ResultInv, PathOf, LocksOf, ResultOf
<1>3. /\ Above(p) \in Waiting(p) /\ Above(p) # "rest" /\ Below(Above(p)) = top[p]
      /\ Above(p) \in {want[p][1], "client"}
      /\ Above(p) = "client" => want[p][1] \in {"client", "factory", "ready"}
  BY <1>1, <1>2 DEF PathOf, Waiting, Above, Below, Layers
<1>4. k \in Keys /\ lock[k] = p
  BY <1>1, <1>2, <1>3 DEF LocksOf
<1>5. ASSUME top'[p] = Above(p)
      PROVE  Waiting(p)' \subseteq Waiting(p) \ {Above(p)}
  BY <1>1, <1>2, <1>3, <1>5 DEF Waiting, Above, PathOf, Layers
<1>6. CASE got[p] # 0
  <2>1. Goes(p, "compute", Above(p), got[p]) /\ UNCHANGED lock
    BY <1>6 DEF Pass
  <2>2. at'[p] = "compute" /\ top'[p] = Above(p) /\ got'[p] = got[p]
    BY <1>1, <2>1, OwnMove
  <2>3. PathOf(p)' /\ LocksOf(p)'
    BY <1>1, <1>2, <1>3, <1>4, <1>5, <2>1, <2>2 DEF PathOf, LocksOf, Key
  <2>4. ResultOf(p)'
    BY <1>1, <1>2, <1>3, <1>6, <2>2 DEF ResultOf, Key
  <2>5. Above(p) \in Layers /\ got[p] \in Nat
    BY <1>1, <1>2, <1>3 DEF CacheTypeOK
  <2> QED
    BY <1>1, <1>4, <2>1, <2>3, <2>4, <2>5, Releases
<1>7. CASE got[p] = 0
  <2>1. Goes(p, "up", Above(p), 0) /\ lock' = [lock EXCEPT ![k] = Free]
    BY <1>7 DEF Pass
  <2>2. at'[p] = "up" /\ top'[p] = Above(p) /\ got'[p] = 0
    BY <1>1, <2>1, OwnMove
  <2>3. \A l \in Layers \ {Above(p)} : lock'[<<l, want[p][2]>>] = lock[<<l, want[p][2]>>]
    BY <1>1, <1>2, <2>1 DEF CacheTypeOK
  <2>4. PathOf(p)' /\ ResultOf(p)'
    BY <1>1, <1>2, <1>3, <2>2 DEF PathOf, ResultOf
  <2>5. LocksOf(p)'
    BY <1>1, <1>2, <1>5, <2>2, <2>3 DEF LocksOf
  <2> QED
    BY <1>1, <1>2, <1>3, <1>4, <2>1, <2>4, <2>5, Releases
<1> QED
  BY <1>6, <1>7

\* Steps that change neither caches nor locks.
LEMMA LeavesKeys ==
  ASSUME IInv, NEW p \in Callers, UNCHANGED keyVars, CacheTypeOK',
         \A q \in Callers \ {p} : UNCHANGED <<want[q], at[q], top[q], got[q]>>,
         PathOf(p)', LocksOf(p)', ResultOf(p)'
  PROVE  IInv'
<1>1. EmptyInv' /\ BuiltInv'
  BY DEF IInv, EmptyInv, BuiltInv, keyVars
<1>2. ASSUME NEW q \in Callers PROVE PathOf(q)' /\ LocksOf(q)' /\ ResultOf(q)'
  <2>1. CASE q = p
    BY <2>1
  <2>2. CASE q # p
    <3>1. PathOf(q) /\ LocksOf(q) /\ ResultOf(q)
      BY DEF IInv, PathInv, LockInv, ResultInv, PathOf, LocksOf, ResultOf
    <3> QED
      BY <2>2, <3>1 DEF PathOf, LocksOf, ResultOf, Walks, Waiting, Key, keyVars
  <2> QED
    BY <2>1, <2>2
<1>3. PathInv' /\ LockInv' /\ ResultInv'
  BY <1>2 DEF PathInv, LockInv, ResultInv, PathOf, LocksOf, ResultOf
<1> QED
  BY <1>1, <1>3 DEF IInv

LEMMA AskStep ==
  ASSUME IInv, NEW p \in Callers, NEW what \in Kinds, NEW k \in Contexts, Ask(p, what, k)
  PROVE  IInv'
<1> DEFINE l == IF what = "informer" THEN "client" ELSE what
<1>1. /\ UNCHANGED keyVars /\ UNCHANGED answer /\ CacheTypeOK
      /\ kind' = [kind EXCEPT ![p] = what]
      /\ want' = [want EXCEPT ![p] = <<l, k>>] /\ Goes(p, "down", l, 0)
  BY DEF Ask, IInv
<1>2. l \in Layers /\ <<l, k>> \in Keys
  BY DEF Kinds, Layers, Keys
<1>3. /\ at'[p] = "down" /\ top'[p] = l /\ got'[p] = 0 /\ want'[p] = <<l, k>>
      /\ \A q \in Callers \ {p} :
           at'[q] = at[q] /\ top'[q] = top[q] /\ got'[q] = got[q] /\ want'[q] = want[q]
  BY <1>1, OwnMove DEF CacheTypeOK
<1>4. CacheTypeOK'
  BY <1>1, <1>2, OwnType DEF CacheTypeOK, keyVars
<1>5. PathOf(p)' /\ LocksOf(p)' /\ ResultOf(p)'
  BY <1>2, <1>3 DEF PathOf, LocksOf, ResultOf, Waiting
<1> QED
  BY <1>1, <1>3, <1>4, <1>5, LeavesKeys

LEMMA AnswerStep ==
  ASSUME IInv, NEW p \in Callers, Answer(p) \/ Denied(p) PROVE IInv'
<1>1. /\ UNCHANGED keyVars /\ UNCHANGED <<kind, want, top, got>> /\ CacheTypeOK /\ Walks(p)
      /\ PathOf(p) /\ LocksOf(p) /\ ResultOf(p)
  BY DEF Answer, Denied, IInv, Walks, PathInv, LockInv, ResultInv, PathOf, LocksOf, ResultOf
<1>2. PICK a \in {"check", "end"} : at' = [at EXCEPT ![p] = a] /\ (at[p] = "up" \/ a = "end")
  BY DEF Answer, Denied
<1>3. answer' \in [Callers -> {"none", "ok", "error"}]
  BY DEF Answer, Denied, IInv, CacheTypeOK
<1>4. at'[p] = a /\ \A q \in Callers \ {p} : at'[q] = at[q]
  BY <1>1, <1>2 DEF CacheTypeOK
<1>5. CacheTypeOK'
  BY <1>1, <1>2, <1>3 DEF CacheTypeOK, keyVars
<1>6. PathOf(p)' /\ LocksOf(p)'
  BY <1>1, <1>4 DEF PathOf, LocksOf, Walks, Waiting, keyVars
<1>7. ResultOf(p)'
  BY <1>1, <1>4 DEF Answer, Denied, ResultOf, Key, keyVars
<1> QED
  BY <1>1, <1>4, <1>5, <1>6, <1>7, LeavesKeys

LEMMA AllowedStep == ASSUME IInv, NEW p \in Callers, Allowed(p) PROVE IInv'
<1>1. /\ UNCHANGED keyVars /\ UNCHANGED <<kind, answer>> /\ CacheTypeOK /\ Walks(p)
      /\ want' = [want EXCEPT ![p] = <<"factory", want[p][2]>>]
      /\ Goes(p, "down", "factory", 0)
  BY DEF Allowed, IInv, Walks
<1>2. <<"factory", want[p][2]>> \in Keys /\ "factory" \in Layers
  BY <1>1, OnTheWay DEF IInv, Layers
<1>3. /\ at'[p] = "down" /\ top'[p] = "factory" /\ got'[p] = 0
      /\ want'[p] = <<"factory", want[p][2]>>
      /\ \A q \in Callers \ {p} :
           at'[q] = at[q] /\ top'[q] = top[q] /\ got'[q] = got[q] /\ want'[q] = want[q]
  BY <1>1, OwnMove DEF CacheTypeOK
<1>4. CacheTypeOK'
  BY <1>1, <1>2, OwnType DEF CacheTypeOK, keyVars
<1>5. PathOf(p)' /\ LocksOf(p)' /\ ResultOf(p)'
  BY <1>2, <1>3 DEF PathOf, LocksOf, ResultOf, Waiting
<1> QED
  BY <1>1, <1>3, <1>4, <1>5, LeavesKeys

LEMMA CancelStep == ASSUME IInv, NEW p \in Callers, Cancel(p) PROVE IInv'
<1>1. /\ UNCHANGED keyVars /\ UNCHANGED <<kind, want, at, top, got>>
      /\ answer' \in [Callers -> {"none", "ok", "error"}]
  BY DEF Cancel, IInv, CacheTypeOK
<1> QED
  BY <1>1 DEF IInv, CacheTypeOK, PathInv, LockInv, EmptyInv, ResultInv, BuiltInv, Walks, Waiting,
     Key, keyVars

LEMMA CacheNext == IInv /\ [Next]_vars => IInv'
<1>1. ASSUME IInv, UNCHANGED cacheVars PROVE IInv'
  BY <1>1, CacheStutter
<1>2. ASSUME IInv, CacheStep PROVE IInv'
  BY <1>2, LockStep, ComputeStep, FailStep, PassStep, AskStep, AnswerStep, AllowedStep, CancelStep
     DEF CacheStep, CallStep
<1> QED
  BY <1>1, <1>2 DEF Next, vars

-----------------------------------------------------------------------------
(* The watcher.                                                            *)

\* What fsnotify has to report are changes of the file; without one, and without
\* a timer or a reload that is still to come, the file was loaded as it is.
WatchInv ==
  /\ WatchTypeOK
  /\ events <= file
  /\ /\ events = 0 /\ ~armed /\ \A i \in Callbacks : callback[i] # "reload"
     /\ ~unseen /\ file \notin Unreadable
     => kubeConfig = file

LEMMA Contents ==
  /\ MaxWrites \in Nat /\ \A v \in 0..MaxWrites : v \in Configs
  /\ Empty \in Configs /\ Manager \in Subscribers /\ Manager \notin Clients
  /\ \A s \in Scopes : s.writes \in 0..MaxWrites
BY WatchAssumption DEF WatchAssumption, Configs, Empty, Subscribers

LEMMA WatchStart == ASSUME WatchInit PROVE WatchInv
<1>1. WatchTypeOK
  <2>1. <<>> \in Seq(Subscribers)
    OBVIOUS
  <2>2. kubeConfig \in Configs
    BY Contents DEF WatchInit, Load
  <2>3. file \in 0..MaxWrites /\ events \in 0..MaxWrites
    BY Contents DEF WatchInit
  <2> QED
    BY <2>1, <2>2, <2>3 DEF WatchInit, WatchTypeOK
<1> QED
  BY <1>1 DEF WatchInit, WatchInv, Load

LEMMA WatchFile == ASSUME WatchInv, Write \/ Replace PROVE WatchInv'
<1>1. /\ file' \in 0..MaxWrites /\ watched' \in BOOLEAN /\ unseen' \in BOOLEAN
      /\ events' \in 0..MaxWrites /\ events' <= file' /\ (unseen' \/ events' # 0)
  <2>1. /\ file \in Nat /\ events \in Nat /\ events <= file /\ MaxWrites \in Nat
        /\ file < scope.writes /\ scope.writes \in 0..MaxWrites
    BY Contents DEF WatchInv, WatchTypeOK, Write, Replace
  <2>2. /\ file' = file + 1 /\ events' = (IF watched THEN events + 1 ELSE events)
        /\ unseen' = (unseen \/ ~watched) /\ watched' \in {watched, FALSE} /\ watched \in BOOLEAN
    BY DEF WatchInv, WatchTypeOK, Write, Replace
  <2>3. /\ file' \in 0..MaxWrites
        /\ events' \in 0..MaxWrites /\ events' <= file' /\ (watched => events' # 0)
    BY <2>1, <2>2
  <2>4. watched' \in BOOLEAN /\ unseen' \in BOOLEAN /\ (unseen' \/ watched)
    BY <2>2
  <2> QED
    BY <2>3, <2>4
<1>2. UNCHANGED <<scope, timerVars, busVars, manager, clientVars, has, stale>>
  BY DEF Write, Replace
<1>3. WatchTypeOK'
  BY <1>1, <1>2 DEF WatchInv, WatchTypeOK, timerVars, busVars, clientVars
<1> QED
  BY <1>1, <1>3 DEF WatchInv

LEMMA WatchTimer ==
  ASSUME WatchInv, HandleEvent \/ \E i \in Callbacks : Fire(i) \/ Reload(i)
  PROVE  WatchInv'
<1>1. CASE HandleEvent
  <2>1. events' \in 0..MaxWrites /\ armed' = TRUE /\ events' <= file
    BY <1>1, Contents DEF HandleEvent, WatchInv, WatchTypeOK
  <2> QED
    BY <1>1, <2>1 DEF HandleEvent, WatchInv, WatchTypeOK, busVars, clientVars
<1>2. ASSUME NEW i \in Callbacks, Fire(i) PROVE WatchInv'
  <2>1. /\ armed' = FALSE /\ callback'[i] = "reload"
        /\ callback' \in [Callbacks -> {"idle", "reload", "publish", "call", "done"}]
    BY <1>2 DEF Fire, WatchInv, WatchTypeOK
  <2> QED
    BY <1>2, <2>1 DEF Fire, WatchInv, WatchTypeOK, fileVars, busVars, clientVars
<1>3. ASSUME NEW i \in Callbacks, Reload(i) PROVE WatchInv'
  <2>1. callback' \in [Callbacks -> {"idle", "reload", "publish", "call", "done"}]
    BY <1>3 DEF Reload, WatchInv, WatchTypeOK
  <2>2. kubeConfig' \in Configs /\ (file \notin Unreadable => kubeConfig' = file)
    BY <1>3, Contents DEF Reload, Load, WatchInv, WatchTypeOK
  <2> QED
    BY <1>3, <2>1, <2>2 DEF Reload, WatchInv, WatchTypeOK, fileVars, busVars, clientVars
<1> QED
  BY <1>1, <1>2, <1>3

\* What every other step leaves alone, or moves on from a reload that is done.
LEMMA WatchKeeps ==
  ASSUME WatchInv, WatchTypeOK', UNCHANGED <<fileVars, armed, kubeConfig>>,
         \A i \in Callbacks : callback'[i] = "reload" <=> callback[i] = "reload"
  PROVE  WatchInv'
BY DEF WatchInv, fileVars

LEMMA WatchBus ==
  ASSUME WatchInv, NEW i \in Callbacks, Publish(i) \/ CallNext(i) \/ Published(i)
  PROVE  WatchInv'
<1>1. CASE Publish(i)
  <2>1. /\ callback' \in [Callbacks -> {"idle", "reload", "publish", "call", "done"}]
        /\ arg' \in [Callbacks -> Configs \union {None}] /\ to' \in [Callbacks -> Seq(Subscribers)]
        /\ stale' \subseteq Subscribers
        /\ \A j \in Callbacks : callback'[j] = "reload" <=> callback[j] = "reload"
    BY <1>1 DEF Publish, WatchInv, WatchTypeOK
  <2>2. WatchTypeOK'
    BY <1>1, <2>1 DEF Publish, WatchInv, WatchTypeOK, fileVars, clientVars
  <2> QED
    BY <1>1, <2>1, <2>2, WatchKeeps DEF Publish
<1>2. CASE CallNext(i)
  <2> DEFINE s == Head(to[i])
  <2>1. to[i] \in Seq(Subscribers) /\ to[i] # <<>>
    BY <1>2 DEF CallNext, WatchInv, WatchTypeOK
  <2>2. s \in Subscribers /\ Tail(to[i]) \in Seq(Subscribers)
    BY <2>1
  <2>3. run' = [run EXCEPT ![s] = arg[i]] /\ stale' \subseteq stale \union {s}
    BY <1>2 DEF CallNext
  <2> HIDE DEF s
  <2>4. /\ run' \in [Subscribers -> Configs \union {None}] /\ stale' \subseteq Subscribers
    BY <2>2, <2>3 DEF WatchInv, WatchTypeOK
  <2>5. to' \in [Callbacks -> Seq(Subscribers)]
    BY <1>2, <2>2 DEF CallNext, WatchInv, WatchTypeOK
  <2>6. UNCHANGED <<scope, fileVars, timerVars, subs, arg, manager, clientVars, has>>
    BY <1>2 DEF CallNext
  <2>7. WatchTypeOK'
    BY <2>4, <2>5, <2>6 DEF WatchInv, WatchTypeOK, fileVars, timerVars, clientVars
  <2> QED
    BY <2>6, <2>7, WatchKeeps DEF timerVars
<1>3. CASE Published(i)
  <2>1. /\ callback' \in [Callbacks -> {"idle", "reload", "publish", "call", "done"}]
        /\ \A j \in Callbacks : callback'[j] = "reload" <=> callback[j] = "reload"
    BY <1>3 DEF Published, WatchInv, WatchTypeOK
  <2>2. WatchTypeOK'
    BY <1>3, <2>1 DEF Published, WatchInv, WatchTypeOK, fileVars, busVars, clientVars
  <2> QED
    BY <1>3, <2>1, <2>2, WatchKeeps DEF Published
<1> QED
  BY <1>1, <1>2, <1>3

LEMMA WatchManager ==
  ASSUME WatchInv, ManagerGet \/ ManagerSubscribe \/ KubeConfigModified PROVE WatchInv'
<1>1. Append(subs, Manager) \in Seq(Subscribers)
  BY Contents DEF WatchInv, WatchTypeOK
<1>2. /\ subs' \in Seq(Subscribers)
      /\ has' \in [Subscribers -> Configs \union {None}]
      /\ run' \in [Subscribers -> Configs \union {None}]
      /\ manager' \in {"new", "got", "subscribed"}
  BY <1>1, Contents DEF ManagerGet, ManagerSubscribe, KubeConfigModified, WatchInv, WatchTypeOK, busVars
<1>3. UNCHANGED <<scope, fileVars, timerVars, arg, to, clientVars, stale>>
  BY DEF ManagerGet, ManagerSubscribe, KubeConfigModified, busVars
<1>4. WatchTypeOK'
  BY <1>2, <1>3 DEF WatchInv, WatchTypeOK, fileVars, timerVars, clientVars
<1> QED
  BY <1>3, <1>4, WatchKeeps DEF timerVars

\* A handler taken out leaves the others in their order.
LEMMA TakenOut ==
  ASSUME NEW S, NEW q \in Seq(S), NEW k \in 1..Len(q)
  PROVE  SubSeq(q, 1, k - 1) \o SubSeq(q, k + 1, Len(q)) \in Seq(S)
<1>1. SubSeq(q, 1, k - 1) \in Seq(S)
  OBVIOUS
<1>2. SubSeq(q, k + 1, Len(q)) \in Seq(S)
  OBVIOUS
<1> QED
  BY <1>1, <1>2

LEMMA WatchClient ==
  ASSUME WatchInv, NEW c \in Clients,
         \/ Watch(c) \/ GetConfig(c) \/ ReceiveFirst(c) \/ Subscribe(c) \/ Leave(c)
         \/ CloseOut(c) \/ Unsubscribe(c) \/ Handle(c) \/ Receive(c) \/ Panic(c)
  PROVE  WatchInv'
<1>1. c \in Subscribers /\ Append(subs, c) \in Seq(Subscribers)
  BY DEF Subscribers, WatchInv, WatchTypeOK
<1>2. ASSUME Unsubscribe(c) PROVE subs' \in Seq(Subscribers)
  <2>1. \A k \in FirstClient :
          SubSeq(subs, 1, k - 1) \o SubSeq(subs, k + 1, Len(subs)) \in Seq(Subscribers)
    BY TakenOut DEF FirstClient, WatchInv, WatchTypeOK
  <2> QED
    BY <1>2, <2>1 DEF Unsubscribe, WatchInv, WatchTypeOK
<1>3. subs' \in Seq(Subscribers)
  BY <1>1, <1>2 DEF Watch, GetConfig, ReceiveFirst, Subscribe, Leave, CloseOut, Handle, Receive, Panic,
     WatchInv, WatchTypeOK, busVars
<1>4. /\ run' \in [Subscribers -> Configs \union {None}]
      /\ has' \in [Subscribers -> Configs \union {None}]
  BY <1>1, Contents DEF Watch, GetConfig, ReceiveFirst, Subscribe, Leave, CloseOut, Unsubscribe, Handle, Receive,
     Panic, WatchInv, WatchTypeOK, busVars
<1>5. goroutine' \in [Clients -> {"off", "get", "first", "subscribe", "wait", "close",
                                  "unsubscribe", "end"}]
  BY DEF Watch, GetConfig, ReceiveFirst, Subscribe, Leave, CloseOut, Unsubscribe, Handle, Receive,
     Panic, WatchInv, WatchTypeOK
<1>6. /\ sending' \subseteq Clients /\ gone' \subseteq Clients /\ closed' \subseteq Clients
      /\ crashed' \in BOOLEAN /\ stale' \subseteq Subscribers
  BY <1>1 DEF Watch, GetConfig, ReceiveFirst, Subscribe, Leave, CloseOut, Unsubscribe, Handle, Receive,
     Panic, WatchInv, WatchTypeOK
<1>7. UNCHANGED <<clientRest, arg, to>>
  BY DEF Watch, GetConfig, ReceiveFirst, Subscribe, Leave, CloseOut, Unsubscribe, Handle, Receive,
     Panic, busVars
<1>8. WatchTypeOK'
  BY <1>3, <1>4, <1>5, <1>6, <1>7 DEF WatchInv, WatchTypeOK, clientRest, fileVars, timerVars
<1> QED
  BY <1>7, <1>8, WatchKeeps DEF clientRest, timerVars

LEMMA WatchNext == WatchInv /\ [Next]_vars => WatchInv'
<1>1. ASSUME WatchInv, UNCHANGED kubeVars PROVE WatchInv'
  BY <1>1 DEF WatchInv, WatchTypeOK, kubeVars, fileVars, timerVars, busVars, clientVars
<1>2. ASSUME WatchInv, WatchStep PROVE WatchInv'
  BY <1>2, WatchFile, WatchTimer, WatchBus, WatchManager, WatchClient DEF WatchStep
<1>3. ASSUME CacheStep PROVE UNCHANGED kubeVars
  BY <1>3 DEF CacheStep, CallStep, Lock, Compute, ComputeFails, Pass, Answer, Allowed, Denied, Cancel, Ask
<1> QED
  BY <1>1, <1>2, <1>3 DEF Next, vars

-----------------------------------------------------------------------------
(* The subscribers.                                                        *)

\* Callback i has still to call s's handler.
Calls(i, s) == \E k \in 1..Len(to[i]) : to[i][k] = s

Subscribed(s) == \E k \in 1..Len(subs) : subs[k] = s

\* The configuration is on its way to s: it will be published, or is being.
Awaits(s) ==
  \/ \E i \in Callbacks : callback[i] = "publish"
  \/ \E i \in Callbacks : arg[i] = kubeConfig /\ Calls(i, s)

\* What is published is no newer than the configuration, which is no newer than
\* the file; a configuration is published, will be, or never was.
CallbackInv ==
  /\ kubeConfig <= file
  /\ \A i \in Callbacks : /\ arg[i] <= kubeConfig
                          /\ callback[i] = "call" => arg[i] # None
                          /\ callback[i] # "call" => to[i] = <<>>
  /\ \/ \E i \in Callbacks : callback[i] = "publish" \/ arg[i] = kubeConfig
     \/ \A i \in Callbacks : arg[i] = None

\* s has not subscribed yet.
Before(s) ==
  IF s = Manager THEN manager # "subscribed"
  ELSE goroutine[s] \in {"off", "get", "first", "subscribe"}

BeforeInv == \A s \in Subscribers : Before(s) =>
  ~Subscribed(s) /\ run[s] = None /\ \A i \in Callbacks : ~Calls(i, s)

\* The manager's handler is not taken out by the clients', and a client comes
\* after the manager.
ManagerInv ==
  /\ manager = "subscribed" => Subscribed(Manager)
  /\ manager # "subscribed" => \A c \in Clients : goroutine[c] = "off"
  /\ \A c \in sending : run[c] # None

UpToDate(s) ==
  (Subscribed(s) \/ Between(s)) /\ s \notin gone \union stale =>
    Awaits(s) \/ (IF run[s] # None THEN run[s] = kubeConfig ELSE has[s] = kubeConfig)

BusInv == CallbackInv /\ BeforeInv /\ ManagerInv /\ \A s \in Subscribers : UpToDate(s)

LEMMA Numbers ==
  /\ \A v \in Configs : v \in Int /\ None < v /\ v # None
  /\ None \in Int /\ None \notin Configs
BY WatchAssumption DEF Configs, Empty, None

LEMMA TypeFacts ==
  ASSUME WatchInv
  PROVE  /\ kubeConfig \in Int /\ kubeConfig # None /\ file \in Int
         /\ \A i \in Callbacks : arg[i] \in Int /\ to[i] \in Seq(Subscribers)
         /\ subs \in Seq(Subscribers) /\ Manager \notin gone
         /\ Clients \subseteq Subscribers
BY Numbers, Contents DEF WatchInv, WatchTypeOK, Subscribers, Configs

LEMMA BusStart == ASSUME WatchInit PROVE BusInv
<1>1. kubeConfig <= file
  BY DEF WatchInit, Load, Empty
<1>2. kubeConfig \in Configs /\ Manager \in Subscribers /\ Clients \subseteq Subscribers
  BY Contents DEF WatchInit, Load, Subscribers
<1>3. CallbackInv
  BY <1>1, <1>2, Numbers DEF WatchInit, CallbackInv
<1>4. \A s : ~Subscribed(s) /\ \A i \in Callbacks : ~Calls(i, s)
  BY DEF WatchInit, Subscribed, Calls
<1>5. BeforeInv /\ ManagerInv
  BY <1>2, <1>4 DEF WatchInit, BeforeInv, ManagerInv
<1>6. \A s \in Subscribers : ~Between(s)
  BY DEF WatchInit, Between, Subscribers
<1> QED
  BY <1>3, <1>4, <1>5, <1>6 DEF BusInv, UpToDate

\* The steps of the file and of the timer.
LEMMA BusTimer ==
  ASSUME WatchInv, BusInv,
         Write \/ Replace \/ HandleEvent \/ \E i \in Callbacks : Fire(i)
  PROVE  BusInv'
<1>1. /\ UNCHANGED <<kubeConfig, busVars, manager, clientVars, has, stale>>
      /\ \A i \in Callbacks : /\ callback[i] = "publish" <=> callback'[i] = "publish"
                              /\ callback[i] = "call" <=> callback'[i] = "call"
  <2>1. CASE Write \/ Replace \/ HandleEvent
    BY <2>1 DEF Write, Replace, HandleEvent, timerVars
  <2>2. ASSUME NEW i \in Callbacks, Fire(i)
        PROVE  /\ UNCHANGED <<kubeConfig, busVars, manager, clientVars, has, stale>>
               /\ callback[i] = "idle" /\ callback'[i] = "reload"
               /\ \A j \in Callbacks \ {i} : callback'[j] = callback[j]
    BY <2>2 DEF Fire, WatchInv, WatchTypeOK
  <2> QED
    BY <2>1, <2>2
<1>2. file' \in Int /\ file \in Int /\ file <= file' /\ kubeConfig \in Int
  BY TypeFacts DEF Write, Replace, HandleEvent, Fire, fileVars
<1>3. CallbackInv'
  BY <1>1, <1>2 DEF BusInv, CallbackInv, busVars
<1>4. \A s : /\ Subscribed(s)' = Subscribed(s) /\ Between(s)' = Between(s)
             /\ Before(s)' = Before(s) /\ Awaits(s)' = Awaits(s)
             /\ \A i \in Callbacks : Calls(i, s)' = Calls(i, s)
  BY <1>1 DEF Subscribed, Between, Before, Awaits, Calls, busVars, clientVars
<1> QED
  BY <1>1, <1>3, <1>4 DEF BusInv, BeforeInv, ManagerInv, UpToDate, busVars, clientVars

\* A reload that changes the configuration is followed by its publication.
LEMMA BusReload == ASSUME WatchInv, BusInv, NEW i \in Callbacks, Reload(i) PROVE BusInv'
<1>1. /\ UNCHANGED <<file, busVars, manager, clientVars, has, stale>>
      /\ callback[i] = "reload"
      /\ \A j \in Callbacks \ {i} : callback'[j] = callback[j]
      /\ \/ kubeConfig' = kubeConfig /\ callback'[i] = "done"
         \/ kubeConfig' = file /\ callback'[i] = "publish"
  BY DEF Reload, Load, fileVars, WatchInv, WatchTypeOK
<1>2. CallbackInv'
  BY <1>1, TypeFacts DEF BusInv, CallbackInv, busVars
<1>3. \A s : /\ Subscribed(s)' = Subscribed(s) /\ Between(s)' = Between(s)
             /\ Before(s)' = Before(s)
             /\ \A j \in Callbacks : Calls(j, s)' = Calls(j, s)
  BY <1>1 DEF Subscribed, Between, Before, Calls, busVars, clientVars
<1>4. \A s : Awaits(s) /\ kubeConfig' = kubeConfig => Awaits(s)'
  BY <1>1, <1>3 DEF Awaits, busVars
<1>5. \A s : kubeConfig' = kubeConfig \/ Awaits(s)'
  BY <1>1 DEF Awaits
<1> QED
  BY <1>1, <1>2, <1>3, <1>4, <1>5
  DEF BusInv, BeforeInv, ManagerInv, UpToDate, busVars, clientVars

LEMMA BusPublish == ASSUME WatchInv, BusInv, NEW i \in Callbacks, Publish(i) PROVE BusInv'
<1>1. /\ UNCHANGED <<file, kubeConfig, subs, run, manager, clientVars, has>>
      /\ callback[i] = "publish" /\ callback'[i] = "call" /\ arg'[i] = kubeConfig
      /\ to'[i] = subs
      /\ \A j \in Callbacks \ {i} :
           callback'[j] = callback[j] /\ arg'[j] = arg[j] /\ to'[j] = to[j]
      /\ stale' = stale \union {s \in Subscribers : Between(s)}
  BY DEF Publish, fileVars, WatchInv, WatchTypeOK
<1>2. CallbackInv'
  BY <1>1, TypeFacts DEF BusInv, CallbackInv
<1>3. \A s : /\ Subscribed(s)' = Subscribed(s) /\ Between(s)' = Between(s)
             /\ Before(s)' = Before(s) /\ Calls(i, s)' = Subscribed(s)
             /\ \A j \in Callbacks \ {i} : Calls(j, s)' = Calls(j, s)
  BY <1>1 DEF Subscribed, Between, Before, Calls, clientVars
<1>4. BeforeInv' /\ ManagerInv'
  BY <1>1, <1>3 DEF BusInv, BeforeInv, ManagerInv, clientVars
<1>5. \A s \in Subscribers : Between(s) \/ ~Subscribed(s) \/ Awaits(s)'
  BY <1>1, <1>3 DEF Awaits
<1>6. \A s \in Subscribers : UpToDate(s)'
  BY <1>1, <1>3, <1>5 DEF UpToDate
<1> QED
  BY <1>2, <1>4, <1>6 DEF BusInv

LEMMA TailItems ==
  ASSUME NEW S, NEW q \in Seq(S), q # <<>>
  PROVE  /\ Head(q) \in S /\ Tail(q) \in Seq(S)
         /\ 1 \in 1..Len(q) /\ q[1] = Head(q)
         /\ \A k \in 1..Len(Tail(q)) : k + 1 \in 1..Len(q) /\ Tail(q)[k] = q[k + 1]
         /\ \A k \in 1..Len(q) : k # 1 => k - 1 \in 1..Len(Tail(q)) /\ Tail(q)[k - 1] = q[k]
OBVIOUS

\* A handler is given the newest configuration, or one that is older: then the
\* newest is still on its way to it, or it missed that.
LEMMA BusCall == ASSUME WatchInv, BusInv, NEW i \in Callbacks, CallNext(i) PROVE BusInv'
<1>1. PICK s \in Subscribers : s = Head(to[i])
  BY TypeFacts, TailItems DEF CallNext
<1>2. /\ UNCHANGED <<file, kubeConfig, callback, subs, arg, manager, clientVars, has>>
      /\ callback[i] = "call" /\ to[i] # <<>> /\ run[s] = None /\ run'[s] = arg[i]
      /\ to'[i] = Tail(to[i])
      /\ \A j \in Callbacks \ {i} : to'[j] = to[j]
      /\ \A t \in Subscribers \ {s} : run'[t] = run[t]
      /\ stale' = IF Overtaken(i, s) THEN stale \union {s} ELSE stale \ {s}
  BY <1>1 DEF CallNext, fileVars, timerVars, WatchInv, WatchTypeOK
<1>3. /\ Calls(i, s)
      /\ \A t : t # s /\ Calls(i, t) => Calls(i, t)'
      /\ \A t : Calls(i, t)' => Calls(i, t)
      /\ \A t : \A j \in Callbacks \ {i} : Calls(j, t)' = Calls(j, t)
  <2>1. to[i] \in Seq(Subscribers) /\ to[i] # <<>>
    BY <1>2, TypeFacts
  <2>2. Calls(i, s)
    BY <1>1, <2>1, TailItems DEF Calls
  <2>3. ASSUME NEW t, t # s, Calls(i, t) PROVE Calls(i, t)'
    <3>1. PICK k \in 1..Len(to[i]) : to[i][k] = t
      BY <2>3 DEF Calls
    <3>2. k # 1
      BY <1>1, <2>1, <2>3, <3>1, TailItems
    <3>3. k - 1 \in 1..Len(Tail(to[i])) /\ Tail(to[i])[k - 1] = t
      BY <2>1, <3>1, <3>2, TailItems
    <3> QED
      BY <1>2, <3>3 DEF Calls
  <2>4. ASSUME NEW t, Calls(i, t)' PROVE Calls(i, t)
    BY <1>2, <2>1, <2>4, TailItems DEF Calls
  <2> QED
    BY <1>2, <2>2, <2>3, <2>4 DEF Calls
<1>4. \A t : Subscribed(t)' = Subscribed(t) /\ Between(t)' = Between(t) /\ Before(t)' = Before(t)
  BY <1>2 DEF Subscribed, Between, Before, clientVars
<1>5. ~Before(s) /\ arg[i] # None /\ arg[i] \in Int
  BY <1>2, <1>3, TypeFacts DEF BusInv, BeforeInv, CallbackInv
<1>6. CallbackInv'
  BY <1>2 DEF BusInv, CallbackInv
<1>7. BeforeInv' /\ ManagerInv'
  <2>1. \A c \in sending : c \in Subscribers
    BY TypeFacts DEF WatchInv, WatchTypeOK
  <2>2. ManagerInv'
    BY <1>2, <1>4, <1>5, <2>1 DEF BusInv, ManagerInv, clientVars
  <2>3. BeforeInv'
    BY <1>2, <1>3, <1>4, <1>5 DEF BusInv, BeforeInv
  <2> QED
    BY <2>2, <2>3
<1>8. ASSUME NEW t \in Subscribers, t # s PROVE UpToDate(t)'
  <2>1. Awaits(t) => Awaits(t)'
    BY <1>2, <1>3, <1>8 DEF Awaits
  <2> QED
    BY <1>2, <1>4, <1>8, <2>1 DEF BusInv, UpToDate, clientVars
<1>9. UpToDate(s)'
  <2>1. CASE arg[i] = kubeConfig
    BY <1>2, <1>5, <2>1 DEF UpToDate
  <2>2. CASE arg[i] # kubeConfig /\ ~Overtaken(i, s)
    <3>1. CASE \E j \in Callbacks : callback[j] = "publish"
      <4>1. Awaits(s)'
        BY <1>2, <3>1 DEF Awaits
      <4> QED
        BY <4>1 DEF UpToDate
    <3>2. ASSUME NEW j \in Callbacks, arg[j] = kubeConfig PROVE UpToDate(s)'
      <4>1. arg[j] > arg[i] /\ j # i
        BY <2>2, <3>2, TypeFacts DEF BusInv, CallbackInv
      <4>2. Calls(j, s)
        BY <2>2, <4>1 DEF Overtaken, Calls
      <4>3. Awaits(s)'
        BY <1>2, <1>3, <3>2, <4>1, <4>2 DEF Awaits
      <4> QED
        BY <4>3 DEF UpToDate
    <3> QED
      BY <1>5, <3>1, <3>2 DEF BusInv, CallbackInv
  <2>3. CASE Overtaken(i, s)
    BY <1>2, <2>3 DEF UpToDate
  <2> QED
    BY <2>1, <2>2, <2>3
<1> QED
  BY <1>6, <1>7, <1>8, <1>9 DEF BusInv

LEMMA BusPublished == ASSUME WatchInv, BusInv, NEW i \in Callbacks, Published(i) PROVE BusInv'
<1>1. /\ UNCHANGED <<file, kubeConfig, busVars, manager, clientVars, has, stale>>
      /\ callback[i] = "call" /\ callback'[i] = "done" /\ to[i] = <<>>
      /\ \A j \in Callbacks \ {i} : callback'[j] = callback[j]
  BY DEF Published, fileVars, WatchInv, WatchTypeOK
<1>2. CallbackInv'
  BY <1>1 DEF BusInv, CallbackInv, busVars
<1>3. \A s : /\ Subscribed(s)' = Subscribed(s) /\ Between(s)' = Between(s)
             /\ Before(s)' = Before(s) /\ Awaits(s)' = Awaits(s)
             /\ \A j \in Callbacks : Calls(j, s)' = Calls(j, s)
  BY <1>1 DEF Subscribed, Between, Before, Awaits, Calls, busVars, clientVars
<1> QED
  BY <1>1, <1>2, <1>3 DEF BusInv, BeforeInv, ManagerInv, UpToDate, busVars, clientVars

\* The steps of the subscribers leave the watcher and the callbacks alone.
LEMMA BusFrame ==
  ASSUME BusInv, UNCHANGED <<file, callback, kubeConfig, arg, to>>,
         BeforeInv', ManagerInv', \A s \in Subscribers : UpToDate(s)'
  PROVE  BusInv'
BY DEF BusInv, CallbackInv

\* A subscriber that a step does not move, except out of the bus.
LEMMA Unmoved ==
  ASSUME WatchInv, BusInv, NEW s \in Subscribers, UNCHANGED <<callback, kubeConfig, arg, to>>,
         UNCHANGED <<run[s], has[s]>>, Subscribed(s)' => Subscribed(s),
         IF s = Manager THEN UNCHANGED manager ELSE UNCHANGED goroutine[s],
         gone \subseteq gone', s \in stale => s \in stale'
  PROVE  /\ UpToDate(s)'
         /\ Before(s)' => ~Subscribed(s)' /\ run'[s] = None
                          /\ \A i \in Callbacks : ~Calls(i, s)'
<1>1. Awaits(s)' = Awaits(s) /\ (\A i \in Callbacks : Calls(i, s)' = Calls(i, s))
  BY DEF Awaits, Calls
<1>2. Between(s)' = Between(s) /\ Before(s)' = Before(s)
  BY DEF Between, Before
<1> QED
  BY <1>1, <1>2 DEF BusInv, BeforeInv, UpToDate

LEMMA AppendOne ==
  ASSUME NEW S, NEW q \in Seq(S), NEW x \in S
  PROVE  /\ Append(q, x) \in Seq(S) /\ Len(Append(q, x)) = Len(q) + 1
         /\ \A k \in 1..Len(q) : Append(q, x)[k] = q[k] /\ k \in 1..Len(q) + 1
         /\ Append(q, x)[Len(q) + 1] = x /\ Len(q) + 1 \in 1..Len(q) + 1
         /\ \A k \in 1..Len(q) + 1 : k \in 1..Len(q) \/ k = Len(q) + 1
OBVIOUS

LEMMA SubscribedOne ==
  ASSUME WatchInv, NEW x \in Subscribers, subs' = Append(subs, x)
  PROVE  \A s : Subscribed(s)' <=> Subscribed(s) \/ s = x
<1>1. subs \in Seq(Subscribers)
  BY TypeFacts
<1> QED
  BY <1>1, AppendOne DEF Subscribed

LEMMA BusManager ==
  ASSUME WatchInv, BusInv, ManagerGet \/ ManagerSubscribe \/ KubeConfigModified PROVE BusInv'
<1>1. /\ UNCHANGED <<file, callback, kubeConfig, arg, to, clientVars, stale>>
      /\ \A c \in Clients : UNCHANGED <<run[c], has[c]>>
  BY Contents DEF ManagerGet, ManagerSubscribe, KubeConfigModified, fileVars, timerVars, busVars,
     WatchInv, WatchTypeOK, Subscribers
<1>2. \A s : Subscribed(s)' => Subscribed(s) \/ (s = Manager /\ manager = "got")
  BY SubscribedOne, Contents
  DEF ManagerGet, ManagerSubscribe, KubeConfigModified, Subscribed, busVars
<1>3. ASSUME NEW c \in Clients
      PROVE  /\ UpToDate(c)'
             /\ Before(c)' => ~Subscribed(c)' /\ run'[c] = None
                              /\ \A i \in Callbacks : ~Calls(i, c)'
  <2>1. c \in Subscribers /\ c # Manager
    BY Contents, TypeFacts
  <2> QED
    BY <1>1, <1>2, <2>1, Unmoved DEF clientVars
<1>4. /\ Awaits(Manager)' = Awaits(Manager)
      /\ \A i \in Callbacks : Calls(i, Manager)' = Calls(i, Manager)
  BY <1>1 DEF Awaits, Calls
<1>5. CASE ManagerGet
  <2>1. /\ manager = "new" /\ manager' = "got" /\ has'[Manager] = kubeConfig
        /\ UNCHANGED <<subs, run>>
    BY <1>5, Contents DEF ManagerGet, busVars, WatchInv, WatchTypeOK
  <2>2. Subscribed(Manager)' = Subscribed(Manager) /\ Before(Manager)
    BY <2>1 DEF Subscribed, Before
  <2>3. UpToDate(Manager)' /\ ~Subscribed(Manager)' /\ run'[Manager] = None
        /\ \A i \in Callbacks : ~Calls(i, Manager)'
    BY <1>1, <1>4, <2>1, <2>2, Contents DEF BusInv, BeforeInv, UpToDate
  <2>4. ManagerInv'
    BY <1>1, <2>1 DEF BusInv, ManagerInv, clientVars
  <2> QED
    BY <1>1, <1>3, <2>3, <2>4, BusFrame DEF BeforeInv, Subscribers
<1>6. CASE ManagerSubscribe
  <2>1. /\ manager = "got" /\ manager' = "subscribed" /\ subs' = Append(subs, Manager)
        /\ UNCHANGED <<has, run>>
    BY <1>6 DEF ManagerSubscribe
  <2>2. Between(Manager) /\ ~Before(Manager)' /\ Subscribed(Manager)'
    BY <2>1, Contents, SubscribedOne DEF Between, Before
  <2>3. UpToDate(Manager)'
    BY <1>1, <1>4, <2>1, <2>2, Contents DEF BusInv, UpToDate, clientVars
  <2>4. ManagerInv'
    BY <1>1, <2>1, <2>2 DEF BusInv, ManagerInv, clientVars
  <2> QED
    BY <1>1, <1>3, <2>2, <2>3, <2>4, BusFrame DEF BeforeInv, Subscribers
<1>7. CASE KubeConfigModified
  <2>1. /\ run[Manager] # None /\ run'[Manager] = None /\ has'[Manager] = run[Manager]
        /\ UNCHANGED <<subs, manager>>
    BY <1>7, Contents DEF KubeConfigModified, WatchInv, WatchTypeOK
  <2>2. /\ Subscribed(Manager)' = Subscribed(Manager) /\ Between(Manager)' = Between(Manager)
        /\ ~Before(Manager)'
    BY <2>1, Contents DEF Subscribed, Between, Before, BusInv, BeforeInv
  <2>3. UpToDate(Manager)'
    BY <1>1, <1>4, <2>1, <2>2, Contents DEF BusInv, UpToDate, clientVars
  <2>4. ManagerInv'
    BY <1>1, <2>1, <2>2, Contents DEF BusInv, ManagerInv, clientVars, WatchInv, WatchTypeOK
  <2> QED
    BY <1>1, <1>3, <2>2, <2>3, <2>4, BusFrame DEF BeforeInv, Subscribers
<1> QED
  BY <1>5, <1>6, <1>7
\* The clients' handlers share their code: the one taken out is never the
\* manager's.
LEMMA ManagerStays ==
  ASSUME WatchInv, NEW c \in Clients, Unsubscribe(c)
  PROVE  /\ \A s : Subscribed(s)' => Subscribed(s)
         /\ Subscribed(Manager) => Subscribed(Manager)'
<1>1. CASE FirstClient = {}
  BY <1>1 DEF Unsubscribe, Subscribed
<1>2. CASE FirstClient # {}
  <2>1. PICK k \in FirstClient : subs' = SubSeq(subs, 1, k - 1) \o SubSeq(subs, k + 1, Len(subs))
    BY <1>2 DEF Unsubscribe
  <2>2. subs \in Seq(Subscribers) /\ k \in 1..Len(subs) /\ subs[k] # Manager
    BY TypeFacts DEF FirstClient
  <2> DEFINE a == SubSeq(subs, 1, k - 1)
             b == SubSeq(subs, k + 1, Len(subs))
  <2>3. /\ a \in Seq(Subscribers) /\ Len(a) = k - 1
        /\ \A j \in 1..k - 1 : a[j] = subs[j]
    BY <2>2
  <2>4. /\ b \in Seq(Subscribers) /\ Len(b) = Len(subs) - k
        /\ \A j \in 1..Len(subs) - k : b[j] = subs[k + j]
    BY <2>2
  <2> HIDE DEF a, b
  <2>5. /\ Len(a \o b) = Len(subs) - 1
        /\ \A j \in 1..k - 1 : (a \o b)[j] = subs[j]
        /\ \A j \in k..Len(subs) - 1 : (a \o b)[j] = subs[j + 1]
    <3>1. Len(a \o b) = Len(a) + Len(b)
      BY <2>3, <2>4
    <3>2. \A j \in 1..Len(a) : (a \o b)[j] = a[j]
      BY <2>3, <2>4
    <3>3. \A j \in Len(a) + 1..Len(a) + Len(b) : (a \o b)[j] = b[j - Len(a)]
      BY <2>3, <2>4
    <3>4. ASSUME NEW j \in k..Len(subs) - 1 PROVE (a \o b)[j] = subs[j + 1]
      <4>1. /\ j \in Len(a) + 1..Len(a) + Len(b) /\ j - Len(a) \in 1..Len(subs) - k
            /\ k + (j - Len(a)) = j + 1
        BY <2>2, <2>3, <2>4
      <4> QED
        BY <2>4, <3>3, <4>1
    <3> QED
      BY <2>2, <2>3, <2>4, <3>1, <3>2, <3>4
  <2>6. subs' = a \o b
    BY <2>1 DEF a, b
  <2>7. ASSUME NEW s, Subscribed(s)' PROVE Subscribed(s)
    <3>1. PICK j \in 1..Len(a \o b) : (a \o b)[j] = s
      BY <2>6, <2>7 DEF Subscribed
    <3>2. j \in 1..Len(subs) /\ j + 1 \in 1..Len(subs)
      BY <2>2, <2>5, <3>1
    <3>3. j \in 1..k - 1 \/ j \in k..Len(subs) - 1
      BY <2>2, <2>5, <3>1
    <3> QED
      BY <2>5, <3>1, <3>2, <3>3 DEF Subscribed
  <2>8. ASSUME Subscribed(Manager) PROVE Subscribed(Manager)'
    <3>1. PICK j \in 1..Len(subs) : subs[j] = Manager
      BY <2>8 DEF Subscribed
    <3>2. CASE j < k
      <4>1. j \in 1..Len(a \o b) /\ j \in 1..k - 1
        BY <2>2, <2>5, <3>2
      <4> QED
        BY <2>5, <2>6, <3>1, <4>1 DEF Subscribed
    <3>3. CASE j > k
      <4>1. j - 1 \in 1..Len(a \o b) /\ j - 1 \in k..Len(subs) - 1 /\ (j - 1) + 1 = j
        BY <2>2, <2>5, <3>3
      <4> QED
        BY <2>5, <2>6, <3>1, <4>1 DEF Subscribed
    <3> QED
      BY <2>2, <3>1, <3>2, <3>3
  <2> QED
    BY <2>7, <2>8
<1> QED
  BY <1>1, <1>2

LEMMA BusClient ==
  ASSUME WatchInv, BusInv, NEW c \in Clients,
         \/ Watch(c) \/ GetConfig(c) \/ ReceiveFirst(c) \/ Subscribe(c) \/ Leave(c)
         \/ CloseOut(c) \/ Unsubscribe(c) \/ Handle(c) \/ Receive(c) \/ Panic(c)
  PROVE  BusInv'
<1> DEFINE Stays(s) == Before(s) => /\ ~Subscribed(s) /\ run[s] = None
                                    /\ \A i \in Callbacks : ~Calls(i, s)
<1>1. /\ UNCHANGED <<file, callback, kubeConfig, arg, to, manager>>
      /\ \A d \in Subscribers \ {c} : run'[d] = run[d] /\ has'[d] = has[d]
      /\ \A d \in Clients \ {c} : goroutine'[d] = goroutine[d]
      /\ gone \subseteq gone' /\ stale \subseteq stale'
  BY TypeFacts DEF Watch, GetConfig, ReceiveFirst, Subscribe, Leave, CloseOut, Unsubscribe, Handle,
     Receive, Panic, clientRest, fileVars, timerVars, busVars, WatchInv, WatchTypeOK
<1>2. c \in Subscribers /\ c # Manager /\ Manager \in Subscribers
  BY Contents, TypeFacts
<1>3. /\ \A s : Subscribed(s)' => Subscribed(s) \/ (s = c /\ goroutine[c] = "subscribe")
      /\ Subscribed(Manager) => Subscribed(Manager)'
  <2>1. CASE Unsubscribe(c)
    BY <2>1, ManagerStays
  <2>2. CASE Subscribe(c)
    BY <1>2, <2>2, SubscribedOne DEF Subscribe
  <2>3. CASE ~Unsubscribe(c) /\ ~Subscribe(c)
    <3>1. subs' = subs
      BY <2>3 DEF Watch, GetConfig, ReceiveFirst, Leave, CloseOut, Handle, Receive, Panic, busVars
    <3> QED
      BY <3>1 DEF Subscribed
  <2> QED
    BY <2>1, <2>2, <2>3
<1>4. ASSUME NEW d \in Subscribers \ {c} PROVE UpToDate(d)' /\ Stays(d)'
  <2>1. IF d = Manager THEN UNCHANGED manager ELSE UNCHANGED goroutine[d]
    BY <1>1, <1>4 DEF Subscribers
  <2> QED
    BY <1>1, <1>3, <1>4, <2>1, Unmoved
<1>5. /\ Awaits(c)' = Awaits(c)
      /\ \A i \in Callbacks : Calls(i, c)' = Calls(i, c)
  BY <1>1 DEF Awaits, Calls
<1>6. ASSUME UpToDate(c)', Stays(c)', ManagerInv' PROVE BusInv'
  BY <1>1, <1>4, <1>6, BusFrame DEF BeforeInv
<1>7. UpToDate(c) /\ Stays(c) /\ UpToDate(Manager)
  BY <1>2 DEF BusInv, BeforeInv
<1> HIDE DEF Stays
<1>8. CASE Watch(c) \/ ReceiveFirst(c) \/ Leave(c) \/ CloseOut(c) \/ Panic(c)
  <2>1. UNCHANGED <<subs, run, has, sending, stale>>
    BY <1>8 DEF Watch, ReceiveFirst, Leave, CloseOut, Panic, busVars
  <2>2. /\ Between(c)' => Between(c)
        /\ Before(c)' => Before(c)
        /\ goroutine'[c] # "off" => goroutine[c] # "off" \/ manager = "subscribed"
    BY <1>2, <1>8 DEF Watch, ReceiveFirst, Leave, CloseOut, Panic, Between, Before, WatchInv,
       WatchTypeOK
  <2>3. Subscribed(c)' = Subscribed(c)
    BY <2>1 DEF Subscribed
  <2>4. UpToDate(c)'
    BY <1>1, <1>5, <1>7, <2>1, <2>2, <2>3 DEF UpToDate
  <2>5. Stays(c)'
    BY <1>5, <1>7, <2>1, <2>2, <2>3 DEF Stays
  <2>6. ManagerInv'
    BY <1>1, <1>3, <2>1, <2>2 DEF BusInv, ManagerInv
  <2> QED
    BY <1>6, <2>4, <2>5, <2>6
<1>9. CASE GetConfig(c)
  <2>1. /\ UNCHANGED <<subs, run, sending, gone>> /\ has'[c] = has[Manager]
        /\ goroutine[c] = "get" /\ goroutine'[c] = "first"
        /\ ManagerLags => c \in stale'
    BY <1>2, <1>9 DEF GetConfig, busVars, WatchInv, WatchTypeOK
  <2>2. Before(c) /\ Before(c)' /\ Subscribed(c)' = Subscribed(c)
    BY <1>2, <2>1 DEF Before, Subscribed
  <2>3. manager = "subscribed" /\ Subscribed(Manager)
    BY <2>1 DEF BusInv, ManagerInv
  <2>4. ~ManagerLags => \/ \E i \in Callbacks : callback[i] = "publish"
                        \/ has[Manager] = kubeConfig
    BY <1>7, <2>3, TypeFacts DEF ManagerLags, UpToDate, Awaits, Calls
  <2>5. Stays(c)'
    BY <1>5, <1>7, <2>1, <2>2 DEF Stays
  <2>6. ~ManagerLags => Awaits(c) \/ has'[c] = kubeConfig
    BY <2>1, <2>4 DEF Awaits
  <2>7. UpToDate(c)'
    BY <1>1, <1>5, <1>7, <2>1, <2>2, <2>6 DEF UpToDate, Stays
  <2>8. ManagerInv'
    BY <1>1, <1>3, <2>1, <2>3 DEF BusInv, ManagerInv
  <2> QED
    BY <1>6, <2>5, <2>7, <2>8
<1>10. CASE Subscribe(c)
  <2>1. /\ UNCHANGED <<run, has, sending, stale, gone>>
        /\ goroutine[c] = "subscribe" /\ goroutine'[c] = "wait"
    BY <1>10 DEF Subscribe, WatchInv, WatchTypeOK
  <2>2. Between(c) /\ ~Before(c)'
    BY <1>2, <2>1 DEF Between, Before
  <2>3. UpToDate(c)' /\ Stays(c)'
    BY <1>1, <1>5, <1>7, <2>1, <2>2 DEF UpToDate, Stays
  <2>4. ManagerInv'
    BY <1>1, <1>3, <2>1 DEF BusInv, ManagerInv
  <2> QED
    BY <1>6, <2>3, <2>4
<1>11. CASE Unsubscribe(c)
  <2>1. /\ UNCHANGED <<run, has, sending, stale, gone>>
        /\ goroutine[c] = "unsubscribe" /\ goroutine'[c] = "end"
    BY <1>11 DEF Unsubscribe, WatchInv, WatchTypeOK
  <2>2. ~Between(c)' /\ ~Before(c)' /\ (Subscribed(c)' => Subscribed(c))
    BY <1>2, <1>3, <2>1 DEF Between, Before
  <2>3. UpToDate(c)' /\ Stays(c)'
    BY <1>1, <1>5, <1>7, <2>1, <2>2 DEF UpToDate, Stays
  <2>4. ManagerInv'
    BY <1>1, <1>3, <2>1 DEF BusInv, ManagerInv
  <2> QED
    BY <1>6, <2>3, <2>4
<1>12. CASE Handle(c) \/ Receive(c)
  <2>1. UNCHANGED <<subs, goroutine, gone, stale>> /\ run[c] # None
    BY <1>12 DEF Handle, Receive, BusInv, ManagerInv
  <2>2. \/ c \in gone /\ run'[c] = None /\ has' = has /\ sending' = sending /\ c \notin sending
        \/ run'[c] = None /\ has'[c] = run[c] /\ sending' = sending \ {c}
        \/ UNCHANGED <<run, has>> /\ sending' = sending \union {c}
    BY <1>2, <1>12 DEF Handle, Receive, WatchInv, WatchTypeOK
  <2>3. /\ Between(c)' = Between(c) /\ Subscribed(c)' = Subscribed(c) /\ Before(c)' = Before(c)
        /\ ~Before(c)
    BY <1>2, <1>7, <2>1 DEF Between, Subscribed, Before, Stays
  <2>4. UpToDate(c)' /\ Stays(c)'
    BY <1>1, <1>5, <1>7, <2>1, <2>2, <2>3 DEF UpToDate, Stays
  <2>5. \A d \in sending : d \in Subscribers
    BY TypeFacts DEF WatchInv, WatchTypeOK
  <2>6. ManagerInv'
    BY <1>1, <1>3, <2>1, <2>2, <2>5 DEF BusInv, ManagerInv
  <2> QED
    BY <1>6, <2>4, <2>6
<1> QED
  BY <1>8, <1>9, <1>10, <1>11, <1>12

LEMMA BusNext == WatchInv /\ BusInv /\ [Next]_vars => BusInv'
<1>1. ASSUME BusInv, UNCHANGED kubeVars PROVE BusInv'
  <2>1. \A s : /\ Subscribed(s)' = Subscribed(s) /\ Between(s)' = Between(s)
               /\ Before(s)' = Before(s) /\ Awaits(s)' = Awaits(s)
               /\ \A i \in Callbacks : Calls(i, s)' = Calls(i, s)
    BY <1>1 DEF Subscribed, Between, Before, Awaits, Calls, kubeVars, timerVars, busVars, clientVars
  <2> QED
    BY <1>1, <2>1 DEF BusInv, CallbackInv, BeforeInv, ManagerInv, UpToDate, kubeVars, fileVars,
       timerVars, busVars, clientVars
<1>2. ASSUME WatchInv, BusInv, WatchStep PROVE BusInv'
  BY <1>2, BusTimer, BusReload, BusPublish, BusCall, BusPublished, BusManager, BusClient
  DEF WatchStep
<1>3. ASSUME CacheStep PROVE UNCHANGED kubeVars
  BY <1>3 DEF CacheStep, CallStep, Lock, Compute, ComputeFails, Pass, Answer, Allowed, Denied, Cancel, Ask
<1> QED
  BY <1>1, <1>2, <1>3 DEF Next, vars

-----------------------------------------------------------------------------
(* The theorems.                                                           *)

\* What the manager has for a context is built on one REST config, and every
\* caller that got a value got that one, for any contexts, callers and changes
\* of the kubeconfig (syncgroup.go:36, connection-manager.go:276).
THEOREM ConnectionShared == Spec => []OneConnection
<1>1. IInv => OneConnection
  BY Implies
<1> QED
  BY <1>1, CacheInit, CacheNext, PTL DEF Spec

\* Everything stays in its type, and no more events are left to report than the
\* file had changes (kube-config-watcher.go:110).
THEOREM TypeCorrect == Spec => []TypeOK
<1>1. Init => WatchInv
  BY WatchStart DEF Init
<1>2. IInv /\ WatchInv => TypeOK
  BY DEF IInv, WatchInv, TypeOK
<1> QED
  BY <1>1, <1>2, WatchNext, CacheInit, CacheNext, PTL DEF Spec

\* When nothing is left to do the watcher has what is in the file, for any number
\* of changes, timers that overlap and reloads that fail, unless the file is not
\* watched any more or cannot be loaded (kube-config-watcher.go:125).
THEOREM WatcherHasFile == Spec => []WatcherCurrent
<1>1. Init => WatchInv
  BY WatchStart DEF Init
<1>2. WatchInv => WatcherCurrent
  BY DEF WatchInv, WatcherCurrent, Quiet
<1> QED
  BY <1>1, <1>2, WatchNext, PTL DEF Spec

\* When nothing is left to do a subscriber has the watcher's configuration, for
\* any number of publications that overlap, handlers that are slow and clients
\* whose handlers are taken for one another; those that missed the newest between
\* two steps of their own, or were handed an older one after it, are the only ones
\* left behind (connection-manager.go:116, schema.resolvers.go:957).
THEOREM SubscribersHaveConfig == Spec => []SubscribersCurrent
<1>1. Init => WatchInv /\ BusInv
  BY WatchStart, BusStart DEF Init
<1>2. WatchInv /\ BusInv => SubscribersCurrent
  <2> SUFFICES ASSUME WatchInv, BusInv, Quiet, NEW k \in 1..Len(subs),
                      subs[k] \notin gone \union stale
               PROVE  has[subs[k]] = kubeConfig
    BY DEF SubscribersCurrent
  <2>1. subs[k] \in Subscribers /\ Subscribed(subs[k])
    BY TypeFacts DEF Subscribed
  <2>2. \A i \in Callbacks : callback[i] # "publish" /\ to[i] = <<>>
    BY DEF Quiet, BusInv, CallbackInv
  <2>3. ~Awaits(subs[k])
    BY <2>2 DEF Awaits, Calls
  <2> QED
    BY <2>1, <2>3 DEF BusInv, UpToDate, Quiet
<1> QED
  BY <1>1, <1>2, WatchNext, BusNext, PTL DEF Spec

=============================================================================
