----------------------------- MODULE Connections -----------------------------
(***************************************************************************)
(* The caches of the desktop dashboard's connection manager                *)
(* (connection-manager.go) on top of the kubeconfig it is given: for each  *)
(* context a REST config, made from the configuration the manager has when *)
(* it is asked first, and what is built on it: a clientset, a dynamic      *)
(* client, an informer factory, and the knowledge that the API answered.   *)
(* Each is a SyncGroup (syncgroup.go): a lock for each key, held while the *)
(* value is computed, which takes the lock of what it is built on.         *)
(***************************************************************************)
EXTENDS KubeConfigWatch

CONSTANTS Contexts,      \* the contexts asked for
          Callers,       \* the goroutines that ask
          ContextsOf     \* the contexts of each content of the file

Free == "free"

ASSUME ConnectionsAssumption ==
  /\ Free \notin Callers
  /\ ContextsOf \in [Configs -> SUBSET Contexts]
  /\ ContextsOf[Empty] = {}
  /\ \A s \in Scopes : s.callers \subseteq Callers

Layers == {"rest", "client", "dynamic", "factory", "ready"}

\* What a layer is built on.
Below(l) == IF l \in {"factory", "ready"} THEN "client" ELSE "rest"

VARIABLES cache,    \* the value of each key, a number; 0 without one
          base,     \* what it was built on
          lock,     \* the holder of the key's lock
          made,     \* how many values were made
          kind,     \* what each caller asks for
          want,     \* the key it asks for
          at,       \* whether its goroutine goes down to what the value is built
                    \*   on, computes, comes up with a result, or has ended
          top,      \* the layer it is at
          got,      \* the result of that layer, 0 for an error
          answer    \* what the caller was told

keyVars == <<cache, base, lock, made>>
callVars == <<kind, want, at, top, got, answer>>
cacheVars == <<keyVars, callVars>>
vars == <<kubeVars, cacheVars>>

Keys == Layers \X Contexts
Kinds == {"rest", "client", "dynamic", "informer", "ready"}
NoKey == <<"none", "none">>

\* The key caller p is at.
Key(p) == <<top[p], want[p][2]>>

\* The layer for which p needs its layer.
Above(p) ==
  IF top[p] = "rest" /\ want[p][1] # "dynamic" THEN "client" ELSE want[p][1]

CacheTypeOK ==
  /\ cache \in [Keys -> Nat] /\ base \in [Keys -> Nat] /\ made \in Nat
  /\ lock \in [Keys -> Callers \union {Free}]
  /\ kind \in [Callers -> Kinds \union {"none"}]
  /\ want \in [Callers -> Keys \union {NoKey}]
  /\ at \in [Callers -> {"off", "down", "compute", "up", "check", "end"}]
  /\ top \in [Callers -> Layers \union {"none"}]
  /\ got \in [Callers -> Nat]
  /\ answer \in [Callers -> {"none", "ok", "error"}]

TypeOK == WatchTypeOK /\ CacheTypeOK

Init ==
  /\ WatchInit
  /\ cache = [k \in Keys |-> 0] /\ base = [k \in Keys |-> 0]
  /\ lock = [k \in Keys |-> Free] /\ made = 0
  /\ kind = [p \in Callers |-> "none"] /\ want = [p \in Callers |-> NoKey]
  /\ at = [p \in Callers |-> "off"] /\ top = [p \in Callers |-> "none"]
  /\ got = [p \in Callers |-> 0] /\ answer = [p \in Callers |-> "none"]

-----------------------------------------------------------------------------
(* LoadOrCompute.                                                          *)

Goes(p, where, layer, value) ==
  /\ at' = [at EXCEPT ![p] = where]
  /\ top' = [top EXCEPT ![p] = layer]
  /\ got' = [got EXCEPT ![p] = value]

\* (fault: it does not wait for the lock)
Lock_Any(p) ==
  /\ at[p] = "down"
  /\ IF cache[Key(p)] # 0
     THEN Goes(p, "up", top[p], cache[Key(p)]) /\ UNCHANGED lock
     ELSE /\ lock' = [lock EXCEPT ![Key(p)] = p]
          /\ IF top[p] = "rest" THEN Goes(p, "compute", "rest", 0)
                               ELSE Goes(p, "down", Below(top[p]), 0)
  /\ UNCHANGED <<kubeVars, cache, base, made, kind, want, answer>>

\* The lock is taken; a value that is there ends the call, a rest config can be
\* computed, and everything else asks for what it is built on.
Lock(p) ==
  /\ at[p] = "down" /\ lock[Key(p)] = Free
  /\ IF cache[Key(p)] # 0
     THEN Goes(p, "up", top[p], cache[Key(p)]) /\ UNCHANGED lock
     ELSE /\ lock' = [lock EXCEPT ![Key(p)] = p]
          /\ IF top[p] = "rest" THEN Goes(p, "compute", "rest", 0)
                               ELSE Goes(p, "down", Below(top[p]), 0)
  /\ UNCHANGED <<kubeVars, cache, base, made, kind, want, answer>>

\* A context the configuration does not have has no rest config.
Computable(p) == top[p] = "rest" => want[p][2] \in ContextsOf[has[Manager]]

Compute(p) ==
  /\ at[p] = "compute" /\ Computable(p)
  /\ made' = made + 1
  /\ cache' = [cache EXCEPT ![Key(p)] = made + 1]
  /\ base' = [base EXCEPT ![Key(p)] = got[p]]
  /\ lock' = [lock EXCEPT ![Key(p)] = Free]
  /\ Goes(p, "up", top[p], made + 1)
  /\ UNCHANGED <<kubeVars, kind, want, answer>>

\* (fault: an error leaves the lock taken)
ComputeFails_Keeps(p) ==
  /\ at[p] = "compute"
  /\ Goes(p, "up", top[p], 0)
  /\ UNCHANGED <<kubeVars, keyVars, kind, want, answer>>

\* A value that cannot be computed is not kept.
ComputeFails(p) ==
  /\ at[p] = "compute"
  /\ lock' = [lock EXCEPT ![Key(p)] = Free]
  /\ Goes(p, "up", top[p], 0)
  /\ UNCHANGED <<kubeVars, cache, base, made, kind, want, answer>>

\* The result goes to the computation that asked for it; an error ends it.
Pass(p) ==
  /\ at[p] = "up" /\ top[p] # want[p][1]
  /\ IF got[p] # 0
     THEN Goes(p, "compute", Above(p), got[p]) /\ UNCHANGED lock
     ELSE /\ Goes(p, "up", Above(p), 0)
          /\ lock' = [lock EXCEPT ![<<Above(p), want[p][2]>>] = Free]
  /\ UNCHANGED <<kubeVars, cache, base, made, kind, want, answer>>

-----------------------------------------------------------------------------
(* The callers.                                                            *)

\* A caller asks.  warmUpCache asks for the contexts of the configuration even
\* before the manager has subscribed; NewInformer asks for a clientset first.
Ask(p, what, context) ==
  /\ p \in scope.callers /\ at[p] = "off"
  /\ \/ manager = "subscribed"
     \/ manager = "got" /\ what = "ready" /\ context \in ContextsOf[has[Manager]]
  /\ LET layer == IF what = "informer" THEN "client" ELSE what
     IN /\ want' = [want EXCEPT ![p] = <<layer, context>>]
        /\ Goes(p, "down", layer, 0)
  /\ kind' = [kind EXCEPT ![p] = what]
  /\ UNCHANGED <<kubeVars, keyVars, answer>>

\* The call is over.  A caller that did not wait for it has its answer already.
Answer(p) ==
  /\ at[p] = "up" /\ top[p] = want[p][1]
  /\ IF kind[p] = "informer" /\ want[p][1] = "client" /\ got[p] # 0
     THEN at' = [at EXCEPT ![p] = "check"] /\ UNCHANGED answer
     ELSE /\ at' = [at EXCEPT ![p] = "end"]
          /\ answer' = IF answer[p] # "none" THEN answer
                       ELSE [answer EXCEPT ![p] = IF got[p] = 0 THEN "error" ELSE "ok"]
  /\ UNCHANGED <<kubeVars, keyVars, kind, want, top, got>>

\* NewInformer: the permission is checked, and the factory asked for.
Allowed(p) ==
  /\ at[p] = "check"
  /\ want' = [want EXCEPT ![p] = <<"factory", want[p][2]>>]
  /\ Goes(p, "down", "factory", 0)
  /\ UNCHANGED <<kubeVars, keyVars, kind, answer>>

Denied(p) ==
  /\ at[p] = "check"
  /\ at' = [at EXCEPT ![p] = "end"] /\ answer' = [answer EXCEPT ![p] = "error"]
  /\ UNCHANGED <<kubeVars, keyVars, kind, want, top, got>>

\* WaitUntilReady returns when its context is done; its goroutine goes on.
Cancel(p) ==
  /\ kind[p] = "ready" /\ answer[p] = "none"
  /\ answer' = [answer EXCEPT ![p] = "error"]
  /\ UNCHANGED <<kubeVars, keyVars, kind, want, at, top, got>>

-----------------------------------------------------------------------------

CallStep(p) ==
  \/ Lock(p) \/ Compute(p) \/ ComputeFails(p) \/ Pass(p) \/ Answer(p)
  \/ Allowed(p) \/ Denied(p)

CacheStep ==
  \/ \E p \in Callers : CallStep(p) \/ Cancel(p)
  \/ \E p \in Callers, k \in Contexts, what \in Kinds : Ask(p, what, k)

Next ==
  /\ ~crashed
  /\ (WatchStep /\ UNCHANGED cacheVars) \/ CacheStep

\* Goroutines run and the API answers.
Fairness == \A p \in Callers : WF_vars(~crashed /\ CallStep(p))

Spec == Init /\ [][Next]_vars /\ Fairness

-----------------------------------------------------------------------------
(* Properties.                                                             *)

\* All that is made for a context is built on one connection, and whoever asks
\* gets the same, however many ask at once and whichever attempts failed before
\* (syncgroup.go:36, connection-manager.go:276).
OneConnection ==
  /\ \A l \in Layers \ {"rest"}, k \in Contexts : cache[<<l, k>>] # 0 =>
       cache[<<Below(l), k>>] # 0 /\ base[<<l, k>>] = cache[<<Below(l), k>>]
  /\ \A p \in Callers : at[p] \in {"up", "end"} /\ got[p] # 0 => got[p] = cache[Key(p)]

\* Every call comes to its end: the locks of a context's values are taken in one
\* order, and released by errors too (syncgroup.go:38).
CallsReturn == \A p \in Callers : at[p] = "down" ~> at[p] = "end" \/ crashed

=============================================================================
