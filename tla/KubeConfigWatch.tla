--------------------------- MODULE KubeConfigWatch ---------------------------
(***************************************************************************)
(* The kubeconfig of the desktop dashboard: the watcher that reloads the   *)
(* file (kube-config-watcher.go), the connection manager that takes over   *)
(* what it publishes (connection-manager.go) and the subscriptions of the  *)
(* user interface to it (KubeConfigWatch in schema.resolvers.go).          *)
(*                                                                         *)
(* The file's content is abstracted to the number of changes made to it.   *)
(* fsnotify and the event bus are external: the first reports what happens *)
(* to the watched file, the second runs each handler once at a time, in a  *)
(* goroutine of its own, and waits for the handler's previous run.         *)
(***************************************************************************)
EXTENDS Integers, Sequences

CONSTANTS Clients,     \* the clients that may subscribe
          Manager,     \* the connection manager, as a subscriber
          Unreadable,  \* the contents that cannot be loaded
          MaxWrites,   \* bound on the changes of the file
          Scopes       \* bounds to consider: how many changes, which clients
                       \*   and which callers

ASSUME WatchAssumption ==
  /\ Manager \notin Clients
  /\ MaxWrites \in Nat
  /\ \A s \in Scopes : s.writes \in 0..MaxWrites /\ s.clients \subseteq Clients

Subscribers == Clients \union {Manager}
Callbacks == 1..MaxWrites
Empty == -1                 \* no configuration was loaded
None == -2
Configs == Empty..MaxWrites

VARIABLES scope,     \* the bounds of this behaviour
          file,      \* the content of the file
          watched,   \* whether fsnotify watches the file that has the name
          unseen,    \* a change was made to a file that is not watched
          events,    \* the events fsnotify has to report
          armed,     \* whether the debounce timer runs
          callback,  \* what each run of the timer's function is at
          kubeConfig,  \* w.kubeConfig
          subs,      \* the handlers of the bus, in the order of subscription
          arg, to,   \* what a callback publishes, and the handlers to call yet
          run,       \* what each handler runs with
          manager,   \* what NewDesktopConnectionManager is at
          goroutine, \* what the goroutine of each subscription is at
          has,       \* the configuration each subscriber has
          sending,   \* clients whose handler is at its send
          gone,      \* clients whose context is done
          closed,    \* clients whose channel is closed
          crashed,   \* whether a handler sent on a closed channel
          stale      \* subscribers that missed the newest configuration, or
                     \*   were handed an older one after it

fileVars == <<file, watched, unseen, events>>
timerVars == <<armed, callback, kubeConfig>>
busVars == <<subs, arg, to, run>>
clientVars == <<goroutine, sending, gone, closed, crashed>>
kubeVars == <<scope, fileVars, timerVars, busVars, manager, clientVars, has, stale>>

WatchTypeOK ==
  /\ scope \in Scopes
  /\ file \in 0..MaxWrites /\ watched \in BOOLEAN /\ unseen \in BOOLEAN
  /\ events \in 0..MaxWrites /\ armed \in BOOLEAN
  /\ callback \in [Callbacks -> {"idle", "reload", "publish", "call", "done"}]
  /\ kubeConfig \in Configs
  /\ subs \in Seq(Subscribers)
  /\ arg \in [Callbacks -> Configs \union {None}] /\ to \in [Callbacks -> Seq(Subscribers)]
  /\ run \in [Subscribers -> Configs \union {None}]
  /\ manager \in {"new", "got", "subscribed"}
  /\ goroutine \in [Clients -> {"off", "get", "first", "subscribe", "wait", "close",
                                "unsubscribe", "end"}]
  /\ has \in [Subscribers -> Configs \union {None}]
  /\ sending \subseteq Clients /\ gone \subseteq Clients /\ closed \subseteq Clients /\ crashed \in BOOLEAN
  /\ stale \subseteq Subscribers

Load(was) == IF file \in Unreadable THEN was ELSE file

\* NewKubeConfigWatcher loads the file; an error leaves it without one.
WatchInit ==
  /\ scope \in Scopes
  /\ file = 0 /\ watched = TRUE /\ unseen = FALSE /\ events = 0
  /\ armed = FALSE /\ callback = [i \in Callbacks |-> "idle"]
  /\ kubeConfig = Load(Empty)
  /\ subs = <<>> /\ arg = [i \in Callbacks |-> None] /\ to = [i \in Callbacks |-> <<>>]
  /\ run = [s \in Subscribers |-> None]
  /\ manager = "new" /\ has = [s \in Subscribers |-> None]
  /\ goroutine = [c \in Clients |-> "off"]
  /\ sending = {} /\ gone = {} /\ closed = {} /\ crashed = FALSE /\ stale = {}

-----------------------------------------------------------------------------
(* The file.                                                               *)

\* The file is written.
Write ==
  /\ file < scope.writes
  /\ file' = file + 1
  /\ events' = IF watched THEN events + 1 ELSE events
  /\ unseen' = (unseen \/ ~watched)
  /\ UNCHANGED <<scope, watched, timerVars, busVars, manager, clientVars, has, stale>>

\* Another file takes its name: fsnotify reports that the watched one is gone,
\* and does not watch the other.
Replace ==
  /\ file < scope.writes
  /\ file' = file + 1
  /\ events' = IF watched THEN events + 1 ELSE events
  /\ unseen' = (unseen \/ ~watched)
  /\ watched' = FALSE
  /\ UNCHANGED <<scope, timerVars, busVars, manager, clientVars, has, stale>>

-----------------------------------------------------------------------------
(* The watcher.                                                            *)

\* (fault: an event is dropped while the file is being reloaded)
Fire_Single(i) ==
  /\ armed /\ callback[i] = "idle" /\ \A j \in 1..i - 1 : callback[j] # "idle"
  /\ armed' = FALSE
  /\ callback' = [callback EXCEPT ![i] = IF \E j \in Callbacks : callback[j] \in {"publish", "call"}
                                         THEN "done" ELSE "reload"]
  /\ UNCHANGED <<scope, fileVars, kubeConfig, busVars, manager, clientVars, has, stale>>

\* start takes an event: it stops the timer and starts another.
HandleEvent ==
  /\ events > 0
  /\ events' = events - 1 /\ armed' = TRUE
  /\ UNCHANGED <<scope, file, watched, unseen, callback, kubeConfig, busVars, manager,
                 clientVars, has, stale>>

\* The timer fires: from now on it cannot be stopped.
Fire(i) ==
  /\ armed /\ callback[i] = "idle" /\ \A j \in 1..i - 1 : callback[j] # "idle"
  /\ armed' = FALSE
  /\ callback' = [callback EXCEPT ![i] = "reload"]
  /\ UNCHANGED <<scope, fileVars, kubeConfig, busVars, manager, clientVars, has, stale>>

\* reloadConfig: the file is read with w.mu held.
Reload(i) ==
  /\ callback[i] = "reload"
  /\ kubeConfig' = Load(kubeConfig)
  /\ callback' = [callback EXCEPT ![i] = IF file \in Unreadable THEN "done" ELSE "publish"]
  /\ UNCHANGED <<scope, fileVars, armed, busVars, manager, clientVars, has, stale>>

\* A subscriber that has its first configuration and is not subscribed yet.
Between(s) ==
  IF s = Manager THEN manager = "got" ELSE goroutine[s] \in {"first", "subscribe"}

\* The configuration, read without w.mu, goes to the handlers there are now.
Publish(i) ==
  /\ callback[i] = "publish"
  /\ callback' = [callback EXCEPT ![i] = "call"]
  /\ arg' = [arg EXCEPT ![i] = kubeConfig] /\ to' = [to EXCEPT ![i] = subs]
  /\ stale' = stale \union {s \in Subscribers : Between(s)}
  /\ UNCHANGED <<scope, fileVars, armed, kubeConfig, subs, run, manager, clientVars, has>>

\* A newer configuration has been given to handler s.
Overtaken(i, s) ==
  \E j \in Callbacks : arg[j] > arg[i] /\ \A k \in 1..Len(to[j]) : to[j][k] # s

\* (fault: a handler that is busy is passed over)
CallNext_Skips(i) ==
  /\ callback[i] = "call" /\ to[i] # <<>>
  /\ LET s == Head(to[i])
     IN /\ run' = IF run[s] = None THEN [run EXCEPT ![s] = arg[i]] ELSE run
        /\ stale' = IF Overtaken(i, s) THEN stale \union {s} ELSE stale \ {s}
  /\ to' = [to EXCEPT ![i] = Tail(to[i])]
  /\ UNCHANGED <<scope, fileVars, timerVars, subs, arg, manager, clientVars, has>>

\* It gives the next handler its goroutine, once the handler is free.
CallNext(i) ==
  /\ callback[i] = "call" /\ to[i] # <<>>
  /\ LET s == Head(to[i])
     IN /\ run[s] = None
        /\ run' = [run EXCEPT ![s] = arg[i]]
        /\ stale' = IF Overtaken(i, s) THEN stale \union {s} ELSE stale \ {s}
  /\ to' = [to EXCEPT ![i] = Tail(to[i])]
  /\ UNCHANGED <<scope, fileVars, timerVars, subs, arg, manager, clientVars, has>>

Published(i) ==
  /\ callback[i] = "call" /\ to[i] = <<>>
  /\ callback' = [callback EXCEPT ![i] = "done"]
  /\ UNCHANGED <<scope, fileVars, armed, kubeConfig, busVars, manager, clientVars, has, stale>>

-----------------------------------------------------------------------------
(* The connection manager.                                                 *)

\* NewDesktopConnectionManager takes the configuration, and subscribes later.
ManagerGet ==
  /\ manager = "new" /\ manager' = "got"
  /\ has' = [has EXCEPT ![Manager] = kubeConfig]
  /\ UNCHANGED <<scope, fileVars, timerVars, busVars, clientVars, stale>>

ManagerSubscribe ==
  /\ manager = "got" /\ manager' = "subscribed"
  /\ subs' = Append(subs, Manager)
  /\ UNCHANGED <<scope, fileVars, timerVars, arg, to, run, clientVars, has, stale>>

KubeConfigModified ==
  /\ run[Manager] # None
  /\ has' = [has EXCEPT ![Manager] = run[Manager]]
  /\ run' = [run EXCEPT ![Manager] = None]
  /\ UNCHANGED <<scope, fileVars, timerVars, subs, arg, to, manager, clientVars, stale>>

-----------------------------------------------------------------------------
(* The subscriptions.                                                      *)

clientRest == <<scope, fileVars, timerVars, manager>>

\* The manager has the newest configuration, or never will without another.
ManagerLags ==
  \/ Manager \in stale \/ run[Manager] # None
  \/ \E i \in Callbacks : \E k \in 1..Len(to[i]) : to[i][k] = Manager

\* A client subscribes: the goroutine takes the manager's configuration and
\* sends it, with no way out when the client goes.
Watch(c) ==
  /\ manager = "subscribed" /\ c \in scope.clients /\ goroutine[c] = "off"
  /\ goroutine' = [goroutine EXCEPT ![c] = "get"]
  /\ UNCHANGED <<clientRest, busVars, sending, gone, closed, crashed, has, stale>>

GetConfig(c) ==
  /\ goroutine[c] = "get"
  /\ goroutine' = [goroutine EXCEPT ![c] = "first"]
  /\ has' = [has EXCEPT ![c] = has[Manager]]
  /\ stale' = IF ManagerLags THEN stale \union {c} ELSE stale
  /\ UNCHANGED <<clientRest, busVars, sending, gone, closed, crashed>>

ReceiveFirst(c) ==
  /\ goroutine[c] = "first"
  /\ goroutine' = [goroutine EXCEPT ![c] = "subscribe"]
  /\ UNCHANGED <<clientRest, busVars, sending, gone, closed, crashed, has, stale>>

Subscribe(c) ==
  /\ goroutine[c] = "subscribe"
  /\ goroutine' = [goroutine EXCEPT ![c] = "wait"]
  /\ subs' = Append(subs, c)
  /\ UNCHANGED <<clientRest, arg, to, run, sending, gone, closed, crashed, has, stale>>

Leave(c) ==
  /\ goroutine[c] \notin {"off", "close", "unsubscribe", "end"} /\ c \notin gone
  /\ gone' = gone \union {c}
  /\ UNCHANGED <<clientRest, busVars, goroutine, sending, closed, crashed, has, stale>>

\* The context is done: the channel is closed, then the handler unsubscribed.
CloseOut(c) ==
  /\ goroutine[c] = "wait" /\ c \in gone
  /\ goroutine' = [goroutine EXCEPT ![c] = "unsubscribe"]
  /\ closed' = closed \union {c}
  /\ UNCHANGED <<clientRest, busVars, sending, gone, crashed, has, stale>>

\* The bus looks a handler up by its code, which all clients share.
FirstClient == {k \in 1..Len(subs) : subs[k] # Manager /\ \A j \in 1..k - 1 : subs[j] = Manager}

Unsubscribe(c) ==
  /\ goroutine[c] = "unsubscribe"
  /\ goroutine' = [goroutine EXCEPT ![c] = "end"]
  /\ IF FirstClient = {} THEN UNCHANGED subs
     ELSE \E k \in FirstClient : subs' = SubSeq(subs, 1, k - 1) \o SubSeq(subs, k + 1, Len(subs))
  /\ UNCHANGED <<clientRest, arg, to, run, sending, gone, closed, crashed, has, stale>>

\* The handler runs: a client that has gone gets nothing.
Handle(c) ==
  /\ run[c] # None /\ c \notin sending
  /\ IF c \in gone
     THEN run' = [run EXCEPT ![c] = None] /\ UNCHANGED sending
     ELSE sending' = sending \union {c} /\ UNCHANGED run
  /\ UNCHANGED <<clientRest, subs, arg, to, goroutine, gone, closed, crashed, has, stale>>

\* The client may still receive when it has gone, but need not.
Receive(c) ==
  /\ c \in sending /\ c \notin closed
  /\ has' = [has EXCEPT ![c] = run[c]]
  /\ run' = [run EXCEPT ![c] = None] /\ sending' = sending \ {c}
  /\ UNCHANGED <<clientRest, subs, arg, to, goroutine, gone, closed, crashed, stale>>

\* A send on a closed channel ends the program.
Panic(c) ==
  /\ c \in sending /\ c \in closed
  /\ crashed' = TRUE
  /\ UNCHANGED <<clientRest, busVars, goroutine, sending, gone, closed, has, stale>>

-----------------------------------------------------------------------------

WatchStep ==
  \/ Write \/ Replace \/ HandleEvent
  \/ \E i \in Callbacks : Fire(i) \/ Reload(i) \/ Publish(i) \/ CallNext(i) \/ Published(i)
  \/ ManagerGet \/ ManagerSubscribe \/ KubeConfigModified
  \/ \E c \in Clients :
       \/ Watch(c) \/ GetConfig(c) \/ ReceiveFirst(c) \/ Subscribe(c) \/ Leave(c)
       \/ CloseOut(c) \/ Unsubscribe(c) \/ Handle(c) \/ Receive(c) \/ Panic(c)

-----------------------------------------------------------------------------
(* Properties.                                                             *)

\* No event, timer or callback is left, and no handler runs.
Quiet ==
  /\ events = 0 /\ ~armed /\ \A i \in Callbacks : callback[i] \in {"idle", "done"}
  /\ \A s \in Subscribers : run[s] = None

\* Once it is quiet the watcher has what is in the file, however the timer's
\* functions overlapped: a timer that has fired cannot be stopped
\* (kube-config-watcher.go:125).  Unless the file cannot be loaded, or changed
\* after another one took its name.
WatcherCurrent ==
  Quiet /\ ~unseen /\ file \notin Unreadable => kubeConfig = file

\* A subscriber of the bus has the watcher's configuration once it is quiet,
\* unless a change came between its first configuration and its subscription,
\* or an older one was handed to it after a newer: there is no other way to be
\* left behind (connection-manager.go:116, schema.resolvers.go:957).
SubscribersCurrent ==
  Quiet => \A k \in 1..Len(subs) :
    subs[k] \in gone \union stale \/ has[subs[k]] = kubeConfig

=============================================================================
