-------------------------------- MODULE Stream --------------------------------
(***************************************************************************)
(* A log stream (modules/shared/logs/stream.go): Start, the past phase,    *)
(* the followers that tail the logs of the sources, the forwarder that     *)
(* joins the two into the output channel, the closer of the future         *)
(* channel, the handlers of the source watcher's events, and Close.        *)
(*                                                                         *)
(* The containers write their logs meanwhile: log[s] holds the timestamps  *)
(* of what s wrote, and a record is its source and its place in that log.  *)
(* The past phase is PastFetch seen from outside: it delivers, in order,   *)
(* what the logs held when their ends were read.  All channels are         *)
(* unbuffered: a send and the matching receive are one step.               *)
(***************************************************************************)
EXTENDS Integers, Sequences, FiniteSets

CONSTANTS Sources,    \* the containers known when the stream starts
          Late,       \* containers the source watcher reports later
          Options,    \* what NewStream may be asked for: records of mode,
                      \*   "head" | "tail" | "all", and follow
          MaxNum,     \* the limit of head and tail
          Fetcher,    \* "kube" | "agent"
          MaxAdds,    \* bound: ADDED events handled per source
          MaxWrites,  \* bound: records written by all containers
          Events      \* what may happen to the stream:
                      \*   "pastErr", "futErr": a read of a log fails
                      \*   "openErr": a log cannot be opened
                      \*   "exit":    a container ends
                      \*   "delete":  the source watcher reports a source gone
                      \*   "ctx":     the context given to NewStream ends
                      \*   "leave":   the caller closes before the end
                      \*   "ties":    two records with one timestamp

ASSUME StreamAssumption ==
  /\ Options \subseteq [mode : {"head", "tail", "all"}, follow : BOOLEAN]
  /\ \A o \in Options : o.follow => o.mode # "head"   \* NewStream refuses it
  /\ Fetcher \in {"kube", "agent"}
  /\ MaxNum \in Nat /\ MaxAdds \in Nat /\ MaxWrites \in Nat
  /\ Sources \cap Late = {}

All == Sources \cup Late

\* Follower <<s, 0>> is opened at the end of the log by startFollow_UNSAFE,
\* <<s, k>> at its beginning by the k-th handleSourceAdd for s.
Followers == All \X (0..MaxAdds)

NoPos == -1

VARIABLES
  options,  \* s.mode and s.follow
  log,      \* log[s]: the timestamps of the records s wrote
  clock,    \* the last timestamp written
  exited,   \* containers that write no more
  phase,    \* of Start: "new", "past", "running", "failed"
  sources,  \* s.sources
  pastPc,   \* the past goroutine: "off", "collect", "merge", "closed"
  pastPos,  \* pastPos[s]: records of log[s] it is past
  pastEnd,  \* pastEnd[s]: the end of log[s] it read, NoPos if not yet
  pastCount,\* records it delivered
  futPc,    \* each follower: "off", "opened", "recv", "send", "errset", "done",
            \*   "panic" for a send on a closed channel
  futPos,   \* futPos[f]: the last record it read
  futFrom,  \* futFrom[f]: where it began, NoPos if there was no log
  fwd,      \* the forwarder: "off", "select", "drain", "buffer", "range",
            \*   "send", "done", "panic"
  back,     \* where the forwarder goes on after its send
  cur,      \* the record it is sending
  buffer,   \* future records kept while the past phase runs
  lastTS,   \* lastTSMap, 0 for no entry
  out,      \* the records the caller received
  outClosed, futClosed, rootDone, err,
  closing   \* Close: "no", "cancelled", "closed"

Mode   == options.mode
Follow == options.follow

startVars == <<phase, sources>>
pastVars  == <<pastPc, pastPos, pastEnd, pastCount>>
futVars   == <<futPc, futPos, futFrom>>
fwdVars   == <<fwd, back, cur, buffer, lastTS, out, outClosed>>
envVars   == <<options, log, clock, exited>>
ctlVars   == <<futClosed, rootDone, err, closing>>
vars == <<envVars, startVars, pastVars, futVars, fwdVars, ctlVars>>

\* A record, and who read it: the past phase or a follower.
Past == -1
Record == [src : All, pos : Nat \ {0}, via : {Past} \cup (0..MaxAdds)]
TS(r)  == log[r.src][r.pos]
Rec(s, p, v) == [src |-> s, pos |-> p, via |-> v]

Written == UNION {{s} \X (1..Len(log[s])) : s \in All}

\* Nobody holds s.mu: Start holds it from the past phase on, a handler from
\* the opening of a log to the start of its follower.
MuFree == phase # "past" /\ \A f \in Followers : futPc[f] # "opened"

Init ==
  /\ options \in Options
  /\ log = [s \in All |-> <<>>] /\ clock = 0 /\ exited = {}
  /\ phase = "new" /\ sources = {}
  /\ pastPc = "off" /\ pastCount = 0
  /\ pastPos = [s \in Sources |-> 0] /\ pastEnd = [s \in Sources |-> NoPos]
  /\ futPc = [f \in Followers |-> "off"] /\ futPos = [f \in Followers |-> 0]
  /\ futFrom = [f \in Followers |-> NoPos]
  /\ fwd = "off" /\ back = "select" /\ buffer = {}
  /\ cur = [src |-> CHOOSE s \in All : TRUE, pos |-> 1, via |-> Past] \* none yet
  /\ lastTS = [s \in All |-> 0] /\ out = <<>>
  /\ outClosed = FALSE /\ futClosed = FALSE /\ rootDone = FALSE /\ err = FALSE
  /\ closing = "no"

-----------------------------------------------------------------------------
(* The containers.                                                         *)

\* A container writes a record; timestamps never go back.
Write(s) ==
  /\ s \notin exited /\ Cardinality(Written) < MaxWrites
  /\ clock' \in {clock + 1} \cup (IF "ties" \in Events THEN {clock} \ {0} ELSE {})
  /\ log' = [log EXCEPT ![s] = Append(@, clock')]
  /\ UNCHANGED <<options, exited, startVars, pastVars, futVars, fwdVars, ctlVars>>

Exit(s) ==
  /\ "exit" \in Events /\ s \notin exited
  /\ exited' = exited \cup {s}
  /\ UNCHANGED <<options, log, clock, startVars, pastVars, futVars, fwdVars, ctlVars>>

-----------------------------------------------------------------------------
(* Start.                                                                  *)

\* The sources are copied from the watcher and the past goroutine starts;
\* s.mu is held from here to the end of Start.
StartPast ==
  /\ phase = "new"
  /\ sources' = Sources
  /\ \/ phase' = "past" /\ pastPc' = "collect"
     \/ "openErr" \in Events /\ phase' = "failed" /\ UNCHANGED pastPc
  /\ UNCHANGED <<envVars, pastPos, pastEnd, pastCount, futVars, fwdVars, ctlVars>>

\* A follower is opened at the end of the log.  A pod that is gone gives a
\* closed stream, another failure makes Start return.
OpenFollow(s) ==
  LET f == <<s, 0>> IN
  /\ phase = "past" /\ Follow /\ futPc[f] = "off"
  /\ \/ /\ futPc' = [futPc EXCEPT ![f] = "recv"]
        /\ futPos' = [futPos EXCEPT ![f] = Len(log[s])]
        /\ futFrom' = [futFrom EXCEPT ![f] = Len(log[s])]
        /\ UNCHANGED phase
     \/ /\ s \in exited
        /\ futPc' = [futPc EXCEPT ![f] = "done"]
        /\ UNCHANGED <<futPos, futFrom, phase>>
     \/ /\ "openErr" \in Events
        /\ phase' = "failed"
        /\ UNCHANGED futVars
  /\ UNCHANGED <<envVars, sources, pastVars, fwdVars, ctlVars>>

\* Start returns: the closer and the forwarder run.
StartDone ==
  /\ phase = "past"
  /\ Follow => \A s \in Sources : futPc[<<s, 0>>] # "off"
  /\ phase' = "running" /\ fwd' = "select"
  /\ UNCHANGED <<envVars, sources, pastVars, futVars, back, cur, buffer, lastTS,
                 out, outClosed, ctlVars>>

-----------------------------------------------------------------------------
(* The past phase.                                                         *)

\* The end of the log of s is read.  In mode tail every end is read before
\* the first record is delivered.
PastEOF(s) ==
  /\ pastPc \in {"collect", "merge"} /\ pastEnd[s] = NoPos
  /\ pastEnd' = [pastEnd EXCEPT ![s] = Len(log[s])]
  /\ UNCHANGED <<envVars, startVars, pastPc, pastPos, pastCount, futVars, fwdVars, ctlVars>>

PastLast(s) == IF pastEnd[s] = NoPos THEN Len(log[s]) ELSE pastEnd[s]

\* The records past position p[s] of every source s are the n newest ones.
IsTail(p, n) ==
  LET kept == {r \in Sources \X (1..MaxWrites) :
                 p[r[1]] < r[2] /\ r[2] <= pastEnd[r[1]]}
      left == {r \in Sources \X (1..MaxWrites) : r[2] <= p[r[1]]}
  IN  /\ Cardinality(kept) <= n
      /\ left # {} => Cardinality(kept) = n
      /\ \A r \in kept, q \in left : log[q[1]][q[2]] <= log[r[1]][r[2]]

\* Modes head and all deliver from the beginning of the logs, mode tail the
\* MaxNum newest records (one if MaxNum is 0).
PastCollect ==
  /\ pastPc = "collect"
  /\ IF Mode = "tail"
       THEN /\ \A s \in Sources : pastEnd[s] # NoPos
            /\ pastPos' \in {p \in [Sources -> 0..MaxWrites] :
                               /\ \A s \in Sources : p[s] <= pastEnd[s]
                               /\ IsTail(p, IF MaxNum = 0 THEN 1 ELSE MaxNum)}
       ELSE UNCHANGED pastPos
  /\ pastPc' = "merge"
  /\ UNCHANGED <<envVars, startVars, pastEnd, pastCount, futVars, fwdVars, ctlVars>>

\* The earliest next record goes to the forwarder, once every log offers one
\* or is at its end.
PastSend ==
  /\ pastPc = "merge" /\ fwd = "select" /\ ~rootDone
  /\ \A s \in Sources : pastPos[s] < PastLast(s) \/ pastEnd[s] # NoPos
  /\ \E s \in Sources :
       /\ pastPos[s] < PastLast(s)
       /\ \A t \in Sources : pastPos[t] < PastLast(t) =>
            log[s][pastPos[s] + 1] <= log[t][pastPos[t] + 1]
       /\ pastPos' = [pastPos EXCEPT ![s] = @ + 1]
       /\ cur' = Rec(s, pastPos[s] + 1, Past)
       /\ lastTS' = [lastTS EXCEPT ![s] = log[s][pastPos[s] + 1]]
  /\ pastCount' = pastCount + 1
  /\ pastPc' = IF Mode = "head" /\ pastCount + 1 >= MaxNum THEN "closed" ELSE pastPc
  /\ fwd' = "send" /\ back' = "select"
  /\ UNCHANGED <<envVars, startVars, pastEnd, futVars, buffer, out, outClosed, ctlVars>>

\* Nothing is left, or rootCtx is done: pastCh is closed.
PastClose ==
  /\ pastPc \in {"collect", "merge"}
  /\ \/ rootDone
     \/ pastPc = "merge" /\ \A s \in Sources : pastEnd[s] # NoPos /\ pastPos[s] = pastEnd[s]
  /\ pastPc' = "closed"
  /\ UNCHANGED <<envVars, startVars, pastPos, pastEnd, pastCount, futVars, fwdVars, ctlVars>>

\* A read fails: the error is kept, which takes s.mu, and pastCh is closed.
\* The followers and the forwarder go on.
PastErr ==
  /\ "pastErr" \in Events /\ pastPc \in {"collect", "merge"} /\ MuFree
  /\ (Mode = "tail") => pastPc = "collect"
  /\ err' = TRUE /\ pastPc' = "closed"
  /\ UNCHANGED <<envVars, startVars, pastPos, pastEnd, pastCount, futVars, fwdVars,
                 futClosed, rootDone, closing>>

-----------------------------------------------------------------------------
(* The followers and the handlers of the source watcher's events.          *)

futRest == <<envVars, startVars, pastVars, futFrom, fwdVars>>

\* An operator with an underscore in its name is a faulty form of the
\* definition it is named after: the properties are seen to fail when it takes
\* that definition's place.

\* (fault: it reads on where nothing was written yet)
FutRecv_Ahead(f) ==
  /\ futPc[f] = "recv"
  /\ rootDone => Fetcher = "agent"
  /\ futPos' = [futPos EXCEPT ![f] = @ + 1]
  /\ futPc' = [futPc EXCEPT ![f] = "send"]
  /\ UNCHANGED <<futRest, ctlVars>>

\* A follower goroutine receives the next record of its fetcher.  When both
\* sides of a channel look at the context, nothing passes once it is done:
\* neither waits any more.  The agent fetcher sends without looking.
FutRecv(f) ==
  /\ futPc[f] = "recv" /\ futPos[f] < Len(log[f[1]])
  /\ rootDone => Fetcher = "agent"
  /\ futPos' = [futPos EXCEPT ![f] = @ + 1]
  /\ futPc' = [futPc EXCEPT ![f] = "send"]
  /\ UNCHANGED <<futRest, ctlVars>>

\* (fault: the container ended, the rest of its log is not read)
FutEOF_Early(f) ==
  /\ futPc[f] = "recv" /\ f[1] \in exited
  /\ futPc' = [futPc EXCEPT ![f] = "done"]
  /\ UNCHANGED <<futRest, futPos, ctlVars>>

\* The log of an ended container was read to its end.
FutEOF(f) ==
  /\ futPc[f] = "recv" /\ f[1] \in exited /\ futPos[f] = Len(log[f[1]])
  /\ futPc' = [futPc EXCEPT ![f] = "done"]
  /\ UNCHANGED <<futRest, futPos, ctlVars>>

\* (fault: the context is not looked at while the follower sends)
FutCancel_Recv(f) ==
  /\ rootDone \/ phase = "failed"
  /\ futPc[f] = "recv"
  /\ futPc' = [futPc EXCEPT ![f] = "done"]
  /\ UNCHANGED <<futRest, futPos, ctlVars>>

\* select with the context, at its receive and at its send.  A Start that
\* cannot open every log cancels the context of the followers it has.
FutCancel(f) ==
  /\ rootDone \/ phase = "failed"
  /\ futPc[f] \in {"recv", "send"}
  /\ futPc' = [futPc EXCEPT ![f] = "done"]
  /\ UNCHANGED <<futRest, futPos, ctlVars>>

\* (faults: the error is not kept; it closes the output channel at once)
FutErr_Mute(f) ==
  /\ "futErr" \in Events /\ futPc[f] = "recv" /\ MuFree
  /\ futPc' = [futPc EXCEPT ![f] = "errset"]
  /\ UNCHANGED <<futRest, futPos, ctlVars>>

FutErr_Closes(f) ==
  /\ "futErr" \in Events /\ futPc[f] = "recv" /\ MuFree
  /\ futPc' = [futPc EXCEPT ![f] = "errset"] /\ err' = TRUE /\ outClosed' = TRUE
  /\ UNCHANGED <<envVars, startVars, pastVars, futFrom, fwd, back, cur, buffer,
                 lastTS, out, futPos, futClosed, rootDone, closing>>

\* A read fails: the error is set under s.mu, then the stream is cancelled.
FutErr(f) ==
  /\ "futErr" \in Events /\ futPc[f] = "recv" /\ MuFree
  /\ futPc' = [futPc EXCEPT ![f] = "errset"] /\ err' = TRUE
  /\ UNCHANGED <<futRest, futPos, futClosed, rootDone, closing>>

FutCancelRoot(f) ==
  /\ futPc[f] = "errset"
  /\ futPc' = [futPc EXCEPT ![f] = "done"] /\ rootDone' = TRUE
  /\ UNCHANGED <<futRest, futPos, futClosed, err, closing>>

\* A follower that sends after the closer closed the future channel.  The
\* panic ends the program; here it ends the goroutine that raised it only,
\* which takes no behaviour away.
FutPanic(f) ==
  /\ futPc[f] = "send" /\ futClosed
  /\ futPc' = [futPc EXCEPT ![f] = "panic"]
  /\ UNCHANGED <<futRest, futPos, ctlVars>>

\* A record of a follower that waits at its send, received by the forwarder.
FutRecord(f) == Rec(f[1], futPos[f], f[2])
FutSent(f)   == /\ futPc[f] = "send" /\ ~futClosed
                /\ futPc' = [futPc EXCEPT ![f] = "recv"]
                /\ UNCHANGED <<futPos, futFrom>>

\* handleSourceAdd, up to the opened log.  With rootCtx done the request
\* fails at once for a Kubernetes fetcher.  Its failure does not cancel the
\* stream.
HandleAdd(s) ==
  /\ phase = "running" /\ MuFree /\ s \notin sources
  /\ \E k \in 1..MaxAdds :
       /\ \A j \in 1..MaxAdds : futPc[<<s, j>>] = "off" <=> j >= k
       /\ \/ /\ Fetcher = "kube" => ~rootDone
             /\ futPc' = [futPc EXCEPT ![<<s, k>>] = "opened"]
             /\ UNCHANGED err
          \/ /\ rootDone \/ "openErr" \in Events
             /\ err' = TRUE
             /\ UNCHANGED futPc
  /\ UNCHANGED <<futRest, futPos, futClosed, rootDone, closing>>

\* ... and its end: futureWG is incremented, the follower runs.
HandleAddDone(f) ==
  /\ futPc[f] = "opened"
  /\ futPc' = [futPc EXCEPT ![f] = "recv"]
  /\ futFrom' = [futFrom EXCEPT ![f] = 0]
  /\ sources' = sources \cup {f[1]}
  /\ UNCHANGED <<envVars, phase, pastVars, futPos, fwdVars, ctlVars>>

\* handleSourceDelete: the follower of s goes on.
HandleDelete(s) ==
  /\ "delete" \in Events /\ phase = "running" /\ MuFree /\ s \in sources
  /\ sources' = sources \ {s}
  /\ UNCHANGED <<envVars, phase, pastVars, futVars, fwdVars, ctlVars>>

-----------------------------------------------------------------------------
(* The forwarder.                                                          *)

fwdRest == <<envVars, startVars, pastVars, ctlVars>>

\* (fault: a future record passes while the past phase runs)
FwdBuffer_Through(f) ==
  /\ fwd \in {"select", "drain"} /\ FutSent(f) /\ ~rootDone
  /\ cur' = FutRecord(f) /\ fwd' = "send" /\ back' = fwd
  /\ UNCHANGED <<fwdRest, buffer, lastTS, out, outClosed>>

\* First loop and drain: a future record is kept.
FwdBuffer(f) ==
  /\ fwd \in {"select", "drain"} /\ FutSent(f) /\ ~rootDone
  /\ buffer' = buffer \cup {FutRecord(f)}
  /\ UNCHANGED <<fwdRest, fwd, back, cur, lastTS, out, outClosed>>

\* pastCh is closed: the first loop ends.
FwdPastClosed ==
  /\ fwd = "select" /\ pastPc = "closed"
  /\ fwd' = "drain"
  /\ UNCHANGED <<fwdRest, futVars, back, cur, buffer, lastTS, out, outClosed>>

\* The drain ends: no follower waits at its send (a follower that has a
\* record may not have reached its send yet), 50ms are over, or the future
\* channel is closed.
FwdDrained ==
  /\ fwd = "drain" /\ Follow
  /\ fwd' = "buffer"
  /\ UNCHANGED <<fwdRest, futVars, back, cur, buffer, lastTS, out, outClosed>>

\* (fault: one last timestamp for all sources)
FwdNext_OneLast ==
  /\ fwd = "buffer"
  /\ \E r \in buffer :
       /\ \A q \in buffer : TS(r) <= TS(q)
       /\ buffer' = buffer \ {r}
       /\ IF \E s \in All : TS(r) <= lastTS[s]
            THEN UNCHANGED <<fwd, back, cur>>
            ELSE cur' = r /\ fwd' = "send" /\ back' = "buffer"
  /\ UNCHANGED <<fwdRest, futVars, lastTS, out, outClosed>>

\* The kept records in the order of their timestamps: those the past phase
\* covered are skipped.  sort.Slice may reorder equal timestamps.
FwdNext ==
  /\ fwd = "buffer"
  /\ \E r \in buffer :
       /\ \A q \in buffer : TS(r) <= TS(q)
       /\ buffer' = buffer \ {r}
       /\ IF lastTS[r.src] # 0 /\ TS(r) <= lastTS[r.src]
            THEN /\ lastTS' = IF TS(r) = lastTS[r.src]
                                THEN [lastTS EXCEPT ![r.src] = 0] ELSE lastTS
                 /\ UNCHANGED <<fwd, back, cur>>
            ELSE /\ cur' = r /\ fwd' = "send" /\ back' = "buffer"
                 /\ UNCHANGED lastTS
  /\ UNCHANGED <<fwdRest, futVars, out, outClosed>>

\* All kept records are out: from here on records pass as they come.
FwdBufferEnd ==
  /\ fwd = "buffer" /\ buffer = {}
  /\ fwd' = "range"
  /\ UNCHANGED <<fwdRest, futVars, back, cur, buffer, lastTS, out, outClosed>>

FwdRange(f) ==
  /\ fwd = "range" /\ FutSent(f)
  /\ cur' = FutRecord(f) /\ fwd' = "send" /\ back' = "range"
  /\ UNCHANGED <<fwdRest, buffer, lastTS, out, outClosed>>

\* The caller receives a record.
FwdOut ==
  /\ fwd = "send" /\ closing = "no" /\ ~outClosed
  /\ out' = Append(out, cur) /\ fwd' = back
  /\ UNCHANGED <<fwdRest, futVars, back, cur, buffer, lastTS, outClosed>>

\* A send on the output channel after Close closed it.
FwdPanic ==
  /\ fwd = "send" /\ outClosed
  /\ fwd' = "panic"
  /\ UNCHANGED <<fwdRest, futVars, back, cur, buffer, lastTS, out, outClosed>>

\* The forwarder returns and closes the output channel: rootCtx is done (the
\* last loop looks at it only at its sends), the future channel is closed, or
\* the past phase is over and nothing is to be followed.
FwdReturn ==
  /\ \/ rootDone /\ fwd \in {"select", "drain", "send"}
     \/ futClosed /\ fwd \in {"select", "range"}
     \/ ~Follow /\ fwd = "drain"
  /\ fwd' = "done" /\ outClosed' = TRUE
  /\ UNCHANGED <<fwdRest, futVars, back, cur, buffer, lastTS, out>>

-----------------------------------------------------------------------------
(* The closer goroutine, the caller's Close and its context.               *)

ctlRest == <<envVars, startVars, pastVars, futVars, fwd, back, cur, buffer, lastTS, out>>

\* (fault: the closer does not wait for the followers)
CloseFuture_NoWait ==
  /\ phase = "running" /\ Follow /\ rootDone /\ ~futClosed
  /\ futClosed' = TRUE
  /\ UNCHANGED <<ctlRest, outClosed, rootDone, err, closing>>

\* futureWG counts the followers whose goroutines were started.
CloseFuture ==
  /\ phase = "running" /\ Follow /\ rootDone /\ ~futClosed
  /\ \A f \in Followers : futPc[f] \in {"off", "opened", "done"}
  /\ futClosed' = TRUE
  /\ UNCHANGED <<ctlRest, outClosed, rootDone, err, closing>>

CtxDone ==
  /\ "ctx" \in Events /\ ~rootDone
  /\ rootDone' = TRUE
  /\ UNCHANGED <<ctlRest, outClosed, futClosed, err, closing>>

\* The caller closes the stream: after its end, or early.
CloseCancel ==
  /\ closing = "no" /\ phase \in {"running", "failed"}
  /\ outClosed \/ phase = "failed" \/ "leave" \in Events
  /\ rootDone' = TRUE /\ closing' = "cancelled"
  /\ UNCHANGED <<ctlRest, outClosed, futClosed, err>>

CloseOut ==
  /\ closing = "cancelled"
  /\ outClosed' = TRUE /\ closing' = "closed"
  /\ UNCHANGED <<ctlRest, futClosed, rootDone, err>>

-----------------------------------------------------------------------------

StartStep == StartPast \/ (\E s \in Sources : OpenFollow(s)) \/ StartDone
PastStep  == (\E s \in Sources : PastEOF(s)) \/ PastCollect \/ PastSend \/ PastClose
FutStep(f) == FutRecv(f) \/ FutEOF(f) \/ FutCancel(f) \/ FutCancelRoot(f)
              \/ FutPanic(f) \/ HandleAddDone(f)
FwdStep == \/ \E f \in Followers : FwdBuffer(f)
           \/ FwdPastClosed \/ FwdDrained \/ FwdNext \/ FwdBufferEnd
           \/ FwdOut \/ FwdPanic \/ FwdReturn
EnvStep == \/ \E s \in All : Write(s) \/ Exit(s) \/ HandleDelete(s) \/ HandleAdd(s)
           \/ \E f \in Followers : FutErr(f)
           \/ PastErr \/ CtxDone \/ CloseCancel

\* Once the stream is over nothing need happen.
Quiet == /\ pastPc \in {"off", "closed"} /\ fwd \in {"off", "done", "panic"}
         /\ \A f \in Followers : futPc[f] \in {"off", "done", "panic"}

Finished == Quiet /\ phase \in {"running", "failed"} /\ closing = "closed"

Next == \/ StartStep \/ PastStep \/ FwdStep \/ CloseFuture \/ CloseOut \/ EnvStep
        \/ \E f \in Followers : FutStep(f) \/ FwdRange(f)
        \/ Finished /\ UNCHANGED vars

Spec == Init /\ [][Next]_vars

\* The goroutines go on when they can, the caller receives until it closes the
\* stream and closes it in the end.  Followers that wait at the future channel
\* are served first come, first served.
Fairness ==
  /\ WF_vars(StartStep) /\ WF_vars(PastStep)
  /\ WF_vars(FwdStep)
  /\ WF_vars(CloseFuture) /\ WF_vars(CloseOut)
  /\ WF_vars(CloseCancel /\ (outClosed \/ phase = "failed"))
  /\ \A f \in Followers : /\ WF_vars(FutStep(f))
                          /\ SF_vars(FwdRange(f))

FairSpec == Spec /\ Fairness

-----------------------------------------------------------------------------
(* Properties.                                                             *)

\* The places in its log of the records of s that the caller received.
OutPos(s) == {out[i].pos : i \in {j \in 1..Len(out) : out[j].src = s}}

\* The fetchers that were opened on the log of s.
Opened(s) == {f \in Followers : f[1] = s /\ futFrom[f] # NoPos}

TypeOK ==
  /\ options \in Options
  /\ log \in [All -> Seq(Nat \ {0})] /\ clock \in Nat /\ exited \subseteq All
  /\ phase \in {"new", "past", "running", "failed"} /\ sources \subseteq All
  /\ pastPc \in {"off", "collect", "merge", "closed"} /\ pastCount \in Nat
  /\ pastPos \in [Sources -> Nat] /\ pastEnd \in [Sources -> Nat \cup {NoPos}]
  /\ futPc \in [Followers -> {"off", "opened", "recv", "send", "errset", "done",
                           "panic"}]
  /\ futPos \in [Followers -> Nat] /\ futFrom \in [Followers -> Nat \cup {NoPos}]
  /\ fwd \in {"off", "select", "drain", "buffer", "range", "send", "done",
               "panic"}
  /\ back \in {"select", "buffer", "range"} /\ (fwd = "send" => cur \in Record)
  /\ buffer \subseteq Record /\ lastTS \in [All -> Nat] /\ out \in Seq(Record)
  /\ {outClosed, futClosed, rootDone, err} \subseteq BOOLEAN
  /\ closing \in {"no", "cancelled", "closed"}
  /\ \A s \in Sources : pastPos[s] <= PastLast(s) /\ PastLast(s) <= Len(log[s])
  /\ \A f \in Followers : futPos[f] <= Len(log[f[1]])

\* closeOutCh runs in the forwarder and in Close, and the forwarder sends to
\* the channel: no send comes after the close.
NoSendOnOut == fwd # "panic"

\* The same for futureCh, that the closer closes "after writers have finished".
NoSendOnFuture == \A f \in Followers : futPc[f] # "panic"

\* The past records come first, those of each fetcher in the order of its log.
OutOrder ==
  \A i, j \in 1..Len(out) : i < j =>
    /\ out[j].via = Past => out[i].via = Past
    /\ (out[i].src = out[j].src /\ out[i].via = out[j].via) => out[i].pos < out[j].pos

\* The places of the records of s that are on their way to the caller.
Pending(s) ==
  {r.pos : r \in {q \in buffer \cup (IF fwd = "send" THEN {cur} ELSE {}) : q.src = s}}
  \cup {futPos[f] : f \in {g \in Opened(s) : futPc[g] = "send"}}
  \cup {p \in 1..Len(log[s]) : \/ \E f \in Opened(s) : p > futPos[f]
                               \/ s \in Sources /\ pastPc # "closed" /\ p > pastPos[s]}

\* The record at p of s is due: in mode all every record is; else those after
\* the first one the caller received are, and those the follower began with if
\* the past phase delivered none of s.
Due(s, p) ==
  \/ Mode = "all"
  \/ \E q \in OutPos(s) : q <= p
  \/ /\ \A i \in 1..Len(out) : ~(out[i].src = s /\ out[i].via = Past)
     /\ \E f \in Opened(s) : futFrom[f] < p

\* All due records of s reached the caller or are on their way.
Lossless(s) == \A p \in 1..Len(log[s]) : Due(s, p) => p \in OutPos(s) \cup Pending(s)

\* The follower of s was opened past the end that the past phase read.
Gap(s) == s \in Sources /\ pastEnd[s] # NoPos /\ futFrom[<<s, 0>>] > pastEnd[s]

\* Joining the past and the future of a source loses nothing: the records that
\* the forwarder skips were sent before.  Left out are streams that failed or
\* were cancelled, sources that were not followed or more than once, and those
\* whose follower was opened too late.
JoinLossless ==
  rootDone \/ err \/ phase = "failed"
  \/ \A s \in All : Cardinality(Opened(s)) = 1 /\ ~Gap(s) => Lossless(s)

\* A stream that does not follow and ends without an error has delivered what
\* the logs held: all of it, or as much of it as the limit allows.
FetchComplete ==
  (outClosed /\ ~Follow /\ ~rootDone /\ ~err) =>
    /\ \A s \in Sources : OutPos(s) \subseteq 1..pastPos[s]
    /\ \/ \A s \in Sources : pastEnd[s] # NoPos /\ pastPos[s] = pastEnd[s]
       \/ Mode = "head" /\ Len(out) >= MaxNum
    /\ \A s \in Sources : \E n \in 0..pastPos[s] :
         OutPos(s) = (n + 1)..pastPos[s] /\ (Mode # "tail" => n = 0)

\* The caller misses nothing: not where past and future are joined, and not
\* when a stream that only fetches ends.
NoLoss == JoinLossless /\ FetchComplete

\* No record is lost between the two phases, whenever the follower is opened.
NoGap == rootDone \/ err \/ \A s \in All : Cardinality(Opened(s)) = 1 => Lossless(s)

\* No record is sent twice.
NoDuplicates ==
  \A i, j \in 1..Len(out) :
    (out[i].src = out[j].src /\ out[i].pos = out[j].pos) => i = j

\* A stream that follows ends because it was told to or because of an error
\* the caller can see: an error is set before the stream is cancelled.
EndsForAReason == (Follow /\ rootDone) => err \/ closing # "no" \/ "ctx" \in Events

\* A stream that was started ends when it should: one that only fetches by
\* itself, and, whoever cancels it and at whatever moment, with all its
\* goroutines, the followers of late sources too.
Stops ==
  /\ (phase = "running" /\ ~Follow) ~> outClosed
  /\ (rootDone /\ phase \in {"running", "failed"}) ~> Quiet

\* A follower does not starve: in the end, when the containers have written
\* what they write here, all they wrote while they were followed has reached
\* the caller, unless the stream failed or was ended.
Delivered ==
  <>[](rootDone \/ err \/ \A s \in All :
         (\E f \in Opened(s) : futFrom[f] < Len(log[s])) => Len(log[s]) \in OutPos(s))
=============================================================================
