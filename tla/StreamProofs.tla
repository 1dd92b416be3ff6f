---------------------------- MODULE StreamProofs ----------------------------
(***************************************************************************)
(* When the two shared channels of a Stream are safe, why a stream ends,   *)
(* in which order the caller receives the records and that it misses none, *)
(* for every set of sources, every mode and every combination of events.   *)
(***************************************************************************)
EXTENDS Stream, FiniteSetTheorems, TLAPS

PcType == futPc \in [Followers -> {"off", "opened", "recv", "send", "errset", "done",
                                   "panic"}]

\* The future channel is closed only after rootCtx is done, and then no
\* follower is at its send.
FutureInv ==
  /\ PcType
  /\ futClosed => rootDone /\ \A f \in Followers : futPc[f] # "send"
  /\ NoSendOnFuture

\* Start has closed nothing; once the output channel is closed, or the caller
\* closes the stream, the forwarder has returned or was never started.
OutInv ==
  /\ fwd \in {"off", "select", "drain", "buffer", "range", "send", "done"}
  /\ back \in {"select", "buffer", "range"}
  /\ phase \in {"new", "past", "running", "failed"}
  /\ closing \in {"no", "cancelled", "closed"}
  /\ phase # "running" => fwd = "off"
  /\ phase \in {"new", "past"} => closing = "no" /\ ~outClosed
  /\ closing # "no" => outClosed \/ phase = "failed"
  /\ outClosed => fwd \in {"off", "done"}

-----------------------------------------------------------------------------

\* The steps of which no follower is part.
NoFollower ==
  \/ StartPast \/ StartDone \/ PastStep \/ PastErr
  \/ FwdPastClosed \/ FwdDrained \/ FwdNext \/ FwdBufferEnd \/ FwdOut \/ FwdPanic
  \/ FwdReturn \/ CloseOut \/ CtxDone \/ CloseCancel
  \/ \E s \in All : Write(s) \/ Exit(s) \/ HandleDelete(s)
  \/ UNCHANGED vars

\* They leave the followers and the future channel alone.
LEMMA NoFollowerFrame ==
  ASSUME NoFollower
  PROVE  UNCHANGED <<futPc, futClosed>> /\ (rootDone => rootDone')
BY DEF NoFollower, StartPast, StartDone, PastStep, PastEOF, PastCollect, PastSend,
       PastClose, PastErr, FwdPastClosed, FwdDrained, FwdNext, FwdBufferEnd, FwdOut,
       FwdPanic, FwdReturn, CloseOut, CtxDone, CloseCancel, Write, Exit,
       HandleDelete, vars, envVars, startVars, pastVars, futVars, fwdVars, ctlVars,
       fwdRest, ctlRest

LEMMA FutureStep ==
  ASSUME Fetcher = "kube", FutureInv, [Next]_vars
  PROVE  FutureInv'
<1>1. CASE NoFollower
  BY <1>1, NoFollowerFrame DEF FutureInv, PcType, NoSendOnFuture
<1>2. ASSUME NEW s \in Sources, OpenFollow(s) PROVE FutureInv'
  <2>1. /\ \/ UNCHANGED futPc
           \/ \E v \in {"recv", "done"} : futPc' = [futPc EXCEPT ![<<s, 0>>] = v]
        /\ UNCHANGED <<futClosed, rootDone>>
    BY <1>2 DEF OpenFollow, futVars, ctlVars
  <2>2. QED
    BY <2>1 DEF FutureInv, PcType, NoSendOnFuture
<1>3. ASSUME NEW f \in Followers, FutRecv(f) PROVE FutureInv'
  BY <1>3 DEF FutRecv, FutureInv, PcType, NoSendOnFuture, ctlVars
<1>4. ASSUME NEW f \in Followers, FutEOF(f) \/ FutCancel(f) \/ FutErr(f) \/ FutCancelRoot(f)
      PROVE  FutureInv'
  BY <1>4 DEF FutEOF, FutCancel, FutErr, FutCancelRoot, FutureInv, PcType,
              NoSendOnFuture, ctlVars
<1>5. ASSUME NEW f \in Followers, FutPanic(f) PROVE FutureInv'
  BY <1>5 DEF FutPanic, FutureInv
<1>6. ASSUME NEW f \in Followers, HandleAddDone(f) PROVE FutureInv'
  BY <1>6 DEF HandleAddDone, FutureInv, PcType, NoSendOnFuture, ctlVars
<1>7. ASSUME NEW f \in Followers, FwdBuffer(f) \/ FwdRange(f) PROVE FutureInv'
  BY <1>7 DEF FwdBuffer, FwdRange, FutSent, FutureInv, PcType, NoSendOnFuture,
              fwdRest, ctlVars
<1>8. ASSUME NEW s \in All, HandleAdd(s) PROVE FutureInv'
  BY <1>8 DEF HandleAdd, FutureInv, PcType, NoSendOnFuture
<1>9. CASE CloseFuture
  BY <1>9 DEF CloseFuture, FutureInv, PcType, NoSendOnFuture, ctlRest, futVars
<1>10. QED
  BY <1>1, <1>2, <1>3, <1>4, <1>5, <1>6, <1>7, <1>8, <1>9
  DEF Next, StartStep, FwdStep, EnvStep, FutStep, NoFollower

\* With the Kubernetes fetcher nobody sends on the future channel after the
\* closer closed it: not even the follower of a source that is added while
\* the closer waits, since nothing is received of a log once rootCtx is done.
THEOREM KubeFutureSafe == Fetcher = "kube" => (Spec => []NoSendOnFuture)
<1> SUFFICES ASSUME Fetcher = "kube" PROVE Spec => []NoSendOnFuture
  OBVIOUS
<1>1. Init => FutureInv
  BY DEF Init, FutureInv, PcType, NoSendOnFuture
<1>2. FutureInv /\ [Next]_vars => FutureInv'
  BY FutureStep
<1>3. FutureInv => NoSendOnFuture
  BY DEF FutureInv
<1>4. QED
  BY <1>1, <1>2, <1>3, PTL DEF Spec

-----------------------------------------------------------------------------

LEMMA OutStep ==
  ASSUME "leave" \notin Events, OutInv, [Next]_vars
  PROVE  OutInv'
<1>1. ASSUME UNCHANGED <<fwd, back, phase, closing, outClosed>> PROVE OutInv'
  BY <1>1 DEF OutInv
<1>2. CASE StartStep
  <2>1. CASE StartPast
    BY <2>1 DEF StartPast, OutInv, fwdVars, ctlVars
  <2>2. CASE StartDone
    BY <2>2 DEF StartDone, OutInv, ctlVars
  <2>3. CASE \E s \in Sources : OpenFollow(s)
    BY <2>3 DEF OpenFollow, OutInv, fwdVars, ctlVars
  <2>4. QED
    BY <1>2, <2>1, <2>2, <2>3 DEF StartStep
<1>3. CASE PastSend
  BY <1>3 DEF PastSend, OutInv, startVars, ctlVars
<1>4. CASE (\E s \in Sources : PastEOF(s)) \/ PastCollect \/ PastClose \/ PastErr
  BY <1>1, <1>4 DEF PastEOF, PastCollect, PastClose, PastErr, startVars, fwdVars, ctlVars
<1>5. CASE \E f \in Followers : FutStep(f) \/ FutErr(f)
  BY <1>1, <1>5 DEF FutStep, FutRecv, FutEOF, FutCancel, FutCancelRoot, FutPanic,
       FutErr, HandleAddDone, futRest, startVars, fwdVars, ctlVars
<1>6. CASE \E f \in Followers : FwdBuffer(f) \/ FwdRange(f)
  BY <1>6 DEF FwdBuffer, FwdRange, OutInv, fwdRest, startVars, ctlVars
<1>7. CASE FwdPastClosed \/ FwdDrained \/ FwdNext \/ FwdBufferEnd \/ FwdReturn
  BY <1>7 DEF FwdPastClosed, FwdDrained, FwdNext, FwdBufferEnd, FwdReturn, OutInv,
              fwdRest, startVars, ctlVars
<1>8. CASE FwdOut
  BY <1>8 DEF FwdOut, OutInv, fwdRest, startVars, ctlVars
<1>9. CASE FwdPanic
  BY <1>9 DEF FwdPanic, OutInv
<1>10. CASE CloseFuture \/ CtxDone \/ CloseCancel \/ CloseOut
  BY <1>10 DEF CloseFuture, CtxDone, CloseCancel, CloseOut, OutInv, ctlRest, startVars
<1>11. CASE \E s \in All : Write(s) \/ Exit(s) \/ HandleDelete(s) \/ HandleAdd(s)
  BY <1>1, <1>11 DEF Write, Exit, HandleDelete, HandleAdd, futRest, startVars,
                     fwdVars, ctlVars
<1>12. CASE UNCHANGED vars
  BY <1>1, <1>12 DEF vars, startVars, fwdVars, ctlVars
<1>13. QED
  BY <1>2, <1>3, <1>4, <1>5, <1>6, <1>7, <1>8, <1>9, <1>10, <1>11, <1>12
  DEF Next, PastStep, FwdStep, EnvStep

\* A caller that receives until the output channel is closed, and calls Close
\* only then or when Start failed, never makes the forwarder send on a closed
\* channel, however the stream is cancelled and whichever fetcher it uses.
THEOREM DrainedOutSafe == "leave" \notin Events => (Spec => []NoSendOnOut)
<1> SUFFICES ASSUME "leave" \notin Events PROVE Spec => []NoSendOnOut
  OBVIOUS
<1>1. Init => OutInv
  BY DEF Init, OutInv
<1>2. OutInv /\ [Next]_vars => OutInv'
  BY OutStep
<1>3. OutInv => NoSendOnOut
  BY DEF OutInv, NoSendOnOut
<1>4. QED
  BY <1>1, <1>2, <1>3, PTL DEF Spec

-----------------------------------------------------------------------------

\* Nobody cancels rootCtx without a reason that stays: a follower that is about
\* to has set the error.
ReasonInv ==
  /\ PcType
  /\ rootDone => err \/ closing # "no" \/ "ctx" \in Events
  /\ \A f \in Followers : futPc[f] = "errset" => err

\* Errors are never cleared, and a Close that began goes on.
Reasons == (err => err') /\ (closing # "no" => closing' # "no")

LEMMA ReasonStep ==
  ASSUME ReasonInv, [Next]_vars
  PROVE  ReasonInv'
<1>1. ASSUME UNCHANGED <<futPc, rootDone>>, Reasons PROVE ReasonInv'
  BY <1>1 DEF ReasonInv, PcType, Reasons
<1>2. CASE StartPast \/ StartDone \/ PastStep \/ UNCHANGED vars
  BY <1>1, <1>2 DEF StartPast, StartDone, PastStep, PastEOF, PastCollect, PastSend,
       PastClose, Reasons, vars, futVars, ctlVars
<1>3. CASE PastErr
  BY <1>1, <1>3 DEF PastErr, Reasons, futVars
<1>4. CASE FwdPastClosed \/ FwdDrained \/ FwdNext \/ FwdBufferEnd \/ FwdOut \/ FwdPanic
           \/ FwdReturn
  BY <1>1, <1>4 DEF FwdPastClosed, FwdDrained, FwdNext, FwdBufferEnd, FwdOut, FwdPanic,
       FwdReturn, Reasons, fwdRest, futVars, ctlVars
<1>5. CASE CloseFuture \/ CloseOut
  BY <1>1, <1>5 DEF CloseFuture, CloseOut, Reasons, ctlRest, futVars
<1>6. CASE \E s \in All : Write(s) \/ Exit(s) \/ HandleDelete(s)
  BY <1>1, <1>6 DEF Write, Exit, HandleDelete, Reasons, futVars, ctlVars
<1>7. CASE CtxDone \/ CloseCancel
  BY <1>7 DEF CtxDone, CloseCancel, ReasonInv, PcType, ctlRest, futVars
<1>8. ASSUME NEW s \in Sources, OpenFollow(s) PROVE ReasonInv'
  <2>1. /\ \/ UNCHANGED futPc
           \/ \E v \in {"recv", "done"} : futPc' = [futPc EXCEPT ![<<s, 0>>] = v]
        /\ UNCHANGED <<rootDone, err, closing>>
    BY <1>8 DEF OpenFollow, futVars, ctlVars
  <2>2. QED
    BY <2>1 DEF ReasonInv, PcType
<1>9. ASSUME NEW s \in All, HandleAdd(s) PROVE ReasonInv'
  <2>1. /\ (err => err')
        /\ \/ UNCHANGED futPc
           \/ \E f : futPc' = [futPc EXCEPT ![f] = "opened"]
        /\ UNCHANGED <<rootDone, closing>>
    BY <1>9 DEF HandleAdd
  <2>2. CASE UNCHANGED futPc
    BY <1>1, <2>1, <2>2 DEF Reasons
  <2>3. ASSUME NEW f, futPc' = [futPc EXCEPT ![f] = "opened"] PROVE ReasonInv'
    BY <2>1, <2>3 DEF ReasonInv, PcType
  <2>4. QED
    BY <2>1, <2>2, <2>3
<1>10. ASSUME NEW f \in Followers, FutErr(f) \/ FutCancelRoot(f) PROVE ReasonInv'
  BY <1>10 DEF FutErr, FutCancelRoot, ReasonInv, PcType
<1>11. ASSUME NEW f \in Followers, FutRecv(f) \/ FutEOF(f) \/ FutCancel(f) \/ FutPanic(f)
                                   \/ HandleAddDone(f)
       PROVE  ReasonInv'
  BY <1>11 DEF FutRecv, FutEOF, FutCancel, FutPanic, HandleAddDone, ReasonInv, PcType,
       ctlVars
<1>12. ASSUME NEW f \in Followers, FwdBuffer(f) \/ FwdRange(f) PROVE ReasonInv'
  BY <1>12 DEF FwdBuffer, FwdRange, FutSent, ReasonInv, PcType, fwdRest, ctlVars
<1>13. QED
  BY <1>2, <1>3, <1>4, <1>5, <1>6, <1>7, <1>8, <1>9, <1>10, <1>11, <1>12
  DEF Next, StartStep, FwdStep, EnvStep, FutStep

\* A stream that follows ends only because its caller or its context ended it,
\* or with an error that Err() shows, whichever of its goroutines cancelled it
\* and however many failed at once.
THEOREM EndHasReason == Spec => []EndsForAReason
<1>1. Init => ReasonInv
  BY DEF Init, ReasonInv, PcType
<1>2. ReasonInv /\ [Next]_vars => ReasonInv'
  BY ReasonStep
<1>3. ReasonInv => EndsForAReason
  BY DEF ReasonInv, EndsForAReason
<1>4. QED
  BY <1>1, <1>2, <1>3, PTL DEF Spec

-----------------------------------------------------------------------------
(* The types.                                                              *)

\* The types of the logs, of Start's variables, the past phase's, the
\* followers', the forwarder's and the flags.
EnvType ==
  /\ options \in Options
  /\ log \in [All -> Seq(Nat \ {0})] /\ clock \in Nat /\ exited \subseteq All
StartType ==
  phase \in {"new", "past", "running", "failed"} /\ sources \subseteq All
PastType ==
  /\ pastPc \in {"off", "collect", "merge", "closed"} /\ pastCount \in Nat
  /\ pastPos \in [Sources -> Nat] /\ pastEnd \in [Sources -> Nat \cup {NoPos}]
  /\ \A s \in Sources : pastPos[s] <= PastLast(s) /\ PastLast(s) <= Len(log[s])
FutType ==
  /\ PcType /\ futPos \in [Followers -> Nat] /\ futFrom \in [Followers -> Nat \cup {NoPos}]
  /\ \A f \in Followers : futPos[f] <= Len(log[f[1]])
FwdType ==
  /\ fwd \in {"off", "select", "drain", "buffer", "range", "send", "done", "panic"}
  /\ back \in {"select", "buffer", "range"} /\ (fwd = "send" => cur \in Record)
  /\ buffer \subseteq Record /\ lastTS \in [All -> Nat] /\ out \in Seq(Record)
CtlType ==
  /\ {outClosed, futClosed, rootDone, err} \subseteq BOOLEAN
  /\ closing \in {"no", "cancelled", "closed"}

\* A follower that was not opened has read nothing, one at its send has a record
\* behind the place where it began, and only those of handlers begin at 0.
FollowInv ==
  \A f \in Followers :
    /\ futPc[f] \in {"off", "opened"} => futFrom[f] = NoPos /\ futPos[f] = 0
    /\ futPc[f] = "opened" => f[2] # 0
    /\ futPc[f] \in {"recv", "send", "errset"} => futFrom[f] # NoPos
    /\ futPc[f] = "send" => futPos[f] > 0 /\ futFrom[f] < futPos[f]
    /\ futFrom[f] # NoPos => futFrom[f] <= futPos[f]
    /\ futFrom[f] # NoPos /\ f[2] = 0 => f[1] \in Sources /\ Follow
    /\ futFrom[f] # NoPos /\ f[2] # 0 => futFrom[f] = 0

TypeInv == EnvType /\ StartType /\ PastType /\ FutType /\ FwdType /\ CtlType /\ FollowInv

\* What a step leaves alone keeps its type.
LEMMA TypeFrame ==
  /\ UNCHANGED envVars => (EnvType => EnvType')
  /\ UNCHANGED startVars => (StartType => StartType')
  /\ UNCHANGED <<envVars, pastVars>> => (PastType => PastType')
  /\ UNCHANGED <<envVars, futVars>> => (FutType => FutType') /\ (FollowInv => FollowInv')
  /\ UNCHANGED <<fwd, back, cur, buffer, lastTS, out>> => (FwdType => FwdType')
  /\ UNCHANGED <<outClosed, ctlVars>> => (CtlType => CtlType')
<1>1. UNCHANGED envVars => (EnvType => EnvType')
  BY DEF envVars, EnvType
<1>2. UNCHANGED startVars => (StartType => StartType')
  BY DEF startVars, StartType
<1>3. UNCHANGED <<envVars, pastVars>> => (PastType => PastType')
  BY DEF envVars, pastVars, PastType, PastLast
<1>4. UNCHANGED <<envVars, futVars>> => (FutType => FutType') /\ (FollowInv => FollowInv')
  BY DEF envVars, futVars, FutType, PcType, FollowInv, Follow
<1>5. UNCHANGED <<fwd, back, cur, buffer, lastTS, out>> => (FwdType => FwdType')
  BY DEF fwdVars, FwdType
<1>6. UNCHANGED <<outClosed, ctlVars>> => (CtlType => CtlType')
  BY DEF ctlVars, CtlType
<1> QED
  BY <1>1, <1>2, <1>3, <1>4, <1>5, <1>6

LEMMA TypeWrite ==
  ASSUME TypeInv, NEW s \in All, Write(s) \/ Exit(s) \/ HandleDelete(s) \/ HandleAdd(s)
  PROVE  TypeInv'
<1> USE TypeFrame DEF TypeInv
<1>1. CASE Write(s)
  <2>1. clock' \in Nat \ {0}
    BY <1>1 DEF Write, EnvType
  <2>2. /\ log' \in [All -> Seq(Nat \ {0})]
        /\ \A t \in All : Len(log[t]) \in Nat /\ Len(log'[t]) \in Nat /\ Len(log[t]) <= Len(log'[t])
    BY <1>1, <2>1 DEF Write, EnvType
  <2>3. EnvType'
    BY <1>1, <2>1, <2>2 DEF Write, EnvType
  <2>4. PastType'
    BY <1>1, <2>2 DEF Write, PastType, PastLast, pastVars, All, NoPos
  <2>5. FutType' /\ FollowInv'
    BY <1>1, <2>2 DEF Write, FutType, PcType, FollowInv, Follow, futVars, Followers, NoPos
  <2> QED
    BY <1>1, <2>3, <2>4, <2>5 DEF Write, fwdVars
<1>2. CASE Exit(s)
  <2>1. EnvType' /\ PastType' /\ FutType' /\ FollowInv'
    BY <1>2 DEF Exit, EnvType, PastType, PastLast, FutType, PcType, FollowInv, Follow,
       pastVars, futVars
  <2> QED
    BY <1>2, <2>1 DEF Exit, fwdVars
<1>3. CASE HandleDelete(s)
  <2>1. StartType'
    BY <1>3 DEF HandleDelete, StartType
  <2> QED
    BY <1>3, <2>1 DEF HandleDelete, fwdVars
<1>4. CASE HandleAdd(s)
  <2>1. FutType' /\ FollowInv'
    <3>1. CASE UNCHANGED futPc
      BY <1>4, <3>1 DEF HandleAdd, futRest, futVars
    <3>2. ASSUME NEW f \in Followers, futPc[f] = "off", f[2] # 0, futPc' = [futPc EXCEPT ![f] = "opened"]
          PROVE  FutType' /\ FollowInv'
      BY <1>4, <3>2 DEF HandleAdd, futRest, envVars, FutType, PcType, FollowInv, Follow
    <3>3. ASSUME NEW k \in 1..MaxAdds,
                 \A j \in 1..MaxAdds : futPc[<<s, j>>] = "off" <=> j >= k
          PROVE  <<s, k>> \in Followers /\ futPc[<<s, k>>] = "off" /\ <<s, k>>[2] # 0
      BY <3>3, StreamAssumption DEF Followers
    <3> QED
      BY <1>4, <3>1, <3>2, <3>3 DEF HandleAdd
  <2>2. CtlType'
    BY <1>4 DEF HandleAdd, CtlType, futRest, fwdVars
  <2> QED
    BY <1>4, <2>1, <2>2 DEF HandleAdd, futRest, fwdVars
<1> QED
  BY <1>1, <1>2, <1>3, <1>4

LEMMA TypeStart ==
  ASSUME TypeInv, StartStep
  PROVE  TypeInv'
<1> USE TypeFrame DEF TypeInv
<1>1. CASE StartPast
  <2>1. StartType' /\ PastType'
    BY <1>1 DEF StartPast, StartType, PastType, PastLast, All, envVars
  <2> QED
    BY <1>1, <2>1 DEF StartPast, fwdVars
<1>2. ASSUME NEW s \in Sources, OpenFollow(s) PROVE TypeInv'
  <2>1. <<s, 0>> \in Followers /\ s \in All
    BY StreamAssumption DEF Followers, All
  <2>2. Len(log[s]) \in Nat /\ log' = log /\ options' = options
    BY <1>2, <2>1 DEF OpenFollow, EnvType, envVars
  <2>3. FutType' /\ FollowInv'
    <3>1. CASE UNCHANGED futVars
      BY <1>2, <3>1 DEF OpenFollow
    <3>2. ASSUME NEW f \in Followers, f = <<s, 0>>, futPc[f] = "off",
                 futPc' = [futPc EXCEPT ![f] = "done"], UNCHANGED <<futPos, futFrom>>
          PROVE  FutType' /\ FollowInv'
      BY <2>2, <3>2 DEF FutType, PcType, FollowInv, Follow
    <3>3. ASSUME NEW f \in Followers, f[1] = s, f[2] = 0, futPc[f] = "off", Follow,
                 futPc' = [futPc EXCEPT ![f] = "recv"],
                 futPos' = [futPos EXCEPT ![f] = Len(log[s])],
                 futFrom' = [futFrom EXCEPT ![f] = Len(log[s])]
          PROVE  FutType' /\ FollowInv'
      <4>1. FutType'
        BY <2>2, <3>3 DEF FutType, PcType
      <4>2. FollowInv'
        BY <2>2, <3>3 DEF FutType, PcType, FollowInv, Follow, NoPos
      <4> QED
        BY <4>1, <4>2
    <3> QED
      BY <1>2, <2>1, <3>1, <3>2, <3>3 DEF OpenFollow
  <2>5. StartType'
    BY <1>2 DEF OpenFollow, StartType
  <2> QED
    BY <1>2, <2>3, <2>5 DEF OpenFollow, fwdVars
<1>3. CASE StartDone
  <2>1. StartType' /\ FwdType'
    BY <1>3 DEF StartDone, StartType, FwdType
  <2> QED
    BY <1>3, <2>1 DEF StartDone
<1> QED
  BY <1>1, <1>2, <1>3 DEF StartStep

LEMMA TypePast ==
  ASSUME TypeInv, PastStep \/ PastErr
  PROVE  TypeInv'
<1> USE TypeFrame DEF TypeInv
<1>1. ASSUME NEW s \in Sources, PastEOF(s) PROVE TypeInv'
  <2>1. Len(log[s]) \in Nat /\ log' = log
    BY <1>1 DEF PastEOF, EnvType, All, envVars
  <2>2. PastType'
    BY <1>1, <2>1 DEF PastEOF, PastType, PastLast, NoPos
  <2> QED
    BY <1>1, <2>2 DEF PastEOF, fwdVars
<1>2. CASE PastCollect
  <2>1. pastPos' \in [Sources -> Nat] /\ \A s \in Sources : pastPos'[s] <= PastLast(s)
    BY <1>2, StreamAssumption DEF PastCollect, PastType, PastLast
  <2>2. PastType'
    BY <1>2, <2>1 DEF PastCollect, PastType, PastLast, envVars
  <2> QED
    BY <1>2, <2>2 DEF PastCollect, fwdVars
<1>3. CASE PastSend
  <2> PICK s \in Sources :
        /\ pastPos[s] < PastLast(s) /\ pastPos' = [pastPos EXCEPT ![s] = @ + 1]
        /\ cur' = Rec(s, pastPos[s] + 1, Past)
        /\ lastTS' = [lastTS EXCEPT ![s] = log[s][pastPos[s] + 1]]
    BY <1>3 DEF PastSend
  <2>1. /\ s \in All /\ pastPos[s] \in Nat /\ Len(log[s]) \in Nat
        /\ pastPos[s] + 1 \in 1..Len(log[s])
    BY DEF PastType, PastLast, EnvType, All, NoPos
  <2>2. cur' \in Record
    BY <2>1 DEF Rec, Record
  <2>3. log[s][pastPos[s] + 1] \in Nat
    BY <2>1 DEF EnvType
  <2>4. FwdType'
    BY <1>3, <2>2, <2>3 DEF PastSend, FwdType
  <2>5. PastType'
    BY <1>3, <2>1 DEF PastSend, PastType, PastLast, envVars, NoPos
  <2> QED
    BY <1>3, <2>4, <2>5 DEF PastSend
<1>4. CASE PastClose \/ PastErr
  <2>1. PastType'
    BY <1>4 DEF PastClose, PastErr, PastType, PastLast, envVars, NoPos
  <2>2. CtlType'
    BY <1>4 DEF PastClose, PastErr, CtlType, ctlVars, fwdVars
  <2> QED
    BY <1>4, <2>1, <2>2 DEF PastClose, PastErr, fwdVars
<1> QED
  BY <1>1, <1>2, <1>3, <1>4 DEF PastStep

LEMMA TypeFut ==
  ASSUME TypeInv, NEW f \in Followers, FutStep(f) \/ FutErr(f)
  PROVE  TypeInv'
<1> USE TypeFrame DEF TypeInv
<1>1. f[1] \in All /\ Len(log[f[1]]) \in Nat
  BY DEF Followers, EnvType
<1>2. UNCHANGED <<envVars, pastVars, fwdVars>>
  BY DEF FutStep, FutRecv, FutEOF, FutCancel, FutErr, FutCancelRoot, FutPanic,
         HandleAddDone, futRest
<1>3. FutType' /\ FollowInv'
  <2>1. CASE FutRecv(f)
    BY <1>1, <1>2, <2>1 DEF FutRecv, FutType, PcType, FollowInv, Follow, futRest, envVars
  <2>2. CASE FutEOF(f) \/ FutCancel(f) \/ FutErr(f) \/ FutCancelRoot(f) \/ FutPanic(f)
    BY <1>1, <1>2, <2>2 DEF FutEOF, FutCancel, FutErr, FutCancelRoot, FutPanic, FutType, PcType,
       FollowInv, Follow, futRest, envVars
  <2>3. CASE HandleAddDone(f)
    BY <1>1, <1>2, <2>3 DEF HandleAddDone, FutType, PcType, FollowInv, Follow, envVars, NoPos
  <2> QED
    BY <2>1, <2>2, <2>3 DEF FutStep
<1>4. StartType' /\ CtlType'
  BY <1>1 DEF FutStep, FutRecv, FutEOF, FutCancel, FutErr, FutCancelRoot, FutPanic,
     HandleAddDone, futRest, startVars, StartType, CtlType, ctlVars, fwdVars
<1> QED
  BY <1>2, <1>3, <1>4 DEF fwdVars

\* A record that a follower has at its send is a record of its log.
LEMMA SentRecord ==
  ASSUME EnvType, FutType, FollowInv, NEW f \in Followers, futPc[f] = "send"
  PROVE  /\ FutRecord(f) \in Record
         /\ FutRecord(f).src = f[1] /\ FutRecord(f).pos = futPos[f] /\ FutRecord(f).via = f[2]
BY StreamAssumption DEF EnvType, FutType, FollowInv, FutRecord, Rec, Record, Followers

LEMMA TypeSent ==
  ASSUME TypeInv, NEW f \in Followers, FwdBuffer(f) \/ FwdRange(f)
  PROVE  TypeInv'
<1> USE TypeFrame DEF TypeInv
<1>1. futPc[f] = "send" /\ futPc' = [futPc EXCEPT ![f] = "recv"] /\ UNCHANGED <<futPos, futFrom>>
  BY DEF FwdBuffer, FwdRange, FutSent
<1>2. UNCHANGED <<envVars, startVars, pastVars, outClosed, ctlVars>>
  BY DEF FwdBuffer, FwdRange, fwdRest
<1>3. FutType' /\ FollowInv'
  BY <1>1, <1>2 DEF FutType, PcType, FollowInv, Follow, envVars
<1>4. FutRecord(f) \in Record
  BY <1>1, SentRecord
<1>5. FwdType'
  BY <1>4 DEF FwdBuffer, FwdRange, FwdType
<1> QED
  BY <1>2, <1>3, <1>5

LEMMA TypeFwd ==
  ASSUME TypeInv, \/ FwdPastClosed \/ FwdDrained \/ FwdNext \/ FwdBufferEnd
                  \/ FwdOut \/ FwdPanic \/ FwdReturn
  PROVE  TypeInv'
<1> USE TypeFrame DEF TypeInv
<1>1. UNCHANGED <<envVars, startVars, pastVars, futVars, ctlVars>>
  BY DEF FwdPastClosed, FwdDrained, FwdNext, FwdBufferEnd, FwdOut, FwdPanic, FwdReturn, fwdRest
<1>2. outClosed' \in BOOLEAN
  BY DEF FwdPastClosed, FwdDrained, FwdNext, FwdBufferEnd, FwdOut, FwdPanic, FwdReturn, CtlType
<1>3. CtlType'
  BY <1>1, <1>2 DEF CtlType, ctlVars
<1>4. CASE FwdPastClosed \/ FwdDrained \/ FwdBufferEnd \/ FwdPanic \/ FwdReturn
  BY <1>1, <1>3, <1>4 DEF FwdPastClosed, FwdDrained, FwdBufferEnd, FwdPanic, FwdReturn, FwdType
<1>5. CASE FwdOut
  <2>1. out' \in Seq(Record)
    BY <1>5 DEF FwdOut, FwdType
  <2> QED
    BY <1>1, <1>3, <1>5, <2>1 DEF FwdOut, FwdType
<1>6. CASE FwdNext
  <2> PICK r \in buffer :
        /\ buffer' = buffer \ {r}
        /\ \/ lastTS' \in {lastTS, [lastTS EXCEPT ![r.src] = 0]} /\ UNCHANGED <<fwd, back, cur>>
           \/ cur' = r /\ fwd' = "send" /\ back' = "buffer" /\ UNCHANGED lastTS
    BY <1>6 DEF FwdNext
  <2> QED
    BY <1>1, <1>3, <1>6 DEF FwdNext, FwdType
<1> QED
  BY <1>4, <1>5, <1>6

LEMMA TypeCtl ==
  ASSUME TypeInv, CloseFuture \/ CtxDone \/ CloseCancel \/ CloseOut \/ UNCHANGED vars
  PROVE  TypeInv'
<1>1. CtlType'
  BY DEF CloseFuture, CtxDone, CloseCancel, CloseOut, vars, fwdVars, ctlVars, ctlRest,
     TypeInv, CtlType
<1> QED
  BY <1>1, TypeFrame DEF CloseFuture, CtxDone, CloseCancel, CloseOut, ctlRest, vars, fwdVars,
     TypeInv

LEMMA TypeStep ==
  ASSUME TypeInv, [Next]_vars
  PROVE  TypeInv'
BY TypeWrite, TypeStart, TypePast, TypeFut, TypeSent, TypeFwd, TypeCtl
DEF Next, FwdStep, EnvStep

LEMMA TypeInit == Init => TypeInv
<1> SUFFICES ASSUME Init PROVE TypeInv
  OBVIOUS
<1>1. EnvType /\ StartType
  <2>1. /\ options \in Options /\ log = [s \in All |-> <<>>] /\ clock = 0 /\ exited = {}
        /\ phase = "new" /\ sources = {}
    BY DEF Init
  <2>2. log \in [All -> Seq(Nat \ {0})]
    BY <2>1
  <2> QED
    BY <2>1, <2>2 DEF EnvType, StartType
<1>4. FwdType /\ CtlType
  <2>1. /\ fwd = "off" /\ back = "select" /\ buffer = {}
        /\ lastTS = [s \in All |-> 0] /\ out = <<>>
    BY DEF Init
  <2>2. out \in Seq(Record)
    BY <2>1
  <2>3. FwdType
    BY <2>1, <2>2 DEF FwdType
  <2> QED
    BY <2>3 DEF Init, CtlType
<1>2. PastType
  BY DEF Init, PastType, PastLast, NoPos, All
<1>3. FutType /\ FollowInv
  BY DEF Init, FutType, PcType, FollowInv, NoPos, Followers
<1> QED
  BY <1>1, <1>2, <1>3, <1>4 DEF TypeInv

\* Every reachable state of a stream has its type, for any sources, options and
\* events: no reader is past the end of its log.
THEOREM TypeCorrect == Spec => []TypeOK
<1>1. TypeInv /\ [Next]_vars => TypeInv'
  BY TypeStep
<1>2. TypeInv => TypeOK
  BY DEF TypeInv, TypeOK, EnvType, StartType, PastType, FutType, PcType, FwdType, CtlType
<1> QED
  BY <1>1, <1>2, TypeInit, PTL DEF Spec

-----------------------------------------------------------------------------
(* What the caller receives, and what is lost on the way: the invariants.  *)

\* The caller received it, or the forwarder is sending it.
Given == {out[i] : i \in 1..Len(out)} \cup (IF fwd = "send" THEN {cur} ELSE {})
PastGiven(s) == {r.pos : r \in {q \in Given : q.src = s /\ q.via = Past}}

\* The forwarder's first loop and its drain; what comes after them.
Joining == fwd \in {"off", "select", "drain"} \/ (fwd = "send" /\ back = "select")
Beyond  == fwd \in {"buffer", "range"} \/ (fwd = "send" /\ back \in {"buffer", "range"})

\* A log is written in the order of time.
LogInv ==
  /\ \A s \in All : \A p \in 1..Len(log[s]) : log[s][p] <= clock
  /\ "ties" \notin Events =>
       \A s \in All : \A p, q \in 1..Len(log[s]) : p < q => log[s][p] < log[s][q]

\* Where the goroutines are in relation to each other.
ControlInv ==
  /\ phase # "running" => fwd = "off"
  /\ phase \in {"new", "past"} => closing = "no"
  /\ phase = "new" => pastPc = "off"
  /\ fwd = "off" => out = <<>> /\ buffer = {}
  /\ pastPc \in {"off", "collect"} => Given = {} /\ \A s \in All : lastTS[s] = 0
  /\ fwd = "drain" \/ Beyond => pastPc = "closed"
  /\ Beyond => Follow
  /\ fwd = "send" => (cur.via = Past <=> back = "select")
  /\ \A r \in buffer : r.via # Past
  /\ fwd = "range" \/ (fwd = "send" /\ back = "range") => buffer = {}
  /\ Joining => \A r \in Given : r.via = Past
  /\ futClosed \/ closing # "no" => rootDone
  /\ outClosed /\ ~rootDone =>
       fwd = "done" /\ ~Follow /\ pastPc = "closed" /\ \A r \in Given : r.via = Past
  /\ fwd = "done" => outClosed
  /\ fwd = "panic" => rootDone

\* What was read of a log: the past phase is past the records it delivered,
\* a follower past those it sent, and those kept come after those given.
ReadInv ==
  /\ \A r \in Given : r.via = Past => r.src \in Sources /\ r.pos <= pastPos[r.src]
  /\ \A r \in Given \cup buffer : r.via # Past =>
       LET f == <<r.src, r.via>>
       IN futFrom[f] # NoPos /\ futFrom[f] < r.pos /\ r.pos <= futPos[f]
          /\ (futPc[f] = "send" => r.pos < futPos[f])
  /\ \A r \in Given, b \in buffer : r.src = b.src /\ r.via = b.via => r.pos < b.pos

OrderInv ==
  /\ OutOrder
  /\ fwd = "send" => \A i \in 1..Len(out) :
       /\ cur.via = Past => out[i].via = Past
       /\ out[i].src = cur.src /\ out[i].via = cur.via => out[i].pos < cur.pos

\* What the past phase delivered of each log, the last time it noted of it, how
\* much it delivered, and why it ended.
PastRead ==
  ~rootDone => \A s \in Sources : \E n \in 0..pastPos[s] :
    PastGiven(s) = (n + 1)..pastPos[s] /\ (Mode # "tail" => n = 0)

PastTime ==
  ~rootDone => \A s \in All : lastTS[s] # 0 =>
    /\ s \in Sources /\ pastPos[s] > 0 /\ lastTS[s] = log[s][pastPos[s]]
    /\ \E r \in Given : r.src = s /\ r.via = Past

PastTally ==
  ~rootDone /\ (\A r \in Given : r.via = Past) =>
    pastCount = Len(out) + (IF fwd = "send" THEN 1 ELSE 0)

PastOver ==
  ~rootDone /\ pastPc = "closed" /\ ~err =>
    \/ \A s \in Sources : pastEnd[s] # NoPos /\ pastPos[s] = pastEnd[s]
    \/ Mode = "head" /\ pastCount >= MaxNum

\* Once a kept record of s went on, no other one is covered by the past phase.
KeptInv ==
  Beyond => \A s \in All :
    (\E r \in Given : r.src = s /\ r.via # Past) =>
      lastTS[s] = 0 \/ \A b \in buffer : b.src = s => TS(b) > lastTS[s]

\* The record at p that follower f read was left out: the past phase delivered
\* s so far, and f none before it.
Skipped(f, p) ==
  /\ f[1] \in Sources /\ Beyond /\ p <= pastPos[f[1]]
  /\ \E r \in Given : r.src = f[1] /\ r.via = Past
  /\ \A r \in Given \cup buffer : r.src = f[1] /\ r.via = f[2] => p < r.pos

\* Each record that a follower read is given, kept, at its send, or left out.
FlowInv ==
  rootDone \/ err \/ phase = "failed" \/
    \A f \in Followers : futFrom[f] # NoPos =>
      \A p \in (futFrom[f] + 1)..futPos[f] :
        \/ Rec(f[1], p, f[2]) \in Given \cup buffer
        \/ p = futPos[f] /\ futPc[f] = "send"
        \/ Skipped(f, p)

-----------------------------------------------------------------------------
(* The logs, the forwarder and what its steps do to the records.           *)

\* The caller's receive gives nothing new, the other steps by what they send.
LEMMA GivenEffect ==
  ASSUME FwdType
  PROVE  /\ UNCHANGED <<fwd, cur, out>> => Given' = Given
         /\ fwd # "send" /\ fwd' # "send" /\ out' = out => Given' = Given
         /\ fwd # "send" /\ fwd' = "send" /\ out' = out => Given' = Given \cup {cur'}
         /\ fwd' # "send" /\ out' = out => Given' \subseteq Given
         /\ FwdOut => Given' = Given
         /\ Given \subseteq Record
<1>1. CASE FwdOut
  <2>1. /\ out \in Seq(Record) /\ out' = Append(out, cur) /\ fwd = "send" /\ fwd' # "send"
        /\ cur \in Record
    BY <1>1 DEF FwdOut, FwdType
  <2>2. Len(out') = Len(out) + 1 /\ Len(out) \in Nat
    BY <2>1
  <2>3. \A i \in 1..Len(out) : out'[i] = out[i]
    BY <2>1
  <2>4. out'[Len(out) + 1] = cur
    BY <2>1
  <2>5. {out'[i] : i \in 1..Len(out')} = {out[i] : i \in 1..Len(out)} \cup {cur}
    BY <2>2, <2>3, <2>4
  <2> QED
    BY <2>1, <2>5 DEF Given
<1>2. Given \subseteq Record
  BY DEF Given, FwdType
<1>3. /\ UNCHANGED <<fwd, cur, out>> => Given' = Given
      /\ fwd # "send" /\ fwd' # "send" /\ out' = out => Given' = Given
      /\ fwd # "send" /\ fwd' = "send" /\ out' = out => Given' = Given \cup {cur'}
      /\ fwd' # "send" /\ out' = out => Given' \subseteq Given
  BY DEF Given
<1> QED
  BY <1>1, <1>2, <1>3 DEF FwdOut

LEMMA LogStep ==
  ASSUME TypeInv, LogInv, [Next]_vars
  PROVE  LogInv'
<1>1. ASSUME UNCHANGED <<log, clock>> PROVE LogInv'
  BY <1>1 DEF LogInv
<1>2. ASSUME NEW s \in All, Write(s) PROVE LogInv'
  <2>1. /\ clock \in Nat /\ clock' \in Nat /\ clock <= clock'
        /\ "ties" \notin Events => clock < clock'
    BY <1>2 DEF Write, TypeInv, EnvType
  <2>2. log \in [All -> Seq(Nat \ {0})] /\ log' = [log EXCEPT ![s] = Append(@, clock')]
    BY <1>2 DEF Write, TypeInv, EnvType
  <2>3. Len(log[s]) \in Nat /\ Len(log'[s]) = Len(log[s]) + 1
    BY <2>2
  <2>4. \A p \in 1..Len(log[s]) : log'[s][p] = log[s][p] /\ log[s][p] \in Nat
    BY <2>2
  <2>5. log'[s][Len(log[s]) + 1] = clock'
    BY <2>2
  <2>6. \A t \in All \ {s} : log'[t] = log[t] /\ \A p \in 1..Len(log[t]) : log[t][p] \in Nat
    BY <2>2
  <2>7. \A p \in 1..Len(log'[s]) : p \in 1..Len(log[s]) \/ p = Len(log[s]) + 1
    BY <2>3
  <2>8. \A t \in All : \A p \in 1..Len(log'[t]) : log'[t][p] <= clock'
    BY <2>1, <2>4, <2>5, <2>6, <2>7 DEF LogInv
  <2>9. ASSUME "ties" \notin Events, NEW t \in All, NEW p \in 1..Len(log'[t]),
               NEW q \in 1..Len(log'[t]), p < q
        PROVE  log'[t][p] < log'[t][q]
    <3>1. CASE t # s
      BY <2>6, <2>9, <3>1 DEF LogInv
    <3>2. CASE t = s /\ q \in 1..Len(log[s])
      BY <2>3, <2>4, <2>9, <3>2 DEF LogInv
    <3>3. CASE t = s /\ q = Len(log[s]) + 1
      BY <2>1, <2>3, <2>4, <2>5, <2>9, <3>3, SMTT(20) DEF LogInv
    <3> QED
      BY <2>7, <3>1, <3>2, <3>3
  <2> QED
    BY <2>8, <2>9 DEF LogInv
<1>3. CASE StartStep \/ PastStep \/ PastErr
  BY <1>1, <1>3 DEF StartStep, StartPast, OpenFollow, StartDone, PastStep, PastEOF, PastCollect,
     PastSend, PastClose, PastErr, envVars
<1>4. CASE \E f \in Followers : FutStep(f) \/ FutErr(f) \/ FwdBuffer(f) \/ FwdRange(f)
  BY <1>1, <1>4 DEF FutStep, FutRecv, FutEOF, FutCancel, FutErr, FutCancelRoot, FutPanic,
     HandleAddDone, FwdBuffer, FwdRange, futRest, fwdRest, envVars
<1>5. CASE \/ FwdPastClosed \/ FwdDrained \/ FwdNext \/ FwdBufferEnd \/ FwdOut \/ FwdPanic
           \/ FwdReturn \/ CloseFuture \/ CtxDone \/ CloseCancel \/ CloseOut \/ UNCHANGED vars
  BY <1>1, <1>5 DEF FwdPastClosed, FwdDrained, FwdNext, FwdBufferEnd, FwdOut, FwdPanic,
     FwdReturn, CloseFuture, CtxDone, CloseCancel, CloseOut, fwdRest, ctlRest, envVars, vars
<1>6. CASE \E s \in All : Exit(s) \/ HandleDelete(s) \/ HandleAdd(s)
  BY <1>1, <1>6 DEF Exit, HandleDelete, HandleAdd, futRest, envVars
<1> QED
  BY <1>2, <1>3, <1>4, <1>5, <1>6 DEF Next, FwdStep, EnvStep

\* The variables that ControlInv speaks of.
LEMMA ControlFrame ==
  ASSUME ControlInv, UNCHANGED <<fwdVars, options, pastPc, futClosed, rootDone, closing>>,
         phase' = "new" => phase = "new", phase' # "running" => fwd = "off", phase' \in {"new", "past"} => closing = "no"
  PROVE  ControlInv'
BY DEF ControlInv, fwdVars, Given, Joining, Beyond, Follow

LEMMA ControlStep ==
  ASSUME TypeInv, ControlInv, [Next]_vars
  PROVE  ControlInv'
<1>1. CASE \E s \in All : Write(s) \/ Exit(s) \/ HandleDelete(s) \/ HandleAdd(s)
  BY <1>1, ControlFrame DEF ControlInv, Write, Exit, HandleDelete, HandleAdd, futRest,
     envVars, startVars,
     pastVars, ctlVars
<1>2. CASE UNCHANGED vars
  BY <1>2, ControlFrame DEF ControlInv, vars, envVars, startVars, pastVars, ctlVars
<1>3. CASE StartPast
  <2>1. fwd = "off"
    BY <1>3 DEF StartPast, ControlInv
  <2>2. Given' = Given
    BY <1>3, GivenEffect DEF StartPast, fwdVars, TypeInv
  <2> QED
    BY <1>3, <2>1, <2>2 DEF StartPast, ControlInv, Joining, Beyond, Follow, envVars, fwdVars,
       ctlVars
<1>4. CASE \E s \in Sources : OpenFollow(s)
  BY <1>4, ControlFrame DEF OpenFollow, ControlInv, envVars, pastVars, fwdVars, ctlVars
<1>5. CASE StartDone
  <2>1. fwd = "off" /\ fwd' = "select" /\ closing = "no" /\ out = <<>> /\ buffer = {}
        /\ (outClosed => rootDone)
    BY <1>5 DEF StartDone, ControlInv
  <2>2. Given = {}
    BY <2>1 DEF Given
  <2>3. Given' = {}
    BY <1>5, <2>1, <2>2, GivenEffect DEF StartDone, TypeInv
  <2> QED
    BY <1>5, <2>1, <2>2, <2>3 DEF StartDone, ControlInv, Joining, Beyond, Follow, envVars,
       pastVars, ctlVars
<1>6. CASE \E s \in Sources : PastEOF(s)
  BY <1>6, ControlFrame DEF PastEOF, ControlInv, envVars, startVars, fwdVars, ctlVars
<1>7. CASE PastCollect \/ PastClose \/ PastErr
  <2>1. Given' = Given
    BY <1>7, GivenEffect DEF PastCollect, PastClose, PastErr, fwdVars, TypeInv
  <2> QED
    BY <1>7, <2>1 DEF PastCollect, PastClose, PastErr, ControlInv, Joining, Beyond, Follow,
       envVars, startVars, fwdVars, ctlVars
<1>8. CASE PastSend
  <2>1. Given' = Given \cup {cur'} /\ cur'.via = Past
    BY <1>8, GivenEffect DEF PastSend, TypeInv, Rec
  <2>2. /\ fwd = "select" /\ fwd' = "send" /\ back' = "select" /\ pastPc = "merge" /\ ~rootDone
        /\ pastPc' \in {"merge", "closed"}
        /\ UNCHANGED <<phase, closing, buffer, out, outClosed, futClosed, rootDone, options>>
    BY <1>8 DEF PastSend, envVars, startVars, ctlVars
  <2> QED
    BY <2>1, <2>2 DEF ControlInv, Joining, Beyond, Follow
<1>9. CASE \E f \in Followers : FutRecv(f) \/ FutEOF(f) \/ FutCancel(f) \/ FutErr(f) \/ FutPanic(f)
                                  \/ HandleAddDone(f)
  BY <1>9, ControlFrame DEF ControlInv, FutRecv, FutEOF, FutCancel, FutErr, FutPanic,
     HandleAddDone, futRest, envVars, startVars, pastVars, ctlVars
<1>10. CASE (\E f \in Followers : FutCancelRoot(f)) \/ CloseFuture \/ CtxDone \/ CloseCancel \/ CloseOut
  <2>1. Given' = Given
    BY <1>10, GivenEffect DEF FutCancelRoot, CloseFuture, CtxDone, CloseCancel, CloseOut,
       fwdVars,
       ctlRest, futRest, TypeInv
  <2>2. /\ UNCHANGED <<fwd, back, cur, buffer, lastTS, out, options, phase, pastPc>>
        /\ rootDone => rootDone'
    BY <1>10 DEF FutCancelRoot, CloseFuture, CtxDone, CloseCancel, CloseOut, futRest, ctlRest,
       envVars, startVars, pastVars, fwdVars
  <2>3. /\ futClosed' \/ closing' # "no" => rootDone'
        /\ outClosed' /\ ~rootDone' => outClosed
        /\ outClosed => outClosed'
        /\ phase \in {"new", "past"} => closing' = "no"
    BY <1>10 DEF FutCancelRoot, CloseFuture, CtxDone, CloseCancel, CloseOut, futRest, ctlRest,
       fwdVars, ControlInv
  <2> QED
    BY <2>1, <2>2, <2>3 DEF ControlInv, Joining, Beyond, Follow
<1>11. CASE \E f \in Followers : FwdBuffer(f)
  <2>1. Given' = Given
    BY <1>11, GivenEffect DEF FwdBuffer, TypeInv
  <2>2. \A f \in Followers : FutRecord(f).via # Past
    BY StreamAssumption DEF Followers, FutRecord, Rec, Past
  <2> QED
    BY <1>11, <2>1, <2>2 DEF FwdBuffer, ControlInv, Joining, Beyond, Follow, fwdRest,
       envVars, startVars,
       pastVars, ctlVars
<1>12. CASE FwdPastClosed \/ FwdDrained \/ FwdBufferEnd
  <2>1. Given' = Given
    BY <1>12, GivenEffect DEF FwdPastClosed, FwdDrained, FwdBufferEnd, TypeInv
  <2> QED
    BY <1>12, <2>1 DEF FwdPastClosed, FwdDrained, FwdBufferEnd, ControlInv, Joining, Beyond,
       Follow,
       fwdRest, envVars, startVars, pastVars, ctlVars
<1>13. CASE (\E f \in Followers : FwdRange(f)) \/ FwdNext
  <2>1. /\ UNCHANGED <<options, phase, pastPc, out, outClosed, futClosed, rootDone, closing>>
        /\ fwd \in {"buffer", "range"}
        /\ \/ /\ fwd' = "send" /\ back' = fwd /\ (fwd = "range" => buffer' = buffer)
              /\ cur' \in buffer \/ \E f \in Followers : cur' = FutRecord(f)
           \/ fwd = "buffer" /\ UNCHANGED <<fwd, back, cur>>
        /\ buffer' \subseteq buffer
    BY <1>13 DEF FwdRange, FwdNext, fwdRest, envVars, startVars, pastVars, ctlVars
  <2>2. \A f \in Followers : FutRecord(f).via # Past
    BY StreamAssumption DEF Followers, FutRecord, Rec, Past
  <2>3. fwd = "range" => buffer' = {}
    BY <2>1 DEF ControlInv
  <2>4. \A r \in buffer : r.via # Past
    BY DEF ControlInv
  <2>5. CASE fwd' = "send"
    BY <2>1, <2>2, <2>3, <2>4, <2>5 DEF ControlInv, Joining, Beyond, Follow
  <2>6. CASE UNCHANGED <<fwd, back, cur>>
    <3>1. Given' = Given
      BY <2>1, <2>6, GivenEffect DEF TypeInv
    <3> QED
      BY <2>1, <2>6, <3>1 DEF ControlInv, Joining, Beyond, Follow
  <2> QED
    BY <2>1, <2>5, <2>6 DEF ControlInv, Joining, Beyond, Follow
<1>14. CASE FwdOut
  <2>1. Given' = Given
    BY <1>14, GivenEffect DEF FwdOut, TypeInv
  <2> QED
    BY <1>14, <2>1 DEF FwdOut, ControlInv, Joining, Beyond, Follow, TypeInv, FwdType,
       fwdRest, envVars, startVars,
       pastVars, ctlVars
<1>15. CASE FwdPanic \/ FwdReturn
  <2>1. Given' \subseteq Given
    BY <1>15, GivenEffect DEF FwdPanic, FwdReturn, TypeInv
  <2> QED
    BY <1>15, <2>1 DEF FwdPanic, FwdReturn, ControlInv, Joining, Beyond, Follow, fwdRest,
       envVars, startVars,
       pastVars, ctlVars
<1> QED
  BY <1>1, <1>2, <1>3, <1>4, <1>5, <1>6, <1>7, <1>8, <1>9, <1>10, <1>11, <1>12, <1>13, <1>14,
     <1>15
  DEF Next, StartStep, PastStep, FutStep, FwdStep, EnvStep

\* What every step keeps of the logs, the options and the followers.
Grows ==
  /\ options' = options
  /\ rootDone => rootDone' 
  /\ err => err'
  /\ phase = "failed" => phase' = "failed"
  /\ \A s \in All : \A p \in 1..Len(log[s]) : p \in 1..Len(log'[s]) /\ log'[s][p] = log[s][p]
  /\ \A f \in Followers : futFrom[f] # NoPos =>
       /\ futFrom'[f] = futFrom[f] /\ futPos[f] <= futPos'[f]
       /\ futPc'[f] = "send" => futPos[f] < futPos'[f] \/ futPc[f] = "send"

\* A step that changes one follower, and neither log nor options, keeps them.
LEMMA GrowsFrame ==
  ASSUME TypeInv, UNCHANGED <<options, log>>, rootDone => rootDone', err => err',
         phase = "failed" => phase' = "failed",
         \/ UNCHANGED futVars
         \/ \E f \in Followers : /\ UNCHANGED <<futPos, futFrom>>
                                 /\ futPc'[f] # "send" /\ \A g \in Followers \ {f} : futPc'[g] = futPc[g]
         \/ \E f \in Followers : /\ UNCHANGED futFrom
                                 /\ futPos'[f] = futPos[f] + 1 /\ \A g \in Followers \ {f} : futPos'[g] = futPos[g]
                                 /\ \A g \in Followers \ {f} : futPc'[g] = futPc[g]
         \/ \E f \in Followers : /\ futFrom[f] = NoPos
                                 /\ \A g \in Followers \ {f} : /\ futPos'[g] = futPos[g] /\ futPc'[g] = futPc[g]
                                                             /\ futFrom'[g] = futFrom[g]
  PROVE  Grows
BY DEF TypeInv, FutType, PcType, Grows, futVars

LEMMA GrowsStep ==
  ASSUME TypeInv, ControlInv, [Next]_vars
  PROVE  Grows
<1>1. ASSUME NEW s \in All, Write(s) PROVE Grows
  <2>1. \A t \in All : \A p \in 1..Len(log[t]) : p \in 1..Len(log'[t]) /\ log'[t][p] = log[t][p]
    BY <1>1 DEF Write, TypeInv, EnvType
  <2>2. UNCHANGED <<options, futVars, phase, rootDone, err>>
    BY <1>1 DEF Write, startVars, ctlVars
  <2> QED
    BY <2>1, <2>2 DEF Grows, futVars, TypeInv, FutType
<1>2. CASE \E s \in All : Exit(s) \/ HandleDelete(s)
  BY <1>2, GrowsFrame DEF Exit, HandleDelete, envVars, startVars, ctlVars
<1>3. CASE UNCHANGED vars
  BY <1>3, GrowsFrame DEF vars, envVars, startVars, ctlVars
<1>4. ASSUME NEW s \in All, HandleAdd(s) PROVE Grows
  <2>1. /\ UNCHANGED <<options, log, phase, rootDone>> /\ (err => err') /\ UNCHANGED <<futPos, futFrom>>
    BY <1>4 DEF HandleAdd, futRest, envVars, startVars
  <2>2. CASE UNCHANGED futPc
    BY <2>1, <2>2, GrowsFrame DEF futVars
  <2>3. ASSUME NEW k \in 1..MaxAdds, futPc' = [futPc EXCEPT ![<<s, k>>] = "opened"] PROVE Grows
    <3>1. <<s, k>> \in Followers
      BY <2>3, StreamAssumption DEF Followers
    <3>2. futPc'[<<s, k>>] = "opened" /\ \A g \in Followers \ {<<s, k>>} : futPc'[g] = futPc[g]
      BY <2>3, <3>1 DEF TypeInv, FutType, PcType
    <3> QED
      BY <2>1, <3>1, <3>2, GrowsFrame
  <2> QED
    BY <1>4, <2>2, <2>3 DEF HandleAdd
<1>5. CASE StartPast \/ StartDone
  BY <1>5, GrowsFrame DEF StartPast, StartDone, envVars, ctlVars
<1>6. ASSUME NEW s \in Sources, OpenFollow(s) PROVE Grows
  <2>1. <<s, 0>> \in Followers /\ futFrom[<<s, 0>>] = NoPos
    BY <1>6, StreamAssumption DEF OpenFollow, Followers, All, TypeInv, FollowInv
  <2>2. \A g \in Followers \ {<<s, 0>>} : /\ futPos'[g] = futPos[g] /\ futPc'[g] = futPc[g]
                                          /\ futFrom'[g] = futFrom[g]
    BY <1>6 DEF OpenFollow, futVars, TypeInv, FutType, PcType
  <2>3. UNCHANGED <<options, log, rootDone, err>> /\ phase # "failed"
    BY <1>6 DEF OpenFollow, envVars, ctlVars
  <2> QED
    BY <2>1, <2>2, <2>3, GrowsFrame
<1>7. CASE PastStep \/ PastErr
  BY <1>7, GrowsFrame DEF PastStep, PastEOF, PastCollect, PastSend, PastClose, PastErr,
     envVars, startVars, ctlVars
<1>8. ASSUME NEW f \in Followers, FutEOF(f) \/ FutCancel(f) \/ FutErr(f) \/ FutCancelRoot(f) \/ FutPanic(f)
                                  \/ FwdBuffer(f) \/ FwdRange(f)
      PROVE  Grows
  <2>1. /\ UNCHANGED <<options, log, phase, futPos, futFrom>> /\ (rootDone => rootDone') /\ (err => err')
        /\ \E v \in {"done", "errset", "panic", "recv"} : futPc' = [futPc EXCEPT ![f] = v]
    BY <1>8 DEF FutEOF, FutCancel, FutErr, FutCancelRoot, FutPanic, FwdBuffer, FwdRange,
       FutSent, futRest, fwdRest,
       envVars, startVars, ctlVars
  <2>2. futPc'[f] # "send" /\ \A g \in Followers \ {f} : futPc'[g] = futPc[g]
    BY <2>1 DEF TypeInv, FutType, PcType
  <2> QED
    BY <2>1, <2>2, GrowsFrame
<1>9. ASSUME NEW f \in Followers, FutRecv(f) PROVE Grows
  <2>1. /\ futPos'[f] = futPos[f] + 1 /\ \A g \in Followers \ {f} : futPos'[g] = futPos[g]
        /\ \A g \in Followers \ {f} : futPc'[g] = futPc[g]
    BY <1>9 DEF FutRecv, TypeInv, FutType, PcType
  <2>2. UNCHANGED <<options, log, phase, rootDone, err, futFrom>>
    BY <1>9 DEF FutRecv, futRest, envVars, startVars, ctlVars
  <2> QED
    BY <2>1, <2>2, GrowsFrame
<1>10. ASSUME NEW f \in Followers, HandleAddDone(f) PROVE Grows
  <2>1. futFrom[f] = NoPos
    BY <1>10 DEF HandleAddDone, TypeInv, FollowInv
  <2>2. \A g \in Followers \ {f} : /\ futPos'[g] = futPos[g] /\ futPc'[g] = futPc[g]
                                   /\ futFrom'[g] = futFrom[g]
    BY <1>10 DEF HandleAddDone, TypeInv, FutType, PcType
  <2>3. UNCHANGED <<options, log, phase, rootDone, err>>
    BY <1>10 DEF HandleAddDone, envVars, ctlVars
  <2> QED
    BY <2>1, <2>2, <2>3, GrowsFrame
<1>11. CASE FwdPastClosed \/ FwdDrained \/ FwdNext \/ FwdBufferEnd \/ FwdOut \/ FwdPanic \/ FwdReturn
  BY <1>11, GrowsFrame DEF FwdPastClosed, FwdDrained, FwdNext, FwdBufferEnd, FwdOut, FwdPanic,
     FwdReturn, fwdRest, envVars, startVars, ctlVars
<1>12. CASE CloseFuture \/ CtxDone \/ CloseCancel \/ CloseOut
  BY <1>12, GrowsFrame DEF CloseFuture, CtxDone, CloseCancel, CloseOut, ctlRest, envVars,
     startVars
<1> QED
  BY <1>1, <1>2, <1>3, <1>4, <1>5, <1>6, <1>7, <1>8, <1>9, <1>10, <1>11, <1>12
  DEF Next, StartStep, FutStep, FwdStep, EnvStep

\* A step that gives or keeps no record.
Still ==
  /\ buffer' = buffer /\ lastTS' = lastTS
  /\ Given' \subseteq Given
  /\ ~rootDone' => Given' = Given
  /\ Beyond' => Beyond \/ \A r \in Given : r.via = Past
  /\ ~rootDone' /\ Beyond => Beyond'

LEMMA StillFrame ==
  ASSUME FwdType, UNCHANGED fwdVars
  PROVE  Still
BY GivenEffect DEF Still, Beyond, fwdVars

\* Only four actions give or keep records.
LEMMA StillStep ==
  ASSUME TypeInv, ControlInv, [Next]_vars
  PROVE  \/ Still \/ PastSend \/ FwdNext
         \/ \E f \in Followers : FwdBuffer(f) \/ FwdRange(f)
<1>1. CASE (\E s \in All : Write(s) \/ Exit(s) \/ HandleDelete(s) \/ HandleAdd(s)) \/ UNCHANGED vars
  BY <1>1, StillFrame DEF Write, Exit, HandleDelete, HandleAdd, futRest, vars, TypeInv
<1>2. CASE StartPast \/ (\E s \in Sources : OpenFollow(s)) \/ (\E s \in Sources : PastEOF(s))
           \/ PastCollect \/ PastClose \/ PastErr
  BY <1>2, StillFrame DEF StartPast, OpenFollow, PastEOF, PastCollect, PastClose, PastErr,
     TypeInv
<1>3. CASE \E f \in Followers : FutStep(f) \/ FutErr(f)
  BY <1>3, StillFrame DEF FutStep, FutRecv, FutEOF, FutCancel, FutErr, FutCancelRoot, FutPanic,
     HandleAddDone, futRest, TypeInv
<1>4. CASE CloseFuture \/ CtxDone \/ CloseCancel \/ CloseOut
  BY <1>4, GivenEffect DEF CloseFuture, CtxDone, CloseCancel, CloseOut, ctlRest, fwdVars,
     Still, Beyond, TypeInv
<1>5. CASE StartDone
  <2>1. fwd = "off"
    BY <1>5 DEF StartDone, ControlInv
  <2> QED
    BY <1>5, <2>1, GivenEffect DEF StartDone, Still, Beyond, TypeInv
<1>6. CASE FwdPastClosed \/ FwdDrained \/ FwdBufferEnd
  BY <1>6, GivenEffect DEF FwdPastClosed, FwdDrained, FwdBufferEnd, Still, Beyond, TypeInv,
     ControlInv, Joining
<1>7. CASE FwdOut
  <2>1. Given' = Given
    BY <1>7, GivenEffect DEF TypeInv
  <2> QED
    BY <1>7, <2>1 DEF FwdOut, Still, Beyond, TypeInv, FwdType
<1>8. CASE FwdPanic
  BY <1>8, GivenEffect DEF FwdPanic, Still, Beyond, TypeInv, ControlInv, fwdRest, ctlVars
<1>9. CASE FwdReturn
  <2>1. fwd' = "done" /\ UNCHANGED <<buffer, lastTS, out, cur, rootDone>>
    BY <1>9 DEF FwdReturn, fwdRest, ctlVars
  <2>2. ~rootDone => fwd \in {"select", "drain"}
    BY <1>9 DEF FwdReturn, ControlInv
  <2> QED
    BY <2>1, <2>2, GivenEffect DEF Still, Beyond, TypeInv
<1> QED
  BY <1>1, <1>2, <1>3, <1>4, <1>5, <1>6, <1>7, <1>8, <1>9
  DEF Next, StartStep, PastStep, FwdStep, EnvStep

\* The steps that give or keep a record, by what they do to it.
LEMMA PastSends ==
  ASSUME TypeInv, ControlInv, PastSend
  PROVE  \E s \in Sources :
           /\ Given' = Given \cup {Rec(s, pastPos[s] + 1, Past)}
           /\ cur' = Rec(s, pastPos[s] + 1, Past)
           /\ pastPos[s] + 1 \in 1..Len(log[s])
           /\ pastPos' = [pastPos EXCEPT ![s] = @ + 1]
           /\ lastTS' = [lastTS EXCEPT ![s] = log[s][pastPos[s] + 1]]
           /\ fwd = "select" /\ fwd' = "send" /\ back' = "select"
           /\ buffer' = buffer /\ out' = out /\ log' = log /\ pastCount' = pastCount + 1
           /\ \A r \in Given : r.via = Past
<1>1. PICK s \in Sources :
        /\ pastPos[s] < PastLast(s) /\ pastPos' = [pastPos EXCEPT ![s] = @ + 1]
        /\ cur' = Rec(s, pastPos[s] + 1, Past)
        /\ lastTS' = [lastTS EXCEPT ![s] = log[s][pastPos[s] + 1]]
  BY DEF PastSend
<1>2. pastPos[s] + 1 \in 1..Len(log[s])
  BY <1>1 DEF TypeInv, PastType, PastLast, EnvType, All, NoPos
<1>3. Given' = Given \cup {cur'}
  BY GivenEffect DEF PastSend, TypeInv
<1> QED
  BY <1>1, <1>2, <1>3 DEF PastSend, ControlInv, Joining, envVars

LEMMA FollowerSends ==
  ASSUME TypeInv, ControlInv, NEW f \in Followers, FwdBuffer(f) \/ FwdRange(f)
  PROVE  /\ FutRecord(f) = Rec(f[1], futPos[f], f[2]) /\ FutRecord(f) \in Record
         /\ FutRecord(f).via # Past
         /\ futPc[f] = "send" /\ futPc' = [futPc EXCEPT ![f] = "recv"] /\ UNCHANGED <<futPos, futFrom>>
         /\ UNCHANGED <<log, pastPos, lastTS, out, pastCount, pastPc, pastEnd>>
         /\ \/ /\ FwdBuffer(f)
               /\ Given' = Given /\ buffer' = buffer \cup {FutRecord(f)} /\ Joining /\ ~Beyond
               /\ UNCHANGED <<fwd, back, cur>>
            \/ /\ FwdRange(f)
               /\ Given' = Given \cup {FutRecord(f)} /\ cur' = FutRecord(f) /\ buffer = {} /\ buffer' = {}
               /\ Beyond /\ Beyond' /\ fwd' = "send" /\ fwd = "range"
<1>1. /\ futPc[f] = "send" /\ futPc' = [futPc EXCEPT ![f] = "recv"] /\ UNCHANGED <<futPos, futFrom>>
      /\ UNCHANGED <<log, pastPos, lastTS, out, pastCount, pastPc, pastEnd>>
  BY DEF FwdBuffer, FwdRange, FutSent, fwdRest, envVars, pastVars
<1>2. FutRecord(f) \in Record /\ FutRecord(f).via # Past
  BY <1>1, SentRecord, StreamAssumption DEF TypeInv, Followers, FutRecord, Rec, Past
<1>3. CASE FwdBuffer(f)
  BY <1>1, <1>2, <1>3, GivenEffect DEF FwdBuffer, FutRecord, TypeInv, Joining, Beyond
<1>4. CASE FwdRange(f)
  BY <1>1, <1>2, <1>4, GivenEffect DEF FwdRange, FutRecord, TypeInv, ControlInv, Beyond
<1> QED
  BY <1>3, <1>4

\* The past phase's variables change in its own steps.
LEMMA PastFrame ==
  ASSUME [Next]_vars
  PROVE  UNCHANGED pastVars \/ StartPast \/ PastStep \/ PastErr
<1>1. CASE \E s \in All : Write(s) \/ Exit(s) \/ HandleDelete(s) \/ HandleAdd(s)
  BY <1>1 DEF Write, Exit, HandleDelete, HandleAdd, futRest
<1>2. CASE (\E s \in Sources : OpenFollow(s)) \/ StartDone \/ UNCHANGED vars
  BY <1>2 DEF OpenFollow, StartDone, vars
<1>3. CASE \E f \in Followers : FutStep(f) \/ FutErr(f) \/ FwdBuffer(f) \/ FwdRange(f)
  BY <1>3 DEF FutStep, FutRecv, FutEOF, FutCancel, FutErr, FutCancelRoot, FutPanic,
     HandleAddDone,
     FwdBuffer, FwdRange, futRest, fwdRest
<1>4. CASE FwdPastClosed \/ FwdDrained \/ FwdNext \/ FwdBufferEnd \/ FwdOut \/ FwdPanic \/ FwdReturn
  BY <1>4 DEF FwdPastClosed, FwdDrained, FwdNext, FwdBufferEnd, FwdOut, FwdPanic, FwdReturn,
     fwdRest
<1>5. CASE CloseFuture \/ CtxDone \/ CloseCancel \/ CloseOut
  BY <1>5 DEF CloseFuture, CtxDone, CloseCancel, CloseOut, ctlRest
<1> QED
  BY <1>1, <1>2, <1>3, <1>4, <1>5 DEF Next, StartStep, FwdStep, EnvStep

\* The past phase's places and its readers' records change together.
LEMMA PlaceFrame ==
  ASSUME TypeInv, ControlInv, [Next]_vars
  PROVE  \/ PastSend \/ pastPos' = pastPos
         \/ /\ PastCollect /\ Given = {} /\ Given' = {} /\ options' = options /\ Mode = "tail"
            /\ \A s \in All : lastTS[s] = 0
<1>1. CASE PastCollect /\ Mode = "tail"
  BY <1>1, GivenEffect DEF PastCollect, ControlInv, fwdVars, TypeInv, envVars
<1>2. CASE PastCollect /\ Mode # "tail"
  BY <1>2 DEF PastCollect
<1> QED
  BY <1>1, <1>2, PastFrame DEF pastVars, StartPast, PastStep, PastEOF, PastClose, PastErr

\* (the record is given, or the past phase covered it)
Goes(r) == /\ Given' = Given \cup {r} /\ cur' = r /\ fwd' = "send" /\ lastTS' = lastTS
           /\ ~(lastTS[r.src] # 0 /\ TS(r) <= lastTS[r.src])
Covered(r) == /\ Given' = Given /\ UNCHANGED <<fwd, back, cur>>
              /\ lastTS[r.src] # 0 /\ TS(r) <= lastTS[r.src]
              /\ lastTS' \in {lastTS, [lastTS EXCEPT ![r.src] = 0]}

\* What the forwarder does with the earliest kept record.
LEMMA NextKept ==
  ASSUME TypeInv, ControlInv, FwdNext
  PROVE  \E r \in buffer :
           /\ \A q \in buffer : TS(r) <= TS(q)
           /\ buffer' = buffer \ {r}
           /\ Goes(r) \/ Covered(r)
           /\ Beyond /\ Beyond' /\ fwd = "buffer"
           /\ UNCHANGED <<log, futVars, pastPos, out, pastCount, pastPc, pastEnd>>
<1>1. PICK r \in buffer :
       /\ \A q \in buffer : TS(r) <= TS(q)
       /\ buffer' = buffer \ {r}
       /\ IF lastTS[r.src] # 0 /\ TS(r) <= lastTS[r.src]
            THEN /\ lastTS' = IF TS(r) = lastTS[r.src]
                                THEN [lastTS EXCEPT ![r.src] = 0] ELSE lastTS
                 /\ UNCHANGED <<fwd, back, cur>>
            ELSE /\ cur' = r /\ fwd' = "send" /\ back' = "buffer"
                 /\ UNCHANGED lastTS
  BY DEF FwdNext
<1>2. fwd = "buffer" /\ UNCHANGED <<log, futVars, pastPos, out, pastCount, pastPc, pastEnd>>
  BY DEF FwdNext, fwdRest, envVars, pastVars
<1>3. CASE lastTS[r.src] # 0 /\ TS(r) <= lastTS[r.src]
  <2>1. Given' = Given
    BY <1>1, <1>2, <1>3, GivenEffect DEF TypeInv
  <2>2. lastTS' \in {lastTS, [lastTS EXCEPT ![r.src] = 0]} /\ UNCHANGED <<fwd, back, cur>>
    BY <1>1, <1>3
  <2> QED
    BY <1>1, <1>2, <1>3, <2>1, <2>2 DEF Covered, Beyond
<1>4. CASE ~(lastTS[r.src] # 0 /\ TS(r) <= lastTS[r.src])
  <2>1. cur' = r /\ fwd' = "send" /\ back' = "buffer" /\ lastTS' = lastTS
    BY <1>1, <1>4
  <2>2. Given' = Given \cup {r}
    BY <1>2, <2>1, GivenEffect DEF TypeInv
  <2> QED
    BY <1>1, <1>2, <1>4, <2>1, <2>2 DEF Goes, Beyond
<1> QED
  BY <1>3, <1>4

-----------------------------------------------------------------------------
(* The order of the records.                                               *)

\* ReadInv's condition on a follower's record.
ReadBy(r) ==
  LET f == <<r.src, r.via>>
  IN futFrom[f] # NoPos /\ futFrom[f] < r.pos /\ r.pos <= futPos[f]
     /\ (futPc[f] = "send" => r.pos < futPos[f])

LEMMA RecordOf ==
  ASSUME NEW r \in Record
  PROVE  /\ r.src \in All /\ r.pos \in Nat \ {0} /\ r.via \in {Past} \cup (0..MaxAdds)
         /\ r.via # Past => <<r.src, r.via>> \in Followers
         /\ r = Rec(r.src, r.pos, r.via)
BY DEF Record, Followers, Rec

LEMMA ReadByGrows ==
  ASSUME TypeInv, Grows, NEW r \in Record, r.via # Past, ReadBy(r), 
         FutType'
  PROVE  ReadBy(r)'
<1> DEFINE f == <<r.src, r.via>>
<1>1. f \in Followers /\ r.pos \in Nat
  BY RecordOf
<1>2. /\ futFrom'[f] = futFrom[f] /\ futPos[f] <= futPos'[f]
      /\ futPc'[f] = "send" => futPos[f] < futPos'[f] \/ futPc[f] = "send"
  BY <1>1 DEF Grows, ReadBy
<1>3. futPos[f] \in Nat /\ futPos'[f] \in Nat
  BY <1>1 DEF TypeInv, FutType
<1> HIDE DEF f
<1>4. /\ futFrom[f] # NoPos /\ futFrom[f] < r.pos /\ r.pos <= futPos[f]
      /\ (futPc[f] = "send" => r.pos < futPos[f])
  BY DEF ReadBy, f
<1>5. /\ futFrom'[f] # NoPos /\ futFrom'[f] < r.pos /\ r.pos <= futPos'[f]
      /\ (futPc'[f] = "send" => r.pos < futPos'[f])
  BY <1>1, <1>2, <1>3, <1>4
<1> QED
  BY <1>5 DEF ReadBy, f

\* A record that was read is in its log.
LEMMA InLog ==
  ASSUME TypeInv, ControlInv, ReadInv, NEW r \in Given \cup buffer
  PROVE  r \in Record /\ r.pos \in 1..Len(log[r.src]) /\ TS(r) \in Nat \ {0}
<1>1. r \in Record
  BY GivenEffect DEF TypeInv, FwdType
<1>2. /\ r.src \in All /\ r.pos \in Nat \ {0}
      /\ r.via # Past => <<r.src, r.via>> \in Followers
  BY <1>1, RecordOf
<1>3. Len(log[r.src]) \in Nat /\ log[r.src] \in Seq(Nat \ {0})
  BY <1>2 DEF TypeInv, EnvType
<1>4. CASE r.via = Past
  <2>1. r.src \in Sources /\ r.pos <= pastPos[r.src]
    BY <1>4 DEF ReadInv, ControlInv
  <2>2. pastPos[r.src] \in Nat /\ pastPos[r.src] <= Len(log[r.src])
    BY <2>1, <1>3 DEF TypeInv, PastType, PastLast, NoPos
  <2>3. r.pos \in 1..Len(log[r.src])
    BY <1>2, <1>3, <2>1, <2>2
  <2> QED
    BY <1>1, <1>3, <2>3 DEF TS
<1>5. CASE r.via # Past
  <2>1. r.pos <= futPos[<<r.src, r.via>>]
    BY <1>5 DEF ReadInv
  <2>2. futPos[<<r.src, r.via>>] \in Nat /\ futPos[<<r.src, r.via>>] <= Len(log[r.src])
    BY <1>2, <1>5 DEF TypeInv, FutType
  <2>3. r.pos \in 1..Len(log[r.src])
    BY <1>2, <1>3, <2>1, <2>2
  <2> QED
    BY <1>1, <1>3, <2>3 DEF TS
<1> QED
  BY <1>4, <1>5

\* Without ties the times of a log's records order them as their places do.
LEMMA TimeOrder ==
  ASSUME "ties" \notin Events, TypeInv, LogInv, NEW s \in All,
         NEW p \in 1..Len(log[s]), NEW q \in 1..Len(log[s]), log[s][p] <= log[s][q]
  PROVE  p <= q
<1>1. log[s][p] \in Nat /\ log[s][q] \in Nat
  BY DEF TypeInv, EnvType
<1>2. q < p => log[s][q] < log[s][p]
  BY DEF LogInv
<1> QED
  BY <1>1, <1>2

\* The kept records of a follower behind the earliest one are later ones.
LEMMA KeptLater ==
  ASSUME "ties" \notin Events, TypeInv, LogInv, ControlInv, ReadInv, NEW r \in buffer,
         NEW q \in buffer \ {r},
         TS(r) <= TS(q), r.src = q.src, r.via = q.via
  PROVE  r.pos < q.pos
<1>1. /\ r \in Record /\ r.pos \in 1..Len(log[r.src])
      /\ q \in Record /\ q.pos \in 1..Len(log[r.src])
  BY InLog
<1>2. r.pos <= q.pos
  BY <1>1, TimeOrder, RecordOf DEF TS
<1>3. r.pos # q.pos
  BY <1>1, RecordOf
<1> QED
  BY <1>1, <1>2, <1>3

LEMMA ReadStep ==
  ASSUME "ties" \notin Events, TypeInv, LogInv, ControlInv, ReadInv, [Next]_vars
  PROVE  ReadInv'
<1>1. TypeInv' /\ Grows /\ Given \cup buffer \subseteq Record
  BY TypeStep, GrowsStep, GivenEffect DEF TypeInv, FwdType
<1>2. \A r \in Given \cup buffer : r.via # Past => ReadBy(r) /\ ReadBy(r)'
  BY <1>1, ReadByGrows DEF ReadInv, ReadBy, TypeInv
<1>3. ASSUME Given' \subseteq Given, buffer' \subseteq buffer,
             \A r \in Given' : r.via = Past => r.src \in Sources /\ r.pos <= pastPos'[r.src]
      PROVE  ReadInv'
  BY <1>2, <1>3 DEF ReadInv, ReadBy
<1>4. CASE Still
  <2>1. CASE PastCollect
    <3>1. Given = {}
      BY <2>1 DEF PastCollect, ControlInv
    <3> QED
      BY <1>3, <1>4, <3>1 DEF Still
  <2>2. ASSUME pastPos' = pastPos PROVE ReadInv'
    BY <1>3, <1>4, <2>2 DEF Still, ReadInv
  <2>3. CASE PastSend
    <3> PICK s \in Sources : /\ pastPos[s] + 1 \in 1..Len(log[s])
                             /\ pastPos' = [pastPos EXCEPT ![s] = @ + 1]
      BY <2>3, PastSends
    <3>1. \A t \in Sources : pastPos[t] \in Nat /\ pastPos[t] <= pastPos'[t] /\ pastPos'[t] \in Nat
      BY DEF TypeInv, PastType
    <3>2. \A r \in Given : r.pos \in Nat
      BY <1>1, RecordOf
    <3> QED
      BY <1>3, <1>4, <3>1, <3>2 DEF Still, ReadInv
  <2>4. PastCollect \/ PastSend \/ pastPos' = pastPos
    BY PlaceFrame
  <2> QED
    BY <2>1, <2>2, <2>3, <2>4
<1>5. CASE PastSend
  <2> PICK s \in Sources :
           /\ Given' = Given \cup {Rec(s, pastPos[s] + 1, Past)}
           /\ pastPos' = [pastPos EXCEPT ![s] = @ + 1] /\ buffer' = buffer
    BY <1>5, PastSends
  <2> DEFINE c == Rec(s, pastPos[s] + 1, Past)
  <2>1. c.src = s /\ c.pos = pastPos[s] + 1 /\ c.via = Past
    BY DEF Rec
  <2>2. \A t \in Sources : pastPos[t] \in Nat /\ pastPos[t] <= pastPos'[t] /\ pastPos'[t] \in Nat
    BY DEF TypeInv, PastType
  <2>3. pastPos'[s] = pastPos[s] + 1
    BY DEF TypeInv, PastType
  <2>4. \A r \in Given : r.pos \in Nat
    BY <1>1, RecordOf
  <2> HIDE DEF c
  <2>5. Given' = Given \cup {c}
    BY DEF c
  <2>6. \A r \in Given' : r.via = Past => r.src \in Sources /\ r.pos <= pastPos'[r.src]
    BY <2>1, <2>2, <2>3, <2>4, <2>5 DEF ReadInv
  <2>7. \A r \in Given' \cup buffer' : r.via # Past => ReadBy(r)'
    BY <1>2, <2>1, <2>5
  <2>8. \A r \in Given', b \in buffer' : r.src = b.src /\ r.via = b.via => r.pos < b.pos
    BY <2>1, <2>5 DEF ReadInv, ControlInv
  <2> QED
    BY <2>6, <2>7, <2>8 DEF ReadInv, ReadBy
<1>6. ASSUME NEW f \in Followers, FwdBuffer(f) \/ FwdRange(f) PROVE ReadInv'
  <2> PICK c : c = FutRecord(f)
    OBVIOUS
  <2>1. c \in Record /\ c.src = f[1] /\ c.pos = futPos[f] /\ c.via = f[2] /\ c.via # Past
    BY <1>6, FollowerSends DEF Rec
  <2>2. f = <<c.src, c.via>>
    BY <2>1 DEF Followers
  <2>3. /\ futPc[f] = "send" /\ futPc'[f] = "recv" /\ UNCHANGED <<futPos, futFrom, pastPos>>
    BY <1>6, FollowerSends DEF TypeInv, FutType, PcType
  <2>9. futFrom[f] # NoPos /\ futFrom[f] < futPos[f]
    BY <2>3 DEF TypeInv, FollowInv
  <2>4. ReadBy(c)'
    BY <2>1, <2>2, <2>3, <2>9 DEF ReadBy, TypeInv, FutType
  <2>5. \A r \in Given \cup buffer : r.src = c.src /\ r.via = c.via => r.pos < c.pos
    <3>1. ASSUME NEW r \in Given \cup buffer, r.src = c.src, r.via = c.via PROVE r.pos < c.pos
      <4>1. ReadBy(r) /\ <<r.src, r.via>> = f
        BY <1>2, <2>1, <2>2, <3>1
      <4> QED
        BY <2>1, <2>3, <4>1 DEF ReadBy
    <3> QED
      BY <3>1
  <2>6. pastPos' = pastPos
    BY <2>3
  <2>7. CASE Given' = Given /\ buffer' = buffer \cup {c}
    <3>1. \A r \in Given' \cup buffer' : r.via # Past => ReadBy(r)'
      BY <1>2, <2>4, <2>7
    <3>2. \A r \in Given', b \in buffer' : r.src = b.src /\ r.via = b.via => r.pos < b.pos
      BY <2>5, <2>7 DEF ReadInv
    <3> QED
      BY <2>6, <2>7, <3>1, <3>2 DEF ReadInv, ReadBy
  <2>8. CASE Given' = Given \cup {c} /\ buffer' = {}
    <3>1. \A r \in Given' \cup buffer' : r.via # Past => ReadBy(r)'
      BY <1>2, <2>4, <2>8
    <3> QED
      BY <2>1, <2>6, <2>8, <3>1 DEF ReadInv, ReadBy
  <2> QED
    BY <1>6, <2>7, <2>8, FollowerSends
<1>7. CASE FwdNext
  <2> PICK r \in buffer :
           /\ \A q \in buffer : TS(r) <= TS(q)
           /\ buffer' = buffer \ {r} /\ Given' \in {Given, Given \cup {r}} /\ pastPos' = pastPos
    BY <1>7, NextKept DEF Goes, Covered
  <2>1. r.via # Past
    BY DEF ControlInv
  <2>2. \A q \in Given' \cup buffer' : q.via # Past => ReadBy(q)'
    BY <1>2
  <2>3. \A b \in buffer' : r.src = b.src /\ r.via = b.via => r.pos < b.pos
    BY KeptLater
  <2>4. \A q \in Given', b \in buffer' : q.src = b.src /\ q.via = b.via => q.pos < b.pos
    BY <2>3 DEF ReadInv
  <2> QED
    BY <2>1, <2>2, <2>4 DEF ReadInv, ReadBy
<1> QED
  BY <1>4, <1>5, <1>6, <1>7, StillStep

\* What the caller has, and the record it will get next.
LEMMA OrderFrame ==
  ASSUME OrderInv, out' = out, fwd' = "send" => fwd = "send" /\ cur' = cur
  PROVE  OrderInv'
BY DEF OrderInv, OutOrder

LEMMA OrderSend ==
  ASSUME OrderInv, out' = out, fwd' = "send",
         \A r \in Given : /\ cur'.via = Past => r.via = Past
                          /\ r.src = cur'.src /\ r.via = cur'.via => r.pos < cur'.pos
  PROVE  OrderInv'
<1>1. \A i \in 1..Len(out) : out[i] \in Given
  BY DEF Given
<1> QED
  BY <1>1 DEF OrderInv, OutOrder

LEMMA OrderStep ==
  ASSUME "ties" \notin Events, TypeInv, LogInv, ControlInv, ReadInv, OrderInv, [Next]_vars
  PROVE  OrderInv'
<1>1. CASE PastSend
  <2> PICK s \in Sources :
           /\ cur' = Rec(s, pastPos[s] + 1, Past) /\ fwd' = "send" /\ out' = out
           /\ \A r \in Given : r.via = Past
    BY <1>1, PastSends
  <2>1. cur'.src = s /\ cur'.pos = pastPos[s] + 1 /\ cur'.via = Past
    BY DEF Rec
  <2>2. ASSUME NEW r \in Given, r.src = s PROVE r.pos < pastPos[s] + 1
    <3>1. r.pos <= pastPos[s] /\ r.pos \in Nat /\ pastPos[s] \in Nat
      BY <2>2, InLog DEF ReadInv, TypeInv, PastType
    <3> QED
      BY <3>1
  <2> QED
    BY <2>1, <2>2, OrderSend
<1>2. ASSUME NEW f \in Followers, FwdBuffer(f) PROVE OrderInv'
  BY <1>2, OrderFrame DEF FwdBuffer
<1>3. ASSUME NEW f \in Followers, FwdRange(f) PROVE OrderInv'
  <2> PICK c : c = FutRecord(f)
    OBVIOUS
  <2>1. /\ cur' = c /\ fwd' = "send" /\ out' = out /\ futPc[f] = "send"
        /\ c.src = f[1] /\ c.pos = futPos[f] /\ c.via = f[2] /\ c.via # Past
    BY <1>3, FollowerSends DEF Rec, FwdRange, FwdBuffer
  <2>2. ASSUME NEW r \in Given, r.src = c.src, r.via = c.via PROVE r.pos < c.pos
    <3>1. f = <<r.src, r.via>>
      BY <2>1, <2>2 DEF Followers
    <3> QED
      BY <2>1, <2>2, <3>1 DEF ReadInv
  <2> QED
    BY <2>1, <2>2, OrderSend
<1>4. CASE FwdNext
  <2> PICK r \in buffer : /\ out' = out
                          /\ (fwd' = "send" /\ cur' = r) \/ UNCHANGED <<fwd, cur>>
    BY <1>4, NextKept DEF Goes, Covered
  <2>1. r.via # Past /\ \A g \in Given : g.src = r.src /\ g.via = r.via => g.pos < r.pos
    BY DEF ControlInv, ReadInv
  <2>2. CASE fwd' = "send" /\ cur' = r
    BY <2>1, <2>2, OrderSend
  <2>3. CASE UNCHANGED <<fwd, cur>>
    BY <2>3, OrderFrame
  <2> QED
    BY <2>2, <2>3
<1>5. CASE FwdOut
  <2>1. out \in Seq(Record) /\ out' = Append(out, cur) /\ fwd = "send" /\ fwd' # "send"
    BY <1>5 DEF FwdOut, TypeInv, FwdType
  <2>2. Len(out') = Len(out) + 1 /\ Len(out) \in Nat /\ out'[Len(out) + 1] = cur
    BY <2>1
  <2>3. \A i \in 1..Len(out) : out'[i] = out[i]
    BY <2>1
  <2>4. ASSUME NEW i \in 1..Len(out'), NEW j \in 1..Len(out'), i < j
        PROVE  /\ out'[j].via = Past => out'[i].via = Past
               /\ (out'[i].src = out'[j].src /\ out'[i].via = out'[j].via) => out'[i].pos < out'[j].pos
    <3>1. i \in 1..Len(out)
      BY <2>2, <2>4
    <3>2. CASE j \in 1..Len(out)
      BY <2>3, <2>4, <3>1, <3>2 DEF OrderInv, OutOrder
    <3>3. CASE j = Len(out) + 1
      BY <2>1, <2>2, <2>3, <3>1, <3>3 DEF OrderInv
    <3> QED
      BY <2>2, <3>2, <3>3
  <2> QED
    BY <2>1, <2>4 DEF OrderInv, OutOrder
<1>6. CASE StartStep \/ PastErr \/ (\E s \in Sources : PastEOF(s)) \/ PastCollect \/ PastClose
  BY <1>6, OrderFrame DEF StartStep, StartPast, OpenFollow, StartDone, PastErr, PastEOF,
     PastCollect, PastClose, fwdVars
<1>7. CASE \E f \in Followers : FutStep(f) \/ FutErr(f)
  BY <1>7, OrderFrame DEF FutStep, FutRecv, FutEOF, FutCancel, FutErr, FutCancelRoot,
     FutPanic, HandleAddDone, futRest, fwdVars
<1>8. CASE FwdPastClosed \/ FwdDrained \/ FwdBufferEnd \/ FwdPanic \/ FwdReturn
  BY <1>8, OrderFrame DEF FwdPastClosed, FwdDrained, FwdBufferEnd, FwdPanic, FwdReturn
<1>9. CASE CloseFuture \/ CtxDone \/ CloseCancel \/ CloseOut \/ UNCHANGED vars
  BY <1>9, OrderFrame DEF CloseFuture, CtxDone, CloseCancel, CloseOut, ctlRest, vars, fwdVars
<1>10. CASE \E s \in All : Write(s) \/ Exit(s) \/ HandleDelete(s) \/ HandleAdd(s)
  BY <1>10, OrderFrame DEF Write, Exit, HandleDelete, HandleAdd, futRest, fwdVars
<1> QED
  BY <1>1, <1>2, <1>3, <1>4, <1>5, <1>6, <1>7, <1>8, <1>9, <1>10 DEF Next, PastStep, FwdStep,
     EnvStep

\* The inductive invariant of the order.
SentInv == TypeInv /\ LogInv /\ ControlInv /\ ReadInv /\ OrderInv

LEMMA SentInit == Init => SentInv
<1> SUFFICES ASSUME Init PROVE SentInv
  OBVIOUS
<1>1. TypeInv
  BY TypeInit
<1>2. LogInv
  <2>1. \A s \in All : Len(log[s]) = 0
    BY DEF Init
  <2> QED
    BY <2>1 DEF LogInv
<1>3. /\ out = <<>> /\ buffer = {} /\ fwd = "off" /\ phase = "new" /\ closing = "no" /\ pastPc = "off"
      /\ futClosed = FALSE /\ outClosed = FALSE /\ \A s \in All : lastTS[s] = 0
  BY DEF Init
<1>4. Given = {}
  BY <1>3 DEF Given
<1>5. ControlInv
  BY <1>3, <1>4 DEF ControlInv, Joining, Beyond
<1>6. ReadInv
  BY <1>3, <1>4 DEF ReadInv
<1>7. OrderInv
  BY <1>3 DEF OrderInv, OutOrder
<1> QED
  BY <1>1, <1>2, <1>5, <1>6, <1>7 DEF SentInv

\* If no two records have one timestamp, the past records come first and those
\* of each reader in the order of its log, however its followers, the past phase
\* and the forwarder interleave: with ties sort.Slice may swap two kept records.
THEOREM OrderKept == "ties" \notin Events => (Spec => []OutOrder)
<1> SUFFICES ASSUME "ties" \notin Events PROVE Spec => []OutOrder
  OBVIOUS
<1>1. SentInv /\ [Next]_vars => SentInv'
  BY TypeStep, LogStep, ControlStep, ReadStep, OrderStep DEF SentInv
<1>2. SentInv => OutOrder
  BY DEF SentInv, OrderInv
<1> QED
  BY <1>1, <1>2, SentInit, PTL DEF Spec

-----------------------------------------------------------------------------
(* The past phase.                                                         *)

\* What the past phase gave changes with PastSend only.
LEMMA NotPast ==
  ASSUME TypeInv, ControlInv, [Next]_vars
  PROVE  \/ PastSend
         \/ /\ \A s \in All : lastTS'[s] \in {lastTS[s], 0}
            /\ ~rootDone' =>
                 /\ Given \subseteq Given' /\ \A r \in Given' : r.via = Past => r \in Given
                 /\ \A s \in Sources : PastGiven(s)' = PastGiven(s)
<1>1. ASSUME Given \subseteq Given', \A r \in Given' : r.via = Past => r \in Given
      PROVE  \A s \in Sources : PastGiven(s)' = PastGiven(s)
  BY <1>1 DEF PastGiven
<1>2. CASE Still
  BY <1>1, <1>2 DEF Still
<1>3. ASSUME NEW f \in Followers, FwdBuffer(f) \/ FwdRange(f)
      PROVE  /\ lastTS' = lastTS
             /\ Given \subseteq Given' /\ \A r \in Given' : r.via = Past => r \in Given
  BY <1>3, FollowerSends
<1>4. CASE FwdNext
  <2> PICK r \in buffer : Given' \in {Given, Given \cup {r}} /\ lastTS' \in {lastTS, [lastTS EXCEPT ![r.src] = 0]}
    BY <1>4, NextKept DEF Goes, Covered
  <2>1. Given \subseteq Given' /\ \A q \in Given' : q.via = Past => q \in Given
    BY DEF ControlInv
  <2>2. \A s \in All : lastTS'[s] \in {lastTS[s], 0}
    BY DEF TypeInv, FwdType
  <2> QED
    BY <1>1, <2>1, <2>2
<1> QED
  BY <1>1, <1>2, <1>3, <1>4, StillStep

LEMMA PastReadStep ==
  ASSUME TypeInv, ControlInv, ReadInv, PastRead, [Next]_vars
  PROVE  PastRead'
<1> SUFFICES ASSUME ~rootDone', NEW s \in Sources
             PROVE  \E n \in 0..pastPos'[s] : PastGiven(s)' = (n + 1)..pastPos'[s] /\ (Mode' # "tail" => n = 0)
  BY DEF PastRead
<1>1. Grows /\ ~rootDone /\ Mode' = Mode
  BY GrowsStep DEF Grows, Mode
<1>2. PICK n \in 0..pastPos[s] : PastGiven(s) = (n + 1)..pastPos[s] /\ (Mode # "tail" => n = 0)
  BY <1>1 DEF PastRead
<1>3. pastPos[s] \in Nat /\ pastPos'[s] \in Nat
  BY TypeStep DEF TypeInv, PastType
<1>4. CASE PastSend
  <2> PICK t \in Sources :
           /\ Given' = Given \cup {Rec(t, pastPos[t] + 1, Past)}
           /\ pastPos' = [pastPos EXCEPT ![t] = @ + 1]
    BY <1>4, PastSends
  <2> PICK c : c = Rec(t, pastPos[t] + 1, Past)
    OBVIOUS
  <2>1. c.src = t /\ c.pos = pastPos[t] + 1 /\ c.via = Past /\ Given' = Given \cup {c}
    BY DEF Rec
  <2>2. CASE s = t
    <3>1. PastGiven(s)' = PastGiven(s) \cup {pastPos[s] + 1}
      BY <2>1, <2>2 DEF PastGiven
    <3>2. pastPos'[s] = pastPos[s] + 1
      BY <2>2 DEF TypeInv, PastType
    <3>3. PastGiven(s)' = (n + 1)..pastPos'[s] /\ n \in 0..pastPos'[s]
      BY <1>2, <1>3, <3>1, <3>2
    <3> QED
      BY <1>1, <1>2, <3>3
  <2>3. CASE s # t
    <3>1. PastGiven(s)' = PastGiven(s)
      BY <2>1, <2>3 DEF PastGiven
    <3>2. pastPos'[s] = pastPos[s]
      BY <2>3 DEF TypeInv, PastType
    <3> QED
      BY <1>1, <1>2, <3>1, <3>2
  <2> QED
    BY <2>2, <2>3
<1>5. CASE ~PastSend /\ pastPos' = pastPos
  BY <1>1, <1>2, <1>5, NotPast
<1>6. CASE Given' = {} /\ Mode = "tail"
  <2>1. PastGiven(s)' = {}
    BY <1>6 DEF PastGiven
  <2>2. PastGiven(s)' = (pastPos'[s] + 1)..pastPos'[s] /\ pastPos'[s] \in 0..pastPos'[s]
    BY <1>3, <2>1
  <2> QED
    BY <1>1, <1>6, <2>2
<1> QED
  BY <1>4, <1>5, <1>6, PlaceFrame

LEMMA PastTimeStep ==
  ASSUME TypeInv, ControlInv, ReadInv, PastTime, [Next]_vars
  PROVE  PastTime'
<1> SUFFICES ASSUME ~rootDone', NEW s \in All, lastTS'[s] # 0
             PROVE  /\ s \in Sources /\ pastPos'[s] > 0 /\ lastTS'[s] = log'[s][pastPos'[s]]
                    /\ \E r \in Given' : r.src = s /\ r.via = Past
  BY DEF PastTime
<1>1. Grows /\ ~rootDone
  BY GrowsStep DEF Grows
<1>2. ASSUME lastTS[s] = lastTS'[s]
      PROVE  /\ s \in Sources /\ pastPos[s] > 0 /\ lastTS[s] = log[s][pastPos[s]]
             /\ lastTS[s] = log'[s][pastPos[s]]
             /\ \E r \in Given : r.src = s /\ r.via = Past
  <2>1. /\ s \in Sources /\ pastPos[s] > 0 /\ lastTS[s] = log[s][pastPos[s]]
        /\ \E r \in Given : r.src = s /\ r.via = Past
    BY <1>1, <1>2 DEF PastTime
  <2>2. pastPos[s] \in 1..Len(log[s])
    BY <2>1 DEF TypeInv, PastType, PastLast, EnvType, NoPos
  <2> QED
    BY <1>1, <2>1, <2>2 DEF Grows
<1>3. CASE PastSend
  <2> PICK t \in Sources :
           /\ Given' = Given \cup {Rec(t, pastPos[t] + 1, Past)}
           /\ pastPos' = [pastPos EXCEPT ![t] = @ + 1] /\ pastPos[t] + 1 \in 1..Len(log[t])
           /\ lastTS' = [lastTS EXCEPT ![t] = log[t][pastPos[t] + 1]] /\ log' = log
    BY <1>3, PastSends
  <2>1. CASE s = t
    <3>1. lastTS'[s] = log[s][pastPos[s] + 1] /\ pastPos'[s] = pastPos[s] + 1 /\ pastPos[s] \in Nat
      BY <2>1 DEF TypeInv, FwdType, PastType, All
    <3>2. Rec(t, pastPos[t] + 1, Past).src = s /\ Rec(t, pastPos[t] + 1, Past).via = Past
      BY <2>1 DEF Rec
    <3> QED
      BY <2>1, <3>1, <3>2
  <2>2. CASE s # t
    <3>1. (lastTS'[s] = lastTS[s] /\ pastPos'[s] = pastPos[s]) \/ s \notin Sources
      BY <2>2 DEF TypeInv, FwdType, PastType
    <3>2. lastTS'[s] = lastTS[s]
      BY <2>2 DEF TypeInv, FwdType
    <3> QED
      BY <1>2, <3>1, <3>2
  <2> QED
    BY <2>1, <2>2
<1>4. CASE ~PastSend
  <2>1. lastTS'[s] = lastTS[s] /\ Given \subseteq Given'
    BY <1>4, NotPast
  <2>2. pastPos' = pastPos \/ lastTS[s] = 0
    BY <1>4, PlaceFrame
  <2> QED
    BY <1>2, <2>1, <2>2
<1> QED
  BY <1>3, <1>4

LEMMA PastOverStep ==
  ASSUME TypeInv, ControlInv, PastOver, [Next]_vars
  PROVE  PastOver'
<1> SUFFICES ASSUME ~rootDone', pastPc' = "closed", ~err'
             PROVE  \/ \A s \in Sources : pastEnd'[s] # NoPos /\ pastPos'[s] = pastEnd'[s]
                    \/ Mode' = "head" /\ pastCount' >= MaxNum
  BY DEF PastOver
<1>1. Grows /\ ~rootDone /\ ~err /\ Mode' = Mode
  BY GrowsStep DEF Grows, Mode, TypeInv, CtlType
<1>2. CASE UNCHANGED pastVars
  BY <1>1, <1>2 DEF PastOver, pastVars
<1>3. CASE StartPast
  BY <1>1, <1>3 DEF PastOver, StartPast
<1>4. CASE PastErr \/ PastCollect
  BY <1>4 DEF PastErr, PastCollect
<1>5. CASE PastClose
  BY <1>1, <1>5 DEF PastClose
<1>6. CASE \E s \in Sources : PastEOF(s)
  BY <1>6 DEF PastEOF
<1>7. CASE PastSend
  BY <1>1, <1>7 DEF PastSend
<1> QED
  BY <1>2, <1>3, <1>4, <1>5, <1>6, <1>7, PastFrame DEF PastStep

LEMMA PastTallyStep ==
  ASSUME TypeInv, ControlInv, PastTally, [Next]_vars
  PROVE  PastTally'
<1> SUFFICES ASSUME ~rootDone', \A r \in Given' : r.via = Past
             PROVE  pastCount' = Len(out') + (IF fwd' = "send" THEN 1 ELSE 0)
  BY DEF PastTally
<1>1. ~rootDone /\ Len(out) \in Nat
  BY GrowsStep DEF Grows, TypeInv, FwdType
<1>2. CASE PastSend
  <2>1. /\ fwd = "select" /\ fwd' = "send" /\ out' = out /\ pastCount' = pastCount + 1
        /\ \A r \in Given : r.via = Past
    BY <1>2, PastSends
  <2> QED
    BY <1>1, <2>1 DEF PastTally
<1>3. ASSUME NEW f \in Followers, FwdRange(f) PROVE FALSE
  BY <1>3, FollowerSends DEF FwdBuffer, FwdRange
<1>4. ~PastSend => \A r \in Given : r.via = Past
  BY NotPast
<1>5. CASE pastCount' = pastCount /\ out' = out /\ (fwd' = "send" <=> fwd = "send") /\ ~PastSend
  BY <1>1, <1>4, <1>5 DEF PastTally
<1>6. CASE FwdOut /\ ~PastSend
  <2>1. Len(out') = Len(out) + 1 /\ fwd = "send" /\ fwd' # "send" /\ pastCount' = pastCount
    BY <1>6 DEF FwdOut, TypeInv, FwdType, fwdRest, pastVars
  <2> QED
    BY <1>1, <1>4, <1>6, <2>1 DEF PastTally
<1>7. CASE FwdNext /\ ~PastSend
  <2> PICK r \in buffer : Goes(r) \/ (Covered(r) /\ UNCHANGED <<out, pastCount>>)
    BY <1>7, NextKept
  <2>1. ~Goes(r)
    BY DEF Goes, ControlInv
  <2> QED
    BY <1>5, <1>7, <2>1 DEF Covered
<1>8. CASE UNCHANGED <<pastCount, out, fwd>> /\ ~PastSend
  BY <1>5, <1>8
<1>9. CASE (\E s \in All : Write(s) \/ Exit(s) \/ HandleDelete(s) \/ HandleAdd(s)) \/ UNCHANGED vars
  BY <1>2, <1>8, <1>9 DEF Write, Exit, HandleDelete, HandleAdd, futRest, vars, pastVars, fwdVars
<1>10. CASE StartStep \/ PastErr \/ (\E s \in Sources : PastEOF(s)) \/ PastCollect \/ PastClose
  BY <1>2, <1>5, <1>10 DEF StartStep, StartPast, OpenFollow, StartDone, PastErr, PastEOF,
     PastCollect, PastClose,
     ControlInv, pastVars, fwdVars
<1>11. CASE \E f \in Followers : FutStep(f) \/ FutErr(f) \/ FwdBuffer(f)
  BY <1>2, <1>8, <1>11 DEF FutStep, FutRecv, FutEOF, FutCancel, FutErr, FutCancelRoot, FutPanic,
     HandleAddDone, FwdBuffer, futRest, fwdRest, pastVars, fwdVars
<1>12. CASE FwdPastClosed \/ FwdDrained \/ FwdBufferEnd
  BY <1>2, <1>5, <1>12 DEF FwdPastClosed, FwdDrained, FwdBufferEnd, fwdRest, pastVars
<1>13. CASE FwdReturn
  BY <1>1, <1>2, <1>5, <1>13 DEF FwdReturn, fwdRest, pastVars
<1>14. CASE FwdPanic
  BY <1>1, <1>14 DEF FwdPanic, ControlInv
<1>15. CASE CloseFuture \/ CtxDone \/ CloseCancel \/ CloseOut
  BY <1>2, <1>8, <1>15 DEF CloseFuture, CtxDone, CloseCancel, CloseOut, ctlRest, pastVars
<1> QED
  BY <1>2, <1>3, <1>6, <1>7, <1>9, <1>10, <1>11, <1>12, <1>13, <1>14, <1>15
  DEF Next, PastStep, FwdStep, EnvStep

-----------------------------------------------------------------------------
(* The followers' records.                                                 *)

\* A record's time stays.
LEMMA SameTime ==
  ASSUME TypeInv, ControlInv, ReadInv, Grows, NEW r \in Given \cup buffer
  PROVE  TS(r)' = TS(r)
BY InLog, RecordOf DEF Grows, TS

\* The kept records are looked at in the order of their times.
LEMMA KeptStep ==
  ASSUME "ties" \notin Events, TypeInv, ControlInv, ReadInv, KeptInv, [Next]_vars
  PROVE  KeptInv'
<1> SUFFICES ASSUME Beyond', NEW s \in All, NEW g \in Given', g.src = s, g.via # Past,
                    NEW b \in buffer', b.src = s
             PROVE  lastTS'[s] = 0 \/ TS(b)' > lastTS'[s]
  BY DEF KeptInv
<1>1. Grows
  BY GrowsStep
<1>2. ASSUME Beyond, g \in Given, b \in buffer, lastTS'[s] = lastTS[s]
      PROVE  lastTS'[s] = 0 \/ TS(b)' > lastTS'[s]
  BY <1>1, <1>2, SameTime DEF KeptInv
<1>3. CASE Still
  BY <1>2, <1>3 DEF Still
<1>4. CASE PastSend
  BY <1>4 DEF PastSend, Beyond
<1>5. ASSUME NEW f \in Followers, FwdBuffer(f) \/ FwdRange(f)
      PROVE  FALSE
  BY <1>5, FollowerSends DEF Beyond
<1>6. CASE FwdNext
  <2> PICK r \in buffer : /\ \A q \in buffer : TS(r) <= TS(q)
                          /\ buffer' = buffer \ {r} /\ Beyond
                          /\ Goes(r) \/ Covered(r)
    BY <1>6, NextKept
  <2>1. lastTS'[s] = lastTS[s] \/ lastTS'[s] = 0
    BY DEF Goes, Covered, TypeInv, FwdType
  <2>2. CASE g \in Given
    BY <1>2, <2>1, <2>2
  <2>3. CASE g \notin Given
    <3>1. Goes(r) /\ g = r
      BY <2>3 DEF Goes, Covered
    <3>2. ~(lastTS[s] # 0 /\ TS(r) <= lastTS[s]) /\ lastTS'[s] = lastTS[s]
      BY <3>1 DEF Goes
    <3>3. TS(r) \in Nat /\ TS(b) \in Nat /\ TS(r) <= TS(b) /\ lastTS[s] \in Nat
      BY InLog DEF TypeInv, FwdType
    <3>4. TS(b)' = TS(b)
      BY <1>1, SameTime
    <3> QED
      BY <3>2, <3>3, <3>4
  <2> QED
    BY <2>2, <2>3
<1> QED
  BY <1>3, <1>4, <1>5, <1>6, StillStep


\* FlowInv's alternatives for one record.
Flows(f, p) ==
  \/ Rec(f[1], p, f[2]) \in Given \cup buffer
  \/ p = futPos[f] /\ futPc[f] = "send"
  \/ Skipped(f, p)

\* While the stream goes on a follower is opened, reads, or stays as it is,
\* unless the forwarder takes its record.
LEMMA FollowerStep ==
  ASSUME TypeInv, ControlInv, [Next]_vars, ~rootDone', phase' # "failed", NEW f \in Followers,
         futFrom'[f] # NoPos, \A g \in Followers : ~FwdBuffer(g) /\ ~FwdRange(g)
  PROVE  \/ futFrom'[f] = futPos'[f]
         \/ /\ futFrom'[f] = futFrom[f]
            /\ \/ futPos'[f] = futPos[f] /\ (futPc[f] = "send" => futPc'[f] = "send")
               \/ futPos'[f] = futPos[f] + 1 /\ futPc'[f] = "send" /\ futPc[f] # "send"
<1>0. ~rootDone /\ ~futClosed
  BY GrowsStep DEF Grows, ControlInv
<1>1. CASE UNCHANGED futVars
  BY <1>1 DEF futVars
<1>2. ASSUME NEW s \in All, HandleAdd(s) PROVE UNCHANGED <<futPos, futFrom>> /\ (futPc[f] = "send" => futPc'[f] = "send")
  <2>1. UNCHANGED <<futPos, futFrom>>
    BY <1>2 DEF HandleAdd, futRest
  <2>2. ASSUME NEW k \in 1..MaxAdds, \A j \in 1..MaxAdds : futPc[<<s, j>>] = "off" <=> j >= k,
               futPc' = [futPc EXCEPT ![<<s, k>>] = "opened"]
        PROVE  futPc[f] = "send" => futPc'[f] = "send"
    BY <2>2 DEF TypeInv, FutType, PcType
  <2> QED
    BY <1>2, <2>1, <2>2 DEF HandleAdd
<1>3. ASSUME NEW s \in Sources, OpenFollow(s), ~UNCHANGED futVars
      PROVE  \/ /\ f # <<s, 0>> /\ futPos'[f] = futPos[f]
                /\ futFrom'[f] = futFrom[f] /\ futPc'[f] = futPc[f]
             \/ futFrom'[f] = futPos'[f]
  <2>1. <<s, 0>> \in Followers
    BY StreamAssumption DEF Followers, All
  <2> QED
    BY <1>3, <2>1, ZenonT(30) DEF OpenFollow, TypeInv, FutType, PcType, FollowInv
<1>4. ASSUME NEW g \in Followers, FutRecv(g)
      PROVE  /\ futFrom'[f] = futFrom[f]
            /\ \/ futPos'[f] = futPos[f] /\ (futPc[f] = "send" => futPc'[f] = "send")
               \/ futPos'[f] = futPos[f] + 1 /\ futPc'[f] = "send" /\ futPc[f] # "send"
  BY <1>4 DEF FutRecv, futRest, TypeInv, FutType, PcType
<1>5. ASSUME NEW g \in Followers, FutEOF(g) \/ FutErr(g)
      PROVE  UNCHANGED <<futPos, futFrom>> /\ (futPc[f] = "send" => futPc'[f] = "send")
  BY <1>5 DEF FutEOF, FutErr, futRest, TypeInv, FutType, PcType
<1>6. ASSUME NEW g \in Followers, FutCancel(g) \/ FutCancelRoot(g) \/ FutPanic(g) PROVE FALSE
  BY <1>0, <1>6 DEF FutCancel, FutCancelRoot, FutPanic, futRest, startVars
<1>7. ASSUME NEW g \in Followers, HandleAddDone(g)
      PROVE  \/ futPos'[f] = futPos[f] /\ futFrom'[f] = futFrom[f] /\ futPc'[f] = futPc[f]
             \/ futFrom'[f] = futPos'[f]
  BY <1>7 DEF HandleAddDone, TypeInv, FutType, PcType, FollowInv
<1>8. CASE StartPast \/ StartDone \/ PastStep \/ PastErr \/ UNCHANGED vars
           \/ \E s \in All : Write(s) \/ Exit(s) \/ HandleDelete(s)
  BY <1>1, <1>8 DEF StartPast, StartDone, PastStep, PastEOF, PastCollect, PastSend,
     PastClose, PastErr,
     Write, Exit, HandleDelete, vars
<1>9. CASE FwdPastClosed \/ FwdDrained \/ FwdNext \/ FwdBufferEnd \/ FwdOut \/ FwdPanic \/ FwdReturn
           \/ CloseFuture \/ CtxDone \/ CloseCancel \/ CloseOut
  BY <1>1, <1>9 DEF FwdPastClosed, FwdDrained, FwdNext, FwdBufferEnd, FwdOut, FwdPanic,
     FwdReturn,
     CloseFuture, CtxDone, CloseCancel, CloseOut, ctlRest
<1> QED
  BY <1>1, <1>2, <1>3, <1>4, <1>5, <1>6, <1>7, <1>8, <1>9 DEF Next, StartStep, FutStep,
     FwdStep, EnvStep

\* The past phase is over once kept records are looked at.
LEMMA SkippedStays ==
  ASSUME TypeInv, ControlInv, [Next]_vars, NEW f \in Followers, NEW p \in Nat, Skipped(f, p),
         Beyond',
         Given \subseteq Given', Given' \cup buffer' \subseteq Given \cup buffer
  PROVE  Skipped(f, p)'
<1>1. pastPc = "closed" /\ fwd # "select"
  BY DEF ControlInv, Skipped, Beyond
<1>2. pastPos' = pastPos
  BY <1>1, PlaceFrame DEF PastSend, PastCollect
<1> QED
  BY <1>2 DEF Skipped

\* Each record a follower read stays on its way: a kept record that the past
\* phase covered is the first one of its follower, and is left out.
LEMMA FlowStep ==
  ASSUME "ties" \notin Events, TypeInv, LogInv, ControlInv, ReadInv, PastTime, KeptInv,
         FlowInv, [Next]_vars
  PROVE  FlowInv'
<1> SUFFICES ASSUME ~rootDone', ~err', phase' # "failed", NEW f \in Followers, futFrom'[f] # NoPos,
                    NEW p \in (futFrom'[f] + 1)..futPos'[f]
             PROVE  Flows(f, p)'
  BY DEF FlowInv, Flows
<1>1. Grows /\ ~rootDone /\ ~err /\ phase # "failed"
  BY GrowsStep DEF Grows, TypeInv, CtlType
<1>2. /\ futFrom'[f] \in Nat /\ futPos'[f] \in Nat /\ p \in Nat /\ futFrom'[f] < p /\ p <= futPos'[f]
      /\ futPos[f] \in Nat
  <2>1. /\ futFrom'[f] \in Nat /\ futPos'[f] \in Nat /\ futPos[f] \in Nat
    BY TypeStep DEF TypeInv, FutType
  <2> QED
    BY <2>1
<1>3. ASSUME futFrom'[f] = futFrom[f], p <= futPos[f] PROVE Flows(f, p)
  <2>1. p \in (futFrom[f] + 1)..futPos[f]
    BY <1>2, <1>3
  <2> QED
    BY <1>1, <1>3, <2>1 DEF FlowInv, Flows
<1>4. ASSUME \A g \in Followers : ~FwdBuffer(g) /\ ~FwdRange(g), ~FwdNext PROVE Flows(f, p)'
  <2>1. \/ futFrom'[f] = futPos'[f]
        \/ /\ futFrom'[f] = futFrom[f]
           /\ \/ futPos'[f] = futPos[f] /\ (futPc[f] = "send" => futPc'[f] = "send")
              \/ futPos'[f] = futPos[f] + 1 /\ futPc'[f] = "send" /\ futPc[f] # "send"
    BY <1>4, FollowerStep
  <2>2. Given \subseteq Given' /\ buffer' = buffer
    BY <1>4, StillStep, PastSends DEF Still
  <2>3. ASSUME Skipped(f, p) PROVE Skipped(f, p)'
    <3>1. ~PastSend
      BY <2>3 DEF Skipped, Beyond, PastSend
    <3>2. Still
      BY <1>4, <3>1, StillStep
    <3>3. Given' = Given /\ Beyond'
      BY <2>3, <3>2 DEF Still, Skipped
    <3> QED
      BY <1>2, <2>2, <2>3, <3>3, SkippedStays
  <2>4. CASE futFrom'[f] = futPos'[f]
    BY <1>2, <2>4
  <2>5. CASE futFrom'[f] = futFrom[f] /\ p <= futPos[f]
    BY <1>2, <1>3, <2>1, <2>2, <2>3, <2>5 DEF Flows
  <2>6. CASE futFrom'[f] = futFrom[f] /\ ~(p <= futPos[f])
    BY <1>2, <2>1, <2>6 DEF Flows
  <2> QED
    BY <1>2, <2>1, <2>4, <2>5, <2>6
<1>5. ASSUME NEW g \in Followers, FwdBuffer(g) \/ FwdRange(g) PROVE Flows(f, p)'
  <2> PICK c : c = FutRecord(g)
    OBVIOUS
  <2>1. /\ c = Rec(g[1], futPos[g], g[2]) /\ c \in Record
        /\ c.src = g[1] /\ c.pos = futPos[g] /\ c.via = g[2] /\ c.via # Past
        /\ futPc[g] = "send" /\ UNCHANGED <<futPos, futFrom>>
        /\ (FwdBuffer(g) => ~Beyond)
    BY <1>5, FollowerSends DEF Rec, FwdBuffer, FwdRange
  <2>2. Given' \cup buffer' = Given \cup buffer \cup {c} /\ Given \subseteq Given'
    BY <1>5, <2>1, FollowerSends
  <2>3. Flows(f, p) /\ p <= futPos[f]
    BY <1>2, <1>3, <2>1
  <2>4. CASE f = g /\ p = futPos[f]
    BY <2>1, <2>2, <2>4 DEF Flows
  <2>5. CASE Rec(f[1], p, f[2]) \in Given \cup buffer
    BY <2>2, <2>5 DEF Flows
  <2>6. CASE f # g /\ p = futPos[f] /\ futPc[f] = "send"
    <3>1. futPc'[f] = futPc[f]
      BY <1>5, <2>6, FollowerSends DEF TypeInv, FutType, PcType
    <3> QED
      BY <2>1, <2>6, <3>1 DEF Flows
  <2>7. CASE Skipped(f, p) /\ ~(f = g /\ p = futPos[f])
    <3>1. Beyond /\ Beyond' /\ UNCHANGED pastPos
      BY <1>5, <2>1, <2>7, FollowerSends DEF Skipped
    <3>2. ASSUME NEW r \in Given' \cup buffer', r.src = f[1], r.via = f[2] PROVE p < r.pos
      <4>1. CASE r \in Given \cup buffer
        BY <2>7, <3>2, <4>1 DEF Skipped
      <4>2. CASE r = c
        <5>1. f = g
          BY <2>1, <3>2, <4>2 DEF Followers
        <5> QED
          BY <1>2, <2>1, <2>3, <2>7, <4>2, <5>1
      <4> QED
        BY <2>2, <3>2, <4>1, <4>2
    <3> QED
      BY <2>2, <2>7, <3>1, <3>2 DEF Skipped, Flows
  <2> QED
    BY <2>3, <2>4, <2>5, <2>6, <2>7 DEF Flows
<1>6. CASE FwdNext
  <2> PICK r \in buffer :
           /\ \A q \in buffer : TS(r) <= TS(q)
           /\ buffer' = buffer \ {r}
           /\ Goes(r) \/ Covered(r)
           /\ Beyond /\ Beyond'
           /\ UNCHANGED <<log, futVars, pastPos>>
    BY <1>6, NextKept
  <2>1. UNCHANGED <<futPc, futPos, futFrom>> /\ Flows(f, p)
    BY <1>2, <1>3 DEF futVars
  <2>2. Given \subseteq Given' /\ Given' \cup buffer' \subseteq Given \cup buffer
    BY DEF Goes, Covered
  <2>3. CASE Skipped(f, p)
    BY <1>2, <2>2, <2>3, SkippedStays DEF Flows
  <2>4. CASE p = futPos[f] /\ futPc[f] = "send"
    BY <2>1, <2>4 DEF Flows
  <2>5. CASE Rec(f[1], p, f[2]) \in Given' \cup buffer'
    BY <2>5 DEF Flows
  <2>6. CASE Rec(f[1], p, f[2]) = r /\ Covered(r)
    <3>1. r.src = f[1] /\ r.pos = p /\ r.via = f[2] /\ r.via # Past
      BY <2>6 DEF Rec, ControlInv
    <3>2. /\ lastTS[f[1]] # 0 /\ TS(r) <= lastTS[f[1]] /\ Given' = Given
      BY <2>6, <3>1 DEF Covered
    <3>3. f[1] \in All
      BY DEF Followers
    <3>4. /\ f[1] \in Sources /\ pastPos[f[1]] > 0 /\ lastTS[f[1]] = log[f[1]][pastPos[f[1]]]
          /\ \E q \in Given : q.src = f[1] /\ q.via = Past
      BY <1>1, <3>2, <3>3 DEF PastTime
    <3>5. pastPos[f[1]] \in 1..Len(log[f[1]])
      BY <3>3, <3>4 DEF TypeInv, PastType, PastLast, EnvType, NoPos
    <3>6. p \in 1..Len(log[f[1]])
      BY <3>1, InLog
    <3>7. p <= pastPos[f[1]]
      BY <3>1, <3>2, <3>3, <3>4, <3>5, <3>6, TimeOrder DEF TS
    <3>8. ASSUME NEW q \in Given, q.src = f[1], q.via = f[2] PROVE FALSE
      <4>1. lastTS[f[1]] = 0 \/ TS(r) > lastTS[f[1]]
        BY <3>1, <3>3, <3>8 DEF KeptInv
      <4>2. TS(r) \in Nat /\ lastTS[f[1]] \in Nat
        BY <3>3, InLog DEF TypeInv, FwdType
      <4> QED
        BY <3>2, <4>1, <4>2
    <3>9. ASSUME NEW q \in buffer', q.src = f[1], q.via = f[2] PROVE p < q.pos
      BY <3>1, <3>9, KeptLater
    <3> QED
      BY <3>2, <3>4, <3>7, <3>8, <3>9 DEF Skipped, Flows
  <2> QED
    BY <2>1, <2>3, <2>4, <2>5, <2>6 DEF Flows, Goes, Covered
<1> QED
  BY <1>4, <1>5, <1>6

-----------------------------------------------------------------------------
(* Nothing is lost.                                                        *)

\* The inductive invariant.
FlowingInv == SentInv /\ PastRead /\ PastTime /\ PastTally /\ PastOver /\ KeptInv /\ FlowInv

\* What the caller has, and what is on its way.
LEMMA GivenPlace ==
  ASSUME NEW r \in Given
  PROVE  r.pos \in OutPos(r.src) \cup Pending(r.src)
<1>1. CASE \E i \in 1..Len(out) : r = out[i]
  BY <1>1 DEF OutPos
<1>2. CASE fwd = "send" /\ r = cur
  BY <1>2 DEF Pending
<1> QED
  BY <1>1, <1>2 DEF Given

\* A source that is followed once has one follower.
LEMMA OneReader ==
  ASSUME NEW s \in All, Cardinality(Opened(s)) = 1
  PROVE  \E f \in Followers : Opened(s) = {f}
<1>1. IsFiniteSet(0..MaxAdds)
  BY FS_Interval, StreamAssumption
<1>2. IsFiniteSet({s} \X (0..MaxAdds))
  BY <1>1, FS_Singleton, FS_Product
<1>3. Opened(s) \subseteq {s} \X (0..MaxAdds)
  BY DEF Opened, Followers
<1>4. IsFiniteSet(Opened(s))
  BY <1>2, <1>3, FS_Subset
<1>5. PICK f : Opened(s) = {f}
  BY <1>4, FS_Singleton
<1> QED
  BY <1>5 DEF Opened

\* Each due record was given, is kept, or is still to be read.
LEMMA Joined ==
  ASSUME FlowingInv
  PROVE  JoinLossless
<1> SUFFICES ASSUME ~rootDone, ~err, phase # "failed", NEW s \in All, Cardinality(Opened(s)) = 1, ~Gap(s),
                    NEW p \in 1..Len(log[s]), Due(s, p)
             PROVE  p \in OutPos(s) \cup Pending(s)
  BY DEF JoinLossless, Lossless
<1> USE DEF FlowingInv, SentInv
<1>1. PICK f \in Followers : Opened(s) = {f}
  BY OneReader
<1>2. f[1] = s /\ futFrom[f] # NoPos /\ f = <<s, f[2]>> /\ \A g \in Followers : g[1] = s /\ futFrom[g] # NoPos => g = f
  BY <1>1 DEF Opened, Followers
<1>3. futFrom[f] \in Nat /\ futPos[f] \in Nat /\ p \in Nat /\ Len(log[s]) \in Nat /\ p > 0
  BY <1>2 DEF TypeInv, FutType, EnvType
<1>4. CASE p > futPos[f]
  BY <1>1, <1>4 DEF Pending
\* The caller received or will get what the past phase delivered.
<1>5. ASSUME s \in Sources, p <= pastPos[s],
             \A r \in Given : r.src = s /\ r.via # Past => p < r.pos,
             \/ futFrom[f] >= p \/ \E i \in 1..Len(out) : out[i].src = s /\ out[i].via = Past
      PROVE  p \in OutPos(s) \cup Pending(s)
  <2>1. PICK n \in 0..pastPos[s] : PastGiven(s) = (n + 1)..pastPos[s] /\ (Mode # "tail" => n = 0)
    BY <1>5 DEF PastRead
  <2>2. n \in Nat /\ pastPos[s] \in Nat
    BY <1>5, <2>1 DEF TypeInv, PastType
  <2>3. CASE n < p
    <3>1. p \in PastGiven(s)
      BY <1>3, <1>5, <2>1, <2>2, <2>3
    <3>2. PICK r \in Given : r.src = s /\ r.pos = p
      BY <3>1 DEF PastGiven
    <3> QED
      BY <3>2, GivenPlace
  <2>4. CASE p <= n
    <3>1. Mode # "all"
      BY <1>3, <2>1, <2>2, <2>4
    <3>2. \A r \in Given : r.src = s => p < r.pos
      <4>1. ASSUME NEW r \in Given, r.src = s, r.via = Past PROVE p < r.pos
        <5>1. r.pos \in (n + 1)..pastPos[s]
          BY <2>1, <4>1 DEF PastGiven
        <5> QED
          BY <1>3, <2>2, <2>4, <5>1
      <4> QED
        BY <1>5, <4>1
    <3>3. \A i \in 1..Len(out) : out[i] \in Given /\ (out[i].src = s => p < out[i].pos)
      BY <3>2 DEF Given
    <3>4. ~\E q \in OutPos(s) : q <= p
      <4>1. ASSUME NEW i \in 1..Len(out), out[i].src = s PROVE ~(out[i].pos <= p)
        <5>1. out[i].pos \in Nat /\ p < out[i].pos
          BY <3>3, <4>1, InLog, RecordOf
        <5> QED
          BY <1>3, <5>1
      <4> QED
        BY <4>1 DEF OutPos
    <3>5. CASE futFrom[f] >= p
      BY <1>1, <1>3, <3>1, <3>4, <3>5 DEF Due
    <3> QED
      BY <1>5, <3>1, <3>4, <3>5 DEF Due
  <2> QED
    BY <1>3, <2>2, <2>3, <2>4
\* A follower's record is its follower's.
<1>6. ASSUME NEW r \in Given \cup buffer, r.src = s, r.via # Past
      PROVE  r.via = f[2] /\ futFrom[f] < r.pos
  <2>1. r \in Record
    BY InLog
  <2>2. <<r.src, r.via>> \in Followers /\ futFrom[<<r.src, r.via>>] # NoPos /\ futFrom[<<r.src, r.via>>] < r.pos
    BY <1>6, <2>1, RecordOf DEF ReadInv
  <2>3. <<r.src, r.via>> = f
    BY <1>2, <1>6, <2>2
  <2> QED
    BY <1>2, <2>2, <2>3
<1>7. CASE futFrom[f] < p /\ p <= futPos[f]
  <2>1. Flows(f, p)
    <3>1. p \in (futFrom[f] + 1)..futPos[f]
      BY <1>3, <1>7
    <3> QED
      BY <1>2, <3>1 DEF FlowInv, Flows
  <2>2. CASE p = futPos[f] /\ futPc[f] = "send"
    BY <1>1, <2>2 DEF Pending
  <2>3. CASE Rec(f[1], p, f[2]) \in Given
    BY <1>2, <2>3, GivenPlace DEF Rec
  <2>4. CASE Rec(f[1], p, f[2]) \in buffer
    BY <1>2, <2>4 DEF Rec, Pending
  <2>5. CASE Skipped(f, p)
    <3>1. \A r \in Given : r.src = s /\ r.via # Past => p < r.pos
      BY <1>2, <1>6, <2>5 DEF Skipped
    <3>2. PICK r \in Given : r.src = s /\ r.via = Past
      BY <1>2, <2>5 DEF Skipped
    <3>3. ~(fwd = "send" /\ r = cur)
      BY <2>5, <3>2 DEF Skipped, Beyond, ControlInv
    <3>4. \E i \in 1..Len(out) : out[i].src = s /\ out[i].via = Past
      BY <3>2, <3>3 DEF Given
    <3> QED
      BY <1>2, <1>5, <2>5, <3>1, <3>4 DEF Skipped
  <2> QED
    BY <2>1, <2>2, <2>3, <2>4, <2>5 DEF Flows
<1>8. CASE p <= futFrom[f]
  <2>1. s \in Sources /\ Follow /\ f = <<s, 0>>
    BY <1>2, <1>3, <1>8 DEF TypeInv, FollowInv, Followers
  <2>2. pastPos[s] \in Nat
    BY <2>1 DEF TypeInv, PastType
  <2>3. CASE pastPc # "closed" /\ p > pastPos[s]
    BY <2>1, <2>3 DEF Pending
  <2>4. p <= pastPos[s] \/ (pastPc # "closed" /\ p > pastPos[s])
    <3>1. CASE pastPc = "closed"
      <4>1. Mode # "head"
        BY <2>1, StreamAssumption DEF TypeInv, EnvType, Follow, Mode
      <4>2. pastEnd[s] # NoPos /\ pastPos[s] = pastEnd[s]
        BY <2>1, <3>1, <4>1 DEF PastOver
      <4>3. ~(futFrom[f] > pastEnd[s])
        BY <2>1, <4>2 DEF Gap
      <4> QED
        BY <1>3, <1>8, <2>2, <4>2, <4>3
    <3> QED
      BY <1>3, <2>2, <3>1
  <2>5. CASE p <= pastPos[s]
    <3>1. ASSUME NEW r \in Given, r.src = s, r.via # Past PROVE p < r.pos
      <4>1. futFrom[f] < r.pos /\ r.pos \in Nat
        BY <1>6, <3>1, InLog, RecordOf
      <4> QED
        BY <1>3, <1>8, <4>1
    <3> QED
      BY <1>3, <1>5, <1>8, <2>1, <2>5, <3>1
  <2> QED
    BY <2>3, <2>4, <2>5
<1> QED
  BY <1>3, <1>4, <1>7, <1>8

LEMMA Complete ==
  ASSUME FlowingInv
  PROVE  FetchComplete
<1> SUFFICES ASSUME outClosed, ~Follow, ~rootDone, ~err
             PROVE
    /\ \A s \in Sources : OutPos(s) \subseteq 1..pastPos[s]
    /\ \/ \A s \in Sources : pastEnd[s] # NoPos /\ pastPos[s] = pastEnd[s]
       \/ Mode = "head" /\ Len(out) >= MaxNum
    /\ \A s \in Sources : \E n \in 0..pastPos[s] :
         OutPos(s) = (n + 1)..pastPos[s] /\ (Mode # "tail" => n = 0)
  BY DEF FetchComplete
<1> USE DEF FlowingInv, SentInv
<1>1. fwd = "done" /\ pastPc = "closed" /\ \A r \in Given : r.via = Past
  BY DEF ControlInv
<1>2. ASSUME NEW s \in Sources PROVE OutPos(s) = PastGiven(s)
  <2>1. Given = {out[i] : i \in 1..Len(out)}
    BY <1>1 DEF Given
  <2> QED
    BY <1>1, <2>1 DEF OutPos, PastGiven
<1>3. ASSUME NEW s \in Sources
      PROVE  /\ OutPos(s) \subseteq 1..pastPos[s]
             /\ \E n \in 0..pastPos[s] : OutPos(s) = (n + 1)..pastPos[s] /\ (Mode # "tail" => n = 0)
  <2>1. PICK n \in 0..pastPos[s] : PastGiven(s) = (n + 1)..pastPos[s] /\ (Mode # "tail" => n = 0)
    BY DEF PastRead
  <2>2. pastPos[s] \in Nat
    BY DEF TypeInv, PastType
  <2>3. (n + 1)..pastPos[s] \subseteq 1..pastPos[s]
    BY <2>2
  <2> QED
    BY <1>2, <2>1, <2>3
<1>4. pastCount = Len(out)
  BY <1>1 DEF PastTally, TypeInv, FwdType
<1> QED
  BY <1>1, <1>3, <1>4 DEF PastOver

\* Nothing is lost where the past and the future of a source are joined, nor
\* when a stream that only fetches ends, for any sources and any interleaving of
\* the past phase, the followers and the forwarder, if no two records have one
\* timestamp: the forwarder tells by the timestamp what the past phase covered.
THEOREM NothingLost == "ties" \notin Events => (Spec => []NoLoss)
<1> SUFFICES ASSUME "ties" \notin Events PROVE Spec => []NoLoss
  OBVIOUS
<1>1. Init => FlowingInv
  <2> SUFFICES ASSUME Init PROVE FlowingInv
    OBVIOUS
  <2>1. SentInv
    BY SentInit
  <2>2. /\ out = <<>> /\ fwd = "off" /\ pastPc = "off" /\ pastCount = 0 /\ lastTS = [s \in All |-> 0]
        /\ pastPos = [s \in Sources |-> 0] /\ futFrom = [f \in Followers |-> NoPos]
    BY DEF Init
  <2>3. Given = {}
    BY <2>2 DEF Given
  <2>4. PastRead
    <3>1. \A s \in Sources : PastGiven(s) = (0 + 1)..pastPos[s] /\ 0 \in 0..pastPos[s]
      BY <2>2, <2>3 DEF PastGiven
    <3> QED
      BY <3>1 DEF PastRead
  <2> QED
    BY <2>1, <2>2, <2>3, <2>4 DEF FlowingInv, PastTime, PastTally, PastOver, KeptInv, Beyond,
       FlowInv
<1>2. FlowingInv /\ [Next]_vars => FlowingInv'
  BY TypeStep, LogStep, ControlStep, ReadStep, OrderStep, PastReadStep, PastTimeStep,
     PastTallyStep,
     PastOverStep, KeptStep, FlowStep DEF FlowingInv, SentInv
<1>3. FlowingInv => NoLoss
  BY Joined, Complete DEF NoLoss
<1> QED
  BY <1>1, <1>2, <1>3, PTL DEF Spec
=============================================================================
