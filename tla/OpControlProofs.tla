--------------------------- MODULE OpControlProofs ---------------------------
(* Safety of the op-control subscriber for any ops, calls and timeouts.      *)
EXTENDS OpControl, TLAPS

\* What is left blocked is queued on its own op, that op is paused and not
\* terminated, and a timed wait has its timer: each part needs the first.
IInv ==
  /\ TypeOK
  /\ BlockedIffQueued
  /\ NoLostWakeup
  /\ TimerOutlivesWait

\* A flush wakes exactly the calls blocked on the flushed ops.
LEMMA FlushWakesBlocked ==
  ASSUME TypeOK, BlockedIffQueued, NEW O \in SUBSET Ops, FlushResolvers(O)
  PROVE  /\ resolvers' \in [Ops -> SUBSET Calls]
         /\ phase' \in [Calls -> Phases]
         /\ \A o \in Ops : resolvers'[o] = IF o \in O THEN {} ELSE resolvers[o]
         /\ \A c \in Calls : phase'[c] =
              IF OpOf[c] \in O /\ phase[c] = "blocked" THEN "woken" ELSE phase[c]
PROOF
<1>1. resolvers' \in [Ops -> SUBSET Calls]
  BY DEF FlushResolvers, TypeOK
<1>2. phase' \in [Calls -> Phases]
  BY DEF FlushResolvers, Resolved, TypeOK, Phases
<1>3. \A o \in Ops : resolvers'[o] = IF o \in O THEN {} ELSE resolvers[o]
  BY DEF FlushResolvers
<1>4. ASSUME NEW c \in Calls
      PROVE  phase'[c] =
               IF OpOf[c] \in O /\ phase[c] = "blocked" THEN "woken" ELSE phase[c]
  <2>1. c \in QueuedOn(O) <=> \E o \in O : c \in resolvers[o]
    BY DEF QueuedOn
  <2>2. phase[c] = "blocked" => (c \in QueuedOn(O) <=> OpOf[c] \in O)
    BY <2>1, OpOfAssumption DEF BlockedIffQueued
  <2>3. phase'[c] =
          IF c \in QueuedOn(O) /\ phase[c] = "blocked" THEN "woken" ELSE phase[c]
    BY DEF FlushResolvers, Resolved
  <2> QED
    BY <2>2, <2>3
<1> QED
  BY <1>1, <1>2, <1>3, <1>4

\* What a flush does to the parts of the invariant about blocked calls, when
\* the flushed ops are the only ones whose slot may change.
LEMMA FlushKeepsInvariant ==
  ASSUME IInv, NEW O \in SUBSET Ops, FlushResolvers(O), timer' = timer,
         \A o \in Ops \ O : terminated'[o] = terminated[o] /\ (paused[o] => paused'[o])
  PROVE  /\ BlockedIffQueued'
         /\ NoLostWakeup'
         /\ TimerOutlivesWait'
PROOF
<1>1. /\ \A o \in Ops : resolvers'[o] = IF o \in O THEN {} ELSE resolvers[o]
      /\ \A c \in Calls : phase'[c] =
           IF OpOf[c] \in O /\ phase[c] = "blocked" THEN "woken" ELSE phase[c]
  BY FlushWakesBlocked DEF IInv
<1>2. BlockedIffQueued'
  BY <1>1, OpOfAssumption DEF IInv, BlockedIffQueued
<1>3. NoLostWakeup'
  <2> SUFFICES ASSUME NEW c \in Calls, phase'[c] = "blocked"
               PROVE  paused'[OpOf[c]] /\ ~terminated'[OpOf[c]]
    BY DEF NoLostWakeup
  <2>1. phase[c] = "blocked" /\ OpOf[c] \in Ops \ O
    BY <1>1, OpOfAssumption
  <2> QED
    BY <2>1 DEF IInv, NoLostWakeup
<1>4. TimerOutlivesWait'
  BY <1>1, TimedAssumption DEF IInv, TimerOutlivesWait
<1> QED
  BY <1>2, <1>3, <1>4

-----------------------------------------------------------------------------
LEMMA InitInvariant == Init => IInv
PROOF
<1> SUFFICES ASSUME Init PROVE IInv
  OBVIOUS
<1>1. TypeOK
  BY DEF Init, TypeOK, Phases
<1>2. BlockedIffQueued /\ NoLostWakeup /\ TimerOutlivesWait
  BY OpOfAssumption, TimedAssumption
  DEF Init, BlockedIffQueued, NoLostWakeup, TimerOutlivesWait
<1> QED
  BY <1>1, <1>2 DEF IInv

LEMMA NextInvariant == IInv /\ [Next]_vars => IInv'
PROOF
<1> SUFFICES ASSUME IInv, [Next]_vars PROVE IInv'
  OBVIOUS
<1>1. CASE OpenRealChannel
  BY <1>1 DEF OpenRealChannel, slots, calls, IInv, TypeOK, BlockedIffQueued,
              NoLostWakeup, TimerOutlivesWait
<1>2. ASSUME MarkStreamDead, UNCHANGED <<paused, terminated, timer>>,
             channel' \in {"importing", "opened", "abandoned", "failed"},
             stream' \in {"none", "live", "errored", "ended"},
             closed' \in BOOLEAN
      PROVE  IInv'
  <2>1. FlushResolvers(Ops)
    BY <1>2 DEF MarkStreamDead
  <2>2. TypeOK'
    BY <1>2, <2>1, FlushWakesBlocked DEF MarkStreamDead, IInv, TypeOK
  <2> QED
    BY <1>2, <2>1, <2>2, FlushKeepsInvariant DEF IInv
<1>3. CASE OpenRealChannelFails \/ StreamError \/ StreamEnd \/ Close
  <2>1. /\ MarkStreamDead
        /\ UNCHANGED <<paused, terminated, timer>>
        /\ channel' \in {"importing", "opened", "abandoned", "failed"}
        /\ stream' \in {"none", "live", "errored", "ended"}
        /\ closed' \in BOOLEAN
    BY <1>3 DEF OpenRealChannelFails, StreamError, StreamEnd, Close, IInv, TypeOK
  <2> QED
    BY <1>2, <2>1
<1>4. ASSUME NEW o \in Ops, NEW s \in Signals, Dispatch(o, s)
      PROVE  IInv'
  <2>1. /\ paused' \in [Ops -> BOOLEAN]
        /\ terminated' \in [Ops -> BOOLEAN]
    BY <1>4 DEF Dispatch, PausedAfter, TerminatedAfter, IInv, TypeOK, Signals
  <2>2. \A p \in Ops \ {o} : terminated'[p] = terminated[p] /\ paused'[p] = paused[p]
    BY <1>4 DEF Dispatch, IInv, TypeOK
  <2>3. UNCHANGED <<channel, stream, alive, closed, timer>>
    BY <1>4 DEF Dispatch
  <2>4. CASE Flushes(s)
    <3>1. FlushResolvers({o})
      BY <1>4, <2>4 DEF Dispatch
    <3>2. TypeOK'
      BY <2>1, <2>3, <3>1, FlushWakesBlocked DEF IInv, TypeOK
    <3> QED
      BY <2>2, <2>3, <3>1, <3>2, FlushKeepsInvariant DEF IInv
  <2>5. CASE ~Flushes(s)
    <3>1. UNCHANGED <<resolvers, phase>>
      BY <1>4, <2>5 DEF Dispatch
    <3>2. /\ paused[o] => paused'[o]
          /\ terminated'[o] = terminated[o]
      BY <1>4, <2>5 DEF Dispatch, PausedAfter, TerminatedAfter, Flushes, Signals,
                        IInv, TypeOK
    <3>3. TypeOK'
      BY <2>1, <2>3, <3>1 DEF IInv, TypeOK
    <3>4. NoLostWakeup'
      BY <2>2, <3>1, <3>2, OpOfAssumption DEF IInv, NoLostWakeup
    <3> QED
      BY <2>3, <3>1, <3>3, <3>4 DEF IInv, BlockedIffQueued, TimerOutlivesWait
  <2> QED
    BY <2>4, <2>5
<1>5. ASSUME NEW c \in Calls, WaitForOp(c)
      PROVE  IInv'
  <2>1. UNCHANGED <<channel, stream, alive, closed, paused, terminated>>
    BY <1>5 DEF WaitForOp
  <2>2. CASE UNCHANGED <<resolvers, timer>> /\ phase'[c] \in {"threw", "returned"}
    BY <1>5, <2>1, <2>2, OpOfAssumption, TimedAssumption
    DEF WaitForOp, IInv, TypeOK, Phases, BlockedIffQueued, NoLostWakeup,
        TimerOutlivesWait
  <2>3. CASE /\ ~terminated[OpOf[c]] /\ paused[OpOf[c]]
             /\ phase' = [phase EXCEPT ![c] = "blocked"]
             /\ resolvers' = [resolvers EXCEPT ![OpOf[c]] = @ \cup {c}]
             /\ timer' = [timer EXCEPT ![c] = TimerOf(c)]
    <3>1. TypeOK'
      BY <2>1, <2>3, OpOfAssumption DEF TimerOf, IInv, TypeOK, Phases
    <3>2. BlockedIffQueued'
      BY <1>5, <2>3, OpOfAssumption DEF WaitForOp, IInv, TypeOK, BlockedIffQueued
    <3>3. NoLostWakeup'
      BY <2>1, <2>3 DEF IInv, TypeOK, NoLostWakeup
    <3>4. TimerOutlivesWait'
      BY <2>3, TimedAssumption DEF TimerOf, IInv, TypeOK, TimerOutlivesWait
    <3> QED
      BY <3>1, <3>2, <3>3, <3>4 DEF IInv
  <2> QED
    BY <1>5, <2>2, <2>3 DEF WaitForOp, IInv, TypeOK
<1>6. ASSUME NEW c \in Calls, TimerFires(c)
      PROVE  IInv'
  <2>1. /\ UNCHANGED <<channel, stream, alive, closed, paused, terminated>>
        /\ timer' = [timer EXCEPT ![c] = "fired"]
        /\ resolvers' = [resolvers EXCEPT ![OpOf[c]] = @ \ {c}]
        /\ phase' = Resolved({c})
    BY <1>6 DEF TimerFires, TimedOut
  <2>2. \A d \in Calls : phase'[d] =
          IF d = c /\ phase[d] = "blocked" THEN "woken" ELSE phase[d]
    BY <2>1 DEF Resolved
  <2>3. TypeOK'
    BY <2>1, OpOfAssumption DEF Resolved, IInv, TypeOK, Phases
  <2>4. BlockedIffQueued'
    BY <2>1, <2>2, OpOfAssumption DEF IInv, TypeOK, BlockedIffQueued
  <2>5. NoLostWakeup'
    BY <2>1, <2>2 DEF IInv, NoLostWakeup
  <2>6. TimerOutlivesWait'
    BY <2>1, <2>2, TimedAssumption DEF IInv, TypeOK, TimerOutlivesWait
  <2> QED
    BY <2>3, <2>4, <2>5, <2>6 DEF IInv
<1>7. ASSUME NEW c \in Calls, Continue(c)
      PROVE  IInv'
  BY <1>7, OpOfAssumption, TimedAssumption
  DEF Continue, AfterWake, slots, IInv, TypeOK, Phases, BlockedIffQueued,
      NoLostWakeup, TimerOutlivesWait
<1>8. CASE UNCHANGED vars
  BY <1>8 DEF vars, IInv, TypeOK, BlockedIffQueued, NoLostWakeup, TimerOutlivesWait
<1> QED
  BY <1>1, <1>3, <1>4, <1>5, <1>6, <1>7, <1>8 DEF Next

LEMMA InvariantHolds == Spec => []IInv
PROOF
  BY InitInvariant, NextInvariant, PTL DEF Spec

-----------------------------------------------------------------------------
(* The results.                                                             *)

\* Every variable of the subscriber keeps its type.
THEOREM TypeCorrect == Spec => []TypeOK
PROOF
  BY InvariantHolds, PTL DEF IInv

\* waitForOp, the flushes and the timer agree on who is queued: a call is
\* blocked exactly while its resolver is in the slot of its own op.
THEOREM QueueIsExact == Spec => []BlockedIffQueued
PROOF
  BY InvariantHolds, PTL DEF IInv

\* No call is left blocked on an op that was resumed or terminated.
THEOREM NoWakeupIsLost == Spec => []NoLostWakeup
PROOF
  BY InvariantHolds, PTL DEF IInv

\* A timed call never waits without its timer.
THEOREM TimersOutliveWaits == Spec => []TimerOutlivesWait
PROOF
  BY InvariantHolds, PTL DEF IInv

LEMMA StepHasCause ==
  ASSUME IInv, [Next]_vars, NEW c \in Calls,
         phase[c] = "blocked", phase'[c] = "woken"
  PROVE  \/ ~paused'[OpOf[c]]
         \/ terminated'[OpOf[c]]
         \/ timer[c] = "armed" /\ timer'[c] = "fired"
         \/ ~alive'
PROOF
<1>1. CASE OpenRealChannelFails \/ StreamError \/ StreamEnd \/ Close
  BY <1>1 DEF OpenRealChannelFails, StreamError, StreamEnd, Close, MarkStreamDead
<1>2. ASSUME NEW o \in Ops, NEW s \in Signals, Dispatch(o, s)
      PROVE  ~paused'[OpOf[c]] \/ terminated'[OpOf[c]]
  <2>1. Flushes(s) /\ FlushResolvers({o})
    BY <1>2 DEF Dispatch, IInv, TypeOK
  <2>2. o = OpOf[c]
    BY <2>1, FlushWakesBlocked DEF IInv
  <2> QED
    BY <1>2, <2>1, <2>2 DEF Dispatch, Flushes, PausedAfter, TerminatedAfter, IInv, TypeOK
<1>3. ASSUME NEW d \in Calls, TimerFires(d)
      PROVE  timer[c] = "armed" /\ timer'[c] = "fired"
  BY <1>3 DEF TimerFires, TimedOut, Resolved, IInv, TypeOK
<1>4. CASE OpenRealChannel \/ UNCHANGED vars
  BY <1>4 DEF OpenRealChannel, calls, vars
<1>5. ASSUME NEW d \in Calls, WaitForOp(d) \/ Continue(d)
      PROVE  FALSE
  BY <1>5 DEF WaitForOp, Continue, AfterWake, IInv, TypeOK
<1> QED
  BY <1>1, <1>2, <1>3, <1>4, <1>5 DEF Next

\* A blocked call is released only by its own op's signal, its own timer or
\* the stream's death: one call's release never releases another.
THEOREM EveryWakeHasCause == Spec => WakesHaveCause
PROOF
<1>1. IInv /\ [Next]_vars =>
        [\A c \in Calls :
           phase[c] = "blocked" /\ phase'[c] = "woken" =>
             \/ ~paused'[OpOf[c]]
             \/ terminated'[OpOf[c]]
             \/ timer[c] = "armed" /\ timer'[c] = "fired"
             \/ ~alive']_vars
  BY StepHasCause
<1> QED
  BY <1>1, InvariantHolds, PTL DEF Spec, WakesHaveCause

-----------------------------------------------------------------------------
(* Who can still wake a wait once the stream has ended.                     *)

\* There is no stream while its channel is being imported, and only calls
\* with a timeout have a timer.
OrphanInv ==
  /\ channel = "importing" => stream = "none"
  /\ \A c \in Calls : timer[c] = "armed" => c \in Timed

LEMMA InitOrphan == Init => OrphanInv
PROOF
  BY DEF Init, OrphanInv

LEMMA NextOrphan == IInv /\ OrphanInv /\ [Next]_vars => OrphanInv'
PROOF
<1> SUFFICES ASSUME IInv, OrphanInv, [Next]_vars PROVE OrphanInv'
  OBVIOUS
<1>1. CASE OpenRealChannel
  BY <1>1 DEF OpenRealChannel, calls, OrphanInv
<1>2. CASE OpenRealChannelFails \/ StreamError \/ StreamEnd \/ Close
  BY <1>2 DEF OpenRealChannelFails, StreamError, StreamEnd, Close, OrphanInv
<1>3. ASSUME NEW o \in Ops, NEW s \in Signals, Dispatch(o, s) PROVE OrphanInv'
  BY <1>3 DEF Dispatch, OrphanInv
<1>4. ASSUME NEW d \in Calls, WaitForOp(d) \/ TimerFires(d) \/ Continue(d) PROVE OrphanInv'
  <2>1. UNCHANGED <<channel, stream>>
    BY <1>4 DEF WaitForOp, TimerFires, Continue
  <2>2. \E when \in {timer[d], TimerOf(d), "fired"} : timer' = [timer EXCEPT ![d] = when]
    BY <1>4 DEF WaitForOp, TimerFires, Continue, IInv, TypeOK
  <2> QED
    BY <2>1, <2>2 DEF OrphanInv, TimerOf, IInv, TypeOK
<1>5. CASE UNCHANGED vars
  BY <1>5 DEF vars, OrphanInv
<1> QED
  BY <1>1, <1>2, <1>3, <1>4, <1>5 DEF Next

LEMMA OrphanReleased ==
  ASSUME IInv, OrphanInv, [Next]_vars, NEW c \in Calls \ Timed,
         stream = "ended", phase[c] = "blocked", phase'[c] # "blocked"
  PROVE  closed'
PROOF
<1>1. ~(OpenRealChannelFails \/ StreamError \/ StreamEnd)
  BY DEF OpenRealChannelFails, StreamError, StreamEnd, OrphanInv
<1>2. ASSUME NEW o \in Ops, NEW s \in Signals PROVE ~Dispatch(o, s)
  BY DEF Dispatch
<1>3. ASSUME NEW d \in Calls, WaitForOp(d) \/ Continue(d) PROVE FALSE
  BY <1>3 DEF WaitForOp, Continue, IInv, TypeOK
<1>4. ASSUME NEW d \in Calls, TimerFires(d) PROVE FALSE
  BY <1>4 DEF TimerFires, TimedOut, Resolved, OrphanInv
<1>5. ~(OpenRealChannel \/ UNCHANGED vars)
  BY DEF OpenRealChannel, calls, vars
<1> QED
  BY <1>1, <1>2, <1>3, <1>4, <1>5 DEF Next, Close

\* After the stream has ended a wait without a timeout is released by close()
\* alone: no signal, no other call's timer and no late import reaches it.
THEOREM OrphansNeedClose == Spec => OrphanedWaitNeedsClose
PROOF
<1>1. IInv /\ OrphanInv /\ [Next]_vars =>
        [\A c \in Calls \ Timed :
           /\ stream = "ended" /\ phase[c] = "blocked"
           /\ phase'[c] # "blocked"
           => closed']_vars
  BY OrphanReleased
<1>2. Spec => []OrphanInv
  BY InitOrphan, NextOrphan, InvariantHolds, PTL DEF Spec
<1> QED
  BY <1>1, <1>2, InvariantHolds, PTL DEF Spec, OrphanedWaitNeedsClose

-----------------------------------------------------------------------------
(* The subscriber implements the kill switch.                               *)

LEMMA InitRefines == Init => Switch!Init
PROOF
  BY DEF Init, Switch!Init, Outcome

Killed == {o \in Ops : terminated[o]}

\* A step that terminates nothing and only releases blocked calls is invisible.
LEMMA ReleaseStutters ==
  ASSUME TypeOK, terminated' = terminated, phase' \in [Calls -> Phases],
         \A c \in Calls : phase'[c] = phase[c] \/
                             (phase[c] = "blocked" /\ phase'[c] = "woken")
  PROVE  UNCHANGED Switch!vars
PROOF
<1>1. Killed' = Killed
  BY DEF Killed
<1>2. Outcome' = Outcome
  BY DEF Outcome
<1> QED
  BY <1>1, <1>2 DEF Switch!vars, Killed

LEMMA StepRefines == IInv /\ [Next]_vars => [Switch!Next]_Switch!vars
PROOF
<1> SUFFICES ASSUME IInv, [Next]_vars PROVE [Switch!Next]_Switch!vars
  OBVIOUS
<1>1. CASE OpenRealChannel \/ UNCHANGED vars
  BY <1>1, ReleaseStutters DEF OpenRealChannel, slots, calls, vars, IInv, TypeOK
<1>2. CASE OpenRealChannelFails \/ StreamError \/ StreamEnd \/ Close
  <2>1. FlushResolvers(Ops) /\ UNCHANGED terminated
    BY <1>2 DEF OpenRealChannelFails, StreamError, StreamEnd, Close, MarkStreamDead
  <2> QED
    BY <2>1, FlushWakesBlocked, ReleaseStutters DEF IInv
<1>3. ASSUME NEW o \in Ops, NEW s \in Signals, Dispatch(o, s)
      PROVE  [Switch!Next]_Switch!vars
  <2>1. /\ phase' \in [Calls -> Phases]
        /\ \A c \in Calls : phase'[c] = phase[c] \/
                                (phase[c] = "blocked" /\ phase'[c] = "woken")
    BY <1>3, FlushWakesBlocked DEF Dispatch, IInv, TypeOK
  <2>2. CASE s = "TERMINATE"
    <3>1. Killed' = Killed \cup {o}
      BY <1>3, <2>2 DEF Dispatch, TerminatedAfter, Killed, IInv, TypeOK
    <3>2. Outcome' = Outcome
      BY <2>1 DEF Outcome
    <3> QED
      BY <3>1, <3>2 DEF Switch!Next, Switch!Kill, Killed
  <2>3. CASE s # "TERMINATE"
    <3>1. terminated' = terminated
      BY <1>3, <2>3 DEF Dispatch, TerminatedAfter, IInv, TypeOK
    <3> QED
      BY <2>1, <3>1, ReleaseStutters DEF IInv
  <2> QED
    BY <2>2, <2>3
<1>4. ASSUME NEW c \in Calls, WaitForOp(c)
      PROVE  [Switch!Next]_Switch!vars
  <2>1. Killed' = Killed /\ (OpOf[c] \in Killed <=> terminated[OpOf[c]])
    BY <1>4, OpOfAssumption DEF WaitForOp, Killed
  <2>2. Outcome[c] = "idle"
    BY <1>4 DEF WaitForOp, Outcome
  <2>3. CASE terminated[OpOf[c]] /\ phase' = [phase EXCEPT ![c] = "threw"]
    <3>1. Outcome' = [Outcome EXCEPT ![c] = "rejected"]
      BY <2>3 DEF Outcome, IInv, TypeOK
    <3>2. Switch!Reject(c)
      BY <2>1, <2>2, <2>3, <3>1 DEF Switch!Reject, Killed
    <3> QED
      BY <3>2 DEF Switch!Next
  <2>4. CASE ~terminated[OpOf[c]] /\ phase' = [phase EXCEPT ![c] = "returned"]
    <3>1. Outcome' = [Outcome EXCEPT ![c] = "passed"]
      BY <2>4 DEF Outcome, IInv, TypeOK
    <3>2. Switch!Pass(c)
      BY <2>1, <2>2, <2>4, <3>1 DEF Switch!Pass, Killed
    <3> QED
      BY <3>2 DEF Switch!Next
  <2>5. CASE ~terminated[OpOf[c]] /\ phase' = [phase EXCEPT ![c] = "blocked"]
    <3>1. Outcome' = [Outcome EXCEPT ![c] = "waiting"]
      BY <2>5 DEF Outcome, IInv, TypeOK
    <3>2. Switch!Ask(c)
      BY <2>1, <2>2, <2>5, <3>1 DEF Switch!Ask, Killed
    <3> QED
      BY <3>2 DEF Switch!Next
  <2> QED
    BY <1>4, <2>3, <2>4, <2>5 DEF WaitForOp
<1>5. ASSUME NEW c \in Calls, TimerFires(c)
      PROVE  [Switch!Next]_Switch!vars
  BY <1>5, ReleaseStutters DEF TimerFires, TimedOut, Resolved, IInv, TypeOK, Phases
<1>6. ASSUME NEW c \in Calls, Continue(c)
      PROVE  [Switch!Next]_Switch!vars
  <2>1. Killed' = Killed /\ (OpOf[c] \in Killed <=> terminated[OpOf[c]])
    BY <1>6, OpOfAssumption DEF Continue, slots, Killed
  <2>2. Outcome[c] = "waiting"
    BY <1>6 DEF Continue, Outcome
  <2>3. CASE terminated[OpOf[c]]
    <3>1. Outcome' = [Outcome EXCEPT ![c] = "rejected"]
      BY <1>6, <2>3 DEF Continue, AfterWake, Outcome, IInv, TypeOK
    <3>2. Switch!Reject(c)
      BY <2>1, <2>2, <2>3, <3>1 DEF Switch!Reject, Killed
    <3> QED
      BY <3>2 DEF Switch!Next
  <2>4. CASE ~terminated[OpOf[c]]
    <3>1. Outcome' = [Outcome EXCEPT ![c] = "passed"]
      BY <1>6, <2>4 DEF Continue, AfterWake, Outcome, IInv, TypeOK
    <3>2. Switch!Pass(c)
      BY <2>1, <2>2, <2>4, <3>1 DEF Switch!Pass, Killed
    <3> QED
      BY <3>2 DEF Switch!Next
  <2> QED
    BY <2>3, <2>4
<1> QED
  BY <1>1, <1>2, <1>3, <1>4, <1>5, <1>6 DEF Next

\* waitForOp never lets a call past a terminated op, and a terminated op
\* never comes back: the subscriber implements the kill switch.
THEOREM ImplementsKillSwitch == Spec => Switch!Spec
PROOF
  BY InitRefines, StepRefines, InvariantHolds, PTL DEF Spec, Switch!Spec
=============================================================================
