------------------------------ MODULE OpControl ------------------------------
(***************************************************************************)
(* The op-control subscriber (src/op-control.ts): the gateway streams      *)
(* PAUSE / RESUME / TERMINATE signals for op ids, and waitForOp holds a    *)
(* tool call while its op is paused and rejects it when the op is          *)
(* terminated.                                                             *)
(*                                                                         *)
(* A call is one invocation of waitForOp.  Its promise is settled by a     *)
(* resolver held in the slot of its op; calling the resolver only makes    *)
(* the rest of waitForOp runnable ("woken"), and other handlers may run    *)
(* before it does.  An absent slot of the ops map reads exactly like a     *)
(* fresh one, so every op has a slot here.                                 *)
(***************************************************************************)
CONSTANTS
  Ops,      \* op ids
  Calls,    \* invocations of waitForOp, each made at most once
  OpOf,     \* the op id each call names
  Timed     \* the calls made with opts.timeoutMs

ASSUME OpOfAssumption == OpOf \in [Calls -> Ops]
ASSUME TimedAssumption == Timed \subseteq Calls

VARIABLES
  channel,     \* "importing" | "opened" | "abandoned" | "failed"
  stream,      \* what the reader's call still emits
  alive,       \* this.alive
  closed,      \* this.closed
  paused,      \* slot(op).paused
  terminated,  \* slot(op).terminated
  resolvers,   \* slot(op).resolvers, as the calls whose resolver is queued
  timer,       \* the setTimeout of a timed call
  phase        \* how far each call has got

slots == <<paused, terminated, resolvers>>
calls == <<timer, phase>>
vars == <<channel, stream, alive, closed, paused, terminated, resolvers, timer, phase>>

Signals == {"PAUSE", "RESUME", "TERMINATE", "UNSPECIFIED"}
Phases == {"idle", "blocked", "woken", "returned", "threw"}

TypeOK ==
  /\ channel \in {"importing", "opened", "abandoned", "failed"}
  /\ stream \in {"none", "live", "errored", "ended"}
  /\ alive \in BOOLEAN
  /\ closed \in BOOLEAN
  /\ paused \in [Ops -> BOOLEAN]
  /\ terminated \in [Ops -> BOOLEAN]
  /\ resolvers \in [Ops -> SUBSET Calls]
  /\ timer \in [Calls -> {"none", "armed", "fired"}]
  /\ phase \in [Calls -> Phases]

-----------------------------------------------------------------------------
\* connect: with a clientFactory the stream is open when connect returns,
\* without one the grpc modules are still being imported.
Init ==
  /\ \/ channel = "opened" /\ stream = "live"
     \/ channel = "importing" /\ stream = "none"
  /\ alive = TRUE
  /\ closed = FALSE
  /\ paused = [o \in Ops |-> FALSE]
  /\ terminated = [o \in Ops |-> FALSE]
  /\ resolvers = [o \in Ops |-> {}]
  /\ timer = [c \in Calls |-> "none"]
  /\ phase = [c \in Calls |-> "idle"]

\* Calling the resolvers of these calls: resolving a settled promise is a no-op.
Resolved(S) ==
  [c \in Calls |-> IF c \in S /\ phase[c] = "blocked" THEN "woken" ELSE phase[c]]

\* Mutants: a flush that wakes every slot; a flush that misses timed calls.
QueuedOn_AllSlots(O) == UNION {resolvers[o] : o \in Ops}
QueuedOn_SkipsTimed(O) == UNION {resolvers[o] \ Timed : o \in O}

\* flushResolvers on the slots of these ops.
QueuedOn(O) == UNION {resolvers[o] : o \in O}

FlushResolvers(O) ==
  /\ resolvers' = [o \in Ops |-> IF o \in O THEN {} ELSE resolvers[o]]
  /\ phase' = Resolved(QueuedOn(O))

\* Mutant: TERMINATE leaves the waiters in the queue.
Flushes_ResumeOnly(s) == s = "RESUME"

\* The signals after which dispatch flushes the slot.
Flushes(s) == s \in {"RESUME", "TERMINATE"}

PausedAfter(o, s) == s = "PAUSE" \/ (s # "RESUME" /\ paused[o])

\* Mutant: RESUME revives a terminated op.
TerminatedAfter_Revived(o, s) == (terminated[o] /\ s # "RESUME") \/ s = "TERMINATE"

TerminatedAfter(o, s) == terminated[o] \/ s = "TERMINATE"

MarkStreamDead ==
  /\ alive' = FALSE
  /\ FlushResolvers(Ops)

-----------------------------------------------------------------------------
\* Both imports settled: close() may have won the race against the open.
OpenRealChannel ==
  /\ channel = "importing"
  /\ IF closed
       THEN channel' = "abandoned" /\ UNCHANGED stream
       ELSE channel' = "opened" /\ stream' = "live"
  /\ UNCHANGED <<alive, closed, slots, calls>>

\* An import, the client constructor or the subscription threw.
OpenRealChannelFails ==
  /\ channel = "importing"
  /\ channel' = "failed"
  /\ MarkStreamDead
  /\ UNCHANGED <<stream, closed, paused, terminated, timer>>

\* The stream's "data" handler.
Dispatch(o, s) ==
  /\ stream = "live"
  /\ paused' = [paused EXCEPT ![o] = PausedAfter(o, s)]
  /\ terminated' = [terminated EXCEPT ![o] = TerminatedAfter(o, s)]
  /\ IF Flushes(s) THEN FlushResolvers({o}) ELSE UNCHANGED <<resolvers, phase>>
  /\ UNCHANGED <<channel, stream, alive, closed, timer>>

\* The stream's "error" and "end" handlers; an errored stream may still end.
StreamError ==
  /\ stream = "live"
  /\ stream' = "errored"
  /\ MarkStreamDead
  /\ UNCHANGED <<channel, closed, paused, terminated, timer>>

StreamEnd ==
  /\ stream \in {"live", "errored"}
  /\ stream' = "ended"
  /\ MarkStreamDead
  /\ UNCHANGED <<channel, closed, paused, terminated, timer>>

-----------------------------------------------------------------------------
\* Mutant: the timer is never set.
TimerOf_Unset(c) == timer[c]

TimerOf(c) == IF c \in Timed THEN "armed" ELSE "none"

\* waitForOp up to its await: it throws, returns or queues its resolver.
WaitForOp(c) ==
  LET o == OpOf[c] IN
  /\ phase[c] = "idle"
  /\ \/ /\ terminated[o]
        /\ phase' = [phase EXCEPT ![c] = "threw"]
        /\ UNCHANGED <<resolvers, timer>>
     \/ /\ ~terminated[o] /\ ~paused[o]
        /\ phase' = [phase EXCEPT ![c] = "returned"]
        /\ UNCHANGED <<resolvers, timer>>
     \/ /\ ~terminated[o] /\ paused[o]
        /\ phase' = [phase EXCEPT ![c] = "blocked"]
        /\ resolvers' = [resolvers EXCEPT ![o] = @ \cup {c}]
        /\ timer' = [timer EXCEPT ![c] = TimerOf(c)]
  /\ UNCHANGED <<channel, stream, alive, closed, paused, terminated>>

\* Mutant: the timer flushes the whole slot of the call's op.
TimedOut_Slot(c) == resolvers[OpOf[c]]

\* The resolvers the timeout callback splices out and calls.
TimedOut(c) == {c}

\* The timeout is never cleared: it also fires after the call was released.
\* Timers run only when no continuation is waiting in the microtask queue.
TimerFires(c) ==
  LET o == OpOf[c] IN
  /\ timer[c] = "armed"
  /\ \A d \in Calls : phase[d] # "woken"
  /\ timer' = [timer EXCEPT ![c] = "fired"]
  /\ resolvers' = [resolvers EXCEPT ![o] = @ \ TimedOut(c)]
  /\ phase' = Resolved(TimedOut(c))
  /\ UNCHANGED <<channel, stream, alive, closed, paused, terminated>>

\* Mutants: the op's state is taken for the call's; terminated is not read again
\* after the await.
AfterWake_Flag(c) == IF terminated[OpOf[c]] THEN "terminated" ELSE "returned"
AfterWake_NoRecheck(c) == "returned"

\* What waitForOp does after its await: only terminated is read again.
AfterWake(c) == IF terminated[OpOf[c]] THEN "threw" ELSE "returned"

Continue(c) ==
  /\ phase[c] = "woken"
  /\ phase' = [phase EXCEPT ![c] = AfterWake(c)]
  /\ UNCHANGED <<channel, stream, alive, closed, slots, timer>>

\* close: cancel() ends the stream later, through its "error" handler.
Close ==
  /\ closed' = TRUE
  /\ MarkStreamDead
  /\ UNCHANGED <<channel, stream, paused, terminated, timer>>

-----------------------------------------------------------------------------
Next ==
  \/ OpenRealChannel
  \/ OpenRealChannelFails
  \/ \E o \in Ops, s \in Signals : Dispatch(o, s)
  \/ StreamError
  \/ StreamEnd
  \/ \E c \in Calls : WaitForOp(c)
  \/ \E c \in Calls : TimerFires(c)
  \/ \E c \in Calls : Continue(c)
  \/ Close

Spec == Init /\ [][Next]_vars

\* The event loop runs every settled continuation and every due timer.
Fairness ==
  /\ \A c \in Calls : WF_vars(Continue(c))
  /\ \A c \in Calls : WF_vars(TimerFires(c))

FairSpec == Spec /\ Fairness
-----------------------------------------------------------------------------
(* Properties.                                                             *)

\* A call is blocked exactly while its resolver is queued in the slot of its
\* own op, and nowhere else: no resolver is lost, none is called twice
\* (waitForOp's push, flushResolvers and the timer's splice agree).
BlockedIffQueued ==
  \A c \in Calls, o \in Ops :
    c \in resolvers[o] <=> (phase[c] = "blocked" /\ o = OpOf[c])

\* No lost wakeup: nobody is left blocked on an op that was resumed or
\* terminated, whatever the order of signals, timers and stream death.
NoLostWakeup ==
  \A c \in Calls :
    phase[c] = "blocked" => paused[OpOf[c]] /\ ~terminated[OpOf[c]]

\* A timed call that is still blocked still has its timer to wake it.
TimerOutlivesWait ==
  \A c \in Timed : phase[c] = "blocked" => timer[c] = "armed"

\* A blocked call wakes only for its own op's signal, its own timer, or the
\* death of the stream: one op's signal or one call's timer never releases
\* another call (flushResolvers takes one slot, the timer splices one entry).
WakesHaveCause ==
  [][\A c \in Calls :
       phase[c] = "blocked" /\ phase'[c] = "woken" =>
         \/ ~paused'[OpOf[c]]
         \/ terminated'[OpOf[c]]
         \/ timer[c] = "armed" /\ timer'[c] = "fired"
         \/ ~alive']_vars

\* A wait without timeoutMs that begins on a paused op after the stream has
\* ended is released by close() alone: markStreamDead does not run again.
OrphanedWaitNeedsClose ==
  [][\A c \in Calls \ Timed :
       /\ stream = "ended" /\ phase[c] = "blocked"
       /\ phase'[c] # "blocked"
       => closed']_vars

\* A wait with timeoutMs always settles, even when the stream is dead.
TimedWaitSettles ==
  \A c \in Timed : phase[c] = "blocked" ~> phase[c] \in {"returned", "threw"}

\* The promise about TERMINATE, as an abstract specification.
Outcome ==
  [c \in Calls |->
     IF phase[c] \in {"blocked", "woken"} THEN "waiting"
     ELSE IF phase[c] = "returned" THEN "passed"
     ELSE IF phase[c] = "threw" THEN "rejected"
     ELSE "idle"]

Switch == INSTANCE KillSwitch WITH
  killed <- {o \in Ops : terminated[o]}, outcome <- Outcome

\* Every behaviour of waitForOp is a behaviour of the kill switch.
KillSwitchHolds == Switch!FairSpec
=============================================================================
