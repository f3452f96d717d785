----------------------------- MODULE GatewayStartup -----------------------------
(***************************************************************************)
(* Finding or starting the local service an init talks to: the resolver of *)
(* the gateway URL (src/core/gateway-resolver.ts), which probes, spawns    *)
(* aasm and polls until a deadline, and the sidecar entry point            *)
(* (src/runtime.ts), which probes and spawns without waiting.  Several     *)
(* inits of one process overlap, and the services come and go on their     *)
(* own: a spawned process may take any time to listen, or never do so.     *)
(*                                                                         *)
(* Timers fire on time: the clock does not pass a timer that is due.       *)
(***************************************************************************)
EXTENDS Integers

CONSTANTS
  Inits,         \* calls of resolveGatewayUrl or of the runtime's initAssembly
  Timeout,       \* DEFAULT_AUTO_START_TIMEOUT_MS
  ProbeTimeout,  \* DEFAULT_PROBE_TIMEOUT_MS, or the 100 ms of isRunning
  PollInterval,  \* of waitForHealthz
  MaxNow,        \* bound of the clock
  None

ASSUME TimesAssumption ==
  /\ {Timeout, ProbeTimeout, PollInterval} \subseteq Nat \ {0}
  /\ MaxNow \in Nat
  /\ None \notin Int

VARIABLES
  now,
  up,         \* the services that listen
  flow,       \* which of the two entry points each call uses
  given,      \* whether argument, environment or config file names the URL
  optIn,      \* AA_AUTO_START
  binary,     \* the aasm that the search for it finds
  at,         \* how far each call has got
  due,        \* when the timer a call waits for fires
  deadline,   \* of a call's waitForHealthz
  lastProbe,  \* when a call sent its latest probe
  found       \* the calls whose probe was answered

timers == <<due, deadline, lastProbe>>
environment == <<flow, given, optIn, binary>>
vars == <<now, up, environment, at, timers, found>>

Services == {"resolver", "runtime"}
Binaries == {"missing", "untrusted", "broken", "trusted"}
Probing == {"probing", "polling", "last"}
Settled == {"resolved", "config_error", "gateway_error", "crashed"}
Times == 0 .. MaxNow + Timeout + ProbeTimeout + PollInterval

TypeOK ==
  /\ now \in 0..MaxNow
  /\ up \subseteq Services
  /\ flow \in [Inits -> Services]
  /\ given \in [Inits -> BOOLEAN]
  /\ optIn \in BOOLEAN
  /\ binary \in Binaries
  /\ at \in [Inits -> {"new", "sleeping"} \cup Probing \cup Settled]
  /\ \A timer \in {due, deadline, lastProbe} : timer \in [Inits -> Times \cup {None}]
  /\ found \subseteq Inits

Init ==
  /\ now = 0
  /\ up = {}
  /\ flow \in [Inits -> Services]
  /\ given \in [Inits -> BOOLEAN]
  /\ optIn \in BOOLEAN
  /\ binary \in Binaries
  /\ at = [i \in Inits |-> "new"]
  /\ due = [i \in Inits |-> None]
  /\ deadline = [i \in Inits |-> None]
  /\ lastProbe = [i \in Inits |-> None]
  /\ found = {}

-----------------------------------------------------------------------------
Waiting(i) == at[i] \in {"sleeping"} \cup Probing

Tick ==
  /\ now < MaxNow
  /\ \A i \in Inits : Waiting(i) => now < due[i]
  /\ now' = now + 1
  /\ UNCHANGED <<up, environment, at, timers, found>>

\* A service starts or stops listening.
ServiceChanges(s) ==
  /\ up' = IF s \in up THEN up \ {s} ELSE up \cup {s}
  /\ UNCHANGED <<now, environment, at, timers, found>>

Settles(i, place) ==
  /\ at' = [at EXCEPT ![i] = place]
  /\ UNCHANGED timers

SendsProbe(i, place) ==
  /\ at' = [at EXCEPT ![i] = place]
  /\ due' = [due EXCEPT ![i] = now + ProbeTimeout]
  /\ lastProbe' = [lastProbe EXCEPT ![i] = now]

\* A URL that is given is taken; the sidecar entry point takes none.
Starts(i) ==
  /\ at[i] = "new"
  /\ IF flow[i] = "resolver" /\ given[i]
       THEN Settles(i, "resolved")
       ELSE SendsProbe(i, "probing") /\ UNCHANGED deadline
  /\ UNCHANGED <<now, up, environment, found>>

\* The service a call probes accepts a connection.
Listens(i) == flow[i] \in up

\* probeHealthz, isRunning: whatever phase the call is in, it is done.
ProbeAnswered(i) ==
  /\ at[i] \in Probing
  /\ Listens(i)
  /\ Settles(i, "resolved")
  /\ found' = found \cup {i}
  /\ UNCHANGED <<now, up, environment>>

\* A probe is refused, or its timer aborts it, as a slow service's may be.
ProbeFailed(i) ==
  /\ at[i] \in Probing
  /\ Listens(i) => now = due[i]

\* autoStartEnabled, and an aasm in a directory that is trusted.
SpawnAllowed == optIn /\ binary \notin {"missing", "untrusted"}

\* The first probe failed and aasm may not be spawned.
CannotAutoStart(i) ==
  /\ at[i] = "probing"
  /\ ProbeFailed(i)
  /\ ~SpawnAllowed
  /\ Settles(i, "config_error")
  /\ UNCHANGED <<now, up, environment, found>>

\* aasm cannot be executed: nobody listens to the child's error event, so the
\* process ends, and every call in it.
SpawnFails(i) ==
  /\ at[i] = "probing"
  /\ ProbeFailed(i)
  /\ SpawnAllowed /\ binary = "broken"
  /\ at' = [j \in Inits |-> "crashed"]
  /\ UNCHANGED <<now, up, environment, timers, found>>

\* Mutant: the timeout is taken for seconds.
DeadlineFor_Seconds == now + Timeout * 1000

DeadlineFor == now + Timeout

\* It is spawned; only the resolver waits for it.
AutoStarts(i) ==
  /\ at[i] = "probing"
  /\ ProbeFailed(i)
  /\ SpawnAllowed /\ binary # "broken"
  /\ IF flow[i] = "runtime"
       THEN Settles(i, "resolved")
       ELSE /\ SendsProbe(i, "polling")
            /\ deadline' = [deadline EXCEPT ![i] = DeadlineFor]
  /\ UNCHANGED <<now, up, environment, found>>

\* waitForHealthz sleeps between its probes.
Sleeps(i) ==
  /\ at[i] = "polling"
  /\ ProbeFailed(i)
  /\ at' = [at EXCEPT ![i] = "sleeping"]
  /\ due' = [due EXCEPT ![i] = now + PollInterval]
  /\ UNCHANGED <<now, up, environment, deadline, lastProbe, found>>

\* Mutants: the deadline is looked at the wrong way round; it is not looked at.
NextProbe_Swapped(i) == IF now < deadline[i] THEN "last" ELSE "polling"
NextProbe_Forever(i) == "polling"

\* The loop's condition: poll again, or send the one last probe.
NextProbe(i) == IF now < deadline[i] THEN "polling" ELSE "last"

WakesUp(i) ==
  /\ at[i] = "sleeping"
  /\ now = due[i]
  /\ SendsProbe(i, NextProbe(i))
  /\ UNCHANGED <<now, up, environment, deadline, found>>

\* The last probe failed: GatewayError.
GivesUp(i) ==
  /\ at[i] = "last"
  /\ ProbeFailed(i)
  /\ Settles(i, "gateway_error")
  /\ UNCHANGED <<now, up, environment, found>>

Next ==
  \/ Tick
  \/ \E s \in Services : ServiceChanges(s)
  \/ \E i \in Inits : Starts(i)
  \/ \E i \in Inits : ProbeAnswered(i)
  \/ \E i \in Inits : CannotAutoStart(i)
  \/ \E i \in Inits : SpawnFails(i)
  \/ \E i \in Inits : AutoStarts(i)
  \/ \E i \in Inits : Sleeps(i)
  \/ \E i \in Inits : WakesUp(i)
  \/ \E i \in Inits : GivesUp(i)

Spec == Init /\ [][Next]_vars

-----------------------------------------------------------------------------
(* Properties.                                                             *)

\* resolveGatewayUrl gives the default URL only for a gateway one of its own
\* probes found, and reports a gateway it started as not ready only after a
\* probe sent when the deadline was over: one that is up by then is found.
OutcomeMatchesProbes ==
  \A i \in Inits :
    /\ at[i] = "resolved" /\ flow[i] = "resolver" /\ ~given[i] => i \in found
    /\ at[i] = "gateway_error" => lastProbe[i] >= deadline[i]

\* An init that waits for a gateway does so for its timeout, one poll and two
\* probes at most, whatever the gateway does.
SettlesInTime ==
  \A i \in Inits :
    Waiting(i) /\ deadline[i] # None =>
      now < deadline[i] + PollInterval + 2 * ProbeTimeout
=============================================================================
