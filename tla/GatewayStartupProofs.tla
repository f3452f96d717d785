------------------------- MODULE GatewayStartupProofs -------------------------
(* Startup for any number of inits and any timeouts: what an outcome says of *)
(* the probes, and when it comes.                                            *)
EXTENDS GatewayStartup, TLAPS

Places == {"new", "sleeping"} \cup Probing \cup Settled

\* A timer that is waited for is not over.
Timers == \A i \in Inits : Waiting(i) => due[i] \in Int /\ now <= due[i]

\* The deadline is set with the spawn.
Deadlines ==
  \A i \in Inits :
    /\ at[i] \in {"new", "probing"} => deadline[i] = None
    /\ at[i] \in {"polling", "sleeping", "last", "gateway_error"} =>
         deadline[i] \in Int /\ lastProbe[i] \in Int

\* How far each round of waitForHealthz may get past the deadline: a poll is
\* sent before it, the sleep after one and the last probe each add a timer.
Rounds ==
  \A i \in Inits :
    /\ at[i] = "polling" =>
         lastProbe[i] < deadline[i] /\ due[i] = lastProbe[i] + ProbeTimeout
    /\ at[i] = "sleeping" => due[i] < deadline[i] + ProbeTimeout + PollInterval
    /\ at[i] = "last" =>
         /\ lastProbe[i] >= deadline[i]
         /\ due[i] < deadline[i] + PollInterval + 2 * ProbeTimeout

StartupInv == TypeOK /\ Timers /\ Deadlines /\ Rounds /\ OutcomeMatchesProbes

LEMMA InitStartup == Init => StartupInv
PROOF
<1> SUFFICES ASSUME Init PROVE StartupInv
  OBVIOUS
<1>1. /\ \A i \in Inits : at[i] = "new" /\ deadline[i] = None
      /\ now = 0 /\ MaxNow \in Nat
  BY TimesAssumption DEF Init
<1>2. TypeOK
  BY <1>1 DEF Init, TypeOK
<1>3. Timers /\ Deadlines /\ Rounds /\ OutcomeMatchesProbes
  BY <1>1 DEF Timers, Deadlines, Rounds, OutcomeMatchesProbes, Waiting, Probing
<1> QED
  BY <1>2, <1>3 DEF StartupInv

LEMMA NextTypes == StartupInv /\ [Next]_vars => TypeOK'
PROOF
<1> SUFFICES ASSUME StartupInv, [Next]_vars PROVE TypeOK'
  OBVIOUS
<1>1. TypeOK /\ now \in 0 .. MaxNow /\ MaxNow \in Nat
      /\ Timeout \in Nat \ {0} /\ ProbeTimeout \in Nat \ {0} /\ PollInterval \in Nat \ {0}
  BY TimesAssumption DEF StartupInv, TypeOK
<1>2. {now + ProbeTimeout, now + Timeout, now + PollInterval, now} \subseteq Times
  BY <1>1 DEF Times
<1>3. CASE Tick
  BY <1>1, <1>3 DEF Tick, TypeOK, environment, timers
<1>4. ASSUME NEW s \in Services, ServiceChanges(s) PROVE TypeOK'
  BY <1>1, <1>4 DEF ServiceChanges, TypeOK, environment, timers
<1>5. ASSUME NEW i \in Inits, NEW place \in Probing, SendsProbe(i, place)
      PROVE  /\ at' \in [Inits -> Places]
             /\ due' \in [Inits -> Times \cup {None}] /\ lastProbe' \in [Inits -> Times \cup {None}]
  BY <1>1, <1>2, <1>5 DEF SendsProbe, TypeOK, Places
<1>6. ASSUME NEW i \in Inits, NEW place \in Settled, Settles(i, place)
      PROVE  at' \in [Inits -> Places] /\ UNCHANGED <<due, deadline, lastProbe>>
  BY <1>1, <1>6 DEF Settles, TypeOK, Places, timers
<1>7. ASSUME NEW i \in Inits, Starts(i) PROVE TypeOK'
  <2>1. CASE Settles(i, "resolved")
    BY <1>1, <1>6, <1>7, <2>1 DEF Starts, TypeOK, Places, Settled, environment
  <2>2. CASE SendsProbe(i, "probing") /\ UNCHANGED deadline
    BY <1>1, <1>5, <1>7, <2>2 DEF Starts, TypeOK, Places, Probing, environment
  <2> QED
    BY <1>7, <2>1, <2>2 DEF Starts
<1>8. ASSUME NEW i \in Inits, ProbeAnswered(i) PROVE TypeOK'
  BY <1>1, <1>6, <1>8 DEF ProbeAnswered, TypeOK, Places, Settled, environment
<1>9. ASSUME NEW i \in Inits, CannotAutoStart(i) PROVE TypeOK'
  BY <1>1, <1>6, <1>9 DEF CannotAutoStart, TypeOK, Places, Settled, environment
<1>10. ASSUME NEW i \in Inits, SpawnFails(i) PROVE TypeOK'
  BY <1>1, <1>10 DEF SpawnFails, TypeOK, Settled, environment, timers
<1>11. ASSUME NEW i \in Inits, AutoStarts(i) PROVE TypeOK'
  <2>1. CASE Settles(i, "resolved")
    BY <1>1, <1>6, <1>11, <2>1 DEF AutoStarts, TypeOK, Places, Settled, environment
  <2>2. CASE SendsProbe(i, "polling") /\ deadline' = [deadline EXCEPT ![i] = DeadlineFor]
    <3>1. deadline' \in [Inits -> Times \cup {None}]
      BY <1>1, <1>2, <2>2 DEF DeadlineFor, TypeOK
    <3> QED
      BY <1>1, <1>5, <1>11, <2>2, <3>1 DEF AutoStarts, TypeOK, Places, Probing, environment
  <2> QED
    BY <1>11, <2>1, <2>2 DEF AutoStarts
<1>12. ASSUME NEW i \in Inits, Sleeps(i) PROVE TypeOK'
  <2>1. due' \in [Inits -> Times \cup {None}]
    BY <1>1, <1>2, <1>12 DEF Sleeps, TypeOK
  <2> QED
    BY <1>1, <1>12, <2>1 DEF Sleeps, TypeOK, environment
<1>13. ASSUME NEW i \in Inits, WakesUp(i) PROVE TypeOK'
  <2>1. NextProbe(i) \in Probing
    BY DEF NextProbe, Probing
  <2> QED
    BY <1>1, <1>5, <1>13, <2>1 DEF WakesUp, TypeOK, Places, environment
<1>14. ASSUME NEW i \in Inits, GivesUp(i) PROVE TypeOK'
  BY <1>1, <1>6, <1>14 DEF GivesUp, TypeOK, Places, Settled, environment
<1>15. CASE UNCHANGED vars
  BY <1>1, <1>15 DEF vars, TypeOK, environment, timers
<1> QED
  BY <1>3, <1>4, <1>7, <1>8, <1>9, <1>10, <1>11, <1>12, <1>13, <1>14, <1>15 DEF Next

Round == Timers /\ Deadlines /\ Rounds /\ OutcomeMatchesProbes

\* A call's settling is harmless for the timers of all.
LEMMA SettleKeeps ==
  ASSUME StartupInv, NEW i \in Inits, NEW place \in Settled, Settles(i, place),
         UNCHANGED <<now, environment>>, found \subseteq found',
         place = "resolved" /\ flow[i] = "resolver" /\ ~given[i] => i \in found',
         place = "gateway_error" => at[i] = "last"
  PROVE  Round'
PROOF
<1>1. /\ at \in [Inits -> Places] /\ at' = [at EXCEPT ![i] = place]
      /\ UNCHANGED <<now, due, deadline, lastProbe, flow, given>>
      /\ place \in {"resolved", "config_error", "gateway_error", "crashed"}
  BY DEF StartupInv, TypeOK, Places, Settles, timers, environment, Settled
<1>2. at'[i] = place /\ \A j \in Inits : j # i => at'[j] = at[j]
  BY <1>1
<1>3. Timers'
  BY <1>1, <1>2 DEF StartupInv, Timers, Waiting, Probing
<1>4. Deadlines'
  BY <1>1, <1>2 DEF StartupInv, Deadlines
<1>5. Rounds'
  BY <1>1, <1>2 DEF StartupInv, Rounds
<1>6. OutcomeMatchesProbes'
  BY <1>1, <1>2 DEF StartupInv, OutcomeMatchesProbes, Rounds
<1> QED
  BY <1>3, <1>4, <1>5, <1>6 DEF Round

\* What a call that goes on waiting must make true of its own timers.
Due(i) ==
  /\ Waiting(i) => due[i] \in Int /\ now <= due[i]
  /\ at[i] = "probing" => deadline[i] = None
  /\ at[i] \in {"polling", "sleeping", "last"} => deadline[i] \in Int /\ lastProbe[i] \in Int
  /\ at[i] = "polling" =>
       lastProbe[i] < deadline[i] /\ due[i] = lastProbe[i] + ProbeTimeout
  /\ at[i] = "sleeping" => due[i] < deadline[i] + ProbeTimeout + PollInterval
  /\ at[i] = "last" =>
       /\ lastProbe[i] >= deadline[i]
       /\ due[i] < deadline[i] + PollInterval + 2 * ProbeTimeout

LEMMA WaitKeeps ==
  ASSUME StartupInv, NEW i \in Inits, UNCHANGED <<now, environment, found>>,
         at'[i] \in {"sleeping"} \cup Probing, Due(i)',
         \A j \in Inits : j # i => /\ at'[j] = at[j] /\ due'[j] = due[j]
                                   /\ deadline'[j] = deadline[j] /\ lastProbe'[j] = lastProbe[j]
  PROVE  Round'
PROOF
<1>1. at'[i] \in {"sleeping", "probing", "polling", "last"} /\ UNCHANGED <<now, flow, given, found>>
  BY DEF Probing, environment
<1>2. Timers'
  BY <1>1 DEF StartupInv, Timers, Waiting, Probing, Due
<1>3. Deadlines'
  BY <1>1 DEF StartupInv, Deadlines, Due
<1>4. Rounds'
  BY <1>1 DEF StartupInv, Rounds, Due
<1>5. OutcomeMatchesProbes'
  BY <1>1 DEF StartupInv, OutcomeMatchesProbes
<1> QED
  BY <1>2, <1>3, <1>4, <1>5 DEF Round

LEMMA NextRound == StartupInv /\ [Next]_vars => Round'
PROOF
<1> SUFFICES ASSUME StartupInv, [Next]_vars PROVE Round'
  OBVIOUS
<1>1. /\ now \in Nat /\ at \in [Inits -> Places]
      /\ \A timer \in {due, deadline, lastProbe} : timer \in [Inits -> Times \cup {None}]
      /\ Timeout \in Nat \ {0} /\ ProbeTimeout \in Nat \ {0} /\ PollInterval \in Nat \ {0}
  BY TimesAssumption DEF StartupInv, TypeOK, Places
<1>2. CASE Tick
  <2>1. now' = now + 1 /\ UNCHANGED <<at, due, deadline, lastProbe, flow, given, found>>
    BY <1>2 DEF Tick, timers, environment
  <2>2. Timers'
    BY <1>1, <1>2, <2>1 DEF Tick, StartupInv, Timers, Waiting
  <2> QED
    BY <2>1, <2>2 DEF Round, StartupInv, Deadlines, Rounds, OutcomeMatchesProbes
<1>3. ASSUME UNCHANGED <<now, at, due, deadline, lastProbe, flow, given, found>> PROVE Round'
  BY <1>3 DEF Round, StartupInv, Timers, Waiting, Deadlines, Rounds, OutcomeMatchesProbes
<1>4. ASSUME NEW i \in Inits, NEW place \in Probing, SendsProbe(i, place)
      PROVE  /\ at'[i] = place /\ due'[i] = now + ProbeTimeout /\ lastProbe'[i] = now
             /\ \A j \in Inits : j # i => /\ at'[j] = at[j] /\ due'[j] = due[j]
                                          /\ lastProbe'[j] = lastProbe[j]
  BY <1>1, <1>4 DEF SendsProbe
<1>5. ASSUME NEW i \in Inits, Starts(i) PROVE Round'
  <2>1. UNCHANGED <<now, environment, found>> /\ at[i] = "new"
    BY <1>5 DEF Starts
  <2>2. CASE flow[i] = "resolver" /\ given[i] /\ Settles(i, "resolved")
    BY <2>1, <2>2, SettleKeeps DEF Settled
  <2>3. CASE SendsProbe(i, "probing") /\ UNCHANGED deadline
    <3>1. deadline[i] = None
      BY <2>1 DEF StartupInv, Deadlines
    <3>2. Due(i)' /\ at'[i] = "probing"
      BY <1>1, <1>4, <2>1, <2>3, <3>1 DEF Due, Probing
    <3> QED
      BY <1>4, <2>1, <2>3, <3>2, WaitKeeps DEF Probing
  <2> QED
    BY <1>5, <2>2, <2>3 DEF Starts
<1>6. ASSUME NEW i \in Inits, ProbeAnswered(i) PROVE Round'
  <2>1. /\ UNCHANGED <<now, environment>> /\ Settles(i, "resolved") /\ found \subseteq found' /\ i \in found'
    BY <1>6 DEF ProbeAnswered
  <2> QED
    BY <2>1, SettleKeeps DEF Settled
<1>7. ASSUME NEW i \in Inits, CannotAutoStart(i) PROVE Round'
  <2>1. UNCHANGED <<now, environment, found>> /\ Settles(i, "config_error")
    BY <1>7 DEF CannotAutoStart
  <2> QED
    BY <2>1, SettleKeeps DEF Settled
<1>8. ASSUME NEW i \in Inits, SpawnFails(i) PROVE Round'
  <2>1. \A j \in Inits : at'[j] = "crashed"
    BY <1>8 DEF SpawnFails
  <2> QED
    BY <2>1 DEF Round, Timers, Waiting, Probing, Deadlines, Rounds, OutcomeMatchesProbes
<1>9. ASSUME NEW i \in Inits, AutoStarts(i) PROVE Round'
  <2>1. UNCHANGED <<now, environment, found>>
    BY <1>9 DEF AutoStarts
  <2>2. CASE flow[i] = "runtime" /\ Settles(i, "resolved")
    BY <2>1, <2>2, SettleKeeps DEF Settled
  <2>3. CASE SendsProbe(i, "polling") /\ deadline' = [deadline EXCEPT ![i] = DeadlineFor]
    <3>1. deadline'[i] = now + Timeout /\ \A j \in Inits : j # i => deadline'[j] = deadline[j]
      BY <1>1, <2>3 DEF DeadlineFor
    <3>2. Due(i)' /\ at'[i] = "polling"
      BY <1>1, <1>4, <2>1, <2>3, <3>1 DEF Due, Probing
    <3> QED
      BY <1>4, <2>1, <2>3, <3>1, <3>2, WaitKeeps DEF Probing
  <2> QED
    BY <1>9, <2>2, <2>3 DEF AutoStarts
<1>10. ASSUME NEW i \in Inits, Sleeps(i) PROVE Round'
  <2>1. /\ UNCHANGED <<now, environment, deadline, lastProbe, found>> /\ at[i] = "polling"
        /\ at' = [at EXCEPT ![i] = "sleeping"] /\ due' = [due EXCEPT ![i] = now + PollInterval]
    BY <1>10 DEF Sleeps
  <2>2. /\ at'[i] = "sleeping" /\ due'[i] = now + PollInterval
        /\ \A j \in Inits : j # i => at'[j] = at[j] /\ due'[j] = due[j]
    BY <1>1, <2>1
  <2>3. /\ deadline[i] \in Int /\ lastProbe[i] \in Int /\ due[i] \in Int /\ now <= due[i]
        /\ lastProbe[i] < deadline[i] /\ due[i] = lastProbe[i] + ProbeTimeout
    BY <2>1 DEF StartupInv, Timers, Deadlines, Rounds, Waiting, Probing
  <2>4. now + PollInterval < deadline[i] + ProbeTimeout + PollInterval
    BY <1>1, <2>3
  <2>5. Due(i)'
    BY <1>1, <2>1, <2>2, <2>3, <2>4 DEF Due
  <2> QED
    BY <2>1, <2>2, <2>5, WaitKeeps
<1>11. ASSUME NEW i \in Inits, WakesUp(i) PROVE Round'
  <2>1. /\ UNCHANGED <<now, environment, deadline, found>> /\ at[i] = "sleeping" /\ now = due[i]
        /\ SendsProbe(i, NextProbe(i)) /\ NextProbe(i) \in Probing
    BY <1>11 DEF WakesUp, NextProbe, Probing
  <2>2. /\ deadline[i] \in Int /\ lastProbe[i] \in Int /\ due[i] \in Int
        /\ due[i] < deadline[i] + ProbeTimeout + PollInterval
    BY <2>1 DEF StartupInv, Timers, Deadlines, Rounds, Waiting
  <2>3. CASE now < deadline[i]
    <3>1. at'[i] = "polling"
      BY <1>4, <2>1, <2>3 DEF NextProbe
    <3>2. Due(i)'
      BY <1>1, <1>4, <2>1, <2>2, <2>3, <3>1 DEF Due
    <3> QED
      BY <1>4, <2>1, <3>1, <3>2, WaitKeeps DEF Probing
  <2>4. CASE ~(now < deadline[i])
    <3>1. at'[i] = "last"
      BY <1>4, <2>1, <2>4 DEF NextProbe
    <3>2. now + ProbeTimeout < deadline[i] + PollInterval + 2 * ProbeTimeout
      BY <1>1, <2>1, <2>2
    <3>3. Due(i)'
      BY <1>1, <1>4, <2>1, <2>2, <2>4, <3>1, <3>2 DEF Due
    <3> QED
      BY <1>4, <2>1, <3>1, <3>3, WaitKeeps DEF Probing
  <2> QED
    BY <2>3, <2>4
<1>12. ASSUME NEW i \in Inits, GivesUp(i) PROVE Round'
  <2>1. UNCHANGED <<now, environment, found>> /\ Settles(i, "gateway_error") /\ at[i] = "last"
    BY <1>12 DEF GivesUp
  <2> QED
    BY <2>1, SettleKeeps DEF Settled
<1>13. ASSUME (\E s \in Services : ServiceChanges(s)) \/ UNCHANGED vars
       PROVE  UNCHANGED <<now, at, due, deadline, lastProbe, flow, given, found>>
  BY <1>13 DEF ServiceChanges, vars, environment, timers
<1> QED
  BY <1>2, <1>3, <1>5, <1>6, <1>7, <1>8, <1>9, <1>10, <1>11, <1>12, <1>13 DEF Next

LEMMA StartupInvHolds == Spec => []StartupInv
PROOF
<1>1. StartupInv /\ [Next]_vars => StartupInv'
  BY NextTypes, NextRound DEF StartupInv, Round
<1> QED
  BY <1>1, InitStartup, PTL DEF Spec

-----------------------------------------------------------------------------
\* Startup's state keeps its types, the clock and its timers included.
THEOREM StartupTypeCorrect == Spec => []TypeOK
PROOF
<1>1. StartupInv => TypeOK
  BY DEF StartupInv
<1> QED
  BY <1>1, StartupInvHolds, PTL

\* A default URL was found by a probe of its own call, and a gateway is given
\* up only after a probe that was sent when the deadline was over.
THEOREM OutcomesMatchProbes == Spec => []OutcomeMatchesProbes
PROOF
<1>1. StartupInv => OutcomeMatchesProbes
  BY DEF StartupInv
<1> QED
  BY <1>1, StartupInvHolds, PTL

\* A wait for a gateway ends within its timeout, one poll and two probes.
THEOREM InitsSettleInTime == Spec => []SettlesInTime
PROOF
<1>1. StartupInv => SettlesInTime
  <2> SUFFICES ASSUME StartupInv, NEW i \in Inits, Waiting(i), deadline[i] # None
               PROVE  now < deadline[i] + PollInterval + 2 * ProbeTimeout
    BY DEF SettlesInTime
  <2>1. /\ at[i] \in {"polling", "sleeping", "last"} /\ due[i] \in Int /\ now <= due[i]
        /\ deadline[i] \in Int /\ lastProbe[i] \in Int /\ now \in Int
    BY TimesAssumption DEF StartupInv, TypeOK, Timers, Deadlines, Waiting, Probing
  <2>2. ProbeTimeout \in Nat \ {0} /\ PollInterval \in Nat \ {0}
    BY TimesAssumption
  <2> QED
    BY <2>1, <2>2 DEF StartupInv, Rounds
<1> QED
  BY <1>1, StartupInvHolds, PTL
=============================================================================
