-------------------------- MODULE InitAssemblyProofs --------------------------
(* What a wrapped tool's verdict means, for any checks, events and answers.  *)
EXTENDS InitAssembly, TLAPS

Answer == [kind : STRING, decision : Int, reason : STRING]

\* Fail-closed, a tool runs on an allow that the runtime replied, and on no
\* other answer.
LEMMA EnforceDecides ==
  ASSUME NEW answer \in Answer
  PROVE  V!Runs(V!check(answer, TRUE), TRUE) <=>
           /\ answer.kind = "reply" /\ answer.decision = V!Allow
           /\ answer.reason # V!FailOpen
PROOF
<1> DEFINE verdict == V!query_policy(answer)
           decided == V!check(answer, TRUE)
<1>1. V!ApprovalDenied(TRUE)
  BY DEF V!ApprovalDenied, V!resolveVerdict, V!Signal
<1>2. V!Runs(decided, TRUE) <=> ~decided.denied /\ ~decided.pending
  BY <1>1 DEF V!Runs
<1>3. CASE V!QueryFaults(answer)
  BY <1>2, <1>3 DEF V!check, V!CheckFaulted, V!QueryFaults
<1>4. CASE ~V!QueryFaults(answer)
  <2>1. decided.denied <=>
          verdict.decision = "deny" \/ (verdict.decision # "pending" /\ ~V!Authoritative(verdict))
    BY <1>4 DEF V!check, V!resolveVerdict, V!AsRaw, V!Signal, V!mapDecisionToPolicyResult
  <2>2. decided.pending <=> verdict.decision = "pending"
    BY <1>4 DEF V!check, V!resolveVerdict, V!AsRaw, V!Signal, V!mapDecisionToPolicyResult
  <2>3. V!Runs(decided, TRUE) <=> V!Authoritative(verdict)
    BY <1>2, <2>1, <2>2 DEF V!Authoritative
  <2>4. CASE answer.kind \in V!Unanswered
    BY <2>3, <2>4 DEF V!query_policy, V!Authoritative, V!Unanswered
  <2>5. CASE answer.kind = "reply"
    <3>1. verdict = [decision |-> V!decision_to_str(answer.decision), reason |-> answer.reason]
      BY <2>5 DEF V!query_policy, V!Unanswered
    <3>2. V!decision_to_str(answer.decision) = "allow" <=> answer.decision = V!Allow
      BY DEF V!decision_to_str
    <3>3. verdict.decision = V!decision_to_str(answer.decision) /\ verdict.reason = answer.reason
      BY <3>1
    <3>4. V!Authoritative(verdict) <=> answer.decision = V!Allow /\ answer.reason # V!FailOpen
      BY <3>2, <3>3 DEF V!Authoritative
    <3> QED
      BY <2>3, <2>5, <3>4
  <2> QED
    BY <1>4, <2>4, <2>5 DEF V!QueryFaults
<1> QED
  BY <1>3, <1>4

\* Advisory, a deny that the runtime replied blocks a tool, and no other answer.
LEMMA AdvisoryDecides ==
  ASSUME NEW answer \in Answer
  PROVE  V!Runs(V!check(answer, FALSE), FALSE) <=>
           ~(answer.kind = "reply" /\ answer.decision = V!Deny)
PROOF
<1> DEFINE verdict == V!query_policy(answer)
           decided == V!check(answer, FALSE)
<1>1. ~V!ApprovalDenied(FALSE)
  BY DEF V!ApprovalDenied, V!resolveVerdict, V!Signal
<1>2. V!Runs(decided, FALSE) <=> ~decided.denied
  BY <1>1 DEF V!Runs
<1>3. CASE V!QueryFaults(answer)
  BY <1>2, <1>3 DEF V!check, V!CheckFaulted, V!QueryFaults
<1>4. CASE ~V!QueryFaults(answer)
  <2>1. V!Runs(decided, FALSE) <=> verdict.decision # "deny"
    BY <1>2, <1>4 DEF V!check, V!resolveVerdict, V!AsRaw, V!Signal, V!mapDecisionToPolicyResult
  <2>2. CASE answer.kind \in V!Unanswered
    BY <2>1, <2>2 DEF V!query_policy, V!Unanswered
  <2>3. CASE answer.kind = "reply"
    <3>1. verdict.decision = V!decision_to_str(answer.decision)
      BY <2>3 DEF V!query_policy, V!Unanswered
    <3>2. V!decision_to_str(answer.decision) = "deny" <=> answer.decision = V!Deny
      BY DEF V!decision_to_str, V!Allow, V!Deny, V!Pending, V!Redact
    <3> QED
      BY <2>1, <2>3, <3>1, <3>2
  <2> QED
    BY <1>4, <2>2, <2>3 DEF V!QueryFaults
<1> QED
  BY <1>3, <1>4

\* A fault before the runtime was asked decides by the posture alone.
LEMMA FaultDecides ==
  ASSUME NEW closed \in BOOLEAN
  PROVE  V!Runs(V!CheckFaulted(closed), closed) <=> ~closed
PROOF
  BY DEF V!Runs, V!CheckFaulted

-----------------------------------------------------------------------------
\* The guards hold on whatever got past them: no-op client, fail-closed
\* posture and wrapped tools never meet.
Guarded ==
  /\ config \in Configs
  /\ wrapped => config.wrapsTools
  /\ gateway = "noop" => ~ToolsUngoverned /\ ~CheckCapable /\ ~config.ownClient

\* A check that has no answer yet has not decided by one.
VInv ==
  /\ Guarded
  /\ tool \in [Checks -> {"idle", "checking", "ran", "blocked"}]
  /\ answered \in [Checks -> Answers \cup {None}]
  /\ \A c \in Checks : tool[c] \in {"idle", "checking"} => answered[c] = None
  /\ VerdictsDecide

LEMMA InitVInv == Init => VInv
PROOF
  BY DEF Init, VInv, Guarded, VerdictsDecide

LEMMA NextVInv == VInv /\ [Next]_vars => VInv'
PROOF
<1> SUFFICES ASSUME VInv, [Next]_vars PROVE VInv'
  OBVIOUS
<1>1. CASE UNCHANGED <<choices, wrapped, tools>>
  BY <1>1 DEF VInv, Guarded, VerdictsDecide, OwnAllow, OwnDeny, FailClosed,
              ToolsUngoverned, CheckCapable, choices, tools
<1>2. CASE Setup
  <2>1. Guarded'
    BY <1>2 DEF Setup, VInv, Guarded, ToolsUngoverned, FailClosed, CheckCapable, ClientOf
  <2> QED
    BY <1>2, <2>1 DEF Setup, VInv, VerdictsDecide, OwnAllow, OwnDeny, FailClosed, tools
<1>3. CASE ApplyFrameworkPatches
  <2>1. Guarded'
    BY <1>3 DEF ApplyFrameworkPatches, VInv, Guarded, ToolsUngoverned, FailClosed,
                CheckCapable, choices
  <2> QED
    BY <1>3, <2>1 DEF ApplyFrameworkPatches, VInv, VerdictsDecide, OwnAllow, OwnDeny,
                      FailClosed, choices, tools
<1>4. ASSUME NEW c \in Checks, InvokeTool(c)
      PROVE  VInv'
  <2>1. Guarded'
    BY <1>4 DEF InvokeTool, VInv, Guarded, ToolsUngoverned, FailClosed, CheckCapable, choices
  <2>2. gateway = "noop" => ~FailClosed
    BY <1>4 DEF InvokeTool, AllowsAll, VInv, Guarded, ToolsUngoverned
  <2>3. answered[c] = None
    BY <1>4 DEF InvokeTool, VInv
  <2> QED
    BY <1>4, <2>1, <2>2, <2>3 DEF InvokeTool, AllowsAll, VInv, VerdictsDecide, OwnAllow,
                                  OwnDeny, FailClosed, choices
<1>5. ASSUME NEW c \in Checks, NEW answer \in Answers, CheckAnswered(c, answer)
      PROVE  VInv'
  <2>1. Guarded' /\ FailClosed' = FailClosed
    BY <1>5 DEF CheckAnswered, VInv, Guarded, ToolsUngoverned, FailClosed, CheckCapable, choices
  <2>2. answered'[c] = answer /\ answer # None /\ answer \in Answer
    BY <1>5, AnswersAssumption DEF CheckAnswered, VInv, Answer
  <2>3. tool'[c] = IF V!Runs(V!check(answer, FailClosed), FailClosed) THEN "ran" ELSE "blocked"
    BY <1>5 DEF CheckAnswered, Decided, VInv
  <2>6. \A d \in Checks \ {c} : tool'[d] = tool[d] /\ answered'[d] = answered[d]
    BY <1>5 DEF CheckAnswered, Decided, VInv
  <2>7. /\ tool' \in [Checks -> {"idle", "checking", "ran", "blocked"}]
        /\ answered' \in [Checks -> Answers \cup {None}]
    BY <1>5 DEF CheckAnswered, Decided, VInv
  <2>8. FailClosed => tool'[c] = IF OwnAllow(c)' THEN "ran" ELSE "blocked"
    BY <2>2, <2>3, EnforceDecides DEF OwnAllow, FailClosed
  <2>9. ~FailClosed => tool'[c] = IF OwnDeny(c)' THEN "blocked" ELSE "ran"
    BY <2>2, <2>3, AdvisoryDecides DEF OwnDeny, FailClosed
  <2>10. VerdictsDecide'
    BY <2>1, <2>6, <2>8, <2>9 DEF VInv, VerdictsDecide, OwnAllow, OwnDeny
  <2> QED
    BY <2>1, <2>3, <2>6, <2>7, <2>10 DEF VInv
<1>6. ASSUME NEW c \in Checks, CheckThrew(c)
      PROVE  VInv'
  <2>1. Guarded' /\ FailClosed' = FailClosed
    BY <1>6 DEF CheckThrew, VInv, Guarded, ToolsUngoverned, FailClosed, CheckCapable, choices
  <2>2. tool'[c] = IF FailClosed THEN "blocked" ELSE "ran"
    BY <1>6, FaultDecides DEF CheckThrew, Decided, VInv, FailClosed
  <2>3. answered[c] = None
    BY <1>6 DEF CheckThrew, VInv
  <2> QED
    BY <1>6, <2>1, <2>2, <2>3 DEF CheckThrew, Decided, VInv, VerdictsDecide, OwnAllow, OwnDeny
<1> QED
  BY <1>1, <1>2, <1>3, <1>4, <1>5, <1>6
     DEF Next, vars, Register, Registered, SendAudit, NativeStep, Shutdown, TornDown,
         ClientClosed, choices, tools

\* What becomes of a wrapped tool is what the posture makes of the runtime's own
\* word: fail-closed it runs on an allow alone, advisory only a deny blocks it.
THEOREM VerdictsAreFollowed == Spec => []VerdictsDecide
PROOF
<1>1. VInv => VerdictsDecide
  BY DEF VInv
<1> QED
  BY InitVInv, NextVInv, <1>1, PTL DEF Spec

-----------------------------------------------------------------------------
\* The native client under the assembly, with what is proved of it.
NCP == INSTANCE NativeClientProofs WITH
  Queries <- Checks, Registers <- {boot}, Sends <- Audits \cup {topology},
  Closes <- {teardown, gatewayClose}, SerialCloses <- TRUE

LEMMA ClientAssumptions ==
  NCP!NoneAssumption /\ NCP!SerialAssumption /\ NCP!DisjointAssumption
PROOF
  BY CallsAssumption
     DEF NCP!NoneAssumption, NCP!SerialAssumption, NCP!DisjointAssumption, NCP!Openers, NCP!Calls

LEMMA StepsOfClient == [Next]_vars => [NC!Next]_NC!vars
PROOF
<1> SUFFICES ASSUME [Next]_vars PROVE [NC!Next]_NC!vars
  OBVIOUS
<1>1. UNCHANGED nativeVars => UNCHANGED NC!vars
  BY DEF nativeVars, NC!vars, NC!client
<1>2. Setup \/ ApplyFrameworkPatches \/ ClientClosed \/ (\E c \in Checks : CheckThrew(c))
        \/ UNCHANGED vars
      => UNCHANGED nativeVars
  BY DEF Setup, ApplyFrameworkPatches, ClientClosed, CheckThrew, vars
<1>3. Register => NC!Next \/ UNCHANGED nativeVars
  BY DEF Register, NC!Next
<1>4. Registered => NC!Next
  BY DEF Registered, NC!Next
<1>5. ASSUME NEW c \in Checks, InvokeTool(c) \/ \E answer \in Answers : CheckAnswered(c, answer)
      PROVE  NC!Next \/ UNCHANGED nativeVars
  BY <1>5 DEF InvokeTool, CheckAnswered, NC!Next
<1>6. ASSUME NEW e \in Audits, SendAudit(e)
      PROVE  NC!Next
  BY <1>6 DEF SendAudit, NC!Next
<1>7. NativeStep => NC!Next
  BY DEF NativeStep, NC!Next
<1>8. Shutdown \/ TornDown => NC!Next \/ UNCHANGED nativeVars
  BY DEF Shutdown, TornDown, NC!Next
<1> QED
  BY <1>1, <1>2, <1>3, <1>4, <1>5, <1>6, <1>7, <1>8 DEF Next

\* An assembly uses its native client as one is used: whatever it does, the
\* client behaves as NativeClient says, with closes that do not overlap.
THEOREM AssemblyUsesClient == Spec => NC!Spec
PROOF
<1>1. Init => NC!Init
  BY DEF Init
<1> QED
  BY <1>1, StepsOfClient, PTL DEF Spec, NC!Spec

LEMMA SameClient == [NC!Next]_NC!vars => [NCP!Next]_NCP!vars
PROOF
  BY DEF NC!ConnectSettles, NCP!ConnectSettles, NC!ConnectFails, NCP!ConnectFails,
         NC!QueryPolicy, NCP!QueryPolicy, NC!Register, NCP!Register, NC!RegisterMissing,
         NCP!RegisterMissing, NC!Asks, NCP!Asks, NC!Answered, NCP!Answered,
         NC!SendEvent, NCP!SendEvent, NC!SendDeferred, NCP!SendDeferred, NC!Close,
         NCP!Close, NC!Disconnect, NCP!Disconnect, NC!SessionShuts, NCP!SessionShuts,
         NC!Disconnected, NCP!Disconnected, NC!Next, NCP!Next, NC!vars, NCP!vars,
         NC!client, NCP!client, NC!Openers, NCP!Openers, NC!Calls, NCP!Calls,
         NC!Settled, NCP!Settled, NC!Places, NCP!Places, NC!Goto, NCP!Goto, NC!Memoized,
         NCP!Memoized, NC!GetHandle, NCP!GetHandle, NC!HandleReady, NCP!HandleReady,
         NC!HandleFailed, NCP!HandleFailed, NC!MemoAfterFailure, NCP!MemoAfterFailure,
         NC!StashAfterThrow, NCP!StashAfterThrow, NC!Enqueue, NCP!Enqueue, NC!Closing,
         NCP!Closing, NC!ThrowStash, NCP!ThrowStash, NC!MustDisconnect,
         NCP!MustDisconnect, NC!ActiveAfterDisconnect, NCP!ActiveAfterDisconnect

LEMMA InitClient == Init => NCP!TypeOK /\ NCP!SessionInv /\ NCP!NothingThrownYet
PROOF
<1>1. NC!Init => NCP!Init
  BY DEF NC!Init, NCP!Init, NC!Openers, NCP!Openers, NC!Calls, NCP!Calls
<1> QED
  BY <1>1, ClientAssumptions, NCP!InitTypes, NCP!InitSessions, NCP!InitNothingThrown DEF Init

LEMMA NextClient ==
  NCP!TypeOK /\ NCP!SessionInv /\ NCP!NothingThrownYet /\ [Next]_vars =>
    NCP!TypeOK' /\ NCP!SessionInv' /\ NCP!NothingThrownYet'
PROOF
  BY StepsOfClient, SameClient, ClientAssumptions, NCP!NextTypes, NCP!NextSessions,
     NCP!NextNothingThrown

-----------------------------------------------------------------------------
(* The life of the boot's sessions.                                         *)

Live(s) == session[s] \in {"connecting", "open"}

\* What each stage knows of the calls of the boot.
Registering ==
  /\ stage \in {"new", "ready"} => at[boot] = "idle"
  /\ stage \in {"new", "ready", "registering"} => at[topology] = "idle"
  /\ stage = "registering" =>
       /\ native = "connected"
       /\ config.binding = "full" => handle[boot] # None
       /\ at[boot] # "idle"

\* Shutdown's first close finds the session of the boot that is up held, takes it,
\* and goes on when that one is down.  Where its disconnect failed instead, its
\* error is the disconnect's own, so that shutdown is over and the second close,
\* which would find nothing, is never made.
TearsDown ==
  /\ stage \notin Ending \cup Ended => at[teardown] = "idle"
  /\ stage \notin {"closing"} \cup Ended => at[gatewayClose] = "idle"
  /\ \A s \in {boot, topology} : Live(s) =>
       /\ native = "connected"
       /\ \/ NCP!TeardownFailed(teardown, s)
          \/ /\ handlePromise = s
             /\ at[teardown] \notin NCP!Settled
             /\ at[teardown] # "idle" => handle[teardown] = s
  /\ stage \in {"closing"} \cup Ended =>
       at[teardown] \in NCP!Settled \/ (native # "connected" /\ at[teardown] = "idle")
  /\ stage \in {"closing", "down"} => \A s : ~NCP!TeardownFailed(teardown, s)

LifeTypes ==
  /\ config \in Configs
  /\ stage \in Booting \cup Ending \cup Ended \cup {"refused", "running"}
  /\ native \in {"none", "stub", "connected"}
  /\ gateway \in {"none", "caller", "noop", "native"}
  /\ registered \in BOOLEAN
  /\ wrapped \in BOOLEAN
  /\ tool \in [Checks -> {"idle", "checking", "ran", "blocked"}]
  /\ answered \in [Checks -> Answers \cup {None}]

ClientInv == NCP!TypeOK /\ NCP!SessionInv /\ NCP!NothingThrownYet

LifeInv == ClientInv /\ LifeTypes /\ Registering /\ TearsDown /\ RegisteredWasAccepted

LEMMA InitLife == Init => LifeInv
PROOF
<1> SUFFICES ASSUME Init PROVE LifeInv
  OBVIOUS
<1>1. ClientInv
  BY InitClient DEF ClientInv
<1>2. LifeTypes
  BY DEF Init, LifeTypes, Booting
<1>3. /\ \A c \in {boot, topology, teardown, gatewayClose} : at[c] = "idle"
      /\ \A s \in {boot, topology} : session[s] = "unused"
  BY DEF Init, NC!Init, NC!Calls, NC!Openers
<1>4. Registering /\ TearsDown /\ RegisteredWasAccepted
  BY <1>3 DEF Init, Registering, TearsDown, Live, Ending, Ended, RegisteredWasAccepted
<1> QED
  BY <1>1, <1>2, <1>4 DEF LifeInv

LEMMA NextTypes == LifeTypes /\ [Next]_vars => LifeTypes'
PROOF
<1> SUFFICES ASSUME LifeTypes, [Next]_vars PROVE LifeTypes'
  OBVIOUS
<1>1. CASE Setup
  BY <1>1 DEF Setup, Transport, ClientOf, LifeTypes, Booting, tools, Configs, Bindings
<1>2. CASE Register \/ Registered
  BY <1>2 DEF Register, Registered, RegisteredAfter, LifeTypes, Booting, choices, tools
<1>3. CASE ApplyFrameworkPatches
  BY <1>3 DEF ApplyFrameworkPatches, LifeTypes, Configs, choices, tools
<1>4. ASSUME NEW c \in Checks,
             InvokeTool(c) \/ CheckThrew(c) \/ \E answer \in Answers : CheckAnswered(c, answer)
      PROVE  LifeTypes'
  BY <1>4 DEF InvokeTool, CheckThrew, CheckAnswered, Decided, LifeTypes, choices, tools
<1>5. CASE NativeStep \/ \E e \in Audits : SendAudit(e)
  BY <1>5 DEF NativeStep, SendAudit, LifeTypes, choices, tools
<1>6. CASE Shutdown \/ TornDown \/ ClientClosed
  BY <1>6 DEF Shutdown, TornDown, ClientClosed, LifeTypes, Ending, Ended, choices, tools
<1>7. CASE UNCHANGED vars
  BY <1>7 DEF vars, choices, tools, LifeTypes
<1> QED
  BY <1>1, <1>2, <1>3, <1>4, <1>5, <1>6, <1>7 DEF Next

\* Of the calls of the boot and of shutdown, each is made by one action, and a
\* check moves when its tool does or when its promise lets it go on.
CheckMoves(c, place) ==
  \/ InvokeTool(c) \/ \E answer \in Answers : CheckAnswered(c, answer)
  \/ at[c] = "connecting" /\ place \in {"asking", "threw"}

LEMMA WhoMakesCalls ==
  ASSUME NCP!TypeOK, [Next]_vars
  PROVE  /\ at[boot] = "idle" /\ at'[boot] # "idle" => Register
         /\ at[topology] = "idle" /\ at'[topology] # "idle" => Registered
         /\ at[teardown] = "idle" /\ at'[teardown] # "idle" => Shutdown
         /\ at[gatewayClose] = "idle" /\ at'[gatewayClose] # "idle" => TornDown
         /\ \A c \in Checks : at'[c] # at[c] => CheckMoves(c, at'[c])
PROOF
<1> DEFINE Goal == /\ at[boot] = "idle" /\ at'[boot] # "idle" => Register
                   /\ at[topology] = "idle" /\ at'[topology] # "idle" => Registered
                   /\ at[teardown] = "idle" /\ at'[teardown] # "idle" => Shutdown
                   /\ at[gatewayClose] = "idle" /\ at'[gatewayClose] # "idle" => TornDown
                   /\ \A c \in Checks : at'[c] # at[c] => CheckMoves(c, at'[c])
<1> SUFFICES Goal
  OBVIOUS
<1>1. ASSUME NEW c, NEW place, NC!Goto(c, place),
             c = boot => at[c] # "idle" \/ Register,
             c = topology => at[c] # "idle" \/ Registered,
             c = teardown => at[c] # "idle" \/ Shutdown,
             c = gatewayClose => at[c] # "idle" \/ TornDown,
             c \in Checks => CheckMoves(c, place)
      PROVE  Goal
  BY <1>1 DEF NC!Goto, NCP!TypeOK
<1>2. ASSUME UNCHANGED at PROVE Goal
  BY <1>2
<1>3. CASE Setup \/ ApplyFrameworkPatches \/ ClientClosed \/ (\E c \in Checks : CheckThrew(c))
             \/ UNCHANGED vars
  BY <1>2, <1>3 DEF Setup, ApplyFrameworkPatches, ClientClosed, CheckThrew, vars, nativeVars
<1>4. CASE Register
  <2>1. boot \notin {topology, teardown, gatewayClose} \cup Checks
    BY CallsAssumption
  <2>2. (\E place : NC!Goto(boot, place)) \/ UNCHANGED at
    BY <1>4 DEF Register, NC!Register, NC!RegisterMissing, NC!GetHandle, nativeVars
  <2> QED
    BY <1>1, <1>2, <1>4, <2>1, <2>2
<1>5. CASE Registered
  <2>1. topology \notin {boot, teardown, gatewayClose} \cup Checks
    BY CallsAssumption
  <2>2. \E place : NC!Goto(topology, place)
    BY <1>5 DEF Registered, NC!SendEvent, NC!GetHandle
  <2> QED
    BY <1>1, <1>5, <2>1, <2>2
<1>6. ASSUME NEW c \in Checks, InvokeTool(c)
      PROVE  Goal
  <2>1. \A d \in {boot, topology, teardown, gatewayClose} : d # c
    BY CallsAssumption
  <2>2. (\E place : NC!Goto(c, place)) \/ UNCHANGED at
    BY <1>6 DEF InvokeTool, NC!QueryPolicy, NC!GetHandle, nativeVars
  <2> QED
    BY <1>1, <1>2, <1>6, <2>1, <2>2 DEF CheckMoves
<1>7. ASSUME NEW c \in Checks \cup {boot}, NC!Asks(c)
      PROVE  Goal
  <2>1. \A d \in {topology, teardown, gatewayClose} : d # c
    BY CallsAssumption
  <2>2. at[c] = "connecting" /\ \E place \in {"asking", "threw"} : NC!Goto(c, place)
    BY <1>7 DEF NC!Asks, NC!HandleReady, NC!HandleFailed
  <2> QED
    BY <1>1, <2>1, <2>2 DEF CheckMoves
<1>8. ASSUME NEW c \in Checks \cup {boot}, NC!Answered(c),
             c \in Checks => \E answer \in Answers : CheckAnswered(c, answer)
      PROVE  Goal
  <2>1. \A d \in {topology, teardown, gatewayClose} : d # c
    BY CallsAssumption
  <2>2. at[c] = "asking" /\ \E place : NC!Goto(c, place)
    BY <1>8 DEF NC!Answered
  <2> QED
    BY <1>1, <1>8, <2>1, <2>2 DEF CheckMoves
<1>9. ASSUME NEW e \in Audits, SendAudit(e)
      PROVE  Goal
  <2>1. \A d \in {boot, topology, teardown, gatewayClose} \cup Checks : d # e
    BY CallsAssumption
  <2>2. \E place : NC!Goto(e, place)
    BY <1>9 DEF SendAudit, NC!SendEvent, NC!GetHandle
  <2> QED
    BY <1>1, <2>1, <2>2
<1>10. ASSUME NEW e \in Audits \cup {topology}, NC!SendDeferred(e)
       PROVE  Goal
  <2>1. \A d \in {boot, teardown, gatewayClose} \cup Checks : d # e
    BY CallsAssumption
  <2>2. at[e] = "connecting" /\ NC!Goto(e, "done")
    BY <1>10 DEF NC!SendDeferred, NC!HandleReady, NC!HandleFailed
  <2> QED
    BY <1>1, <2>1, <2>2
<1>11. ASSUME NEW k \in {teardown, gatewayClose},
              NC!Disconnect(k) \/ NC!SessionShuts(k) \/ NC!Disconnected(k)
       PROVE  Goal
  <2>1. \A d \in {boot, topology} \cup Checks : d # k
    BY CallsAssumption
  <2>2. UNCHANGED at \/ (at[k] # "idle" /\ \E place : NC!Goto(k, place))
    BY <1>11 DEF NC!Disconnect, NC!SessionShuts, NC!Disconnected, NC!ThrowStash,
                 NC!HandleReady, NC!HandleFailed
  <2> QED
    BY <1>1, <1>2, <2>1, <2>2
<1>12. ASSUME NEW s, NC!ConnectSettles(s) \/ NC!ConnectFails(s)
       PROVE  Goal
  BY <1>2, <1>12 DEF NC!ConnectSettles, NC!ConnectFails
<1>13. ASSUME NEW k \in {teardown, gatewayClose}, NC!Close(k),
              k = teardown => Shutdown, k = gatewayClose => TornDown
       PROVE  Goal
  <2>1. \A d \in {boot, topology} \cup Checks : d # k
    BY CallsAssumption
  <2>2. \E place : NC!Goto(k, place)
    BY <1>13 DEF NC!Close, NC!ThrowStash
  <2> QED
    BY <1>1, <1>13, <2>1, <2>2
<1>14. CASE Shutdown \/ TornDown
  <2>1. teardown # gatewayClose
    BY CallsAssumption
  <2> QED
    BY <1>2, <1>13, <1>14, <2>1 DEF Shutdown, TornDown, nativeVars
<1>15. ASSUME NEW c \in Checks, NEW answer \in Answers, CheckAnswered(c, answer)
       PROVE  Goal
  <2>1. NC!Answered(c)
    BY <1>15 DEF CheckAnswered
  <2> QED
    BY <1>8, <1>15, <2>1
<1>16. ASSUME NC!Answered(boot) PROVE Goal
  <2>1. boot \notin Checks
    BY CallsAssumption
  <2> QED
    BY <1>8, <1>16, <2>1
<1>17. CASE NativeStep
  BY <1>7, <1>10, <1>11, <1>12, <1>16, <1>17 DEF NativeStep
<1> QED
  BY <1>3, <1>4, <1>5, <1>6, <1>9, <1>14, <1>15, <1>17 DEF Next

\* Only Setup chooses the client and the transport, before anything is called.
LEMMA StagesMove ==
  ASSUME LifeTypes, [Next]_vars
  PROVE  /\ config' = config
         /\ stage # "new" => native' = native
         /\ Setup => UNCHANGED nativeVars
         /\ stage' \in {"new", "ready", "registering"} =>
              stage' = stage \/ Setup \/ Register
         /\ stage' \notin Ending \cup Ended => stage \notin Ending \cup Ended
         /\ stage \in Ending \cup Ended => stage' \in Ending \cup Ended
PROOF
<1> DEFINE Stays == stage' = stage /\ UNCHANGED choices
<1>1. ASSUME NEW c \in Checks,
             InvokeTool(c) \/ CheckThrew(c) \/ \E answer \in Answers : CheckAnswered(c, answer)
      PROVE  Stays
  BY <1>1 DEF InvokeTool, CheckAnswered, CheckThrew
<1>2. NativeStep \/ (\E e \in Audits : SendAudit(e)) \/ UNCHANGED vars => Stays
  BY DEF NativeStep, SendAudit, vars
<1>3. CASE Stays
  <2>1. ~Setup
    BY <1>3 DEF Setup
  <2> QED
    BY <1>3, <2>1 DEF choices
<1>4. CASE Setup \/ Register \/ Registered \/ ApplyFrameworkPatches
  BY <1>4 DEF Setup, Register, Registered, ApplyFrameworkPatches, choices, Ending, Ended
<1>5. CASE Shutdown \/ TornDown \/ ClientClosed
  BY <1>5 DEF Setup, Shutdown, TornDown, ClientClosed, choices, Ending, Ended
<1> QED
  BY <1>1, <1>2, <1>3, <1>4, <1>5 DEF Next

LEMMA NextLife == LifeInv /\ [Next]_vars => LifeInv'
PROOF
<1> SUFFICES ASSUME LifeInv, [Next]_vars PROVE LifeInv'
  OBVIOUS
<1> USE CallsAssumption
<1>1. LifeTypes /\ LifeTypes' /\ ClientInv /\ ClientInv'
  BY NextTypes, NextClient DEF LifeInv, ClientInv
<1>2. NCP!TypeOK /\ NCP!SessionInv /\ NCP!NothingThrownYet
  BY <1>1 DEF ClientInv
<1>3. /\ at[boot] = "idle" /\ at'[boot] # "idle" => Register
      /\ at[topology] = "idle" /\ at'[topology] # "idle" => Registered
      /\ at[teardown] = "idle" /\ at'[teardown] # "idle" => Shutdown
      /\ at[gatewayClose] = "idle" /\ at'[gatewayClose] # "idle" => TornDown
  BY <1>2, WhoMakesCalls
<1>4. {boot, topology} \subseteq NCP!Openers /\ teardown \notin NCP!Openers
      /\ {boot, topology, teardown} \subseteq NCP!Calls
  BY DEF NCP!Openers, NCP!Calls
<1>5. /\ config' = config
      /\ stage # "new" => native' = native
      /\ Setup => UNCHANGED nativeVars
      /\ stage' \in {"new", "ready", "registering"} => stage' = stage \/ Setup \/ Register
      /\ stage' \notin Ending \cup Ended => stage \notin Ending \cup Ended
      /\ stage \in Ending \cup Ended => stage' \in Ending \cup Ended
  BY <1>1, StagesMove
<1>6. /\ \A c \in {boot, topology, teardown} :
           /\ at[c] \in NCP!Settled => at'[c] = at[c]
           /\ at[c] # "idle" => at'[c] # "idle" /\ handle'[c] = handle[c]
      /\ at[boot] = "idle" /\ at'[boot] = "connecting" => handle'[boot] # None
      /\ at[teardown] = "idle" /\ at'[teardown] \notin {"idle"} \cup NCP!Settled =>
           handle'[teardown] = handlePromise
      /\ \A s \in {boot, topology} : NCP!Opens(s) =>
           /\ at[s] = "idle" /\ at'[s] = "connecting"
           /\ at'[teardown] = at[teardown]
  BY <1>2, <1>4, ClientAssumptions, StepsOfClient, SameClient, NCP!OneCallMoves
     DEF NCP!MovedBy, NCP!Settled
<1>7. Registering'
  <2>1. stage' \in {"new", "ready"} => at'[boot] = "idle"
    <3>1. CASE Register
      BY <3>1 DEF Register
    <3> QED
      BY <1>3, <1>5, <3>1 DEF LifeInv, Registering, Setup
  <2>2. stage' \in {"new", "ready", "registering"} => at'[topology] = "idle"
    <3>1. CASE Registered
      BY <3>1 DEF Registered
    <3> QED
      BY <1>3, <1>5, <3>1 DEF LifeInv, Registering, Setup, Register
  <2>3. ASSUME stage' = "registering"
        PROVE  /\ native' = "connected"
               /\ config'.binding = "full" => handle'[boot] # None
               /\ at'[boot] # "idle"
    <3>1. CASE stage = "registering"
      BY <1>5, <1>6, <3>1 DEF LifeInv, Registering
    <3>2. CASE Register
      <4>1. native = "connected" /\ at[boot] = "idle"
        BY <2>3, <3>2 DEF Register, LifeInv, Registering
      <4>2. IF config.binding = "full" THEN NC!Register(boot) ELSE NC!RegisterMissing(boot)
        BY <2>3, <3>2 DEF Register
      <4>3. at'[boot] = IF config.binding = "full" THEN "connecting" ELSE "done"
        BY <1>2, <1>4, <4>2
           DEF NC!Register, NC!RegisterMissing, NC!GetHandle, NC!Goto, NCP!TypeOK
      <4> QED
        BY <1>5, <1>6, <3>2, <4>1, <4>3 DEF Register
    <3>3. ~Setup
      BY <2>3 DEF Setup
    <3> QED
      BY <1>5, <2>3, <3>1, <3>2, <3>3
  <2> QED
    BY <2>1, <2>2, <2>3 DEF Registering
<1>8. TearsDown'
  <2>1. stage' \notin Ending \cup Ended => at'[teardown] = "idle"
    <3>1. CASE Shutdown
      BY <3>1 DEF Shutdown, Ending
    <3> QED
      BY <1>3, <1>5, <3>1 DEF LifeInv, TearsDown
  <2>2. stage' \in {"closing"} \cup Ended =>
          stage \in {"closing"} \cup Ended \/ Shutdown \/ TornDown
    BY DEF Next, Setup, Register, Registered, ApplyFrameworkPatches, InvokeTool, CheckAnswered,
           CheckThrew, SendAudit, NativeStep, ClientClosed, vars, Ended
  <2>3. stage \in {"closing"} \cup Ended => stage' \in {"closing"} \cup Ended
    BY DEF Next, Setup, Register, Registered, ApplyFrameworkPatches, InvokeTool, CheckAnswered,
           CheckThrew, SendAudit, NativeStep, Shutdown, TornDown, ClientClosed, choices, vars, Ended
  <2>4. TornDown => stage' \in {"closing"} \cup Ended
    BY DEF TornDown, Ended
  <2>5. stage' \notin {"closing"} \cup Ended => at'[gatewayClose] = "idle"
    BY <1>3, <2>3, <2>4 DEF LifeInv, TearsDown
  <2>6. ASSUME NEW s \in {boot, topology}, Live(s)'
        PROVE  /\ native' = "connected"
               /\ \/ NCP!TeardownFailed(teardown, s)'
                  \/ /\ handlePromise' = s
                     /\ at'[teardown] \notin NCP!Settled
                     /\ at'[teardown] # "idle" => handle'[teardown] = s
    <3>1. CASE Live(s)
      <4>1. stage # "new"
        <5>1. at[s] # "idle"
          BY <1>2, <1>4, <3>1 DEF NCP!SessionInv, NCP!PromisesAreStarted, Live
        <5> QED
          BY <5>1 DEF LifeInv, Registering
      <4>2. native' = "connected"
        BY <1>5, <3>1, <4>1 DEF LifeInv, TearsDown
      <4>3. CASE NCP!TeardownFailed(teardown, s)
        BY <1>2, <4>2, <4>3, ClientAssumptions, StepsOfClient, SameClient, NCP!SettledStays
           DEF NCP!TeardownFailed, NCP!Settled
      <4>4. CASE ~NCP!TeardownFailed(teardown, s)
        <5>1. /\ handlePromise = s
              /\ at[teardown] \notin NCP!Settled
              /\ at[teardown] # "idle" => handle[teardown] = s
              /\ native = "connected"
          BY <3>1, <4>4 DEF LifeInv, TearsDown
        <5>2. CASE at'[teardown] \in NCP!Settled
          <6>1. IF at[teardown] = "idle" THEN handlePromise = None
                ELSE \/ session'[handle[teardown]] \in {"failed", "shut"}
                     \/ NCP!TeardownFailed(teardown, handle[teardown])'
            BY <1>2, <5>1, <5>2, ClientAssumptions, StepsOfClient, SameClient,
               NCP!CloseStepTearsDown
          <6>2. handle[teardown] = s /\ at[teardown] # "idle"
            BY <5>1, <6>1
          <6>3. session'[s] \in {"connecting", "open"}
            BY <2>6 DEF Live
          <6>4. handle'[teardown] = handle[teardown]
            BY <1>6, <6>2
          <6> QED
            BY <4>2, <6>1, <6>2, <6>3, <6>4 DEF NCP!TeardownFailed
        <5>3. CASE at'[teardown] \notin NCP!Settled
          <6>1. handlePromise' = s
            <7> SUFFICES ASSUME handlePromise' # s PROVE FALSE
              OBVIOUS
            <7>1. \E k \in {teardown, gatewayClose} : NCP!TeardownFailed(k, s)'
              BY <1>2, <1>4, <2>6, <5>1, ClientAssumptions, StepsOfClient, SameClient,
                 NCP!LettingGoIsTold DEF Live
            <7>2. ~NCP!TeardownFailed(teardown, s)'
              BY <5>3 DEF NCP!TeardownFailed, NCP!Settled
            <7>3. stage \notin {"closing"} \cup Ended
              BY <5>1 DEF LifeInv, TearsDown
            <7>4. ~TornDown
              BY <5>1 DEF TornDown, NCP!Settled
            <7>5. at'[gatewayClose] = "idle"
              BY <1>3, <7>3, <7>4 DEF LifeInv, TearsDown
            <7> QED
              BY <7>1, <7>2, <7>5 DEF NCP!TeardownFailed
          <6> QED
            BY <1>6, <4>2, <5>1, <5>3, <6>1
        <5> QED
          BY <5>2, <5>3
      <4> QED
        BY <4>3, <4>4
    <3>2. CASE ~Live(s)
      <4>1. NCP!Opens(s)
        BY <2>6, <3>2 DEF NCP!Opens, Live
      <4>2. Register \/ Registered
        BY <1>3, <1>6, <4>1
      <4>3. stage \notin Ending \cup Ended /\ stage # "new"
        BY <4>2 DEF Register, Registered, Ending, Ended
      <4>4. native = "connected"
        <5>1. CASE Registered
          BY <5>1 DEF Registered, LifeInv, Registering
        <5>2. CASE Register /\ native # "connected"
          BY <1>6, <4>1, <5>2 DEF Register, nativeVars
        <5> QED
          BY <4>2, <5>1, <5>2
      <4>5. at'[teardown] = "idle"
        BY <1>6, <4>1, <4>3 DEF LifeInv, TearsDown
      <4>6. handlePromise' = s
        BY <1>2, <1>4, <2>6, <3>2, ClientAssumptions, StepsOfClient, SameClient,
           NCP!LettingGoIsTold DEF Live
      <4> QED
        BY <1>5, <4>3, <4>4, <4>5, <4>6 DEF NCP!Settled
    <3> QED
      BY <3>1, <3>2
  <2>7. stage' \in {"closing"} \cup Ended =>
          at'[teardown] \in NCP!Settled \/ (native' # "connected" /\ at'[teardown] = "idle")
    <3>1. CASE stage \in {"closing"} \cup Ended
      <4>1. ~Shutdown
        BY <3>1 DEF Shutdown, Ended
      <4> QED
        BY <1>3, <1>5, <1>6, <3>1, <4>1 DEF LifeInv, TearsDown, Ended
    <3>2. CASE Shutdown
      <4>1. at[teardown] = "idle"
        BY <3>2 DEF Shutdown, Ended, Ending, LifeInv, TearsDown
      <4>2. stage' # "teardown" => native' # "connected" /\ UNCHANGED at
        BY <3>2 DEF Shutdown, MustClose, choices, nativeVars
      <4> QED
        BY <4>1, <4>2 DEF Ended
    <3>3. CASE TornDown
      <4>1. at[teardown] \in NCP!Settled
        BY <3>3 DEF TornDown, NCP!Settled
      <4> QED
        BY <1>6, <4>1
    <3> QED
      BY <2>2, <3>1, <3>2, <3>3
  <2>8. ASSUME stage' \in {"closing", "down"}, NEW s
        PROVE  ~NCP!TeardownFailed(teardown, s)'
    <3>1. at[teardown] \in NCP!Settled =>
            at'[teardown] = at[teardown] /\ thrown'[teardown] = thrown[teardown]
      BY <1>2, ClientAssumptions, StepsOfClient, SameClient, NCP!SettledStays
    <3>2. CASE stage \in {"closing", "down"}
      <4>1. CASE at[teardown] \in NCP!Settled
        BY <3>1, <3>2, <4>1 DEF LifeInv, TearsDown, NCP!TeardownFailed
      <4>2. CASE at[teardown] \notin NCP!Settled
        <5>1. at[teardown] = "idle" /\ ~Shutdown
          BY <3>2, <4>2 DEF LifeInv, TearsDown, Ended, Shutdown
        <5> QED
          BY <1>3, <5>1 DEF NCP!TeardownFailed
      <4> QED
        BY <4>1, <4>2
    <3>3. CASE Shutdown
      BY <2>8, <3>3 DEF Shutdown, LifeInv, TearsDown, nativeVars, NCP!TeardownFailed, Ending, Ended
    <3>4. CASE TornDown
      BY <1>2, <2>8, <3>1, <3>4
         DEF TornDown, Swallowed, Advisory, NCP!TeardownFailed, NCP!Settled
    <3>5. stage # "rejected"
      BY <2>8 DEF Next, Setup, Register, Registered, ApplyFrameworkPatches, InvokeTool,
           CheckAnswered, CheckThrew, SendAudit, NativeStep, Shutdown, TornDown, ClientClosed, vars
    <3> QED
      BY <2>2, <2>8, <3>2, <3>3, <3>4, <3>5 DEF Ended
  <2> QED
    BY <2>1, <2>5, <2>6, <2>7, <2>8 DEF TearsDown
<1>9. RegisteredWasAccepted'
  <2> SUFFICES ASSUME registered'
               PROVE  /\ native' = "connected" /\ at'[boot] = "done"
                      /\ config'.binding = "full" => handle'[boot] # None
    BY DEF RegisteredWasAccepted
  <2>1. CASE registered
    <3>1. stage # "new"
      BY <2>1 DEF LifeInv, RegisteredWasAccepted, Registering
    <3> QED
      BY <1>5, <1>6, <2>1, <3>1 DEF LifeInv, RegisteredWasAccepted, NCP!Settled
  <2>2. CASE Registered
    BY <1>5, <1>6, <2>2
       DEF Registered, RegisteredAfter, LifeInv, Registering, NCP!Settled
  <2>3. registered' = registered \/ Registered
    BY DEF Next, Setup, Register, ApplyFrameworkPatches, InvokeTool, CheckAnswered,
           CheckThrew, SendAudit, NativeStep, Shutdown, TornDown, ClientClosed, vars
  <2> QED
    BY <2>1, <2>2, <2>3
<1> QED
  BY <1>1, <1>7, <1>8, <1>9 DEF LifeInv

LEMMA LifeHolds == Spec => []LifeInv
PROOF
  BY InitLife, NextLife, PTL DEF Spec

\* registered is TRUE only if the gateway took the registration over a session,
\* for any binding that can register.
THEOREM RegistrationsAreAccepted == Spec => []RegisteredWasAccepted
PROOF
<1>1. LifeInv => RegisteredWasAccepted
  BY DEF LifeInv
<1> QED
  BY LifeHolds, <1>1, PTL

\* Whatever the tools send around it, a settled shutdown leaves no session of
\* the boot up, unless its disconnect failed and shutdown rejects with that error.
THEOREM ShutdownsTearDown == Spec => []ShutdownLeavesNoSession
PROOF
<1>1. LifeInv => ShutdownLeavesNoSession
  <2> SUFFICES ASSUME LifeInv, stage \in Ended, NEW s \in {boot, topology}, Live(s)
               PROVE  stage = "rejected" /\ NCP!TeardownFailed(teardown, s)
    BY DEF ShutdownLeavesNoSession, Live, NC!TeardownFailed, NCP!TeardownFailed
  <2>1. NCP!TeardownFailed(teardown, s)
    BY DEF LifeInv, TearsDown
  <2> QED
    BY <2>1 DEF LifeInv, TearsDown, Ended
<1> QED
  BY LifeHolds, <1>1, PTL

\* The assembly's state stays well typed, the native client's included.
THEOREM LifeTypeCorrect == Spec => []TypeOK
PROOF
<1>1. LifeInv => TypeOK
  BY DEF LifeInv, LifeTypes, ClientInv, TypeOK, NC!TypeOK, NCP!TypeOK, NC!Openers, NCP!Openers,
         NC!Calls, NCP!Calls, NC!Errors, NCP!Errors, NC!Places, NCP!Places
<1> QED
  BY LifeHolds, <1>1, PTL

-----------------------------------------------------------------------------
(* Nothing hangs.  LifecycleSettles needs fairness; this is what it rests on:  *)
(* every stage that awaits something awaits a call that was made, and finds    *)
(* what it needs for its next step once that call has settled.                 *)

\* initAssembly and shutdown, and each wrapped tool, wait for a call of the
\* client that has a step to take, or go on themselves.
LifeGoesOn ==
  /\ stage = "registering" =>
       /\ at[topology] = "idle"
       /\ at[boot] \in NCP!Settled \/ NCP!HasNext(boot)
  /\ stage = "teardown" =>
       /\ at[gatewayClose] = "idle"
       /\ at[teardown] \in NCP!Settled \/ NCP!HasNext(teardown)
  /\ stage = "closing" =>
       \/ gateway \in {"noop", "caller"}
       \/ at[gatewayClose] \in NCP!Settled
       \/ NCP!HasNext(gatewayClose)
  /\ \A c \in Checks : tool[c] = "checking" => at[c] = "threw" \/ NCP!HasNext(c)

\* A native gateway client has a connected client under it, so that shutdown's
\* second close follows the first; a tool's check is under way while it waits.
Awaits ==
  /\ gateway = "native" => native = "connected"
  /\ stage \notin {"new", "refused"} => gateway # "none"
  /\ stage \notin {"closing"} \cup Ended => at[gatewayClose] = "idle"
  /\ stage = "teardown" => at[teardown] # "idle"
  /\ stage = "closing" /\ gateway = "native" => at[gatewayClose] # "idle"
  /\ \A c \in Checks : tool[c] = "checking" => at[c] \in {"connecting", "asking", "threw"}

LEMMA InitAwaits == Init => Awaits
PROOF
  BY DEF Init, NC!Init, NC!Calls, Awaits, Ended

LEMMA NextAwaits == LifeInv /\ Awaits /\ [Next]_vars => Awaits'
PROOF
<1> SUFFICES ASSUME LifeInv, Awaits, [Next]_vars PROVE Awaits'
  OBVIOUS
<1> USE CallsAssumption
<1>1. NCP!TypeOK /\ LifeTypes
  BY DEF LifeInv, ClientInv
<1>2. /\ at[teardown] = "idle" /\ at'[teardown] # "idle" => Shutdown
      /\ at[gatewayClose] = "idle" /\ at'[gatewayClose] # "idle" => TornDown
      /\ \A c \in Checks : at'[c] # at[c] => CheckMoves(c, at'[c])
  BY <1>1, WhoMakesCalls
<1>3. \A c \in {teardown, gatewayClose} : at[c] # "idle" => at'[c] # "idle"
  <2>1. {teardown, gatewayClose} \subseteq NCP!Calls
    BY DEF NCP!Calls
  <2> QED
    BY <1>1, <2>1, ClientAssumptions, StepsOfClient, SameClient, NCP!OneCallMoves
       DEF NCP!MovedBy
<1>4. UNCHANGED <<gateway, native>> \/ Setup
  BY DEF Next, Register, Registered, ApplyFrameworkPatches, InvokeTool, CheckAnswered,
         CheckThrew, SendAudit, NativeStep, Shutdown, TornDown, ClientClosed, vars, choices
<1>5. ASSUME NEW c \in Checks, tool'[c] = "checking"
      PROVE  at'[c] \in {"connecting", "asking", "threw"}
  <2>1. CASE InvokeTool(c)
    BY <1>1, <1>5, <2>1
       DEF InvokeTool, NC!QueryPolicy, NC!GetHandle, NC!Goto, NCP!TypeOK, NCP!Calls,
           NCP!Openers, LifeTypes
  <2>2. ASSUME NEW answer \in Answers, CheckAnswered(c, answer)
        PROVE  FALSE
    BY <1>1, <1>5, <2>2 DEF CheckAnswered, Decided, LifeTypes
  <2>3. CASE ~InvokeTool(c)
    <3>1. tool[c] = "checking"
      BY <1>1, <1>5, <2>3
         DEF Next, Setup, Register, Registered, ApplyFrameworkPatches, InvokeTool, CheckAnswered,
             CheckThrew, Decided, SendAudit, NativeStep, Shutdown, TornDown, ClientClosed, vars,
             tools, LifeTypes
    <3> QED
      BY <1>2, <2>2, <2>3, <3>1 DEF CheckMoves, Awaits
  <2> QED
    BY <2>1, <2>3
<1>6. CASE Setup
  <2>1. gateway' = "native" => native' = "connected"
    BY <1>6 DEF Setup, ClientOf, Transport, TransportThrows, CheckCapable, Awaits
  <2>2. stage' \notin {"new", "refused"} => gateway' # "none"
    BY <1>6 DEF Setup, ClientOf
  <2> QED
    BY <1>5, <1>6, <2>1, <2>2 DEF Setup, nativeVars, Awaits, Ended
<1>7. CASE Shutdown
  <2>1. stage' = "teardown" => at'[teardown] # "idle"
    BY <1>1, <1>7 DEF Shutdown, NC!Close, NC!ThrowStash, NC!Goto, NCP!TypeOK, NCP!Calls
  <2>2. stage' = "closing" => gateway # "native"
    BY <1>7 DEF Shutdown, MustClose, Awaits
  <2>3. ~TornDown /\ stage = "running"
    BY <1>7 DEF Shutdown, TornDown
  <2> QED
    BY <1>2, <1>5, <1>7, <2>1, <2>2, <2>3 DEF Shutdown, Awaits, Ended, choices
<1>8. CASE TornDown
  <2>1. stage' = "closing" /\ gateway = "native" => at'[gatewayClose] # "idle"
    BY <1>1, <1>8 DEF TornDown, NC!Close, NC!ThrowStash, NC!Goto, NCP!TypeOK, NCP!Calls
  <2> QED
    BY <1>5, <1>8, <2>1 DEF TornDown, Awaits, Ended, choices
<1>9. CASE ~(Setup \/ Shutdown \/ TornDown)
  <2>1. /\ stage' = "teardown" => stage = "teardown"
        /\ stage' = "closing" => stage = "closing"
        /\ stage' \notin {"new", "refused"} => stage \notin {"new", "refused"}
        /\ stage' \notin {"closing"} \cup Ended => stage \notin {"closing"} \cup Ended
    BY <1>9
       DEF Next, Register, Registered, ApplyFrameworkPatches, InvokeTool, CheckAnswered,
           CheckThrew, SendAudit, NativeStep, ClientClosed, vars, Ended
  <2> QED
    BY <1>2, <1>3, <1>4, <1>5, <1>9, <2>1 DEF Awaits
<1> QED
  BY <1>6, <1>7, <1>8, <1>9

LEMMA InitClientStarted == Init => NCP!StartedInv
PROOF
<1>1. NC!Init => NCP!Init
  BY DEF NC!Init, NCP!Init, NC!Openers, NCP!Openers, NC!Calls, NCP!Calls
<1> QED
  BY <1>1, ClientAssumptions, NCP!InitStarted DEF Init

\* Whatever fails around them, neither initAssembly nor shutdown nor a wrapped
\* tool is left waiting for a call that was never made or cannot settle.
THEOREM LifeIsNeverStuck == Spec => []LifeGoesOn
PROOF
<1> DEFINE Inv == LifeInv /\ Awaits /\ NCP!StartedInv
<1>1. Init => Inv
  BY InitLife, InitAwaits, InitClientStarted
<1>2. Inv /\ [Next]_vars => Inv'
  <2>1. NCP!TypeOK /\ NCP!StartedInv /\ [Next]_vars => NCP!StartedInv'
    BY StepsOfClient, SameClient, ClientAssumptions, NCP!NextStarted
  <2> QED
    BY <2>1, NextLife, NextAwaits DEF LifeInv, ClientInv
<1>3. Inv => LifeGoesOn
  <2> SUFFICES ASSUME LifeInv, Awaits, NCP!StartedInv PROVE LifeGoesOn
    OBVIOUS
  <2>1. \A c \in NCP!Calls : at[c] \notin {"idle"} \cup NCP!Settled => NCP!HasNext(c)
    <3>1. NCP!TypeOK
      BY DEF LifeInv, ClientInv
    <3> QED
      BY <3>1, ClientAssumptions, NCP!StartedNeverStuck DEF NCP!NoCallIsStuck
  <2>2. /\ {boot, topology, teardown, gatewayClose} \subseteq NCP!Calls
        /\ Checks \subseteq NCP!Calls
    BY DEF NCP!Calls, NCP!Openers
  <2>3. stage = "registering" => at[topology] = "idle" /\ at[boot] # "idle"
    BY DEF LifeInv, Registering
  <2>4. \A c \in Checks : tool[c] = "checking" => at[c] = "threw" \/ NCP!HasNext(c)
    BY <2>1, <2>2 DEF Awaits, NCP!Settled
  <2>5. stage = "closing" => gateway \in {"noop", "caller"} \/ at[gatewayClose] # "idle"
    BY DEF LifeInv, LifeTypes, Awaits
  <2>6. stage = "teardown" => at[teardown] # "idle" /\ at[gatewayClose] = "idle"
    BY DEF Awaits, Ended
  <2> QED
    BY <2>1, <2>2, <2>3, <2>4, <2>5, <2>6 DEF LifeGoesOn
<1> HIDE DEF Inv
<1> QED
  BY <1>1, <1>2, <1>3, PTL DEF Spec
=============================================================================
