----------------------------- MODULE InitAssembly -----------------------------
(***************************************************************************)
(* The life of one assembly (src/core/init-assembly.ts) over the native    *)
(* client: the guards that refuse a configuration, the transport and the   *)
(* gateway client chosen for it, the registration and the topology event   *)
(* of the boot, the framework patches, wrapped tools asking for verdicts   *)
(* and sending audit events, and shutdown.                                 *)
(*                                                                         *)
(* One registration (boot), one topology event, any checks and audit       *)
(* events of governed tools, and the two closes of shutdown: its own and   *)
(* the one inside the gateway client's close.  A gateway client supplied   *)
(* by the caller owns its verdicts, so its tools are not followed here.    *)
(***************************************************************************)
EXTENDS Integers

CONSTANTS
  boot, topology, teardown, gatewayClose,
  Checks,    \* checks of wrapped tools
  Audits,    \* events handed to the gateway client's audit sinks
  Answers,   \* what the runtime may answer a check
  None

ASSUME AnswersAssumption ==
  /\ Answers \subseteq [kind : STRING, decision : Int, reason : STRING]
  /\ None \notin Answers
ASSUME CallsAssumption ==
  /\ None \notin Checks \cup Audits \cup {boot, topology, teardown, gatewayClose}
  /\ boot \notin Checks \cup Audits \cup {topology}
  /\ topology \notin Audits
  /\ Checks \cap (Audits \cup {topology}) = {}
  /\ {teardown, gatewayClose} \cap (Checks \cup Audits \cup {boot, topology}) = {}
  /\ teardown # gatewayClose

VARIABLES
  session, handlePromise, activeHandle, pendingSendError, at, handle, stashed, thrown,
  config,      \* what initAssembly was called with, and which binding loads, if any
  stage,       \* how far initAssembly or shutdown has got
  native,      \* "none" | "stub" | "connected"
  gateway,     \* "none" | "caller" | "noop" | "native"
  registered,  \* the context's registered flag
  wrapped,     \* the langchain tools were wrapped in place
  tool,        \* what became of each wrapped tool's call
  answered     \* the answer the runtime gave to its check, or None

nativeVars ==
  <<session, handlePromise, activeHandle, pendingSendError, at, handle, stashed, thrown>>
choices == <<config, native, gateway>>
tools == <<tool, answered>>
vars == <<nativeVars, choices, stage, registered, wrapped, tools>>

NC == INSTANCE NativeClient WITH
  Queries <- Checks, Registers <- {boot}, Sends <- Audits \cup {topology},
  Closes <- {teardown, gatewayClose}, SerialCloses <- TRUE

V == INSTANCE Verdict

Modes == {"auto", "sdk-only", "grpc-sidecar", "napi-inprocess"}

\* What loading the binding finds; one older than register has no such export.
Bindings == {"none", "unregistering", "full"}

Configs ==
  [mode : Modes, posture : {"unset", "enforce", "observe"},
   ownClient : BOOLEAN, wrapsTools : BOOLEAN,
   binding : Bindings]

Booting == {"new", "ready", "registering", "patching"}
Ending == {"teardown", "closing"}
Ended == {"down", "rejected"}

TypeOK ==
  /\ NC!TypeOK
  /\ config \in Configs
  /\ stage \in Booting \cup Ending \cup Ended \cup {"refused", "running"}
  /\ native \in {"none", "stub", "connected"}
  /\ gateway \in {"none", "caller", "noop", "native"}
  /\ registered \in BOOLEAN
  /\ wrapped \in BOOLEAN
  /\ tool \in [Checks -> {"idle", "checking", "ran", "blocked"}]
  /\ answered \in [Checks -> Answers \cup {None}]

Init ==
  /\ NC!Init
  /\ config \in Configs
  /\ stage = "new"
  /\ native = "none"
  /\ gateway = "none"
  /\ registered = FALSE
  /\ wrapped = FALSE
  /\ tool = [c \in Checks |-> "idle"]
  /\ answered = [c \in Checks |-> None]

-----------------------------------------------------------------------------
CheckCapable == config.mode = "napi-inprocess"
FailClosed == config.posture # "observe"

\* Mutant: only an explicit "enforce" refuses to wrap tools over the no-op.
ToolsUngoverned_Explicit ==
  config.posture = "enforce" /\ ~CheckCapable /\ ~config.ownClient /\ config.wrapsTools

\* The guard at the head of initAssembly.
ToolsUngoverned == FailClosed /\ ~CheckCapable /\ ~config.ownClient /\ config.wrapsTools

\* Mutant: whatever the loader found is taken for the client.
Transport_Loaded == IF config.mode = "sdk-only" THEN "none" ELSE config.binding

\* createNativeClient: only in-process mode insists on the binding.
Transport ==
  IF config.mode = "sdk-only" THEN "none"
  ELSE IF config.binding # "none" THEN "connected"
  ELSE "stub"

TransportThrows == CheckCapable /\ config.binding = "none"

\* createClient, and its refusal of an explicit enforce over the no-op client.
ClientOf ==
  IF config.ownClient THEN "caller"
  ELSE IF CheckCapable THEN "native"
  ELSE "noop"

ClientThrows == config.posture = "enforce" /\ ~CheckCapable /\ ~config.ownClient

\* startNetworkLayerIfNeeded: of the clients' start() only a caller's can fail.
StartMayFail == config.ownClient /\ config.mode # "sdk-only"

\* The guards, the transport, the client, and its start().
Setup ==
  /\ stage = "new"
  /\ \/ /\ ToolsUngoverned \/ TransportThrows \/ ClientThrows
        /\ stage' = "refused"
        /\ UNCHANGED <<native, gateway>>
     \/ /\ ~(ToolsUngoverned \/ TransportThrows \/ ClientThrows)
        /\ native' = Transport
        /\ gateway' = ClientOf
        /\ \/ stage' = "ready"
           \/ StartMayFail /\ stage' = "refused"
  /\ UNCHANGED <<nativeVars, config, registered, wrapped, tools>>

\* Registration goes out, unless the binding is too old to have a register;
\* the stub's is never called.
Register ==
  /\ stage = "ready"
  /\ \/ /\ native = "connected"
        /\ IF config.binding = "full" THEN NC!Register(boot) ELSE NC!RegisterMissing(boot)
        /\ stage' = "registering"
     \/ /\ native # "connected"
        /\ stage' = "patching"
        /\ UNCHANGED nativeVars
  /\ UNCHANGED <<choices, registered, wrapped, tools>>

\* Mutant: a swallowed rejection counts too.
RegisteredAfter_Always == TRUE

RegisteredAfter == at[boot] = "done"

\* Mutant: a registration that rejects is never handled.
RegisterSettled_Resolved == at[boot] = "done"

RegisterSettled == at[boot] \in NC!Settled

\* The registration settled, its failure swallowed; the topology event follows.
Registered ==
  /\ stage = "registering"
  /\ RegisterSettled
  /\ registered' = RegisteredAfter
  /\ NC!SendEvent(topology)
  /\ stage' = "patching"
  /\ UNCHANGED <<choices, wrapped, tools>>

\* Under a fail-closed posture a detected framework without its hook point throws.
PatchMayThrow == FailClosed

\* The caller's langchain tools are wrapped first, and stay wrapped if a patch throws.
ApplyFrameworkPatches ==
  /\ stage = "patching"
  /\ wrapped' = config.wrapsTools
  /\ \/ stage' = "running"
     \/ PatchMayThrow /\ stage' = "refused"
  /\ UNCHANGED <<nativeVars, choices, registered, tools>>

-----------------------------------------------------------------------------
\* The no-op client allows at once.
AllowsAll == gateway = "noop"

\* A wrapped tool asks.
InvokeTool(c) ==
  /\ wrapped
  /\ tool[c] = "idle"
  /\ \/ /\ AllowsAll
        /\ tool' = [tool EXCEPT ![c] = "ran"]
        /\ UNCHANGED nativeVars
     \/ /\ gateway = "native"
        /\ NC!QueryPolicy(c)
        /\ tool' = [tool EXCEPT ![c] = "checking"]
  /\ UNCHANGED <<choices, stage, registered, wrapped, answered>>

Decided(c, decision) ==
  tool' = [tool EXCEPT ![c] = IF V!Runs(decision, FailClosed) THEN "ran" ELSE "blocked"]

\* The runtime answers the check, and the decision is applied.
CheckAnswered(c, answer) ==
  /\ tool[c] = "checking"
  /\ NC!Answered(c)
  /\ at'[c] = IF V!QueryFaults(answer) THEN "threw" ELSE "done"
  /\ answered' = [answered EXCEPT ![c] = answer]
  /\ Decided(c, V!check(answer, FailClosed))
  /\ UNCHANGED <<choices, stage, registered, wrapped>>

\* The check threw before it reached the runtime: stashed error or no session.
CheckThrew(c) ==
  /\ tool[c] = "checking"
  /\ at[c] = "threw"
  /\ Decided(c, V!CheckFaulted(FailClosed))
  /\ UNCHANGED <<nativeVars, choices, stage, registered, wrapped, answered>>

\* record, recordResult and scanPrompts of the native gateway client.
SendAudit(e) ==
  /\ wrapped
  /\ gateway = "native"
  /\ NC!SendEvent(e)
  /\ UNCHANGED <<choices, stage, registered, wrapped, tools>>

\* Connects settle, and continuations inside the native client run.
NativeStep ==
  /\ \/ \E s \in NC!Openers : NC!ConnectSettles(s) \/ NC!ConnectFails(s)
     \/ \E c \in Checks \cup {boot} : NC!Asks(c)
     \/ NC!Answered(boot)
     \/ \E e \in Audits \cup {topology} : NC!SendDeferred(e)
     \/ \E k \in {teardown, gatewayClose} :
          NC!Disconnect(k) \/ NC!SessionShuts(k) \/ NC!Disconnected(k)
  /\ UNCHANGED <<choices, stage, registered, wrapped, tools>>

-----------------------------------------------------------------------------
\* nativeClient?.close(), the stub's being a no-op.
MustClose == native = "connected"

\* shutdown, up to its first close.
Shutdown ==
  /\ stage = "running"
  /\ \/ /\ MustClose
        /\ NC!Close(teardown)
        /\ stage' = "teardown"
     \/ /\ ~MustClose
        /\ stage' = "closing"
        /\ UNCHANGED nativeVars
  /\ UNCHANGED <<choices, registered, wrapped, tools>>

Advisory(error) == error # None /\ error.kind = "send"

\* Mutant: any error of the close is taken for the topology event's.
Swallowed_Any == TRUE

\* The first close's rejection is swallowed only for a failed send.
Swallowed == Advisory(thrown[teardown])

\* It settled: go on to the gateway client's close, or reject.
TornDown ==
  /\ stage = "teardown"
  /\ \/ /\ at[teardown] = "done" \/ (at[teardown] = "threw" /\ Swallowed)
        /\ stage' = "closing"
        /\ IF gateway = "native" THEN NC!Close(gatewayClose) ELSE UNCHANGED nativeVars
     \/ /\ at[teardown] = "threw" /\ ~Swallowed
        /\ stage' = "rejected"
        /\ UNCHANGED nativeVars
  /\ UNCHANGED <<choices, registered, wrapped, tools>>

\* client.close(): the second close, a no-op, or whatever the caller's does.
ClientClosed ==
  /\ stage = "closing"
  /\ \/ gateway = "native" /\ at[gatewayClose] = "done" /\ stage' = "down"
     \/ gateway = "native" /\ at[gatewayClose] = "threw" /\ stage' = "rejected"
     \/ gateway = "noop" /\ stage' = "down"
     \/ gateway = "caller" /\ stage' \in Ended
  /\ UNCHANGED <<nativeVars, choices, registered, wrapped, tools>>

-----------------------------------------------------------------------------
Next ==
  \/ Setup
  \/ Register
  \/ Registered
  \/ ApplyFrameworkPatches
  \/ \E c \in Checks : InvokeTool(c)
  \/ \E c \in Checks, answer \in Answers : CheckAnswered(c, answer)
  \/ \E c \in Checks : CheckThrew(c)
  \/ \E e \in Audits : SendAudit(e)
  \/ NativeStep
  \/ Shutdown
  \/ TornDown
  \/ ClientClosed

Spec == Init /\ [][Next]_vars

\* initAssembly and shutdown run on whenever what they await has settled, and
\* the binding settles what it was asked.
Fairness ==
  /\ WF_vars(Setup \/ Register \/ Registered \/ ApplyFrameworkPatches)
  /\ WF_vars(TornDown \/ ClientClosed)
  /\ \A s \in NC!Openers : WF_vars((NC!ConnectSettles(s) \/ NC!ConnectFails(s)) /\ NativeStep)
  /\ WF_vars((NC!Asks(boot) \/ NC!Answered(boot)) /\ NativeStep)
  /\ \A k \in {teardown, gatewayClose} :
       WF_vars((NC!Disconnect(k) \/ NC!SessionShuts(k) \/ NC!Disconnected(k)) /\ NativeStep)

FairSpec == Spec /\ Fairness

-----------------------------------------------------------------------------
(* Properties.                                                             *)

\* The runtime itself allowed, or denied, the call of this check.
OwnAllow(c) ==
  /\ answered[c] # None /\ answered[c].kind = "reply"
  /\ answered[c].decision = V!Allow /\ answered[c].reason # V!FailOpen
OwnDeny(c) ==
  answered[c] # None /\ answered[c].kind = "reply" /\ answered[c].decision = V!Deny

\* The posture and the runtime's own word decide a wrapped tool, both ways.
\* Fail-closed it runs on the runtime's own allow and is blocked by all else: the
\* no-op client, a stub, a stashed error, a failed connect, a fail-open, a
\* redaction, a pending or an unknown verdict.  Advisory, the runtime's own deny
\* blocks it and nothing else does: a missing or slow runtime never, nor the
\* failure of an audit event.
VerdictsDecide ==
  \A c \in Checks :
    /\ tool[c] = "ran" => IF FailClosed THEN OwnAllow(c) ELSE ~OwnDeny(c)
    /\ tool[c] = "blocked" => IF FailClosed THEN ~OwnAllow(c) ELSE OwnDeny(c)

\* registered tells the truth about a binding that can register: a session took
\* the registration and the gateway accepted it, so neither the stub's empty
\* success nor a swallowed failure counts (AAASM-4468).
RegisteredWasAccepted ==
  registered =>
    /\ native = "connected" /\ at[boot] = "done"
    /\ config.binding = "full" => handle[boot] # None

\* When shutdown settles, no session of the boot is left up, whether the agent
\* registered and whether an error was stashed.  One whose disconnect failed may
\* be: then shutdown rejects with that error, and never swallows it (AAASM-4699).
ShutdownLeavesNoSession ==
  stage \in Ended =>
    \A s \in {boot, topology} : session[s] \in {"connecting", "open"} =>
      stage = "rejected" /\ NC!TeardownFailed(teardown, s)

\* initAssembly and shutdown settle whatever fails around them.
LifecycleSettles ==
  stage \in Booting \cup Ending ~> stage \in {"running", "refused"} \cup Ended

\* What shutdown's comment says: the boot's own topology send never turns a
\* clean teardown into a rejection.
TopologyNeverRejectsShutdown ==
  stage = "rejected" =>
    \A k \in {teardown, gatewayClose} : thrown[k] # None => thrown[k].of # topology

\* What the hooks say of a fail-closed posture: they refuse to register rather
\* than run ungoverned, so an init they refuse leaves no agent registered.
RefusalRegistersNothing ==
  stage = "refused" => ~(at[boot] = "done" /\ handle[boot] # None)
=============================================================================
