----------------------------- MODULE GovernedCall -----------------------------
(***************************************************************************)
(* A governed tool call, through every wrapper that may stand around it:   *)
(* withAssembly (src/wrappers/with-assembly.ts), the LangChain tool        *)
(* wrapper (src/adapters/langchain/wrap-tool-with-assembly.ts), the        *)
(* Vercel AI SDK's governed execute (src/hooks/ai-sdk.ts) and the OpenAI   *)
(* Agents' governed tools (src/hooks/openai-agents.ts).  Each is a layer   *)
(* that asks the gateway before it calls what it wrapped; layers stack     *)
(* when a tool is passed to more than one of them, or twice to one.  The   *)
(* calls are composed with the op-control subscriber withAssembly awaits.  *)
(*                                                                         *)
(* A call with an op id waits on it with no timeoutMs; a call without one  *)
(* skips op control.  The gateway client is whatever the caller injected:  *)
(* it may answer anything, late, or reject.                                *)
(***************************************************************************)
EXTENDS Naturals, Sequences

CONSTANTS
  Calls,      \* governed tool calls
  Tracked,    \* the calls whose first argument names an op
  Ops,
  OpOf,       \* the op of each tracked call
  Depth,      \* the most layers a call may have
  Stackings   \* the layers each call may have, outermost first

Kinds == {"withAssembly", "langchain", "aiSdk", "openai"}

ASSUME TrackedAssumption == Tracked \subseteq Calls
ASSUME OpOfAssumption == OpOf \in [Tracked -> Ops]
ASSUME DepthAssumption == Depth \in Nat
\* The AI SDK's factory governs a tool when it is made, inside all others, and
\* the OpenAI hooks govern a tool once.
ASSUME StackingsAssumption ==
  \A s \in Stackings, c \in Calls :
    /\ s[c] \in Seq(Kinds) /\ s[c] # <<>> /\ Len(s[c]) <= Depth
    /\ \A i \in 1 .. Len(s[c]) - 1 : s[c][i] # "aiSdk"
    /\ \A i, j \in 1 .. Len(s[c]) : s[c][i] = "openai" /\ s[c][j] = "openai" => i = j

VARIABLES
  channel, stream, alive, closed, paused, terminated, resolvers, timer, phase,
  layers,    \* the layers of each call's tool
  at,        \* the layer each call has got to
  stage,     \* and how far it has got there
  approval,  \* per layer "none" | "asked" | "answered": waitForApproval's promise
  word,      \* what the gateway had answered each layer when it went on
  handed,    \* <<call, layer>> whose denial reached gateway.record
  ran,       \* the calls whose tool was entered
  reported   \* <<call, layer>> whose result reached gateway.recordResult

opVars == <<channel, stream, alive, closed, paused, terminated, resolvers, timer, phase>>
toolVars == <<layers, at, stage, approval, word, handed, ran, reported>>
vars == <<opVars, toolVars>>

\* The waits on op control: a tool passed to withAssembly twice waits twice.
Gates == Tracked \X (1 .. Depth)
GateOp == [g \in Gates |-> OpOf[g[1]]]

Op == INSTANCE OpControl WITH Calls <- Gates, OpOf <- GateOp, Timed <- {}

Stages ==
  {"idle", "gate", "checking", "approving", "recording", "running",
   "returned", "denialOutput", "rejected", "failed"}
CheckAnswers == {"allow", "denied", "pending", "throws"}
ApprovalAnswers == {"approved", "refused", "throws"}

Kind(c) == layers[c][at[c]]
Gate(c) == <<c, at[c]>>
Permits == {"allow", "approved"}

TypeOK ==
  /\ Op!TypeOK
  /\ layers \in Stackings
  /\ \A c \in Calls :
       /\ at[c] \in 1 .. Len(layers[c])
       /\ stage[c] \in Stages
       /\ approval[c] \in [1 .. Len(layers[c]) -> {"none", "asked", "answered"}]
       /\ word[c] \in [1 .. Len(layers[c]) ->
                         {"none", "timeout"} \cup CheckAnswers \cup ApprovalAnswers]
  /\ \A e \in handed \cup reported : e[1] \in Calls /\ e[2] \in DOMAIN layers[e[1]]
  /\ ran \subseteq Calls

Init ==
  /\ Op!Init
  /\ layers \in Stackings
  /\ at = [c \in Calls |-> 1]
  /\ stage = [c \in Calls |-> "idle"]
  /\ approval = [c \in Calls |-> [i \in DOMAIN layers[c] |-> "none"]]
  /\ word = [c \in Calls |-> [i \in DOMAIN layers[c] |-> "none"]]
  /\ handed = {}
  /\ ran = {}
  /\ reported = {}

-----------------------------------------------------------------------------
\* Op control on its own: signals, stream death, close, released waiters.
OpControlStep ==
  /\ \/ Op!OpenRealChannel
     \/ Op!OpenRealChannelFails
     \/ \E o \in Ops, s \in Op!Signals : Op!Dispatch(o, s)
     \/ Op!StreamError
     \/ Op!StreamEnd
     \/ \E g \in Gates : Op!Continue(g)
     \/ Op!Close
  /\ UNCHANGED toolVars

\* Layer i is called: withAssembly awaits op control first, enforceOpControl.
Enter(c, i) ==
  /\ at' = [at EXCEPT ![c] = i]
  /\ \/ /\ layers[c][i] = "withAssembly" /\ c \in Tracked
        /\ Op!WaitForOp(<<c, i>>)
        /\ stage' = [stage EXCEPT ![c] = "gate"]
     \/ /\ ~(layers[c][i] = "withAssembly" /\ c \in Tracked)
        /\ stage' = [stage EXCEPT ![c] = "checking"]
        /\ UNCHANGED opVars
  /\ UNCHANGED <<layers, handed, ran, reported>>

Invoke(c) ==
  /\ stage[c] = "idle"
  /\ Enter(c, 1)
  /\ UNCHANGED <<approval, word>>

\* The layer calls what it wrapped: the next layer, or the tool itself.
Proceed(c) ==
  \/ /\ at[c] < Len(layers[c])
     /\ Enter(c, at[c] + 1)
  \/ /\ at[c] = Len(layers[c])
     /\ stage' = [stage EXCEPT ![c] = "running"]
     /\ ran' = ran \cup {c}
     /\ UNCHANGED <<opVars, layers, at, handed, reported>>

\* Mutant: the catch swallows OpTerminatedError.
AfterGate_Swallowed(c) == "checking"

\* waitForOp settled: a termination becomes a PolicyViolationError.
AfterGate(c) == IF phase[Gate(c)] = "threw" THEN "rejected" ELSE "checking"

PassGate(c) ==
  /\ stage[c] = "gate"
  /\ phase[Gate(c)] \in {"returned", "threw"}
  /\ stage' = [stage EXCEPT ![c] = AfterGate(c)]
  /\ UNCHANGED <<opVars, layers, at, approval, word, handed, ran, reported>>

\* Mutant: a hook's refusal is formatted and its tool called all the same.
Denies_FallsThrough(c) ==
  \/ /\ Kind(c) = "withAssembly"
     /\ stage' = [stage EXCEPT ![c] = "recording"]
     /\ handed' = handed \cup {<<c, at[c]>>}
     /\ UNCHANGED ran
  \/ /\ Kind(c) # "withAssembly"
     /\ stage' = [stage EXCEPT ![c] = IF Kind(c) = "openai" THEN "denialOutput" ELSE "rejected"]
     /\ ran' = ran \cup {c}
     /\ UNCHANGED handed

\* withAssembly hands a denial to the audit sink first, the OpenAI hooks return
\* it as the tool's output, the others throw.
Refusal ==
  [withAssembly |-> "recording", openai |-> "denialOutput",
   langchain |-> "rejected", aiSdk |-> "rejected"]

\* The layer refuses.
Denies(c) ==
  /\ stage' = [stage EXCEPT ![c] = Refusal[Kind(c)]]
  /\ handed' = IF Kind(c) = "withAssembly" THEN handed \cup {<<c, at[c]>>} ELSE handed
  /\ UNCHANGED ran

CheckAnswered(c, answer) ==
  /\ stage[c] = "checking"
  /\ word' = [word EXCEPT ![c][at[c]] = answer]
  /\ \/ /\ answer = "allow"
        /\ Proceed(c)
        /\ UNCHANGED approval
     \/ /\ answer = "denied"
        /\ Denies(c)
        /\ UNCHANGED <<opVars, layers, at, approval, reported>>
     \/ /\ answer = "pending"
        /\ stage' = [stage EXCEPT ![c] = "approving"]
        /\ approval' = [approval EXCEPT ![c][at[c]] = "asked"]
        /\ UNCHANGED <<opVars, layers, at, handed, ran, reported>>
     \/ /\ answer = "throws"
        /\ stage' = [stage EXCEPT ![c] = "failed"]
        /\ UNCHANGED <<opVars, layers, at, approval, handed, ran, reported>>

\* Mutant: the approval's answer wins whenever it arrives before the throw.
RaceOpen_UntilThrown(c, i) == at[c] = i /\ stage[c] \in {"approving", "recording"}

\* Layer i's approval is still undecided: no answer and no timeout came first.
RaceOpen(c, i) == at[c] = i /\ stage[c] = "approving"

\* A layer's approval settles; after the timeout it is too late to matter.
ApprovalAnswered(c, i, answer) ==
  /\ approval[c][i] = "asked"
  /\ approval' = [approval EXCEPT ![c][i] = "answered"]
  /\ \/ /\ RaceOpen(c, i)
        /\ word' = [word EXCEPT ![c][i] = answer]
        /\ \/ /\ answer = "approved"
              /\ Proceed(c)
           \/ /\ answer = "refused"
              /\ Denies(c)
              /\ UNCHANGED <<opVars, layers, at, reported>>
           \/ /\ answer = "throws"
              /\ stage' = [stage EXCEPT ![c] = "failed"]
              /\ UNCHANGED <<opVars, layers, at, handed, ran, reported>>
     \/ /\ ~RaceOpen(c, i)
        /\ UNCHANGED <<opVars, layers, at, stage, word, handed, ran, reported>>

\* withAssembly and the LangChain wrapper race the approval against a timer;
\* the hooks pass timeoutMs on to the gateway client and wait.
Races(kind) == kind \in {"withAssembly", "langchain"}

\* Mutants: the timer is cleared too early; it resolves without denied.
TimeoutArmed_Cleared(c) == Races(Kind(c)) /\ approval[c][at[c]] = "none"
AfterTimeout_Allows(c) ==
  /\ stage' = [stage EXCEPT ![c] = "running"]
  /\ ran' = ran \cup {c}
  /\ UNCHANGED handed

TimeoutArmed(c) == Races(Kind(c)) /\ stage[c] = "approving"

AfterTimeout(c) == Denies(c)

ApprovalTimeout(c) ==
  /\ TimeoutArmed(c)
  /\ word' = [word EXCEPT ![c][at[c]] = "timeout"]
  /\ AfterTimeout(c)
  /\ UNCHANGED <<opVars, layers, at, approval, reported>>

\* Mutant: the sink's result is returned.
AfterRecord_Result(sinkFailed) == IF sinkFailed THEN "rejected" ELSE "undefined"

\* gateway.record settled: whether it failed makes no difference.
AfterRecord(sinkFailed) == "rejected"

RecordSettled(c, sinkFailed) ==
  /\ stage[c] = "recording"
  /\ stage' = [stage EXCEPT ![c] = AfterRecord(sinkFailed)]
  /\ UNCHANGED <<opVars, layers, at, approval, word, handed, ran, reported>>

-----------------------------------------------------------------------------
(* The way out, from the innermost layer to the caller.                    *)

\* The hooks report the result, and do not wait for the gateway.
Reporters(c) == {i \in DOMAIN layers[c] : layers[c][i] \in {"aiSdk", "openai"}}

\* recordResult answered, rejected, or threw before it gave a promise: only
\* the last is not swallowed.
AfterReport(how) == IF how = "throws" THEN "failed" ELSE "returned"

\* The tool returned.  Layers report it inside out, up to one whose report
\* makes the call fail.
ToolReturns(c) ==
  /\ stage[c] = "running"
  /\ \E how \in [Reporters(c) -> {"ok", "rejects", "throws"}] :
       LET failing == {i \in Reporters(c) : AfterReport(how[i]) = "failed"}
           reached == {i \in Reporters(c) : \A j \in failing : i >= j}
       IN /\ reported' = reported \cup {<<c, i>> : i \in reached}
          /\ stage' = [stage EXCEPT ![c] = IF failing = {} THEN "returned" ELSE "failed"]
  /\ UNCHANGED <<opVars, layers, at, approval, word, handed, ran>>

ToolThrows(c) ==
  /\ stage[c] = "running"
  /\ stage' = [stage EXCEPT ![c] = "failed"]
  /\ UNCHANGED <<opVars, layers, at, approval, word, handed, ran, reported>>

-----------------------------------------------------------------------------
Next ==
  \/ OpControlStep
  \/ \E c \in Calls : Invoke(c)
  \/ \E c \in Tracked : PassGate(c)
  \/ \E c \in Calls, a \in CheckAnswers : CheckAnswered(c, a)
  \/ \E c \in Calls, a \in ApprovalAnswers :
       \E i \in DOMAIN layers[c] : ApprovalAnswered(c, i, a)
  \/ \E c \in Calls : ApprovalTimeout(c)
  \/ \E c \in Calls, f \in BOOLEAN : RecordSettled(c, f)
  \/ \E c \in Calls : ToolReturns(c)
  \/ \E c \in Calls : ToolThrows(c)

Spec == Init /\ [][Next]_vars

\* Settled continuations and due timers run; neither the gateway nor the tool
\* owes an answer.
Fairness ==
  /\ \A g \in Gates : WF_vars(Op!Continue(g) /\ UNCHANGED toolVars)
  /\ \A c \in Tracked : WF_vars(PassGate(c))
  /\ \A c \in Calls : WF_vars(ApprovalTimeout(c))

FairSpec == Spec /\ Fairness

-----------------------------------------------------------------------------
(* Properties.                                                             *)

\* The tool runs only when the last answer in time of every layer's gateway
\* was a yes: no timeout, late approval, failing audit sink, thrown check or
\* denial of another layer lets it run.
RunsOnlyIfPermitted ==
  \A c \in ran : \A i \in DOMAIN layers[c] : word[c][i] \in Permits

\* Every denial of withAssembly is handed to the audit sink before it is
\* thrown, nothing else is, and once it is handed over the only way on is the
\* PolicyViolationError, whatever the sink or a late approval does.
DenialsAndOnlyDenialsAreHanded ==
  /\ \A c \in Calls :
       stage[c] = "rejected" /\ Kind(c) = "withAssembly" /\ word[c][at[c]] # "none" =>
         <<c, at[c]>> \in handed
  /\ \A e \in handed : at[e[1]] = e[2] /\ stage[e[1]] \in {"recording", "rejected"}

\* What the caller is told is what happened: a denial, thrown or returned as
\* output, means that the tool never ran and nothing was reported as its
\* result; a result means that it ran and every hook around it reported it.
OutcomeTellsRun ==
  \A c \in Calls :
    /\ stage[c] \in {"rejected", "denialOutput"} =>
         c \notin ran /\ \A e \in reported : e[1] # c
    /\ stage[c] = "returned" => c \in ran /\ \A i \in Reporters(c) : <<c, i>> \in reported

\* A terminated op stops the calls waiting on it, whatever else happens.
TerminateRejectsCall ==
  \A g \in Gates :
    (phase[g] \in {"blocked", "woken"} /\ terminated[GateOp[g]]) ~> stage[g[1]] = "rejected"

\* An approval that never comes does not hold a call, where the SDK races it.
ApprovalIsBounded ==
  \A c \in Calls : \A i \in UNION {DOMAIN s[c] : s \in Stackings} :
    (at[c] = i /\ Races(Kind(c)) /\ stage[c] = "approving") ~>
      ~(at[c] = i /\ stage[c] = "approving")

\* The promise of governance, as an abstract specification: a layer has consented
\* when it went on with a yes, and a call is decided when its stage is.
Around == [c \in Calls |-> DOMAIN layers[c]]
Gated ==
  [c \in Calls |-> {i \in DOMAIN layers[c] : layers[c][i] = "withAssembly" /\ c \in Tracked}]
Consented == [c \in Calls |-> {i \in DOMAIN layers[c] : word[c][i] \in Permits}]
FateOf(c) ==
  IF stage[c] \in {"running", "returned"} THEN stage[c]
  ELSE IF stage[c] \in {"recording", "rejected", "denialOutput"} THEN "refused"
  ELSE IF stage[c] # "failed" THEN "open"
  ELSE IF c \in ran THEN "threw" ELSE "broken"
Fate == [c \in Calls |-> FateOf(c)]

Promised == INSTANCE Governance WITH
  killed <- {o \in Ops : terminated[o]}, outcome <- Op!Outcome,
  around <- Around, gated <- Gated, consented <- Consented,
  fate <- Fate

\* Every behaviour of the wrappers, their stackings and the subscriber beneath
\* them is one that governance promises: no order of signals, answers, timers and
\* failures starts a tool without every consent, after a refusal, or past a gate
\* whose op was killed.
GovernanceHolds == Promised!Spec

\* What enforceOpControl's comment says: a paused op blocks the call until the
\* gateway resumes or terminates the op (unless the application itself closes
\* the subscriber).
PauseHoldsCall ==
  [][\A g \in Gates :
       phase[g] = "blocked" /\ phase'[g] # "blocked" /\ ~closed'
         => ~paused'[GateOp[g]] \/ terminated'[GateOp[g]]]_vars
=============================================================================
