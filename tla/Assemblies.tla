------------------------------ MODULE Assemblies ------------------------------
(***************************************************************************)
(* Several assemblies in one process (src/core/init-assembly.ts): each     *)
(* initAssembly enters, perhaps inside a call of a framework another one   *)
(* patched and then as that agent's child, puts its handler and its tool   *)
(* wrappers into the caller's langchain object, patches one more framework *)
(* (HookPatch), and reports which adapters are active.  The application    *)
(* may also call patchX and unpatchX itself.                               *)
(*                                                                         *)
(* hook says which of the other frameworks is there; what initAssembly     *)
(* does with two of them repeats what it does with one.  Its guards, its   *)
(* session and its shutdown are InitAssembly's.                            *)
(***************************************************************************)
EXTENDS HookPatch

CONSTANTS
  Objects   \* the application's langchain configuration objects

ASSUME ObjectsAssumption == None \notin Objects

VARIABLES
  detected,   \* the frameworks found installed
  config,     \* what each init was called with
  step,       \* how far each has got
  parent,     \* the agent whose child each is by inheritance, or None
  callbacks,  \* the inits whose handler each object holds
  wrapped,    \* the inits whose wrapper is on each object's tools
  applied,    \* the adapters whose patch each init was told took effect
  active,     \* activeAdapters of each context
  unpatched,  \* unpatchedAdapters of each context
  undone      \* the application has called unpatchX

reports == <<active, unpatched>>
objects == <<callbacks, wrapped>>
asmVars == <<detected, config, step, parent, objects, applied, reports, undone>>
allVars == <<vars, asmVars>>

\* detectFrameworks' name of the hook's framework.
FrameworkOf ==
  [getAllTools |-> "openai-agents", _runTool |-> "openai-agents",
   tool |-> "vercel-ai-sdk", generate |-> "mastra", compile |-> "langgraph-js"]

Framework == FrameworkOf[hook]

Adapters == {"langchain-js", Framework}

\* langchain: the object the caller supplied; named: with an agentId.
Configs == [langchain : Objects \cup {None}, named : BOOLEAN]

Steps ==
  {"new", "entered", "handler", "wrapped", "patching", "skipped", "direct",
   "returned", "rejected"}

AssembliesTypeOK ==
  /\ TypeOK
  /\ detected \subseteq Adapters
  /\ config \in [Inits -> Configs]
  /\ step \in [Inits -> Steps]
  /\ parent \in [Inits -> Inits \cup {None}]
  /\ callbacks \in [Objects -> SUBSET Inits]
  /\ wrapped \in [Objects -> SUBSET Inits]
  /\ applied \in [Inits -> SUBSET Adapters]
  /\ active \in [Inits -> SUBSET Adapters]
  /\ unpatched \in [Inits -> SUBSET Adapters]
  /\ undone \in BOOLEAN

AssembliesInit ==
  /\ Init
  /\ detected \in SUBSET Adapters
  /\ config = [i \in Inits |-> [langchain |-> None, named |-> FALSE]]
  /\ step = [i \in Inits |-> "new"]
  /\ parent = [i \in Inits |-> None]
  /\ callbacks = [o \in Objects |-> {}]
  /\ wrapped = [o \in Objects |-> {}]
  /\ applied = [i \in Inits |-> {}]
  /\ active = [i \in Inits |-> {}]
  /\ unpatched = [i \in Inits |-> {}]
  /\ undone = FALSE

-----------------------------------------------------------------------------
Goes(i, place) == step' = [step EXCEPT ![i] = place]

\* The agent in whose context the framework's own function runs under a lineage
\* hook: each wrapper enters its own init's, so that the innermost one's holds.
\* (A tool made by the AI SDK's factory keeps the agent it was made under; calls
\* of such tools are not followed here.)
Tag == IF hook \in Lineage /\ slot # <<>> THEN slot[Len(slot)] ELSE None

\* initAssembly is called, inside a call of the framework or outside of any,
\* and currentAgentId() is its parent unless the caller names one.
Enters(i) ==
  /\ step[i] = "new"
  /\ \E c \in Configs : config' = [config EXCEPT ![i] = c]
  /\ \E agent \in {None, Tag} : parent' = [parent EXCEPT ![i] = agent]
  /\ Goes(i, "entered")
  /\ UNCHANGED <<vars, detected, objects, applied, reports, undone>>

\* validateConfig, a resolver, a guard or the client's start() rejects.
Rejects(i) ==
  /\ step[i] = "entered"
  /\ Goes(i, "rejected")
  /\ UNCHANGED <<vars, detected, config, parent, objects, applied, reports, undone>>

\* Mutant: detection is enough, and the handler goes into an object nobody has.
CallerSupplied_Detected(i) == config[i].langchain # None \/ "langchain-js" \in detected

\* The object the handler and the tools are reachable from is the caller's own.
CallerSupplied(i) == config[i].langchain # None

Adds(held, i) ==
  [o \in Objects |-> IF o = config[i].langchain THEN held[o] \cup {i} ELSE held[o]]

\* registerLangChainHandler.
RegistersHandler(i) ==
  /\ step[i] = "entered"
  /\ IF CallerSupplied(i)
     THEN /\ callbacks' = Adds(callbacks, i)
          /\ applied' = [applied EXCEPT ![i] = @ \cup {"langchain-js"}]
     ELSE UNCHANGED <<callbacks, applied>>
  /\ Goes(i, "handler")
  /\ UNCHANGED <<vars, detected, config, parent, wrapped, reports, undone>>

\* wrapLangChainTools, over whatever wraps the tools already (GovernedCall).
WrapsTools(i) ==
  /\ step[i] = "handler"
  /\ wrapped' = Adds(wrapped, i)
  /\ Goes(i, "wrapped")
  /\ UNCHANGED <<vars, detected, config, parent, callbacks, applied, reports, undone>>

\* patchDetectedX: without the framework, or for a lineage hook without an
\* agentId, patchX is not called.
PatchesFramework(i) ==
  /\ step[i] = "wrapped"
  /\ IF Framework \in detected /\ (hook \in Lineage => config[i].named)
     THEN PatchStarts(i) /\ Goes(i, "patching")
     ELSE Goes(i, "skipped") /\ UNCHANGED vars
  /\ UNCHANGED <<detected, config, parent, objects, applied, reports, undone>>

\* The application calls patchX, for an agent and with a posture of its own.
CallsPatch(i) ==
  /\ step[i] = "new"
  /\ config' = [config EXCEPT ![i].named = TRUE]
  /\ PatchStarts(i)
  /\ Goes(i, "direct")
  /\ UNCHANGED <<detected, parent, objects, applied, reports, undone>>

\* The rest of patchX.  initAssembly does not pass throwOnFrozenInert.
PatchEnds(i) ==
  /\ Installs(i) \/ CannotInstall(i) \/ FrozenInert(i)
  /\ hookPoint = "frozen" /\ step[i] = "patching" => at'[i] # "threw"
  /\ UNCHANGED asmVars

CallsUnpatch ==
  /\ Unpatch
  /\ undone' = TRUE
  /\ UNCHANGED <<detected, config, step, parent, objects, applied, reports>>

\* patchedAdapterIds, the framework's patch included.
PatchedAdapterIds(i) == applied[i] \cup (IF at[i] = "patched" THEN {Framework} ELSE {})

\* initAssembly returns its context, with buildAdapterStates' lists.
Returns(i) ==
  /\ step[i] = "skipped" \/ (step[i] = "patching" /\ at[i] \in {"patched", "unpatched"})
  /\ active' = [active EXCEPT ![i] = PatchedAdapterIds(i)]
  /\ unpatched' = [unpatched EXCEPT ![i] = detected \ PatchedAdapterIds(i)]
  /\ Goes(i, "returned")
  /\ UNCHANGED <<vars, detected, config, parent, objects, applied, undone>>

\* The patch threw: initAssembly rejects, and leaves what it put in place.
PatchRejects(i) ==
  /\ step[i] = "patching" /\ at[i] = "threw"
  /\ Goes(i, "rejected")
  /\ UNCHANGED <<vars, detected, config, parent, objects, applied, reports, undone>>

AssembliesNext ==
  \/ \E i \in Inits : Enters(i)
  \/ \E i \in Inits : Rejects(i)
  \/ \E i \in Inits : RegistersHandler(i)
  \/ \E i \in Inits : WrapsTools(i)
  \/ \E i \in Inits : PatchesFramework(i)
  \/ \E i \in Inits : CallsPatch(i)
  \/ \E i \in Inits : PatchEnds(i)
  \/ CallsUnpatch
  \/ \E i \in Inits : Returns(i)
  \/ \E i \in Inits : PatchRejects(i)
  \/ \E n \in Turns : TurnStarts(n) /\ UNCHANGED asmVars
  \/ \E n \in Turns : TurnEnds(n) /\ UNCHANGED asmVars

AssembliesSpec == AssembliesInit /\ [][AssembliesNext]_allVars

-----------------------------------------------------------------------------
(* Properties.                                                             *)

\* activeAdapters tells the truth about the process (AAASM-5664): langchain is
\* active only where the caller's own object holds this init's handler, a
\* patched framework only where a wrapper is in its slot (or the application
\* undid it); unpatched are the other detected ones, and none of those runs
\* this init's wrapper.
ActiveIsReachable ==
  \A i \in Inits : step[i] = "returned" =>
    /\ "langchain-js" \in active[i] =>
         \E o \in Objects : o = config[i].langchain /\ i \in callbacks[o]
    /\ Framework \in active[i] => slot # <<>> \/ undone
    /\ unpatched[i] = detected \ active[i]
    /\ Framework \in unpatched[i] => \A n \in DOMAIN slot : slot[n] # i

\* The first agentId stays in effect for lineage (AAASM-4830), also when inits
\* overlap and each patches over the other: until the application unpatches,
\* every agent started inside the framework is the child of the same agent.
FirstAgentStays ==
  hook \in Lineage /\ ~undone => \A i \in Inits : parent[i] \in {None, Tag}
=============================================================================
