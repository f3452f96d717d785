------------------------------ MODULE HookPatch ------------------------------
(***************************************************************************)
(* One process-wide framework patch (src/hooks): a prototype method or a   *)
(* module export is replaced by a wrapper that belongs to the init which   *)
(* installed it.  patchX looks at isPatched, awaits the framework's        *)
(* module, and installs without looking again.                             *)
(*                                                                         *)
(* The governing hooks (openai-agents, ai-sdk) remember the first original *)
(* they ever saw; the lineage hooks (mastra, langgraph) capture whatever   *)
(* is in the slot when they install.  A slot is the sequence of wrappers   *)
(* around the framework's own function, outermost first.                   *)
(***************************************************************************)
EXTENDS Integers, Sequences

CONSTANTS
  Inits,    \* calls of patchX, one per initAssembly
  Strict,   \* the inits with a fail-closed posture
  Tools,    \* function tools with a writable invoke, offered on every turn
  Turns,    \* agent turns, each calling getAllTools
  None

ASSUME StrictAssumption == Strict \subseteq Inits
ASSUME NoneAssumption == None \notin Inits \cup Seq(Inits)

VARIABLES
  hook,         \* which hook this is
  hookPoint,    \* whether the framework's hook point is there and assignable
  slot,         \* the wrappers on the hook point
  original,     \* the remembered original, or None
  isPatched,
  signature,    \* patchConfigSignature: the init whose configuration it names
  at,           \* how far each patch call has got
  turn,         \* the init whose patchedGetAllTools a turn runs, or None
  governed,     \* the WeakSet of tools wrapped in place
  wraps         \* the wrappers on each tool's invoke

state == <<slot, original, isPatched, signature>>
inPlace == <<turn, governed, wraps>>
vars == <<hook, hookPoint, state, at, inPlace>>

\* @openai/agents has two hook points, of which only getAllTools wraps in place.
Governed == {"getAllTools", "_runTool", "tool"}
\* Mastra's agent and workflow methods, and the compile of langgraph.
Lineage == {"generate", "compile"}
Hooks == Governed \cup Lineage
HookPoints == {"writable", "frozen", "gone"}
Governing == hook \in Governed

TypeOK ==
  /\ hook \in Hooks
  /\ hookPoint \in HookPoints
  /\ slot \in Seq(Inits)
  /\ original \in Seq(Inits) \cup {None}
  /\ isPatched \in BOOLEAN
  /\ signature \in Inits \cup {None}
  /\ at \in [Inits -> {"idle", "loading", "patched", "unpatched", "threw"}]
  /\ turn \in [Turns -> Inits \cup {None}]
  /\ governed \subseteq Tools
  /\ wraps \in [Tools -> Seq(Inits)]

Init ==
  /\ hook \in Hooks
  /\ hookPoint \in HookPoints
  /\ hookPoint = "frozen" => hook = "tool"
  /\ slot = <<>>
  /\ original = None
  /\ isPatched = FALSE
  /\ signature = None
  /\ at = [i \in Inits |-> "idle"]
  /\ turn = [n \in Turns |-> None]
  /\ governed = {}
  /\ wraps = [t \in Tools |-> <<>>]

-----------------------------------------------------------------------------
Settles(i, place) == at' = [at EXCEPT ![i] = place]

\* patchX up to its await: a patch that is installed stays, with a warning.
PatchStarts(i) ==
  /\ at[i] = "idle"
  /\ Settles(i, IF isPatched THEN "patched" ELSE "loading")
  /\ UNCHANGED <<hook, hookPoint, state, inPlace>>

\* What a lineage hook takes for the original, and what a governing one does.
Captured == slot
Remembered == IF original # None THEN original ELSE slot

\* Mutants: the governing hooks capture what is in the slot, too; the lineage
\* hooks keep what they captured first.
OriginalAfter_Current == Captured
OriginalAfter_Remembered == Remembered

OriginalAfter == IF Governing THEN Remembered ELSE Captured

\* Mutants: only a flag is kept; the legacy hook point forgets to keep any.
SignatureAfter_Flag(i) == TRUE
SignatureAfter_NewHook(i) == IF hook = "_runTool" THEN signature ELSE i

\* The signature of the latest install, also where it overtakes an earlier one; the
\* comments on patchConfigSignature call it that of the first.
SignatureAfter(i) == i

\* The module loaded with its hook point: install over the original.
Installs(i) ==
  /\ at[i] = "loading"
  /\ hookPoint = "writable"
  /\ original' = OriginalAfter
  /\ slot' = <<i>> \o OriginalAfter
  /\ isPatched' = TRUE
  /\ signature' = SignatureAfter(i)
  /\ Settles(i, "patched")
  /\ UNCHANGED <<hook, hookPoint, inPlace>>

\* The module is not there, or its hook point is gone, which makes a governing
\* hook throw under a fail-closed posture.
CannotInstall(i) ==
  /\ at[i] = "loading"
  /\ \/ Settles(i, "unpatched")
     \/ hookPoint = "gone" /\ Governing /\ i \in Strict /\ Settles(i, "threw")
  /\ UNCHANGED <<hook, hookPoint, state, inPlace>>

\* The namespace of ai is frozen: the original is remembered, nothing replaced, and
\* only throwOnFrozenInert makes it an error.
FrozenInert(i) ==
  /\ at[i] = "loading"
  /\ hookPoint = "frozen"
  /\ original' = OriginalAfter
  /\ Settles(i, "unpatched") \/ Settles(i, "threw")
  /\ UNCHANGED <<hook, hookPoint, slot, isPatched, signature, inPlace>>

\* Only the governing hooks keep remembering the original they put back.
OriginalKept == IF Governing THEN original ELSE None

\* unpatchX.
Unpatch ==
  /\ isPatched
  /\ slot' = original
  /\ original' = OriginalKept
  /\ isPatched' = FALSE
  /\ signature' = None
  /\ UNCHANGED <<hook, hookPoint, at, inPlace>>

-----------------------------------------------------------------------------
\* An agent turn enters the patched getAllTools and awaits the original's list.
TurnStarts(n) ==
  /\ hook = "getAllTools"
  /\ slot # <<>>
  /\ turn[n] = None
  /\ turn' = [turn EXCEPT ![n] = Head(slot)]
  /\ UNCHANGED <<hook, hookPoint, state, at, governed, wraps>>

\* Mutant: a tool counts as wrapped only for the configuration in force.
ToWrap_PerPatch(n) == {t \in Tools : wraps[t] = <<>> \/ Head(wraps[t]) # turn[n]}

\* The tools wrapFunctionToolInvoke does not skip.
ToWrap(n) == Tools \ governed

\* The list arrived: each tool not yet in the WeakSet is wrapped in place.
TurnEnds(n) ==
  /\ turn[n] # None
  /\ wraps' = [t \in Tools |-> IF t \in ToWrap(n) THEN <<turn[n]>> \o wraps[t] ELSE wraps[t]]
  /\ governed' = governed \cup ToWrap(n)
  /\ turn' = [turn EXCEPT ![n] = None]
  /\ UNCHANGED <<hook, hookPoint, state, at>>

-----------------------------------------------------------------------------
Next ==
  \/ \E i \in Inits : PatchStarts(i)
  \/ \E i \in Inits : Installs(i)
  \/ \E i \in Inits : CannotInstall(i)
  \/ \E i \in Inits : FrozenInert(i)
  \/ Unpatch
  \/ \E n \in Turns : TurnStarts(n)
  \/ \E n \in Turns : TurnEnds(n)

Spec == Init /\ [][Next]_vars

-----------------------------------------------------------------------------
(* Properties.                                                             *)

\* Governance never stacks: however inits overlap, unpatch and patch again,
\* a governing hook and every tool wrapped in place ask the gateway once.
CheckedOnce ==
  /\ Governing => Len(slot) <= 1
  /\ \A t \in Tools : Len(wraps[t]) <= 1

\* While the patch is reported as installed it is in the slot, and where it is the
\* only one, as it always is on a governing hook, the configuration that a re-init
\* is compared with, and warned about, is the one in effect.  In an overlap that is
\* the later install's; two lineage wrappers that overlapped are excepted, as there
\* the signature is the outermost's and the agent in effect the innermost's.
SignatureInEffect ==
  isPatched => slot # <<>> /\ (Len(slot) = 1 => Head(slot) = signature)

\* Without a patch a governing hook leaves the framework's own function in
\* place, also when the patch that was undone had overtaken another one.
UnpatchRestores == Governing /\ ~isPatched => slot = <<>>
=============================================================================
