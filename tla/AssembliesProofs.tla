--------------------------- MODULE AssembliesProofs ---------------------------
(* One patch per process for any inits, tools and turns, and any number of   *)
(* assemblies over it: what they do to the patch is HookPatch, and what they *)
(* report of it and inherit from it is true.                                 *)
EXTENDS Assemblies, SequenceTheorems, TLAPS

-----------------------------------------------------------------------------
(* The patch by itself.                                                     *)

LEMMA WrapOnce ==
  ASSUME NEW i \in Inits, NEW s \in Seq(Inits)
  PROVE  /\ <<i>> \o s \in Seq(Inits)
         /\ <<i>> \o s # <<>>
         /\ Head(<<i>> \o s) = i
         /\ Len(<<i>> \o s) = 1 + Len(s)
         /\ s = <<>> => <<i>> \o s = <<i>>
PROOF
<1>1. <<i>> \in Seq(Inits) /\ Len(<<i>>) = 1
  OBVIOUS
<1>2. /\ <<i>> \o s \in Seq(Inits)
      /\ Len(<<i>> \o s) = Len(<<i>>) + Len(s)
      /\ (<<i>> \o s)[1] = <<i>>[1]
  BY <1>1, ConcatProperties
<1>3. Len(s) \in Nat
  BY LenProperties
<1>4. <<i>> \o s # <<>>
  BY <1>1, <1>2, <1>3
<1>5. Head(<<i>> \o s) = i
  BY <1>2, <1>4
<1>6. s = <<>> => <<i>> \o s = <<i>>
  BY <1>1, ConcatEmptySeq
<1> QED
  BY <1>1, <1>2, <1>4, <1>5, <1>6

-----------------------------------------------------------------------------
(* The patch: what is remembered, what is in the slot, and what is reported. *)

Slot ==
  /\ isPatched => original # None /\ slot # <<>> /\ Head(slot) = signature
  /\ Governing => original \in {None, <<>>} /\ Len(slot) <= 1
  /\ Governing /\ ~isPatched => slot = <<>>

PatchInv == TypeOK /\ Slot

LEMMA InitPatch == Init => PatchInv
PROOF
<1> SUFFICES ASSUME Init PROVE TypeOK /\ Slot
  BY DEF PatchInv
<1>1. <<>> \in Seq(Inits) /\ Len(<<>>) = 0
  BY EmptySeq
<1>2. slot \in Seq(Inits) /\ wraps \in [Tools -> Seq(Inits)]
  BY <1>1 DEF Init
<1>3. /\ turn \in [Turns -> Inits \cup {None}]
      /\ at \in [Inits -> {"idle", "loading", "patched", "unpatched", "threw"}]
  BY DEF Init
<1>4. TypeOK
  <2>1. /\ hook \in Hooks /\ hookPoint \in HookPoints /\ original = None
        /\ isPatched = FALSE /\ signature = None /\ governed = {}
    BY DEF Init
  <2> QED
    BY <1>2, <1>3, <2>1 DEF TypeOK
<1>5. Slot
  <2>1. slot = <<>> /\ original = None /\ isPatched = FALSE
    BY DEF Init
  <2> QED
    BY <1>1, <2>1 DEF Slot
<1> QED
  BY <1>4, <1>5

\* Installing puts one wrapper on what the hook takes for the original.
LEMMA InstallKeepsPatch ==
  ASSUME PatchInv, NEW i \in Inits, Installs(i)
  PROVE  PatchInv'
PROOF
<1>1. OriginalAfter \in Seq(Inits)
  BY DEF PatchInv, TypeOK, OriginalAfter, Remembered, Captured
<1>2. Governing => OriginalAfter = <<>>
  <2> SUFFICES ASSUME Governing PROVE OriginalAfter = <<>>
    OBVIOUS
  <2>1. CASE original # None
    BY <2>1 DEF PatchInv, Slot, OriginalAfter, Remembered
  <2>2. CASE original = None
    BY <2>2 DEF PatchInv, Slot, OriginalAfter, Remembered
  <2> QED
    BY <2>1, <2>2
<1>3. /\ slot' \in Seq(Inits) /\ slot' # <<>> /\ Head(slot') = i
      /\ Governing => Len(slot') <= 1
  <2>1. slot' = <<i>> \o OriginalAfter
    BY DEF Installs
  <2>2. Governing => Len(OriginalAfter) = 0
    BY <1>2
  <2> QED
    BY <1>1, <2>1, <2>2, WrapOnce
<1>4. original' = OriginalAfter /\ original' # None
  BY <1>1, NoneAssumption DEF Installs
<1>5. TypeOK'
  BY <1>1, <1>3, <1>4 DEF Installs, SignatureAfter, Settles, inPlace, PatchInv, TypeOK
<1>6. Slot'
  BY <1>2, <1>3, <1>4 DEF Installs, SignatureAfter, Slot, Governing
<1> QED
  BY <1>5, <1>6 DEF PatchInv

LEMMA NextPatch == PatchInv /\ [Next]_vars => PatchInv'
PROOF
<1> SUFFICES ASSUME PatchInv, [Next]_vars PROVE PatchInv'
  OBVIOUS
<1>1. ASSUME NEW i \in Inits, PatchStarts(i) \/ CannotInstall(i)
      PROVE  PatchInv'
  BY <1>1 DEF PatchStarts, CannotInstall, Settles, state, inPlace, PatchInv, TypeOK,
              Slot, Governing
<1>2. ASSUME NEW i \in Inits, Installs(i)
      PROVE  PatchInv'
  BY <1>2, InstallKeepsPatch
<1>3. ASSUME NEW i \in Inits, FrozenInert(i)
      PROVE  PatchInv'
  <2>1. original' \in Seq(Inits) /\ original' # None
    BY <1>3, NoneAssumption DEF FrozenInert, OriginalAfter, Remembered, Captured,
        PatchInv, TypeOK
  <2>2. TypeOK'
    BY <1>3, <2>1 DEF FrozenInert, Settles, inPlace, PatchInv, TypeOK
  <2>3. Slot'
    <3>1. UNCHANGED <<hook, slot, isPatched, signature>> /\ original' = OriginalAfter
      BY <1>3 DEF FrozenInert
    <3>2. Governing /\ original = None => OriginalAfter = slot
      BY DEF OriginalAfter, Remembered
    <3>3. Governing /\ original # None => OriginalAfter = original
      BY DEF OriginalAfter, Remembered
    <3>4. isPatched => original # None
      BY DEF PatchInv, Slot
    <3>5. Governing => original' \in {None, <<>>}
      BY <3>1, <3>2, <3>3, <3>4 DEF PatchInv, Slot
    <3> QED
      BY <2>1, <3>1, <3>5 DEF PatchInv, Slot, Governing
  <2> QED
    BY <2>2, <2>3 DEF PatchInv
<1>4. CASE Unpatch
  <2>1. original # None
    BY <1>4 DEF Unpatch, PatchInv, Slot
  <2>2. original \in Seq(Inits)
    BY <2>1 DEF PatchInv, TypeOK
  <2>3. Governing => original = <<>>
    BY <2>1 DEF PatchInv, Slot
  <2>4. TypeOK'
    BY <1>4, <2>2 DEF Unpatch, OriginalKept, inPlace, PatchInv, TypeOK
  <2>5. Slot'
    BY <1>4, <2>3 DEF Unpatch, OriginalKept, Slot, Governing
  <2> QED
    BY <2>4, <2>5 DEF PatchInv
<1>5. ASSUME NEW n \in Turns, TurnStarts(n)
      PROVE  PatchInv'
  <2>1. Head(slot) \in Inits
    BY <1>5 DEF TurnStarts, PatchInv, TypeOK
  <2> QED
    BY <1>5, <2>1 DEF TurnStarts, state, PatchInv, TypeOK, Slot, Governing
<1>6. ASSUME NEW n \in Turns, TurnEnds(n)
      PROVE  PatchInv'
  <2>1. turn[n] \in Inits
    BY <1>6 DEF TurnEnds, PatchInv, TypeOK
  <2>2. \A t \in Tools : wraps[t] \in Seq(Inits) /\ <<turn[n]>> \o wraps[t] \in Seq(Inits)
    BY <2>1, WrapOnce DEF PatchInv, TypeOK
  <2>3. wraps' \in [Tools -> Seq(Inits)]
    BY <1>6, <2>2 DEF TurnEnds
  <2> QED
    BY <1>6, <2>3 DEF TurnEnds, ToWrap, state, PatchInv, TypeOK, Slot, Governing
<1>7. CASE UNCHANGED vars
  BY <1>7 DEF vars, state, inPlace, PatchInv, TypeOK, Slot, Governing
<1> QED
  BY <1>1, <1>2, <1>3, <1>4, <1>5, <1>6, <1>7 DEF Next

\* Whichever patches overlapped, a patch that is reported is in the slot, and one
\* that is there alone is the one whose configuration a re-init is compared with.
THEOREM SignatureTellsEffect == Spec => []SignatureInEffect
PROOF
<1>1. PatchInv => SignatureInEffect
  BY DEF PatchInv, Slot, SignatureInEffect
<1> QED
  BY InitPatch, NextPatch, <1>1, PTL DEF Spec

\* A governing hook that is not patched leaves the framework's own function.
THEOREM UnpatchUncoversOriginal == Spec => []UnpatchRestores
PROOF
<1>1. PatchInv => UnpatchRestores
  BY DEF PatchInv, Slot, UnpatchRestores
<1> QED
  BY InitPatch, NextPatch, <1>1, PTL DEF Spec

-----------------------------------------------------------------------------
(* Tools wrapped in place: those in the WeakSet, once, and no others.        *)

WrapInv ==
  \A t \in Tools : IF t \in governed THEN Len(wraps[t]) = 1 ELSE wraps[t] = <<>>

LEMMA InitWraps == Init => WrapInv
PROOF
  BY DEF Init, WrapInv

LEMMA NextWraps == PatchInv /\ WrapInv /\ [Next]_vars => WrapInv'
PROOF
<1> SUFFICES ASSUME PatchInv, WrapInv, [Next]_vars PROVE WrapInv'
  OBVIOUS
<1>1. CASE UNCHANGED <<governed, wraps>>
  BY <1>1 DEF WrapInv
<1>2. ASSUME NEW n \in Turns, TurnEnds(n), NEW t \in Tools
      PROVE  IF t \in governed' THEN Len(wraps'[t]) = 1 ELSE wraps'[t] = <<>>
  <2>1. turn[n] \in Inits
    BY <1>2 DEF TurnEnds, PatchInv, TypeOK
  <2>2. wraps[t] \in Seq(Inits)
    BY DEF PatchInv, TypeOK
  <2>3. CASE t \in governed
    BY <1>2, <2>3 DEF TurnEnds, ToWrap, WrapInv
  <2>4. CASE t \notin governed
    <3>1. wraps'[t] = <<turn[n]>> \o wraps[t] /\ t \in governed'
      BY <1>2, <2>4 DEF TurnEnds, ToWrap
    <3>2. Len(wraps[t]) = 0
      BY <2>4 DEF WrapInv
    <3> QED
      BY <2>1, <2>2, <3>1, <3>2, WrapOnce
  <2> QED
    BY <2>3, <2>4
<1> QED
  BY <1>1, <1>2 DEF Next, PatchStarts, Installs, CannotInstall, FrozenInert, Unpatch,
       TurnStarts, inPlace, vars, WrapInv

\* No overlap, unpatch or turn stacks governance on a hook or on a tool.
THEOREM GovernanceNeverStacks == Spec => []CheckedOnce
PROOF
<1>1. PatchInv /\ WrapInv => CheckedOnce
  <2> SUFFICES ASSUME PatchInv, WrapInv PROVE CheckedOnce
    OBVIOUS
  <2>1. Governing => Len(slot) <= 1
    BY DEF PatchInv, Slot
  <2>2. Len(<<>>) = 0
    BY EmptySeq
  <2>3. \A t \in Tools : Len(wraps[t]) <= 1
    <3> SUFFICES ASSUME NEW t \in Tools PROVE Len(wraps[t]) <= 1
      OBVIOUS
    <3>1. CASE wraps[t] = <<>>
      BY <2>2, <3>1
    <3>2. CASE Len(wraps[t]) = 1
      BY <3>2
    <3>3. wraps[t] = <<>> \/ Len(wraps[t]) = 1
      BY DEF WrapInv
    <3> QED
      BY <3>1, <3>2, <3>3
  <2> QED
    BY <2>1, <2>3, Zenon DEF CheckedOnce
<1> QED
  BY InitPatch, NextPatch, InitWraps, NextWraps, <1>1, PTL DEF Spec

-----------------------------------------------------------------------------
(* The assemblies over it.                                                  *)

\* What an assembly does to the patch is a step of HookPatch, or nothing.
LEMMA StepsOfPatch == [AssembliesNext]_allVars => [Next]_vars
PROOF
<1> SUFFICES ASSUME [AssembliesNext]_allVars PROVE [Next]_vars
  OBVIOUS
<1>1. ASSUME NEW i \in Inits,
             Enters(i) \/ Rejects(i) \/ RegistersHandler(i) \/ WrapsTools(i)
               \/ Returns(i) \/ PatchRejects(i)
      PROVE  UNCHANGED vars
  BY <1>1 DEF Enters, Rejects, RegistersHandler, WrapsTools, Returns, PatchRejects
<1>2. ASSUME NEW i \in Inits, PatchesFramework(i) \/ CallsPatch(i)
      PROVE  PatchStarts(i) \/ UNCHANGED vars
  BY <1>2 DEF PatchesFramework, CallsPatch
<1>3. ASSUME NEW i \in Inits, PatchEnds(i)
      PROVE  Installs(i) \/ CannotInstall(i) \/ FrozenInert(i)
  BY <1>3 DEF PatchEnds
<1>4. CallsUnpatch => Unpatch
  BY DEF CallsUnpatch
<1>5. UNCHANGED allVars => UNCHANGED vars
  BY DEF allVars
<1> QED
  BY <1>1, <1>2, <1>3, <1>4, <1>5 DEF AssembliesNext, Next

\* Several assemblies, and an application that patches and unpatches itself,
\* implement the single patch.
THEOREM ImplementsHookPatch == AssembliesSpec => Spec
PROOF
<1>1. AssembliesInit => Init
  BY DEF AssembliesInit
<1> QED
  BY <1>1, StepsOfPatch, PTL DEF AssembliesSpec, Spec

\* Governance does not stack, whatever several assemblies do.
THEOREM AssembliesGovernOnce == AssembliesSpec => []CheckedOnce
PROOF
  BY ImplementsHookPatch, GovernanceNeverStacks, PTL

\* A re-init is compared with the configuration in effect, whatever several
\* assemblies do.
THEOREM AssembliesTellEffect == AssembliesSpec => []SignatureInEffect
PROOF
  BY ImplementsHookPatch, SignatureTellsEffect, PTL

\* Unpatching uncovers the framework's own function, whichever assembly patched.
THEOREM AssembliesUnpatch == AssembliesSpec => []UnpatchRestores
PROOF
  BY ImplementsHookPatch, UnpatchUncoversOriginal, PTL

-----------------------------------------------------------------------------
(* The assemblies' own state.                                              *)

LEMMA FrameworkIsNotLangChain == hook \in Hooks => Framework # "langchain-js"
PROOF
  BY DEF Framework, FrameworkOf, Hooks, Governed, Lineage

LEMMA FrameworkStays == UNCHANGED hook => Framework' = Framework /\ Adapters' = Adapters
PROOF
  BY DEF Framework, Adapters

LEMMA HookStays == [Next]_vars => UNCHANGED hook
PROOF
  BY DEF Next, vars, PatchStarts, Installs, CannotInstall, FrozenInert, Unpatch,
         TurnStarts, TurnEnds

\* How far an assembly has got and how far its patch has.
Progress ==
  \A i \in Inits :
    /\ at[i] # "idle" => step[i] \in {"patching", "direct", "returned", "rejected"}
    /\ step[i] = "returned" => at[i] \in {"idle", "patched", "unpatched"}

\* The handler of an init that has one is in the caller's object.
Handlers ==
  \A i \in Inits :
    /\ applied[i] \subseteq {"langchain-js"}
    /\ applied[i] # {} =>
         /\ step[i] \notin {"new", "entered"}
         /\ config[i].langchain \in Objects
         /\ i \in callbacks[config[i].langchain]

\* A wrapper belongs to an init whose patch took effect, and such a patch is
\* still there unless the application undid one.
Wrappers ==
  /\ \A i \in Inits : at[i] = "patched" => isPatched \/ undone
  /\ \A n \in DOMAIN slot : at[slot[n]] = "patched"
  /\ original # None => \A n \in DOMAIN original : at[original[n]] = "patched"

\* What an assembly was told stays what it would be told.
Reports ==
  \A i \in Inits : step[i] = "returned" =>
    /\ active[i] = PatchedAdapterIds(i)
    /\ unpatched[i] = detected \ PatchedAdapterIds(i)

AsmInv ==
  PatchInv /\ AssembliesTypeOK /\ Progress /\ Handlers /\ Wrappers /\ Reports /\ FirstAgentStays

LEMMA InitAsm == AssembliesInit => AsmInv
PROOF
<1> SUFFICES ASSUME AssembliesInit PROVE AsmInv
  OBVIOUS
<1>1. PatchInv /\ TypeOK
  BY InitPatch DEF AssembliesInit, PatchInv
<1>2. AssembliesTypeOK
  <2>1. config \in [Inits -> Configs]
    BY DEF AssembliesInit, Configs
  <2> QED
    BY <1>1, <2>1 DEF AssembliesInit, AssembliesTypeOK, Steps
<1>3. Progress /\ Handlers /\ Reports
  BY DEF AssembliesInit, Init, Progress, Handlers, Reports
<1>4. Wrappers
  <2>1. slot = <<>> /\ original = None /\ \A i \in Inits : at[i] = "idle"
    BY DEF AssembliesInit, Init
  <2> QED
    BY <2>1 DEF Wrappers
<1>5. FirstAgentStays
  BY DEF AssembliesInit, FirstAgentStays
<1> QED
  BY <1>1, <1>2, <1>3, <1>4, <1>5 DEF AsmInv

LEMMA NextTypes == AsmInv /\ [AssembliesNext]_allVars => PatchInv' /\ AssembliesTypeOK'
PROOF
<1> SUFFICES ASSUME AsmInv, [AssembliesNext]_allVars PROVE PatchInv' /\ AssembliesTypeOK'
  OBVIOUS
<1> USE DEF AsmInv
<1>1. PatchInv' /\ TypeOK'
  BY StepsOfPatch, NextPatch DEF PatchInv
<1>2. Adapters' = Adapters
  BY StepsOfPatch, HookStays, FrameworkStays
<1>3. ASSUME UNCHANGED asmVars PROVE AssembliesTypeOK'
  BY <1>1, <1>2, <1>3 DEF asmVars, objects, reports, AssembliesTypeOK
<1>4. ASSUME NEW i \in Inits, Enters(i) PROVE AssembliesTypeOK'
  <2>1. config' \in [Inits -> Configs]
    BY <1>4 DEF Enters, AssembliesTypeOK
  <2>2. Tag \in Inits \cup {None}
    BY LenProperties DEF Tag, PatchInv, TypeOK
  <2>3. step' \in [Inits -> Steps] /\ parent' \in [Inits -> Inits \cup {None}]
    BY <1>4, <2>2 DEF Enters, Goes, Steps, AssembliesTypeOK
  <2> QED
    BY <1>1, <1>2, <1>4, <2>1, <2>3 DEF Enters, objects, reports, AssembliesTypeOK
<1>5. ASSUME NEW i \in Inits, Rejects(i) \/ PatchRejects(i) PROVE AssembliesTypeOK'
  BY <1>1, <1>2, <1>5 DEF Rejects, PatchRejects, Goes, Steps, objects, reports, AssembliesTypeOK
<1>6. ASSUME NEW i \in Inits, RegistersHandler(i) PROVE AssembliesTypeOK'
  <2>1. callbacks' \in [Objects -> SUBSET Inits]
    BY <1>6 DEF RegistersHandler, Adds, AssembliesTypeOK
  <2>2. applied' \in [Inits -> SUBSET Adapters]
    BY <1>6 DEF RegistersHandler, Adapters, AssembliesTypeOK
  <2> QED
    BY <1>1, <1>2, <1>6, <2>1, <2>2 DEF RegistersHandler, Goes, Steps, reports, AssembliesTypeOK
<1>7. ASSUME NEW i \in Inits, WrapsTools(i) PROVE AssembliesTypeOK'
  <2>1. wrapped' \in [Objects -> SUBSET Inits]
    BY <1>7 DEF WrapsTools, Adds, AssembliesTypeOK
  <2> QED
    BY <1>1, <1>2, <1>7, <2>1 DEF WrapsTools, Goes, Steps, reports, AssembliesTypeOK
<1>8. ASSUME NEW i \in Inits, PatchesFramework(i) PROVE AssembliesTypeOK'
  BY <1>1, <1>2, <1>8 DEF PatchesFramework, Goes, Steps, objects, reports, AssembliesTypeOK
<1>9. ASSUME NEW i \in Inits, CallsPatch(i) PROVE AssembliesTypeOK'
  <2>1. config' \in [Inits -> Configs]
    <3>1. [config[i] EXCEPT !.named = TRUE] \in Configs
      BY DEF AssembliesTypeOK, Configs
    <3> QED
      BY <1>9, <3>1 DEF CallsPatch, AssembliesTypeOK
  <2> QED
    BY <1>1, <1>2, <1>9, <2>1 DEF CallsPatch, Goes, Steps, objects, reports, AssembliesTypeOK
<1>10. ASSUME CallsUnpatch PROVE AssembliesTypeOK'
  BY <1>1, <1>2, <1>10 DEF CallsUnpatch, objects, reports, AssembliesTypeOK
<1>11. ASSUME NEW i \in Inits, Returns(i) PROVE AssembliesTypeOK'
  <2>1. PatchedAdapterIds(i) \subseteq Adapters /\ detected \subseteq Adapters
    BY DEF PatchedAdapterIds, Adapters, AssembliesTypeOK
  <2> QED
    BY <1>1, <1>2, <1>11, <2>1 DEF Returns, Goes, Steps, objects, AssembliesTypeOK
<1> QED
  BY <1>1, <1>3, <1>4, <1>5, <1>6, <1>7, <1>8, <1>9, <1>10, <1>11
    DEF AssembliesNext, allVars, PatchEnds

LEMMA NextProgress == AsmInv /\ [AssembliesNext]_allVars => Progress'
PROOF
<1> SUFFICES ASSUME AsmInv, [AssembliesNext]_allVars PROVE Progress'
  OBVIOUS
<1>1. /\ step \in [Inits -> Steps]
      /\ at \in [Inits -> {"idle", "loading", "patched", "unpatched", "threw"}]
      /\ Progress
  BY DEF AsmInv, AssembliesTypeOK, TypeOK
<1>2. ASSUME UNCHANGED <<at, step>> PROVE Progress'
  BY <1>1, <1>2 DEF Progress
<1>3. ASSUME NEW i \in Inits,
             Enters(i) \/ Rejects(i) \/ RegistersHandler(i) \/ WrapsTools(i)
               \/ Returns(i) \/ PatchRejects(i)
      PROVE  Progress'
  BY <1>1, <1>3 DEF Enters, Rejects, RegistersHandler, WrapsTools, Returns, PatchRejects,
       Goes, vars, Progress
<1>4. ASSUME NEW i \in Inits, PatchesFramework(i) PROVE Progress'
  BY <1>1, <1>4 DEF PatchesFramework, PatchStarts, Settles, vars, Goes, Progress
<1>5. ASSUME NEW i \in Inits, CallsPatch(i) PROVE Progress'
  BY <1>1, <1>5 DEF CallsPatch, PatchStarts, Settles, Goes, Progress
<1>6. ASSUME NEW i \in Inits, PatchEnds(i) PROVE Progress'
  <2>1. /\ at[i] = "loading" /\ UNCHANGED step
        /\ \E place \in {"patched", "unpatched", "threw"} : at' = [at EXCEPT ![i] = place]
    BY <1>6 DEF PatchEnds, Installs, CannotInstall, FrozenInert, Settles, asmVars
  <2> QED
    BY <1>1, <2>1 DEF Progress
<1>7. CallsUnpatch => UNCHANGED <<at, step>>
  BY DEF CallsUnpatch, Unpatch
<1>8. ASSUME NEW n \in Turns, TurnStarts(n) \/ TurnEnds(n), UNCHANGED asmVars
      PROVE  UNCHANGED <<at, step>>
  BY <1>8 DEF TurnStarts, TurnEnds, asmVars
<1>9. UNCHANGED allVars => UNCHANGED <<at, step>>
  BY DEF allVars, vars, asmVars
<1> QED
  BY <1>2, <1>3, <1>4, <1>5, <1>6, <1>7, <1>8, <1>9 DEF AssembliesNext

\* Handlers are pushed once and never taken out, and an init's langchain object
\* is chosen before.
LEMMA NextHandlers == AsmInv /\ [AssembliesNext]_allVars => Handlers'
PROOF
<1> SUFFICES ASSUME AsmInv, [AssembliesNext]_allVars PROVE Handlers'
  OBVIOUS
<1>1. /\ step \in [Inits -> Steps] /\ config \in [Inits -> Configs]
      /\ callbacks \in [Objects -> SUBSET Inits] /\ applied \in [Inits -> SUBSET Adapters]
      /\ Handlers
  BY DEF AsmInv, AssembliesTypeOK
<1>2. ASSUME UNCHANGED <<step, config, callbacks, applied>> PROVE Handlers'
  BY <1>1, <1>2 DEF Handlers
<1>3. ASSUME NEW i \in Inits, Enters(i) PROVE Handlers'
  <2>1. applied[i] = {}
    BY <1>1, <1>3 DEF Enters, Handlers
  <2>2. \A j \in Inits : j # i => config'[j] = config[j] /\ step'[j] = step[j]
    BY <1>1, <1>3 DEF Enters, Goes
  <2> QED
    BY <1>1, <1>3, <2>1, <2>2 DEF Enters, objects, Handlers
<1>4. ASSUME NEW i \in Inits, RegistersHandler(i) PROVE Handlers'
  <2>1. CASE ~CallerSupplied(i)
    BY <1>1, <1>4, <2>1 DEF RegistersHandler, Goes, Handlers
  <2>2. CASE CallerSupplied(i)
    <3>1. config[i].langchain \in Objects
      BY <1>1, <2>2 DEF CallerSupplied, Configs
    <3>2. \A o \in Objects : callbacks[o] \subseteq callbacks'[o]
      BY <1>1, <1>4, <2>2 DEF RegistersHandler, Adds
    <3>3. i \in callbacks'[config[i].langchain]
      BY <1>1, <1>4, <2>2, <3>1 DEF RegistersHandler, Adds
    <3>4. /\ applied[i] = {} /\ applied'[i] = {"langchain-js"}
          /\ \A j \in Inits : j # i => applied'[j] = applied[j]
      BY <1>1, <1>4, <2>2 DEF RegistersHandler, Handlers
    <3>5. step'[i] = "handler" /\ \A j \in Inits : j # i => step'[j] = step[j]
      BY <1>1, <1>4 DEF RegistersHandler, Goes
    <3>6. UNCHANGED config
      BY <1>4 DEF RegistersHandler
    <3> QED
      BY <1>1, <3>1, <3>2, <3>3, <3>4, <3>5, <3>6 DEF Handlers
  <2> QED
    BY <2>1, <2>2
<1>5. ASSUME NEW i \in Inits, CallsPatch(i) PROVE Handlers'
  <2>1. applied[i] = {}
    BY <1>1, <1>5 DEF CallsPatch, Handlers
  <2>2. \A j \in Inits : j # i => config'[j] = config[j] /\ step'[j] = step[j]
    BY <1>1, <1>5 DEF CallsPatch, Goes
  <2> QED
    BY <1>1, <1>5, <2>1, <2>2 DEF CallsPatch, objects, Handlers
<1>6. ASSUME NEW i \in Inits,
             Rejects(i) \/ WrapsTools(i) \/ PatchesFramework(i) \/ Returns(i) \/ PatchRejects(i)
      PROVE  Handlers'
  <2>1. /\ UNCHANGED <<config, callbacks, applied>>
        /\ \E place \in Steps \ {"new", "entered"} : step' = [step EXCEPT ![i] = place]
    BY <1>6 DEF Rejects, WrapsTools, PatchesFramework, Returns, PatchRejects, Goes, Steps, objects
  <2> QED
    BY <1>1, <2>1 DEF Handlers
<1>7. ASSUME NEW i \in Inits, PatchEnds(i) PROVE UNCHANGED <<step, config, callbacks, applied>>
  BY <1>7 DEF PatchEnds, asmVars, objects
<1>8. CallsUnpatch \/ UNCHANGED asmVars => UNCHANGED <<step, config, callbacks, applied>>
  BY DEF CallsUnpatch, asmVars, objects
<1> QED
  BY <1>2, <1>3, <1>4, <1>5, <1>6, <1>7, <1>8 DEF AssembliesNext, allVars

\* Installing puts an init's wrapper on those of inits that are patched already.
LEMMA InstallKeepsWrappers ==
  ASSUME AsmInv, NEW i \in Inits, Installs(i), UNCHANGED undone
  PROVE  Wrappers'
PROOF
<1> DEFINE place == {"idle", "loading", "patched", "unpatched", "threw"}
<1>1. at \in [Inits -> place] /\ slot \in Seq(Inits) /\ Wrappers
  BY DEF AsmInv, AssembliesTypeOK, TypeOK
<1>2. /\ OriginalAfter \in Seq(Inits)
      /\ \A n \in DOMAIN OriginalAfter : at[OriginalAfter[n]] = "patched"
  BY <1>1 DEF OriginalAfter, Remembered, Captured, Wrappers, AsmInv, PatchInv, TypeOK
<1>3. /\ slot' = <<i>> \o OriginalAfter /\ original' = OriginalAfter /\ isPatched'
      /\ at' = [at EXCEPT ![i] = "patched"]
  BY DEF Installs, Settles
<1>4. \A n \in DOMAIN original' : at'[original'[n]] = "patched"
  <2>1. \A n \in DOMAIN OriginalAfter : OriginalAfter[n] \in Inits
    BY <1>2
  <2> QED
    BY <1>1, <1>2, <1>3, <2>1
<1>5. \A n \in DOMAIN slot' : at'[slot'[n]] = "patched"
  <2> SUFFICES ASSUME NEW n \in DOMAIN slot' PROVE at'[slot'[n]] = "patched"
    OBVIOUS
  <2>1. <<i>> \in Seq(Inits) /\ Len(<<i>>) = 1 /\ <<i>>[1] = i
    OBVIOUS
  <2>2. /\ Len(slot') = 1 + Len(OriginalAfter) /\ slot' \in Seq(Inits)
        /\ \A k \in 1 .. Len(slot') :
             slot'[k] = IF k <= 1 THEN <<i>>[k] ELSE OriginalAfter[k - 1]
    BY <1>2, <1>3, <2>1, ConcatProperties
  <2>3. n \in 1 .. Len(slot') /\ Len(OriginalAfter) \in Nat
    BY <1>2, <2>2, LenProperties
  <2>4. CASE n = 1
    BY <1>1, <1>3, <2>1, <2>2, <2>3, <2>4
  <2>5. CASE n # 1
    <3>1. n - 1 \in 1 .. Len(OriginalAfter) /\ slot'[n] = OriginalAfter[n - 1]
      BY <2>2, <2>3, <2>5
    <3>2. n - 1 \in DOMAIN OriginalAfter /\ OriginalAfter[n - 1] \in Inits
      BY <1>2, <3>1
    <3> QED
      BY <1>1, <1>2, <1>3, <3>1, <3>2
  <2> QED
    BY <2>4, <2>5
<1> QED
  BY <1>3, <1>4, <1>5 DEF Wrappers

LEMMA NextWrappers == AsmInv /\ [AssembliesNext]_allVars => Wrappers'
PROOF
<1> SUFFICES ASSUME AsmInv, [AssembliesNext]_allVars PROVE Wrappers'
  OBVIOUS
<1>1. /\ at \in [Inits -> {"idle", "loading", "patched", "unpatched", "threw"}]
      /\ \A n \in DOMAIN slot : slot[n] \in Inits
      /\ original # None => \A n \in DOMAIN original : original[n] \in Inits
      /\ Wrappers
  BY DEF AsmInv, AssembliesTypeOK, TypeOK
<1>2. ASSUME UNCHANGED <<at, slot, original, isPatched, undone>> PROVE Wrappers'
  BY <1>1, <1>2 DEF Wrappers
<1>3. ASSUME NEW i \in Inits, PatchStarts(i), UNCHANGED undone PROVE Wrappers'
  BY <1>1, <1>3 DEF PatchStarts, Settles, state, Wrappers
<1>4. ASSUME NEW i \in Inits, PatchEnds(i) PROVE Wrappers'
  <2>1. UNCHANGED undone
    BY <1>4 DEF PatchEnds, asmVars
  <2>2. CASE Installs(i)
    BY <2>1, <2>2, InstallKeepsWrappers
  <2>3. CASE CannotInstall(i)
    BY <1>1, <2>1, <2>3 DEF CannotInstall, Settles, state, Wrappers
  <2>4. CASE FrozenInert(i)
    <3>1. original' \in {original, slot} /\ (original' = original => original # None)
      BY <2>4, NoneAssumption DEF FrozenInert, OriginalAfter, Remembered, Captured,
          AsmInv, PatchInv, TypeOK
    <3>2. /\ UNCHANGED <<slot, isPatched>> /\ at[i] = "loading"
          /\ \E place \in {"unpatched", "threw"} : at' = [at EXCEPT ![i] = place]
      BY <2>4 DEF FrozenInert, Settles
    <3> QED
      BY <1>1, <2>1, <3>1, <3>2 DEF Wrappers
  <2> QED
    BY <1>4, <2>2, <2>3, <2>4 DEF PatchEnds
<1>5. ASSUME CallsUnpatch PROVE Wrappers'
  <2>1. original # None
    BY <1>5 DEF CallsUnpatch, Unpatch, AsmInv, PatchInv, Slot
  <2>2. UNCHANGED at /\ slot' = original /\ original' \in {original, None} /\ undone'
    BY <1>5 DEF CallsUnpatch, Unpatch, OriginalKept
  <2> QED
    BY <1>1, <2>1, <2>2 DEF Wrappers
<1>6. ASSUME NEW i \in Inits,
             Enters(i) \/ Rejects(i) \/ RegistersHandler(i) \/ WrapsTools(i)
               \/ Returns(i) \/ PatchRejects(i)
      PROVE  UNCHANGED <<at, slot, original, isPatched, undone>>
  BY <1>6 DEF Enters, Rejects, RegistersHandler, WrapsTools, Returns, PatchRejects, vars, state
<1>7. ASSUME NEW i \in Inits, PatchesFramework(i) PROVE Wrappers'
  <2>1. UNCHANGED undone /\ (PatchStarts(i) \/ UNCHANGED vars)
    BY <1>7 DEF PatchesFramework
  <2> QED
    BY <1>2, <1>3, <2>1 DEF vars, state
<1>8. ASSUME NEW i \in Inits, CallsPatch(i) PROVE PatchStarts(i) /\ UNCHANGED undone
  BY <1>8 DEF CallsPatch
<1>9. ASSUME NEW n \in Turns, TurnStarts(n) \/ TurnEnds(n), UNCHANGED asmVars
      PROVE  UNCHANGED <<at, slot, original, isPatched, undone>>
  BY <1>9 DEF TurnStarts, TurnEnds, asmVars, state
<1>10. UNCHANGED allVars => UNCHANGED <<at, slot, original, isPatched, undone>>
  BY DEF allVars, vars, asmVars, state
<1> QED
  BY <1>2, <1>3, <1>4, <1>5, <1>6, <1>7, <1>8, <1>9, <1>10 DEF AssembliesNext

\* No step changes what an assembly that has returned would be told.
LEMMA NextReports == AsmInv /\ [AssembliesNext]_allVars => Reports'
PROOF
<1> SUFFICES ASSUME AsmInv, [AssembliesNext]_allVars PROVE Reports'
  OBVIOUS
<1>1. /\ at \in [Inits -> {"idle", "loading", "patched", "unpatched", "threw"}]
      /\ step \in [Inits -> Steps] /\ applied \in [Inits -> SUBSET Adapters]
      /\ active \in [Inits -> SUBSET Adapters] /\ unpatched \in [Inits -> SUBSET Adapters]
      /\ Progress /\ Reports
  BY DEF AsmInv, AssembliesTypeOK, TypeOK
<1>2. Framework' = Framework
  BY StepsOfPatch, HookStays, FrameworkStays
<1> DEFINE Kept(j) ==
      step'[j] = "returned" => step[j] = "returned" /\ applied'[j] = applied[j] /\ at'[j] = at[j]
<1>3. ASSUME UNCHANGED <<active, unpatched, detected>>, \A j \in Inits : Kept(j)
      PROVE  Reports'
  <2> SUFFICES ASSUME NEW j \in Inits, step'[j] = "returned"
               PROVE  /\ active'[j] = PatchedAdapterIds(j)'
                      /\ unpatched'[j] = detected' \ PatchedAdapterIds(j)'
    BY DEF Reports
  <2>1. PatchedAdapterIds(j)' = PatchedAdapterIds(j)
    BY <1>2, <1>3 DEF PatchedAdapterIds
  <2>2. active[j] = PatchedAdapterIds(j) /\ unpatched[j] = detected \ PatchedAdapterIds(j)
    BY <1>1, <1>3 DEF Reports
  <2> QED
    BY <1>3, <2>1, <2>2
<1> HIDE DEF Kept
<1>4. ASSUME NEW i \in Inits,
             Enters(i) \/ Rejects(i) \/ RegistersHandler(i) \/ WrapsTools(i) \/ PatchRejects(i)
      PROVE  Reports'
  <2>1. UNCHANGED <<at, active, unpatched, detected>>
    BY <1>4 DEF Enters, Rejects, RegistersHandler, WrapsTools, PatchRejects, reports, vars
  <2>2. \A j \in Inits : Kept(j)
    BY <1>1, <1>4, <2>1
      DEF Kept, Enters, Rejects, RegistersHandler, WrapsTools, PatchRejects, Goes
  <2> QED
    BY <1>3, <2>1, <2>2
<1>5. ASSUME NEW i \in Inits, PatchesFramework(i) PROVE Reports'
  <2>1. UNCHANGED <<active, unpatched, detected>>
    BY <1>5 DEF PatchesFramework, reports
  <2>2. \A j \in Inits : Kept(j)
    BY <1>1, <1>5 DEF Kept, PatchesFramework, PatchStarts, Settles, Goes, vars
  <2> QED
    BY <1>3, <2>1, <2>2
<1>6. ASSUME NEW i \in Inits, CallsPatch(i) PROVE Reports'
  <2>1. UNCHANGED <<active, unpatched, detected>>
    BY <1>6 DEF CallsPatch, reports
  <2>2. \A j \in Inits : Kept(j)
    BY <1>1, <1>6 DEF Kept, CallsPatch, PatchStarts, Settles, Goes
  <2> QED
    BY <1>3, <2>1, <2>2
<1>7. ASSUME NEW i \in Inits, PatchEnds(i) PROVE Reports'
  <2>1. /\ at[i] = "loading" /\ UNCHANGED <<step, applied, active, unpatched, detected>>
        /\ \E place : at' = [at EXCEPT ![i] = place]
    BY <1>7 DEF PatchEnds, Installs, CannotInstall, FrozenInert, Settles, asmVars, reports
  <2>2. \A j \in Inits : Kept(j)
    BY <1>1, <2>1 DEF Kept, Progress
  <2> QED
    BY <1>3, <2>1, <2>2
<1>8. ASSUME UNCHANGED <<at, step, applied, active, unpatched, detected>> PROVE Reports'
  BY <1>3, <1>8 DEF Kept
<1>9. ASSUME NEW i \in Inits, Returns(i) PROVE Reports'
  <2>1. \A j \in Inits : PatchedAdapterIds(j)' = PatchedAdapterIds(j)
    BY <1>2, <1>9 DEF Returns, PatchedAdapterIds, vars
  <2>2. /\ active' = [active EXCEPT ![i] = PatchedAdapterIds(i)]
        /\ unpatched' = [unpatched EXCEPT ![i] = detected \ PatchedAdapterIds(i)]
        /\ step' = [step EXCEPT ![i] = "returned"] /\ UNCHANGED detected
    BY <1>9 DEF Returns, Goes
  <2> QED
    BY <1>1, <2>1, <2>2 DEF Reports
<1>10. CallsUnpatch => UNCHANGED <<at, step, applied, active, unpatched, detected>>
  BY DEF CallsUnpatch, Unpatch, reports
<1>11. ASSUME NEW n \in Turns, TurnStarts(n) \/ TurnEnds(n), UNCHANGED asmVars
       PROVE  UNCHANGED <<at, step, applied, active, unpatched, detected>>
  BY <1>11 DEF TurnStarts, TurnEnds, asmVars, reports
<1>12. UNCHANGED allVars => UNCHANGED <<at, step, applied, active, unpatched, detected>>
  BY DEF allVars, vars, asmVars, reports
<1> QED
  BY <1>4, <1>5, <1>6, <1>7, <1>8, <1>9, <1>10, <1>11, <1>12 DEF AssembliesNext

\* A lineage hook wraps what is there, so the innermost wrapper stays.
LEMMA InstallKeepsTag ==
  ASSUME AsmInv, NEW i \in Inits, Installs(i), hook \in Lineage, Tag # None
  PROVE  Tag' = Tag
PROOF
<1>1. slot \in Seq(Inits) /\ hook \notin Governed /\ UNCHANGED hook
  BY DEF AsmInv, AssembliesTypeOK, TypeOK, Lineage, Governed, Installs
<1>2. slot' = <<i>> \o slot
  BY <1>1 DEF Installs, OriginalAfter, Captured, Governing
<1>3. slot # <<>> /\ Tag = slot[Len(slot)]
  BY DEF Tag
<1>4. Len(slot) \in Nat /\ Len(slot) # 0
  BY <1>1, <1>3, LenProperties, EmptySeq
<1>5. <<i>> \in Seq(Inits) /\ Len(<<i>>) = 1
  OBVIOUS
<1>6. /\ Len(slot') = 1 + Len(slot)
      /\ \A k \in 1 .. Len(slot') : slot'[k] = IF k <= 1 THEN <<i>>[k] ELSE slot[k - 1]
  BY <1>1, <1>2, <1>5, ConcatProperties
<1>7. slot'[Len(slot')] = slot[Len(slot)]
  BY <1>4, <1>6
<1>8. slot' # <<>>
  BY <1>4, <1>6, EmptySeq
<1> QED
  BY <1>1, <1>3, <1>7, <1>8 DEF Tag

LEMMA NextFirstAgent == AsmInv /\ [AssembliesNext]_allVars => FirstAgentStays'
PROOF
<1> SUFFICES ASSUME AsmInv, [AssembliesNext]_allVars, hook' \in Lineage, ~undone'
             PROVE  \A i \in Inits : parent'[i] \in {None, Tag'}
  BY DEF FirstAgentStays
<1>1. UNCHANGED hook
  BY StepsOfPatch, HookStays
<1>2. parent \in [Inits -> Inits \cup {None}]
  BY DEF AsmInv, AssembliesTypeOK
<1>3. ASSUME NEW i \in Inits, Enters(i) PROVE \A j \in Inits : parent'[j] \in {None, Tag'}
  <2>1. UNCHANGED undone /\ Tag' = Tag
    BY <1>3 DEF Enters, vars, state, Tag
  <2>2. \A j \in Inits : parent[j] \in {None, Tag}
    BY <1>1, <2>1 DEF AsmInv, FirstAgentStays
  <2>3. \E agent \in {None, Tag} : parent' = [parent EXCEPT ![i] = agent]
    BY <1>3 DEF Enters
  <2> QED
    BY <1>2, <2>1, <2>2, <2>3
<1>4. ASSUME NEW i \in Inits, PatchEnds(i) PROVE \A j \in Inits : parent'[j] \in {None, Tag'}
  <2>1. UNCHANGED <<undone, parent>>
    BY <1>4 DEF PatchEnds, asmVars
  <2>2. \A j \in Inits : parent[j] \in {None, Tag}
    BY <1>1, <2>1 DEF AsmInv, FirstAgentStays
  <2>3. CASE Installs(i)
    <3>1. CASE Tag = None
      BY <2>1, <2>2, <3>1
    <3>2. CASE Tag # None
      BY <1>1, <2>1, <2>2, <2>3, <3>2, InstallKeepsTag
    <3> QED
      BY <3>1, <3>2
  <2>4. CASE CannotInstall(i) \/ FrozenInert(i)
    <3>1. Tag' = Tag
      BY <2>4 DEF CannotInstall, FrozenInert, state, Tag
    <3> QED
      BY <2>1, <2>2, <3>1
  <2> QED
    BY <1>4, <2>3, <2>4 DEF PatchEnds
<1>5. ASSUME UNCHANGED <<hook, slot, parent, undone>>
      PROVE  \A j \in Inits : parent'[j] \in {None, Tag'}
  <2>1. Tag' = Tag
    BY <1>5 DEF Tag
  <2> QED
    BY <1>1, <1>5, <2>1 DEF AsmInv, FirstAgentStays
<1>6. ASSUME NEW i \in Inits,
             Rejects(i) \/ RegistersHandler(i) \/ WrapsTools(i) \/ PatchesFramework(i)
               \/ CallsPatch(i) \/ Returns(i) \/ PatchRejects(i)
      PROVE  UNCHANGED <<hook, slot, parent, undone>>
  BY <1>6 DEF Rejects, RegistersHandler, WrapsTools, PatchesFramework, CallsPatch, PatchStarts,
       Returns, PatchRejects, vars, state
<1>7. ~CallsUnpatch
  BY DEF CallsUnpatch
<1>8. ASSUME NEW n \in Turns, TurnStarts(n) \/ TurnEnds(n), UNCHANGED asmVars
      PROVE  UNCHANGED <<hook, slot, parent, undone>>
  BY <1>8 DEF TurnStarts, TurnEnds, asmVars, state
<1>9. UNCHANGED allVars => UNCHANGED <<hook, slot, parent, undone>>
  BY DEF allVars, vars, asmVars, state
<1> QED
  BY <1>3, <1>4, <1>5, <1>6, <1>7, <1>8, <1>9 DEF AssembliesNext

LEMMA NextAsm == AsmInv /\ [AssembliesNext]_allVars => AsmInv'
PROOF
  BY NextTypes, NextProgress, NextHandlers, NextWrappers, NextReports, NextFirstAgent DEF AsmInv

LEMMA AsmInvHolds == AssembliesSpec => []AsmInv
PROOF
  BY InitAsm, NextAsm, PTL DEF AssembliesSpec

-----------------------------------------------------------------------------
\* The assemblies' state keeps its types, the patch's included.
THEOREM AssembliesTypeCorrect == AssembliesSpec => []AssembliesTypeOK
PROOF
<1>1. AsmInv => AssembliesTypeOK
  BY DEF AsmInv
<1> QED
  BY <1>1, AsmInvHolds, PTL

\* What a context reports as active is in place, and what it reports as
\* unpatched does not run its wrapper, whatever other inits did in between.
THEOREM ActiveAdaptersAreReachable == AssembliesSpec => []ActiveIsReachable
PROOF
<1>1. AsmInv => ActiveIsReachable
  <2> SUFFICES ASSUME AsmInv, NEW i \in Inits, step[i] = "returned"
               PROVE  /\ "langchain-js" \in active[i] =>
                           \E o \in Objects : o = config[i].langchain /\ i \in callbacks[o]
                      /\ Framework \in active[i] => slot # <<>> \/ undone
                      /\ unpatched[i] = detected \ active[i]
                      /\ Framework \in unpatched[i] => \A n \in DOMAIN slot : slot[n] # i
    BY DEF ActiveIsReachable
  <2>1. /\ active[i] = applied[i] \cup (IF at[i] = "patched" THEN {Framework} ELSE {})
        /\ unpatched[i] = detected \ active[i]
    BY DEF AsmInv, Reports, PatchedAdapterIds
  <2>2. Framework # "langchain-js"
    BY FrameworkIsNotLangChain DEF AsmInv, AssembliesTypeOK, TypeOK
  <2>3. applied[i] \subseteq {"langchain-js"}
    BY DEF AsmInv, Handlers
  <2>4. "langchain-js" \in active[i] =>
          \E o \in Objects : o = config[i].langchain /\ i \in callbacks[o]
    BY <2>1, <2>2 DEF AsmInv, Handlers
  <2>5. isPatched => slot # <<>>
    BY DEF AsmInv, PatchInv, Slot
  <2>6. Framework \in active[i] => slot # <<>> \/ undone
    BY <2>1, <2>2, <2>3, <2>5 DEF AsmInv, Wrappers
  <2>7. Framework \in unpatched[i] => \A n \in DOMAIN slot : slot[n] # i
    BY <2>1 DEF AsmInv, Wrappers
  <2> QED
    BY <2>1, <2>4, <2>6, <2>7
<1> QED
  BY <1>1, AsmInvHolds, PTL

\* The first agent whose lineage patch is in the slot stays every later
\* agent's parent, however many patch over it.
THEOREM FirstAgentStaysParent == AssembliesSpec => []FirstAgentStays
PROOF
<1>1. AsmInv => FirstAgentStays
  BY DEF AsmInv
<1> QED
  BY <1>1, AsmInvHolds, PTL
=============================================================================
