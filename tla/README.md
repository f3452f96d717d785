# Agent Assembly node SDK: a verification project

The SDK governs the tool calls of AI agents.  A call is asked about at a
gateway before it runs, held or rejected by live operator signals, and audited
afterwards; the SDK also finds or starts the local services it talks to, owns
one native session to the runtime, and patches agent frameworks in place.  The
TLA+ modules here model those parts, TLC checks them on small instances, and
TLAPS proves the properties that matter most for every value of the constants.

Paths below are relative to the repository's root.  `src/` is the TypeScript
SDK, `native/` the Rust binding.

## 1. Inventory

| Component | Source | State it keeps | Operations | What is hard |
|---|---|---|---|---|
| Op-control subscriber | `src/op-control.ts` | per op `paused`, `terminated`, queued resolvers; `alive`, `closed`; the stream | open, dispatch PAUSE / RESUME / TERMINATE, `waitForOp`, stream death, `close` | a resolver only makes a continuation runnable; timers that nobody clears; a stream that dies under waiters; `close` racing an async open |
| withAssembly wrapper | `src/wrappers/with-assembly.ts` | nothing shared; each call carries its own decision | kill switch, check, approval against a timeout, audit of a denial, run | a late approval, an audit sink that fails, signals while the call is held, other wrappers around or inside it |
| Native client | `src/native/client.ts`, `native/aa-ffi-node/src/lib.rs` | memoized connect, active handle, stashed send error; the binding's sessions | `queryPolicy`, `register`, `sendEvent`, `close` | every call awaits the same connect; errors of one call surface in another; close awaits twice |
| Verdicts | `src/gateway/client.ts`, `src/native/client.ts`, `native/aa-ffi-node/core/src/lib.rs` | none | the chain from the runtime's reply to allow / deny / pending | fail-open replies that look like an allow; unknown decisions; two postures |
| initAssembly lifecycle | `src/core/init-assembly.ts` | the context: client, transport, `registered`, patches | guards, transport and client choice, register, topology event, patches, `shutdown` | guards spread over three functions; advisory failures that must not abort; two closes in shutdown |
| LangChain tool wrapper | `src/adapters/langchain/wrap-tool-with-assembly.ts` | the tool's `invoke` | check, deny, pending, run | the verdict is only as good as the client beneath; wrapping twice asks twice |
| Framework hooks | `src/hooks/*.ts` | module-level patch state: `isPatched`, original, configuration signature; the WeakSet of wrapped tools | patch, unpatch, governed invoke with its denial output and its result report | an `await` between looking and installing; several inits in one process; a report that throws |
| LangChain callback handler | `src/adapters/langchain/assembly-callback-handler.ts` | map of pending denials with their times | tool start / end, LLM start / end, cleanup | expiry exactly at the boundary; failing records; interleaved runs |
| Gateway resolver | `src/core/gateway-resolver.ts` | none; the spawned process | resolve, probe, spawn, wait | the clock is sampled before each probe; overlapping inits; a service that comes late |
| Runtime entry point | `src/runtime.ts` | none; the spawned process | probe, gate, spawn | it returns before the sidecar is ready |
| Lineage context | `src/lineage/agent-context-store.ts` | Node's AsyncLocalStorage | run in context, read | nested contexts, when lineage patches overlap |
| Audit encoding | `src/audit/encode.ts` | none | encode, decode | what is set, empty, null or of another type, at every depth |
| Generated protocol code | `src/proto/generated` | none | encode, decode, toJSON, fromJSON of each message | peers of another version; 64-bit numbers in doubles |
| Redaction, tool-seam guard | `src/core/redact.ts`, `src/core/tool-seam-guard.ts` | none | predicates over strings and descriptors | - |
| Errors, types, adapter registry; packaging, scripts, website | `src/errors`, `src/types`, `src/adapters/adapter-registry.ts` | none | declarations | - |

How they interact.  `initAssembly` resolves the gateway, builds a native
client, puts a gateway client on top of it, registers the agent over the same
session and sends the topology event; then it hands the gateway client to the
hooks and tool wrappers.  `withAssembly` is a second, independent way in: a
caller-supplied gateway client and an optional op-control subscriber.  Checks
and audit events of all tools share the one native session and its stash, and
`shutdown` closes that client twice, once itself and once through the gateway
client's `close`.  A tool may end up inside several wrappers, each of which asks
on its own: an agents framework governs a tool that `withAssembly` governs
already, or two inits wrap the same LangChain tool.  Several inits share the
process: the module-level patches, the caller's langchain object, and the agent
context that a patched framework runs in.

What makes each part correct:

- op control: no wakeup is lost or misdirected, a terminated op rejects its
  waiters, and what blocks is exactly what is queued;
- a governed call: runs only on a yes of every layer that came in time; a denial
  is audited and survives its audit; nobody waits for ever for an approval; the
  caller is told what happened;
- native client: one session at a time, reachable by the next close unless a
  close has said that its teardown failed; an error reaches one caller;
  everything settles;
- lifecycle: fail-closed means that a wrapped LangChain tool runs only on a real
  allow; advisory means that only a real deny blocks; shutdown leaves no session
  behind, or rejects with the teardown's failure;
- hooks: governance never stacks, and the patch state tells what is installed;
- several assemblies: what a context reports as active is reachable, and the
  first agent of a lineage patch stays the parent;
- encodings: what is read from binary or from an audit payload is what was sent,
  whatever else another version of the protocol put around it, or the reader
  refuses it; JSON loses only enumeration values unknown here and 64-bit numbers
  that no double holds, and never turns them into something it could trust;
- callback handler: the audit says of each run what the gateway said of it;
- startup: an init's outcome is what its probes saw, and comes in time.

`PROJECT.json` lists the hazards at their lines with the properties that would
notice each of them, and gives a reason for those that no property covers.

## 2. Modules

| Module | Models | Built on |
|---|---|---|
| `KillSwitch` | abstract: what op control promises to a waiting call | |
| `OpControl` | the subscriber | implements `KillSwitch` |
| `Governance` | abstract: what a governed tool promises to its caller | `INSTANCE KillSwitch` |
| `GovernedCall` | governed calls through every stacking of wrappers | `INSTANCE OpControl`, implements `Governance` |
| `NativeClient` | connected client and the binding's sessions | |
| `Verdict` | operators only: reply to decision | |
| `InitAssembly` | one assembly's life | `INSTANCE NativeClient`, `INSTANCE Verdict` |
| `HookPatch` | one process-wide patch and the tools wrapped in place | |
| `Assemblies` | several assemblies in one process: handlers, wrappers, patch, reports, lineage | extends and implements `HookPatch` |
| `CallbackHandler` | the LangChain handler | |
| `GatewayStartup` | resolver and runtime entry point | |
| `JsonValues` | the markers beside the data: undefined, null, thrown | |
| `ProtoScalars` | operators only: the protocol's 64-bit numbers and enumerations | extends `JsonValues` |
| `ProtoMessages` | operators only: the protocol's messages as tables of fields, and their conversions | extends `ProtoScalars` |
| `AuditEncoding` | operators only: `encodeAuditEvent` and `decodeAuditEvent` | extends `JsonValues` |
| `Exchange` | the state of an exchange: what was sent, is carried, was altered and received | extends `JsonValues` |
| `MessageExchange` | a message of the policy service on its way, binary or as JSON | extends `ProtoMessages`, `Exchange` |
| `AuditExchange` | an audit event on its way | extends `AuditEncoding`, `Exchange` |
| `Encodings` | a message or an event on its way between two versions of the protocol | extends `MessageExchange`, `AuditExchange` |
| `MC*` | instances for TLC | |
| `*Proofs` | theorems | the module they are named after; `AssembliesProofs` has those of `HookPatch` too, `EncodingsProofs` those of `ProtoScalars`, `MessageExchange` and `AuditExchange` |

Conventions.  JavaScript runs one task at a time, so an action is the code from
one `await` to the next, and every `await` is a place another action may get
in between.  Each call is an element of a constant set and is made at most
once; `at`, `phase`, `stage` say which await it has reached.  A disjunct stands
for an outcome of something outside (a reply, a rejection, a timer).

### OpControl and KillSwitch

`paused`, `terminated`, `resolvers` are the slot's fields per op; a queued
resolver is named by the call it belongs to.  Calling a resolver moves the
call to `woken`; `Continue` is the rest of `waitForOp`, which reads
`terminated` again and `paused` not.  `WaitForOp` is the code up to the await,
`TimerFires` the timeout callback (it also fires after the call was released,
as nobody clears it, and never between a resolver and its continuation, since
microtasks run first).  `OpenRealChannel`, `OpenRealChannelFails`, `Close`
cover the two imports of the real channel against `close()`.  After an error
the stream may still end.  `KillSwitch` keeps of all this the set of killed ops
and the outcome of each call.

### GovernedCall

A call goes through layers, outermost first: `withAssembly`, the LangChain tool
wrapper, the AI SDK's governed execute, and the tools governed by the OpenAI
Agents hooks.  A layer asks the gateway and then calls what it wrapped, so
`Proceed` enters the next layer or the tool.  The layers differ in what their
code differs in: only `withAssembly` awaits op control and hands a denial to the
audit sink; the OpenAI hooks return a denial as the tool's output where the
others throw; only `withAssembly` and the LangChain wrapper race the approval
against a timer of their own (`Races`), the hooks pass `timeoutMs` on and wait;
and the hooks report the result without awaiting it (`ToolReturns`), so that
a rejected report changes nothing and one that throws at once fails the call.

A tool may be passed to `withAssembly` twice, and then each of the two layers
waits on the op by itself: the waits are named `<<call, layer>>` (`Gates`, for up
to `Depth` layers).  They are waits of `OpControl` itself, instantiated with
`Gates` as its calls and no timeouts, as `enforceOpControl` passes none.  The
gateway client is whatever the caller injected: it may answer, answer late,
reject or never answer.  `ApprovalTimeout` and `ApprovalAnswered` race; the loser still happens
afterwards and must have no effect, also when the call is in another layer by
then.  `word` is what the gateway had said when each layer went on, and lets the
properties speak about causes.

`Governance` says what all this is for, without layers' kinds, approvals or
audits: the tool starts with the last consent and not before, a layer with a gate
consents only after the kill switch let the call pass there, and a call that was
refused or broke down stays so.  `GovernanceHolds` maps `GovernedCall` to it: a
layer has consented when the call has gone past it, and a call is refused from the
moment the refusal is known, before its audit.

### NativeClient

A session carries the name of the call that opened it, which makes leaks and
mix-ups visible.  `GetHandle` is the memo, `ConnectSettles` / `ConnectFails`
the two handlers of the connect's promise, `Asks` / `Answered` the awaits of a
query or a registration (`RegisterMissing`: the binding is too old to have the
call), `SendEvent` / `SendDeferred` the two ways of an event, and `Close`,
`Disconnect`, `SessionShuts`, `Disconnected` the awaits of close.
`SessionShuts` is apart from `Disconnected`: the binding shuts the session on
its own thread before the promise settles in JavaScript.  A disconnect may also
fail (`ERR_DISCONNECT`, `native/aa-ffi-node/src/lib.rs:203`), before the session
is shut or after.  The `finally` of close then forgets the session either way
(`src/native/client.ts:366`), and nothing can tear it down any more; all that is
left is the error, which close throws in place of a stashed one.  So what the
properties ask is that this is the only way to lose a live session and that the
close's caller was told (`TeardownFailed`).

### Verdict and InitAssembly

`Verdict` translates, function by function, what becomes of the runtime's reply
under both postures.  `InitAssembly` starts in every configuration (mode,
posture, own client or not, tools to wrap or not, and which binding loads),
runs the guards, `Register` ... `ApplyFrameworkPatches` up to `running`, and
then lets tools check, events go out and `shutdown` run in every order.  Every
action of the native client that nobody else composes is `NativeStep`.

### HookPatch

`slot` is the sequence of wrappers on the hook point, outermost first, so
stacking is a length.  The hook is one of the three governing hook points
(`getAllTools` and `_runTool` of openai-agents, `tool` of the AI SDK) or of the
two lineage ones (`generate` of mastra, `compile` of langgraph); the governing
ones remember the first original they saw, the lineage ones
capture what is there.  The hook point may be writable, frozen (an ES module
namespace of `ai`) or gone.  `TurnStarts` / `TurnEnds` are the two halves of
`patchedGetAllTools`.

### Assemblies

Each init is an `initAssembly` or a direct `patchX` of the application.  An
assembly takes the steps of its boot that touch what the inits share: it reads
its parent from the agent context (`Enters`), puts its handler into the caller's
langchain object and its wrapper on the object's tools (`RegistersHandler`,
`WrapsTools`), patches one framework through `HookPatch`'s actions, and returns
with the lists of active and unpatched adapters (`Returns`).  `Tag` is the agent
in whose context the framework's function runs under a lineage patch: the one of
the innermost wrapper.  The guards, the session and the shutdown of an init are
`InitAssembly`'s and are one rejection here.

### CallbackHandler and GatewayStartup

Both have a clock.  In the handler each entry point first drops expired
denials (`Cleaned`).  In the startup module a timer that is due stops the clock
until it is served, so `due`, `deadline` and the polling loop are exact; the
services change on their own.

### ProtoScalars, ProtoMessages, AuditEncoding, MessageExchange, AuditExchange and Encodings

The generator repeats the same four conversions for every message, so a message
is its table of fields (number, name, JSON name, type) and each conversion one
operator over any table; `Messages`, `Enums` and `PolicyService` are translated
from the generated code.  Encoded bytes are a sequence of items `<<number, wire
type, content>>`.  `Number` is JavaScript's: past the safe integers doubles are 2, 4,
... 2048 apart, and a 64-bit number becomes the nearest, of two as near the even
one.  In binary `longToNumber` checks the range after the rounding and throws;
`fromJSON` calls `Number` and checks nothing (`src/proto/generated/policy.ts:1627`,
`src/proto/generated/common.ts:363`), so a number no double holds is rounded
without an error.  `toJSON` writes an object of this program, whose numbers are
doubles already (`AreObjects`); the other style of JSON has any 64-bit digits.

A message that holds others is a tree of any depth, and so is the call stack of an
audit event.  The code goes down every nested field and every list and converts each
message, or node, alike.  So its parts have names: a field that holds a message has
the name of the part, a list of messages a list of names, the conversions map the
parts by name and leave the names in the fields (`EncodeParts`, `DecodeParts`,
`PartsToJSON`, `PartsFromJSON`).  One part that makes `decode` throw makes the whole
throw, and a required field missing from any node refuses the audit event.

In `Encodings` a writer encodes what it holds, a peer of another version may change
it on the way, and a reader decodes it.  The changes to a binary message, in the
whole or in any part, are an unknown field, a known number with another wire type,
another order (`MessageExchange`).  Those to an audit event are `null`, another type
or an empty value where nothing is set, a label that is no string, or a missing
required field (`AuditExchange`).

## 3. Runs

All bounds are in the `MC*` modules and the `.cfg` files.

| Run | Instance | Distinct states | Shows |
|---|---|---|---|
| `OpControl` | 2 ops, 3 calls: two share an op, one of those is timed | 10,660 | queue exactness, no lost wakeup, causes of wakeups, timers, orphaned waits, refinement of `KillSwitch` with its liveness (TERMINATE rejects its waiters) |
| `GovernedCall` | 2 calls, one tracked, 5 stackings of up to two layers | 114,691 | runs only on every layer's yes, denials audited and surviving, the outcome told, the kill switch at every gate, bounded approval, refinement of `Governance` |
| `NativeClient` | a query, a registration, an event, 2 closes that do not overlap | 117,726 | sessions, memo, stash, teardown, settling |
| `InitAssembly` | 1 check, 1 audit event, all replies and configurations | 426,992 | verdicts, registration, teardown, settling |
| `Assemblies` | 3 assemblies or direct patches, 1 langchain object, 2 tools, 2 turns, all hooks | 2,346,388 with symmetry | stacking, truth of the patch state, unpatching, reported adapters, lineage |
| `Encodings` | every message type, 2 fields set and 1 in a nested message, lists of up to 2, audit events with two levels of call stack; one change on the way | 688,452 | binary, JSON and audit round trips |
| `CallbackHandler` | 3 runs, age 2, clock to 5 | 86,088 with symmetry | audit, liveness of pending denials |
| `GatewayStartup` | 2 inits, timeout 4, probe 2, poll 1, clock to 12 | 2,229,520 | outcomes, deadline |

Four runs each show one statement of the repository's comments refuted:

- `PauseAcrossStreamDeath`: a paused call is released, and may run its tool,
  when the stream dies.  The comment says it blocks until the gateway resumes
  or terminates the op.
- `OverlappingCloses`: the second of two overlapping closes forgets a session
  that another call opened in between; it stays up and cannot be closed.
- `ShutdownRejected`: when the connect fails on a local fault (the binding's
  thread cannot start), the topology event stashes a connect error, which
  `shutdown` does not swallow.
- `RefusedAfterRegistering`: a patch that refuses under a fail-closed posture
  rejects `initAssembly` after the agent was registered, with the session open
  and no context to shut it down with.  The comment says it throws rather than
  register ungoverned.

Four more disagreements were met while modelling and have no run of their own:

- of two overlapping inits the second replaces the first's configuration of a
  governing hook, since `isPatched` is not read again after the `await`
  (`Installs`); the warning at `src/hooks/openai-agents.ts:485` says that the
  first configuration stays in effect;
- the comments on `patchConfigSignature` (`src/hooks/openai-agents.ts:53`, and the
  same in `ai-sdk.ts:65`, `mastra.ts:27` and `langgraph.ts:23`) say that it is of the
  first successful patch; in such an overlap it becomes the later install's, which
  on a governing hook is the configuration in effect (`SignatureInEffect`).  On a
  lineage hook the signature is then the outermost wrapper's and the agent in
  effect the innermost's (`FirstAgentStays`), and neither is what the comment
  says of a re-init's warning;
- a binding without `register` resolves to an empty token, and the context says
  that the agent is registered (`src/core/init-assembly.ts:841`); hence the
  condition in `RegisteredWasAccepted`;
- the protocol describes the `sequence` of an op-control message as what the
  SDK uses to drop duplicates (`src/proto/generated/policy.ts:232`), and the
  subscriber never reads it.

Why the bounds are enough to be of use.  Each instance holds the smallest set
of actors in which every race listed under the hazards happens: two waiters on
one op beside one on another (misdirected wakeups need three), two closes with
a sender and a query (a leak needs a close, a reconnect and a second close),
two overlapping inits and a third that patches again after an unpatch or is
started inside the framework the others patched.  In `GovernedCall` a layer
talks only to its neighbours, and the stackings hold one of each kind that the
code can produce.  In `Encodings` a conversion treats each field on
its own, so two fields beside each other show that none disturbs another, and a
nested message or a list of two that depth and repetition change nothing (the
proofs say it for any number of fields, any depth and any number of changes).
`MCSentMessages` builds the messages type by type and names each part by the way
to it.
`MaxSafeInteger` is 15 there, so that both gaps and ties of the rounding happen within
a few numbers.  Calls
of one kind behave alike, so a second query adds no state that a query beside a
registration lacks.  The callback handler's clock runs past every deadline that can be set; that of
the startup reaches the first moment at which an init that started at 0 or 1 would
be overdue, and follows one that started later only so far.  Every
action and every disjunct fires in some passing run, and each checked property
has a mutant of a mapped definition that TLC finds to break it; the mutants
are defined right before the definition they change.

Fairness.  `OpControl`: continuations run, and due timers fire; both are what
Node's event loop does.  No signal, answer or stream event is fair.
`GovernedCall` adds the approval's timer; answers of the gateway and of its
audit sink are not fair, so nothing is claimed of a gateway that never
answers a check, nor of an approval that a hook awaits without a timer.  `NativeClient`: continuations run; a query is answered or
fails open, as the binding's comment says it does within 5 seconds; and
connect, register and disconnect are assumed to settle.  The last is an
assumption about the runtime's client library, which is not in the repository:
no code here sets a timeout on those three, so `CallsSettle`
and `LifecycleSettles` say that the SDK adds no hang of its own, not that a
hung binding is survived.
`InitAssembly` takes the same for the boot and shutdown and nothing for tools
and the application, which need never call.  The other modules have safety
properties only.

Deadlock.  `CHECK_DEADLOCK FALSE` is set where the system really may stop: the
calls of an instance are made once each and the clocks are bounded.  It stays
on for op control and governed calls, where `close` can always be called.

## 4. Proofs

All theorems are of the specification without its fairness (safety), for any
sets of calls, ops, inits, runs and tools, from the named assumptions on the
constants.

- `OpControlProofs`.  The inductive invariant is `TypeOK`, `BlockedIffQueued`,
  `NoLostWakeup` and `TimerOutlivesWait` together: `NoLostWakeup` needs to know
  that a flush reaches every blocked call of its op, which is
  `BlockedIffQueued`.  `FlushWakesBlocked` says once what a flush does, and
  `FlushKeepsInvariant` serves signals, stream death and close.  From it come
  `WakesHaveCause` and the step-by-step implementation of `KillSwitch`'s safety
  part.  `OrphanedWaitNeedsClose` needs one fact more (`OrphanInv`): there is no
  stream while its channel is importing, so no failing import can flush after
  the stream's end.
- `NativeClientProofs`.  `LiveSessionIsHeld` is not inductive: a close's
  `finally` forgets whatever is memoized, so one must know that a close under
  way owns the memoized session (`CloseOwnsSession`), that a connect in flight is
  the memoized one (`ConnectIsHeld`) and that promises in use were started
  (`PromisesAreStarted`).  A step that lets go of a live session is then a close
  that settles in an error of its own, since it had thrown none before
  (`NothingThrownYet`, `LettingGoIsTold`), and what it said stays said
  (`SettledStays`).  The theorems about sessions assume
  `SerialCloses`; without it they are false, as `OverlappingCloses` shows.
  `ClosesTearDown` is of one close's own session and needs no such assumption.
  Those about errors do not: `ErrorsAreFromSends` (an error in hand comes from a
  send that is over, so its name is not made again) and `ErrorInOneHand`
  strengthen `ErrorThrownOnce`.
- `NothingIsStuck` and `NothingGoesBack` (also in `NativeClientProofs`) are the
  safe part of "everything settles": a call that has begun and not settled always
  has something under way that moves it (`HasNext`), and no call or session ever
  goes back, so that each call is over after three steps of its own.  What is left
  to fairness is that these steps are taken.  Neither needs `SerialCloses`; they
  rest on `StartedInv`: a promise that is memoized or awaited was started.
- `InitAssemblyProofs`.  Three lemmas about the pure verdict chain
  (`EnforceDecides`, `AdvisoryDecides`, `FaultDecides`) say exactly when it
  permits, and an invariant ties each tool's outcome to the reply it was
  given and the posture to the client; `VerdictsAreFollowed` comes from both.
  `AssemblyUsesClient`: every step of the assembly is a step of `NativeClient` or
  leaves it alone, so the session invariant of `NativeClientProofs` holds under
  it (`NextClient`; the closes of one assembly never overlap).  `TearsDown` then
  follows the boot's sessions: one that is up is the memoized one when the first
  close begins, so that close takes it and settles with it down or throws that its
  teardown failed, and only the boot's own calls could open it again
  (`WhoMakesCalls`).  `Registering` ties the
  registration to its stage.  `LifeIsNeverStuck` is the safe part of
  `LifecycleSettles`: `Awaits` says that the call a stage waits for was made, and
  `NativeClientProofs` that a call that was made has a step to come.
- `GovernedCallProofs`.  The invariant has four parts per call: the layers it has
  passed said yes and those it has not reached nothing (`Answers`), the tool runs
  after the innermost yes (`Runs`), its results are reported once it returned
  (`Results`), and a layer that refuses hands its denial over and stays
  (`Denials`).  A step of one call leaves the others alone (`UntouchedKeeps`).
  `GateIsOpControl` shows the gates to be `OpControl` with untimed waits, so
  `NoCallMissesItsSignal` carries `NoLostWakeup` over to the governed calls.
  `GatesHold` ties each call to its gates: none begins its wait before the call
  gets there, and a call that is past a gate was let through.  With it
  `WrappersGovern` maps every step to one of `Governance` or a stutter, one case
  per action (`CallsAsPromised`, `SwitchAsPromised`).  `PausesHoldWhileStreamLives`
  says what is left of the comment that `PauseAcrossStreamDeath` refutes: while
  the stream lives a pause holds every call until RESUME, TERMINATE or `close`.
- `CallbackHandlerProofs`.  `PendingIsLive` and `AuditMatchesVerdict` follow
  from an invariant with a part for each stage of a run: before its check, from
  the verdict to the end, and what may have been forgotten is old
  (`CleanupForgetsExpired`).
- `AssembliesProofs`.  First of `HookPatch` alone: the governing hooks' remembered
  original is never a wrapper; with that the slot holds one wrapper while patched
  and none otherwise, whose configuration is the recorded signature
  (`SignatureTellsEffect`), and a tool has one wrapper exactly if it is in the
  WeakSet.
  `ImplementsHookPatch`: every step of the assemblies is a
  step of `HookPatch` or leaves it alone, so its theorems hold of any number of
  assemblies.  `ActiveIsReachable` and `FirstAgentStays` come from an invariant
  with one part per piece of state: how far boot and patch have got
  (`Progress`), whose handler is where (`Handlers`), that wrappers belong to
  inits whose patch took effect and stay unless the application unpatches
  (`Wrappers`), and that a report stays what it would be now (`Reports`).
  `FirstAgentStays` is inductive beside them, because a lineage hook puts its
  wrapper around what is there (`InstallKeepsTag`).

- `GatewayStartupProofs`.  `Rounds` says how far each round of waitForHealthz may
  get past the deadline: a poll is sent before it, the sleep after a poll and the
  last probe each add a timer.  With `Timers` (a timer that is waited for is not
  over) and `Deadlines` it gives `SettlesInTime` for any timeouts.

- `EncodingsProofs`.  Of the scalars: that rounding keeps what a double holds and
  never crosses the bound of the safe integers (`NumbersAreRounded`), since that
  bound is a multiple of every gap beyond it (`MultiplesPastTheSafeOnes`); with it
  what `longToNumber` does to every 64-bit integer; and that an enumeration's value
  survives JSON or becomes UNRECOGNIZED, because no two names of an enumeration
  are equal (`EnumsAreUnambiguous`).

  Of messages in their binary form: a table is sound if its numbers, names and
  second names tell its fields apart, and each of the sixteen is
  (`TablesAreSound`).  The invariant (`BinaryInv`) says that each part's items
  *carry* the values of each of its fields: there are places among the items, in
  order, with just these values, and no other item is the field's (`Carries`).
  It does not say where the field's items stand, and that is what makes it
  inductive: `Encoded` gives it to the writer's form, by induction over the table;
  a foreign field moves the places up (`OneInserted`) and a swap of two fields'
  items moves one place each (`TwoSwapped`), so any number of changes preserves
  it; and `FieldDecoded` reads it off, by induction over the items: after each
  item the reader has the values whose places it has passed.  `UnsafeThrow` and
  `ObjectDecoded` conclude that `decode` throws exactly where a 64-bit number is
  past the safe integers and else returns the message.  The inductions are over
  sets of numbers (`SetInduction`, from the least element of a set of them), and
  `FlatteningExists` and `DecodingExists` show first that the recursive functions
  exist.

  Of JSON: a field's value is neither missing nor null once written and is read as
  what it was, but for the two things JSON loses (`IsReadAs`, `ValueSurvivesJson`),
  and `fromJSON` finds each field under its own key and no other's
  (`FieldSurvivesJson`).

  Of audit events: the invariant says field by field that the reader would make of
  what stands on the wire what it should (`EventCarries`), and that the reader
  throws exactly if a change took something required away.  `EventIsCarried` gives
  it to the writer's form, a lemma per kind of change preserves it (`TraceDiffers`
  ... `NodeDiffers`, `RequiredThrows`), and `CarriedIsRead` reads it off.

  No induction over depth is needed, since parts and nodes are converted by name.
  Assumed are only that the markers are told from data: what is thrown is no
  number (`ThrewAssumption`), and `undefined` and `null` are no values
  (`JsonAssumption`, `MarkersAssumption`).

Every safety property of the passing runs is proved.  Only model-checked are the
liveness properties (`TimedWaitSettles`, the liveness half of `KillSwitchHolds`,
`TerminateRejectsCall`, `ApprovalIsBounded`, `CallsSettle`, `LifecycleSettles`):
liveness under fairness and `ENABLED` are out of the prover's reach.  Of the last
two the safe part is proved (see `NothingIsStuck`).

Proved only, and no question of a run: `TimerOutlivesWait` and `ActiveIsHeld`,
facts the invariants rest on; `GatesHold` and `PauseHoldsWhileAlive`; and
`NoCallIsStuck`, `CallsAdvance` and `LifeGoesOn`.

## 5. Assumptions and what is left out

- Run ids are unique and a run's start handler settles before its end handler
  is called (LangChain's contract).  Timers fire on time in `GatewayStartup`,
  and clocks never run backwards.
- In `InitAssembly` the application calls `shutdown` once, so its closes do
  not overlap; the tools of a caller-supplied gateway client are not followed,
  since its verdicts are the caller's.
- In `Assemblies` one framework stands for those an init detects: what
  `initAssembly` does with a second one repeats what it does with the first, and
  the patches share no state.  A tool made by the AI SDK's factory keeps the
  agent it was made under; calls of such tools are not followed as parents.
- Of the generated code: the bytes of a scalar, the groups of proto2, which
  no writer emits, `fromPartial` (a copy with defaults), `RiskTier`, which no
  message has, and the client's constructor.  JSON's text is the runtime's.
- A sidecar that cannot be spawned reports it by an event in the models; that
  `openSync` or `spawn` throw at once (`src/runtime.ts`) is not modelled, and no property rests
  on it.
- What a hook does with a verdict is `GovernedCall`'s, over any gateway client.  When
  the mode gives `initAssembly` only the allow-all no-op client, it throws under a
  fail-closed posture if it was given tools to wrap, but for the hooks of
  auto-detected frameworks it only warns (`src/core/init-assembly.ts:567`), so
  their tools run ungoverned: `VerdictsDecide` is of the wrapped LangChain tools.
- Left out: texts, warnings and logs, validation of configuration fields,
  channel credentials, argument parsing, framework detection, path checks of
  the binary beyond trusted or not, the precedence chain of the gateway's URL
  (one Boolean) and of the API key, and the components marked not modelled.
- Other libraries that patch the same method are not modelled.

## 6. Plan

Done, in this order: op control with its abstract specification; wrapped calls
over it; the native client; verdicts; the lifecycle over both; hooks; callback
handler; startup; the encodings; several assemblies in one process; the proofs of
all of these; the abstract promise of governance, and that the wrappers keep it;
the safe part of settling; audit events and messages of any depth.

Left: in the model, the credentials of the op-control channel and the precedence of
URL and API key, which has no effects; of the proofs, that a startup or a governed
call has a step to take while it waits, as `NothingIsStuck` says of the native client.
