---------------------------- MODULE CallbackHandler ----------------------------
(***************************************************************************)
(* The audit-only LangChain callback handler                               *)
(* (src/adapters/langchain/assembly-callback-handler.ts): a denial seen    *)
(* when a tool starts is remembered by run id until the tool ends, so that *)
(* a tool which ran all the same is audited as a post-block.  Every        *)
(* handler first drops the denials that have grown too old.                *)
(*                                                                         *)
(* LangChain gives every tool call a run id of its own, starts a run once, *)
(* and calls handleToolEnd only after handleToolStart has settled and only *)
(* for a tool that did not throw.                                          *)
(***************************************************************************)
EXTENDS Integers

CONSTANTS
  Runs,     \* run ids of tool calls
  MaxAge,   \* pendingDenialMaxAgeMs, in ticks
  MaxNow,   \* bound of the clock
  None

ASSUME AgeAssumption == MaxAge \in Nat /\ MaxNow \in Nat
ASSUME NoneAssumption == None \notin Int

VARIABLES
  now,             \* the handler's clock
  pendingDenials,  \* run id -> when its denial was noted, or None
  at,              \* how far each run's handlers have got
  denied,          \* when the gateway denied the run, or None
  ended,           \* when handleToolEnd ran for it, or None
  audit            \* what was handed to the gateway about the run

vars == <<now, pendingDenials, at, denied, ended, audit>>

Times == 0..MaxNow

TypeOK ==
  /\ now \in Times
  /\ pendingDenials \in [Runs -> Times \cup {None}]
  /\ at \in [Runs -> {"idle", "checking", "recording", "running", "over"}]
  /\ denied \in [Runs -> Times \cup {None}]
  /\ ended \in [Runs -> Times \cup {None}]
  /\ audit \in [Runs -> SUBSET {"tool_start_check", "policy_post_block", "result"}]

Init ==
  /\ now = 0
  /\ pendingDenials = [r \in Runs |-> None]
  /\ at = [r \in Runs |-> "idle"]
  /\ denied = [r \in Runs |-> None]
  /\ ended = [r \in Runs |-> None]
  /\ audit = [r \in Runs |-> {}]

-----------------------------------------------------------------------------
\* Mutant: a denial of exactly the maximal age is kept.
Expired_Later(at0) == now - at0 > MaxAge

Expired(at0) == now - at0 >= MaxAge

\* cleanupExpiredPendingDenials, the first step of every handler.
Cleaned ==
  [r \in Runs |->
     IF pendingDenials[r] # None /\ Expired(pendingDenials[r]) THEN None
     ELSE pendingDenials[r]]

Settles(r, place) == at' = [at EXCEPT ![r] = place]
Audits(r, action) == audit' = [audit EXCEPT ![r] = @ \cup {action}]

Tick ==
  /\ now < MaxNow
  /\ now' = now + 1
  /\ UNCHANGED <<pendingDenials, at, denied, ended, audit>>

\* handleToolStart up to its check.
HandleToolStart(r) ==
  /\ at[r] = "idle"
  /\ pendingDenials' = Cleaned
  /\ Settles(r, "checking")
  /\ UNCHANGED <<now, denied, ended, audit>>

\* Mutant: the moment the denial expires is stored for the moment it was made.
DenialTime_Expiry == now + MaxAge

DenialTime == now

\* The verdict: a denial is noted before the record that may fail is sent.
CheckAnswered(r) ==
  /\ at[r] = "checking"
  /\ \/ /\ pendingDenials' = [pendingDenials EXCEPT ![r] = DenialTime]
        /\ denied' = [denied EXCEPT ![r] = now]
     \/ UNCHANGED <<pendingDenials, denied>>
  /\ Audits(r, "tool_start_check")
  /\ Settles(r, "recording")
  /\ UNCHANGED <<now, ended>>

\* The check rejects: LangChain logs the handler's error and runs the tool.
CheckThrows(r) ==
  /\ at[r] = "checking"
  /\ Settles(r, "running")
  /\ UNCHANGED <<now, pendingDenials, denied, ended, audit>>

\* The record resolves or rejects; nothing else depends on it.
RecordSettles(r) ==
  /\ at[r] = "recording"
  /\ Settles(r, "running")
  /\ UNCHANGED <<now, pendingDenials, denied, ended, audit>>

\* Mutant: the denial is not deleted.
AfterEnd_Kept(r) == Cleaned

AfterEnd(r) == [Cleaned EXCEPT ![r] = None]

\* handleToolEnd: post-block or plain result.
HandleToolEnd(r) ==
  /\ at[r] = "running"
  /\ pendingDenials' = AfterEnd(r)
  /\ Audits(r, IF Cleaned[r] # None THEN "policy_post_block" ELSE "result")
  /\ ended' = [ended EXCEPT ![r] = now]
  /\ Settles(r, "over")
  /\ UNCHANGED <<now, denied>>

\* The tool throws: the handler has no handleToolError.
ToolFails(r) ==
  /\ at[r] = "running"
  /\ Settles(r, "over")
  /\ UNCHANGED <<now, pendingDenials, denied, ended, audit>>

\* handleLLMStart and handleLLMEnd.
HandleLLM ==
  /\ pendingDenials' = Cleaned
  /\ UNCHANGED <<now, at, denied, ended, audit>>

Next ==
  \/ Tick
  \/ \E r \in Runs : HandleToolStart(r)
  \/ \E r \in Runs : CheckAnswered(r)
  \/ \E r \in Runs : CheckThrows(r)
  \/ \E r \in Runs : RecordSettles(r)
  \/ \E r \in Runs : HandleToolEnd(r)
  \/ \E r \in Runs : ToolFails(r)
  \/ HandleLLM

Spec == Init /\ [][Next]_vars

-----------------------------------------------------------------------------
(* Properties.                                                             *)

\* A tool that ran to its end is audited once: as a post-block exactly when it
\* was denied less than the maximal age ago, however other runs and their
\* cleanups interleave and whether or not its start was recorded.
AuditMatchesVerdict ==
  \A r \in Runs :
    IF ended[r] = None THEN audit[r] \subseteq {"tool_start_check"}
    ELSE /\ "policy_post_block" \in audit[r]
              <=> denied[r] # None /\ ended[r] - denied[r] < MaxAge
         /\ "result" \in audit[r] <=> "policy_post_block" \notin audit[r]

\* A remembered denial is one the gateway gave, at that time, and handleToolEnd
\* has not run for it: nothing of a run that was audited can be taken for a later
\* one's.  A tool that throws never comes to handleToolEnd.
PendingIsLive ==
  \A r \in Runs :
    pendingDenials[r] # None => denied[r] = pendingDenials[r] /\ ended[r] = None
=============================================================================
