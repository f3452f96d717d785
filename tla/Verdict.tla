------------------------------- MODULE Verdict -------------------------------
(***************************************************************************)
(* How an answer of the runtime becomes a decision about a tool: the       *)
(* binding's query_policy (native/aa-ffi-node/core), the native client's   *)
(* mapDecisionToPolicyResult, and the native gateway client's check and    *)
(* waitForApproval (src/gateway/client.ts).  Reasons matter only where     *)
(* they decide: the fail-open reason is told apart from every other.       *)
(*                                                                         *)
(* JavaScript values whose type the code distrusts are strings here:       *)
(* "true", "false", and anything else for a value that is no boolean.      *)
(***************************************************************************)
EXTENDS Integers

\* enum Decision of the protocol.
Unspecified == 0
Allow == 1
Deny == 2
Pending == 3
Redact == 4

FailOpen == "aa-runtime unreachable or slow"
OtherReason == "other"

\* What AssemblyClient::query_policy gives the shim: a response whose decision
\* may be any integer, no answer in time, a closed channel, or a local fault.
Reply(decision, reason) == [kind |-> "reply", decision |-> decision, reason |-> reason]
NoReply(kind) == [kind |-> kind, decision |-> Unspecified, reason |-> OtherReason]
Unanswered == {"QueryFailed", "ChannelClosed", "Shutdown"}

-----------------------------------------------------------------------------
\* decision_to_str: an unknown discriminant reads as unspecified.
decision_to_str(value) ==
  IF value = Allow THEN "allow"
  ELSE IF value = Deny THEN "deny"
  ELSE IF value = Pending THEN "pending"
  ELSE IF value = Redact THEN "redact"
  ELSE ""

\* query_policy of the binding, unless a local fault makes it an error.
QueryFaults(answer) == answer.kind \notin Unanswered \cup {"reply"}

query_policy(answer) ==
  IF answer.kind \in Unanswered
    THEN [decision |-> "allow", reason |-> FailOpen]
    ELSE [decision |-> decision_to_str(answer.decision), reason |-> answer.reason]

\* Mutant: a fail-open allow counts as the runtime's own.
Authoritative_Decision(verdict) == verdict.decision = "allow"

\* An allow the runtime itself gave.
Authoritative(verdict) == verdict.decision = "allow" /\ verdict.reason # FailOpen

mapDecisionToPolicyResult(verdict, failClosed) ==
  [denied |->
     \/ verdict.decision = "deny"
     \/ failClosed /\ verdict.decision # "pending" /\ ~Authoritative(verdict),
   pending |-> verdict.decision = "pending"]

-----------------------------------------------------------------------------
\* resolveVerdict: a verdict without a recognizable signal is no verdict.
resolveVerdict(raw, failClosed) ==
  IF raw.denied \in {"true", "false"} \/ raw.pending \in {"true", "false"}
    THEN [denied |-> raw.denied = "true", pending |-> raw.pending = "true"]
    ELSE [denied |-> failClosed, pending |-> FALSE]

Signal(flag) == IF flag THEN "true" ELSE "false"
AsRaw(result) == [denied |-> Signal(result.denied), pending |-> Signal(result.pending)]

\* check when queryPolicy throws: connect error, stashed send error, local fault.
CheckFaulted(failClosed) == [denied |-> failClosed, pending |-> FALSE]

check(answer, failClosed) ==
  IF QueryFaults(answer)
    THEN CheckFaulted(failClosed)
    ELSE resolveVerdict(
           AsRaw(mapDecisionToPolicyResult(query_policy(answer), failClosed)), failClosed)

\* waitForApproval: no approval channel is wired, so the posture decides.
ApprovalDenied(failClosed) ==
  resolveVerdict([denied |-> Signal(failClosed), pending |-> "absent"], failClosed).denied

\* The wrapper lets the tool run on this decision.
Runs(decision, failClosed) ==
  ~decision.denied /\ (decision.pending => ~ApprovalDenied(failClosed))
=============================================================================
