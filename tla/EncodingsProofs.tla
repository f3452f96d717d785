--------------------------- MODULE EncodingsProofs ---------------------------
(***************************************************************************)
(* What one side writes the other reads, for every value: a 64-bit number  *)
(* and an enumeration's (ProtoScalars); a message of the policy service    *)
(* with messages in it to any depth, in its binary form with any number of *)
(* fields of other versions added and moved on the way, and as JSON        *)
(* (MessageExchange); and an audit event with a call stack of any depth,   *)
(* which is read as it was sent or refused as a whole (AuditExchange).     *)
(***************************************************************************)
EXTENDS Encodings, SequenceTheorems, WellFoundedInduction, TLAPS

-----------------------------------------------------------------------------
(* Scalars.                                                                *)

\* A 64-bit integer lies between two doubles.
LEMMA GapIsFound ==
  ASSUME NEW n \in Bits64
  PROVE  /\ n \in Int /\ Gap(n) \in Gaps /\ n \in Within(Gap(n))
         /\ Gap(n) > 1 => n \notin Within(Gap(n) \div 2)
<1> DEFINE Fits(gap) == n \in Within(gap) /\ (gap > 1 => n \notin Within(gap \div 2))
<1>1. MaxSafeInteger \in Nat
  BY MaxSafeAssumption
<1>2. n \in Int
  BY <1>1 DEF Within, Bits64
<1>3. \E gap \in Gaps : Fits(gap)
  BY <1>1 DEF Gaps, Within, Bits64
<1>4. Gap(n) = CHOOSE gap \in Gaps : Fits(gap)
  BY DEF Gap
<1>5. Gap(n) \in Gaps /\ Fits(Gap(n))
  <2> HIDE DEF Fits
  <2> QED
    BY <1>3, <1>4
<1> QED
  BY <1>2, <1>5

\* The doubles on either side of an unsafe integer are unsafe.
LEMMA MultiplesPastTheSafeOnes ==
  ASSUME NEW g \in Gaps, g > 1, NEW n \in Int, n \notin Within(g \div 2)
  PROVE  /\ n - (n % g) \notin SafeIntegers
         /\ n % g # 0 => n - (n % g) + g \notin SafeIntegers
<1>1. MaxSafeInteger \in Nat /\ MaxSafeInteger % 4 = 3
  BY MaxSafeAssumption
<1> QED
  BY <1>1 DEF Within, Gaps, SafeIntegers

\* Number keeps what a double holds, and which integers are safe.
LEMMA NumbersAreRounded ==
  ASSUME NEW n \in Bits64
  PROVE  /\ n \in Int /\ Number(n) \in Int
         /\ n \in SafeIntegers => IsDouble(n)
         /\ IsDouble(n) => Number(n) = n
         /\ Number(n) \in SafeIntegers <=> n \in SafeIntegers
<1> DEFINE g == Gap(n)
<1>1. /\ n \in Int /\ g \in Gaps /\ n \in Within(g)
      /\ g > 1 => n \notin Within(g \div 2)
  BY GapIsFound
<1>2. g \in Nat \ {0} /\ n % g \in 0 .. g - 1
  BY <1>1 DEF Gaps
<1>3. /\ n % g = 0 => Number(n) = n
      /\ n % g # 0 => Number(n) \in {n - (n % g), n - (n % g) + g}
  <2> HIDE DEF g
  <2> QED
    BY <1>1, <1>2 DEF Number, g
<1>4. CASE g = 1
  <2>1. Number(n) = n
    BY <1>1, <1>3, <1>4
  <2>2. n \in SafeIntegers
    BY <1>1, <1>4, MaxSafeAssumption DEF Within, SafeIntegers
  <2>3. IsDouble(n)
    BY <1>1, <1>4 DEF IsDouble
  <2> QED
    BY <1>1, <2>1, <2>2, <2>3
<1>5. CASE g > 1
  <2>1. n \notin SafeIntegers
    BY <1>1, <1>5, MaxSafeAssumption DEF Within, SafeIntegers, Gaps
  <2>2. /\ n - (n % g) \notin SafeIntegers
        /\ n % g # 0 => n - (n % g) + g \notin SafeIntegers
    BY <1>1, <1>5, MultiplesPastTheSafeOnes
  <2>3. IsDouble(n) <=> n % g = 0
    BY DEF IsDouble
  <2> HIDE DEF g
  <2> QED
    BY <1>1, <1>2, <1>3, <2>1, <2>2, <2>3
<1> QED
  BY <1>2, <1>4, <1>5

\* A safe integer is read as it was sent, and every other 64-bit integer makes
\* longToNumber throw: rounding never lets a wrong number through (policy.ts
\* longToNumber).
THEOREM NumbersAreExactOrRefused ==
  \A n \in Bits64 : longToNumber(n) = IF n \in SafeIntegers THEN n ELSE Threw
BY NumbersAreRounded, MaxSafeAssumption DEF longToNumber, SafeIntegers, Bits64

Unambiguous(names) ==
  /\ Len(names) \in Nat \ {0} /\ DOMAIN names = 1 .. Len(names)
  /\ \A i, j \in DOMAIN names : names[i] = names[j] => i = j
  /\ \A i \in DOMAIN names : names[i] # "UNRECOGNIZED"

LEMMA EnumsAreUnambiguous ==
  ASSUME NEW e \in DOMAIN Enums
  PROVE  Unambiguous(Enums[e])
<1>1. Unambiguous(Decision)
  <2>1. Len(Decision) = 5 /\ DOMAIN Decision = 1 .. 5
    BY DEF Decision
  <2>2. /\ Decision[1] = "DECISION_UNSPECIFIED"
         /\ Decision[2] = "ALLOW"
         /\ Decision[3] = "DENY"
         /\ Decision[4] = "PENDING"
         /\ Decision[5] = "REDACT"
    BY DEF Decision
  <2> QED
    BY <2>1, <2>2 DEF Unambiguous
<1>2. Unambiguous(ActionType)
  <2>1. Len(ActionType) = 7 /\ DOMAIN ActionType = 1 .. 7
    BY DEF ActionType
  <2>2. /\ ActionType[1] = "ACTION_UNSPECIFIED"
         /\ ActionType[2] = "LLM_CALL"
         /\ ActionType[3] = "TOOL_CALL"
         /\ ActionType[4] = "FILE_OPERATION"
         /\ ActionType[5] = "NETWORK_CALL"
         /\ ActionType[6] = "PROCESS_EXEC"
         /\ ActionType[7] = "AGENT_SPAWN"
    BY DEF ActionType
  <2> QED
    BY <2>1, <2>2 DEF Unambiguous
<1>3. Unambiguous(OpControlSignal)
  <2>1. Len(OpControlSignal) = 4 /\ DOMAIN OpControlSignal = 1 .. 4
    BY DEF OpControlSignal
  <2>2. /\ OpControlSignal[1] = "OP_CONTROL_SIGNAL_UNSPECIFIED"
         /\ OpControlSignal[2] = "OP_CONTROL_SIGNAL_PAUSE"
         /\ OpControlSignal[3] = "OP_CONTROL_SIGNAL_RESUME"
         /\ OpControlSignal[4] = "OP_CONTROL_SIGNAL_TERMINATE"
    BY DEF OpControlSignal
  <2> QED
    BY <2>1, <2>2 DEF Unambiguous
<1> QED
  BY <1>1, <1>2, <1>3 DEF Enums

Known(names, n) == n \in 0 .. Len(names) - 1

\* An enumeration's value survives JSON, as its name or as a number, and a
\* value that is not known here becomes UNRECOGNIZED: no text of another
\* version of the protocol turns into a known decision, action or signal
\* (policy.ts decisionFromJSON, actionTypeFromJSON, opControlSignalFromJSON).
THEOREM EnumsSurviveJson ==
  \A e \in DOMAIN Enums, n \in Int :
    /\ EnumFromJSON(Enums[e], <<"name", EnumToJSON(Enums[e], n)>>) =
         IF Known(Enums[e], n) THEN n ELSE -1
    /\ EnumFromJSON(Enums[e], <<"number", n>>) = IF Known(Enums[e], n) THEN n ELSE -1
<1> SUFFICES ASSUME NEW e \in DOMAIN Enums, NEW n \in Int
             PROVE  /\ EnumFromJSON(Enums[e], <<"name", EnumToJSON(Enums[e], n)>>) =
                         IF Known(Enums[e], n) THEN n ELSE -1
                    /\ EnumFromJSON(Enums[e], <<"number", n>>) =
                         IF Known(Enums[e], n) THEN n ELSE -1
  OBVIOUS
<1> DEFINE names == Enums[e]
<1>1. Unambiguous(names)
  BY EnumsAreUnambiguous
<1> HIDE DEF names
<1>2. Known(names, n) <=> n + 1 \in DOMAIN names
  BY <1>1 DEF Known, Unambiguous
<1>3. EnumFromJSON(names, <<"number", n>>) = IF Known(names, n) THEN n ELSE -1
  BY <1>2 DEF EnumFromJSON
<1>4. EnumFromJSON(names, <<"name", EnumToJSON(names, n)>>) = IF Known(names, n) THEN n ELSE -1
  <2>1. CASE Known(names, n)
    <3>1. EnumToJSON(names, n) = names[n + 1] /\ n + 1 \in DOMAIN names
      BY <1>2, <2>1 DEF EnumToJSON
    <3>2. (CHOOSE i \in DOMAIN names : names[i] = names[n + 1]) = n + 1
      BY <1>1, <3>1 DEF Unambiguous
    <3>3. EnumFromJSON(names, <<"name", names[n + 1]>>) =
            (CHOOSE i \in DOMAIN names : names[i] = names[n + 1]) - 1
      BY <3>1 DEF EnumFromJSON
    <3>4. EnumFromJSON(names, <<"name", EnumToJSON(names, n)>>) = (n + 1) - 1
      BY Zenon, <3>1, <3>2, <3>3
    <3>5. (n + 1) - 1 = n
      OBVIOUS
    <3> QED
      BY Zenon, <2>1, <3>4, <3>5
  <2>2. CASE ~Known(names, n)
    <3>1. EnumToJSON(names, n) = "UNRECOGNIZED"
      BY <1>2, <2>2 DEF EnumToJSON
    <3>2. ~\E i \in DOMAIN names : names[i] = "UNRECOGNIZED"
      BY <1>1 DEF Unambiguous
    <3> QED
      BY <2>2, <3>1, <3>2 DEF EnumFromJSON
  <2> QED
    BY <2>1, <2>2
<1> QED
  BY <1>3, <1>4 DEF names
-----------------------------------------------------------------------------
(* The tables of fields: in each the numbers, the names and the second     *)
(* names tell the fields apart.                                            *)

KindNames ==
  {"string", "bytes", "bool", "int32", "int64", "uint64", "enum", "message", "strings", "messages"}

\* Neither name of one field is one of the other's.
Apart(f, g) == f.name # g.name /\ f.key # g.key /\ f.name # g.key

Sound(fs) ==
  /\ Len(fs) \in 1 .. 98 /\ DOMAIN fs = 1 .. Len(fs)
  /\ \A i \in DOMAIN fs : fs[i].no = i
  /\ \A i \in DOMAIN fs : fs[i].kind \in KindNames
  /\ \A i \in DOMAIN fs : fs[i].kind = "enum" => fs[i].of \in DOMAIN Enums
  /\ \A i, j \in DOMAIN fs : i # j => Apart(fs[i], fs[j])

Row(f, kind, no, name, key) ==
  f.kind = kind /\ f.no = no /\ f.name = name /\ f.key = key

\* Table by table.
LEMMA EnumsDomain == DOMAIN Enums = {"Decision", "ActionType", "OpControlSignal"}
BY DEF Enums

LEMMA AgentIdIsSound == Sound(AgentId)
<1>1. Len(AgentId) = 3 /\ DOMAIN AgentId = 1 .. 3
  BY DEF AgentId
<1>2. /\ Row(AgentId[1], "string", 1, "orgId", "org_id")
      /\ Row(AgentId[2], "string", 2, "teamId", "team_id")
      /\ Row(AgentId[3], "string", 3, "agentId", "agent_id")
  BY DEF AgentId, Scalar, Str, Of, Row
<1>3. \A i \in 1 .. 3 : AgentId[i].no = i
  BY <1>2 DEF Row
<1>4. \A i \in 1 .. 3 : AgentId[i].kind \in KindNames
  BY <1>2 DEF KindNames, Row
<1>5. \A i \in 1 .. 3 : AgentId[i].kind = "enum" => AgentId[i].of \in DOMAIN Enums
  BY <1>2 DEF Row
<1>6. \A i, j \in 1 .. 3 : i # j => Apart(AgentId[i], AgentId[j])
  BY <1>2 DEF Apart, Row
<1> QED
  BY <1>1, <1>3, <1>4, <1>5, <1>6 DEF Sound

LEMMA TimestampIsSound == Sound(Timestamp)
<1>1. Len(Timestamp) = 1 /\ DOMAIN Timestamp = 1 .. 1
  BY DEF Timestamp
<1>2. Row(Timestamp[1], "int64", 1, "unixMs", "unix_ms")
  BY DEF Timestamp, Scalar, Str, Of, Row
<1>3. \A i \in 1 .. 1 : Timestamp[i].no = i
  BY <1>2 DEF Row
<1>4. \A i \in 1 .. 1 : Timestamp[i].kind \in KindNames
  BY <1>2 DEF KindNames, Row
<1>5. \A i \in 1 .. 1 : Timestamp[i].kind = "enum" => Timestamp[i].of \in DOMAIN Enums
  BY <1>2 DEF Row
<1>6. \A i, j \in 1 .. 1 : i # j => Apart(Timestamp[i], Timestamp[j])
  BY <1>2 DEF Apart, Row
<1> QED
  BY <1>1, <1>3, <1>4, <1>5, <1>6 DEF Sound

LEMMA CheckActionRequestIsSound == Sound(CheckActionRequest)
<1>1. Len(CheckActionRequest) = 6 /\ DOMAIN CheckActionRequest = 1 .. 6
  BY DEF CheckActionRequest
<1>2. /\ Row(CheckActionRequest[1], "message", 1, "agentId", "agent_id")
      /\ Row(CheckActionRequest[2], "string", 2, "credentialToken", "credential_token")
      /\ Row(CheckActionRequest[3], "string", 3, "traceId", "trace_id")
      /\ Row(CheckActionRequest[4], "string", 4, "spanId", "span_id")
      /\ Row(CheckActionRequest[5], "enum", 5, "actionType", "action_type")
      /\ CheckActionRequest[5].of = "ActionType"
      /\ Row(CheckActionRequest[6], "message", 6, "context", "context")
  BY DEF CheckActionRequest, Scalar, Str, Of, Row
<1>3. \A i \in 1 .. 6 : CheckActionRequest[i].no = i
  BY <1>2 DEF Row
<1>4. \A i \in 1 .. 6 : CheckActionRequest[i].kind \in KindNames
  BY <1>2 DEF KindNames, Row
<1>5. \A i \in 1 .. 6 :
        CheckActionRequest[i].kind = "enum" => CheckActionRequest[i].of \in DOMAIN Enums
  BY <1>2, EnumsDomain DEF Row
<1>6. \A i, j \in 1 .. 6 : i # j => Apart(CheckActionRequest[i], CheckActionRequest[j])
  BY <1>2 DEF Apart, Row
<1> QED
  BY <1>1, <1>3, <1>4, <1>5, <1>6 DEF Sound

LEMMA ActionContextIsSound == Sound(ActionContext)
<1>1. Len(ActionContext) = 5 /\ DOMAIN ActionContext = 1 .. 5
  BY DEF ActionContext
<1>2. /\ Row(ActionContext[1], "message", 1, "llmCall", "llm_call")
      /\ Row(ActionContext[2], "message", 2, "toolCall", "tool_call")
      /\ Row(ActionContext[3], "message", 3, "fileOp", "file_op")
      /\ Row(ActionContext[4], "message", 4, "networkCall", "network_call")
      /\ Row(ActionContext[5], "message", 5, "processExec", "process_exec")
  BY DEF ActionContext, Scalar, Str, Of, Row
<1>3. \A i \in 1 .. 5 : ActionContext[i].no = i
  BY <1>2 DEF Row
<1>4. \A i \in 1 .. 5 : ActionContext[i].kind \in KindNames
  BY <1>2 DEF KindNames, Row
<1>5. \A i \in 1 .. 5 : ActionContext[i].kind = "enum" => ActionContext[i].of \in DOMAIN Enums
  BY <1>2 DEF Row
<1>6. \A i, j \in 1 .. 5 : i # j => Apart(ActionContext[i], ActionContext[j])
  BY <1>2 DEF Apart, Row
<1> QED
  BY <1>1, <1>3, <1>4, <1>5, <1>6 DEF Sound

LEMMA LLMCallContextIsSound == Sound(LLMCallContext)
<1>1. Len(LLMCallContext) = 3 /\ DOMAIN LLMCallContext = 1 .. 3
  BY DEF LLMCallContext
<1>2. /\ Row(LLMCallContext[1], "string", 1, "model", "model")
      /\ Row(LLMCallContext[2], "int32", 2, "promptTokens", "prompt_tokens")
      /\ Row(LLMCallContext[3], "bool", 3, "containsPii", "contains_pii")
  BY DEF LLMCallContext, Scalar, Str, Of, Row
<1>3. \A i \in 1 .. 3 : LLMCallContext[i].no = i
  BY <1>2 DEF Row
<1>4. \A i \in 1 .. 3 : LLMCallContext[i].kind \in KindNames
  BY <1>2 DEF KindNames, Row
<1>5. \A i \in 1 .. 3 : LLMCallContext[i].kind = "enum" => LLMCallContext[i].of \in DOMAIN Enums
  BY <1>2 DEF Row
<1>6. \A i, j \in 1 .. 3 : i # j => Apart(LLMCallContext[i], LLMCallContext[j])
  BY <1>2 DEF Apart, Row
<1> QED
  BY <1>1, <1>3, <1>4, <1>5, <1>6 DEF Sound

LEMMA ToolCallContextIsSound == Sound(ToolCallContext)
<1>1. Len(ToolCallContext) = 4 /\ DOMAIN ToolCallContext = 1 .. 4
  BY DEF ToolCallContext
<1>2. /\ Row(ToolCallContext[1], "string", 1, "toolName", "tool_name")
      /\ Row(ToolCallContext[2], "string", 2, "toolSource", "tool_source")
      /\ Row(ToolCallContext[3], "bytes", 3, "argsJson", "args_json")
      /\ Row(ToolCallContext[4], "string", 4, "targetUrl", "target_url")
  BY DEF ToolCallContext, Scalar, Str, Of, Row
<1>3. \A i \in 1 .. 4 : ToolCallContext[i].no = i
  BY <1>2 DEF Row
<1>4. \A i \in 1 .. 4 : ToolCallContext[i].kind \in KindNames
  BY <1>2 DEF KindNames, Row
<1>5. \A i \in 1 .. 4 :
        ToolCallContext[i].kind = "enum" => ToolCallContext[i].of \in DOMAIN Enums
  BY <1>2 DEF Row
<1>6. \A i, j \in 1 .. 4 : i # j => Apart(ToolCallContext[i], ToolCallContext[j])
  BY <1>2 DEF Apart, Row
<1> QED
  BY <1>1, <1>3, <1>4, <1>5, <1>6 DEF Sound

LEMMA FileOpContextIsSound == Sound(FileOpContext)
<1>1. Len(FileOpContext) = 3 /\ DOMAIN FileOpContext = 1 .. 3
  BY DEF FileOpContext
<1>2. /\ Row(FileOpContext[1], "string", 1, "operation", "operation")
      /\ Row(FileOpContext[2], "string", 2, "path", "path")
      /\ Row(FileOpContext[3], "bool", 3, "isSensitivePath", "is_sensitive_path")
  BY DEF FileOpContext, Scalar, Str, Of, Row
<1>3. \A i \in 1 .. 3 : FileOpContext[i].no = i
  BY <1>2 DEF Row
<1>4. \A i \in 1 .. 3 : FileOpContext[i].kind \in KindNames
  BY <1>2 DEF KindNames, Row
<1>5. \A i \in 1 .. 3 : FileOpContext[i].kind = "enum" => FileOpContext[i].of \in DOMAIN Enums
  BY <1>2 DEF Row
<1>6. \A i, j \in 1 .. 3 : i # j => Apart(FileOpContext[i], FileOpContext[j])
  BY <1>2 DEF Apart, Row
<1> QED
  BY <1>1, <1>3, <1>4, <1>5, <1>6 DEF Sound

LEMMA NetworkCallContextIsSound == Sound(NetworkCallContext)
<1>1. Len(NetworkCallContext) = 4 /\ DOMAIN NetworkCallContext = 1 .. 4
  BY DEF NetworkCallContext
<1>2. /\ Row(NetworkCallContext[1], "string", 1, "host", "host")
      /\ Row(NetworkCallContext[2], "int32", 2, "port", "port")
      /\ Row(NetworkCallContext[3], "string", 3, "protocol", "protocol")
      /\ Row(NetworkCallContext[4], "bool", 4, "inAllowlist", "in_allowlist")
  BY DEF NetworkCallContext, Scalar, Str, Of, Row
<1>3. \A i \in 1 .. 4 : NetworkCallContext[i].no = i
  BY <1>2 DEF Row
<1>4. \A i \in 1 .. 4 : NetworkCallContext[i].kind \in KindNames
  BY <1>2 DEF KindNames, Row
<1>5. \A i \in 1 .. 4 :
        NetworkCallContext[i].kind = "enum" => NetworkCallContext[i].of \in DOMAIN Enums
  BY <1>2 DEF Row
<1>6. \A i, j \in 1 .. 4 : i # j => Apart(NetworkCallContext[i], NetworkCallContext[j])
  BY <1>2 DEF Apart, Row
<1> QED
  BY <1>1, <1>3, <1>4, <1>5, <1>6 DEF Sound

LEMMA ProcessExecContextIsSound == Sound(ProcessExecContext)
<1>1. Len(ProcessExecContext) = 2 /\ DOMAIN ProcessExecContext = 1 .. 2
  BY DEF ProcessExecContext
<1>2. /\ Row(ProcessExecContext[1], "string", 1, "command", "command")
      /\ Row(ProcessExecContext[2], "strings", 2, "args", "args")
  BY DEF ProcessExecContext, Scalar, Str, Of, Row
<1>3. \A i \in 1 .. 2 : ProcessExecContext[i].no = i
  BY <1>2 DEF Row
<1>4. \A i \in 1 .. 2 : ProcessExecContext[i].kind \in KindNames
  BY <1>2 DEF KindNames, Row
<1>5. \A i \in 1 .. 2 :
        ProcessExecContext[i].kind = "enum" => ProcessExecContext[i].of \in DOMAIN Enums
  BY <1>2 DEF Row
<1>6. \A i, j \in 1 .. 2 : i # j => Apart(ProcessExecContext[i], ProcessExecContext[j])
  BY <1>2 DEF Apart, Row
<1> QED
  BY <1>1, <1>3, <1>4, <1>5, <1>6 DEF Sound

LEMMA CheckActionResponseIsSound == Sound(CheckActionResponse)
<1>1. Len(CheckActionResponse) = 6 /\ DOMAIN CheckActionResponse = 1 .. 6
  BY DEF CheckActionResponse
<1>2. /\ Row(CheckActionResponse[1], "enum", 1, "decision", "decision")
      /\ CheckActionResponse[1].of = "Decision"
      /\ Row(CheckActionResponse[2], "string", 2, "reason", "reason")
      /\ Row(CheckActionResponse[3], "string", 3, "policyRule", "policy_rule")
      /\ Row(CheckActionResponse[4], "string", 4, "approvalId", "approval_id")
      /\ Row(CheckActionResponse[5], "message", 5, "redact", "redact")
      /\ Row(CheckActionResponse[6], "int64", 6, "decisionLatencyUs", "decision_latency_us")
  BY DEF CheckActionResponse, Scalar, Str, Of, Row
<1>3. \A i \in 1 .. 6 : CheckActionResponse[i].no = i
  BY <1>2 DEF Row
<1>4. \A i \in 1 .. 6 : CheckActionResponse[i].kind \in KindNames
  BY <1>2 DEF KindNames, Row
<1>5. \A i \in 1 .. 6 :
        CheckActionResponse[i].kind = "enum" => CheckActionResponse[i].of \in DOMAIN Enums
  BY <1>2, EnumsDomain DEF Row
<1>6. \A i, j \in 1 .. 6 : i # j => Apart(CheckActionResponse[i], CheckActionResponse[j])
  BY <1>2 DEF Apart, Row
<1> QED
  BY <1>1, <1>3, <1>4, <1>5, <1>6 DEF Sound

LEMMA RedactInstructionsIsSound == Sound(RedactInstructions)
<1>1. Len(RedactInstructions) = 1 /\ DOMAIN RedactInstructions = 1 .. 1
  BY DEF RedactInstructions
<1>2. Row(RedactInstructions[1], "messages", 1, "rules", "rules")
  BY DEF RedactInstructions, Scalar, Str, Of, Row
<1>3. \A i \in 1 .. 1 : RedactInstructions[i].no = i
  BY <1>2 DEF Row
<1>4. \A i \in 1 .. 1 : RedactInstructions[i].kind \in KindNames
  BY <1>2 DEF KindNames, Row
<1>5. \A i \in 1 .. 1 :
        RedactInstructions[i].kind = "enum" => RedactInstructions[i].of \in DOMAIN Enums
  BY <1>2 DEF Row
<1>6. \A i, j \in 1 .. 1 : i # j => Apart(RedactInstructions[i], RedactInstructions[j])
  BY <1>2 DEF Apart, Row
<1> QED
  BY <1>1, <1>3, <1>4, <1>5, <1>6 DEF Sound

LEMMA RedactRuleIsSound == Sound(RedactRule)
<1>1. Len(RedactRule) = 2 /\ DOMAIN RedactRule = 1 .. 2
  BY DEF RedactRule
<1>2. /\ Row(RedactRule[1], "string", 1, "fieldPath", "field_path")
      /\ Row(RedactRule[2], "string", 2, "replacement", "replacement")
  BY DEF RedactRule, Scalar, Str, Of, Row
<1>3. \A i \in 1 .. 2 : RedactRule[i].no = i
  BY <1>2 DEF Row
<1>4. \A i \in 1 .. 2 : RedactRule[i].kind \in KindNames
  BY <1>2 DEF KindNames, Row
<1>5. \A i \in 1 .. 2 : RedactRule[i].kind = "enum" => RedactRule[i].of \in DOMAIN Enums
  BY <1>2 DEF Row
<1>6. \A i, j \in 1 .. 2 : i # j => Apart(RedactRule[i], RedactRule[j])
  BY <1>2 DEF Apart, Row
<1> QED
  BY <1>1, <1>3, <1>4, <1>5, <1>6 DEF Sound

LEMMA BatchCheckRequestIsSound == Sound(BatchCheckRequest)
<1>1. Len(BatchCheckRequest) = 1 /\ DOMAIN BatchCheckRequest = 1 .. 1
  BY DEF BatchCheckRequest
<1>2. Row(BatchCheckRequest[1], "messages", 1, "requests", "requests")
  BY DEF BatchCheckRequest, Scalar, Str, Of, Row
<1>3. \A i \in 1 .. 1 : BatchCheckRequest[i].no = i
  BY <1>2 DEF Row
<1>4. \A i \in 1 .. 1 : BatchCheckRequest[i].kind \in KindNames
  BY <1>2 DEF KindNames, Row
<1>5. \A i \in 1 .. 1 :
        BatchCheckRequest[i].kind = "enum" => BatchCheckRequest[i].of \in DOMAIN Enums
  BY <1>2 DEF Row
<1>6. \A i, j \in 1 .. 1 : i # j => Apart(BatchCheckRequest[i], BatchCheckRequest[j])
  BY <1>2 DEF Apart, Row
<1> QED
  BY <1>1, <1>3, <1>4, <1>5, <1>6 DEF Sound

LEMMA BatchCheckResponseIsSound == Sound(BatchCheckResponse)
<1>1. Len(BatchCheckResponse) = 1 /\ DOMAIN BatchCheckResponse = 1 .. 1
  BY DEF BatchCheckResponse
<1>2. Row(BatchCheckResponse[1], "messages", 1, "responses", "responses")
  BY DEF BatchCheckResponse, Scalar, Str, Of, Row
<1>3. \A i \in 1 .. 1 : BatchCheckResponse[i].no = i
  BY <1>2 DEF Row
<1>4. \A i \in 1 .. 1 : BatchCheckResponse[i].kind \in KindNames
  BY <1>2 DEF KindNames, Row
<1>5. \A i \in 1 .. 1 :
        BatchCheckResponse[i].kind = "enum" => BatchCheckResponse[i].of \in DOMAIN Enums
  BY <1>2 DEF Row
<1>6. \A i, j \in 1 .. 1 : i # j => Apart(BatchCheckResponse[i], BatchCheckResponse[j])
  BY <1>2 DEF Apart, Row
<1> QED
  BY <1>1, <1>3, <1>4, <1>5, <1>6 DEF Sound

LEMMA OpControlSubscribeRequestIsSound == Sound(OpControlSubscribeRequest)
<1>1. Len(OpControlSubscribeRequest) = 1 /\ DOMAIN OpControlSubscribeRequest = 1 .. 1
  BY DEF OpControlSubscribeRequest
<1>2. Row(OpControlSubscribeRequest[1], "message", 1, "agentId", "agent_id")
  BY DEF OpControlSubscribeRequest, Scalar, Str, Of, Row
<1>3. \A i \in 1 .. 1 : OpControlSubscribeRequest[i].no = i
  BY <1>2 DEF Row
<1>4. \A i \in 1 .. 1 : OpControlSubscribeRequest[i].kind \in KindNames
  BY <1>2 DEF KindNames, Row
<1>5. \A i \in 1 .. 1 :
        OpControlSubscribeRequest[i].kind = "enum" => OpControlSubscribeRequest[i].of \in DOMAIN Enums
  BY <1>2 DEF Row
<1>6. \A i, j \in 1 .. 1 : i # j => Apart(OpControlSubscribeRequest[i], OpControlSubscribeRequest[j])
  BY <1>2 DEF Apart, Row
<1> QED
  BY <1>1, <1>3, <1>4, <1>5, <1>6 DEF Sound

LEMMA OpControlMessageIsSound == Sound(OpControlMessage)
<1>1. Len(OpControlMessage) = 3 /\ DOMAIN OpControlMessage = 1 .. 3
  BY DEF OpControlMessage
<1>2. /\ Row(OpControlMessage[1], "string", 1, "opId", "op_id")
      /\ Row(OpControlMessage[2], "enum", 2, "signal", "signal") /\ OpControlMessage[2].of = "OpControlSignal"
      /\ Row(OpControlMessage[3], "uint64", 3, "sequence", "sequence")
  BY DEF OpControlMessage, Scalar, Str, Of, Row
<1>3. \A i \in 1 .. 3 : OpControlMessage[i].no = i
  BY <1>2 DEF Row
<1>4. \A i \in 1 .. 3 : OpControlMessage[i].kind \in KindNames
  BY <1>2 DEF KindNames, Row
<1>5. \A i \in 1 .. 3 :
        OpControlMessage[i].kind = "enum" => OpControlMessage[i].of \in DOMAIN Enums
  BY <1>2, EnumsDomain DEF Row
<1>6. \A i, j \in 1 .. 3 : i # j => Apart(OpControlMessage[i], OpControlMessage[j])
  BY <1>2 DEF Apart, Row
<1> QED
  BY <1>1, <1>3, <1>4, <1>5, <1>6 DEF Sound

\* Each table is sound, and with it what its fields are told apart by.
LEMMA TablesAreSound ==
  ASSUME NEW t \in DOMAIN Messages
  PROVE  Sound(Messages[t])
<1>1. DOMAIN Messages =
        {"AgentId", "Timestamp", "CheckActionRequest", "ActionContext", "LLMCallContext",
         "ToolCallContext", "FileOpContext", "NetworkCallContext", "ProcessExecContext",
         "CheckActionResponse", "RedactInstructions", "RedactRule", "BatchCheckRequest",
         "BatchCheckResponse", "OpControlSubscribeRequest", "OpControlMessage"}
  BY DEF Messages
<1>2. /\ Messages["AgentId"] = AgentId
      /\ Messages["Timestamp"] = Timestamp
      /\ Messages["CheckActionRequest"] = CheckActionRequest
      /\ Messages["ActionContext"] = ActionContext
      /\ Messages["LLMCallContext"] = LLMCallContext
      /\ Messages["ToolCallContext"] = ToolCallContext
      /\ Messages["FileOpContext"] = FileOpContext
      /\ Messages["NetworkCallContext"] = NetworkCallContext
      /\ Messages["ProcessExecContext"] = ProcessExecContext
      /\ Messages["CheckActionResponse"] = CheckActionResponse
      /\ Messages["RedactInstructions"] = RedactInstructions
      /\ Messages["RedactRule"] = RedactRule
      /\ Messages["BatchCheckRequest"] = BatchCheckRequest
      /\ Messages["BatchCheckResponse"] = BatchCheckResponse
      /\ Messages["OpControlSubscribeRequest"] = OpControlSubscribeRequest
      /\ Messages["OpControlMessage"] = OpControlMessage
  BY DEF Messages
<1> QED
  BY <1>1, <1>2, AgentIdIsSound, TimestampIsSound, CheckActionRequestIsSound,
     ActionContextIsSound, LLMCallContextIsSound, ToolCallContextIsSound,
     FileOpContextIsSound, NetworkCallContextIsSound, ProcessExecContextIsSound,
     CheckActionResponseIsSound, RedactInstructionsIsSound, RedactRuleIsSound,
     BatchCheckRequestIsSound, BatchCheckResponseIsSound,
     OpControlSubscribeRequestIsSound, OpControlMessageIsSound

LEMMA FieldsAreApart ==
  ASSUME NEW t \in DOMAIN Messages
  PROVE  /\ \A f \in FieldsOf(t) :
              /\ f.kind \in KindNames /\ f.no \in 1 .. 98
              /\ f.kind = "enum" => f.of \in DOMAIN Enums
         /\ \A f, g \in FieldsOf(t) : f # g => f.no # g.no /\ Apart(f, g)
<1>1. Sound(Messages[t])
  BY TablesAreSound
<1> DEFINE fs == Messages[t]
<1>2. ASSUME NEW f \in FieldsOf(t)
      PROVE  /\ f.kind \in KindNames /\ f.no \in 1 .. 98
             /\ f.kind = "enum" => f.of \in DOMAIN Enums
  <2>1. PICK i \in DOMAIN fs : f = fs[i]
    BY DEF FieldsOf
  <2> HIDE DEF fs
  <2>2. Len(fs) \in 1 .. 98 /\ i \in 1 .. Len(fs)
    BY <1>1 DEF Sound, fs
  <2>3. fs[i].no = i
    BY <1>1 DEF Sound, fs
  <2>4. \A m \in 1 .. 98 : 1 .. m \subseteq 1 .. 98
    OBVIOUS
  <2>5. i \in 1 .. 98
    BY <2>2, <2>4, Zenon
  <2> QED
    BY <1>1, <2>1, <2>3, <2>5 DEF Sound, fs
<1>3. ASSUME NEW f \in FieldsOf(t), NEW g \in FieldsOf(t), f # g
      PROVE  f.no # g.no /\ Apart(f, g)
  <2>1. PICK i \in DOMAIN fs, j \in DOMAIN fs : f = fs[i] /\ g = fs[j]
    BY DEF FieldsOf
  <2>2. i # j
    BY <1>3, <2>1
  <2>3. f.no = i /\ g.no = j
    BY <1>1, <2>1 DEF Sound
  <2> QED
    BY <1>1, <2>1, <2>2, <2>3 DEF Sound
<1> QED
  BY <1>2, <1>3

LEMMA NamesTellFields ==
  ASSUME NEW t \in DOMAIN Messages
  PROVE  /\ \A f \in FieldsOf(t) : f.name \in Names(t) /\ FieldNamed(t, f.name) = f
         /\ \A n \in Names(t) : FieldNamed(t, n) \in FieldsOf(t) /\ FieldNamed(t, n).name = n
<1>1. \A f, g \in FieldsOf(t) : f # g => f.name # g.name
  BY FieldsAreApart DEF Apart
<1> QED
  BY <1>1 DEF Names, FieldNamed

\* A wire type is 0 or 2, and what is not set is told from a value.
LEMMA KindsAndWires ==
  ASSUME NEW f, f.kind \in KindNames
  PROVE  /\ Wire(f) \in {0, 2}
         /\ Repeated(f) => Default(f) = <<>>
         /\ f.kind = "message" => Default(f) = Undefined
         /\ Is64Bit(f) \/ f.kind = "enum" => Default(f) = 0
<1>1. /\ Kinds.string.wire = 2 /\ Kinds.bytes.wire = 2 /\ Kinds.bool.wire = 0
      /\ Kinds.int32.wire = 0 /\ Kinds.int64.wire = 0 /\ Kinds.uint64.wire = 0
      /\ Kinds.enum.wire = 0 /\ Kinds.message.wire = 2 /\ Kinds.strings.wire = 2
      /\ Kinds.messages.wire = 2
  BY DEF Kinds, Kind
<1>2. /\ Kinds.message.default = Undefined
      /\ Kinds.strings.default = <<>> /\ Kinds.messages.default = <<>>
      /\ Kinds.int64.default = 0 /\ Kinds.uint64.default = 0 /\ Kinds.enum.default = 0
  BY DEF Kinds, Kind
<1>3. Wire(f) \in {0, 2}
  BY <1>1 DEF Wire, KindNames
<1> QED
  BY <1>2, <1>3 DEF Default, Repeated, Is64Bit

\* One field at most takes an item.
LEMMA ItemMatchesOne ==
  ASSUME NEW t \in DOMAIN Messages, NEW f \in FieldsOf(t), NEW item, Matches(f, item)
  PROVE  (CHOOSE g \in FieldsOf(t) : Matches(g, item)) = f
<1>1. \A g \in FieldsOf(t) : Matches(g, item) => g = f
  BY FieldsAreApart DEF Matches
<1> QED
  BY <1>1
-----------------------------------------------------------------------------
(* Recursive functions over a sequence exist, by induction over its        *)
(* length.                                                                 *)

\* A set of numbers with 0 and each one's successor has them all.
LEMMA SetInduction ==
  ASSUME NEW S \in SUBSET Nat, 0 \in S, \A n \in S : n + 1 \in S
  PROVE  S = Nat
<1> DEFINE T == Nat \ S
           R == OpToRel(<, Nat)
<1> SUFFICES ASSUME T # {} PROVE FALSE
  OBVIOUS
<1>1. PICK x \in T : \A y \in T : ~ (<<y, x>> \in R)
  <2>1. IsWellFoundedOn(R, Nat)
    BY NatLessThanWellFounded
  <2>2. T \subseteq Nat
    OBVIOUS
  <2> HIDE DEF T, R
  <2> QED
    BY <2>1, <2>2, WFMin
<1>2. x \in Nat /\ x # 0 /\ x - 1 \in Nat
  OBVIOUS
<1>3. x - 1 \notin S
  BY <1>2
<1>4. <<x - 1, x>> \in R
  BY <1>2 DEF OpToRel
<1> QED
  BY <1>1, <1>2, <1>3, <1>4

\* The running concatenations that FlattenSeq is the last of.
IsFlattening(g, seqs, n) ==
  g = [i \in 1 .. n |-> IF i = 1 THEN seqs[i] ELSE g[i - 1] \o seqs[i]]

LEMMA FlatteningExists ==
  ASSUME NEW seqs, Len(seqs) \in Nat
  PROVE  \E g : IsFlattening(g, seqs, Len(seqs))
<1> DEFINE D == {n \in Nat : \E g : IsFlattening(g, seqs, n)}
<1>1. 0 \in D
  <2> DEFINE g == [i \in 1 .. 0 |-> 0]
  <2>1. IsFlattening(g, seqs, 0)
    BY DEF IsFlattening
  <2> QED
    BY <2>1
<1>2. ASSUME NEW n \in D PROVE n + 1 \in D
  <2>1. PICK g : IsFlattening(g, seqs, n)
    OBVIOUS
  <2> DEFINE e == [i \in 1 .. n + 1 |->
                     IF i = n + 1 THEN (IF i = 1 THEN seqs[i] ELSE g[n] \o seqs[i]) ELSE g[i]]
  <2>2. IsFlattening(e, seqs, n + 1)
    <3> SUFFICES ASSUME NEW i \in 1 .. n + 1
                 PROVE  e[i] = IF i = 1 THEN seqs[i] ELSE e[i - 1] \o seqs[i]
      BY DEF IsFlattening
    <3>1. CASE i = n + 1
      BY <3>1
    <3>2. CASE i # n + 1
      <4>1. i \in 1 .. n /\ e[i] = g[i] /\ (i # 1 => e[i - 1] = g[i - 1])
        BY <3>2
      <4> QED
        BY <2>1, <4>1 DEF IsFlattening
    <3> QED
      BY <3>1, <3>2
  <2> HIDE DEF e
  <2> QED
    BY <2>2
<1>3. D = Nat
  <2>1. D \in SUBSET Nat
    OBVIOUS
  <2> HIDE DEF D
  <2> QED
    BY <1>1, <1>2, <2>1, SetInduction
<1> QED
  BY <1>3 DEF IsFlattening

\* What FlattenSeq returns.
LEMMA FlattenedSeq ==
  ASSUME NEW seqs, Len(seqs) \in Nat \ {0}
  PROVE  \E g : IsFlattening(g, seqs, Len(seqs)) /\ FlattenSeq(seqs) = g[Len(seqs)]
<1> DEFINE g == CHOOSE g : IsFlattening(g, seqs, Len(seqs))
<1>1. IsFlattening(g, seqs, Len(seqs))
  BY FlatteningExists
<1>2. FlattenSeq(seqs) = g[Len(seqs)]
  BY DEF FlattenSeq, IsFlattening
<1> QED
  BY <1>1, <1>2

\* The message that decode holds after each item.
IsDecoding(g, t, items, n) ==
  g = [i \in 0 .. n |-> IF i = 0 THEN Base(t) ELSE DecodeItem(t, g[i - 1], items[i])]

LEMMA DecodingExists ==
  ASSUME NEW t, NEW items, Len(items) \in Nat
  PROVE  \E g : IsDecoding(g, t, items, Len(items))
<1> DEFINE D == {n \in Nat : \E g : IsDecoding(g, t, items, n)}
<1>1. 0 \in D
  <2> DEFINE g == [i \in 0 .. 0 |-> Base(t)]
  <2>1. IsDecoding(g, t, items, 0)
    BY DEF IsDecoding
  <2> QED
    BY <2>1
<1>2. ASSUME NEW n \in D PROVE n + 1 \in D
  <2>1. PICK g : IsDecoding(g, t, items, n)
    OBVIOUS
  <2> DEFINE e == [i \in 0 .. n + 1 |-> IF i = n + 1 THEN DecodeItem(t, g[n], items[i]) ELSE g[i]]
  <2>2. IsDecoding(e, t, items, n + 1)
    <3> SUFFICES ASSUME NEW i \in 0 .. n + 1
                 PROVE  e[i] = IF i = 0 THEN Base(t) ELSE DecodeItem(t, e[i - 1], items[i])
      BY DEF IsDecoding
    <3>1. CASE i = n + 1
      BY <3>1
    <3>2. CASE i # n + 1
      <4>1. i \in 0 .. n /\ e[i] = g[i] /\ (i # 0 => e[i - 1] = g[i - 1])
        BY <3>2
      <4> QED
        BY <2>1, <4>1 DEF IsDecoding
    <3> QED
      BY <3>1, <3>2
  <2> HIDE DEF e
  <2> QED
    BY <2>2
<1>3. D = Nat
  <2>1. D \in SUBSET Nat
    OBVIOUS
  <2> HIDE DEF D
  <2> QED
    BY <1>1, <1>2, <2>1, SetInduction
<1> QED
  BY <1>3 DEF IsDecoding

\* What Decode returns.
LEMMA Decoded ==
  ASSUME NEW t, NEW items, Len(items) \in Nat
  PROVE  \E g : IsDecoding(g, t, items, Len(items)) /\ Decode(t, items) = g[Len(items)]
<1> DEFINE g == CHOOSE g : IsDecoding(g, t, items, Len(items))
<1>1. IsDecoding(g, t, items, Len(items))
  BY DecodingExists
<1>2. Decode(t, items) = g[Len(items)]
  BY DEF Decode, IsDecoding
<1> QED
  BY <1>1, <1>2
-----------------------------------------------------------------------------
(* A sequence of items carries a field's values when the field's items, in *)
(* their order, hold just these values.  What is between them does not     *)
(* matter.                                                                 *)

\* At pos are the items of the field, one for each value.
Carries(f, items, vals) ==
  \E pos \in [DOMAIN vals -> DOMAIN items] :
    /\ \A i, j \in DOMAIN vals : i < j => pos[i] < pos[j]
    /\ \A i \in DOMAIN vals : items[pos[i]] = <<f.no, Wire(f), vals[i]>>
    /\ \A k \in DOMAIN items : Matches(f, items[k]) => \E i \in DOMAIN vals : pos[i] = k

\* What carries a field's values still does when its items are moved in order
\* to another sequence, among items that are not the field's.
LEMMA MovedInOrder ==
  ASSUME NEW f, NEW items, NEW more, NEW vals,
         DOMAIN items \subseteq Nat, DOMAIN vals \subseteq Nat,
         NEW to \in [DOMAIN items -> DOMAIN more],
         \A k \in DOMAIN items : Matches(f, items[k]) => more[to[k]] = items[k],
         \A k, l \in DOMAIN items :
           Matches(f, items[k]) /\ Matches(f, items[l]) /\ k < l => to[k] < to[l],
         \A k \in DOMAIN more :
           Matches(f, more[k]) => \E l \in DOMAIN items : Matches(f, items[l]) /\ to[l] = k,
         Carries(f, items, vals)
  PROVE  Carries(f, more, vals)
<1>1. PICK pos \in [DOMAIN vals -> DOMAIN items] :
        /\ \A i, j \in DOMAIN vals : i < j => pos[i] < pos[j]
        /\ \A i \in DOMAIN vals : items[pos[i]] = <<f.no, Wire(f), vals[i]>>
        /\ \A k \in DOMAIN items : Matches(f, items[k]) => \E i \in DOMAIN vals : pos[i] = k
  BY DEF Carries
<1> DEFINE new == [i \in DOMAIN vals |-> to[pos[i]]]
<1>2. new \in [DOMAIN vals -> DOMAIN more]
  OBVIOUS
<1>3. \A i \in DOMAIN vals : Matches(f, items[pos[i]])
  BY <1>1 DEF Matches
<1>4. \A i, j \in DOMAIN vals : i < j => new[i] < new[j]
  BY <1>1, <1>3
<1>5. \A i \in DOMAIN vals : more[new[i]] = <<f.no, Wire(f), vals[i]>>
  BY <1>1, <1>3
<1>6. ASSUME NEW k \in DOMAIN more, Matches(f, more[k])
      PROVE  \E i \in DOMAIN vals : new[i] = k
  <2>1. PICK l \in DOMAIN items : Matches(f, items[l]) /\ to[l] = k
    BY <1>6
  <2>2. PICK i \in DOMAIN vals : pos[i] = l
    BY <1>1, <2>1
  <2> QED
    BY <2>1, <2>2
<1> HIDE DEF new
<1> QED
  BY <1>2, <1>4, <1>5, <1>6 DEF Carries

\* The elements of a concatenation.
LEMMA Concatenated ==
  ASSUME NEW S, NEW s \in Seq(S), NEW u \in Seq(S)
  PROVE  /\ s \o u \in Seq(S) /\ Len(s \o u) = Len(s) + Len(u)
         /\ DOMAIN (s \o u) = 1 .. Len(s) + Len(u)
         /\ \A k \in DOMAIN s : k \in DOMAIN (s \o u) /\ (s \o u)[k] = s[k]
         /\ \A k \in DOMAIN u :
              Len(s) + k \in DOMAIN (s \o u) /\ (s \o u)[Len(s) + k] = u[k]
         /\ \A k \in DOMAIN (s \o u) :
              k \in DOMAIN s \/ (k - Len(s) \in DOMAIN u /\ (s \o u)[k] = u[k - Len(s)])
OBVIOUS

\* Items that are not the field's may follow.
LEMMA OthersFollow ==
  ASSUME NEW S, NEW items \in Seq(S), NEW more \in Seq(S), NEW C, NEW vals \in Seq(C), NEW f,
         \A k \in DOMAIN more : ~Matches(f, more[k]),
         Carries(f, items, vals)
  PROVE  Carries(f, items \o more, vals)
<1> DEFINE all == items \o more
           to == [k \in DOMAIN items |-> k]
<1>1. /\ all \in Seq(S) /\ Len(all) = Len(items) + Len(more)
      /\ DOMAIN all = 1 .. Len(items) + Len(more)
      /\ \A k \in DOMAIN items : k \in DOMAIN all /\ all[k] = items[k]
      /\ \A k \in DOMAIN more : Len(items) + k \in DOMAIN all /\ all[Len(items) + k] = more[k]
      /\ \A k \in DOMAIN all :
           k \in DOMAIN items \/ (k - Len(items) \in DOMAIN more /\ all[k] = more[k - Len(items)])
  BY Concatenated
<1> HIDE DEF all
<1>2. to \in [DOMAIN items -> DOMAIN all]
  BY <1>1
<1>3. DOMAIN items \subseteq Nat /\ DOMAIN vals \subseteq Nat
  OBVIOUS
<1>4. \A k \in DOMAIN items : Matches(f, items[k]) => all[to[k]] = items[k]
  BY <1>1
<1>5. \A k, l \in DOMAIN items :
        Matches(f, items[k]) /\ Matches(f, items[l]) /\ k < l => to[k] < to[l]
  OBVIOUS
<1>6. \A k \in DOMAIN all :
        Matches(f, all[k]) => \E l \in DOMAIN items : Matches(f, items[l]) /\ to[l] = k
  BY <1>1
<1> HIDE DEF to
<1>7. Carries(f, all, vals)
  BY <1>2, <1>3, <1>4, <1>5, <1>6, MovedInOrder
<1> QED
  BY <1>7 DEF all

\* What a writer writes of a field.
ItemsOf(f, vals) == [i \in DOMAIN vals |-> <<f.no, Wire(f), vals[i]>>]

LEMMA OwnFollow ==
  ASSUME NEW S, NEW items \in Seq(S), NEW C, NEW vals \in Seq(C), NEW f,
         ItemsOf(f, vals) \in Seq(S),
         \A k \in DOMAIN items : ~Matches(f, items[k])
  PROVE  Carries(f, items \o ItemsOf(f, vals), vals)
<1> DEFINE more == ItemsOf(f, vals)
           all == items \o more
           pos == [i \in DOMAIN vals |-> Len(items) + i]
<1>0. /\ more \in Seq(S) /\ DOMAIN more = DOMAIN vals /\ Len(more) = Len(vals)
      /\ \A i \in DOMAIN vals : more[i] = <<f.no, Wire(f), vals[i]>>
  BY DEF ItemsOf
<1> HIDE DEF more
<1>1. /\ all \in Seq(S) /\ Len(all) = Len(items) + Len(more)
      /\ DOMAIN all = 1 .. Len(items) + Len(more)
      /\ \A k \in DOMAIN items : k \in DOMAIN all /\ all[k] = items[k]
      /\ \A k \in DOMAIN more : Len(items) + k \in DOMAIN all /\ all[Len(items) + k] = more[k]
      /\ \A k \in DOMAIN all :
           k \in DOMAIN items \/ (k - Len(items) \in DOMAIN more /\ all[k] = more[k - Len(items)])
  BY <1>0, Concatenated
<1> HIDE DEF all
<1>2. pos \in [DOMAIN vals -> DOMAIN all]
  BY <1>0, <1>1
<1>3. \A i, j \in DOMAIN vals : i < j => pos[i] < pos[j]
  OBVIOUS
<1>4. \A i \in DOMAIN vals : all[pos[i]] = <<f.no, Wire(f), vals[i]>>
  <2> SUFFICES ASSUME NEW i \in DOMAIN vals
               PROVE  all[pos[i]] = <<f.no, Wire(f), vals[i]>>
    OBVIOUS
  <2>1. all[Len(items) + i] = more[i]
    BY <1>0, <1>1
  <2> QED
    BY <1>0, <2>1
<1>5. ASSUME NEW k \in DOMAIN all, Matches(f, all[k])
      PROVE  \E i \in DOMAIN vals : pos[i] = k
  <2>1. k \notin DOMAIN items
    BY <1>1, <1>5
  <2>2. k - Len(items) \in DOMAIN vals
    BY <1>0, <1>1, <2>1
  <2>3. pos[k - Len(items)] = k
    BY <1>1, <2>2
  <2> QED
    BY <2>2, <2>3
<1> HIDE DEF pos
<1>6. Carries(f, all, vals)
  BY <1>2, <1>3, <1>4, <1>5 DEF Carries
<1> QED
  BY <1>6 DEF all, more

\* The elements of what InsertAt returns.
LEMMA InsertedElements ==
  ASSUME NEW S, NEW items \in Seq(S), NEW x \in S, NEW n \in 1 .. Len(items) + 1
  PROVE  /\ InsertAt(items, n, x) \in Seq(S) /\ Len(InsertAt(items, n, x)) = Len(items) + 1
         /\ \A k \in 1 .. Len(items) + 1 :
              InsertAt(items, n, x)[k] =
                IF k < n THEN items[k] ELSE IF k = n THEN x ELSE items[k - 1]
<1> DEFINE before == SubSeq(items, 1, n - 1)
           after == SubSeq(items, n, Len(items))
<1>1. /\ before \in Seq(S) /\ Len(before) = n - 1
      /\ \A k \in 1 .. n - 1 : before[k] = items[k]
  OBVIOUS
<1>2. /\ after \in Seq(S) /\ Len(after) = Len(items) - n + 1
      /\ \A k \in 1 .. Len(items) - n + 1 : after[k] = items[n + k - 1]
  OBVIOUS
<1>3. InsertAt(items, n, x) = before \o <<x>> \o after
  BY DEF InsertAt
<1> DEFINE upTo == before \o <<x>>
<1>4. /\ upTo \in Seq(S) /\ Len(upTo) = n
      /\ \A k \in 1 .. n : upTo[k] = IF k < n THEN items[k] ELSE x
  <2> HIDE DEF before
  <2>1. <<x>> \in Seq(S) /\ Len(<<x>>) = 1 /\ <<x>>[1] = x
    OBVIOUS
  <2> QED
    BY <1>1, <2>1
<1> HIDE DEF before, after, upTo
<1>5. /\ upTo \o after \in Seq(S) /\ Len(upTo \o after) = Len(items) + 1
      /\ \A k \in 1 .. Len(items) + 1 :
           (upTo \o after)[k] = IF k <= n THEN upTo[k] ELSE after[k - n]
  <2>1. upTo \in Seq(S) /\ after \in Seq(S)
    BY <1>2, <1>4
  <2>2. Len(upTo) = n /\ Len(after) = Len(items) - n + 1
    BY <1>2, <1>4
  <2>3. /\ upTo \o after \in Seq(S) /\ Len(upTo \o after) = Len(upTo) + Len(after)
        /\ \A k \in 1 .. Len(upTo) + Len(after) :
             (upTo \o after)[k] = IF k <= Len(upTo) THEN upTo[k] ELSE after[k - Len(upTo)]
    BY <2>1, ConcatProperties
  <2>4. Len(upTo) + Len(after) = Len(items) + 1
    BY <2>2
  <2> QED
    BY <2>2, <2>3, <2>4
<1>6. \A k \in 1 .. Len(items) + 1 : k > n => after[k - n] = items[k - 1]
  BY <1>2
<1> QED
  BY <1>3, <1>4, <1>5, <1>6 DEF upTo

\* An item that is not the field's may be inserted anywhere.
LEMMA OneInserted ==
  ASSUME NEW S, NEW items \in Seq(S), NEW x \in S, NEW C, NEW vals \in Seq(C), NEW f,
         NEW n \in 1 .. Len(items) + 1, ~Matches(f, x),
         Carries(f, items, vals)
  PROVE  Carries(f, InsertAt(items, n, x), vals)
<1> DEFINE all == InsertAt(items, n, x)
           to == [k \in DOMAIN items |-> IF k < n THEN k ELSE k + 1]
<1>1. /\ all \in Seq(S) /\ Len(all) = Len(items) + 1
      /\ \A k \in 1 .. Len(items) + 1 :
           all[k] = IF k < n THEN items[k] ELSE IF k = n THEN x ELSE items[k - 1]
  BY InsertedElements
<1> HIDE DEF all
<1>2. to \in [DOMAIN items -> DOMAIN all]
  BY <1>1
<1>3. DOMAIN items \subseteq Nat /\ DOMAIN vals \subseteq Nat
  OBVIOUS
<1>4. \A k \in DOMAIN items : all[to[k]] = items[k]
  BY <1>1
<1>5. \A k, l \in DOMAIN items : k < l => to[k] < to[l]
  OBVIOUS
<1>6. ASSUME NEW k \in DOMAIN all, Matches(f, all[k])
      PROVE  \E l \in DOMAIN items : Matches(f, items[l]) /\ to[l] = k
  <2>1. k \in 1 .. Len(items) + 1 /\ k # n
    BY <1>1, <1>6
  <2>2. CASE k < n
    BY <1>1, <1>6, <2>1, <2>2
  <2>3. CASE k > n
    <3>1. k - 1 \in DOMAIN items /\ to[k - 1] = k /\ all[k] = items[k - 1]
      BY <1>1, <2>1, <2>3
    <3> QED
      BY <1>6, <3>1
  <2> QED
    BY <2>1, <2>2, <2>3
<1> HIDE DEF to
<1>7. Carries(f, all, vals)
  BY <1>2, <1>3, <1>4, <1>5, <1>6, MovedInOrder
<1> QED
  BY <1>7 DEF all

\* The places of two neighbours swapped.
LEMMA OrderOfOthersStays ==
  ASSUME NEW k \in Nat, NEW l \in Nat, NEW n \in Nat, k < l, ~(k = n /\ l = n + 1)
  PROVE  (IF k = n THEN n + 1 ELSE IF k = n + 1 THEN n ELSE k) <
           (IF l = n THEN n + 1 ELSE IF l = n + 1 THEN n ELSE l)
OBVIOUS

\* Two neighbours of different numbers may be swapped.
LEMMA TwoSwapped ==
  ASSUME NEW S, NEW items \in Seq(S), NEW C, NEW vals \in Seq(C), NEW f,
         NEW n \in 1 .. Len(items) - 1, items[n][1] # items[n + 1][1],
         Carries(f, items, vals)
  PROVE  Carries(f, Swapped(items, n), vals)
<1> DEFINE all == Swapped(items, n)
           to == [k \in DOMAIN items |-> IF k = n THEN n + 1 ELSE IF k = n + 1 THEN n ELSE k]
<1>1. /\ all \in Seq(S) /\ Len(all) = Len(items) /\ DOMAIN all = DOMAIN items
      /\ all[n] = items[n + 1] /\ all[n + 1] = items[n]
      /\ \A k \in DOMAIN items \ {n, n + 1} : all[k] = items[k]
  BY DEF Swapped
<1> HIDE DEF all
<1>2. to \in [DOMAIN items -> DOMAIN all]
  BY <1>1
<1>3. DOMAIN items \subseteq Nat /\ DOMAIN vals \subseteq Nat
  OBVIOUS
<1>4. \A k \in DOMAIN items : all[to[k]] = items[k]
  BY <1>1
<1>5. ~(Matches(f, items[n]) /\ Matches(f, items[n + 1]))
  BY DEF Matches
<1>6. \A k, l \in DOMAIN items :
        Matches(f, items[k]) /\ Matches(f, items[l]) /\ k < l => to[k] < to[l]
  <2> SUFFICES ASSUME NEW k \in DOMAIN items, NEW l \in DOMAIN items,
                      Matches(f, items[k]), Matches(f, items[l]), k < l
               PROVE  to[k] < to[l]
    OBVIOUS
  <2>1. ~(k = n /\ l = n + 1)
    BY <1>5
  <2>2. k \in Nat /\ l \in Nat /\ n \in Nat
    OBVIOUS
  <2>3. /\ to[k] = IF k = n THEN n + 1 ELSE IF k = n + 1 THEN n ELSE k
        /\ to[l] = IF l = n THEN n + 1 ELSE IF l = n + 1 THEN n ELSE l
    OBVIOUS
  <2>4. (IF k = n THEN n + 1 ELSE IF k = n + 1 THEN n ELSE k) <
          (IF l = n THEN n + 1 ELSE IF l = n + 1 THEN n ELSE l)
    BY <2>1, <2>2, OrderOfOthersStays, Zenon
  <2> HIDE DEF to
  <2> QED
    BY <2>3, <2>4, Zenon
<1>7. ASSUME NEW k \in DOMAIN all, Matches(f, all[k])
      PROVE  \E l \in DOMAIN items : Matches(f, items[l]) /\ to[l] = k
  <2>1. to[k] \in DOMAIN items /\ to[to[k]] = k
    BY <1>1
  <2> QED
    BY <1>4, <1>7, <2>1
<1> HIDE DEF to
<1>8. Carries(f, all, vals)
  BY <1>2, <1>3, <1>4, <1>6, <1>7, MovedInOrder
<1> QED
  BY <1>8 DEF all

\* No field takes what a peer of another version adds.
LEMMA ForeignMatchesNone ==
  ASSUME NEW t \in DOMAIN Messages, NEW f \in FieldsOf(t), NEW x \in ForeignItems(t)
  PROVE  ~Matches(f, x)
<1>1. CASE \E w \in {0, 2, 5} : x = <<99, w, Foreign>>
  BY <1>1, FieldsAreApart DEF Matches
<1>2. ASSUME NEW g \in FieldsOf(t), x = <<g.no, 2 - Wire(g), Foreign>>
      PROVE  ~Matches(f, x)
  <2>1. Wire(g) \in {0, 2}
    BY FieldsAreApart, KindsAndWires
  <2>2. CASE f = g
    BY <1>2, <2>1, <2>2 DEF Matches
  <2>3. CASE f # g
    BY <1>2, <2>3, FieldsAreApart DEF Matches
  <2> QED
    BY <2>2, <2>3
<1> QED
  BY <1>1, <1>2 DEF ForeignItems
-----------------------------------------------------------------------------
(* Encoding.                                                               *)

\* Items that hold values of C.
WireItems(C) == (1 .. 99) \X {0, 2, 5} \X C

LEMMA ItemsOfAField ==
  ASSUME NEW t \in DOMAIN Messages, NEW f \in FieldsOf(t), NEW C, NEW vals \in Seq(C)
  PROVE  /\ ItemsOf(f, vals) \in Seq(WireItems(C))
         /\ \A k \in DOMAIN ItemsOf(f, vals) : ItemsOf(f, vals)[k][1] = f.no
<1>1. f.no \in 1 .. 99 /\ Wire(f) \in {0, 2, 5}
  <2>1. f.no \in 1 .. 98 /\ f.kind \in KindNames
    BY FieldsAreApart
  <2> QED
    BY <2>1, KindsAndWires
<1>2. ASSUME NEW i \in DOMAIN vals
      PROVE  <<f.no, Wire(f), vals[i]>> \in WireItems(C)
  <2>1. vals[i] \in C
    OBVIOUS
  <2> QED
    BY <1>1, <2>1, Zenon DEF WireItems
<1>3. \A i \in DOMAIN vals : <<f.no, Wire(f), vals[i]>>[1] = f.no
  OBVIOUS
<1> DEFINE item(i) == <<f.no, Wire(f), vals[i]>>
<1> HIDE DEF item
<1>4. [i \in 1 .. Len(vals) |-> item(i)] \in Seq(WireItems(C))
  BY <1>2, IsASeq DEF item
<1> QED
  BY <1>3, <1>4 DEF ItemsOf, item

\* The items of an encoded message carry the values of each of its fields, by
\* induction over the table.
LEMMA Encoded ==
  ASSUME NEW t \in DOMAIN Messages, NEW m, NEW C,
         \A f \in FieldsOf(t) : Contents(f, m[f.name]) \in Seq(C)
  PROVE  /\ Encode(t, m) \in Seq(WireItems(C))
         /\ \A f \in FieldsOf(t) : Carries(f, Encode(t, m), Contents(f, m[f.name]))
<1> DEFINE fs == Messages[t]
           V(i) == Contents(fs[i], m[fs[i].name])
           seqs == [i \in DOMAIN fs |-> ItemsOf(fs[i], V(i))]
           n == Len(fs)
           W == WireItems(C)
<1>1. /\ n \in Nat /\ n # 0 /\ DOMAIN fs = 1 .. n
      /\ \A i \in 1 .. n : fs[i].no = i
      /\ \A i \in 1 .. n : fs[i] \in FieldsOf(t)
  <2>1. Sound(fs)
    BY TablesAreSound
  <2> HIDE DEF fs
  <2>2. n \in 1 .. 98 /\ DOMAIN fs = 1 .. n
    BY <2>1, Zenon DEF Sound
  <2>3. \A i \in 1 .. n : fs[i].no = i
    BY <2>1, <2>2, Zenon DEF Sound
  <2>4. \A i \in 1 .. n : fs[i] \in FieldsOf(t)
    BY <2>2, Zenon DEF FieldsOf, fs
  <2>5. n \in Nat /\ n # 0
    <3> HIDE DEF n
    <3> QED
      BY <2>2
  <2> QED
    BY <2>2, <2>3, <2>4, <2>5
<1>2. \A i \in 1 .. n : V(i) \in Seq(C)
  BY <1>1
<1>3. \A i \in 1 .. n : /\ ItemsOf(fs[i], V(i)) \in Seq(W)
                        /\ \A k \in DOMAIN ItemsOf(fs[i], V(i)) : ItemsOf(fs[i], V(i))[k][1] = i
  <2> SUFFICES ASSUME NEW i \in 1 .. n
               PROVE  /\ ItemsOf(fs[i], V(i)) \in Seq(W)
                      /\ \A k \in DOMAIN ItemsOf(fs[i], V(i)) : ItemsOf(fs[i], V(i))[k][1] = i
    OBVIOUS
  <2>1. fs[i] \in FieldsOf(t) /\ V(i) \in Seq(C) /\ fs[i].no = i
    BY <1>1, <1>2
  <2> HIDE DEF V, fs
  <2> QED
    BY <2>1, ItemsOfAField
<1>4. \E g : IsFlattening(g, seqs, n) /\ Encode(t, m) = g[n]
  <2>1. Len(seqs) = n
    BY <1>1
  <2>2. Encode(t, m) = FlattenSeq(seqs)
    BY DEF Encode, ItemsOf
  <2> HIDE DEF seqs, n
  <2> QED
    BY <1>1, <2>1, <2>2, FlattenedSeq
<1>5. PICK g : IsFlattening(g, seqs, n) /\ Encode(t, m) = g[n]
  BY <1>4
<1>6. /\ g[1] = ItemsOf(fs[1], V(1))
      /\ \A k \in 1 .. n - 1 : g[k + 1] = g[k] \o ItemsOf(fs[k + 1], V(k + 1))
  <2>1. \A i \in 1 .. n : seqs[i] = ItemsOf(fs[i], V(i))
    BY <1>1
  <2> HIDE DEF seqs, n, V, fs
  <2>2. \A i \in 1 .. n : g[i] = IF i = 1 THEN seqs[i] ELSE g[i - 1] \o seqs[i]
    BY <1>5, Zenon DEF IsFlattening
  <2>3. 1 \in 1 .. n
    BY <1>1
  <2>4. \A k \in 1 .. n - 1 : k + 1 \in 1 .. n /\ k + 1 # 1 /\ (k + 1) - 1 = k
    BY <1>1
  <2> QED
    BY <2>1, <2>2, <2>3, <2>4
<1> HIDE DEF seqs
<1> DEFINE Good(k) == /\ g[k] \in Seq(W)
                      /\ \A x \in DOMAIN g[k] : g[k][x][1] \in 1 .. k
                      /\ \A i \in 1 .. k : Carries(fs[i], g[k], V(i))
           D == {k \in Nat : k + 1 <= n => Good(k + 1)}
<1>7. 0 \in D
  <2>1. <<>> \in Seq(W) /\ <<>> \o ItemsOf(fs[1], V(1)) = ItemsOf(fs[1], V(1))
    BY <1>1, <1>3
  <2>2. Carries(fs[1], <<>> \o ItemsOf(fs[1], V(1)), V(1))
    <3>1. V(1) \in Seq(C) /\ ItemsOf(fs[1], V(1)) \in Seq(W)
      BY <1>1, <1>2, <1>3
    <3>2. \A k \in DOMAIN <<>> : ~Matches(fs[1], <<>>[k])
      OBVIOUS
    <3> HIDE DEF V, fs, W
    <3> QED
      BY <2>1, <3>1, <3>2, OwnFollow
  <2> HIDE DEF V, fs, W, n
  <2>3. Good(1)
    BY <1>1, <1>3, <1>6, <2>1, <2>2
  <2> QED
    BY <2>3
<1>8. ASSUME NEW k \in D PROVE k + 1 \in D
  <2> SUFFICES ASSUME k + 2 <= n PROVE Good(k + 2)
    <3> HIDE DEF Good, n
    <3>1. k \in Nat
      OBVIOUS
    <3>2. n \in Nat
      BY <1>1
    <3>3. (k + 1) + 1 = k + 2
      BY <3>1
    <3> QED
      BY <3>1, <3>3
  <2>1. Good(k + 1)
    <3> HIDE DEF Good, n
    <3> QED
      BY <1>1
  <2> DEFINE j == k + 2
             u == ItemsOf(fs[j], V(j))
  <2>2. j \in 1 .. n /\ j - 1 \in 1 .. n - 1 /\ j - 1 = k + 1
    <3> HIDE DEF n
    <3> QED
      BY <1>1
  <2>3. Good(j - 1)
    <3> HIDE DEF Good, j
    <3> QED
      BY <2>1, <2>2
  <2> HIDE DEF j
  <2>4. g[j] = g[j - 1] \o u
    <3> HIDE DEF V, fs, n
    <3>1. (j - 1) + 1 = j
      BY <2>2
    <3> QED
      BY <1>6, <2>2, <3>1
  <2>5. /\ u \in Seq(W) /\ V(j) \in Seq(C)
        /\ \A x \in DOMAIN u : u[x][1] = j
    <3> HIDE DEF V, fs, n, W
    <3> QED
      BY <1>2, <1>3, <2>2
  <2>6. \A i \in 1 .. n : fs[i].no = i
    BY <1>1
  <2>7. g[j] \in Seq(W) /\ \A x \in DOMAIN g[j] : g[j][x][1] \in 1 .. j
    <3> HIDE DEF V, fs, n, W, u
    <3>1. g[j - 1] \in Seq(W) /\ \A x \in DOMAIN g[j - 1] : g[j - 1][x][1] \in 1 .. j - 1
      BY <2>3
    <3>2. /\ g[j - 1] \o u \in Seq(W)
          /\ \A x \in DOMAIN (g[j - 1] \o u) :
               \/ x \in DOMAIN g[j - 1] /\ (g[j - 1] \o u)[x] = g[j - 1][x]
               \/ x - Len(g[j - 1]) \in DOMAIN u /\ (g[j - 1] \o u)[x] = u[x - Len(g[j - 1])]
      BY <2>5, <3>1, Concatenated
    <3>3. 1 .. j - 1 \subseteq 1 .. j /\ j \in 1 .. j
      BY <2>2
    <3>4. ASSUME NEW x \in DOMAIN g[j]
          PROVE  g[j][x][1] \in 1 .. j
      <4>1. CASE x \in DOMAIN g[j - 1] /\ g[j][x] = g[j - 1][x]
        BY <3>1, <3>3, <4>1, Zenon
      <4>2. CASE x - Len(g[j - 1]) \in DOMAIN u /\ g[j][x] = u[x - Len(g[j - 1])]
        BY <2>5, <3>3, <4>2, Zenon
      <4> QED
        BY <2>4, <3>2, <4>1, <4>2, Zenon
    <3> QED
      BY <2>4, <3>2, <3>4
  <2>8. ASSUME NEW i \in 1 .. j
        PROVE  Carries(fs[i], g[j], V(i))
    <3>0. g[j - 1] \in Seq(W) /\ \A x \in DOMAIN g[j - 1] : g[j - 1][x][1] \in 1 .. j - 1
      BY <2>3
    <3>1. i \in 1 .. n
      <4> HIDE DEF n
      <4> QED
        BY <1>1, <2>2
    <3>2. V(i) \in Seq(C) /\ fs[i].no = i
      BY <1>1, <1>2, <3>1
    <3>3. CASE i = j
      <4>1. \A x \in DOMAIN g[j - 1] : ~Matches(fs[j], g[j - 1][x])
        <5>1. fs[j].no = j /\ j \notin 1 .. j - 1
          BY <2>2, <2>6
        <5> HIDE DEF fs
        <5> QED
          BY <3>0, <5>1, Zenon DEF Matches
      <4> HIDE DEF V, fs, W
      <4>2. Carries(fs[j], g[j - 1] \o u, V(j))
        BY <2>5, <3>0, <4>1, OwnFollow
      <4> QED
        BY <2>4, <3>3, <4>2
    <3>4. CASE i # j
      <4>1. i \in 1 .. j - 1
        BY <2>2, <3>4
      <4>2. \A x \in DOMAIN u : ~Matches(fs[i], u[x])
        <5> HIDE DEF u, fs
        <5> QED
          BY <2>5, <3>2, <3>4 DEF Matches
      <4>3. Carries(fs[i], g[j - 1], V(i))
        BY <2>3, <4>1
      <4> HIDE DEF V, fs, W, u
      <4>4. Carries(fs[i], g[j - 1] \o u, V(i))
        BY <2>5, <3>0, <3>2, <4>2, <4>3, OthersFollow
      <4> QED
        BY <2>4, <4>4
    <3> QED
      BY <3>3, <3>4
  <2>9. Good(j)
    BY <2>7, <2>8
  <2> QED
    BY <2>9 DEF j
<1>9. D = Nat
  <2>1. D \in SUBSET Nat
    OBVIOUS
  <2> HIDE DEF D
  <2> QED
    BY <1>7, <1>8, <2>1, SetInduction
<1>10. Good(n)
  <2>1. n - 1 \in D /\ (n - 1) + 1 = n
    <3> HIDE DEF D, n
    <3> QED
      BY <1>1, <1>9
  <2> HIDE DEF Good, n
  <2> QED
    BY <1>1, <2>1
<1>11. ASSUME NEW f \in FieldsOf(t)
       PROVE  Carries(f, Encode(t, m), Contents(f, m[f.name]))
  <2>1. PICK i \in 1 .. n : f = fs[i]
    BY <1>1 DEF FieldsOf
  <2> QED
    BY <1>5, <1>10, <2>1
<1> QED
  BY <1>5, <1>10, <1>11
-----------------------------------------------------------------------------
(* Decoding.                                                               *)

\* A message object has the names of its type.
HasNames(t, m) == m = [n \in Names(t) |-> m[n]]

\* One turn of decode's loop, for the field the item is of and for any other.
LEMMA OwnItemDecoded ==
  ASSUME NEW t \in DOMAIN Messages, NEW f \in FieldsOf(t), NEW m, HasNames(t, m),
         NEW item, Matches(f, item)
  PROVE  /\ HasNames(t, DecodeItem(t, m, item))
         /\ DecodeItem(t, m, item)[f.name] =
              IF Repeated(f) THEN Append(m[f.name], Read(f, item[3])) ELSE Read(f, item[3])
<1> DEFINE v == Read(f, item[3])
           new == IF Repeated(f) THEN Append(m[f.name], v) ELSE v
<1>1. DecodeItem(t, m, item) = Store(m, f, v)
  BY ItemMatchesOne DEF DecodeItem
<1>2. Store(m, f, v) = [m EXCEPT ![f.name] = new]
  BY DEF Store
<1>3. f.name \in DOMAIN m /\ DOMAIN m = Names(t)
  BY NamesTellFields DEF HasNames
<1> HIDE DEF new, v
<1>4. HasNames(t, [m EXCEPT ![f.name] = new]) /\ [m EXCEPT ![f.name] = new][f.name] = new
  BY <1>3 DEF HasNames
<1> QED
  BY <1>1, <1>2, <1>4 DEF new, v

LEMMA OtherItemDecoded ==
  ASSUME NEW t \in DOMAIN Messages, NEW f \in FieldsOf(t), NEW m, HasNames(t, m),
         NEW item, ~Matches(f, item)
  PROVE  /\ HasNames(t, DecodeItem(t, m, item))
         /\ DecodeItem(t, m, item)[f.name] = m[f.name]
<1>1. CASE \E g \in FieldsOf(t) : Matches(g, item)
  <2>1. PICK g \in FieldsOf(t) : Matches(g, item)
    BY <1>1
  <2>2. g.name # f.name /\ g.name \in Names(t)
    BY <2>1, FieldsAreApart, NamesTellFields DEF Apart
  <2> DEFINE v == Read(g, item[3])
             new == IF Repeated(g) THEN Append(m[g.name], v) ELSE v
  <2>3. DecodeItem(t, m, item) = Store(m, g, v)
    BY <2>1, ItemMatchesOne DEF DecodeItem
  <2>4. Store(m, g, v) = [m EXCEPT ![g.name] = new]
    BY DEF Store
  <2>5. f.name \in DOMAIN m /\ DOMAIN m = Names(t)
    BY NamesTellFields DEF HasNames
  <2> HIDE DEF new, v
  <2>6. HasNames(t, [m EXCEPT ![g.name] = new]) /\ [m EXCEPT ![g.name] = new][f.name] = m[f.name]
    BY <2>2, <2>5 DEF HasNames
  <2> QED
    BY <2>3, <2>4, <2>6
<1>2. CASE ~\E g \in FieldsOf(t) : Matches(g, item)
  BY <1>2 DEF DecodeItem
<1> QED
  BY <1>1, <1>2

\* What decode makes of the first n values of a field.
FirstRead(f, vals, n) ==
  IF Repeated(f) THEN SubSeq(vals, 1, n) ELSE IF n = 0 THEN Default(f) ELSE Read(f, vals[n])

\* decode makes of each field what its items carry, by induction over them.
LEMMA FieldDecoded ==
  ASSUME NEW t \in DOMAIN Messages, NEW S, NEW items \in Seq(S), NEW f \in FieldsOf(t),
         NEW C, NEW vals \in Seq(C), Carries(f, items, vals)
  PROVE  /\ HasNames(t, Decode(t, items))
         /\ Decode(t, items)[f.name] = FirstRead(f, vals, Len(vals))
<1> DEFINE n == Len(items)
           last == Len(vals)
           R(c) == FirstRead(f, vals, c)
<1>1. n \in Nat /\ DOMAIN items = 1 .. n /\ last \in Nat /\ DOMAIN vals = 1 .. last
  OBVIOUS
<1>2. PICK g : IsDecoding(g, t, items, n) /\ Decode(t, items) = g[n]
  BY <1>1, Decoded
<1>3. g[0] = Base(t) /\ \A k \in 1 .. n : g[k] = DecodeItem(t, g[k - 1], items[k])
  <2> HIDE DEF n
  <2>1. \A k \in 0 .. n : g[k] = IF k = 0 THEN Base(t) ELSE DecodeItem(t, g[k - 1], items[k])
    BY <1>2, Zenon DEF IsDecoding
  <2>2. 0 \in 0 .. n /\ \A k \in 1 .. n : k \in 0 .. n /\ k # 0
    BY <1>1
  <2> QED
    BY <2>1, <2>2, Zenon
<1>4. PICK pos \in [DOMAIN vals -> DOMAIN items] :
        /\ \A i, j \in DOMAIN vals : i < j => pos[i] < pos[j]
        /\ \A i \in DOMAIN vals : items[pos[i]] = <<f.no, Wire(f), vals[i]>>
        /\ \A k \in DOMAIN items : Matches(f, items[k]) => \E i \in DOMAIN vals : pos[i] = k
  BY DEF Carries
<1> DEFINE Count(c, k) == \A i \in DOMAIN vals : pos[i] <= k <=> i <= c
           Good(k) == HasNames(t, g[k]) /\ \A c \in 0 .. last : Count(c, k) => g[k][f.name] = R(c)
           D == {k \in Nat : k <= n => Good(k)}
<1>5. 0 \in D
  <2>1. HasNames(t, Base(t)) /\ Base(t)[f.name] = Default(f)
    BY NamesTellFields DEF HasNames, Base
  <2>2. ASSUME NEW c \in 0 .. last, Count(c, 0)
        PROVE  c = 0
    <3> SUFFICES ASSUME c # 0 PROVE FALSE
      OBVIOUS
    <3>1. c \in DOMAIN vals /\ c <= c
      BY <1>1
    <3>2. pos[c] \in 1 .. n
      BY <1>1, <3>1
    <3> HIDE DEF n
    <3> QED
      BY <2>2, <3>1, <3>2
  <2>3. R(0) = Default(f)
    <3>1. Repeated(f) => Default(f) = <<>>
      BY FieldsAreApart, KindsAndWires
    <3>2. SubSeq(vals, 1, 0) = <<>>
      OBVIOUS
    <3> QED
      BY <3>1, <3>2 DEF FirstRead
  <2> HIDE DEF R, Count, last
  <2>4. Good(0)
    BY <1>3, <2>1, <2>2, <2>3
  <2> QED
    BY <2>4
<1>6. ASSUME NEW k \in D PROVE k + 1 \in D
  <2> DEFINE j == k + 1
  <2> SUFFICES ASSUME j <= n PROVE Good(j)
    OBVIOUS
  <2>1. j \in 1 .. n /\ j - 1 = k /\ k \in Nat /\ k <= n
    BY <1>1
  <2>2. Good(k)
    <3> HIDE DEF Good, n
    <3> QED
      BY <2>1
  <2>3. g[j] = DecodeItem(t, g[k], items[j])
    <3> HIDE DEF j, n
    <3> QED
      BY <1>3, <2>1
  <2> HIDE DEF j, n
  <2>4. HasNames(t, g[k])
    BY <2>2
  <2>5. CASE ~Matches(f, items[j])
    <3>1. HasNames(t, g[j]) /\ g[j][f.name] = g[k][f.name]
      BY <2>3, <2>4, <2>5, OtherItemDecoded
    <3>2. ASSUME NEW c \in 0 .. last, Count(c, j)
          PROVE  Count(c, k)
      <4> SUFFICES ASSUME NEW i \in DOMAIN vals
                   PROVE  pos[i] <= k <=> i <= c
        OBVIOUS
      <4>1. pos[i] # j
        <5>1. items[pos[i]] = <<f.no, Wire(f), vals[i]>>
          BY <1>4
        <5>2. Matches(f, items[pos[i]])
          BY <5>1 DEF Matches
        <5> QED
          BY <2>5, <5>2
      <4>2. pos[i] \in Nat
        BY <1>1
      <4>3. pos[i] <= j <=> i <= c
        BY <3>2
      <4> QED
        BY <2>1, <4>1, <4>2, <4>3
    <3> HIDE DEF R, Count
    <3> QED
      BY <2>2, <3>1, <3>2
  <2>6. CASE Matches(f, items[j])
    <3>1. PICK c \in DOMAIN vals : pos[c] = j
      BY <1>1, <1>4, <2>1, <2>6
    <3>2. items[j][3] = vals[c]
      <4>1. items[j] = <<f.no, Wire(f), vals[c]>>
        BY <1>4, <3>1
      <4> QED
        BY <4>1
    <3>3. /\ HasNames(t, g[j])
          /\ g[j][f.name] = IF Repeated(f) THEN Append(g[k][f.name], Read(f, vals[c]))
                            ELSE Read(f, vals[c])
      BY <2>3, <2>4, <2>6, <3>2, OwnItemDecoded
    <3>4. Count(c - 1, k) /\ c - 1 \in 0 .. last
      <4>1. c \in 1 .. last
        BY <1>1
      <4> SUFFICES ASSUME NEW i \in DOMAIN vals
                   PROVE  pos[i] <= k <=> i <= c - 1
        BY <4>1
      <4>2. pos[i] \in Nat /\ i \in Nat /\ c \in Nat
        BY <1>1
      <4>3. i < c => pos[i] < j
        BY <1>4, <3>1
      <4>4. c < i => j < pos[i]
        BY <1>4, <3>1
      <4>5. i = c => pos[i] = j
        BY <3>1
      <4> QED
        BY <2>1, <4>2, <4>3, <4>4, <4>5
    <3>5. g[k][f.name] = R(c - 1)
      <4> HIDE DEF R, Count
      <4> QED
        BY <2>2, <3>4
    <3>6. ASSUME NEW d \in 0 .. last, Count(d, j)
          PROVE  d = c
      <4>1. c <= d
        BY <2>1, <3>1, <3>6
      <4>2. CASE c < d
        <5>1. d \in DOMAIN vals /\ d <= d
          BY <1>1, <4>2
        <5>2. pos[d] <= j
          BY <3>6, <5>1
        <5>3. j < pos[d]
          BY <1>4, <3>1, <4>2, <5>1
        <5>4. pos[d] \in Nat
          BY <1>1, <5>1
        <5> QED
          BY <2>1, <5>2, <5>3, <5>4
      <4> QED
        BY <1>1, <4>1, <4>2
    <3>7. g[j][f.name] = R(c)
      <4>1. c \in 1 .. last
        BY <1>1
      <4>2. CASE Repeated(f)
        <5>1. Read(f, vals[c]) = vals[c]
          BY <4>2 DEF Read, Is64Bit, Repeated
        <5>2. Append(SubSeq(vals, 1, c - 1), vals[c]) = SubSeq(vals, 1, c)
          BY <4>1
        <5> QED
          BY <3>3, <3>5, <4>2, <5>1, <5>2 DEF FirstRead
      <4>3. CASE ~Repeated(f)
        BY <3>3, <4>1, <4>3 DEF FirstRead
      <4> QED
        BY <4>2, <4>3
    <3> HIDE DEF R, Count
    <3> QED
      BY <3>3, <3>6, <3>7
  <2> QED
    BY <2>5, <2>6
<1>7. D = Nat
  <2>1. D \in SUBSET Nat
    OBVIOUS
  <2> HIDE DEF D
  <2> QED
    BY <1>5, <1>6, <2>1, SetInduction
<1>8. Good(n)
  <2>1. n \in D
    <3> HIDE DEF D, n
    <3> QED
      BY <1>1, <1>7
  <2> HIDE DEF Good, n
  <2> QED
    BY <1>1, <2>1
<1>9. Count(last, n)
  BY <1>1
<1> QED
  <2>1. last \in 0 .. last
    BY <1>1
  <2> HIDE DEF R, Count, n
  <2>2. g[n][f.name] = R(last)
    BY <1>8, <1>9, <2>1
  <2> QED
    BY <1>2, <1>8, <2>2 DEF R

\* What an item may hold.
Content == Texts \cup BOOLEAN \cup Int \cup Parts \cup {Foreign}

\* What a field may hold, by its kind.
LEMMA ValuesByKind ==
  ASSUME NEW types, DOMAIN types \subseteq Parts, NEW f, f.kind \in KindNames,
         NEW v \in Values(f, types)
  PROVE  /\ f.kind \in {"string", "bytes"} => v \in Texts
         /\ f.kind = "bool" => v \in BOOLEAN
         /\ f.kind \in {"int32", "int64", "uint64", "enum"} => v \in Int
         /\ Is64Bit(f) => v \in Bits64
         /\ f.kind = "strings" => v \in Seq(Texts)
         /\ f.kind = "message" => v \in Parts \/ v = Undefined
         /\ f.kind = "messages" => v \in Seq(Parts)
<1>1. {p \in DOMAIN types : types[p] = f.of} \subseteq Parts
  OBVIOUS
<1>2. Seq({p \in DOMAIN types : types[p] = f.of}) \subseteq Seq(Parts)
  BY <1>1, SeqMonotonic
<1>3. Is64Bit(f) => v \in Bits64
  BY DEF Values, Is64Bit
<1>4. Bits64 \subseteq Int
  BY NumbersAreRounded
<1>5. f.kind \in {"int32", "int64", "uint64", "enum"} => v \in Int
  BY <1>3, <1>4 DEF Values, Is64Bit
<1> QED
  BY <1>1, <1>2, <1>3, <1>5 DEF Values, KindNames

LEMMA ContentsAreTyped ==
  ASSUME NEW types, DOMAIN types \subseteq Parts, NEW f, f.kind \in KindNames,
         NEW v \in Values(f, types)
  PROVE  Contents(f, v) \in Seq(Content)
<1>1. CASE Repeated(f)
  <2>1. v \in Seq(Texts) \/ v \in Seq(Parts)
    BY <1>1, ValuesByKind DEF Repeated
  <2>2. Texts \subseteq Content /\ Parts \subseteq Content
    BY DEF Content
  <2>3. v \in Seq(Content)
    BY <2>1, <2>2, SeqMonotonic
  <2> QED
    BY <1>1, <2>3 DEF Contents
<1>2. CASE ~Repeated(f) /\ IsWritten(f, v)
  <2>1. v \in Texts \/ v \in BOOLEAN \/ v \in Int \/ v \in Parts \/ v = Undefined
    BY <1>2, ValuesByKind DEF Repeated, KindNames
  <2>2. v = Undefined => v \in Content
    BY <1>2, <2>1, ValuesByKind, KindsAndWires DEF Repeated, IsWritten, KindNames, Content
  <2>3. v \in Content
    BY <2>1, <2>2 DEF Content
  <2> QED
    BY <1>2, <2>3 DEF Contents
<1>3. CASE ~Repeated(f) /\ ~IsWritten(f, v)
  BY <1>3 DEF Contents
<1> QED
  BY <1>1, <1>2, <1>3

LEMMA ContentsAreReadBack ==
  ASSUME NEW types, DOMAIN types \subseteq Parts, NEW f, f.kind \in KindNames,
         NEW v \in Values(f, types), Is64Bit(f) => v \in SafeIntegers
  PROVE  FirstRead(f, Contents(f, v), Len(Contents(f, v))) = v
<1>1. CASE Repeated(f)
  <2>1. v \in Seq(Content) /\ Contents(f, v) = v
    BY <1>1, ContentsAreTyped DEF Contents
  <2>2. SubSeq(v, 1, Len(v)) = v
    BY <2>1
  <2> QED
    BY <1>1, <2>1, <2>2 DEF FirstRead
<1>2. CASE ~Repeated(f) /\ IsWritten(f, v)
  <2>1. Contents(f, v) = <<v>> /\ Len(<<v>>) = 1 /\ <<v>>[1] = v
    BY <1>2 DEF Contents
  <2>2. Read(f, v) = v
    <3>1. CASE Is64Bit(f)
      <4>1. v \in Bits64 /\ v \in SafeIntegers
        BY <3>1, ValuesByKind
      <4> QED
        BY <3>1, <4>1, NumbersAreExactOrRefused DEF Read
    <3>2. CASE ~Is64Bit(f)
      BY <3>2 DEF Read
    <3> QED
      BY <3>1, <3>2
  <2> QED
    BY <1>2, <2>1, <2>2 DEF FirstRead
<1>3. CASE ~Repeated(f) /\ ~IsWritten(f, v)
  <2>1. Contents(f, v) = <<>> /\ Len(<<>>) = 0 /\ v = Default(f)
    BY <1>3 DEF Contents, IsWritten
  <2> QED
    BY <1>3, <2>1 DEF FirstRead
<1> QED
  BY <1>1, <1>2, <1>3

IsSafeObject(t, m) == \A f \in FieldsOf(t) : Is64Bit(f) => m[f.name] \in SafeIntegers

CarriesObject(t, items, m) ==
  /\ items \in Seq(WireItems(Content))
  /\ \A f \in FieldsOf(t) : Carries(f, items, Contents(f, m[f.name]))

\* decode throws exactly when a 64-bit number is past the safe integers, and
\* else it returns the message.
LEMMA UnsafeThrow ==
  ASSUME NEW types, DOMAIN types \subseteq Parts, NEW t \in DOMAIN Messages, NEW m,
         IsObject(t, m, types), NEW items, CarriesObject(t, items, m)
  PROVE  DecodeThrows(t, items) <=> ~IsSafeObject(t, m)
<1>1. ASSUME NEW f \in FieldsOf(t), Is64Bit(f)
      PROVE  /\ m[f.name] \in Bits64
             /\ longToNumber(m[f.name]) = Threw <=> m[f.name] \notin SafeIntegers
             /\ Contents(f, m[f.name]) = IF m[f.name] = 0 THEN <<>> ELSE <<m[f.name]>>
  <2>1. m[f.name] \in Bits64 /\ ~Repeated(f) /\ Default(f) = 0
    BY <1>1, FieldsAreApart, ValuesByKind, KindsAndWires DEF IsObject, Is64Bit, Repeated
  <2>2. longToNumber(m[f.name]) = Threw <=> m[f.name] \notin SafeIntegers
    BY <2>1, NumbersAreExactOrRefused, NumbersAreRounded, ThrewAssumption
  <2> QED
    BY <2>1, <2>2 DEF Contents, IsWritten
<1>2. ASSUME NEW i \in DOMAIN items, NEW f \in FieldsOf(t),
             Matches(f, items[i]), Is64Bit(f), longToNumber(items[i][3]) = Threw
      PROVE  ~IsSafeObject(t, m)
  <2> DEFINE vals == Contents(f, m[f.name])
  <2>1. Carries(f, items, vals)
    BY DEF CarriesObject
  <2>2. PICK j \in DOMAIN vals : items[i] = <<f.no, Wire(f), vals[j]>>
    <3> HIDE DEF vals
    <3> QED
      BY <1>2, <2>1 DEF Carries
  <2>3. vals = IF m[f.name] = 0 THEN <<>> ELSE <<m[f.name]>>
    BY <1>1, <1>2
  <2> HIDE DEF vals
  <2>4. vals[j] = m[f.name]
    <3>1. vals # <<>>
      OBVIOUS
    <3>2. vals = <<m[f.name]>>
      BY <2>3, <3>1
    <3> QED
      BY <3>2
  <2>5. items[i][3] = m[f.name]
    BY <2>2, <2>4
  <2> QED
    BY <1>1, <1>2, <2>5 DEF IsSafeObject
<1>3. ASSUME NEW f \in FieldsOf(t), Is64Bit(f), m[f.name] \notin SafeIntegers
      PROVE  DecodeThrows(t, items)
  <2> DEFINE vals == Contents(f, m[f.name])
  <2>1. Carries(f, items, vals)
    BY DEF CarriesObject
  <2>2. 0 \in SafeIntegers
    BY MaxSafeAssumption DEF SafeIntegers
  <2>3. 1 \in DOMAIN vals /\ vals[1] = m[f.name]
    <3>1. m[f.name] # 0
      BY <1>3, <2>2
    <3>2. vals = <<m[f.name]>>
      BY <1>1, <1>3, <3>1
    <3> QED
      BY <3>2
  <2>4. PICK i \in DOMAIN items : items[i] = <<f.no, Wire(f), m[f.name]>>
    <3> HIDE DEF vals
    <3> QED
      BY <2>1, <2>3 DEF Carries
  <2>5. Matches(f, items[i]) /\ items[i][3] = m[f.name]
    BY <2>4 DEF Matches
  <2> QED
    BY <1>1, <1>3, <2>5 DEF DecodeThrows
<1> QED
  BY <1>2, <1>3 DEF DecodeThrows, IsSafeObject

LEMMA ObjectDecoded ==
  ASSUME NEW types, DOMAIN types \subseteq Parts, NEW t \in DOMAIN Messages, NEW m,
         IsObject(t, m, types), IsSafeObject(t, m), NEW items, CarriesObject(t, items, m)
  PROVE  Decode(t, items) = m
<1> DEFINE d == Decode(t, items)
<1>1. ASSUME NEW f \in FieldsOf(t)
      PROVE  HasNames(t, d) /\ d[f.name] = m[f.name]
  <2> DEFINE vals == Contents(f, m[f.name])
  <2>1. f.kind \in KindNames /\ m[f.name] \in Values(f, types)
    BY FieldsAreApart DEF IsObject
  <2>2. vals \in Seq(Content) /\ FirstRead(f, vals, Len(vals)) = m[f.name]
    BY <2>1, ContentsAreTyped, ContentsAreReadBack DEF IsSafeObject
  <2>3. items \in Seq(WireItems(Content)) /\ Carries(f, items, vals)
    BY DEF CarriesObject
  <2> HIDE DEF vals
  <2> QED
    BY <2>2, <2>3, FieldDecoded
<1>2. \E f \in FieldsOf(t) : TRUE
  <2>1. Sound(Messages[t])
    BY TablesAreSound
  <2>2. 1 \in DOMAIN Messages[t]
    BY <2>1 DEF Sound
  <2> QED
    BY <2>2 DEF FieldsOf
<1>3. HasNames(t, d)
  BY <1>1, <1>2
<1>4. \A n \in Names(t) : d[n] = m[n]
  BY <1>1, NamesTellFields
<1> HIDE DEF d
<1> QED
  BY <1>3, <1>4 DEF HasNames, IsObject, d
-----------------------------------------------------------------------------
(* JSON.                                                                   *)

\* In either style a key is one field's.
LEMMA KeysTellFields ==
  ASSUME NEW t \in DOMAIN Messages, NEW f \in FieldsOf(t), NEW g \in FieldsOf(t),
         NEW style \in Styles, Key(f, style) = Key(g, style)
  PROVE  f = g
BY FieldsAreApart DEF Styles, Key, Apart

\* A value that is written in JSON is neither missing nor null, and read as
\* what it was, as far as JSON and doubles can say it.
LEMMA ValueSurvivesJson ==
  ASSUME NEW types, DOMAIN types \subseteq Parts, NEW f, f.kind \in KindNames,
         f.kind = "enum" => f.of \in DOMAIN Enums,
         NEW v \in Values(f, types),
         NEW style \in Styles, ~(f.kind = "message" /\ v = Undefined)
  PROVE  /\ JsonOf(f, v, style) \notin {Undefined, Null}
         /\ IsReadAs(f, v, Parse(f, JsonOf(f, v, style)))
<1>1. CASE f.kind = "enum"
  <2>1. v \in Int /\ ~Is64Bit(f) /\ f.of \in DOMAIN Enums
    BY <1>1, ValuesByKind DEF Is64Bit
  <2>2. CASE style = "own"
    <3>1. JsonOf(f, v, style) = <<"name", EnumToJSON(Enums[f.of], v)>>
      BY <1>1, <2>2 DEF JsonOf
    <3>2. EnumToJSON(Enums[f.of], v) \in EnumNames
      <4>1. CASE v + 1 \in DOMAIN Enums[f.of]
        <5> DEFINE names == Enums[f.of]
                   of == {names[i] : i \in DOMAIN names}
        <5>1. EnumToJSON(names, v) = names[v + 1]
          BY <4>1 DEF EnumToJSON
        <5>2. names[v + 1] \in of
          BY <4>1, Zenon
        <5>3. of \in {{Enums[e][i] : i \in DOMAIN Enums[e]} : e \in DOMAIN Enums}
          BY <2>1, Zenon
        <5> HIDE DEF of
        <5>4. names[v + 1] \in EnumNames
          BY <5>2, <5>3, Zenon DEF EnumNames
        <5> QED
          BY <5>1, <5>4, Zenon
      <4>2. CASE v + 1 \notin DOMAIN Enums[f.of]
        BY <4>2, Zenon DEF EnumToJSON, EnumNames
      <4> QED
        BY <4>1, <4>2
    <3>3. JsonOf(f, v, style) \notin {Undefined, Null}
      BY <3>1, <3>2, JsonAssumption
    <3> QED
      BY <1>1, <2>1, <3>1, <3>3, EnumsSurviveJson DEF Parse, Known, IsReadAs
  <2>3. CASE style # "own"
    <3>1. JsonOf(f, v, style) = <<"number", v>>
      BY <1>1, <2>3 DEF JsonOf
    <3>2. <<"number", v>> \in {"number", "digits"} \X Int
      BY <2>1
    <3>3. JsonOf(f, v, style) \notin {Undefined, Null}
      BY <3>1, <3>2, JsonAssumption
    <3> QED
      BY <1>1, <2>1, <3>1, <3>3, EnumsSurviveJson DEF Parse, Known, IsReadAs
  <2> QED
    BY <2>2, <2>3
<1>2. CASE f.kind = "bytes"
  <2>1. v \in Texts /\ JsonOf(f, v, style) = <<"base64", v>>
    BY <1>2, ValuesByKind DEF JsonOf
  <2>2. <<"base64", v>> \in {"base64"} \X Texts /\ <<"base64", v>>[2] = v
    BY <2>1
  <2>3. JsonOf(f, v, style) \notin {Undefined, Null}
    BY <2>1, <2>2, JsonAssumption
  <2> QED
    BY <1>2, <2>1, <2>2, <2>3 DEF Parse, IsReadAs, Is64Bit
<1>3. CASE Is64Bit(f)
  <2>1. v \in Int /\ v \in Bits64 /\ f.kind \notin {"enum", "bytes", "message"}
    BY <1>3, ValuesByKind DEF Is64Bit
  <2>2. PICK tag \in {"number", "digits"} : JsonOf(f, v, style) = <<tag, v>>
    BY <1>3, <2>1 DEF JsonOf
  <2>3. <<tag, v>> \in {"number", "digits"} \X Int /\ <<tag, v>>[2] = v
    BY <2>1
  <2>4. JsonOf(f, v, style) \notin {Undefined, Null}
    BY <2>2, <2>3, JsonAssumption
  <2>5. IF IsDouble(v) THEN Number(v) = v ELSE Number(v) \notin SafeIntegers
    BY <2>1, NumbersAreRounded
  <2> QED
    BY <1>3, <2>1, <2>2, <2>3, <2>4, <2>5 DEF Parse, IsReadAs
<1>4. CASE f.kind \notin {"enum", "bytes"} /\ ~Is64Bit(f)
  <2>1. JsonOf(f, v, style) = v /\ Parse(f, v) = v
    BY <1>4 DEF JsonOf, Parse
  <2>2. v \in Texts \/ v \in BOOLEAN \/ v \in Int \/ v \in Parts \/ v \in Seq(Texts) \/ v \in Seq(Parts)
    BY <1>4, ValuesByKind DEF KindNames
  <2>3. v \notin {Undefined, Null}
    BY <2>2, JsonAssumption, Zenon
  <2> QED
    BY <1>4, <2>1, <2>3 DEF IsReadAs
<1> QED
  BY <1>1, <1>2, <1>3, <1>4

\* fromJSON finds each field of what toJSON wrote, and only there.
LEMMA FieldSurvivesJson ==
  ASSUME NEW types, DOMAIN types \subseteq Parts, NEW t \in DOMAIN Messages, NEW m,
         IsObject(t, m, types), NEW f \in FieldsOf(t), NEW style \in Styles
  PROVE  IsReadAs(f, m[f.name], FieldFromJSON(f, ToJSON(t, m, style)))
<1> DEFINE v == m[f.name]
           j == ToJSON(t, m, style)
           present == {g \in FieldsOf(t) : style = "own" => IsWritten(g, m[g.name])}
<1>1. /\ f.kind \in KindNames /\ (f.kind = "enum" => f.of \in DOMAIN Enums)
      /\ v \in Values(f, types)
  BY FieldsAreApart DEF IsObject
<1>2. /\ DOMAIN j = {Key(g, style) : g \in present}
      /\ f \in present => j[Key(f, style)] = JsonOf(f, v, style)
  <2>1. f \in present => (CHOOSE g \in present : Key(g, style) = Key(f, style)) = f
    BY KeysTellFields
  <2> QED
    BY <2>1 DEF ToJSON
<1>3. CASE f \in present
  <2>1. Given(f, j) = JsonOf(f, v, style)
    <3>1. CASE style = "own"
      BY <1>2, <1>3, <3>1 DEF Given, Key
    <3>2. CASE style # "own"
      <4>1. f.key \in DOMAIN j /\ j[f.key] = JsonOf(f, v, style)
        BY <1>2, <1>3, <3>2 DEF Key
      <4>2. f.name \in DOMAIN j => f.name = f.key
        <5>1. \A g \in present : f.name = g.key => g = f
          BY FieldsAreApart DEF Apart
        <5> QED
          BY <1>2, <3>2, <5>1 DEF Key
      <4> QED
        BY <4>1, <4>2 DEF Given
    <3> QED
      BY <3>1, <3>2
  <2>2. CASE f.kind = "message" /\ v = Undefined
    <3>1. Given(f, j) = Null
      BY <2>1, <2>2 DEF JsonOf
    <3>2. Default(f) = v
      BY <1>1, <2>2, KindsAndWires
    <3>3. FieldFromJSON(f, j) = v
      <4> HIDE DEF v, j
      <4> QED
        BY <3>1, <3>2 DEF FieldFromJSON
    <3> QED
      BY <2>2, <3>3 DEF IsReadAs, Is64Bit
  <2>3. CASE ~(f.kind = "message" /\ v = Undefined)
    <3>1. /\ JsonOf(f, v, style) \notin {Undefined, Null}
          /\ IsReadAs(f, v, Parse(f, JsonOf(f, v, style)))
      <4> HIDE DEF v
      <4> QED
        BY <1>1, <2>3, ValueSurvivesJson
    <3>2. FieldFromJSON(f, j) = Parse(f, JsonOf(f, v, style))
      <4> HIDE DEF v, j
      <4> QED
        BY <2>1, <3>1 DEF FieldFromJSON
    <3> QED
      BY <3>1, <3>2
  <2> QED
    BY <2>2, <2>3
<1>4. CASE f \notin present
  <2>1. style = "own" /\ v = Default(f)
    BY <1>4 DEF IsWritten
  <2>2. f.name \notin DOMAIN j /\ f.key \notin DOMAIN j
    <3>1. \A g \in present : g # f
      BY <1>4
    <3>2. \A g \in present : g.name # f.name /\ g.name # f.key
      BY <3>1, FieldsAreApart DEF Apart
    <3> QED
      BY <1>2, <2>1, <3>2 DEF Key
  <2>3. Given(f, j) = Undefined
    BY <2>2 DEF Given
  <2>4. FieldFromJSON(f, j) = v
    <3> HIDE DEF v, j
    <3> QED
      BY <2>1, <2>3 DEF FieldFromJSON
  <2>5. IsReadAs(f, v, v)
    <3>1. CASE f.kind = "enum"
      <4>1. v = 0 /\ f.of \in DOMAIN Enums
        BY <1>1, <2>1, <3>1, KindsAndWires
      <4>2. 0 \in 0 .. Len(Enums[f.of]) - 1
        BY <4>1, EnumsAreUnambiguous DEF Unambiguous
      <4> QED
        BY <3>1, <4>1, <4>2 DEF IsReadAs, Is64Bit
    <3>2. CASE Is64Bit(f)
      <4>1. v = 0 /\ 0 \in Bits64 /\ 0 \in SafeIntegers
        BY <1>1, <2>1, <3>2, KindsAndWires, ValuesByKind, MaxSafeAssumption
           DEF Is64Bit, SafeIntegers
      <4> QED
        BY <3>2, <4>1, NumbersAreRounded DEF IsReadAs, Is64Bit
    <3> QED
      BY <3>1, <3>2 DEF IsReadAs
  <2> QED
    BY <2>4, <2>5
<1> QED
  BY <1>3, <1>4

\* What JSON makes of an object: its fields, each read as JSON can say it.
IsObjectReadAs(t, m, r) ==
  DOMAIN r = DOMAIN m /\ \A f \in FieldsOf(t) : IsReadAs(f, m[f.name], r[f.name])

LEMMA ObjectSurvivesJson ==
  ASSUME NEW types, DOMAIN types \subseteq Parts, NEW t \in DOMAIN Messages, NEW m,
         IsObject(t, m, types), NEW style \in Styles
  PROVE  IsObjectReadAs(t, m, FromJSON(t, ToJSON(t, m, style)))
<1> DEFINE j == ToJSON(t, m, style)
           r == FromJSON(t, j)
<1>1. DOMAIN r = DOMAIN m
  BY DEF FromJSON, IsObject
<1>2. ASSUME NEW f \in FieldsOf(t)
      PROVE  IsReadAs(f, m[f.name], r[f.name])
  <2>1. FieldNamed(t, f.name) = f /\ f.name \in Names(t)
    BY NamesTellFields
  <2>2. IsReadAs(f, m[f.name], FieldFromJSON(f, j))
    BY FieldSurvivesJson
  <2> HIDE DEF j
  <2> QED
    BY <2>1, <2>2 DEF FromJSON
<1> QED
  BY <1>1, <1>2 DEF IsObjectReadAs
-----------------------------------------------------------------------------
(* A message on its way.  The invariant: each part is carried by what was  *)
(* written of it, in spite of the fields that others added or moved.       *)

\* Each part of a message is carried by its items.
CarriesParts(types, items, parts) ==
  /\ items = [p \in DOMAIN parts |-> items[p]]
  /\ \A p \in DOMAIN parts : CarriesObject(types[p], items[p], parts[p])

BinaryInv ==
  path = "binary" =>
    /\ IsMessage(type, sent)
    /\ carried # Undefined => CarriesParts(type, carried, sent)
    /\ DecodedIsSent

JsonInv ==
  path = "json" =>
    /\ IsMessage(type, sent)
    /\ carried # Undefined => \E style \in Styles : carried = PartsToJSON(type, sent, style)
    /\ JsonRoundTrips

\* The parts of a message are objects of their types.
LEMMA PartsOfAMessage ==
  ASSUME NEW types, NEW parts, IsMessage(types, parts)
  PROVE  /\ DOMAIN parts = DOMAIN types /\ DOMAIN types \subseteq Parts
         /\ parts = [p \in DOMAIN parts |-> parts[p]]
         /\ \A p \in DOMAIN parts :
              types[p] \in DOMAIN Messages /\ IsObject(types[p], parts[p], types)
<1>1. parts = [p \in DOMAIN types |-> parts[p]]
  BY DEF IsMessage
<1>2. DOMAIN parts = DOMAIN types
  BY <1>1
<1> QED
  BY <1>1, <1>2 DEF IsMessage

LEMMA ContentsOfAnObject ==
  ASSUME NEW types, DOMAIN types \subseteq Parts, NEW t \in DOMAIN Messages, NEW m,
         IsObject(t, m, types)
  PROVE  \A f \in FieldsOf(t) : Contents(f, m[f.name]) \in Seq(Content)
BY FieldsAreApart, ContentsAreTyped DEF IsObject

LEMMA PartsAreEncoded ==
  ASSUME NEW types, NEW parts, IsMessage(types, parts)
  PROVE  CarriesParts(types, EncodeParts(types, parts), parts)
<1> DEFINE items == EncodeParts(types, parts)
<1>1. items = [p \in DOMAIN parts |-> Encode(types[p], parts[p])]
  BY DEF EncodeParts
<1>2. ASSUME NEW p \in DOMAIN parts
      PROVE  CarriesObject(types[p], items[p], parts[p])
  <2>1. /\ types[p] \in DOMAIN Messages /\ DOMAIN types \subseteq Parts
        /\ IsObject(types[p], parts[p], types)
    BY PartsOfAMessage
  <2>2. \A f \in FieldsOf(types[p]) : Contents(f, parts[p][f.name]) \in Seq(Content)
    BY <2>1, ContentsOfAnObject
  <2>3. CarriesObject(types[p], Encode(types[p], parts[p]), parts[p])
    BY <2>1, <2>2, Encoded DEF CarriesObject
  <2> QED
    BY <1>1, <2>3
<1> HIDE DEF items
<1> QED
  BY <1>1, <1>2 DEF CarriesParts, items

LEMMA ForeignItemsAreItems ==
  ASSUME NEW t \in DOMAIN Messages
  PROVE  ForeignItems(t) \subseteq WireItems(Content)
<1>1. Foreign \in Content
  BY DEF Content
<1>2. \A w \in {0, 2, 5} : <<99, w, Foreign>> \in WireItems(Content)
  BY <1>1 DEF WireItems
<1>3. ASSUME NEW f \in FieldsOf(t)
      PROVE  <<f.no, 2 - Wire(f), Foreign>> \in WireItems(Content)
  <2>1. f.no \in 1 .. 99 /\ 2 - Wire(f) \in {0, 2, 5}
    BY FieldsAreApart, KindsAndWires
  <2> QED
    BY <1>1, <2>1, Zenon DEF WireItems
<1> QED
  BY <1>2, <1>3 DEF ForeignItems

\* A message with one foreign item more, or two of its own swapped, is carried
\* as it was.
LEMMA AlteredObject ==
  ASSUME NEW types, DOMAIN types \subseteq Parts, NEW t \in DOMAIN Messages, NEW m,
         IsObject(t, m, types), NEW items, CarriesObject(t, items, m)
  PROVE  /\ \A n \in 1 .. Len(items) + 1, x \in ForeignItems(t) :
              CarriesObject(t, InsertAt(items, n, x), m)
         /\ \A n \in 1 .. Len(items) - 1 :
              items[n][1] # items[n + 1][1] => CarriesObject(t, Swapped(items, n), m)
<1> DEFINE W == WireItems(Content)
<1>1. /\ items \in Seq(W)
      /\ \A f \in FieldsOf(t) : /\ Carries(f, items, Contents(f, m[f.name]))
                                /\ Contents(f, m[f.name]) \in Seq(Content)
  BY ContentsOfAnObject DEF CarriesObject
<1>2. ASSUME NEW n \in 1 .. Len(items) + 1, NEW x \in ForeignItems(t)
      PROVE  CarriesObject(t, InsertAt(items, n, x), m)
  <2>1. x \in W
    BY ForeignItemsAreItems
  <2> HIDE DEF W
  <2>2. InsertAt(items, n, x) \in Seq(W)
    BY <1>1, <2>1, InsertedElements
  <2>3. ASSUME NEW f \in FieldsOf(t)
        PROVE  Carries(f, InsertAt(items, n, x), Contents(f, m[f.name]))
    <3>1. ~Matches(f, x)
      BY ForeignMatchesNone
    <3> QED
      BY <1>1, <2>1, <3>1, OneInserted
  <2> QED
    BY <2>2, <2>3 DEF CarriesObject, W
<1>3. ASSUME NEW n \in 1 .. Len(items) - 1, items[n][1] # items[n + 1][1]
      PROVE  CarriesObject(t, Swapped(items, n), m)
  <2> HIDE DEF W
  <2>1. Swapped(items, n) \in Seq(W)
    BY <1>1 DEF Swapped
  <2>2. ASSUME NEW f \in FieldsOf(t)
        PROVE  Carries(f, Swapped(items, n), Contents(f, m[f.name]))
    BY <1>1, <1>3, TwoSwapped
  <2> QED
    BY <2>1, <2>2 DEF CarriesObject, W
<1> QED
  BY <1>2, <1>3

\* One part of the message changes.
LEMMA PartsAreAltered ==
  ASSUME NEW types, NEW parts, IsMessage(types, parts), NEW items,
         CarriesParts(types, items, parts), NEW p \in DOMAIN items, NEW new,
         CarriesObject(types[p], new, parts[p])
  PROVE  CarriesParts(types, [items EXCEPT ![p] = new], parts)
<1>1. items = [q \in DOMAIN parts |-> items[q]] /\ DOMAIN items = DOMAIN parts
  BY DEF CarriesParts
<1> DEFINE more == [items EXCEPT ![p] = new]
<1>2. more = [q \in DOMAIN parts |-> more[q]]
  BY <1>1
<1>3. \A q \in DOMAIN parts : more[q] = IF q = p THEN new ELSE items[q]
  BY <1>1
<1> HIDE DEF more
<1>4. CarriesParts(types, more, parts)
  BY <1>2, <1>3 DEF CarriesParts
<1> QED
  BY <1>4 DEF more

\* One part that throws makes the whole throw; else all are as they were.
LEMMA PartsAreDecoded ==
  ASSUME NEW types, NEW parts, IsMessage(types, parts), NEW items,
         CarriesParts(types, items, parts)
  PROVE  DecodeParts(types, items) = IF IsSafe(types, parts) THEN parts ELSE Threw
<1>1. items = [p \in DOMAIN parts |-> items[p]] /\ DOMAIN items = DOMAIN parts
  BY DEF CarriesParts
<1>2. ASSUME NEW p \in DOMAIN parts
      PROVE  /\ DecodeThrows(types[p], items[p]) <=> ~IsSafeObject(types[p], parts[p])
             /\ IsSafeObject(types[p], parts[p]) => Decode(types[p], items[p]) = parts[p]
  <2>1. /\ types[p] \in DOMAIN Messages /\ DOMAIN types \subseteq Parts
        /\ IsObject(types[p], parts[p], types)
        /\ CarriesObject(types[p], items[p], parts[p])
    BY PartsOfAMessage DEF CarriesParts
  <2> QED
    BY <2>1, UnsafeThrow, ObjectDecoded
<1>3. IsSafe(types, parts) <=> \A p \in DOMAIN parts : IsSafeObject(types[p], parts[p])
  BY DEF IsSafe, IsSafeObject
<1>4. CASE IsSafe(types, parts)
  <2>1. DecodeParts(types, items) = [p \in DOMAIN parts |-> Decode(types[p], items[p])]
    BY <1>1, <1>2, <1>3, <1>4 DEF DecodeParts
  <2>2. parts = [p \in DOMAIN parts |-> parts[p]]
    BY PartsOfAMessage
  <2> QED
    BY <1>2, <1>3, <1>4, <2>1, <2>2
<1>5. CASE ~IsSafe(types, parts)
  BY <1>1, <1>2, <1>3, <1>5 DEF DecodeParts
<1> QED
  BY <1>4, <1>5

LEMMA PartsSurviveJson ==
  ASSUME NEW types, NEW parts, IsMessage(types, parts), NEW style \in Styles, NEW read,
         read = PartsFromJSON(types, PartsToJSON(types, parts, style))
  PROVE  /\ DOMAIN read = DOMAIN parts
         /\ \A p \in DOMAIN parts : IsObjectReadAs(types[p], parts[p], read[p])
<1> DEFINE texts == PartsToJSON(types, parts, style)
<1>1. /\ DOMAIN texts = DOMAIN parts
      /\ \A p \in DOMAIN parts : texts[p] = ToJSON(types[p], parts[p], style)
  BY DEF PartsToJSON
<1> HIDE DEF texts
<1>2. DOMAIN read = DOMAIN parts
  BY <1>1 DEF PartsFromJSON, texts
<1>3. ASSUME NEW p \in DOMAIN parts
      PROVE  IsObjectReadAs(types[p], parts[p], read[p])
  <2>1. /\ types[p] \in DOMAIN Messages /\ DOMAIN types \subseteq Parts
        /\ IsObject(types[p], parts[p], types)
    BY PartsOfAMessage
  <2>2. read[p] = FromJSON(types[p], ToJSON(types[p], parts[p], style))
    BY <1>1 DEF PartsFromJSON, texts
  <2> QED
    BY <2>1, <2>2, ObjectSurvivesJson
<1> QED
  BY <1>2, <1>3

-----------------------------------------------------------------------------
MessageInv == BinaryInv /\ JsonInv

LEMMA MessageInitInv == MessageInit => MessageInv
BY SentMessagesAssumption
   DEF MessageInit, NothingWritten, MessageInv, BinaryInv, JsonInv, DecodedIsSent, JsonRoundTrips

LEMMA BinaryNextInv ==
  ASSUME BinaryInv, MessageNext, path = "binary"
  PROVE  BinaryInv'
<1>1. /\ IsMessage(type, sent) /\ path' = path /\ type' = type /\ sent' = sent
      /\ carried # Undefined => CarriesParts(type, carried, sent)
  BY DEF BinaryInv, MessageNext, Writes, PeerDiffers, Reads
<1>2. CASE Writes
  <2>1. carried' = EncodeParts(type, sent) /\ received' = received
    BY <1>2 DEF Writes
  <2>2. CarriesParts(type, carried', sent)
    BY <1>1, <2>1, PartsAreEncoded
  <2> QED
    BY <1>1, <2>1, <2>2 DEF BinaryInv, DecodedIsSent
<1>3. CASE PeerDiffers
  <2>1. received' = received /\ CarriesParts(type, carried, sent)
    BY <1>1, <1>3 DEF PeerDiffers, OnItsWay
  <2>2. PICK p \in DOMAIN carried :
          \/ \E i \in 1 .. Len(carried[p]) + 1, x \in ForeignItems(type[p]) :
               carried' = [carried EXCEPT ![p] = InsertAt(carried[p], i, x)]
          \/ \E i \in 1 .. Len(carried[p]) - 1 :
               /\ carried[p][i][1] # carried[p][i + 1][1]
               /\ carried' = [carried EXCEPT ![p] = Swapped(carried[p], i)]
    BY <1>3 DEF PeerDiffers
  <2>3. PICK new : CarriesObject(type[p], new, sent[p]) /\ carried' = [carried EXCEPT ![p] = new]
    <3>1. p \in DOMAIN sent /\ CarriesObject(type[p], carried[p], sent[p])
      BY <2>1 DEF CarriesParts
    <3>2. /\ type[p] \in DOMAIN Messages /\ DOMAIN type \subseteq Parts
          /\ IsObject(type[p], sent[p], type)
      BY <1>1, <3>1, PartsOfAMessage
    <3> QED
      BY <2>2, <3>1, <3>2, AlteredObject
  <2>4. CarriesParts(type, carried', sent)
    BY <1>1, <2>1, <2>3, PartsAreAltered
  <2> QED
    BY <1>1, <2>1, <2>4 DEF BinaryInv, DecodedIsSent
<1>4. CASE Reads
  <2>1. received' = DecodeParts(type, carried) /\ carried' = carried /\ carried # Undefined
    BY <1>4 DEF Reads, OnItsWay
  <2>2. received' = IF IsSafe(type, sent) THEN sent ELSE Threw
    BY <1>1, <2>1, PartsAreDecoded
  <2> QED
    BY <1>1, <2>1, <2>2 DEF BinaryInv, DecodedIsSent
<1> QED
  BY <1>2, <1>3, <1>4 DEF MessageNext

LEMMA JsonNextInv ==
  ASSUME JsonInv, MessageNext, path = "json"
  PROVE  JsonInv'
<1>1. /\ IsMessage(type, sent) /\ path' = path /\ type' = type /\ sent' = sent
      /\ carried # Undefined => \E style \in Styles : carried = PartsToJSON(type, sent, style)
  BY DEF JsonInv, MessageNext, Writes, PeerDiffers, Reads
<1>2. CASE Writes
  <2>1. received' = received /\ \E style \in Styles : carried' = PartsToJSON(type, sent, style)
    BY <1>2 DEF Writes
  <2> QED
    BY <1>1, <2>1 DEF JsonInv, JsonRoundTrips
<1>3. CASE Reads
  <2>1. received' = PartsFromJSON(type, carried) /\ carried' = carried /\ carried # Undefined
    BY <1>3 DEF Reads, OnItsWay
  <2>2. /\ DOMAIN received' = DOMAIN sent
        /\ \A p \in DOMAIN sent : IsObjectReadAs(type[p], sent[p], received'[p])
    BY <1>1, <2>1, PartsSurviveJson
  <2> QED
    BY <1>1, <2>1, <2>2 DEF JsonInv, JsonRoundTrips, IsObjectReadAs
<1> QED
  BY <1>2, <1>3 DEF MessageNext, PeerDiffers
-----------------------------------------------------------------------------
(* An audit event.  The invariant: what was sent and is still there can be *)
(* read, field by field, and something required is missing exactly when a  *)
(* change took it away.                                                    *)

\* A required field is what was sent unless it was taken away.
Keeps(wire, value) == HasType(wire) => wire = value

NodeCarries(wire, node) ==
  /\ Keeps(wire.id, node.id)
  /\ Keeps(wire.kind, node.kind)
  /\ Keeps(wire.label, node.label)
  /\ (IF HasType(wire.latency_ms) THEN wire.latency_ms ELSE Undefined) =
       IF node.latencyMs = NotANumber THEN Undefined ELSE node.latencyMs
  /\ ListFrom(wire.children) = ListToWire(node.children)

EventCarries(wire, event) ==
  /\ \E ks \in SUBSET Keys : wire \in WireEvents(ks, DOMAIN event.nodes)
  /\ Keeps(wire.event_id, event.eventId)
  /\ Keeps(wire.agent_id, event.agentId)
  /\ Keeps(wire.action_type, event.actionType)
  /\ Keeps(wire.decision, event.decision)
  /\ asNonEmptyString(wire.trace_id) = NonEmpty(event.traceId)
  /\ asNonEmptyString(wire.span_id) = NonEmpty(event.spanId)
  /\ asNonEmptyString(wire.parent_span_id) = NonEmpty(event.parentSpanId)
  /\ asStringMap(wire.labels) = LabelsToWire(event.labels)
  /\ ListFrom(wire.call_stack) = ListToWire(event.callStack)
  /\ \A n \in DOMAIN event.nodes :
       HasType(wire.nodes[n]) => NodeCarries(wire.nodes[n], event.nodes[n])

Lost == \E i \in DOMAIN altered : altered[i] = "required"

Changes == {"optional", "label", "required"}

AuditInv ==
  /\ sent \in Events
  /\ altered \in Seq(Changes)
  /\ carried = Undefined => altered = <<>> /\ received = Undefined
  /\ carried # Undefined =>
       EventCarries(carried, sent) /\ (Lost <=> EventThrows(carried))
  /\ AuditRoundTrips

-----------------------------------------------------------------------------
(* Values and markers.                                                     *)

LEMMA SentIsTyped ==
  ASSUME NEW event \in Events
  PROVE  /\ \E ks \in SUBSET Keys : event \in AuditEvents(ks, DOMAIN event.nodes)
         /\ DOMAIN event.nodes \in SUBSET Frames
<1>1. PICK ks \in SUBSET Keys : event \in AuditEvents(ks, Named(event))
  BY EventsAssumption
<1>2. DOMAIN event.nodes = Named(event)
  BY <1>1 DEF AuditEvents
<1>3. Lists(event) \subseteq Seq(Frames)
  <2>1. event.callStack \in Seq(Frames) \cup {Undefined}
    BY <1>1 DEF AuditEvents, Optional
  <2>2. \A n \in DOMAIN event.nodes : event.nodes[n].children \in Seq(Frames) \cup {Undefined}
    BY <1>1, <1>2 DEF AuditEvents, Nodes, Optional
  <2> QED
    BY <2>1, <2>2 DEF Lists
<1>4. \A list \in Seq(Frames) : \A i \in DOMAIN list : list[i] \in Frames
  OBVIOUS
<1>5. Named(event) \subseteq Frames
  BY <1>3, <1>4 DEF Named
<1> QED
  BY <1>1, <1>2, <1>5

LEMMA ValuesHaveTheirType ==
  /\ \A v \in Texts : HasType(v)
  /\ \A v \in Int : HasType(v)
  /\ \A v \in Seq(Frames) : HasType(v)
  /\ \A v \in WireNodes : HasType(v)
  /\ \A ks \in SUBSET Keys : \A v \in WireLabels(ks) : HasType(v)
BY MarkersAssumption DEF HasType

LEMMA MarkersHaveNone ==
  ~HasType(Undefined) /\ ~HasType(Null) /\ ~HasType(OtherType)
BY DEF HasType, Markers

LEMMA MarkersDiffer ==
  Undefined # Null /\ OtherType # Undefined /\ OtherType # Null /\ NotANumber # Undefined
  /\ NotANumber \notin Int
BY MarkersAssumption

-----------------------------------------------------------------------------
(* Encoding.                                                               *)

LEMMA NodeIsCarried ==
  ASSUME NEW node \in Nodes
  PROVE  /\ encodeCallStackNode(node) \in WireNodes
         /\ NodeCarries(encodeCallStackNode(node), node)
         /\ ~NodeThrows(encodeCallStackNode(node))
<1> DEFINE wire == encodeCallStackNode(node)
<1>1. /\ node.id \in Texts /\ node.kind \in Texts /\ node.label \in Texts
      /\ node.latencyMs \in Int \cup {NotANumber, Undefined}
      /\ node.children \in Seq(Frames) \cup {Undefined}
  BY DEF Nodes, Optional
<1>2. /\ wire.id = node.id /\ wire.kind = node.kind /\ wire.label = node.label
      /\ wire.latency_ms = LatencyToWire(node.latencyMs)
      /\ wire.children = ListToWire(node.children)
  BY DEF encodeCallStackNode
<1>3. LatencyToWire(node.latencyMs) \in OnWire(Int)
  BY <1>1 DEF LatencyToWire, OnWire, Markers
<1>4. ListToWire(node.children) \in OnWire(Seq(Frames))
  BY <1>1 DEF ListToWire, OnWire, Markers
<1>5. wire \in WireNodes
  BY <1>1, <1>3, <1>4 DEF encodeCallStackNode, WireNodes, OnWire
<1>6. Keeps(wire.id, node.id) /\ Keeps(wire.kind, node.kind) /\ Keeps(wire.label, node.label)
  BY <1>2 DEF Keeps
<1>7. (IF HasType(wire.latency_ms) THEN wire.latency_ms ELSE Undefined) =
        IF node.latencyMs = NotANumber THEN Undefined ELSE node.latencyMs
  BY <1>1, <1>2, MarkersDiffer, ValuesHaveTheirType, MarkersHaveNone DEF LatencyToWire
<1>8. ListFrom(wire.children) = ListToWire(node.children)
  BY <1>1, <1>2, ValuesHaveTheirType, MarkersHaveNone DEF ListToWire, ListFrom
<1>9. ~NodeThrows(wire)
  BY <1>1, <1>2, <1>5, ValuesHaveTheirType DEF NodeThrows
<1> HIDE DEF wire
<1>10. NodeCarries(wire, node)
  BY <1>6, <1>7, <1>8 DEF NodeCarries
<1> QED
  BY <1>5, <1>9, <1>10 DEF wire

LEMMA LabelsAreCarried ==
  ASSUME NEW ks \in SUBSET Keys, NEW labels \in Optional([ks -> Texts])
  PROVE  /\ LabelsToWire(labels) \in OnWire(WireLabels(ks))
         /\ asStringMap(LabelsToWire(labels)) = LabelsToWire(labels)
<1>1. CASE labels = Undefined \/ DOMAIN labels = {}
  <2>1. LabelsToWire(labels) = Undefined
    BY <1>1 DEF LabelsToWire
  <2> QED
    BY <2>1, MarkersHaveNone DEF OnWire, Markers, asStringMap
<1>2. CASE ~(labels = Undefined \/ DOMAIN labels = {})
  <2>1. LabelsToWire(labels) = labels /\ labels \in [ks -> Texts] /\ ks # {}
    BY <1>2 DEF LabelsToWire, Optional
  <2>2. labels \in WireLabels(ks)
    BY <2>1 DEF WireLabels
  <2>3. HasType(labels) /\ {k \in DOMAIN labels : HasType(labels[k])} = ks
    BY <2>1, <2>2, ValuesHaveTheirType
  <2>4. [k \in ks |-> labels[k]] = labels
    BY <2>1
  <2> QED
    BY <2>1, <2>2, <2>3, <2>4 DEF OnWire, asStringMap
<1> QED
  BY <1>1, <1>2

LEMMA TextIsCarried ==
  ASSUME NEW v \in Optional(Texts)
  PROVE  /\ NonEmpty(v) \in OnWire(Texts)
         /\ asNonEmptyString(NonEmpty(v)) = NonEmpty(v)
BY ValuesHaveTheirType, MarkersHaveNone DEF Optional, OnWire, Markers, NonEmpty, asNonEmptyString

LEMMA ListIsCarried ==
  ASSUME NEW v \in Optional(Seq(Frames))
  PROVE  /\ ListToWire(v) \in OnWire(Seq(Frames))
         /\ ListFrom(ListToWire(v)) = ListToWire(v)
BY ValuesHaveTheirType, MarkersHaveNone DEF Optional, OnWire, Markers, ListToWire, ListFrom

LEMMA EventIsCarried ==
  ASSUME NEW event \in Events
  PROVE  /\ EventCarries(encodeAuditEvent(event), event)
         /\ ~EventThrows(encodeAuditEvent(event))
<1> DEFINE wire == encodeAuditEvent(event)
           fs == DOMAIN event.nodes
<1>1. PICK ks \in SUBSET Keys : event \in AuditEvents(ks, fs)
  BY SentIsTyped
<1>2. /\ event.eventId \in Texts /\ event.agentId \in Texts
      /\ event.actionType \in Texts /\ event.decision \in Texts
  BY <1>1 DEF AuditEvents
<1>3. /\ event.traceId \in Optional(Texts) /\ event.spanId \in Optional(Texts)
      /\ event.parentSpanId \in Optional(Texts)
      /\ event.labels \in Optional([ks -> Texts])
      /\ event.callStack \in Optional(Seq(Frames))
      /\ event.nodes \in [fs -> Nodes]
  BY <1>1 DEF AuditEvents
<1>4. /\ wire.event_id = event.eventId /\ wire.agent_id = event.agentId
      /\ wire.action_type = event.actionType /\ wire.decision = event.decision
      /\ wire.trace_id = NonEmpty(event.traceId) /\ wire.span_id = NonEmpty(event.spanId)
      /\ wire.parent_span_id = NonEmpty(event.parentSpanId)
      /\ wire.labels = LabelsToWire(event.labels)
      /\ wire.call_stack = ListToWire(event.callStack)
      /\ wire.nodes = [n \in fs |-> encodeCallStackNode(event.nodes[n])]
  BY DEF encodeAuditEvent
<1>5. \A n \in fs : /\ wire.nodes[n] \in WireNodes
                    /\ NodeCarries(wire.nodes[n], event.nodes[n])
                    /\ ~NodeThrows(wire.nodes[n])
  BY <1>3, <1>4, NodeIsCarried
<1>6. wire \in WireEvents(ks, fs)
  <2>1. /\ wire.trace_id \in OnWire(Texts) /\ wire.span_id \in OnWire(Texts)
        /\ wire.parent_span_id \in OnWire(Texts)
    BY <1>3, <1>4, TextIsCarried
  <2>2. wire.labels \in OnWire(WireLabels(ks))
    BY <1>3, <1>4, LabelsAreCarried
  <2>3. wire.call_stack \in OnWire(Seq(Frames))
    BY <1>3, <1>4, ListIsCarried
  <2>4. wire.nodes \in [fs -> OnWire(WireNodes)]
    BY <1>4, <1>5 DEF OnWire
  <2>5. /\ wire.event_id \in OnWire(Texts) /\ wire.agent_id \in OnWire(Texts)
        /\ wire.action_type \in OnWire(Texts) /\ wire.decision \in OnWire(Texts)
    BY <1>2, <1>4 DEF OnWire
  <2> HIDE DEF fs
  <2> QED
    BY <2>1, <2>2, <2>3, <2>4, <2>5 DEF encodeAuditEvent, WireEvents
<1>7. ~EventThrows(wire)
  <2>1. \A v \in {wire.event_id, wire.agent_id, wire.action_type, wire.decision} : HasType(v)
    BY <1>2, <1>4, ValuesHaveTheirType
  <2>2. DOMAIN wire.nodes = fs
    BY <1>4
  <2> HIDE DEF wire
  <2> QED
    BY <1>5, <2>1, <2>2 DEF EventThrows
<1>8. EventCarries(wire, event)
  <2>1. /\ Keeps(wire.event_id, event.eventId) /\ Keeps(wire.agent_id, event.agentId)
        /\ Keeps(wire.action_type, event.actionType) /\ Keeps(wire.decision, event.decision)
    BY <1>4 DEF Keeps
  <2>2. /\ asNonEmptyString(wire.trace_id) = NonEmpty(event.traceId)
        /\ asNonEmptyString(wire.span_id) = NonEmpty(event.spanId)
        /\ asNonEmptyString(wire.parent_span_id) = NonEmpty(event.parentSpanId)
    BY <1>3, <1>4, TextIsCarried
  <2>3. asStringMap(wire.labels) = LabelsToWire(event.labels)
    BY <1>3, <1>4, LabelsAreCarried
  <2>4. ListFrom(wire.call_stack) = ListToWire(event.callStack)
    BY <1>3, <1>4, ListIsCarried
  <2> HIDE DEF wire
  <2> QED
    BY <1>5, <1>6, <2>1, <2>2, <2>3, <2>4 DEF EventCarries
<1> QED
  BY <1>7, <1>8

-----------------------------------------------------------------------------
(* Decoding.                                                               *)

\* What Normal yields, field by field.
LEMMA NormalNodeFields ==
  ASSUME NEW node \in Nodes
  PROVE  NormalNode(node) =
           [id |-> node.id, kind |-> node.kind, label |-> node.label,
            latencyMs |-> UnsetIf(node.latencyMs, NotANumber),
            children |-> ListToWire(node.children)]
<1>1. node = [id |-> node.id, kind |-> node.kind, label |-> node.label,
              latencyMs |-> node.latencyMs, children |-> node.children]
  BY DEF Nodes
<1>2. UnsetIf(node.children, <<>>) = ListToWire(node.children)
  BY DEF UnsetIf, ListToWire
<1>3. NormalNode(node) = [node EXCEPT !.latencyMs = UnsetIf(node.latencyMs, NotANumber),
                                      !.children = ListToWire(node.children)]
  BY <1>2 DEF NormalNode
<1> QED
  BY <1>1, <1>3

LEMMA NormalFields ==
  ASSUME NEW event \in Events
  PROVE  Normal(event) =
           [eventId |-> event.eventId, agentId |-> event.agentId,
            actionType |-> event.actionType, decision |-> event.decision,
            traceId |-> NonEmpty(event.traceId), spanId |-> NonEmpty(event.spanId),
            parentSpanId |-> NonEmpty(event.parentSpanId),
            labels |-> LabelsToWire(event.labels), callStack |-> ListToWire(event.callStack),
            nodes |-> [n \in DOMAIN event.nodes |-> NormalNode(event.nodes[n])]]
<1>1. PICK ks \in SUBSET Keys : event \in AuditEvents(ks, DOMAIN event.nodes)
  BY SentIsTyped
<1>2. event = [eventId |-> event.eventId, agentId |-> event.agentId,
               actionType |-> event.actionType, decision |-> event.decision,
               traceId |-> event.traceId, spanId |-> event.spanId,
               parentSpanId |-> event.parentSpanId, labels |-> event.labels,
               callStack |-> event.callStack, nodes |-> event.nodes]
  BY <1>1 DEF AuditEvents
<1> DEFINE read == [n \in DOMAIN event.nodes |-> NormalNode(event.nodes[n])]
<1>3. /\ UnsetIf(event.traceId, "") = NonEmpty(event.traceId)
      /\ UnsetIf(event.spanId, "") = NonEmpty(event.spanId)
      /\ UnsetIf(event.parentSpanId, "") = NonEmpty(event.parentSpanId)
      /\ UnsetIf(event.callStack, <<>>) = ListToWire(event.callStack)
      /\ (IF event.labels = Undefined \/ DOMAIN event.labels = {} THEN Undefined
          ELSE event.labels) = LabelsToWire(event.labels)
  BY DEF UnsetIf, NonEmpty, ListToWire, LabelsToWire
<1>4. Normal(event) =
        [event EXCEPT !.traceId = NonEmpty(event.traceId), !.spanId = NonEmpty(event.spanId),
                      !.parentSpanId = NonEmpty(event.parentSpanId),
                      !.labels = LabelsToWire(event.labels),
                      !.callStack = ListToWire(event.callStack), !.nodes = read]
  BY <1>3 DEF Normal
<1> HIDE DEF read
<1>5. Normal(event) =
        [eventId |-> event.eventId, agentId |-> event.agentId,
         actionType |-> event.actionType, decision |-> event.decision,
         traceId |-> NonEmpty(event.traceId), spanId |-> NonEmpty(event.spanId),
         parentSpanId |-> NonEmpty(event.parentSpanId),
         labels |-> LabelsToWire(event.labels), callStack |-> ListToWire(event.callStack),
         nodes |-> read]
  BY <1>2, <1>4
<1> QED
  BY <1>5 DEF read

LEMMA CarriedIsRead ==
  ASSUME NEW event \in Events, NEW wire,
         EventCarries(wire, event), ~EventThrows(wire)
  PROVE  decodeAuditEvent(wire) = Normal(event)
<1> DEFINE fs == DOMAIN event.nodes
<1>1. PICK ks \in SUBSET Keys : wire \in WireEvents(ks, fs)
  BY DEF EventCarries
<1>2. DOMAIN wire.nodes = fs
  BY <1>1 DEF WireEvents
<1>3. \A n \in fs : /\ HasType(wire.nodes[n])
                    /\ HasType(wire.nodes[n].id) /\ HasType(wire.nodes[n].kind)
                    /\ HasType(wire.nodes[n].label)
  BY <1>2 DEF EventThrows, NodeThrows
<1>4. \A n \in fs : decodeCallStackNode(wire.nodes[n]) = NormalNode(event.nodes[n])
  <2> SUFFICES ASSUME NEW n \in fs
               PROVE  decodeCallStackNode(wire.nodes[n]) = NormalNode(event.nodes[n])
    OBVIOUS
  <2>1. NodeCarries(wire.nodes[n], event.nodes[n])
    BY <1>3 DEF EventCarries
  <2>2. event.nodes[n] \in Nodes
    BY SentIsTyped DEF AuditEvents
  <2> QED
    BY <1>3, <2>1, <2>2, NormalNodeFields
    DEF NodeCarries, Keeps, decodeCallStackNode, UnsetIf
<1>5. [n \in DOMAIN wire.nodes |-> decodeCallStackNode(wire.nodes[n])] =
        [n \in fs |-> NormalNode(event.nodes[n])]
  BY <1>2, <1>4
<1>6. /\ wire.event_id = event.eventId /\ wire.agent_id = event.agentId
      /\ wire.action_type = event.actionType /\ wire.decision = event.decision
  BY DEF EventCarries, EventThrows, Keeps
<1>7. /\ asNonEmptyString(wire.trace_id) = NonEmpty(event.traceId)
      /\ asNonEmptyString(wire.span_id) = NonEmpty(event.spanId)
      /\ asNonEmptyString(wire.parent_span_id) = NonEmpty(event.parentSpanId)
      /\ asStringMap(wire.labels) = LabelsToWire(event.labels)
      /\ ListFrom(wire.call_stack) = ListToWire(event.callStack)
  BY DEF EventCarries
<1> QED
  BY <1>5, <1>6, <1>7, NormalFields DEF decodeAuditEvent

-----------------------------------------------------------------------------
(* What may happen on the way.                                             *)

\* Where an optional text is not set there is null, another type, or "".
LEMMA TraceDiffers ==
  ASSUME NEW event \in Events, NEW wire, EventCarries(wire, event),
         NEW k \in Traces, NEW v \in {Null, OtherType, ""}, wire[k] = Undefined
  PROVE  /\ EventCarries([wire EXCEPT ![k] = v], event)
         /\ EventThrows([wire EXCEPT ![k] = v]) <=> EventThrows(wire)
<1> DEFINE new == [wire EXCEPT ![k] = v]
           fs == DOMAIN event.nodes
<1>1. PICK ks \in SUBSET Keys : wire \in WireEvents(ks, fs)
  BY DEF EventCarries
<1>2. v \in OnWire(Texts) /\ asNonEmptyString(v) = Undefined
  BY MarkersHaveNone, TextsAssumption DEF OnWire, Markers, asNonEmptyString
<1>3. asNonEmptyString(wire[k]) = Undefined
  BY MarkersHaveNone DEF asNonEmptyString
<1>4. /\ new \in WireEvents(ks, fs)
      /\ new.event_id = wire.event_id /\ new.agent_id = wire.agent_id
      /\ new.action_type = wire.action_type /\ new.decision = wire.decision
      /\ new.labels = wire.labels /\ new.call_stack = wire.call_stack
      /\ new.nodes = wire.nodes
      /\ \A other \in Traces : new[other] = IF other = k THEN v ELSE wire[other]
  <2>1. CASE k = "trace_id"
    BY <1>1, <1>2, <2>1 DEF WireEvents, Traces
  <2>2. CASE k = "span_id"
    BY <1>1, <1>2, <2>2 DEF WireEvents, Traces
  <2>3. CASE k = "parent_span_id"
    BY <1>1, <1>2, <2>3 DEF WireEvents, Traces
  <2> QED
    BY <2>1, <2>2, <2>3 DEF Traces
<1> HIDE DEF new
<1>5. \A other \in Traces : asNonEmptyString(new[other]) = asNonEmptyString(wire[other])
  BY <1>2, <1>3, <1>4
<1>6. /\ asNonEmptyString(new.trace_id) = asNonEmptyString(wire.trace_id)
      /\ asNonEmptyString(new.span_id) = asNonEmptyString(wire.span_id)
      /\ asNonEmptyString(new.parent_span_id) = asNonEmptyString(wire.parent_span_id)
  BY <1>5 DEF Traces
<1>7. EventCarries(new, event)
  BY <1>4, <1>6 DEF EventCarries
<1>8. EventThrows(new) <=> EventThrows(wire)
  BY <1>4 DEF EventThrows
<1> QED
  BY <1>7, <1>8 DEF new

LEMMA StackDiffers ==
  ASSUME NEW event \in Events, NEW wire, EventCarries(wire, event),
         NEW v \in {Null, OtherType, <<>>}, wire.call_stack = Undefined
  PROVE  /\ EventCarries([wire EXCEPT !.call_stack = v], event)
         /\ EventThrows([wire EXCEPT !.call_stack = v]) <=> EventThrows(wire)
<1> DEFINE new == [wire EXCEPT !.call_stack = v]
           fs == DOMAIN event.nodes
<1>1. PICK ks \in SUBSET Keys : wire \in WireEvents(ks, fs)
  BY DEF EventCarries
<1>2. v \in OnWire(Seq(Frames))
  <2>1. CASE v = <<>>
    BY <2>1 DEF OnWire
  <2>2. CASE v = Null \/ v = OtherType
    BY <2>2 DEF OnWire, Markers
  <2> QED
    BY <2>1, <2>2
<1>3. ListFrom(v) = ListFrom(wire.call_stack)
  BY MarkersHaveNone DEF ListFrom
<1>4. /\ new \in WireEvents(ks, fs)
      /\ new.event_id = wire.event_id /\ new.agent_id = wire.agent_id
      /\ new.action_type = wire.action_type /\ new.decision = wire.decision
      /\ new.trace_id = wire.trace_id /\ new.span_id = wire.span_id
      /\ new.parent_span_id = wire.parent_span_id
      /\ new.labels = wire.labels /\ new.call_stack = v /\ new.nodes = wire.nodes
  BY <1>1, <1>2 DEF WireEvents
<1> HIDE DEF new
<1>5. EventCarries(new, event)
  BY <1>3, <1>4 DEF EventCarries
<1>6. EventThrows(new) <=> EventThrows(wire)
  BY <1>4 DEF EventThrows
<1> QED
  BY <1>5, <1>6 DEF new

\* The labels become others of which the reader makes the same.
LEMMA LabelsDiffer ==
  ASSUME NEW event \in Events, NEW wire, EventCarries(wire, event),
         NEW ks \in SUBSET Keys, NEW v \in OnWire(WireLabels(ks)),
         asStringMap(v) = asStringMap(wire.labels)
  PROVE  /\ EventCarries([wire EXCEPT !.labels = v], event)
         /\ EventThrows([wire EXCEPT !.labels = v]) <=> EventThrows(wire)
<1> DEFINE new == [wire EXCEPT !.labels = v]
           fs == DOMAIN event.nodes
<1>1. \E old \in SUBSET Keys : wire \in WireEvents(old, fs)
  BY DEF EventCarries
<1>2. /\ new \in WireEvents(ks, fs)
      /\ new.event_id = wire.event_id /\ new.agent_id = wire.agent_id
      /\ new.action_type = wire.action_type /\ new.decision = wire.decision
      /\ new.trace_id = wire.trace_id /\ new.span_id = wire.span_id
      /\ new.parent_span_id = wire.parent_span_id
      /\ new.labels = v /\ new.call_stack = wire.call_stack /\ new.nodes = wire.nodes
  BY <1>1 DEF WireEvents
<1> HIDE DEF new
<1>3. EventCarries(new, event)
  BY <1>2 DEF EventCarries
<1>4. EventThrows(new) <=> EventThrows(wire)
  BY <1>2 DEF EventThrows
<1> QED
  BY <1>3, <1>4 DEF new

\* A node of the call stack becomes v.
LEMMA NodeDiffers ==
  ASSUME NEW event \in Events, NEW wire, EventCarries(wire, event),
         NEW n \in DOMAIN wire.nodes, NEW v \in OnWire(WireNodes),
         HasType(v) => NodeCarries(v, event.nodes[n])
  PROVE  /\ EventCarries([wire EXCEPT !.nodes[n] = v], event)
         /\ NodeThrows(v) => EventThrows([wire EXCEPT !.nodes[n] = v])
         /\ (NodeThrows(v) <=> NodeThrows(wire.nodes[n])) =>
              (EventThrows([wire EXCEPT !.nodes[n] = v]) <=> EventThrows(wire))
<1> DEFINE new == [wire EXCEPT !.nodes[n] = v]
           fs == DOMAIN event.nodes
<1>1. PICK ks \in SUBSET Keys : wire \in WireEvents(ks, fs)
  BY DEF EventCarries
<1>2. wire.nodes \in [fs -> OnWire(WireNodes)]
  BY <1>1 DEF WireEvents
<1> DEFINE nodes == [wire.nodes EXCEPT ![n] = v]
<1>3. nodes \in [fs -> OnWire(WireNodes)] /\ n \in fs
      /\ \A m \in fs : nodes[m] = IF m = n THEN v ELSE wire.nodes[m]
  BY <1>2
<1>4. new = [wire EXCEPT !.nodes = nodes]
  OBVIOUS
<1> HIDE DEF new, nodes
<1>5. /\ new \in WireEvents(ks, fs)
      /\ new.event_id = wire.event_id /\ new.agent_id = wire.agent_id
      /\ new.action_type = wire.action_type /\ new.decision = wire.decision
      /\ new.trace_id = wire.trace_id /\ new.span_id = wire.span_id
      /\ new.parent_span_id = wire.parent_span_id
      /\ new.labels = wire.labels /\ new.call_stack = wire.call_stack /\ new.nodes = nodes
  BY <1>1, <1>3, <1>4 DEF WireEvents
<1>6. DOMAIN new.nodes = fs /\ DOMAIN wire.nodes = fs
  BY <1>2, <1>3, <1>5
<1>7. EventCarries(new, event)
  BY <1>3, <1>5 DEF EventCarries
<1>8. NodeThrows(v) => EventThrows(new)
  BY <1>3, <1>5, <1>6 DEF EventThrows
<1>9. (NodeThrows(v) <=> NodeThrows(wire.nodes[n])) => (EventThrows(new) <=> EventThrows(wire))
  BY <1>3, <1>5, <1>6 DEF EventThrows
<1> QED
  BY <1>7, <1>8, <1>9 DEF new

\* A node that is still an object, where its latency or its children are not set.
LEMMA LatencyDiffers ==
  ASSUME NEW event \in Events, NEW wire, EventCarries(wire, event),
         NEW n \in DOMAIN wire.nodes, HasType(wire.nodes[n]),
         NEW v \in {Null, OtherType}, wire.nodes[n].latency_ms = Undefined
  PROVE  /\ EventCarries([wire EXCEPT !.nodes[n].latency_ms = v], event)
         /\ EventThrows([wire EXCEPT !.nodes[n].latency_ms = v]) <=> EventThrows(wire)
<1> DEFINE node == wire.nodes[n]
           new == [node EXCEPT !.latency_ms = v]
<1>1. node \in WireNodes
  BY DEF EventCarries, WireEvents, OnWire, HasType
<1>2. NodeCarries(node, event.nodes[n])
  BY DEF EventCarries, WireEvents
<1>3. /\ new \in WireNodes /\ new.latency_ms = v
      /\ new.id = node.id /\ new.kind = node.kind /\ new.label = node.label
      /\ new.children = node.children
  BY <1>1 DEF WireNodes, OnWire, Markers
<1>4. [wire EXCEPT !.nodes[n].latency_ms = v] = [wire EXCEPT !.nodes[n] = new]
  OBVIOUS
<1> HIDE DEF new
<1>5. NodeCarries(new, event.nodes[n])
  BY <1>2, <1>3, MarkersHaveNone DEF NodeCarries
<1>6. NodeThrows(new) <=> NodeThrows(node)
  BY <1>1, <1>3, ValuesHaveTheirType DEF NodeThrows
<1> QED
  BY <1>3, <1>4, <1>5, <1>6, NodeDiffers DEF OnWire

LEMMA ChildrenDiffer ==
  ASSUME NEW event \in Events, NEW wire, EventCarries(wire, event),
         NEW n \in DOMAIN wire.nodes, HasType(wire.nodes[n]),
         NEW v \in {Null, OtherType, <<>>}, wire.nodes[n].children = Undefined
  PROVE  /\ EventCarries([wire EXCEPT !.nodes[n].children = v], event)
         /\ EventThrows([wire EXCEPT !.nodes[n].children = v]) <=> EventThrows(wire)
<1> DEFINE node == wire.nodes[n]
           new == [node EXCEPT !.children = v]
<1>1. node \in WireNodes
  BY DEF EventCarries, WireEvents, OnWire, HasType
<1>2. NodeCarries(node, event.nodes[n])
  BY DEF EventCarries, WireEvents
<1>3. v \in OnWire(Seq(Frames))
  <2>1. CASE v = <<>>
    BY <2>1 DEF OnWire
  <2>2. CASE v = Null \/ v = OtherType
    BY <2>2 DEF OnWire, Markers
  <2> QED
    BY <2>1, <2>2
<1>4. /\ new \in WireNodes /\ new.children = v
      /\ new.id = node.id /\ new.kind = node.kind /\ new.label = node.label
      /\ new.latency_ms = node.latency_ms
  BY <1>1, <1>3 DEF WireNodes
<1>5. [wire EXCEPT !.nodes[n].children = v] = [wire EXCEPT !.nodes[n] = new]
  OBVIOUS
<1> HIDE DEF new
<1>6. ListFrom(v) = ListFrom(node.children)
  BY MarkersHaveNone DEF ListFrom
<1>7. NodeCarries(new, event.nodes[n])
  BY <1>2, <1>4, <1>6 DEF NodeCarries
<1>8. NodeThrows(new) <=> NodeThrows(node)
  BY <1>1, <1>4, ValuesHaveTheirType DEF NodeThrows
<1> QED
  BY <1>4, <1>5, <1>7, <1>8, NodeDiffers DEF OnWire

\* What is not set may be said in any other way: the reader sees no difference.
LEMMA OptionalKeeps ==
  ASSUME sent \in Events, EventCarries(carried, sent), OptionalDiffers
  PROVE  EventCarries(carried', sent) /\ (EventThrows(carried') <=> EventThrows(carried))
<1>1. CASE \E k \in Traces, v \in {Null, OtherType, ""} :
             carried[k] = Undefined /\ carried' = [carried EXCEPT ![k] = v]
  <2>1. PICK k \in Traces, v \in {Null, OtherType, ""} :
          carried[k] = Undefined /\ carried' = [carried EXCEPT ![k] = v]
    BY <1>1
  <2>2. /\ EventCarries([carried EXCEPT ![k] = v], sent)
        /\ EventThrows([carried EXCEPT ![k] = v]) <=> EventThrows(carried)
    BY Zenon, <2>1, TraceDiffers
  <2> QED
    BY Zenon, <2>1, <2>2
<1>2. CASE \E v \in {Null, OtherType, <<>>} :
             carried.call_stack = Undefined /\ carried' = [carried EXCEPT !.call_stack = v]
  BY <1>2, StackDiffers
<1>3. CASE \E v \in {Null, OtherType} \cup UNION {[ks -> {OtherType}] : ks \in SUBSET Keys} :
             carried.labels = Undefined /\ carried' = [carried EXCEPT !.labels = v]
  <2>1. PICK v \in {Null, OtherType} \cup UNION {[ks -> {OtherType}] : ks \in SUBSET Keys} :
          carried.labels = Undefined /\ carried' = [carried EXCEPT !.labels = v]
    BY <1>3
  <2>2. asStringMap(carried.labels) = Undefined
    BY <2>1, MarkersHaveNone DEF asStringMap
  <2>3. CASE v \in {Null, OtherType}
    <3>1. v \in OnWire(WireLabels({})) /\ asStringMap(v) = Undefined
      BY <2>3, MarkersHaveNone DEF OnWire, Markers, asStringMap
    <3> QED
      BY <2>1, <2>2, <3>1, LabelsDiffer
  <2>4. CASE \E ks \in SUBSET Keys : v \in [ks -> {OtherType}]
    <3>1. PICK ks \in SUBSET Keys : v \in [ks -> {OtherType}]
      BY <2>4
    <3>2. {k \in DOMAIN v : HasType(v[k])} = {}
      BY <3>1, MarkersHaveNone
    <3>3. v \in OnWire(WireLabels(ks)) /\ asStringMap(v) = Undefined
      BY <3>1, <3>2 DEF OnWire, WireLabels, asStringMap
    <3> QED
      BY <2>1, <2>2, <3>3, LabelsDiffer
  <2> QED
    BY <2>1, <2>3, <2>4
<1>4. CASE \E n \in DOMAIN carried.nodes :
             /\ HasType(carried.nodes[n])
             /\ \/ \E v \in {Null, OtherType} :
                     /\ carried.nodes[n].latency_ms = Undefined
                     /\ carried' = [carried EXCEPT !.nodes[n].latency_ms = v]
                \/ \E v \in {Null, OtherType, <<>>} :
                     /\ carried.nodes[n].children = Undefined
                     /\ carried' = [carried EXCEPT !.nodes[n].children = v]
  <2>1. PICK n \in DOMAIN carried.nodes :
          /\ HasType(carried.nodes[n])
          /\ \/ \E v \in {Null, OtherType} :
                  /\ carried.nodes[n].latency_ms = Undefined
                  /\ carried' = [carried EXCEPT !.nodes[n].latency_ms = v]
             \/ \E v \in {Null, OtherType, <<>>} :
                  /\ carried.nodes[n].children = Undefined
                  /\ carried' = [carried EXCEPT !.nodes[n].children = v]
    BY <1>4
  <2>2. ASSUME NEW v \in {Null, OtherType}, carried.nodes[n].latency_ms = Undefined,
               carried' = [carried EXCEPT !.nodes[n].latency_ms = v]
        PROVE  EventCarries(carried', sent) /\ (EventThrows(carried') <=> EventThrows(carried))
    BY Zenon, <2>1, <2>2, LatencyDiffers
  <2>3. ASSUME NEW v \in {Null, OtherType, <<>>}, carried.nodes[n].children = Undefined,
               carried' = [carried EXCEPT !.nodes[n].children = v]
        PROVE  EventCarries(carried', sent) /\ (EventThrows(carried') <=> EventThrows(carried))
    BY Zenon, <2>1, <2>3, ChildrenDiffer
  <2> QED
    BY <2>1, <2>2, <2>3
<1> QED
  BY <1>1, <1>2, <1>3, <1>4 DEF OptionalDiffers

\* A label of another type is dropped, and the others stay.
LEMMA LabelKeeps ==
  ASSUME sent \in Events, EventCarries(carried, sent), LabelDiffers
  PROVE  EventCarries(carried', sent) /\ (EventThrows(carried') <=> EventThrows(carried))
<1>1. PICK new \in Keys \ DOMAIN carried.labels :
        carried' = [carried EXCEPT !.labels =
          [k \in DOMAIN carried.labels \cup {new} |->
             IF k = new THEN OtherType ELSE carried.labels[k]]]
  BY DEF LabelDiffers
<1> DEFINE old == carried.labels
           labels == [k \in DOMAIN old \cup {new} |-> IF k = new THEN OtherType ELSE old[k]]
<1>2. HasType(old)
  BY DEF LabelDiffers
<1>3. PICK ks \in SUBSET Keys : old \in WireLabels(ks)
  BY <1>2 DEF EventCarries, WireEvents, OnWire, HasType
<1>4. labels \in WireLabels(ks \cup {new}) /\ ks \cup {new} \in SUBSET Keys
  BY <1>1, <1>3 DEF WireLabels
<1>5. {k \in DOMAIN labels : HasType(labels[k])} = {k \in DOMAIN old : HasType(old[k])}
  BY <1>1, <1>3, MarkersHaveNone DEF WireLabels
<1>6. HasType(labels)
  BY <1>4, ValuesHaveTheirType
<1>7. \A k \in {k \in DOMAIN old : HasType(old[k])} : labels[k] = old[k]
  BY <1>1
<1>8. carried' = [carried EXCEPT !.labels = labels]
  BY <1>1
<1> HIDE DEF labels, old
<1>9. asStringMap(labels) = asStringMap(old)
  BY <1>2, <1>5, <1>6, <1>7 DEF asStringMap
<1> QED
  BY <1>4, <1>8, <1>9, LabelsDiffer DEF OnWire, old

\* Once something required is missing the reader throws.
LEMMA RequiredThrows ==
  ASSUME sent \in Events, EventCarries(carried, sent), RequiredDiffers
  PROVE  EventCarries(carried', sent) /\ EventThrows(carried')
<1> DEFINE Required == {"event_id", "agent_id", "action_type", "decision"}
<1>1. ASSUME NEW k \in Required, NEW v \in Markers, carried' = [carried EXCEPT ![k] = v]
      PROVE  EventCarries(carried', sent) /\ EventThrows(carried')
  <2>1. PICK ks \in SUBSET Keys : carried \in WireEvents(ks, DOMAIN sent.nodes)
    BY DEF EventCarries
  <2>2. ~HasType(v) /\ v \in OnWire(Texts)
    BY DEF HasType, OnWire
  <2>3. /\ carried' \in WireEvents(ks, DOMAIN sent.nodes)
        /\ carried'.trace_id = carried.trace_id /\ carried'.span_id = carried.span_id
        /\ carried'.parent_span_id = carried.parent_span_id
        /\ carried'.labels = carried.labels /\ carried'.call_stack = carried.call_stack
        /\ carried'.nodes = carried.nodes
        /\ \A other \in Required : carried'[other] = IF other = k THEN v ELSE carried[other]
    <3>1. CASE k = "event_id"
      BY <1>1, <2>1, <2>2, <3>1 DEF WireEvents
    <3>2. CASE k = "agent_id"
      BY <1>1, <2>1, <2>2, <3>2 DEF WireEvents
    <3>3. CASE k = "action_type"
      BY <1>1, <2>1, <2>2, <3>3 DEF WireEvents
    <3>4. CASE k = "decision"
      BY <1>1, <2>1, <2>2, <3>4 DEF WireEvents
    <3> QED
      BY <3>1, <3>2, <3>3, <3>4
  <2>4. /\ Keeps(carried'.event_id, sent.eventId)
        /\ Keeps(carried'.agent_id, sent.agentId)
        /\ Keeps(carried'.action_type, sent.actionType)
        /\ Keeps(carried'.decision, sent.decision)
    BY <2>2, <2>3 DEF EventCarries, Keeps
  <2>5. EventCarries(carried', sent)
    BY <2>3, <2>4 DEF EventCarries
  <2>6. ~HasType(carried'[k])
    BY <2>2, <2>3
  <2>7. EventThrows(carried')
    BY <2>6 DEF EventThrows
  <2> QED
    BY <2>5, <2>7
<1>2. ASSUME NEW n \in DOMAIN carried.nodes, NEW v \in {Null, OtherType},
             carried' = [carried EXCEPT !.nodes[n] = v]
      PROVE  EventCarries(carried', sent) /\ EventThrows(carried')
  <2>1. v \in OnWire(WireNodes) /\ ~HasType(v) /\ NodeThrows(v)
    BY MarkersHaveNone DEF OnWire, Markers, NodeThrows
  <2> QED
    BY <1>2, <2>1, NodeDiffers
<1>3. ASSUME NEW n \in DOMAIN carried.nodes, HasType(carried.nodes[n]),
             NEW k \in {"id", "kind", "label"}, NEW v \in Markers,
             carried' = [carried EXCEPT !.nodes[n][k] = v]
      PROVE  EventCarries(carried', sent) /\ EventThrows(carried')
  <2> DEFINE node == carried.nodes[n]
             new == [node EXCEPT ![k] = v]
  <2>1. node \in WireNodes
    BY <1>3 DEF EventCarries, WireEvents, OnWire, HasType
  <2>2. NodeCarries(node, sent.nodes[n])
    BY <1>3 DEF EventCarries, WireEvents
  <2>3. ~HasType(v) /\ v \in OnWire(Texts)
    BY DEF HasType, OnWire
  <2>4. /\ new \in WireNodes
        /\ new.latency_ms = node.latency_ms /\ new.children = node.children
        /\ \A other \in {"id", "kind", "label"} :
             new[other] = IF other = k THEN v ELSE node[other]
    <3>1. CASE k = "id"
      BY <2>1, <2>3, <3>1 DEF WireNodes
    <3>2. CASE k = "kind"
      BY <2>1, <2>3, <3>2 DEF WireNodes
    <3>3. CASE k = "label"
      BY <2>1, <2>3, <3>3 DEF WireNodes
    <3> QED
      BY <3>1, <3>2, <3>3
  <2>5. carried' = [carried EXCEPT !.nodes[n] = new]
    BY <1>3
  <2> HIDE DEF new
  <2>6. NodeCarries(new, sent.nodes[n])
    <3>1. /\ Keeps(new.id, sent.nodes[n].id) /\ Keeps(new.kind, sent.nodes[n].kind)
          /\ Keeps(new.label, sent.nodes[n].label)
      BY <2>2, <2>3, <2>4 DEF NodeCarries, Keeps
    <3> QED
      BY <2>2, <2>4, <3>1 DEF NodeCarries
  <2>7. NodeThrows(new)
    BY <2>3, <2>4 DEF NodeThrows
  <2> QED
    BY <2>4, <2>5, <2>6, <2>7, NodeDiffers DEF OnWire
<1> QED
  BY <1>1, <1>2, <1>3 DEF RequiredDiffers, Markers

-----------------------------------------------------------------------------
(* The invariant.                                                          *)

LEMMA AuditInitInv == AuditInit => AuditInv
BY DEF AuditInit, NothingWritten, AuditInv, AuditRoundTrips

LEMMA AuditWritesInv ==
  ASSUME AuditInv, AuditWrites
  PROVE  AuditInv'
<1>1. /\ sent \in Events /\ altered = <<>> /\ received = Undefined
      /\ carried' = encodeAuditEvent(sent)
      /\ sent' = sent /\ altered' = altered /\ received' = received
  BY DEF AuditInv, AuditWrites
<1>2. EventCarries(carried', sent) /\ ~EventThrows(carried')
  BY <1>1, EventIsCarried
<1>3. ~Lost'
  BY <1>1 DEF Lost
<1> QED
  BY <1>1, <1>2, <1>3 DEF AuditInv, AuditRoundTrips

LEMMA AuditDiffersInv ==
  ASSUME AuditInv, AuditDiffers
  PROVE  AuditInv'
<1>1. /\ sent \in Events /\ carried # Undefined /\ received = Undefined
      /\ altered \in Seq(Changes)
      /\ EventCarries(carried, sent) /\ (Lost <=> EventThrows(carried))
      /\ sent' = sent /\ received' = received
  BY DEF AuditInv, AuditDiffers, OnItsWay
<1>2. ASSUME NEW how \in Changes, altered' = Append(altered, how)
      PROVE  /\ altered' \in Seq(Changes)
             /\ Lost' <=> Lost \/ how = "required"
  BY <1>1, <1>2 DEF Lost
<1>3. EventCarries(carried', sent) /\ altered' \in Seq(Changes)
      /\ (Lost' <=> EventThrows(carried'))
  <2>1. CASE OptionalDiffers
    <3>1. EventCarries(carried', sent) /\ (EventThrows(carried') <=> EventThrows(carried))
      BY <1>1, <2>1, OptionalKeeps
    <3>2. altered' = Append(altered, "optional")
      BY <2>1 DEF OptionalDiffers
    <3> QED
      BY <1>1, <1>2, <3>1, <3>2 DEF Changes
  <2>2. CASE LabelDiffers
    <3>1. EventCarries(carried', sent) /\ (EventThrows(carried') <=> EventThrows(carried))
      BY <1>1, <2>2, LabelKeeps
    <3>2. altered' = Append(altered, "label")
      BY <2>2 DEF LabelDiffers
    <3> QED
      BY <1>1, <1>2, <3>1, <3>2 DEF Changes
  <2>3. CASE RequiredDiffers
    <3>1. EventCarries(carried', sent) /\ EventThrows(carried')
      BY <1>1, <2>3, RequiredThrows
    <3>2. altered' = Append(altered, "required")
      BY <2>3 DEF RequiredDiffers
    <3> QED
      BY <1>2, <3>1, <3>2 DEF Changes
  <2> QED
    BY <2>1, <2>2, <2>3 DEF AuditDiffers
<1>4. carried' # Undefined
  <2>1. PICK ks \in SUBSET Keys : carried' \in WireEvents(ks, DOMAIN sent.nodes)
    BY <1>3 DEF EventCarries
  <2>2. DOMAIN sent.nodes \in SUBSET Frames
    BY <1>1, SentIsTyped
  <2> QED
    BY <2>1, <2>2, MarkersAssumption
<1> QED
  BY <1>1, <1>3, <1>4 DEF AuditInv, AuditRoundTrips

LEMMA AuditReadsInv ==
  ASSUME AuditInv, AuditReads
  PROVE  AuditInv'
<1>1. /\ sent \in Events /\ carried # Undefined /\ altered \in Seq(Changes)
      /\ EventCarries(carried, sent) /\ (Lost <=> EventThrows(carried))
      /\ received' = decodeAuditEvent(carried)
      /\ sent' = sent /\ carried' = carried /\ altered' = altered
  BY DEF AuditInv, AuditReads, OnItsWay
<1>2. received' = IF Lost THEN Threw ELSE Normal(sent)
  <2>1. CASE Lost
    BY <1>1, <2>1 DEF decodeAuditEvent
  <2>2. CASE ~Lost
    BY <1>1, <2>2, CarriedIsRead
  <2> QED
    BY <2>1, <2>2
<1> QED
  BY <1>1, <1>2 DEF AuditInv, AuditRoundTrips, Lost

LEMMA AuditNextInv ==
  ASSUME AuditInv, AuditNext
  PROVE  AuditInv'
BY AuditWritesInv, AuditDiffersInv, AuditReadsInv DEF AuditNext

-----------------------------------------------------------------------------
(* The whole.                                                              *)

Inv ==
  /\ BinaryInv
  /\ JsonInv
  /\ path = "audit" => AuditInv

LEMMA InitInv == Init => Inv
<1>1. MessageInit => Inv
  BY MessageInitInv DEF MessageInit, MessageInv, Inv
<1>2. AuditInit => Inv
  BY AuditInitInv DEF AuditInit, BinaryInv, JsonInv, Inv
<1> QED
  BY <1>1, <1>2 DEF Init

LEMMA NextInv == Inv /\ [Next]_vars => Inv'
<1> SUFFICES ASSUME Inv, [Next]_vars
             PROVE  Inv'
  OBVIOUS
<1>1. CASE MessageNext
  <2>1. path' = path /\ path \in {"binary", "json"}
    BY <1>1 DEF MessageNext, Writes, PeerDiffers, Reads
  <2>2. path = "binary" => BinaryInv'
    BY <1>1, BinaryNextInv DEF Inv
  <2>3. path = "json" => JsonInv'
    BY <1>1, JsonNextInv DEF Inv
  <2> QED
    BY <2>1, <2>2, <2>3 DEF BinaryInv, JsonInv, Inv
<1>2. CASE AuditNext
  <2>1. path' = path /\ path = "audit"
    BY <1>2 DEF AuditNext
  <2>2. AuditInv'
    BY <1>2, <2>1, AuditNextInv DEF Inv
  <2> QED
    BY <2>1, <2>2 DEF BinaryInv, JsonInv, Inv
<1>3. CASE UNCHANGED vars
  <2>1. BinaryInv' /\ JsonInv'
    BY <1>3 DEF vars, exchangeVars, Inv, BinaryInv, JsonInv, DecodedIsSent, JsonRoundTrips
  <2>2. (path = "audit" => AuditInv)'
    BY <1>3 DEF vars, exchangeVars, Inv, AuditInv, AuditRoundTrips, Lost
  <2> QED
    BY <2>1, <2>2 DEF Inv
<1> QED
  BY <1>1, <1>2, <1>3 DEF Next

LEMMA InvHolds == Spec => []Inv
BY InitInv, NextInv, PTL DEF Spec

\* A message of the policy service in its binary form, with messages in it to
\* any depth and lists of any length, is read as it was sent, whatever fields
\* of another version of the protocol were added and in whatever order its own
\* come, and it throws exactly when a 64-bit number in it is past the safe
\* integers (policy.ts and common.ts, encode and decode).
THEOREM MessagesAreDecodedAsSent == Spec => []DecodedIsSent
<1>1. Inv => DecodedIsSent
  BY DEF Inv, BinaryInv, DecodedIsSent
<1> QED
  BY <1>1, InvHolds, PTL

\* The same message as JSON, with the names and numbers of either style, is
\* read whole and each field as it was sent, with two exceptions: a value its
\* enumeration has no name for here becomes UNRECOGNIZED, and a 64-bit number no
\* double holds becomes another, past the safe integers as it was (policy.ts and
\* common.ts, toJSON and fromJSON).
THEOREM MessagesSurviveJson == Spec => []JsonRoundTrips
<1>1. Inv => JsonRoundTrips
  BY DEF Inv, JsonInv, JsonRoundTrips
<1> QED
  BY <1>1, InvHolds, PTL

\* An audit event with a call stack of any depth and any number of labels,
\* changed on the way any number of times, is read as it was sent, or refused
\* as a whole when something required was taken away (audit/encode.ts).
THEOREM AuditEventsRoundTrip == Spec => []AuditRoundTrips
<1>1. Inv => AuditRoundTrips
  BY DEF Inv, AuditInv, AuditRoundTrips
<1> QED
  BY <1>1, InvHolds, PTL
=============================================================================
