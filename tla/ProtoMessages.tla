---------------------------- MODULE ProtoMessages ----------------------------
(***************************************************************************)
(* The generated protocol code (src/proto/generated/policy.ts, common.ts). *)
(* For every message the generator repeats the same conversions field by   *)
(* field: encode, decode, toJSON and fromJSON, over the object createBase  *)
(* returns.  Here a message is its table of fields and each conversion is  *)
(* one operator over any table.  A field is [no, name, key, kind, of]: its *)
(* number, its name in a message object and in what toJSON prints, the     *)
(* second name fromJSON accepts, its type and the message's or enum's name.*)
(*                                                                         *)
(* A message that holds others is a tree of any depth.  Its parts have     *)
(* names, and a field that holds a message, or several, has the names of   *)
(* its parts: each conversion calls that of every message below, so that   *)
(* here it maps the parts by name and keeps the names in the fields.       *)
(*                                                                         *)
(* Encoded bytes are, for each part, a sequence of items <<number, wire    *)
(* type, content>>: the two parts of a tag and what follows it, a part's   *)
(* name for a message.  The bytes themselves and the groups of proto2,     *)
(* which no writer emits, are left out.                                    *)
(***************************************************************************)
EXTENDS ProtoScalars, Integers, Sequences, SequencesExt

-----------------------------------------------------------------------------
(* Tables of fields.                                                       *)
Of(kind, of, no, name, key) ==
  [no |-> no, name |-> name, key |-> key, kind |-> kind, of |-> of]
Scalar(kind, no, name, key) == Of(kind, "", no, name, key)
Str(no, name, key) == Scalar("string", no, name, key)

AgentId ==
  << Str(1, "orgId", "org_id"), Str(2, "teamId", "team_id"), Str(3, "agentId", "agent_id") >>

Timestamp == << Scalar("int64", 1, "unixMs", "unix_ms") >>

CheckActionRequest ==
  << Of("message", "AgentId", 1, "agentId", "agent_id"),
     Str(2, "credentialToken", "credential_token"),
     Str(3, "traceId", "trace_id"), Str(4, "spanId", "span_id"),
     Of("enum", "ActionType", 5, "actionType", "action_type"),
     Of("message", "ActionContext", 6, "context", "context") >>

ActionContext ==
  << Of("message", "LLMCallContext", 1, "llmCall", "llm_call"),
     Of("message", "ToolCallContext", 2, "toolCall", "tool_call"),
     Of("message", "FileOpContext", 3, "fileOp", "file_op"),
     Of("message", "NetworkCallContext", 4, "networkCall", "network_call"),
     Of("message", "ProcessExecContext", 5, "processExec", "process_exec") >>

LLMCallContext ==
  << Str(1, "model", "model"), Scalar("int32", 2, "promptTokens", "prompt_tokens"),
     Scalar("bool", 3, "containsPii", "contains_pii") >>

ToolCallContext ==
  << Str(1, "toolName", "tool_name"), Str(2, "toolSource", "tool_source"),
     Scalar("bytes", 3, "argsJson", "args_json"), Str(4, "targetUrl", "target_url") >>

FileOpContext ==
  << Str(1, "operation", "operation"), Str(2, "path", "path"),
     Scalar("bool", 3, "isSensitivePath", "is_sensitive_path") >>

NetworkCallContext ==
  << Str(1, "host", "host"), Scalar("int32", 2, "port", "port"),
     Str(3, "protocol", "protocol"), Scalar("bool", 4, "inAllowlist", "in_allowlist") >>

ProcessExecContext ==
  << Str(1, "command", "command"), Scalar("strings", 2, "args", "args") >>

CheckActionResponse ==
  << Of("enum", "Decision", 1, "decision", "decision"), Str(2, "reason", "reason"),
     Str(3, "policyRule", "policy_rule"), Str(4, "approvalId", "approval_id"),
     Of("message", "RedactInstructions", 5, "redact", "redact"),
     Scalar("int64", 6, "decisionLatencyUs", "decision_latency_us") >>

RedactInstructions == << Of("messages", "RedactRule", 1, "rules", "rules") >>

RedactRule == << Str(1, "fieldPath", "field_path"), Str(2, "replacement", "replacement") >>

BatchCheckRequest == << Of("messages", "CheckActionRequest", 1, "requests", "requests") >>

BatchCheckResponse == << Of("messages", "CheckActionResponse", 1, "responses", "responses") >>

OpControlSubscribeRequest == << Of("message", "AgentId", 1, "agentId", "agent_id") >>

OpControlMessage ==
  << Str(1, "opId", "op_id"), Of("enum", "OpControlSignal", 2, "signal", "signal"),
     Scalar("uint64", 3, "sequence", "sequence") >>

Messages ==
  [AgentId |-> AgentId, Timestamp |-> Timestamp,
   CheckActionRequest |-> CheckActionRequest, ActionContext |-> ActionContext,
   LLMCallContext |-> LLMCallContext, ToolCallContext |-> ToolCallContext,
   FileOpContext |-> FileOpContext, NetworkCallContext |-> NetworkCallContext,
   ProcessExecContext |-> ProcessExecContext,
   CheckActionResponse |-> CheckActionResponse,
   RedactInstructions |-> RedactInstructions, RedactRule |-> RedactRule,
   BatchCheckRequest |-> BatchCheckRequest, BatchCheckResponse |-> BatchCheckResponse,
   OpControlSubscribeRequest |-> OpControlSubscribeRequest,
   OpControlMessage |-> OpControlMessage]

\* The service's methods and the messages they serialize both ways.
PolicyService ==
  [checkAction |-> {"CheckActionRequest", "CheckActionResponse"},
   batchCheck |-> {"BatchCheckRequest", "BatchCheckResponse"},
   opControlStream |-> {"OpControlSubscribeRequest", "OpControlMessage"}]

FieldsOf(t) == {Messages[t][i] : i \in DOMAIN Messages[t]}
Names(t) == {f.name : f \in FieldsOf(t)}
FieldNamed(t, n) == CHOOSE f \in FieldsOf(t) : f.name = n

Repeated(f) == f.kind \in {"strings", "messages"}
Is64Bit(f) == f.kind \in {"int64", "uint64"}

-----------------------------------------------------------------------------
(* Message objects.                                                        *)

\* For each type of field what createBase sets it to, and its wire type.
Kind(default, wire) == [default |-> default, wire |-> wire]

Kinds ==
  [string |-> Kind("", 2), bytes |-> Kind("", 2), bool |-> Kind(FALSE, 0),
   int32 |-> Kind(0, 0), int64 |-> Kind(0, 0), uint64 |-> Kind(0, 0), enum |-> Kind(0, 0),
   message |-> Kind(Undefined, 2), strings |-> Kind(<<>>, 2), messages |-> Kind(<<>>, 2)]

Default(f) == Kinds[f.kind].default

\* createBase: the object no field of which is set.
Base(t) == [n \in Names(t) |-> Default(FieldNamed(t, n))]

-----------------------------------------------------------------------------
(* The binary format.                                                      *)
Wire(f) == Kinds[f.kind].wire

IsWritten(f, v) == v # Default(f)

\* The contents of a field's items: one of each value of a list.
Contents(f, v) == IF Repeated(f) THEN v ELSE IF IsWritten(f, v) THEN <<v>> ELSE <<>>

Encode(t, m) ==
  LET Items(f) ==
        [i \in DOMAIN Contents(f, m[f.name]) |->
           <<f.no, Wire(f), Contents(f, m[f.name])[i]>>]
  IN FlattenSeq([i \in DOMAIN Messages[t] |-> Items(Messages[t][i])])

\* Mutant: a string is recognised by its number alone.
Matches_Number(f, item) == item[1] = f.no /\ (f.kind # "string" => item[2] = Wire(f))

Matches(f, item) == item[1] = f.no /\ item[2] = Wire(f)

Read(f, v) == IF Is64Bit(f) THEN longToNumber(v) ELSE v

Store(m, f, v) == [m EXCEPT ![f.name] = IF Repeated(f) THEN Append(@, v) ELSE v]

\* One turn of decode's loop: an item no case takes is skipped.
DecodeItem(t, m, item) ==
  IF \E f \in FieldsOf(t) : Matches(f, item)
  THEN LET f == CHOOSE f \in FieldsOf(t) : Matches(f, item)
       IN Store(m, f, Read(f, item[3]))
  ELSE m

DecodeThrows(t, items) ==
  \E i \in DOMAIN items, f \in FieldsOf(t) :
    Matches(f, items[i]) /\ Is64Bit(f) /\ longToNumber(items[i][3]) = Threw

Decode(t, items) ==
  LET after[i \in 0 .. Len(items)] ==
        IF i = 0 THEN Base(t) ELSE DecodeItem(t, after[i - 1], items[i])
  IN after[Len(items)]

\* A message and those in it; one that throws makes the whole throw.
EncodeParts(types, parts) == [p \in DOMAIN parts |-> Encode(types[p], parts[p])]

DecodeParts(types, parts) ==
  IF \E p \in DOMAIN parts : DecodeThrows(types[p], parts[p]) THEN Threw
  ELSE [p \in DOMAIN parts |-> Decode(types[p], parts[p])]

-----------------------------------------------------------------------------
(* JSON.  "own" is what toJSON prints; "proto" is another producer of the  *)
(* protocol's JSON, with the proto file's names, enumerations as numbers,  *)
(* 64-bit integers as digits, and null and zeros for what is not set.      *)
Styles == {"own", "proto"}

Key(f, style) == IF style = "own" THEN f.name ELSE f.key

JsonOf(f, v, style) ==
  IF f.kind = "message" /\ v = Undefined THEN Null
  ELSE IF f.kind = "enum"
  THEN IF style = "own" THEN <<"name", EnumToJSON(Enums[f.of], v)>> ELSE <<"number", v>>
  ELSE IF f.kind = "bytes" THEN <<"base64", v>>
  ELSE IF Is64Bit(f) THEN <<IF style = "own" THEN "number" ELSE "digits", v>>
  ELSE v

ToJSON(t, m, style) ==
  LET present == {f \in FieldsOf(t) : style = "own" => IsWritten(f, m[f.name])}
  IN [k \in {Key(f, style) : f \in present} |->
        LET f == CHOOSE f \in present : Key(f, style) = k
        IN JsonOf(f, m[f.name], style)]

Given(f, j) ==
  IF f.name \in DOMAIN j THEN j[f.name] ELSE IF f.key \in DOMAIN j THEN j[f.key] ELSE Undefined

Parse(f, v) ==
  IF f.kind = "enum" THEN EnumFromJSON(Enums[f.of], v)
  ELSE IF f.kind = "bytes" THEN v[2]
  ELSE IF Is64Bit(f) THEN Number(v[2])
  ELSE v

FieldFromJSON(f, j) ==
  IF Given(f, j) \in {Undefined, Null} THEN Default(f) ELSE Parse(f, Given(f, j))

FromJSON(t, j) == [n \in Names(t) |-> FieldFromJSON(FieldNamed(t, n), j)]

PartsToJSON(types, parts, style) == [p \in DOMAIN parts |-> ToJSON(types[p], parts[p], style)]

PartsFromJSON(types, parts) == [p \in DOMAIN parts |-> FromJSON(types[p], parts[p])]
=============================================================================
