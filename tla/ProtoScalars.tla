----------------------------- MODULE ProtoScalars -----------------------------
(***************************************************************************)
(* The conversions of the generated protocol code (src/proto/generated)    *)
(* that change a single value: 64-bit integers into JavaScript's doubles,  *)
(* and enumerations to and from JSON.                                      *)
(***************************************************************************)
EXTENDS JsonValues
LOCAL INSTANCE Integers
LOCAL INSTANCE Sequences

CONSTANT MaxSafeInteger  \* Number.MAX_SAFE_INTEGER, one less than a power of two

ASSUME MaxSafeAssumption == MaxSafeInteger \in Nat /\ MaxSafeInteger % 4 = 3
ASSUME ThrewAssumption == Threw \notin Int

-----------------------------------------------------------------------------
SafeIntegers == -MaxSafeInteger .. MaxSafeInteger

\* The gap between the doubles around a 64-bit integer: 1 up to 2^53, and twice
\* as much past each power of two from there.
Gaps == {1, 2, 4, 8, 16, 32, 64, 128, 256, 512, 1024, 2048}

Within(gap) == 1 - gap * (MaxSafeInteger + 1) .. gap * (MaxSafeInteger + 1) - 1

Gap(n) == CHOOSE gap \in Gaps : n \in Within(gap) /\ (gap > 1 => n \notin Within(gap \div 2))

IsDouble(n) == n % Gap(n) = 0

\* Number(digits): the nearest double, and of two as near the even one.
Number(n) ==
  LET over == n % Gap(n)
      below == n - over
      even == (below \div Gap(n)) % 2 = 0
  IN IF 2 * over < Gap(n) \/ (2 * over = Gap(n) /\ even) THEN below ELSE below + Gap(n)

longToNumber(n) ==
  IF Number(n) > MaxSafeInteger \/ Number(n) < -MaxSafeInteger THEN Threw ELSE Number(n)

-----------------------------------------------------------------------------
\* The names of each enumeration, from value 0 on.
Decision == <<"DECISION_UNSPECIFIED", "ALLOW", "DENY", "PENDING", "REDACT">>

ActionType ==
  <<"ACTION_UNSPECIFIED", "LLM_CALL", "TOOL_CALL", "FILE_OPERATION", "NETWORK_CALL",
    "PROCESS_EXEC", "AGENT_SPAWN">>

OpControlSignal ==
  <<"OP_CONTROL_SIGNAL_UNSPECIFIED", "OP_CONTROL_SIGNAL_PAUSE",
    "OP_CONTROL_SIGNAL_RESUME", "OP_CONTROL_SIGNAL_TERMINATE">>

Enums == [Decision |-> Decision, ActionType |-> ActionType, OpControlSignal |-> OpControlSignal]

EnumToJSON(names, n) == IF n + 1 \in DOMAIN names THEN names[n + 1] ELSE "UNRECOGNIZED"

\* Mutant: the default case returns the first value.
EnumFromJSON_Zero(names, j) ==
  IF j[1] = "number" /\ j[2] + 1 \in DOMAIN names THEN j[2]
  ELSE IF j[1] = "name" /\ \E i \in DOMAIN names : names[i] = j[2]
  THEN (CHOOSE i \in DOMAIN names : names[i] = j[2]) - 1
  ELSE 0

EnumFromJSON(names, j) ==
  IF j[1] = "number" /\ j[2] + 1 \in DOMAIN names THEN j[2]
  ELSE IF j[1] = "name" /\ \E i \in DOMAIN names : names[i] = j[2]
  THEN (CHOOSE i \in DOMAIN names : names[i] = j[2]) - 1
  ELSE -1
=============================================================================
