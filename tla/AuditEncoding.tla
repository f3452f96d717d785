---------------------------- MODULE AuditEncoding ----------------------------
(***************************************************************************)
(* The JSON form of an audit event (src/audit/encode.ts): camelCase fields *)
(* to snake_case keys and back.  An absent field is Undefined on both      *)
(* sides, so that JSON.stringify, which drops it, is the identity but for  *)
(* one value: a latency that is not a number is printed as null.           *)
(*                                                                         *)
(* The call stack is a tree of any depth.  Its nodes have names, and the   *)
(* lists callStack and children hold the names of the nodes below: the     *)
(* conversions go down every list and treat each node alike, so that here  *)
(* they map the nodes by name and keep the names in the lists.             *)
(***************************************************************************)
EXTENDS JsonValues

CONSTANTS
  NotANumber,   \* NaN or Infinity as a latency
  OtherType     \* a JSON value that is neither null nor of the type expected

\* What is no string, no array and no number.
Markers == {Undefined, Null, OtherType}

\* typeof v === "string", Array.isArray(v) and typeof v === "number" on what
\* can stand where a string, an array or a number is expected.
HasType(v) == v \notin Markers

-----------------------------------------------------------------------------
\* Mutant: a latency of zero counts as not set.
LatencyToWire_NonZero(ms) == IF ms \in {NotANumber, 0} THEN Undefined ELSE ms

\* latency_ms as it stands in the JSON text.
LatencyToWire(ms) == IF ms = NotANumber THEN Null ELSE ms

\* A list that is not set, or empty, is left out.
ListToWire(list) == IF list = <<>> THEN Undefined ELSE list

encodeCallStackNode(node) ==
  [id |-> node.id, kind |-> node.kind, label |-> node.label,
   latency_ms |-> LatencyToWire(node.latencyMs), children |-> ListToWire(node.children)]

NonEmpty(v) == IF v = "" THEN Undefined ELSE v

LabelsToWire(labels) ==
  IF labels = Undefined \/ DOMAIN labels = {} THEN Undefined ELSE labels

encodeAuditEvent(event) ==
  [event_id |-> event.eventId, agent_id |-> event.agentId,
   action_type |-> event.actionType, decision |-> event.decision,
   trace_id |-> NonEmpty(event.traceId), span_id |-> NonEmpty(event.spanId),
   parent_span_id |-> NonEmpty(event.parentSpanId),
   labels |-> LabelsToWire(event.labels), call_stack |-> ListToWire(event.callStack),
   nodes |-> [n \in DOMAIN event.nodes |-> encodeCallStackNode(event.nodes[n])]]

-----------------------------------------------------------------------------
\* What is no list, or an empty one, is not set.
ListFrom(wire) == IF HasType(wire) /\ wire # <<>> THEN wire ELSE Undefined

\* decodeCallStackNode throws.
NodeThrows(wire) ==
  ~HasType(wire) \/ ~(HasType(wire.id) /\ HasType(wire.kind) /\ HasType(wire.label))

decodeCallStackNode(wire) ==
  [id |-> wire.id, kind |-> wire.kind, label |-> wire.label,
   latencyMs |-> IF HasType(wire.latency_ms) THEN wire.latency_ms ELSE Undefined,
   children |-> ListFrom(wire.children)]

asNonEmptyString(v) == IF HasType(v) /\ v # "" THEN v ELSE Undefined

asStringMap(v) ==
  LET keys == {k \in DOMAIN v : HasType(v[k])}
  IN IF ~HasType(v) \/ keys = {} THEN Undefined ELSE [k \in keys |-> v[k]]

\* A required field is no string, or a node of the call stack is refused.
EventThrows(wire) ==
  \/ \E v \in {wire.event_id, wire.agent_id, wire.action_type, wire.decision} : ~HasType(v)
  \/ \E n \in DOMAIN wire.nodes : NodeThrows(wire.nodes[n])

decodeAuditEvent(wire) ==
  IF EventThrows(wire) THEN Threw
  ELSE [eventId |-> wire.event_id, agentId |-> wire.agent_id,
        actionType |-> wire.action_type, decision |-> wire.decision,
        traceId |-> asNonEmptyString(wire.trace_id),
        spanId |-> asNonEmptyString(wire.span_id),
        parentSpanId |-> asNonEmptyString(wire.parent_span_id),
        labels |-> asStringMap(wire.labels), callStack |-> ListFrom(wire.call_stack),
        nodes |-> [n \in DOMAIN wire.nodes |-> decodeCallStackNode(wire.nodes[n])]]
=============================================================================
