---------------------------- MODULE AuditExchange ----------------------------
(***************************************************************************)
(* An audit event on its way from one version of the protocol to another:  *)
(* it is encoded, may be altered as another producer would write it, and   *)
(* decoded.  Where a field is not set there may be null, a value of        *)
(* another type or an empty one; a label may be no string; and a required  *)
(* field may be missing, of the event or of any node of its call stack.    *)
(***************************************************************************)
EXTENDS AuditEncoding, Exchange
LOCAL INSTANCE Integers
LOCAL INSTANCE Sequences

CONSTANTS
  Frames,   \* names of the nodes of call stacks
  Keys,     \* names of labels
  Events    \* the audit events a writer may hold

Optional(S) == S \cup {Undefined}

Nodes ==
  [id : Texts, kind : Texts, label : Texts,
   latencyMs : Optional(Int \cup {NotANumber}), children : Optional(Seq(Frames))]

\* Events with labels of these names and these nodes in their call stack.
AuditEvents(ks, fs) ==
  [eventId : Texts, agentId : Texts, actionType : Texts, decision : Texts,
   traceId : Optional(Texts), spanId : Optional(Texts), parentSpanId : Optional(Texts),
   labels : Optional([ks -> Texts]), callStack : Optional(Seq(Frames)), nodes : [fs -> Nodes]]

\* The lists of an event, and the nodes that they name.
Lists(event) ==
  ({event.callStack} \cup {event.nodes[n].children : n \in DOMAIN event.nodes}) \ {Undefined}
Named(event) == UNION {{list[i] : i \in DOMAIN list} : list \in Lists(event)}

\* What may stand in the JSON text where a value of S is expected; a node, and
\* an event with labels of these names and these nodes, as they are written.
OnWire(S) == S \cup Markers

WireNodes ==
  [id : OnWire(Texts), kind : OnWire(Texts), label : OnWire(Texts),
   latency_ms : OnWire(Int), children : OnWire(Seq(Frames))]

WireLabels(ks) == [ks -> Texts \cup {OtherType}]

WireEvents(ks, fs) ==
  [event_id : OnWire(Texts), agent_id : OnWire(Texts), action_type : OnWire(Texts),
   decision : OnWire(Texts), trace_id : OnWire(Texts), span_id : OnWire(Texts),
   parent_span_id : OnWire(Texts), labels : OnWire(WireLabels(ks)),
   call_stack : OnWire(Seq(Frames)), nodes : [fs -> OnWire(WireNodes)]]

ASSUME EventsAssumption ==
  \A event \in Events : \E ks \in SUBSET Keys : event \in AuditEvents(ks, Named(event))
ASSUME MarkersAssumption ==
  /\ Undefined # Null /\ OtherType \notin {Undefined, Null}
  /\ NotANumber \notin Int \cup {Undefined}
  /\ \A v \in Markers : v \notin Texts \cup Int \cup Seq(Frames) \cup WireNodes
  /\ \A ks \in SUBSET Keys, v \in Markers : v \notin WireLabels(ks)
  /\ \A ks \in SUBSET Keys, fs \in SUBSET Frames : Undefined \notin WireEvents(ks, fs)

AuditInit ==
  /\ path = "audit"
  /\ sent \in Events
  /\ NothingWritten

-----------------------------------------------------------------------------
AuditWrites ==
  /\ carried = Undefined
  /\ carried' = encodeAuditEvent(sent)
  /\ UNCHANGED <<sent, altered, received>>

Traces == {"trace_id", "span_id", "parent_span_id"}

\* Where an optional field is not set: null, another type, or empty.
OptionalDiffers ==
  /\ \/ \E k \in Traces, v \in {Null, OtherType, ""} :
          carried[k] = Undefined /\ carried' = [carried EXCEPT ![k] = v]
     \/ \E v \in {Null, OtherType, <<>>} :
          carried.call_stack = Undefined /\ carried' = [carried EXCEPT !.call_stack = v]
     \/ \E v \in {Null, OtherType} \cup UNION {[ks -> {OtherType}] : ks \in SUBSET Keys} :
          carried.labels = Undefined /\ carried' = [carried EXCEPT !.labels = v]
     \/ \E n \in DOMAIN carried.nodes :
          /\ HasType(carried.nodes[n])
          /\ \/ \E v \in {Null, OtherType} :
                  /\ carried.nodes[n].latency_ms = Undefined
                  /\ carried' = [carried EXCEPT !.nodes[n].latency_ms = v]
             \/ \E v \in {Null, OtherType, <<>>} :
                  /\ carried.nodes[n].children = Undefined
                  /\ carried' = [carried EXCEPT !.nodes[n].children = v]
  /\ altered' = Append(altered, "optional")

\* A label that is no string among those that are.
LabelDiffers ==
  /\ HasType(carried.labels)
  /\ \E new \in Keys \ DOMAIN carried.labels :
       carried' = [carried EXCEPT !.labels =
         [k \in DOMAIN carried.labels \cup {new} |->
            IF k = new THEN OtherType ELSE carried.labels[k]]]
  /\ altered' = Append(altered, "label")

\* A required field of the event, or of a node, is not there or not a string;
\* or a node is not an object.
RequiredDiffers ==
  /\ \/ \E k \in {"event_id", "agent_id", "action_type", "decision"},
           v \in {Undefined, Null, OtherType} :
          carried' = [carried EXCEPT ![k] = v]
     \/ \E n \in DOMAIN carried.nodes :
          \/ \E v \in {Null, OtherType} : carried' = [carried EXCEPT !.nodes[n] = v]
          \/ /\ HasType(carried.nodes[n])
             /\ \E k \in {"id", "kind", "label"}, v \in {Undefined, Null, OtherType} :
                  carried' = [carried EXCEPT !.nodes[n][k] = v]
  /\ altered' = Append(altered, "required")

AuditDiffers ==
  /\ OnItsWay
  /\ \A i \in DOMAIN altered : i < MaxAltered
  /\ OptionalDiffers \/ LabelDiffers \/ RequiredDiffers
  /\ UNCHANGED <<sent, received>>

AuditReads ==
  /\ OnItsWay
  /\ received' = decodeAuditEvent(carried)
  /\ UNCHANGED <<sent, carried, altered>>

AuditNext ==
  /\ path = "audit"
  /\ AuditWrites \/ AuditDiffers \/ AuditReads
  /\ UNCHANGED path

-----------------------------------------------------------------------------
\* An event as its reader sees it: what is empty, or no number, is not set.
UnsetIf(v, empty) == IF v = empty THEN Undefined ELSE v

NormalNode(node) ==
  [node EXCEPT !.latencyMs = UnsetIf(@, NotANumber), !.children = UnsetIf(@, <<>>)]

Normal(event) ==
  [event EXCEPT
     !.traceId = UnsetIf(@, ""), !.spanId = UnsetIf(@, ""), !.parentSpanId = UnsetIf(@, ""),
     !.labels = IF @ = Undefined \/ DOMAIN @ = {} THEN Undefined ELSE @,
     !.callStack = UnsetIf(@, <<>>),
     !.nodes = [n \in DOMAIN @ |-> NormalNode(event.nodes[n])]]

\* An audit event is read as it was sent, zero latencies and empty required
\* fields included, whatever stands where it sets nothing; one that lacks a
\* required field, at any depth, is refused as a whole.
AuditRoundTrips ==
  path = "audit" /\ received # Undefined =>
    received = IF \E i \in DOMAIN altered : altered[i] = "required" THEN Threw ELSE Normal(sent)
=============================================================================
