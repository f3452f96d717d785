----------------------------- MODULE MCEncodings -----------------------------
(* Every type of message, its parts named by the way to them: the numbers of  *)
(* the fields and the places in their lists.  A safe integer is one of four   *)
(* bits.  Audit events have call stacks of up to two levels.                  *)
EXTENDS Encodings

CONSTANTS
  MaxSet,         \* at most so many fields of a message are set
  MaxSetNested,   \* and so many of a message in it
  MaxRepeated,    \* the longest repeated field
  f1, f2, f3

MCParts == Seq(Nat)

\* Part p of type t, with at most max fields set, each to one of its values,
\* and the parts below.
RECURSIVE Trees(_, _, _)
Trees(t, max, p) ==
  LET Alone(v) == [value |-> v, types |-> <<>>, parts |-> <<>>]
      Below(q, of) ==
        {[value |-> q, types |-> tree.types, parts |-> tree.parts] :
           tree \in Trees(of, MaxSetNested, q)}
      Joined(a, b, v) ==
        [value |-> v, types |-> a.types @@ b.types, parts |-> a.parts @@ b.parts]
      ListsOf(f) ==
        LET upTo[n \in 0 .. MaxRepeated] ==
              IF n = 0 THEN {Alone(<<>>)}
              ELSE {Joined(list, elem, Append(list.value, elem.value)) :
                      list \in {l \in upTo[n - 1] : Len(l.value) = n - 1},
                      elem \in Below(Append(p, 10 * f.no + n), f.of)} \cup upTo[n - 1]
        IN upTo[MaxRepeated] \ {Alone(<<>>)}
      Options(f) ==
        CASE f.kind \in {"string", "bytes"} -> {Alone("s")}
          [] f.kind = "bool" -> {Alone(TRUE)}
          [] f.kind = "int32" -> {Alone(1)}
          [] f.kind = "uint64" ->
               {Alone(n) : n \in {1, MaxSafeInteger, MaxSafeInteger + 1, MaxSafeInteger + 2,
                                    MaxSafeInteger + 4, 2 * MaxSafeInteger + 8}}
          [] f.kind = "int64" ->
               {Alone(n) : n \in {-MaxSafeInteger - 1, 1, MaxSafeInteger, MaxSafeInteger + 1}}
          [] f.kind = "enum" -> {Alone(n) : n \in {1, Len(Enums[f.of]) - 1, Len(Enums[f.of])}}
          [] f.kind = "strings" ->
               {Alone(list) : list \in BoundedSeq({"", "s"}, MaxRepeated) \ {<<>>}}
          [] f.kind = "message" -> Below(Append(p, f.no), f.of)
          [] f.kind = "messages" -> ListsOf(f)
      IsSet(m) == {f \in FieldsOf(t) : m[f.name] # Default(f)}
      WithField(trees, f) ==
        trees \cup
        {LET all == Joined(tree, option, 0)
         IN [types |-> all.types,
             parts |-> [all.parts EXCEPT ![p] = [@ EXCEPT ![f.name] = option.value]]] :
           tree \in {tree \in trees : Cardinality(IsSet(tree.parts[p])) < max},
           option \in Options(f)}
  IN FoldLeft(WithField, {[types |-> p :> t, parts |-> p :> Base(t)]}, Messages[t])

MCSentMessages == UNION {Trees(t, MaxSet, <<>>) : t \in Types}

MCTexts == {"", "s", "tool"}
MCFrames == {f1, f2, f3}
MCKeys == {"a", "b", "c"}

Node(children) ==
  [id : {"s"}, kind : {"tool"}, label : {"s"},
   latencyMs : {Undefined, NotANumber, 0, 1}, children : children]

\* No stack, and one node with none or two below it.
Stacks ==
  [callStack : {Undefined, <<>>}, nodes : {<<>>}] \cup
  [callStack : {<<f1>>}, nodes : [{f1} -> Node({Undefined, <<>>})]] \cup
  [callStack : {<<f1>>},
   nodes : {[f \in MCFrames |-> CASE f = f1 -> n1 [] f = f2 -> n2 [] f = f3 -> n3] :
              n1 \in Node({<<f2, f3>>}), n2 \in Node({Undefined}), n3 \in Node({<<>>})}]

MCEvents ==
  {[eventId |-> "s", agentId |-> "", actionType |-> "s", decision |-> "s",
    traceId |-> trace, spanId |-> span, parentSpanId |-> "s", labels |-> labels,
    callStack |-> stack.callStack, nodes |-> stack.nodes] :
     trace \in {Undefined, "", "s"}, span \in {Undefined, ""},
     labels \in {Undefined} \cup UNION {[ks -> {"s"}] : ks \in SUBSET {"a", "b"}},
     stack \in Stacks}
=============================================================================
