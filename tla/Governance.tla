------------------------------ MODULE Governance ------------------------------
(***************************************************************************)
(* What governing a tool promises to whoever calls it, whatever the        *)
(* gateway, the audit sink, the timers and the op-control stream do: the   *)
(* tool starts once every layer around it has consented, and only then; a  *)
(* layer with a gate consents only when the kill switch let the call pass  *)
(* there; and a call that was refused, or broke down on its way, stays so: *)
(* nobody consents to it any more and its tool never starts.               *)
(***************************************************************************)
EXTENDS Naturals

CONSTANTS Calls, Tracked, Ops, OpOf, Depth

Layers == 1 .. Depth
Gates == Tracked \X Layers

VARIABLES
  killed, outcome,   \* the kill switch at every gate
  around,            \* the layers around each call's tool
  gated,             \* those of them that wait at a gate
  consented,         \* those that have said yes
  fate               \* "open" | "broken" | "refused" | "running" | "returned" | "threw"

Switch == INSTANCE KillSwitch WITH
  Calls <- Gates, OpOf <- [g \in Gates |-> OpOf[g[1]]]

callVars == <<around, gated, consented, fate>>
vars == <<Switch!vars, callVars>>

Init ==
  /\ Switch!Init
  /\ around \in [Calls -> (SUBSET Layers) \ {{}}]
  /\ gated \in [Calls -> SUBSET Layers]
  /\ \A c \in Calls : gated[c] \subseteq around[c] /\ (c \notin Tracked => gated[c] = {})
  /\ consented = [c \in Calls |-> {}]
  /\ fate = [c \in Calls |-> "open"]

\* The last consent starts the tool.
Consent(c, l) ==
  /\ fate[c] = "open"
  /\ l \in around[c] \ consented[c]
  /\ l \in gated[c] => outcome[<<c, l>>] = "passed"
  /\ consented' = [consented EXCEPT ![c] = @ \cup {l}]
  /\ fate' = [fate EXCEPT ![c] = IF around[c] = consented[c] \cup {l} THEN "running" ELSE "open"]
  /\ UNCHANGED <<around, gated>>

Ends(c, before, after) ==
  /\ fate[c] = before
  /\ fate' = [fate EXCEPT ![c] = after]
  /\ UNCHANGED <<around, gated, consented>>

CallStep(c) ==
  \/ \E l \in Layers : Consent(c, l)
  \/ Ends(c, "open", "refused")
  \/ Ends(c, "open", "broken")
  \/ Ends(c, "running", "returned")
  \/ Ends(c, "running", "threw")

\* A call may ask the kill switch in the step in which a layer consents.
Next ==
  \/ Switch!Next /\ UNCHANGED callVars
  \/ \E c \in Calls : CallStep(c) /\ [Switch!Next]_Switch!vars

Spec == Init /\ [][Next]_vars
=============================================================================
