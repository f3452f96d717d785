------------------------------ MODULE KillSwitch ------------------------------
(***************************************************************************)
(* What waitForOp promises about TERMINATE, whatever happens to the        *)
(* stream, the timers and the queue of resolvers: a call passes only while *)
(* its op has not been terminated, a terminated op stays terminated, and   *)
(* a call that is waiting when its op is terminated is rejected.           *)
(***************************************************************************)
CONSTANTS Ops, Calls, OpOf

VARIABLES
  killed,   \* the ops the gateway has terminated
  outcome   \* "idle" | "waiting" | "passed" | "rejected"

vars == <<killed, outcome>>

Init ==
  /\ killed = {}
  /\ outcome = [c \in Calls |-> "idle"]

Kill(o) ==
  /\ killed' = killed \cup {o}
  /\ UNCHANGED outcome

Ask(c) ==
  /\ outcome[c] = "idle"
  /\ OpOf[c] \notin killed
  /\ outcome' = [outcome EXCEPT ![c] = "waiting"]
  /\ UNCHANGED killed

Pass(c) ==
  /\ outcome[c] \in {"idle", "waiting"}
  /\ OpOf[c] \notin killed
  /\ outcome' = [outcome EXCEPT ![c] = "passed"]
  /\ UNCHANGED killed

Reject(c) ==
  /\ outcome[c] \in {"idle", "waiting"}
  /\ OpOf[c] \in killed
  /\ outcome' = [outcome EXCEPT ![c] = "rejected"]
  /\ UNCHANGED killed

Next ==
  \/ \E o \in Ops : Kill(o)
  \/ \E c \in Calls : Ask(c) \/ Pass(c) \/ Reject(c)

Spec == Init /\ [][Next]_vars

RejectWaiting(c) == outcome[c] = "waiting" /\ Reject(c)

FairSpec == Spec /\ \A c \in Calls : WF_vars(RejectWaiting(c))
=============================================================================
