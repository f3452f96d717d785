------------------------------ MODULE Encodings ------------------------------
(***************************************************************************)
(* What one side writes and the other reads: a message of the policy       *)
(* service (MessageExchange) or an audit event (AuditExchange).            *)
(***************************************************************************)
EXTENDS MessageExchange, AuditExchange

vars == <<type, exchangeVars>>

Init ==
  \/ MessageInit
  \/ AuditInit /\ type = <<>>

Next ==
  \/ MessageNext
  \/ AuditNext /\ UNCHANGED type

Spec == Init /\ [][Next]_vars
=============================================================================
