---------------------------- MODULE MCInitAssembly ----------------------------
(* One check and one audit event beside the boot, every kind of answer.      *)
EXTENDS InitAssembly

CONSTANTS check1, audit1

MCChecks == {check1}
MCAudits == {audit1}
MCAnswers ==
  {V!Reply(d, V!OtherReason) : d \in {0, 1, 2, 3, 4, 5}} \cup
  {V!Reply(V!Allow, V!FailOpen), V!NoReply("QueryFailed"), V!NoReply("fault")}
=============================================================================
