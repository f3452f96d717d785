----------------------------- MODULE MCOpControl -----------------------------
(* Two calls share an op, one of them with a timeout; a third is on another. *)
EXTENDS OpControl

CONSTANTS o1, o2, c1, c2, c3

MCOps == {o1, o2}
MCCalls == {c1, c2, c3}
MCOpOf == [c \in MCCalls |-> IF c = c3 THEN o2 ELSE o1]
MCTimed == {c2}
=============================================================================
