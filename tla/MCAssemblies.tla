----------------------------- MODULE MCAssemblies -----------------------------
(* Three assemblies or direct patches, so that two can overlap and a third   *)
(* is started inside the framework or patches again after an unpatch; one    *)
(* langchain object they may share; two turns over two tools.                *)
EXTENDS Assemblies, TLC

CONSTANTS i1, i2, i3, t1, t2, n1, n2, obj

MCInits == {i1, i2, i3}
MCStrict == {i1}
MCTools == {t1, t2}
MCTurns == {n1, n2}
MCObjects == {obj}
MCSymmetry == Permutations({i2, i3}) \cup Permutations({n1, n2}) \cup Permutations({t1, t2})
=============================================================================
