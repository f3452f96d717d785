-------------------------- MODULE MCCallbackHandler --------------------------
(* Three runs, and a clock that goes twice past the age of a denial.         *)
EXTENDS CallbackHandler, TLC

CONSTANTS r1, r2, r3

MCRuns == {r1, r2, r3}
MCSymmetry == Permutations(MCRuns)
=============================================================================
