--------------------------- MODULE MCIncidentStore ---------------------------
(* Instances of IncidentStore for TLC: three threads, which are all alike.  *)
EXTENDS IncidentStore, TLC

CONSTANTS t1, t2, t3

MCThreads  == {t1, t2, t3}
MCSymmetry == Permutations(MCThreads)
=============================================================================
