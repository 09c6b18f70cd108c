-------------------------- MODULE MCRefreshSession --------------------------
(* A small instance of the refresh of sessions: tabs are interchangeable.  *)
EXTENDS RefreshSession, TLC

CONSTANTS t1, t2, t3

MCTabs == {t1, t2, t3}
MCSymmetry == Permutations(MCTabs)
=============================================================================
