---------------------------- MODULE MCRiskGuard ----------------------------
(* RiskGuard with a starting balance of 3, where a loss of 1 is the daily    *)
(* limit and a loss of 2 the total one.                                      *)
EXTENDS RiskGuard
Results == {-1, 1}
=============================================================================
