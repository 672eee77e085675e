---------------------------- MODULE MCRiskLedger ----------------------------
(* RiskLedger on two signals of two instruments: no limit per symbol keeps   *)
(* the second away from what a rebuild found.                                *)
EXTENDS RiskLedger
SymbolOf == <<"EURUSD", "XAUUSD">>
=============================================================================
