--------------------------- MODULE MCEngineHealth ---------------------------
(* EngineHealth with thresholds of a few check intervals.                    *)
EXTENDS EngineHealth
=============================================================================
