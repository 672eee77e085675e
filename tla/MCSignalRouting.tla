--------------------------- MODULE MCSignalRouting ---------------------------
(* SignalRouting on two symbols, one of them shared by two strategies.        *)
EXTENDS SignalRouting

CONSTANTS EURUSD, GBPUSD, bos, smc, LONG, SHORT

MCSymbols == {EURUSD, GBPUSD}
MCStrategies == {bos, smc}
MCDirections == {LONG, SHORT}

Emit(y, t, d) == [sym |-> y, strat |-> t, dir |-> d]

\* One symbol shared by two strategies, one of them in both directions.
MCEmits == {Emit(EURUSD, bos, LONG), Emit(EURUSD, smc, LONG),
            Emit(EURUSD, smc, SHORT), Emit(GBPUSD, bos, LONG)}
=============================================================================
