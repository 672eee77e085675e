---------------------------- MODULE MCKillSwitch ----------------------------
(* KillSwitch with an enabled engine and a disabled command line, or with an *)
(* enabled engine and an enabled paper trader, as in the harness.            *)
EXTENDS KillSwitch

CONSTANTS engine, paper, cli
EngineAndCli == {engine, cli}
EngineAndPaper == {engine, paper}
OnlyCli == {cli}
None == {}
=============================================================================
