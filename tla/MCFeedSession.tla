--------------------------- MODULE MCFeedSession ----------------------------
(* FeedSession with two client objects, two restore threads and one refresher. *)
EXTENDS FeedSession, TLC

CONSTANTS r1, r2, token
TwoClients == 1 .. 2
TwoRestorers == {r1, r2}
OneRefresher == {token}
Symmetry == Permutations(TwoRestorers)
=============================================================================
