----------------------------- MODULE MCPidGuard -----------------------------
(* PidGuard on three processes.  Each process unlinks the path at most once, *)
(* so four inodes are as many as any behaviour can create.                   *)
EXTENDS PidGuard, TLC

CONSTANTS p1, p2, p3, i1, i2, i3, i4

MCProc == {p1, p2, p3}
MCInode == {i1, i2, i3, i4}

Symmetry == Permutations(MCProc) \cup Permutations(MCInode)
=============================================================================
