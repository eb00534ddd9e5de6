---------------------------- MODULE MCNodeSessions ----------------------------
(* NodeSessions with one or two remote nodes as model values.              *)
EXTENDS NodeSessions, TLC

CONSTANTS p1, p2

OneRemote == {p1}
TwoRemotes == {p1, p2}

=============================================================================
