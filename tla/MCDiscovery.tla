---------------------------- MODULE MCDiscovery ----------------------------
(* Model-checking instance of Discovery: this node and one other node.     *)
EXTENDS Discovery

CONSTANTS n1

MCOthers == {n1}
\* n1 runs on another host, or on this one.
MCApart == {}
MCColocated == {n1}
=============================================================================
