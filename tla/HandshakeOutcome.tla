-------------------------- MODULE HandshakeOutcome --------------------------
(***************************************************************************)
(* What one run of the authenticated handshake of net.rs promises, seen    *)
(* only through its outcome at each end: the client (net::connect) and     *)
(* the server (net::accept) each end with a Peer or with an error.  This   *)
(* is the abstraction PeerManager uses for ConnectEstablished and          *)
(* AcceptEstablished.                                                      *)
(*                                                                         *)
(*   - the server hands over a Peer only when it holds the same pairing    *)
(*     secret as the client;                                               *)
(*   - the client hands over a Peer only after the server has;             *)
(*   - either end may give up at any time (timeout, closed stream,         *)
(*     refusal), also after the other end has handed over its Peer.        *)
(***************************************************************************)
CONSTANTS
    Secrets,    \* pairing secrets
    None        \* no PeerCandidate for the client's id at the server

VARIABLES
    client,     \* "busy", "peer" or "fail"
    server,     \* "busy", "peer" or "fail"
    cAuth,      \* the secret the client holds for the server
    sAuth       \* the secret the server finds for the client, or None

vars == <<client, server, cAuth, sAuth>>

Outcomes == {"busy", "peer", "fail"}

Init ==
    /\ client = "busy"
    /\ server = "busy"
    /\ cAuth \in Secrets
    /\ sAuth \in Secrets \cup {None}

ServerPeer ==
    /\ server = "busy"
    /\ sAuth = cAuth
    /\ server' = "peer"
    /\ UNCHANGED <<client, cAuth, sAuth>>

ClientPeer ==
    /\ client = "busy"
    /\ server = "peer"
    /\ client' = "peer"
    /\ UNCHANGED <<server, cAuth, sAuth>>

ServerFail ==
    /\ server = "busy"
    /\ server' = "fail"
    /\ UNCHANGED <<client, cAuth, sAuth>>

ClientFail ==
    /\ client = "busy"
    /\ client' = "fail"
    /\ UNCHANGED <<server, cAuth, sAuth>>

Next == ServerPeer \/ ClientPeer \/ ServerFail \/ ClientFail

Spec == Init /\ [][Next]_vars

=============================================================================
