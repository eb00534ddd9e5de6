---------------------------- MODULE PeerManager ----------------------------
(***************************************************************************)
(* The three peer registries of one node's P2pManager                      *)
(* (lib/p2p/src/manager.rs) and the tasks that read and write them in      *)
(* parallel on the tokio work-stealing runtime:                            *)
(*                                                                         *)
(*   - the p2p event loop, which turns a PresenceResponse into             *)
(*     handle_peer_discovered;                                             *)
(*   - the application task (Node::handle_command), which pairs peers      *)
(*     (add_known_peer) and connects to them (connect_to_peer);            *)
(*   - one accept task per inbound TCP connection (net::accept followed    *)
(*     by handle_new_connection);                                          *)
(*   - the connection handler of every live Peer, which calls              *)
(*     peer_disconnected when its stream closes.                           *)
(*                                                                         *)
(* Every DashMap operation is atomic, and a step of the model is one such  *)
(* operation (or a run of operations no other task can observe apart).     *)
(* A PeerCandidate is abstracted to the pairing secret of its              *)
(* PairingAuthenticator; metadata and addresses are left out.  The         *)
(* handshake of net.rs is abstracted to its outcome: it can succeed only   *)
(* when both ends hold the same secret (module Handshake models the        *)
(* messages).                                                              *)
(***************************************************************************)
EXTENDS Naturals

CONSTANTS
    Ids,        \* PeerIds of the other nodes on the LAN
    Secrets,    \* pairing secrets a PairingAuthenticator can be built from
    None,       \* the absence of a DashMap entry
    Slots,      \* inbound TCP connections accepted by the listener
    MaxPairs    \* bound on the number of add_known_peer calls

ASSUME ConstantsAssumption ==
    /\ None \notin Secrets
    /\ None \notin Ids
    /\ MaxPairs \in Nat

VARIABLES
    known,       \* known_peers: PeerId -> secret of the PeerCandidate, or None
    discovered,  \* discovered_peers: PeerId -> secret of the PeerCandidate, or None
    connected,   \* connected_peers: the DashSet of PeerIds
    live,        \* live Peers per PeerId, counted from the hand-over to the caller
    discEvents,  \* PeerDiscovered events sent on app_channel, per PeerId
    lastPaired,  \* the secret last passed to add_known_peer for a PeerId (history)
    pairs,       \* number of add_known_peer calls so far
    remote,      \* the secret each remote node holds for this node
    el,          \* the event loop inside handle_peer_discovered
    app,         \* the application task inside connect_to_peer
    acc          \* the accept task of each inbound connection

vars == <<known, discovered, connected, live, discEvents, lastPaired, pairs,
          remote, el, app, acc>>

Auth == Secrets \cup {None}

\* Results of connect_to_peer (err::ConnError) and of net::accept.
Results == {"none", "ok", "Dup", "NotFound", "Addr", "Failure", "Auth", "Timeout"}

TypeOK ==
    /\ known \in [Ids -> Auth]
    /\ discovered \in [Ids -> Auth]
    /\ connected \subseteq Ids
    /\ live \in [Ids -> Nat]
    /\ discEvents \in [Ids -> Nat]
    /\ lastPaired \in [Ids -> Auth]
    /\ pairs \in Nat
    /\ remote \in [Ids -> Secrets]
    /\ el \in [pc : {"idle", "removed", "inserted"}, id : Ids \cup {None}, auth : Auth]
    /\ app \in [pc : {"idle", "connecting", "handshaken"}, id : Ids \cup {None},
                auth : Auth, res : Results]
    /\ acc \in [Slots -> [pc : {"listen", "verifying", "handshaken", "closed"},
                          id : Ids \cup {None}, auth : Auth, res : Results]]

-----------------------------------------------------------------------------
(* get_peer_candidate: the discovered entry if there is one, else the      *)
(* known entry, else None.                                                 *)
GetPeerCandidate(id) ==
    IF discovered[id] # None THEN discovered[id] ELSE known[id]

(* The handshake of net.rs verifies HMAC(TOTP(secret), id) on both ends:   *)
(* it can only complete when the two ends use the same secret.             *)
SameSecret(auth, id) == auth = remote[id]

Init ==
    /\ known = [id \in Ids |-> None]
    /\ discovered = [id \in Ids |-> None]
    /\ connected = {}
    /\ live = [id \in Ids |-> 0]
    /\ discEvents = [id \in Ids |-> 0]
    /\ lastPaired = [id \in Ids |-> None]
    /\ pairs = 0
    /\ remote \in [Ids -> Secrets]
    /\ el = [pc |-> "idle", id |-> None, auth |-> None]
    /\ app = [pc |-> "idle", id |-> None, auth |-> None, res |-> "none"]
    /\ acc = [i \in Slots |-> [pc |-> "listen", id |-> None, auth |-> None, res |-> "none"]]

-----------------------------------------------------------------------------
(* The application pairs with id (Node's Pair command, or the known peers  *)
(* loaded at init): add_known_peer inserts or replaces the candidate.      *)
AddKnownPeer(id, s) ==
    /\ app.pc = "idle"
    /\ pairs < MaxPairs
    /\ known' = [known EXCEPT ![id] = s]
    /\ lastPaired' = [lastPaired EXCEPT ![id] = s]
    /\ pairs' = pairs + 1
    /\ UNCHANGED <<discovered, connected, live, discEvents, remote, el, app, acc>>

(* connect_to_peer, up to the handshake: Dup if connected, NotFound if not *)
(* discovered, else hold the discovered candidate.                         *)
ConnectToPeer(id) ==
    /\ app.pc = "idle"
    /\ \/ /\ id \in connected
          /\ app' = [app EXCEPT !.id = id, !.res = "Dup"]
       \/ /\ id \notin connected
          /\ discovered[id] = None
          /\ app' = [app EXCEPT !.id = id, !.res = "NotFound"]
       \/ /\ id \notin connected
          /\ discovered[id] # None
          /\ app' = [pc |-> "connecting", id |-> id, auth |-> discovered[id], res |-> "none"]
    /\ UNCHANGED <<known, discovered, connected, live, discEvents, lastPaired, pairs,
                   remote, el, acc>>

(* connect_to_peer fails: no address accepts the TCP connection, the      *)
(* remote answers Failure(AUTH) to a tag made with another secret, or a   *)
(* receive times out or the stream closes.                                 *)
ConnectFails ==
    /\ app.pc = "connecting"
    /\ \/ app' = [app EXCEPT !.pc = "idle", !.res = "Addr"]
       \/ /\ ~SameSecret(app.auth, app.id)
          /\ app' = [app EXCEPT !.pc = "idle", !.res = "Failure"]
       \/ app' = [app EXCEPT !.pc = "idle", !.res = "Timeout"]
    /\ UNCHANGED <<known, discovered, connected, live, discEvents, lastPaired, pairs,
                   remote, el, acc>>

(* net::connect completes and creates the client-role Peer.                *)
ConnectEstablished ==
    /\ app.pc = "connecting"
    /\ SameSecret(app.auth, app.id)
    /\ app' = [app EXCEPT !.pc = "handshaken"]
    /\ UNCHANGED <<known, discovered, connected, live, discEvents, lastPaired, pairs,
                   remote, el, acc>>

(* connect_to_peer records the connection and returns the Peer.            *)
ConnectInsert ==
    /\ app.pc = "handshaken"
    /\ connected' = connected \cup {app.id}
    /\ live' = [live EXCEPT ![app.id] = @ + 1]
    /\ app' = [app EXCEPT !.pc = "idle", !.res = "ok"]
    /\ UNCHANGED <<known, discovered, discEvents, lastPaired, pairs, remote, el, acc>>

(* An inbound connection on slot i sends Request{id, tag}; net::accept     *)
(* looks up the candidate and answers Failure(NOT_FOUND) if there is none. *)
AcceptRequest(i, id) ==
    /\ acc[i].pc = "listen"
    /\ LET c == GetPeerCandidate(id) IN
         acc' = [acc EXCEPT ![i] =
                   IF c = None
                   THEN [pc |-> "closed", id |-> id, auth |-> None, res |-> "NotFound"]
                   ELSE [pc |-> "verifying", id |-> id, auth |-> c, res |-> "none"]]
    /\ UNCHANGED <<known, discovered, connected, live, discEvents, lastPaired, pairs,
                   remote, el, app>>

(* net::accept fails: the tag does not verify under the candidate's        *)
(* secret (Failure(AUTH)), or the client times out or closes.              *)
AcceptFails(i) ==
    /\ acc[i].pc = "verifying"
    /\ \/ /\ ~SameSecret(acc[i].auth, acc[i].id)
          /\ acc' = [acc EXCEPT ![i].pc = "closed", ![i].res = "Auth"]
       \/ acc' = [acc EXCEPT ![i].pc = "closed", ![i].res = "Timeout"]
    /\ UNCHANGED <<known, discovered, connected, live, discEvents, lastPaired, pairs,
                   remote, el, app>>

(* net::accept completes and creates the server-role Peer.                 *)
AcceptEstablished(i) ==
    /\ acc[i].pc = "verifying"
    /\ SameSecret(acc[i].auth, acc[i].id)
    /\ acc' = [acc EXCEPT ![i].pc = "handshaken"]
    /\ UNCHANGED <<known, discovered, connected, live, discEvents, lastPaired, pairs,
                   remote, el, app>>

(* handle_new_connection: insert into connected_peers, emit PeerConnected. *)
HandleNewConnection(i) ==
    /\ acc[i].pc = "handshaken"
    /\ connected' = connected \cup {acc[i].id}
    /\ live' = [live EXCEPT ![acc[i].id] = @ + 1]
    /\ acc' = [acc EXCEPT ![i].pc = "closed", ![i].res = "ok"]
    /\ UNCHANGED <<known, discovered, discEvents, lastPaired, pairs, remote, el, app>>

(* A live Peer's stream closes and its handler calls peer_disconnected.    *)
(* Only a Peer already handed to its handler (after the insert into        *)
(* connected_peers) is taken to be able to close: peer.rs is not part of   *)
(* the sources, and this is the conservative reading.                      *)
\* Fault: a second peer_disconnected for an already closed Peer.
PeerDisconnectedTwice(id) ==
    /\ live' = [live EXCEPT ![id] = @ - 1]
    /\ connected' = connected \ {id}
    /\ UNCHANGED <<known, discovered, discEvents, lastPaired, pairs, remote, el, app, acc>>

PeerDisconnected(id) ==
    /\ live[id] > 0
    /\ live' = [live EXCEPT ![id] = @ - 1]
    /\ connected' = connected \ {id}
    /\ UNCHANGED <<known, discovered, discEvents, lastPaired, pairs, remote, el, app, acc>>

(* handle_peer_discovered for a PresenceResponse from id: unless id is     *)
(* connected or discovered, take its entry out of known_peers.             *)
\* Fault: the contains_key check on discovered_peers is dropped.
HandlePeerDiscoveredAgain(id) ==
    /\ el.pc = "idle"
    /\ id \notin connected
    /\ known[id] # None
    /\ known' = [known EXCEPT ![id] = None]
    /\ el' = [pc |-> "removed", id |-> id, auth |-> known[id]]
    /\ UNCHANGED <<discovered, connected, live, discEvents, lastPaired, pairs, remote, app, acc>>

HandlePeerDiscovered(id) ==
    /\ el.pc = "idle"
    /\ id \notin connected
    /\ discovered[id] = None
    /\ known[id] # None
    /\ known' = [known EXCEPT ![id] = None]
    /\ el' = [pc |-> "removed", id |-> id, auth |-> known[id]]
    /\ UNCHANGED <<discovered, connected, live, discEvents, lastPaired, pairs, remote, app, acc>>

(* ... insert the new candidate into discovered_peers ...                  *)
DiscoveredInsert ==
    /\ el.pc = "removed"
    /\ discovered' = [discovered EXCEPT ![el.id] = el.auth]
    /\ el' = [el EXCEPT !.pc = "inserted"]
    /\ UNCHANGED <<known, connected, live, discEvents, lastPaired, pairs, remote, app, acc>>

(* ... put it back into known_peers and emit PeerDiscovered.               *)
\* Fault: the entry removed from known_peers is not put back.
KnownNotReinserted ==
    /\ el.pc = "inserted"
    /\ discEvents' = [discEvents EXCEPT ![el.id] = @ + 1]
    /\ el' = [pc |-> "idle", id |-> None, auth |-> None]
    /\ UNCHANGED <<known, discovered, connected, live, lastPaired, pairs, remote, app, acc>>

KnownReinsert ==
    /\ el.pc = "inserted"
    /\ known' = [known EXCEPT ![el.id] = el.auth]
    /\ discEvents' = [discEvents EXCEPT ![el.id] = @ + 1]
    /\ el' = [pc |-> "idle", id |-> None, auth |-> None]
    /\ UNCHANGED <<discovered, connected, live, lastPaired, pairs, remote, app, acc>>

Next ==
    \/ \E id \in Ids, s \in Secrets : AddKnownPeer(id, s)
    \/ \E id \in Ids : ConnectToPeer(id) \/ PeerDisconnected(id) \/ HandlePeerDiscovered(id)
    \/ ConnectFails \/ ConnectEstablished \/ ConnectInsert
    \/ \E i \in Slots : \/ \E id \in Ids : AcceptRequest(i, id)
                        \/ AcceptFails(i) \/ AcceptEstablished(i) \/ HandleNewConnection(i)
    \/ DiscoveredInsert \/ KnownReinsert

Spec == Init /\ [][Next]_vars

-----------------------------------------------------------------------------
(* PROPERTIES                                                              *)

(* handle_peer_discovered surfaces a peer to the application at most once: *)
(* PeerDiscovered is sent once per PeerId however many PresenceResponses   *)
(* arrive, because the event loop checks and fills discovered_peers before *)
(* it handles the next one.                                                *)
SurfacedOnce == \A id \in Ids : discEvents[id] <= 1

(* Spec section 3: every discovered PeerId has a known_peers entry.  The   *)
(* only exception is the event loop between its insert into               *)
(* discovered_peers and its re-insert into known_peers for that PeerId.    *)
DiscoveredAreKnown ==
    \A id \in Ids :
        discovered[id] # None =>
            \/ known[id] # None
            \/ el.pc = "inserted" /\ el.id = id

(* Spec section 3: a PeerId is in connected_peers iff exactly one live     *)
(* Peer has it; checked here in the direction "connected => one Peer".     *)
ConnectedMeansOneLivePeer == \A id \in connected : live[id] = 1

(* An inbound Request from a peer the application has paired with is never *)
(* refused as unknown (Failure(NOT_FOUND)) by net::accept.                 *)
PairedNeverRefused ==
    [][\A i \in Slots :
         (acc'[i].res = "NotFound" /\ acc[i].res # "NotFound")
            => lastPaired[acc'[i].id] = None]_vars

=============================================================================
