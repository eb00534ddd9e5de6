# Verification of the flydrop p2p core

TLA+ models of the LAN peer-to-peer core of flydrop: discovery over multicast, the peer
registries of `P2pManager`, the authenticated TCP handshake and the node's command loop.
TLC checks them on small instances. For every instance, TLAPS proves:
* the registry invariants;
* that the handshake refines its abstract outcome specification;
* that a replay from an earlier TOTP window gets no Peer;
* the echo filter of discovery;
* the session invariants of the node's command loop with one remote;
* the type correctness of every component.

## 1. Inventory

### Sources

| File | What it holds |
|---|---|
| `src/lib/p2p/src/manager.rs` | `P2pManager`: the registries `known_peers`, `discovered_peers` (DashMaps) and `connected_peers` (DashSet), plus the channels. Operations: `add_known_peer`, `request_presence`, `connect_to_peer`, `peer_disconnected`, `get_peer_candidate`, `handle_peer_discovered`, `handle_presence_request`, `handle_new_connection`. |
| `src/lib/p2p/src/net.rs` | The client (`connect`) and server (`accept`) sides of the three-round-trip handshake: Request/Response/CompleteRequest/CompleteResponse, with a 1 s timeout on each receive. |
| `src/crate/p2p/src/discovery.rs` | The multicast discovery task. It sends queued events, reads datagrams, drops its own echo with the `just_send_request` flag, and forwards everything else on a bounded channel (1024). |
| `src/lib/core/src/node.rs` | `Node`: one select loop over queries, commands, internal events and p2p events. Commands: StartDiscovery/StopDiscovery (a presence loop with a cancellation token), SendPeer (connect and start a client session), Pair, Ack. It also holds the sessions map and `session_id`. |
| `src/lib/core/src/conf.rs` | `NodeConfig` and its JSON persistence. |
| `src/lib/p2p/src/lib.rs` | Module list. |

Several files are not among the sources: `event_loop.rs`, `peer.rs`, `proto.rs`, `hmac.rs`
and `pairing.rs`. Where the model needs them, it follows spec.md and says so. These parts are
the event loop's dispatch, the closing of a Peer, and HMAC/TOTP (abstracted to equality of
pairing secrets).

The sources come from two revisions. `manager.rs` (lib/) sends `PresenceRequest(dedup)`,
while `discovery.rs` (crate/) still has a payload-free `PresenceRequest` and the boolean echo
flag. The model follows `discovery.rs` as given.

### Components, state, interaction

* **Peer Manager.** Its state is the three registries. Several tasks run in parallel on
  tokio's multi-threaded runtime and touch these registries:
  * the p2p event loop (`handle_peer_discovered`, `handle_presence_request`);
  * the node's command task (`add_known_peer` via Pair, `connect_to_peer` via SendPeer);
  * one task per inbound connection (`net::accept` and then `handle_new_connection`);
  * the handler of each live Peer (`peer_disconnected`).

  Each DashMap operation is atomic on its own. A sequence of operations is not.
* **Handshake.** The client sends `Request{id, HMAC(TOTP(secret), id)}`. The server looks up
  the candidate with `get_peer_candidate`, verifies the tag, and answers with `Response(tag)`.
  Then come CompleteRequest and CompleteResponse. Errors are Timeout, Disconnect, Msg,
  Failure(code), Auth and NotFound.
* **Discovery.** A presence loop queues a PresenceRequest every 2 s. The discovery task
  multicasts it and receives its own echo through loopback. Other nodes answer with
  PresenceResponse(metadata), which the manager turns into `handle_peer_discovered`.
* **Node.** Its state is the config, `state.discovery_ct`, `state.session_id` and
  `state.sessions` (reply channels of inbound sessions, keyed by session id).

### What is hard

* Check-then-act across DashMap operations and across `await`s: `handle_peer_discovered`
  removes and re-inserts, and `connect_to_peer` checks, awaits a handshake, then inserts.
* Duplicate connections: `accept` has no duplicate check.
* Overlapping presence loops after StopDiscovery/StartDiscovery.
* UDP loss, duplication and reordering, and the echo filter.
* Timeouts racing late answers in the handshake, and the TOTP window boundary.
* Replay of a handshake Request within a window.
* Session ids chosen by the remote used as map keys.

PROJECT.json lists each hazard at the line where it applies.

### Properties that make each component correct

* **Peer Manager.**
  * Each peer is surfaced at most once.
  * A discovered peer is known.
  * A paired peer is never refused as unknown.
  * The handshake uses the latest pairing.
  * A connected id has exactly one live Peer.
* **Discovery.**
  * The node's own request never reaches the manager.
  * Another node's request is never dropped.
  * A stopped presence loop stops.
* **Handshake.**
  * A Peer on one side implies a Peer, or a pending close, on the other.
  * Peers with the same secret authenticate.
  * A replayed Request does not yield a Peer.
* **Node.**
  * An Ack reaches the peer whose session it answers.
  * Each inbound session gets at most one final reply.
  * A prompt the user has not answered can still be answered.
  * The sessions map does not grow without bound.
  * A pairing survives a restart.
  * SendPeer to a connected peer works.

## 2. Modules

### PeerManager (core)
Variables: `known`, `discovered` (PeerId -> secret of the candidate, or None), `connected`,
`live` (Peers handed over per PeerId), `discEvents` (PeerDiscovered events sent), history
`lastPaired`, `pairs`, `remote` (the secret each remote holds for us, fixed at Init), and the
program counters of the tasks: `el` (event loop), `app` (command task) and `acc[i]` (accept
tasks).

| Action | Code |
|---|---|
| `AddKnownPeer(id, s)` | `add_known_peer` (manager.rs 121-124), run by the command task |
| `ConnectToPeer(id)` | `connect_to_peer` 158-168: Dup / NotFound / hold the candidate |
| `ConnectFails`, `ConnectEstablished` | the address loop and `net::connect` (manager.rs 169-182, net.rs 19-103) |
| `ConnectInsert` | `connected_peers.insert` after the handshake (176-178) |
| `AcceptRequest(i, id)` | `net::accept` up to `get_peer_candidate` and NOT_FOUND (net.rs 105-131) |
| `AcceptFails(i)`, `AcceptEstablished(i)` | verification and the rest of `accept` (net.rs 132-190) |
| `HandleNewConnection(i)` | `handle_new_connection` (254-265) |
| `PeerDisconnected(id)` | `peer_disconnected` (187-197) |
| `HandlePeerDiscovered(id)`, `DiscoveredInsert`, `KnownReinsert` | the three DashMap steps of `handle_peer_discovered` (215-238) |

Abstractions:
* A step is one DashMap operation. `get_peer_candidate` is one step; its two reads give the
  same outcomes whichever way they are split.
* The handshake is abstracted to its outcome. It can succeed only when both ends hold the
  same secret (`SameSecret`), and it can always fail with a timeout or a closed stream.
* A Peer counts as live once it is handed over, and only then can it close. `peer.rs` is not
  available, and this is the conservative reading: if `Peer::new` already watches the stream,
  more interleavings exist.
* `handle_new_connection` is taken to run in the accept task. If the event loop runs it,
  there are fewer interleavings.

### Discovery
Variables:
* `appQ`: the discovery channel;
* `net`: the bag of datagrams in flight to this node's socket;
* `justSent`: the flag;
* `holding`: the frame being forwarded;
* `toMgr`: the bounded transport channel;
* `loop`, `cancelled`, `ct`: the presence loops and their tokens;
* `remoteSent`: a bound.

Actions:
* StartDiscovery and StopDiscovery.
* LoopRequest, LoopWake, LoopSelectRequest and LoopSelectCancel (node.rs 230-259).
* DiscSend, DropEcho, ReadFrame and Forward (discovery.rs 44-91).
* MgrHandle: the event loop's dispatch, with `handle_presence_request`.
* RemoteSend, Duplicate and Lose: the other nodes and the network.

Sender addresses are the host: every node in `SameHost` sends from this node's address.

One timing assumption is made. When a 2 s sleep ends, no request of this node is still
queued or in flight on loopback (`OwnRequestInFlight`). Without it, a single loop could
overlap its own requests, and that would be an artefact of the untimed model.

### Handshake, HandshakeOutcome, HandshakeReplay
`Handshake` models one run of `net::connect` (client `c`) against `net::accept` (server `s`).
They talk over the two FIFO directions of one TCP stream, `c2s` and `s2c`.
* `cOpen` and `sOpen` say whether each end still holds the stream. An error return drops it,
  and the other end reads that as the end of the stream.
* `now` is the TOTP window. `Tick` advances it up to `MaxWindow`.
* A TOTP code is `<<secret, window>>`, and an HMAC tag is `Tag(key, signer)`, so verification
  is equality.

There is one action per branch of the code:
* client (net.rs 19-103): `CConnect`, `CTimeout`, `CDisconnect`, `CResponseOk`, `CResponseBad`,
  `CFailure`, `CComplete` and `CCompleteWrong`;
* server (net.rs 105-190): `STimeout`, `SDisconnect`, `SRequestUnknown` (NOT_FOUND),
  `SRequestBad` (AUTH), `SRequestOk`, `SComplete` and `SCompleteWrong`;
* `CAbort` and `SAbort`: the caller drops the future.

A receive races its 1 s timeout, so `CTimeout` and `STimeout` are enabled while the stream is
quiet, also when the answer is already on its way.

`HandshakeOutcome` is the abstract promise PeerManager relies on. Each end ends as "peer" or
"fail":
* `ServerPeer` requires `sAuth = cAuth`;
* `ClientPeer` requires the server to be "peer";
* either end may fail at any time.

`Handshake` maps to it through `Outcome(pc)` in `Abs == INSTANCE HandshakeOutcome WITH ...`,
and `Refinement == Abs!Spec`.

`HandshakeReplay` puts an adversary at one end. The adversary has recorded a Request and a
Response of an earlier handshake in window `RecWindow`. It plays the client or the server,
and the honest end runs the unchanged actions of `Handshake`. The adversary's pc values
(`AdvClient`, `AdvServer`) keep the honest actions of its end disabled.

### NodeSessions
This module models `Node::start`'s select loop and its handlers in node.rs, with the
configuration store of conf.rs.

Each handler is one atomic step, because the loop awaits it before taking the next message.

Variables:
* `conf`, `disk`: the node's configuration and the stored copy;
* `snapshot`: what the UI last read;
* `mgrKnown`, `connected`: the manager's known and connected PeerIds;
* `serving`, `clients`: the inbound and outbound connections;
* `outstanding`, `sessionId`: the outbound sessions and the id counter;
* `sessions`: the map from session id to reply channel;
* `internal`: the internal channel;
* `rNext`: each remote's own id counter;
* `prompts`, `finals`, `acks`: the AskLaunchUri prompts, the final replies and the Ack replies;
* `refused`: SendPeer refused with Dup.

Actions:
* `GetConf`, `SendPeer`, `SetConfig`, `Pair` and `Ack`: handle_command;
* `HandleInbound` and `HandleResult`: handle_event;
* `PeerConnected`: handle_p2p;
* `ServerClose` and `ClientClose`: peer_disconnected;
* `RemoteRequest` and `RemoteAnswer`: the remote nodes' peer tasks. peer.rs is not among the
  sources, so these two are modelled from the spec.

The manager is abstracted to its sets of PeerIds. PeerManager and Handshake model it in
detail.

## 3. Runs

| Run | Checks | Result |
|---|---|---|
| `peer_manager` | TypeOK, SurfacedOnce, DiscoveredAreKnown | pass: 398,816 distinct states |
| `peer_manager_two_peers` | ConnectedMeansOneLivePeer | violation: two inbound connections with one PeerId both complete `accept` |
| `peer_manager_refused` | PairedNeverRefused (action property) | violation: `accept` runs between the remove from known_peers and the insert into discovered_peers, and answers NOT_FOUND to a paired peer |
| `discovery` | TypeOK, NoOwnRequestForwarded, LoopsStop | pass: 1,306 distinct states, one presence loop, the other node on another host |
| `discovery_restart` | NoOwnRequestForwarded | violation: Stop then Start before the old loop's first request, so two requests overlap and the second echo is forwarded |
| `discovery_same_host` | OnlyOwnEchoDropped (action property) | violation: n1 runs on this host; its PresenceRequest arrives while this node's own echo is in flight, and the filter drops it |
| `handshake` | Refinement (Handshake implements HandshakeOutcome) | pass: 232 distinct states, two secrets, windows 0..1 |
| `handshake_replay` | NoPeerForImpostor | pass: 174 distinct states, the recording is from an earlier window than the replay |
| `handshake_replay_fresh` | NoPeerForImpostor | violation: a Request replayed in the window it was recorded in gets a Peer from net::accept |
| `node_sessions` | AtMostOneFinalReply, PromptAnswerable | pass: 521,906 distinct states, one remote, ids 1..2, internal channel of 2 |
| `node_ack_collision` | AckReachesItsPeer | violation: two remotes both use session id 1, and the Ack for the first goes to the second |
| `node_lost_pairing` | PairingsSurviveRestart | violation: GetConf, Pair, then SetConfig of the stale copy removes the pairing from the store |

Bounds:
* **PeerManager:** two remote ids, two secrets (so a pairing can be wrong), two inbound
  connections, three pairings. Every registry race above needs at most two ids, two secrets
  and two concurrent tasks on one id. Symmetry over ids, secrets and slots is sound because no
  definition names a particular one.
* **Discovery:** one other node, two remote datagrams (enough for a send plus a duplicate, or
  two kinds), transport capacity 1 (so the channel fills and a send must wait), one or two StartDiscovery
  commands. The pass run puts the other node on another host; `discovery_same_host` puts it on this
  host, the only place the 127.0.0.1 bind lets it be heard from.
* **Handshake:** two secrets (so the server's candidate can be wrong) and windows 0..1 (one
  window boundary, enough for the skew and the replay). Symmetry over the secrets.
* **HandshakeReplay:** the passing run records in window 0 and replays in window 1; the
  violation run records and replays in window 0.
* **NodeSessions:** ids 1..2, so two sessions collide, wrap and hit the MaxId guard. The
  internal channel holds 2. Counters of replies saturate at 2, which is enough to tell one from
  more than one. The pass run has one remote; the collision run has two.
* `CHECK_DEADLOCK FALSE` in Handshake: both ends really stop once each has its outcome.
* `CHECK_DEADLOCK FALSE` in Discovery: with discovery stopped and no datagram to come, the
  node really idles.

Each property of a passing run has a mutant in PROJECT.json: a plausible fault that TLC finds.
* A second `peer_disconnected` breaks TypeOK.
* Dropping the `discovered_peers` check breaks SurfacedOnce.
* Not re-inserting into `known_peers` (the code's "TODO: fix not removing") breaks
  DiscoveredAreKnown.
* Not setting the flag breaks NoOwnRequestForwarded.
* A StopDiscovery that does not cancel breaks LoopsStop.
* A send that ignores the channel bound breaks TypeOK.
* A client that completes on any frame, not only CompleteResponse, breaks Refinement.
* A server that also accepts a tag of the previous window breaks NoPeerForImpostor.
* An Ack that leaves the session in the map breaks AtMostOneFinalReply.
* A SessionResult that removes the inbound entry of its id breaks PromptAnswerable.

### Fairness
LoopsStop assumes the following:
* weak fairness for the discovery task, the forwarding and the manager: tokio schedules every
  ready task;
* strong fairness for a loop's wake-up: the timer fires;
* strong fairness for the choice of the cancellation branch: `select!` polls ready branches in
  random order, so a branch that is ready again and again is eventually taken.

Loss and remote sends have no fairness.

## 4. Proofs

### PeerManagerProofs

These hold for every set of ids, secrets and slots and every `MaxPairs`. The assumptions are
`ConstantsAssumption`: None is neither a secret nor an id, and MaxPairs is a natural.

* `TypeCorrect: Spec => []TypeOK`. It goes through `TypedTasks = TypeOK /\ TaskIds`: a busy
  task works on a real PeerId. Without `TaskIds`, the updates `live[app.id]` and
  `discovered[el.id]` cannot be typed.
* `DiscoverySafety: Spec => [](SurfacedOnce /\ DiscoveredAreKnown)`. It goes through the
  inductive invariant `IInv = TypedTasks /\ ElConsistent /\ DiscEventsCount /\ DiscoveredAreKnown`.
  * `ElConsistent` records what the event loop knows between its steps: after the remove, the
    id is not discovered; after the insert, it is.
  * `DiscEventsCount` states the exact number of PeerDiscovered events: 1 for a discovered id,
    except between the insert and the emit, where it is 0.

  TLC checked IInv as an invariant of the `peer_manager` configuration before the proof. The
  step proof has one case per action that writes `known`, `discovered`, `el` or
  `discEvents`. All other actions leave those four untouched.
* `KnownInvariant: Spec => []DiscoveredAreKnown` is the corollary for the invariant that the
  `peer_manager` run checks on its own.

### HandshakeProofs
These hold for every set of secrets and every `MaxWindow`. The assumption is
`HandshakeAssumption`: None is not a secret, and MaxWindow is a natural.

* `HandshakeTypeCorrect: Spec => []TypeOK`. Lemmas about `Msg`, sending (Append) and
  receiving (Head and Tail) type the streams.
* `HandshakeRefinement: Spec => Refinement`. The detailed handshake implements
  HandshakeOutcome. It uses the inductive invariant `RInv`, made of TypeOK and five facts
  about the frames in flight:
  * `StartClean`: nothing is sent before `CConnect`.
  * `ReqTagged`: every Request in flight carries the client's tag of its own secret.
  * `ServerAuth`: a server past verification holds `cAuth`.
  * `CompleteFromDone`: a CompleteResponse in flight comes from a server that is done.
  * `ClientAfterServer`.

  RInv is needed because the refinement step for `SComplete` (ServerPeer) needs
  `sAuth = cAuth`. That follows only from what the server verified earlier, which is
  `ServerAuth`, kept by `ReqTagged`. The step for `CComplete` (ClientPeer) needs the server
  to be done, which follows from the frame the client read (`CompleteFromDone`).
  `RefinementStep` maps each action to ServerPeer, ClientPeer, ServerFail, ClientFail or a
  stutter. The theorem then follows by PTL from `InitRInv` and `RInvStep`.

### DiscoveryProofs
* `DiscoveryTypeCorrect: Spec => []TypeOK`, for every set of nodes, every `MaxStarts`,
  `MaxRemote` and capacity `Cap`.
  * It includes `Len(toMgr) <= Cap`: the discovery task forwards a frame only when the
    transport channel has room (`Forward`'s guard, the awaited `send`).
  * TypeOK is inductive by itself here. There is one case per action, and the frame counts
    are typed by the lemmas `CountUp` and `CountDown`.
  * To keep this module provable, `StartDiscovery` picks any unused token with `\E` (no
    CHOOSE) and `Discovery` uses only `Sequences`.

* `OwnRequestNeverForwarded: ASSUME SameHost = {}, MaxStarts <= 1 PROVE Spec =>
  NoOwnRequestForwarded`. This is spec section 8, property 3, for a node that starts
  discovery once. It goes through the inductive invariant
  `EInv = TypeOK /\ holding # OwnReq /\ OneOwnRequest /\ EchoFlagged /\ LoopAccounts`:
  * `OneOwnRequest`: at most one own PresenceRequest is on its way, either queued in `appQ`
    (at one position) or in flight back to the socket (`net[OwnReq] <= 1`), never both.
  * `EchoFlagged`: while the echo is in flight, `just_send_request` is set.
  * `LoopAccounts`: a request is on its way only while the presence loop sleeps. This is
    why `LoopRequest` and `LoopSelectRequest` never add a second one. `LoopWake` waits until
    nothing is in flight.

  `NoOwnRequestForwarded` alone is not inductive. `ReadFrame(OwnReq)` is excluded only by
  `EchoFlagged`, which `DiscSend` keeps only if no second own request can follow the first.
  That in turn is `OneOwnRequest` and `LoopAccounts`. TLC checked EInv on the `discovery`
  configuration, and again with `MaxRemote = 3, Cap = 2`, before the proof.

  Both hypotheses are the conditions under which the property holds, not conveniences:
  * two presence loops after StopDiscovery/StartDiscovery break it (run `discovery_restart`,
    a finding);
  * a second node on this host has the same source address, so its requests are taken for
    echoes and steal the flag.

  The `discovery` run checks exactly this case.

### HandshakeReplayProofs
`ReplayRejected: ASSUME RecWindow < StartWindow PROVE ReplaySpec => []NoPeerForImpostor`.
A handshake recorded in an earlier TOTP window and replayed later gets no Peer from either
honest end. This holds for every set of secrets and windows. The hypothesis is needed: run
`handshake_replay_fresh` replays within the recorded window and the server hands over a
Peer.

The inductive invariant `ReplayInv` has five parts:
* `ReplayTypeOK`, which includes the adversary's pcs;
* `now >= StartWindow`, since the clock only moves on;
* `sAuth = cAuth`;
* `ImpostorClient`: against the adversary as the client, the server is waiting or has
  failed, and every Request in flight is the recorded one (`OnlyFrame`);
* `ImpostorServer`: against the adversary as the server, the client has not verified,
  every Response in flight is the recorded one, and a waiting client holds a key of a
  window after `RecWindow`.

The key step is `SRequestOk`, and symmetrically `CResponseOk`. The frame at the head of the
stream is the recorded one, so verification would need `now = RecWindow` (or
`w = RecWindow`). That is below `StartWindow`, so the step is impossible. `NoPeerForImpostor`
alone is not inductive because it says nothing about the frames in flight. Lemmas
`TailKeepsOnly` and `AppendKeepsOnly` carry `OnlyFrame` through sends and receives. TLC
checked ReplayInv on ReplaySpec before the proof, for windows 0/1 and 1/2.

### NodeSessionsProofs
`NodeSessionsProofs` holds three theorems:
* `NodeTypeCorrect: Spec => []TypeOK`, for every value of the constants.
* `OneRemoteSessions: ASSUME NEW r, Peers = {r} PROVE Spec => [](AtMostOneFinalReply /\
  PromptAnswerable)`. With one remote, every remote session gets at most one final answer,
  and every open prompt can still be answered.
* `OneRemotePromptAnswerable`: the PromptAnswerable half of it, stated on its own.

The inductive invariant is `IInv(r) = TypeOK /\ IdsAhead(r) /\ QueuedFresh(r) /\
QueuedDistinct /\ OpenPromptUnanswered(r) /\ AtMostOneFinalReply /\ PromptAnswerable`:
* `IdsAhead`: ids at or above the remote's session counter are untouched (no session,
  prompt or answer);
* `QueuedFresh`: every inbound session queued for `handle_event` has an id below the
  counter that is still untouched;
* `QueuedDistinct`: queued inbound sessions have distinct ids;
* `OpenPromptUnanswered`: a prompt whose session is still registered has not been
  answered.

`AtMostOneFinalReply` alone is not inductive. A second `Ack` is harmless only because the
session was removed, and a new session cannot reuse the id. That last fact is `IdsAhead`
and `QueuedFresh`. TLC checked `IInv(p1)` on the `node_sessions` configuration (521,906
states) before the proof. With two remotes the ids collide, and the theorem's hypothesis
fails exactly there (run `node_ack_collision`, a finding).

### Only model-checked
* Liveness: `LoopsStop`. TLAPS does not do liveness or ENABLED.
* The violation runs are findings and are not proved. Each shows what happens outside a
  theorem's hypotheses or against the spec's text.
* The bounds `MaxStarts`, `MaxRemote`, `Cap`, `MaxWindow`, `MaxId` and `MaxQueue` are
  constants. The theorems hold for every value of them, except `MaxStarts <= 1` in
  `OwnRequestNeverForwarded`. TLC's runs check one small value of each.

## 5. Findings

See PROJECT.json "findings". Each has a violation run:
1. `accept` admits duplicate connections (`peer_manager_two_peers`). `peer_disconnected` then
   removes the PeerId whichever Peer closed, so a live Peer is no longer in connected_peers.
2. `handle_peer_discovered`'s remove/re-insert window makes `accept` refuse a paired peer
   (`peer_manager_refused`).
3. The boolean echo flag lets the node's own request through when two loops overlap
   (`discovery_restart`). The spec asks for a dedup nonce.
4. The address-based echo filter drops the PresenceRequest of another node on this host,
   because every node on the host sends from 127.0.0.1 (`discovery_same_host`). Spec section 5
   says the filter suppresses only loopback echoes.
5. Within one 30 s window, a recorded Request can be replayed to get a Peer
   (`handshake_replay_fresh`).
6. Session ids from different remotes collide in `sessions`, and Ack answers the wrong peer
   (`node_ack_collision`).
7. SetConfig writes back a stale copy and loses a concurrent pairing at the next restart
   (`node_lost_pairing`).

### Further observations, without a run
These come from reading the code. The model has the state to express each one, but no run of
the project checks them. PROJECT.json lists them as hazards with a note.
* Re-pairing after discovery never reaches the handshake, and a Pair that runs during
  `handle_peer_discovered` is overwritten (manager.rs 218).
* When the server's Peer is created after the client timed out waiting for CompleteResponse,
  one end holds a Peer for a stream the other abandoned until its read fails (net.rs 147). The
  spec (section 7) promises only recovery by closing, and no safety property of the handshake
  can ask for more, so this is not a finding.
* A full transport channel blocks the discovery task (discovery.rs 85). Discovery's TypeOK
  bound only restates the guard of `Forward`. No run states that read frames are forwarded.
* The two ends compute their TOTP codes at different moments, so a window boundary makes
  paired nodes fail with Auth (net.rs 133).
* Entries of auto-accepted sessions are never removed from `sessions` (node.rs 341).
* SendPeer to a peer that is already connected fails with Dup (node.rs 265).

## 6. Not modelled

* Codecs: byte layout, not concurrency.
* HMAC/TOTP arithmetic: abstracted to equality of secrets.
* Configuration persistence: only what is stored is modelled (`disk`); file I/O and a restart are not.
* Socket setup.
* The discovery shutdown branch: the manager never drops its sender.
* Queries: they change no state.
* The Peer session transport (`peer.rs`): not among the sources.
* The unreachable wrong-message branches of net.rs (96-99, 180-187): the codec delivers only
  the frames the model sends, and `CResponseBad`/`CCompleteWrong` cover the reachable ones.
* The DashMap shard lock held across a `connect_to_peer` handshake, and tokio worker
  starvation: a deadlock would need the thread pool in the model.
* UI events (`UiEvent`): only the AskLaunchUri prompts, which Ack answers, are kept.
