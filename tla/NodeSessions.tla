---------------------------- MODULE NodeSessions ----------------------------
(***************************************************************************)
(* The core of one node (node.rs): the select loop of Node::start and the  *)
(* handlers it runs one at a time, handle_command, handle_event and        *)
(* handle_p2p, with the node configuration they persist (conf.rs).         *)
(*                                                                         *)
(* Each handler runs to completion before the loop takes the next message, *)
(* so a handler is one atomic step, awaits included.  What the node shares *)
(* with its P2pManager is abstracted to the sets of known and connected    *)
(* PeerIds (modules PeerManager and Handshake model them in detail).  The  *)
(* remote nodes, their peer tasks (peer.rs: client_handler and             *)
(* server_handler) and the user interface are the environment:             *)
(*                                                                         *)
(*   - a remote that connected to this node sends session requests with    *)
(*     ids from its own counter, which starts at 1 on every node;          *)
(*   - a remote this node connected to (SendPeer) answers the outbound     *)
(*     session with Waiting and then a final status, or closes;            *)
(*   - the user answers any AskLaunchUri prompt with Ack, possibly twice,  *)
(*     reads the configuration (GetConf) and writes back an edited copy of *)
(*     what it read (SetConfig).                                           *)
(*                                                                         *)
(* A reply channel (the tx of InboundSession) is named by the remote it    *)
(* leads to; a reply sent after that connection closed is lost.            *)
(***************************************************************************)
EXTENDS Naturals, Sequences

CONSTANTS
    Peers,      \* PeerIds of the remote nodes
    None,       \* no entry in the sessions map
    MaxId,      \* session ids are 1..MaxId, on this node and on the remotes
    MaxQueue    \* bound on the internal channel, an unbounded mpsc in the code

ASSUME NodeAssumption ==
    /\ None \notin Peers
    /\ MaxId \in Nat
    /\ MaxQueue \in Nat

VARIABLES
    conf,         \* self.conf: [known, auto] (known_peers, auto_accept)
    disk,         \* the NodeConfig the store holds
    snapshot,     \* the NodeConfig the UI read last with GetConf
    mgrKnown,     \* PeerIds the P2pManager holds a PeerCandidate for
    connected,    \* P2pManager.connected_peers
    serving,      \* remotes whose inbound connection has a server_handler
    clients,      \* remotes with an outbound connection and client_handler
    outstanding,  \* outbound sessions <<peer, id>> awaiting a final status
    sessionId,    \* self.state.session_id
    sessions,     \* self.state.sessions: session id -> reply channel
    internal,     \* the internal channel: InternalEvent records
    rNext,        \* each remote's next session id
    prompts,      \* AskLaunchUri <<peer, id>> the UI has shown
    finals,       \* number of final answers each remote got per session
    acks,         \* every Ack that was sent: the prompt and the receiver
    refused       \* PeerIds a SendPeer was refused for with Dup

vars == <<conf, disk, snapshot, mgrKnown, connected, serving, clients,
          outstanding, sessionId, sessions, internal, rNext, prompts,
          finals, acks, refused>>

Ids == 1..MaxId
Configs == [known : SUBSET Peers, auto : BOOLEAN]
Statuses == {"Waiting", "Success", "Cancel", "Error"}

\* Answers a remote received are counted 0, 1, "2 or more".
MaxCount == 2
Bump(n) == IF n < MaxCount THEN n + 1 ELSE n

InboundSession(r, i) == [kind |-> "inbound", peer |-> r, id |-> i]
SessionResult(p, i, st) == [kind |-> "result", peer |-> p, id |-> i, status |-> st]
Events == {InboundSession(r, i) : r \in Peers, i \in Ids}
            \cup {SessionResult(p, i, st) : p \in Peers, i \in Ids, st \in Statuses}

TypeOK ==
    /\ conf \in Configs
    /\ disk \in Configs
    /\ snapshot \in Configs
    /\ mgrKnown \subseteq Peers
    /\ connected \subseteq Peers
    /\ serving \subseteq Peers
    /\ clients \subseteq Peers
    /\ outstanding \subseteq Peers \X Ids
    /\ sessionId \in 0..MaxId
    /\ sessions \in [Ids -> Peers \cup {None}]
    /\ internal \in Seq(Events)
    /\ rNext \in [Peers -> 1..(MaxId + 1)]
    /\ prompts \subseteq Peers \X Ids
    /\ finals \in [Peers \X Ids -> 0..MaxCount]
    /\ acks \subseteq [for : Peers, to : Peers, id : Ids]
    /\ refused \subseteq Peers

\* Node::init: the configuration is read from the store and every known
\* peer is handed to the new P2pManager; nothing is connected.
Init ==
    /\ disk \in Configs
    /\ conf = disk
    /\ snapshot = disk
    /\ mgrKnown = disk.known
    /\ connected = {}
    /\ serving = {}
    /\ clients = {}
    /\ outstanding = {}
    /\ sessionId = 0
    /\ sessions = [i \in Ids |-> None]
    /\ internal = <<>>
    /\ rNext = [r \in Peers |-> 1]
    /\ prompts = {}
    /\ finals = [x \in Peers \X Ids |-> 0]
    /\ acks = {}
    /\ refused = {}

\* store.set: the configuration is written as JSON (Persistable::write) and
\* read back whole by the next Node::init.
Store(cfg) == disk' = cfg

\* A reply sent on the channel of remote r's session i: it arrives only
\* while r's connection is served.
FinalTo(r, i) ==
    finals' = IF r \in serving THEN [finals EXCEPT ![<<r, i>>] = Bump(@)] ELSE finals

-----------------------------------------------------------------------------
(* handle_query                                                            *)

GetConf ==
    /\ snapshot' = conf
    /\ UNCHANGED <<conf, disk, mgrKnown, connected, serving, clients, outstanding,
                   sessionId, sessions, internal, rNext, prompts, finals, acks, refused>>

-----------------------------------------------------------------------------
(* handle_command.  A command whose first call fails returns early with   *)
(* the error and changes nothing: a connect_to_peer that finds no          *)
(* candidate or no address, a failing handshake, a store.set that fails    *)
(* in SetConfig, a QR payload that does not parse.  Those steps are        *)
(* stutters and are left out.                                              *)

\* SendPeer: connect_to_peer, then a new session id and a client_handler.
\* connect_to_peer refuses a PeerId that connected_peers holds with Dup.
SendPeer(p) ==
    /\ \/ /\ p \in connected
          /\ refused' = refused \cup {p}
          /\ UNCHANGED <<connected, clients, outstanding, sessionId>>
       \/ /\ p \notin connected
          /\ p \in mgrKnown
          /\ sessionId < MaxId
          /\ connected' = connected \cup {p}
          /\ clients' = clients \cup {p}
          /\ sessionId' = sessionId + 1
          /\ outstanding' = outstanding \cup {<<p, sessionId + 1>>}
          /\ UNCHANGED refused
    /\ UNCHANGED <<conf, disk, snapshot, mgrKnown, serving, sessions, internal,
                   rNext, prompts, finals, acks>>

\* SetConfig: the new configuration keeps the node's id and is stored,
\* then becomes self.conf.  known_peers comes from the UI's copy.
SetConfig(auto) ==
    /\ LET new == [snapshot EXCEPT !.auto = auto] IN
         /\ Store(new)
         /\ conf' = new
    /\ UNCHANGED <<snapshot, mgrKnown, connected, serving, clients, outstanding,
                   sessionId, sessions, internal, rNext, prompts, finals, acks, refused>>

\* Pair: insert into self.conf.known_peers, store self.conf, and only then
\* add_known_peer.  A failing store.set returns after the insert.
Pair(p) ==
    /\ conf' = [conf EXCEPT !.known = @ \cup {p}]
    /\ \/ /\ Store(conf')
          /\ mgrKnown' = mgrKnown \cup {p}
       \/ UNCHANGED <<disk, mgrKnown>>
    /\ UNCHANGED <<snapshot, connected, serving, clients, outstanding,
                   sessionId, sessions, internal, rNext, prompts, finals, acks, refused>>

\* Fault: Ack looks the session up with get, leaving it in the map.
AckKeep(p, i) ==
    /\ <<p, i>> \in prompts
    /\ sessions[i] # None
    /\ FinalTo(sessions[i], i)
    /\ acks' = acks \cup {[for |-> p, to |-> sessions[i], id |-> i]}
    /\ UNCHANGED <<conf, disk, snapshot, mgrKnown, connected, serving, clients,
                   outstanding, sessionId, sessions, internal, rNext, prompts, refused>>

\* Ack(PeerId, session, ack): the PeerId is ignored; the session is removed
\* from the map and the answer sent on its channel.  An Ack for a session
\* no longer in the map does nothing.
Ack(p, i) ==
    /\ <<p, i>> \in prompts
    /\ sessions[i] # None
    /\ FinalTo(sessions[i], i)
    /\ acks' = acks \cup {[for |-> p, to |-> sessions[i], id |-> i]}
    /\ sessions' = [sessions EXCEPT ![i] = None]
    /\ UNCHANGED <<conf, disk, snapshot, mgrKnown, connected, serving, clients,
                   outstanding, sessionId, internal, rNext, prompts, refused>>

-----------------------------------------------------------------------------
(* handle_event                                                            *)

\* InboundSession: the reply channel is stored under the remote's session
\* id; with auto_accept the UI gets LaunchUri and the remote Success,
\* otherwise the UI gets AskLaunchUri and the remote Waiting.
HandleInbound ==
    /\ internal # <<>>
    /\ Head(internal).kind = "inbound"
    /\ LET r == Head(internal).peer
           i == Head(internal).id
       IN /\ sessions' = [sessions EXCEPT ![i] = r]
          /\ IF conf.auto
               THEN /\ FinalTo(r, i)
                    /\ UNCHANGED prompts
               ELSE /\ prompts' = prompts \cup {<<r, i>>}
                    /\ UNCHANGED finals
    /\ internal' = Tail(internal)
    /\ UNCHANGED <<conf, disk, snapshot, mgrKnown, connected, serving, clients,
                   outstanding, sessionId, rNext, acks, refused>>

\* Fault: SessionResult removes the entry it means to drop.
HandleResultRemove ==
    /\ internal # <<>>
    /\ Head(internal).kind = "result"
    /\ sessions' = IF Head(internal).status = "Waiting" THEN sessions
                   ELSE [sessions EXCEPT ![Head(internal).id] = None]
    /\ internal' = Tail(internal)
    /\ UNCHANGED <<conf, disk, snapshot, mgrKnown, connected, serving, clients,
                   outstanding, sessionId, rNext, prompts, finals, acks, refused>>

\* SessionResult: the status goes to the UI as PeerCtl*; sessions.get on
\* the outbound session's id changes nothing.
HandleResult ==
    /\ internal # <<>>
    /\ Head(internal).kind = "result"
    /\ internal' = Tail(internal)
    /\ UNCHANGED <<conf, disk, snapshot, mgrKnown, connected, serving, clients,
                   outstanding, sessionId, sessions, rNext, prompts, finals, acks, refused>>

-----------------------------------------------------------------------------
(* handle_p2p, with the P2pManager step that emits the event.             *)

\* net::accept succeeded for r: connected_peers.insert, PeerConnected, and
\* a server_handler for the connection.
PeerConnected(r) ==
    /\ r \in mgrKnown
    /\ r \notin serving
    /\ connected' = connected \cup {r}
    /\ serving' = serving \cup {r}
    /\ UNCHANGED <<conf, disk, snapshot, mgrKnown, clients, outstanding, sessionId,
                   sessions, internal, rNext, prompts, finals, acks, refused>>

\* A connection closes: peer_disconnected removes the PeerId from
\* connected_peers; the node ignores PeerDisconnected.
ServerClose(r) ==
    /\ r \in serving
    /\ serving' = serving \ {r}
    /\ connected' = connected \ {r}
    /\ UNCHANGED <<conf, disk, snapshot, mgrKnown, clients, outstanding, sessionId,
                   sessions, internal, rNext, prompts, finals, acks, refused>>

ClientClose(p) ==
    /\ p \in clients
    /\ clients' = clients \ {p}
    /\ connected' = connected \ {p}
    /\ outstanding' = {o \in outstanding : o[1] # p}
    /\ UNCHANGED <<conf, disk, snapshot, mgrKnown, serving, sessionId,
                   sessions, internal, rNext, prompts, finals, acks, refused>>

-----------------------------------------------------------------------------
(* The remotes' peer tasks.                                                *)

\* server_handler forwards a session request of remote r as InboundSession.
RemoteRequest(r) ==
    /\ r \in serving
    /\ rNext[r] <= MaxId
    /\ Len(internal) < MaxQueue
    /\ internal' = Append(internal, InboundSession(r, rNext[r]))
    /\ rNext' = [rNext EXCEPT ![r] = @ + 1]
    /\ UNCHANGED <<conf, disk, snapshot, mgrKnown, connected, serving, clients,
                   outstanding, sessionId, sessions, prompts, finals, acks, refused>>

\* client_handler forwards the remote's answer to an outbound session as
\* SessionResult; a final status ends the session.
RemoteAnswer(p) ==
    /\ p \in clients
    /\ Len(internal) < MaxQueue
    /\ \E i \in Ids, st \in Statuses :
         /\ <<p, i>> \in outstanding
         /\ internal' = Append(internal, SessionResult(p, i, st))
         /\ outstanding' = IF st = "Waiting" THEN outstanding
                           ELSE outstanding \ {<<p, i>>}
    /\ UNCHANGED <<conf, disk, snapshot, mgrKnown, connected, serving, clients,
                   sessionId, sessions, rNext, prompts, finals, acks, refused>>

-----------------------------------------------------------------------------
NodeStep ==
    \/ GetConf
    \/ \E p \in Peers : SendPeer(p) \/ Pair(p)
    \/ \E auto \in BOOLEAN : SetConfig(auto)
    \/ \E p \in Peers, i \in Ids : Ack(p, i)
    \/ HandleInbound
    \/ HandleResult
    \/ \E r \in Peers : PeerConnected(r) \/ ServerClose(r) \/ ClientClose(r)

RemoteStep == \E r \in Peers : RemoteRequest(r) \/ RemoteAnswer(r)

Next == NodeStep \/ RemoteStep

Spec == Init /\ [][Next]_vars

-----------------------------------------------------------------------------
(* Properties.                                                             *)

\* A remote's session gets at most one final answer: the automatic Success
\* of handle_event, or the Ack the user sends for it, which removes the
\* session from the map so that a second Ack finds nothing.
AtMostOneFinalReply == \A x \in Peers \X Ids : finals[x] <= 1

\* Whether the user has sent an Ack for prompt pr.
Acked(pr) == \E a \in acks : a.for = pr[1] /\ a.id = pr[2]

\* A prompt the user has not answered yet can still be answered: the
\* sessions map still leads Ack to the channel of the remote that asked.
PromptAnswerable ==
    \A pr \in prompts : ~Acked(pr) => sessions[pr[2]] = pr[1]

\* The user's Ack for a prompt of remote p reaches p, not another remote.
AckReachesItsPeer == \A a \in acks : a.to = a.for

\* The peers the running P2pManager authenticates are the ones a restart
\* of the node loads from the store: pairing and SetConfig lose no pairing
\* and keep none the store forgot.
PairingsSurviveRestart == mgrKnown = disk.known

=============================================================================
