----------------------------- MODULE Discovery -----------------------------
(***************************************************************************)
(* Multicast presence discovery of one node, as the sources have it:       *)
(*                                                                         *)
(*   - the presence loop that StartDiscovery spawns and StopDiscovery      *)
(*     cancels (core/src/node.rs), calling request_presence every 2 s;     *)
(*   - the discovery task of crate/p2p/src/discovery.rs, which sends the   *)
(*     events the manager queues on the multicast group and forwards the   *)
(*     frames it reads to the manager, dropping the echo of its own        *)
(*     PresenceRequest with the just_send_request flag;                    *)
(*   - the manager's dispatch of a forwarded frame: a PresenceRequest is   *)
(*     answered by handle_presence_request, a PresenceResponse goes to     *)
(*     handle_peer_discovered (module PeerManager).                        *)
(*                                                                         *)
(* The multicast group loses, duplicates and reorders datagrams of other   *)
(* nodes; the loopback echo of this node's own datagrams may be lost but   *)
(* is not duplicated.  A datagram is identified by its kind and its        *)
(* sender; the discovery task compares the sender's socket address with    *)
(* its own, and every node on this host has the same one.                  *)
(***************************************************************************)
EXTENDS Naturals, Sequences

CONSTANTS
    Local,      \* this node
    Others,     \* the other nodes on the multicast group
    SameHost,   \* the other nodes running on this host
    None,       \* no frame
    MaxStarts,  \* bound on StartDiscovery commands
    MaxRemote,  \* bound on datagrams sent or duplicated by other nodes
    Cap         \* capacity of the transport channel (1024 in discovery.rs)

ASSUME DiscoveryAssumption ==
    /\ Local \notin Others
    /\ SameHost \subseteq Others
    /\ MaxStarts \in Nat /\ MaxRemote \in Nat
    /\ Cap \in Nat \ {0}

Nodes == {Local} \cup Others
Frames == [kind : {"Req", "Resp"}, src : Nodes]
OwnReq == [kind |-> "Req", src |-> Local]
Tokens == 1..MaxStarts

ASSUME NoneAssumption == None \notin Frames

\* The source address of a datagram: one address per host.
Addr(n) == IF n \in SameHost THEN Local ELSE n

VARIABLES
    appQ,       \* discovery_channel: events the manager queued for sending
    net,        \* datagrams in flight to this node's socket (a bag)
    justSent,   \* just_send_request
    holding,    \* the frame the discovery task is forwarding, or None
    toMgr,      \* the transport channel from the discovery task to the manager
    loop,       \* the state of the presence loop spawned by each StartDiscovery
    cancelled,  \* whether each loop's CancellationToken has been cancelled
    ct,         \* state.discovery_ct: the token of the running loop, or 0
    remoteSent  \* datagrams sent or duplicated by other nodes so far

vars == <<appQ, net, justSent, holding, toMgr, loop, cancelled, ct, remoteSent>>

LoopStates == {"none", "start", "sleeping", "select", "done"}

TypeOK ==
    /\ appQ \in Seq({"Req", "Resp"})
    /\ net \in [Frames -> Nat]
    /\ justSent \in BOOLEAN
    /\ holding \in Frames \cup {None}
    /\ toMgr \in Seq(Frames) /\ Len(toMgr) <= Cap
    /\ loop \in [Tokens -> LoopStates]
    /\ cancelled \in [Tokens -> BOOLEAN]
    /\ ct \in 0..MaxStarts
    /\ remoteSent \in 0..MaxRemote

Init ==
    /\ appQ = <<>>
    /\ net = [f \in Frames |-> 0]
    /\ justSent = FALSE
    /\ holding = None
    /\ toMgr = <<>>
    /\ loop = [k \in Tokens |-> "none"]
    /\ cancelled = [k \in Tokens |-> FALSE]
    /\ ct = 0
    /\ remoteSent = 0

-----------------------------------------------------------------------------
(* The presence loop (node.rs, StartDiscovery / StopDiscovery).            *)

Started == {k \in Tokens : loop[k] # "none"}

(* StartDiscovery: if no loop is recorded, spawn one with a fresh token.   *)
StartDiscovery ==
    /\ ct = 0
    /\ \E k \in Tokens \ Started :
         /\ loop' = [loop EXCEPT ![k] = "start"]
         /\ ct' = k
    /\ UNCHANGED <<appQ, net, justSent, holding, toMgr, cancelled, remoteSent>>

\* Fault: StopDiscovery forgets the token without cancelling it.
StopDiscoveryForgets ==
    /\ ct # 0
    /\ ct' = 0
    /\ UNCHANGED <<appQ, net, justSent, holding, toMgr, loop, cancelled, remoteSent>>

(* StopDiscovery: cancel the recorded token and forget it.                 *)
StopDiscovery ==
    /\ ct # 0
    /\ cancelled' = [cancelled EXCEPT ![ct] = TRUE]
    /\ ct' = 0
    /\ UNCHANGED <<appQ, net, justSent, holding, toMgr, loop, remoteSent>>

(* The loop's first request_presence: queue PresenceRequest.               *)
LoopRequest(k) ==
    /\ loop[k] = "start"
    /\ appQ' = Append(appQ, "Req")
    /\ loop' = [loop EXCEPT ![k] = "sleeping"]
    /\ UNCHANGED <<net, justSent, holding, toMgr, cancelled, ct, remoteSent>>

(* The 2 s sleep ends.  Two seconds is taken to be far longer than the     *)
(* loopback trip of a datagram: a request of this node is no longer on its *)
(* way to the socket when a sleep ends.                                    *)
OwnRequestInFlight == (\E i \in 1..Len(appQ) : appQ[i] = "Req") \/ net[OwnReq] > 0

LoopWake(k) ==
    /\ loop[k] = "sleeping"
    /\ ~OwnRequestInFlight
    /\ loop' = [loop EXCEPT ![k] = "select"]
    /\ UNCHANGED <<appQ, net, justSent, holding, toMgr, cancelled, ct, remoteSent>>

(* select! polls its ready branches in random order: request_presence is   *)
(* always ready, token.cancelled() once the token is cancelled.            *)
LoopSelectRequest(k) ==
    /\ loop[k] = "select"
    /\ appQ' = Append(appQ, "Req")
    /\ loop' = [loop EXCEPT ![k] = "sleeping"]
    /\ UNCHANGED <<net, justSent, holding, toMgr, cancelled, ct, remoteSent>>

LoopSelectCancel(k) ==
    /\ loop[k] = "select"
    /\ cancelled[k]
    /\ loop' = [loop EXCEPT ![k] = "done"]
    /\ UNCHANGED <<appQ, net, justSent, holding, toMgr, cancelled, ct, remoteSent>>

-----------------------------------------------------------------------------
(* The discovery task (discovery.rs).                                      *)

(* Branch app_rx.recv(): send the event on the multicast group.  A         *)
(* PresenceRequest first sets just_send_request.  The datagram comes back  *)
(* to this socket through multicast loopback.                              *)
\* Fault: just_send_request is not set before sending a PresenceRequest.
DiscSendNoFlag ==
    /\ holding = None
    /\ appQ # <<>>
    /\ net' = [net EXCEPT ![[kind |-> Head(appQ), src |-> Local]] = @ + 1]
    /\ appQ' = Tail(appQ)
    /\ UNCHANGED <<justSent, holding, toMgr, loop, cancelled, ct, remoteSent>>

DiscSend ==
    /\ holding = None
    /\ appQ # <<>>
    /\ justSent' = (justSent \/ Head(appQ) = "Req")
    /\ net' = [net EXCEPT ![[kind |-> Head(appQ), src |-> Local]] = @ + 1]
    /\ appQ' = Tail(appQ)
    /\ UNCHANGED <<holding, toMgr, loop, cancelled, ct, remoteSent>>

(* Branch reader.next(): a PresenceRequest from this socket's own address  *)
(* while just_send_request is set is taken for the echo and dropped.       *)
IsEcho(f) == justSent /\ f.kind = "Req" /\ Addr(f.src) = Local

DropEcho(f) ==
    /\ holding = None
    /\ net[f] > 0
    /\ IsEcho(f)
    /\ net' = [net EXCEPT ![f] = @ - 1]
    /\ justSent' = FALSE
    /\ UNCHANGED <<appQ, holding, toMgr, loop, cancelled, ct, remoteSent>>

(* ... any other frame is forwarded to the manager.                        *)
ReadFrame(f) ==
    /\ holding = None
    /\ net[f] > 0
    /\ ~IsEcho(f)
    /\ net' = [net EXCEPT ![f] = @ - 1]
    /\ holding' = f
    /\ UNCHANGED <<appQ, justSent, toMgr, loop, cancelled, ct, remoteSent>>

\* Fault: transport_tx.send does not wait for room in the channel.
ForwardUnbounded ==
    /\ holding # None
    /\ toMgr' = Append(toMgr, holding)
    /\ holding' = None
    /\ UNCHANGED <<appQ, net, justSent, loop, cancelled, ct, remoteSent>>

(* transport_tx.send(frame).await: wait for room in the bounded channel.   *)
Forward ==
    /\ holding # None
    /\ Len(toMgr) < Cap
    /\ toMgr' = Append(toMgr, holding)
    /\ holding' = None
    /\ UNCHANGED <<appQ, net, justSent, loop, cancelled, ct, remoteSent>>

(* The manager's event loop takes a frame: a PresenceRequest is answered   *)
(* by handle_presence_request, which queues PresenceResponse(metadata); a  *)
(* PresenceResponse goes to handle_peer_discovered.                        *)
MgrHandle ==
    /\ toMgr # <<>>
    /\ appQ' = IF Head(toMgr).kind = "Req" THEN Append(appQ, "Resp") ELSE appQ
    /\ toMgr' = Tail(toMgr)
    /\ UNCHANGED <<net, justSent, holding, loop, cancelled, ct, remoteSent>>

-----------------------------------------------------------------------------
(* The network and the other nodes.                                        *)

RemoteSend(n, k) ==
    /\ remoteSent < MaxRemote
    /\ net' = [net EXCEPT ![[kind |-> k, src |-> n]] = @ + 1]
    /\ remoteSent' = remoteSent + 1
    /\ UNCHANGED <<appQ, justSent, holding, toMgr, loop, cancelled, ct>>

Duplicate(f) ==
    /\ f.src # Local
    /\ net[f] > 0
    /\ remoteSent < MaxRemote
    /\ net' = [net EXCEPT ![f] = @ + 1]
    /\ remoteSent' = remoteSent + 1
    /\ UNCHANGED <<appQ, justSent, holding, toMgr, loop, cancelled, ct>>

Lose(f) ==
    /\ net[f] > 0
    /\ net' = [net EXCEPT ![f] = @ - 1]
    /\ UNCHANGED <<appQ, justSent, holding, toMgr, loop, cancelled, ct, remoteSent>>

Next ==
    \/ StartDiscovery \/ StopDiscovery
    \/ \E k \in Tokens : \/ LoopRequest(k) \/ LoopWake(k)
                         \/ LoopSelectRequest(k) \/ LoopSelectCancel(k)
    \/ DiscSend \/ Forward \/ MgrHandle
    \/ \E f \in Frames : DropEcho(f) \/ ReadFrame(f) \/ Duplicate(f) \/ Lose(f)
    \/ \E n \in Others, k \in {"Req", "Resp"} : RemoteSend(n, k)

(* Every task is scheduled (weak fairness); a timer fires and select!'s    *)
(* random choice picks each ready branch eventually (strong fairness).     *)
Fairness ==
    /\ WF_vars(DiscSend) /\ WF_vars(Forward) /\ WF_vars(MgrHandle)
    /\ \A f \in Frames : WF_vars(DropEcho(f) \/ ReadFrame(f))
    /\ \A k \in Tokens : /\ WF_vars(LoopRequest(k))
                         /\ SF_vars(LoopWake(k))
                         /\ SF_vars(LoopSelectCancel(k))

Spec == Init /\ [][Next]_vars /\ Fairness

-----------------------------------------------------------------------------
(* PROPERTIES                                                              *)

(* Spec section 8, property 3: the discovery task never forwards this      *)
(* node's own PresenceRequest to the manager.                              *)
NoOwnRequestForwarded == [][holding' # OwnReq]_vars

(* Spec section 5: the echo filter suppresses only loopback echoes.  A     *)
(* step that clears just_send_request is one that dropped a datagram of    *)
(* this node, never a request of another node, which must be answered.     *)
OnlyOwnEchoDropped ==
    [][(justSent /\ ~justSent') => net'[OwnReq] = net[OwnReq] - 1]_vars

(* After StopDiscovery, the presence loop it cancelled eventually stops    *)
(* sending requests.                                                       *)
LoopsStop == \A k \in Tokens : (loop[k] \in {"start", "sleeping", "select"} /\ ct # k)
                                  ~> loop[k] = "done"
=============================================================================
