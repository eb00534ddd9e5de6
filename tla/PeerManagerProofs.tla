------------------------- MODULE PeerManagerProofs -------------------------
(***************************************************************************)
(* Proofs about PeerManager for every value of the constants.              *)
(*                                                                         *)
(* SurfacedOnce and DiscoveredAreKnown are not inductive by themselves:    *)
(* the step that emits PeerDiscovered must know that the event loop is     *)
(* working on a PeerId it has just put into discovered_peers, and the step *)
(* that removes a known entry must know that the PeerId is not discovered. *)
(* IInv adds what the event loop's handling of one PeerId guarantees       *)
(* between its three steps, and counts the PeerDiscovered events exactly.  *)
(***************************************************************************)
EXTENDS PeerManager, TLAPS

(* A task that is busy works on a real PeerId (and the event loop on a    *)
(* real secret).                                                           *)
TaskIds ==
    /\ el.pc # "idle" => el.id \in Ids /\ el.auth \in Secrets
    /\ app.pc # "idle" => app.id \in Ids
    /\ \A i \in Slots : acc[i].pc \in {"verifying", "handshaken"} => acc[i].id \in Ids

(* What the event loop holds between the steps of handle_peer_discovered. *)
ElConsistent ==
    /\ el.pc = "removed" => discovered[el.id] = None
    /\ el.pc = "inserted" => discovered[el.id] # None

(* Exactly one PeerDiscovered per discovered PeerId, except while the      *)
(* event loop has inserted it and not yet emitted the event.               *)
DiscEventsCount ==
    \A id \in Ids :
        discEvents[id] = IF discovered[id] # None /\ ~(el.pc = "inserted" /\ el.id = id)
                         THEN 1 ELSE 0

TypedTasks == TypeOK /\ TaskIds

IInv == TypedTasks /\ ElConsistent /\ DiscEventsCount /\ DiscoveredAreKnown

-----------------------------------------------------------------------------
(* Type correctness, with the PeerIds of busy tasks: every step of every   *)
(* task keeps the registries, counters and task states in their types.     *)
LEMMA TypedTasksStep == TypedTasks /\ [Next]_vars => TypedTasks'
<1> USE ConstantsAssumption
<1>2. TypedTasks /\ [Next]_vars => TypedTasks'
  <2> SUFFICES ASSUME TypeOK, TaskIds, [Next]_vars PROVE TypeOK' /\ TaskIds'
    BY DEF TypedTasks
  <2>1. ASSUME NEW id \in Ids, NEW s \in Secrets, AddKnownPeer(id, s)
        PROVE TypeOK' /\ TaskIds'
    BY <2>1 DEF AddKnownPeer, TypeOK, TaskIds, Auth
  <2>2. ASSUME NEW id \in Ids, ConnectToPeer(id) PROVE TypeOK' /\ TaskIds'
    <3>1. CASE id \in connected
      BY <2>2, <3>1 DEF ConnectToPeer, TypeOK, TaskIds, Results
    <3>2. CASE id \notin connected /\ discovered[id] = None
      BY <2>2, <3>2 DEF ConnectToPeer, TypeOK, TaskIds, Results
    <3>3. CASE id \notin connected /\ discovered[id] # None
      BY <2>2, <3>3 DEF ConnectToPeer, TypeOK, TaskIds, Auth, Results
    <3>4. QED
      BY <3>1, <3>2, <3>3
  <2>3. ASSUME NEW id \in Ids, PeerDisconnected(id) PROVE TypeOK' /\ TaskIds'
    BY <2>3 DEF PeerDisconnected, TypeOK, TaskIds
  <2>4. ASSUME NEW id \in Ids, HandlePeerDiscovered(id) PROVE TypeOK' /\ TaskIds'
    BY <2>4 DEF HandlePeerDiscovered, TypeOK, TaskIds, Auth
  <2>5. CASE ConnectFails
    BY <2>5 DEF ConnectFails, TypeOK, TaskIds, Results
  <2>6. CASE ConnectEstablished
    BY <2>6 DEF ConnectEstablished, TypeOK, TaskIds
  <2>7. CASE ConnectInsert
    <3>1. app.id \in Ids
      BY <2>7 DEF ConnectInsert, TaskIds
    <3>2. live' \in [Ids -> Nat] /\ connected' \subseteq Ids
      BY <2>7, <3>1 DEF ConnectInsert, TypeOK
    <3>3. app' \in [pc : {"idle", "connecting", "handshaken"}, id : Ids \cup {None},
                    auth : Auth, res : Results] /\ app'.pc = "idle"
      BY <2>7 DEF ConnectInsert, TypeOK, Results
    <3>4. QED
      BY <2>7, <3>2, <3>3 DEF ConnectInsert, TypeOK, TaskIds
  <2>8. ASSUME NEW i \in Slots, NEW id \in Ids, AcceptRequest(i, id)
        PROVE TypeOK' /\ TaskIds'
    <3>1. GetPeerCandidate(id) \in Auth
      BY DEF GetPeerCandidate, TypeOK
    <3>2. acc'[i] \in [pc : {"listen", "verifying", "handshaken", "closed"},
                       id : Ids \cup {None}, auth : Auth, res : Results]
          /\ acc'[i].id = id
      BY <2>8, <3>1 DEF AcceptRequest, TypeOK, Auth, Results
    <3>3. QED
      BY <2>8, <3>2 DEF AcceptRequest, TypeOK, TaskIds
  <2>9. ASSUME NEW i \in Slots, AcceptFails(i) PROVE TypeOK' /\ TaskIds'
    BY <2>9 DEF AcceptFails, TypeOK, TaskIds, Results
  <2>10. ASSUME NEW i \in Slots, AcceptEstablished(i) PROVE TypeOK' /\ TaskIds'
    BY <2>10 DEF AcceptEstablished, TypeOK, TaskIds
  <2>11. ASSUME NEW i \in Slots, HandleNewConnection(i) PROVE TypeOK' /\ TaskIds'
    <3>1. acc[i].id \in Ids
      BY <2>11 DEF HandleNewConnection, TaskIds
    <3>2. live' \in [Ids -> Nat] /\ connected' \subseteq Ids
      BY <2>11, <3>1 DEF HandleNewConnection, TypeOK
    <3>3. acc' \in [Slots -> [pc : {"listen", "verifying", "handshaken", "closed"},
                              id : Ids \cup {None}, auth : Auth, res : Results]]
          /\ acc'[i].pc = "closed"
          /\ \A j \in Slots \ {i} : acc'[j] = acc[j]
      <4>1. acc' = [acc EXCEPT ![i].pc = "closed", ![i].res = "ok"]
        BY <2>11 DEF HandleNewConnection
      <4>2. \A j \in Slots \ {i} : acc'[j] = acc[j]
        BY <4>1 DEF TypeOK
      <4>3. acc'[i] = [pc |-> "closed", id |-> acc[i].id, auth |-> acc[i].auth, res |-> "ok"]
        BY <4>1 DEF TypeOK
      <4>4. acc'[i] \in [pc : {"listen", "verifying", "handshaken", "closed"},
                         id : Ids \cup {None}, auth : Auth, res : Results]
        BY <4>3 DEF TypeOK, Results
      <4>5. acc' \in [Slots -> [pc : {"listen", "verifying", "handshaken", "closed"},
                                id : Ids \cup {None}, auth : Auth, res : Results]]
        BY <4>1, <4>2, <4>4 DEF TypeOK
      <4> QED BY <4>3, <4>2, <4>5
    <3>4. TypeOK'
      BY <2>11, <3>2, <3>3 DEF HandleNewConnection, TypeOK
    <3>5. TaskIds'
      BY <2>11, <3>3 DEF HandleNewConnection, TaskIds
    <3>6. QED
      BY <3>4, <3>5
  <2>12. CASE DiscoveredInsert
    BY <2>12 DEF DiscoveredInsert, TypeOK, TaskIds, Auth
  <2>13. CASE KnownReinsert
    BY <2>13 DEF KnownReinsert, TypeOK, TaskIds, Auth
  <2>14. CASE UNCHANGED vars
    BY <2>14 DEF vars, TypeOK, TaskIds
  <2>15. QED
    BY <2>1, <2>2, <2>3, <2>4, <2>5, <2>6, <2>7, <2>8, <2>9, <2>10, <2>11,
       <2>12, <2>13, <2>14 DEF Next
<1>3. QED
  BY <1>2

LEMMA TypedTasksInvariant == Spec => []TypedTasks
<1>1. Init => TypedTasks
  BY ConstantsAssumption DEF Init, TypedTasks, TypeOK, TaskIds, Auth, Results
<1>2. QED
  BY <1>1, TypedTasksStep, PTL DEF Spec

(* Type correctness of PeerManager: the registries, counters and task      *)
(* states of P2pManager keep their types in every reachable state.         *)
THEOREM TypeCorrect == Spec => []TypeOK
BY TypedTasksInvariant, PTL DEF TypedTasks
-----------------------------------------------------------------------------
(* The handling of one PeerId by the event loop keeps the registries and   *)
(* the PeerDiscovered count consistent.                                    *)
LEMMA IInvStep == IInv /\ [Next]_vars => IInv'
<1> USE ConstantsAssumption
<1> SUFFICES ASSUME IInv, [Next]_vars
             PROVE (ElConsistent /\ DiscEventsCount /\ DiscoveredAreKnown)'
  BY TypedTasksStep DEF IInv
<1>1. CASE UNCHANGED <<known, discovered, el, discEvents>>
  BY <1>1 DEF IInv, ElConsistent, DiscEventsCount, DiscoveredAreKnown
<1>2. ASSUME NEW id \in Ids, NEW s \in Secrets, AddKnownPeer(id, s)
      PROVE (ElConsistent /\ DiscEventsCount /\ DiscoveredAreKnown)'
  BY <1>2 DEF AddKnownPeer, IInv, TypedTasks, TypeOK, ElConsistent, DiscEventsCount,
              DiscoveredAreKnown
<1>3. ASSUME NEW id \in Ids, HandlePeerDiscovered(id)
      PROVE (ElConsistent /\ DiscEventsCount /\ DiscoveredAreKnown)'
  <2>1. ElConsistent'
    BY <1>3 DEF HandlePeerDiscovered, IInv, TypedTasks, TypeOK, ElConsistent, Auth
  <2>2. DiscEventsCount'
    BY <1>3 DEF HandlePeerDiscovered, IInv, DiscEventsCount
  <2>3. DiscoveredAreKnown'
    BY <1>3 DEF HandlePeerDiscovered, IInv, TypedTasks, TypeOK, DiscoveredAreKnown
  <2>4. QED
    BY <2>1, <2>2, <2>3
<1>4. CASE DiscoveredInsert
  <2>1. el.id \in Ids /\ el.auth \in Secrets /\ discovered[el.id] = None
    BY <1>4 DEF DiscoveredInsert, IInv, TypedTasks, TaskIds, ElConsistent
  <2>2. ElConsistent'
    BY <1>4, <2>1 DEF DiscoveredInsert, IInv, TypedTasks, TypeOK, ElConsistent
  <2>3. DiscEventsCount'
    BY <1>4, <2>1 DEF DiscoveredInsert, IInv, TypedTasks, TypeOK, DiscEventsCount
  <2>4. DiscoveredAreKnown'
    BY <1>4, <2>1 DEF DiscoveredInsert, IInv, TypedTasks, TypeOK, DiscoveredAreKnown
  <2>5. QED
    BY <2>2, <2>3, <2>4
<1>5. CASE KnownReinsert
  <2>1. el.id \in Ids /\ el.auth \in Secrets /\ discovered[el.id] # None
    BY <1>5 DEF KnownReinsert, IInv, TypedTasks, TaskIds, ElConsistent
  <2>2. ElConsistent'
    BY <1>5 DEF KnownReinsert, ElConsistent
  <2>3. DiscEventsCount'
    BY <1>5, <2>1 DEF KnownReinsert, IInv, TypedTasks, TypeOK, DiscEventsCount
  <2>4. DiscoveredAreKnown'
    BY <1>5, <2>1 DEF KnownReinsert, IInv, TypedTasks, TypeOK, DiscoveredAreKnown
  <2>5. QED
    BY <2>2, <2>3, <2>4
<1>6. QED
  <2>1. CASE \E id \in Ids, s \in Secrets : AddKnownPeer(id, s)
    BY <2>1, <1>2
  <2>2. CASE \E id \in Ids : ConnectToPeer(id) \/ PeerDisconnected(id) \/ HandlePeerDiscovered(id)
    <3>1. PICK id \in Ids : ConnectToPeer(id) \/ PeerDisconnected(id) \/ HandlePeerDiscovered(id)
      BY <2>2
    <3>2. CASE ConnectToPeer(id) \/ PeerDisconnected(id)
      BY <3>2, <1>1 DEF ConnectToPeer, PeerDisconnected
    <3>3. QED
      BY <3>1, <3>2, <1>3
  <2>3. CASE \E i \in Slots : \/ \E id \in Ids : AcceptRequest(i, id)
                             \/ AcceptFails(i) \/ AcceptEstablished(i) \/ HandleNewConnection(i)
    <3>1. UNCHANGED <<known, discovered, el, discEvents>>
      BY <2>3 DEF AcceptRequest, AcceptFails, AcceptEstablished, HandleNewConnection
    <3>2. QED
      BY <3>1, <1>1
  <2>4. CASE ConnectFails \/ ConnectEstablished \/ ConnectInsert \/ UNCHANGED vars
    BY <2>4, <1>1 DEF ConnectFails, ConnectEstablished, ConnectInsert, vars
  <2>5. QED
    BY <2>1, <2>2, <2>3, <2>4, <1>4, <1>5 DEF Next

LEMMA IInvInvariant == Spec => []IInv
<1>1. Init => IInv
  BY ConstantsAssumption
  DEF Init, IInv, TypedTasks, TypeOK, TaskIds, Auth, Results, ElConsistent,
      DiscEventsCount, DiscoveredAreKnown
<1>2. QED
  BY <1>1, IInvStep, PTL DEF Spec

(* handle_peer_discovered surfaces each PeerId to the application at most  *)
(* once, and every PeerId in discovered_peers has its known_peers entry    *)
(* except while the event loop is between its two inserts, for every set   *)
(* of peers and secrets and every number of connections.                   *)
THEOREM DiscoverySafety == Spec => [](SurfacedOnce /\ DiscoveredAreKnown)
<1>1. IInv => SurfacedOnce /\ DiscoveredAreKnown
  BY DEF IInv, DiscEventsCount, SurfacedOnce
<1>2. QED
  BY <1>1, IInvInvariant, PTL

(* Every PeerId in discovered_peers has its known_peers entry outside the  *)
(* window of handle_peer_discovered between its two inserts, which the     *)
(* model-checked run of MCPeerManager states on its own.                   *)
THEOREM KnownInvariant == Spec => []DiscoveredAreKnown
BY DiscoverySafety, PTL
=============================================================================
