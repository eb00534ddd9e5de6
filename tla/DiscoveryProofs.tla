-------------------------- MODULE DiscoveryProofs --------------------------
(***************************************************************************)
(* Proofs about Discovery for every value of the constants: every step of  *)
(* the presence loops, the discovery task, the manager and the network     *)
(* keeps the state typed, and in particular the transport channel from the *)
(* discovery task to the manager never holds more than Cap frames, because *)
(* the discovery task waits for room before it forwards a frame.           *)
(***************************************************************************)
EXTENDS Discovery, SequenceTheorems, TLAPS

-----------------------------------------------------------------------------
(* The datagram a node sends and the events the queues carry are typed.    *)

LEMMA SentFrame ==
    ASSUME NEW k \in {"Req", "Resp"}, NEW n \in Nodes
    PROVE  [kind |-> k, src |-> n] \in Frames
BY DEF Frames

LEMMA CountUp ==
    ASSUME NEW S, NEW g \in [S -> Nat], NEW x \in S
    PROVE  [g EXCEPT ![x] = @ + 1] \in [S -> Nat]
OBVIOUS

LEMMA CountDown ==
    ASSUME NEW S, NEW g \in [S -> Nat], NEW x \in S, g[x] > 0
    PROVE  [g EXCEPT ![x] = @ - 1] \in [S -> Nat]
OBVIOUS

-----------------------------------------------------------------------------
LEMMA TypeStep == TypeOK /\ [Next]_vars => TypeOK'
<1> SUFFICES ASSUME TypeOK, [Next]_vars PROVE TypeOK'
    OBVIOUS
<1> USE DiscoveryAssumption DEF TypeOK
<1>1. CASE StartDiscovery
    <2>1. PICK k \in Tokens \ Started :
            /\ loop' = [loop EXCEPT ![k] = "start"]
            /\ ct' = k
        BY <1>1 DEF StartDiscovery
    <2>2. ct' \in 0..MaxStarts BY <2>1 DEF Tokens
    <2> QED BY <1>1, <2>1, <2>2 DEF StartDiscovery, LoopStates
<1>2. CASE StopDiscovery
    BY <1>2 DEF StopDiscovery, Tokens
<1>3. ASSUME NEW k \in Tokens, LoopRequest(k) PROVE TypeOK'
    <2>1. appQ' \in Seq({"Req", "Resp"}) BY <1>3, AppendProperties DEF LoopRequest
    <2> QED BY <1>3, <2>1 DEF LoopRequest, LoopStates
<1>4. ASSUME NEW k \in Tokens, LoopWake(k) PROVE TypeOK'
    BY <1>4 DEF LoopWake, LoopStates
<1>5. ASSUME NEW k \in Tokens, LoopSelectRequest(k) PROVE TypeOK'
    <2>1. appQ' \in Seq({"Req", "Resp"}) BY <1>5, AppendProperties DEF LoopSelectRequest
    <2> QED BY <1>5, <2>1 DEF LoopSelectRequest, LoopStates
<1>6. ASSUME NEW k \in Tokens, LoopSelectCancel(k) PROVE TypeOK'
    BY <1>6 DEF LoopSelectCancel, LoopStates
<1>7. CASE DiscSend
    <2>1. Head(appQ) \in {"Req", "Resp"} /\ Tail(appQ) \in Seq({"Req", "Resp"})
        BY <1>7, HeadTailProperties DEF DiscSend
    <2>2. [kind |-> Head(appQ), src |-> Local] \in Frames
        BY <2>1, SentFrame DEF Nodes
    <2>3. net' \in [Frames -> Nat] BY <1>7, <2>2, CountUp DEF DiscSend
    <2> QED BY <1>7, <2>1, <2>3 DEF DiscSend
<1>8. CASE Forward
    <2>1. toMgr' = Append(toMgr, holding) /\ holding \in Frames BY <1>8 DEF Forward
    <2>2. toMgr' \in Seq(Frames) /\ Len(toMgr') = Len(toMgr) + 1
        BY <2>1, AppendProperties
    <2>3. Len(toMgr') <= Cap BY <1>8, <2>2 DEF Forward
    <2> QED BY <1>8, <2>2, <2>3 DEF Forward
<1>9. CASE MgrHandle
    <2>1. Tail(toMgr) \in Seq(Frames) /\ Len(Tail(toMgr)) = Len(toMgr) - 1
        BY <1>9, HeadTailProperties DEF MgrHandle
    <2>2. appQ' \in Seq({"Req", "Resp"}) BY <1>9, AppendProperties DEF MgrHandle
    <2> QED BY <1>9, <2>1, <2>2 DEF MgrHandle
<1>10. ASSUME NEW f \in Frames, DropEcho(f) PROVE TypeOK'
    BY <1>10, CountDown DEF DropEcho
<1>11. ASSUME NEW f \in Frames, ReadFrame(f) PROVE TypeOK'
    BY <1>11, CountDown DEF ReadFrame
<1>12. ASSUME NEW f \in Frames, Duplicate(f) PROVE TypeOK'
    BY <1>12, CountUp DEF Duplicate
<1>13. ASSUME NEW f \in Frames, Lose(f) PROVE TypeOK'
    BY <1>13, CountDown DEF Lose
<1>14. ASSUME NEW n \in Others, NEW k \in {"Req", "Resp"}, RemoteSend(n, k) PROVE TypeOK'
    <2>1. [kind |-> k, src |-> n] \in Frames BY SentFrame DEF Nodes
    <2> QED BY <1>14, <2>1, CountUp DEF RemoteSend
<1>15. CASE UNCHANGED vars
    BY <1>15 DEF vars
<1> QED
    BY <1>1, <1>2, <1>3, <1>4, <1>5, <1>6, <1>7, <1>8, <1>9, <1>10, <1>11,
       <1>12, <1>13, <1>14, <1>15 DEF Next

LEMMA InitType == Init => TypeOK
<1> SUFFICES ASSUME Init PROVE TypeOK
    OBVIOUS
<1>1. holding \in Frames \cup {None} /\ net \in [Frames -> Nat]
    BY DEF Init
<1>2. appQ \in Seq({"Req", "Resp"}) /\ toMgr \in Seq(Frames) /\ Len(toMgr) <= Cap
    BY DiscoveryAssumption DEF Init
<1>3. loop \in [Tokens -> LoopStates] /\ cancelled \in [Tokens -> BOOLEAN]
    BY DEF Init, LoopStates
<1>4. ct \in 0..MaxStarts /\ remoteSent \in 0..MaxRemote
    BY DiscoveryAssumption DEF Init
<1> QED BY <1>1, <1>2, <1>3, <1>4 DEF TypeOK, Init

(* The discovery state stays typed for every value of the constants; in    *)
(* particular discovery.rs's transport_tx.send(frame).await never lets the *)
(* channel to the manager grow beyond its capacity.                        *)
THEOREM DiscoveryTypeCorrect == Spec => []TypeOK
BY InitType, TypeStep, PTL DEF Spec

-----------------------------------------------------------------------------
(* The echo filter, with one presence loop and no other node on this host. *)
(* The inductive invariant EInv says that at most one PresenceRequest of   *)
(* this node is on its way (queued for sending or in flight back to the    *)
(* socket), that it is on its way only while the loop sleeps, and that     *)
(* just_send_request is set while its echo is in flight.  Two loops (run   *)
(* discovery_restart) break the first and the third; a second node behind *)
(* this host's address (run discovery_same_host) lets the filter take its  *)
(* request for the echo, so the echo itself is forwarded.                  *)

HasReq(q) == \E i \in 1..Len(q) : q[i] = "Req"
UniqueReq(q) == \A i, j \in 1..Len(q) : q[i] = "Req" /\ q[j] = "Req" => i = j

OneOwnRequest ==
    /\ UniqueReq(appQ)
    /\ HasReq(appQ) => net[OwnReq] = 0
    /\ net[OwnReq] <= 1

EchoFlagged == net[OwnReq] > 0 => justSent

LoopAccounts == OwnRequestInFlight => \E k \in Tokens : loop[k] = "sleeping"

EInv == TypeOK /\ holding # OwnReq /\ OneOwnRequest /\ EchoFlagged /\ LoopAccounts

LEMMA AppendResp ==
    ASSUME NEW q \in Seq({"Req", "Resp"}), UniqueReq(q)
    PROVE  /\ HasReq(Append(q, "Resp")) = HasReq(q)
           /\ UniqueReq(Append(q, "Resp"))
BY AppendProperties DEF HasReq, UniqueReq

LEMMA AppendReq ==
    ASSUME NEW q \in Seq({"Req", "Resp"}), ~HasReq(q)
    PROVE  HasReq(Append(q, "Req")) /\ UniqueReq(Append(q, "Req"))
BY AppendProperties DEF HasReq, UniqueReq

LEMMA TailReq ==
    ASSUME NEW q \in Seq({"Req", "Resp"}), q # <<>>, UniqueReq(q)
    PROVE  /\ UniqueReq(Tail(q))
           /\ HasReq(Tail(q)) => HasReq(q)
           /\ Head(q) = "Req" => ~HasReq(Tail(q))
           /\ Head(q) # "Req" => HasReq(Tail(q)) = HasReq(q)
<1>1. Head(q) = q[1] OBVIOUS
<1> QED BY <1>1, HeadTailProperties DEF HasReq, UniqueReq

(* With no other node on this host, the only datagram the filter takes for *)
(* an echo is this node's own PresenceRequest.                             *)
LEMMA EchoIsOwn ==
    ASSUME SameHost = {}, NEW f \in Frames, IsEcho(f)
    PROVE  f = OwnReq
BY DEF IsEcho, Addr, Frames, OwnReq

LEMMA OwnReqFrame == OwnReq \in Frames
BY DEF OwnReq, Frames, Nodes
LEMMA EInvStep ==
    ASSUME SameHost = {}, MaxStarts <= 1, EInv, [Next]_vars
    PROVE  EInv'
<1> USE DiscoveryAssumption DEF EInv
<1>0. TypeOK' BY TypeStep
<1>1. /\ \A k1, k2 \in Tokens : k1 = k2
      /\ OwnReq \in Frames
      /\ net[OwnReq] \in Nat
      /\ appQ \in Seq({"Req", "Resp"})
    BY OwnReqFrame DEF Tokens, TypeOK
<1>2. OwnRequestInFlight = (HasReq(appQ) \/ net[OwnReq] > 0)
    BY DEF OwnRequestInFlight, HasReq
<1>3. OwnRequestInFlight' = (HasReq(appQ') \/ net'[OwnReq] > 0)
    BY DEF OwnRequestInFlight, HasReq
(* A loop that is not sleeping has no request of this node on its way.     *)
<1>4. ASSUME NEW k \in Tokens, loop[k] # "sleeping"
      PROVE  ~HasReq(appQ) /\ net[OwnReq] = 0
    <2>1. ~\E j \in Tokens : loop[j] = "sleeping" BY <1>1, <1>4
    <2>2. ~OwnRequestInFlight BY <2>1 DEF LoopAccounts
    <2>3. ~HasReq(appQ) /\ ~(net[OwnReq] > 0) BY <1>2, <2>2
    <2> QED BY <1>1, <2>3
<1>5. CASE StartDiscovery
    <2>1. PICK k \in Tokens \ Started : loop' = [loop EXCEPT ![k] = "start"]
        BY <1>5 DEF StartDiscovery
    <2>2. loop[k] = "none" BY <2>1 DEF Started
    <2>3. ~HasReq(appQ) /\ net[OwnReq] = 0 BY <1>4, <2>2
    <2>4. ~OwnRequestInFlight' BY <1>5, <2>3 DEF StartDiscovery, OwnRequestInFlight, HasReq
    <2>5. ~OwnRequestInFlight' BY <2>4
    <2> QED BY <1>0, <1>5, <2>5 DEF StartDiscovery, OneOwnRequest, EchoFlagged, LoopAccounts
<1>6. CASE StopDiscovery
    BY <1>0, <1>6 DEF StopDiscovery, OneOwnRequest, EchoFlagged, LoopAccounts, OwnRequestInFlight
<1>7. ASSUME NEW k \in Tokens, LoopRequest(k) \/ LoopSelectRequest(k) PROVE EInv'
    <2>1. /\ loop[k] \in {"start", "select"}
          /\ appQ' = Append(appQ, "Req")
          /\ loop' = [loop EXCEPT ![k] = "sleeping"]
          /\ UNCHANGED <<net, justSent, holding, toMgr, cancelled, ct, remoteSent>>
        BY <1>7 DEF LoopRequest, LoopSelectRequest
    <2>2. ~HasReq(appQ) /\ net[OwnReq] = 0 BY <1>4, <2>1
    <2>3. HasReq(appQ') /\ UniqueReq(appQ') BY <1>1, <2>1, <2>2, AppendReq
    <2>4. loop'[k] = "sleeping" BY <2>1 DEF TypeOK
    <2> QED BY <1>0, <2>1, <2>2, <2>3, <2>4 DEF OneOwnRequest, EchoFlagged, LoopAccounts
<1>8. ASSUME NEW k \in Tokens, LoopWake(k) \/ LoopSelectCancel(k) PROVE EInv'
    <2>1. ~OwnRequestInFlight'
        <3>1. loop[k] # "sleeping" \/ ~OwnRequestInFlight
            BY <1>8 DEF LoopWake, LoopSelectCancel
        <3>2. UNCHANGED <<appQ, net>> BY <1>8 DEF LoopWake, LoopSelectCancel
        <3>3. CASE loop[k] # "sleeping"
            <4>1. ~HasReq(appQ) /\ net[OwnReq] = 0 BY <1>4, <3>3
            <4> QED BY <4>1, <3>2 DEF OwnRequestInFlight, HasReq
        <3>4. CASE ~OwnRequestInFlight
            BY <3>4, <3>2 DEF OwnRequestInFlight
        <3> QED BY <3>1, <3>3, <3>4
    <2> QED BY <1>0, <1>8, <2>1 DEF LoopWake, LoopSelectCancel, OneOwnRequest, EchoFlagged,
                                   LoopAccounts
<1>9. CASE DiscSend
    <2>1. appQ # <<>> /\ appQ' = Tail(appQ) /\ UNCHANGED <<holding, loop>>
        BY <1>9 DEF DiscSend
    <2>2. DEFINE g == [kind |-> Head(appQ), src |-> Local]
    <2>3. /\ Head(appQ) \in {"Req", "Resp"}
          /\ g \in Frames
          /\ net' = [net EXCEPT ![g] = @ + 1]
          /\ justSent' = (justSent \/ Head(appQ) = "Req")
        BY <1>9, <1>1, HeadTailProperties DEF DiscSend, Frames, Nodes
    <2>4. UniqueReq(appQ') BY <1>1, <2>1, TailReq DEF OneOwnRequest
    <2>5. CASE Head(appQ) = "Req"
        <3>1. g = OwnReq BY <2>5 DEF OwnReq
        <3>2. HasReq(appQ) /\ ~HasReq(appQ')
            <4>1. Head(appQ) = appQ[1] OBVIOUS
            <4> QED BY <2>5, <4>1, <1>1, <2>1, TailReq, HeadTailProperties DEF OneOwnRequest, HasReq
        <3>3. net[OwnReq] = 0 BY <3>2 DEF OneOwnRequest
        <3>4. net'[OwnReq] = 1 BY <1>1, <2>3, <3>1, <3>3 DEF TypeOK
        <3>5. justSent' BY <2>3, <2>5
        <3>6. \E k \in Tokens : loop'[k] = "sleeping"
            BY <1>2, <2>1, <3>2 DEF LoopAccounts
        <3> QED BY <1>0, <2>1, <2>4, <3>2, <3>4, <3>5, <3>6 DEF OneOwnRequest, EchoFlagged,
                                                          LoopAccounts
    <2>6. CASE Head(appQ) # "Req"
        <3>1. g # OwnReq BY <2>6 DEF OwnReq
        <3>2. net'[OwnReq] = net[OwnReq] /\ justSent' = justSent
            BY <1>1, <2>3, <2>6, <3>1 DEF TypeOK
        <3>3. HasReq(appQ') = HasReq(appQ) BY <1>1, <2>1, <2>6, TailReq DEF OneOwnRequest
        <3> QED BY <1>0, <1>2, <1>3, <2>1, <2>4, <3>2, <3>3 DEF OneOwnRequest, EchoFlagged,
                                                          LoopAccounts
    <2> QED BY <2>5, <2>6
<1>10. CASE Forward
    <2>1. holding' # OwnReq BY <1>10, <1>1, NoneAssumption DEF Forward
    <2> QED BY <1>0, <1>10, <2>1 DEF Forward, OneOwnRequest, EchoFlagged, LoopAccounts,
                                     OwnRequestInFlight
<1>11. CASE MgrHandle
    <2>1. UNCHANGED <<net, justSent, holding, loop>> BY <1>11 DEF MgrHandle
    <2>2. UniqueReq(appQ') /\ HasReq(appQ') = HasReq(appQ)
        <3>1. CASE Head(toMgr).kind = "Req"
            BY <1>1, <1>11, <3>1, AppendResp DEF MgrHandle, OneOwnRequest
        <3>2. CASE Head(toMgr).kind # "Req"
            BY <1>11, <3>2 DEF MgrHandle, OneOwnRequest
        <3> QED BY <3>1, <3>2
    <2> QED BY <1>0, <1>2, <1>3, <2>1, <2>2 DEF OneOwnRequest, EchoFlagged, LoopAccounts
<1>12. ASSUME NEW f \in Frames, DropEcho(f) PROVE EInv'
    <2>1. f = OwnReq BY <1>12, EchoIsOwn DEF DropEcho
    <2>2. net[OwnReq] = 1 /\ net'[OwnReq] = 0 /\ ~HasReq(appQ)
        BY <1>12, <1>1, <2>1 DEF DropEcho, OneOwnRequest, TypeOK
    <2>3. ~OwnRequestInFlight' BY <1>12, <2>2 DEF DropEcho, OwnRequestInFlight, HasReq
    <2> QED BY <1>0, <1>12, <2>2, <2>3 DEF DropEcho, OneOwnRequest, EchoFlagged, LoopAccounts
<1>13. ASSUME NEW f \in Frames, ReadFrame(f) PROVE EInv'
    <2>1. f # OwnReq
        <3>1. justSent => IsEcho(OwnReq) BY DiscoveryAssumption DEF IsEcho, OwnReq, Addr
        <3> QED BY <1>13, <3>1 DEF ReadFrame, EchoFlagged
    <2>2. net'[OwnReq] = net[OwnReq] BY <1>13, <1>1, <2>1 DEF ReadFrame, TypeOK
    <2> QED BY <1>0, <1>2, <1>3, <1>13, <2>1, <2>2 DEF ReadFrame, OneOwnRequest, EchoFlagged,
                                                  LoopAccounts
<1>14. ASSUME NEW f \in Frames, Duplicate(f) PROVE EInv'
    <2>1. f # OwnReq BY <1>14 DEF Duplicate, OwnReq
    <2>2. net'[OwnReq] = net[OwnReq] BY <1>14, <1>1, <2>1 DEF Duplicate, TypeOK
    <2> QED BY <1>0, <1>2, <1>3, <1>14, <2>2 DEF Duplicate, OneOwnRequest, EchoFlagged,
                                            LoopAccounts
<1>15. ASSUME NEW f \in Frames, Lose(f) PROVE EInv'
    <2>1. net'[OwnReq] <= net[OwnReq] /\ net'[OwnReq] \in Nat
        BY <1>15, <1>1 DEF Lose, TypeOK
    <2>2. UNCHANGED <<appQ, justSent, holding, loop>> BY <1>15 DEF Lose
    <2>3. OneOwnRequest' BY <1>1, <2>1, <2>2 DEF OneOwnRequest
    <2>4. EchoFlagged' BY <1>1, <2>1, <2>2 DEF EchoFlagged
    <2>5. OwnRequestInFlight' => OwnRequestInFlight BY <1>1, <2>1, <2>2 DEF OwnRequestInFlight
    <2>6. LoopAccounts' BY <2>2, <2>5 DEF LoopAccounts
    <2> QED BY <1>0, <2>2, <2>3, <2>4, <2>6
<1>16. ASSUME NEW n \in Others, NEW k \in {"Req", "Resp"}, RemoteSend(n, k) PROVE EInv'
    <2>1. [kind |-> k, src |-> n] # OwnReq /\ [kind |-> k, src |-> n] \in Frames
        BY DEF OwnReq, Frames, Nodes
    <2>2. net'[OwnReq] = net[OwnReq] BY <1>16, <1>1, <2>1 DEF RemoteSend, TypeOK
    <2> QED BY <1>0, <1>2, <1>3, <1>16, <2>2 DEF RemoteSend, OneOwnRequest, EchoFlagged,
                                            LoopAccounts
<1>17. CASE UNCHANGED vars
    BY <1>0, <1>17 DEF vars, OneOwnRequest, EchoFlagged, LoopAccounts, OwnRequestInFlight
<1> QED
    BY <1>5, <1>6, <1>7, <1>8, <1>9, <1>10, <1>11, <1>12, <1>13, <1>14, <1>15, <1>16,
       <1>17 DEF Next
LEMMA InitEInv == Init => EInv
<1> SUFFICES ASSUME Init PROVE EInv
    OBVIOUS
<1>1. TypeOK BY InitType
<1>2. net[OwnReq] = 0 /\ holding # OwnReq /\ ~HasReq(appQ)
    BY OwnReqFrame, NoneAssumption DEF Init, HasReq
<1> QED BY <1>1, <1>2 DEF EInv, OneOwnRequest, UniqueReq, EchoFlagged, LoopAccounts,
                          OwnRequestInFlight, HasReq, Init

(* With one presence loop and no other node behind this host's address,   *)
(* the discovery task of discovery.rs never forwards this node's own       *)
(* PresenceRequest to the manager (spec section 8, property 3): its echo   *)
(* always finds just_send_request set and is dropped.                      *)
THEOREM OwnRequestNeverForwarded ==
    ASSUME SameHost = {}, MaxStarts <= 1
    PROVE  Spec => NoOwnRequestForwarded
<1>1. EInv /\ [Next]_vars => [holding' # OwnReq]_vars
    BY EInvStep DEF EInv
<1> QED BY InitEInv, EInvStep, <1>1, PTL DEF Spec, NoOwnRequestForwarded
=============================================================================
