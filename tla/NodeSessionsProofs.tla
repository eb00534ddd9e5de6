------------------------- MODULE NodeSessionsProofs -------------------------
(***************************************************************************)
(* Proofs about the session handling of node.rs (module NodeSessions).     *)
(*                                                                         *)
(* handle_event keys an inbound session's reply channel by the session id  *)
(* the remote chose, and every node's counter starts at 1.  With two       *)
(* remotes the ids collide (run node_ack_collision).  With one remote r    *)
(* the ids r sends are fresh, and then each session gets at most one final *)
(* answer and every prompt the user has not answered still leads to r.     *)
(* The theorems below prove this for every MaxId and MaxQueue.             *)
(*                                                                         *)
(* The invariants are not inductive by themselves: a HandleInbound for an  *)
(* id that already had a session would break both.  IInv adds what makes  *)
(* each id's lifecycle start clean: ids at or beyond r's counter, and ids  *)
(* still queued on the internal channel, have no entry, no prompt and no   *)
(* answer yet, and the queued ids are distinct.                            *)
(***************************************************************************)
EXTENDS NodeSessions, SequenceTheorems, TLAPS

(* Session id i of remote r has not started: no entry, no prompt, no answer.*)
Fresh(r, i) ==
    /\ sessions[i] = None
    /\ <<r, i>> \notin prompts
    /\ finals[<<r, i>>] = 0

Inbound(j) == internal[j].kind = "inbound"

\* The ids r has not used yet are fresh.
IdsAhead(r) == \A i \in Ids : i >= rNext[r] => Fresh(r, i)

\* A session request still queued was sent before and is fresh.
QueuedFresh(r) ==
    \A j \in 1..Len(internal) :
        Inbound(j) => internal[j].id < rNext[r] /\ Fresh(r, internal[j].id)

\* No two queued session requests carry the same id.
QueuedDistinct ==
    \A j, k \in 1..Len(internal) :
        (Inbound(j) /\ Inbound(k) /\ j # k) => internal[j].id # internal[k].id

\* A prompt whose session is still in the map has had no final answer.
OpenPromptUnanswered(r) ==
    \A i \in Ids : (<<r, i>> \in prompts /\ sessions[i] # None) => finals[<<r, i>>] = 0

IInv(r) ==
    /\ TypeOK
    /\ IdsAhead(r)
    /\ QueuedFresh(r)
    /\ QueuedDistinct
    /\ OpenPromptUnanswered(r)
    /\ AtMostOneFinalReply
    /\ PromptAnswerable

-----------------------------------------------------------------------------
(* Facts about the events of the internal channel.                         *)

LEMMA InboundFields ==
    ASSUME NEW e \in Events, e.kind = "inbound"
    PROVE  e.peer \in Peers /\ e.id \in Ids
BY DEF Events, InboundSession, SessionResult

LEMMA ResultFields ==
    ASSUME NEW e \in Events, e.kind = "result"
    PROVE  e.id \in Ids /\ e.status \in Statuses
BY DEF Events, InboundSession, SessionResult

LEMMA FinalToType ==
    ASSUME finals \in [Peers \X Ids -> 0..MaxCount], NEW r \in Peers, NEW i \in Ids,
           FinalTo(r, i)
    PROVE  finals' \in [Peers \X Ids -> 0..MaxCount]
BY DEF FinalTo, Bump, MaxCount

-----------------------------------------------------------------------------
LEMMA TypeStep == TypeOK /\ [Next]_vars => TypeOK'
<1> SUFFICES ASSUME TypeOK, [Next]_vars PROVE TypeOK'
    OBVIOUS
<1> USE NodeAssumption DEF TypeOK, Ids
<1>1. CASE GetConf
    BY <1>1 DEF GetConf
<1>2. ASSUME NEW p \in Peers, SendPeer(p) PROVE TypeOK'
    <2>1. CASE p \in connected BY <1>2, <2>1 DEF SendPeer
    <2>2. CASE p \notin connected
        <3>1. sessionId' \in 0..MaxId /\ outstanding' \subseteq Peers \X Ids
            BY <1>2, <2>2 DEF SendPeer
        <3> QED BY <1>2, <2>2, <3>1 DEF SendPeer
    <2> QED BY <2>1, <2>2
<1>3. ASSUME NEW p \in Peers, Pair(p) PROVE TypeOK'
    <2>1. conf' \in Configs BY <1>3 DEF Pair, Configs
    <2>2. disk' \in Configs /\ mgrKnown' \subseteq Peers BY <1>3, <2>1 DEF Pair, Store
    <2> QED BY <1>3, <2>1, <2>2 DEF Pair, Configs
<1>4. ASSUME NEW auto \in BOOLEAN, SetConfig(auto) PROVE TypeOK'
    BY <1>4 DEF SetConfig, Store, Configs
<1>5. ASSUME NEW p \in Peers, NEW i \in Ids, Ack(p, i) PROVE TypeOK'
    <2>1. sessions[i] \in Peers BY <1>5 DEF Ack
    <2>2. finals' \in [Peers \X Ids -> 0..MaxCount] BY <1>5, <2>1, FinalToType DEF Ack
    <2>3. acks' \subseteq [for : Peers, to : Peers, id : Ids] BY <1>5, <2>1 DEF Ack
    <2> QED BY <1>5, <2>2, <2>3 DEF Ack
<1>6. CASE HandleInbound
    <2> DEFINE e == Head(internal)
    <2>1. e \in Events /\ Tail(internal) \in Seq(Events)
        BY <1>6, HeadTailProperties DEF HandleInbound
    <2>2. e.peer \in Peers /\ e.id \in Ids BY <1>6, <2>1, InboundFields DEF HandleInbound
    <2>3. finals' \in [Peers \X Ids -> 0..MaxCount]
        BY <1>6, <2>2, FinalToType DEF HandleInbound
    <2>4. sessions' \in [Ids -> Peers \cup {None}] BY <1>6, <2>2 DEF HandleInbound
    <2>5. prompts' \subseteq Peers \X Ids BY <1>6, <2>2 DEF HandleInbound
    <2>6. internal' \in Seq(Events) BY <1>6, <2>1 DEF HandleInbound
    <2> QED BY <1>6, <2>3, <2>4, <2>5, <2>6 DEF HandleInbound
<1>7. CASE HandleResult
    BY <1>7, HeadTailProperties DEF HandleResult
<1>8. ASSUME NEW p \in Peers,
             PeerConnected(p) \/ ServerClose(p) \/ ClientClose(p)
      PROVE TypeOK'
    <2>1. CASE PeerConnected(p) BY <2>1 DEF PeerConnected
    <2>2. CASE ServerClose(p) BY <2>2 DEF ServerClose
    <2>3. CASE ClientClose(p) BY <2>3 DEF ClientClose
    <2> QED BY <1>8, <2>1, <2>2, <2>3
<1>9. ASSUME NEW p \in Peers, RemoteRequest(p) PROVE TypeOK'
    <2>0. rNext[p] \in Ids BY <1>9 DEF RemoteRequest, Ids
    <2>1. InboundSession(p, rNext[p]) \in Events BY <2>0 DEF Events
    <2>2. internal' \in Seq(Events) BY <1>9, <2>1, AppendProperties DEF RemoteRequest
    <2>3. rNext' \in [Peers -> 1..(MaxId + 1)] BY <1>9, <2>0 DEF RemoteRequest
    <2> QED BY <1>9, <2>2, <2>3 DEF RemoteRequest
<1>10. ASSUME NEW p \in Peers, RemoteAnswer(p) PROVE TypeOK'
    <2>1. PICK i \in Ids, st \in Statuses :
            /\ <<p, i>> \in outstanding
            /\ internal' = Append(internal, SessionResult(p, i, st))
            /\ outstanding' = IF st = "Waiting" THEN outstanding
                              ELSE outstanding \ {<<p, i>>}
        BY <1>10 DEF RemoteAnswer
    <2>2. SessionResult(p, i, st) \in Events BY DEF Events
    <2> QED BY <1>10, <2>1, <2>2, AppendProperties DEF RemoteAnswer
<1>11. CASE UNCHANGED vars
    BY <1>11 DEF vars
<1> QED
    BY <1>1, <1>2, <1>3, <1>4, <1>5, <1>6, <1>7, <1>8, <1>9, <1>10, <1>11
    DEF Next, NodeStep, RemoteStep

(* Every state of the node is well typed, for any set of remotes.          *)
THEOREM NodeTypeCorrect == Spec => []TypeOK
<1>1. Init => TypeOK
    BY NodeAssumption DEF Init, TypeOK, Configs, Ids, MaxCount
<1> QED BY <1>1, TypeStep, PTL DEF Spec
-----------------------------------------------------------------------------
(* The steps of IInv(r), with r the only remote.                           *)

\* The steps that leave the session state alone keep IInv.
LEMMA SessionFrame ==
    ASSUME NEW r, IInv(r), TypeOK',
           UNCHANGED <<sessions, prompts, finals, internal, rNext, acks>>
    PROVE  IInv(r)'
BY DEF IInv, IdsAhead, QueuedFresh, QueuedDistinct, OpenPromptUnanswered,
       AtMostOneFinalReply, PromptAnswerable, Acked, Fresh, Inbound

LEMMA AckStep ==
    ASSUME NEW r, Peers = {r}, IInv(r), TypeOK',
           NEW p \in Peers, NEW i \in Ids, Ack(p, i)
    PROVE  IInv(r)'
<1> USE NodeAssumption DEF IInv, TypeOK, Ids
<1>1. p = r /\ sessions[i] = r /\ <<r, i>> \in prompts
    BY DEF Ack
<1>2. i < rNext[r]
    BY <1>1 DEF IdsAhead, Fresh
<1>3. finals[<<r, i>>] = 0
    BY <1>1 DEF OpenPromptUnanswered
<1>4. /\ sessions' = [sessions EXCEPT ![i] = None]
      /\ finals' = IF r \in serving THEN [finals EXCEPT ![<<r, i>>] = Bump(@)] ELSE finals
      /\ acks' = acks \cup {[for |-> r, to |-> r, id |-> i]}
      /\ UNCHANGED <<prompts, internal, rNext>>
    BY <1>1 DEF Ack, FinalTo
<1>5. \A k \in Ids : k # i => sessions'[k] = sessions[k] /\ finals'[<<r, k>>] = finals[<<r, k>>]
    BY <1>4
<1>6. finals'[<<r, i>>] <= 1
    BY <1>3, <1>4 DEF Bump, MaxCount
<1>7. IdsAhead(r)'
    BY <1>2, <1>4, <1>5 DEF IdsAhead, Fresh
<1>8. QueuedFresh(r)'
    <2>1. \A j \in 1..Len(internal) : Inbound(j) => internal[j].id # i
        BY <1>1 DEF QueuedFresh, Fresh
    <2>2. \A j \in 1..Len(internal) : Inbound(j) => internal[j].id \in Ids
        BY InboundFields DEF Inbound
    <2> QED BY <1>4, <1>5, <2>1, <2>2 DEF QueuedFresh, Fresh, Inbound
<1>9. QueuedDistinct'
    BY <1>4 DEF QueuedDistinct, Inbound
<1>10. OpenPromptUnanswered(r)'
    BY <1>4, <1>5 DEF OpenPromptUnanswered
<1>11. AtMostOneFinalReply'
    BY <1>4, <1>6 DEF AtMostOneFinalReply
<1>12. PromptAnswerable'
    <2> SUFFICES ASSUME NEW pr \in prompts', ~Acked(pr)' PROVE sessions'[pr[2]] = pr[1]
        BY DEF PromptAnswerable
    <2>1. pr[1] = r /\ pr[2] \in Ids /\ pr = <<r, pr[2]>>
        <3>1. pr \in Peers \X Ids BY <1>4
        <3> QED BY <3>1
    <2>2. pr[2] # i
        <3>1. [for |-> r, to |-> r, id |-> i] \in acks' BY <1>4
        <3> QED BY <3>1, <2>1 DEF Acked
    <2>3. ~Acked(pr)
        BY <1>4 DEF Acked
    <2> QED BY <1>4, <1>5, <2>1, <2>2, <2>3 DEF PromptAnswerable
<1> QED BY <1>7, <1>8, <1>9, <1>10, <1>11, <1>12
\* Dequeuing shifts the queue by one: the facts the Tail steps need.
LEMMA TailShift ==
    ASSUME NEW q \in Seq(Events), q # <<>>
    PROVE  /\ Tail(q) \in Seq(Events)
           /\ Len(Tail(q)) = Len(q) - 1
           /\ \A j \in 1..Len(Tail(q)) : Tail(q)[j] = q[j + 1] /\ j + 1 \in 1..Len(q)
           /\ Head(q) = q[1] /\ 1 \in 1..Len(q)
<1>1. Head(q) = q[1] OBVIOUS
<1> QED BY <1>1, HeadTailProperties

LEMMA HandleInboundStep ==
    ASSUME NEW r, Peers = {r}, IInv(r), TypeOK', HandleInbound
    PROVE  IInv(r)'
<1> USE NodeAssumption DEF IInv, TypeOK, Ids
<1> DEFINE i == internal[1].id
<1>1. /\ internal # <<>>
      /\ Inbound(1) /\ 1 \in 1..Len(internal)
      /\ internal[1].peer = r /\ i \in Ids
      /\ Tail(internal) \in Seq(Events)
      /\ Len(Tail(internal)) = Len(internal) - 1
      /\ \A j \in 1..Len(Tail(internal)) :
            Tail(internal)[j] = internal[j + 1] /\ j + 1 \in 1..Len(internal)
    <2>1. internal # <<>> /\ Head(internal).kind = "inbound" BY DEF HandleInbound
    <2>2. Head(internal) = internal[1] /\ 1 \in 1..Len(internal) BY <2>1, TailShift
    <2>3. internal[1].peer \in Peers /\ i \in Ids BY <2>1, <2>2, InboundFields
    <2> QED BY <2>1, <2>2, <2>3, TailShift DEF Inbound
<1>2. Fresh(r, i) /\ i < rNext[r]
    BY <1>1 DEF QueuedFresh
<1>3. \A j \in 2..Len(internal) : Inbound(j) => internal[j].id # i
    BY <1>1 DEF QueuedDistinct
<1>4. /\ sessions' = [sessions EXCEPT ![i] = r]
      /\ internal' = Tail(internal)
      /\ UNCHANGED <<rNext, acks>>
      /\ \/ /\ conf.auto
            /\ finals' = IF r \in serving THEN [finals EXCEPT ![<<r, i>>] = Bump(@)] ELSE finals
            /\ prompts' = prompts
         \/ /\ ~conf.auto
            /\ prompts' = prompts \cup {<<r, i>>}
            /\ finals' = finals
    <2>1. Head(internal) = internal[1] BY <1>1
    <2>2. CASE conf.auto BY <1>1, <2>1, <2>2 DEF HandleInbound, FinalTo
    <2>3. CASE ~conf.auto BY <1>1, <2>1, <2>3 DEF HandleInbound
    <2> QED BY <2>2, <2>3
<1>5. \A k \in Ids : k # i =>
        /\ sessions'[k] = sessions[k]
        /\ finals'[<<r, k>>] = finals[<<r, k>>]
        /\ (<<r, k>> \in prompts') = (<<r, k>> \in prompts)
    <2> SUFFICES ASSUME NEW k \in Ids, k # i
                 PROVE  /\ sessions'[k] = sessions[k]
                        /\ finals'[<<r, k>>] = finals[<<r, k>>]
                        /\ (<<r, k>> \in prompts') = (<<r, k>> \in prompts)
        OBVIOUS
    <2>1. <<r, k>> # <<r, i>> OBVIOUS
    <2>2. sessions'[k] = sessions[k] BY <1>4
    <2>3. finals'[<<r, k>>] = finals[<<r, k>>]
        <3>1. <<r, k>> \in Peers \X Ids /\ <<r, i>> \in Peers \X Ids BY <1>1
        <3>2. CASE conf.auto /\ r \in serving
            <4>1. finals' = [finals EXCEPT ![<<r, i>>] = Bump(@)] BY <1>4, <3>2
            <4> QED BY <4>1, <3>1, <2>1
        <3>3. CASE ~(conf.auto /\ r \in serving)
            BY <1>4, <3>3
        <3> QED BY <3>2, <3>3
    <2>4. (<<r, k>> \in prompts') = (<<r, k>> \in prompts)
        <3>1. prompts' = prompts \/ prompts' = prompts \cup {<<r, i>>} BY <1>4
        <3>2. CASE prompts' = prompts BY <3>2
        <3>3. CASE prompts' = prompts \cup {<<r, i>>} BY <3>3, <2>1
        <3> QED BY <3>1, <3>2, <3>3
    <2> QED BY <2>2, <2>3, <2>4
<1>6. IdsAhead(r)'
    <2> SUFFICES ASSUME NEW k \in Ids, k >= rNext'[r] PROVE Fresh(r, k)'
        BY DEF IdsAhead
    <2>1. k # i /\ k >= rNext[r] BY <1>1, <1>2, <1>4
    <2>2. Fresh(r, k) BY <2>1 DEF IdsAhead
    <2> QED BY <2>1, <2>2, <1>5 DEF Fresh
<1>7. QueuedFresh(r)'
    <2> SUFFICES ASSUME NEW j \in 1..Len(internal'), Inbound(j)'
                 PROVE  (internal[j].id < rNext[r] /\ Fresh(r, internal[j].id))'
        BY DEF QueuedFresh
    <2>0. j \in 1..Len(Tail(internal)) BY <1>4
    <2>1. internal'[j] = internal[j + 1] /\ j + 1 \in 2..Len(internal)
        BY <1>1, <1>4, <2>0
    <2>2. Inbound(j + 1) BY <2>1 DEF Inbound
    <2>3. internal[j + 1].id # i /\ internal[j + 1].id \in Ids
        BY <1>3, <2>1, <2>2, InboundFields DEF Inbound
    <2>4. internal[j + 1].id < rNext[r] /\ Fresh(r, internal[j + 1].id)
        BY <2>1, <2>2 DEF QueuedFresh
    <2>5. /\ rNext'[r] = rNext[r]
          /\ sessions'[internal[j + 1].id] = sessions[internal[j + 1].id]
          /\ finals'[<<r, internal[j + 1].id>>] = finals[<<r, internal[j + 1].id>>]
          /\ (<<r, internal[j + 1].id>> \in prompts') = (<<r, internal[j + 1].id>> \in prompts)
        BY <1>4, <1>5, <2>3
    <2> QED BY <2>1, <2>4, <2>5 DEF Fresh
<1>8. QueuedDistinct'
    <2> SUFFICES ASSUME NEW j \in 1..Len(internal'), NEW k \in 1..Len(internal'),
                        Inbound(j)', Inbound(k)', j # k
                 PROVE  internal'[j].id # internal'[k].id
        BY DEF QueuedDistinct
    <2>0. j \in 1..Len(Tail(internal)) /\ k \in 1..Len(Tail(internal)) BY <1>4
    <2>1. internal'[j] = internal[j + 1] /\ internal'[k] = internal[k + 1]
          /\ j + 1 \in 1..Len(internal) /\ k + 1 \in 1..Len(internal)
        <3>1. internal' = Tail(internal) BY <1>4
        <3>2. Tail(internal)[j] = internal[j + 1] /\ j + 1 \in 1..Len(internal) BY <1>1, <2>0
        <3>3. Tail(internal)[k] = internal[k + 1] /\ k + 1 \in 1..Len(internal) BY <1>1, <2>0
        <3> QED BY <3>1, <3>2, <3>3
    <2>2. Inbound(j + 1) /\ Inbound(k + 1) /\ j + 1 # k + 1 BY <2>0, <2>1 DEF Inbound
    <2> QED BY <2>1, <2>2 DEF QueuedDistinct
<1>9. OpenPromptUnanswered(r)'
    <2> SUFFICES ASSUME NEW k \in Ids, <<r, k>> \in prompts', sessions'[k] # None
                 PROVE  finals'[<<r, k>>] = 0
        BY DEF OpenPromptUnanswered
    <2>1. CASE k = i
        <3>1. CASE conf.auto BY <1>2, <1>4, <2>1, <3>1 DEF Fresh
        <3>2. CASE ~conf.auto BY <1>2, <1>4, <2>1, <3>2 DEF Fresh
        <3> QED BY <3>1, <3>2
    <2>2. CASE k # i BY <1>5, <2>2 DEF OpenPromptUnanswered
    <2> QED BY <2>1, <2>2
<1>10. AtMostOneFinalReply'
    <2>1. finals'[<<r, i>>] <= 1 BY <1>2, <1>4 DEF Fresh, Bump, MaxCount
    <2> QED BY <1>4, <2>1 DEF AtMostOneFinalReply
<1>11. PromptAnswerable'
    <2> SUFFICES ASSUME NEW pr \in prompts', ~Acked(pr)' PROVE sessions'[pr[2]] = pr[1]
        BY DEF PromptAnswerable
    <2>1. pr[1] = r /\ pr[2] \in Ids /\ pr = <<r, pr[2]>>
        <3>1. pr \in Peers \X Ids OBVIOUS
        <3> QED BY <3>1
    <2>2. CASE pr[2] = i
        <3>1. sessions'[i] = r BY <1>1, <1>4
        <3> QED BY <3>1, <2>1, <2>2
    <2>3. CASE pr[2] # i
        <3>1. pr \in prompts BY <1>4, <2>1, <2>3
        <3>2. ~Acked(pr) BY <1>4 DEF Acked
        <3> QED BY <1>5, <2>1, <2>3, <3>1, <3>2 DEF PromptAnswerable
    <2> QED BY <2>2, <2>3
<1> QED BY <1>6, <1>7, <1>8, <1>9, <1>10, <1>11
LEMMA HandleResultStep ==
    ASSUME NEW r, IInv(r), TypeOK', HandleResult
    PROVE  IInv(r)'
<1> USE DEF IInv, TypeOK
<1>1. /\ internal # <<>>
      /\ internal' = Tail(internal)
      /\ Len(internal') = Len(internal) - 1
      /\ \A j \in 1..Len(internal') : internal'[j] = internal[j + 1] /\ j + 1 \in 1..Len(internal)
      /\ UNCHANGED <<sessions, prompts, finals, rNext, acks>>
    BY TailShift DEF HandleResult
<1>2. QueuedFresh(r)'
    <2> SUFFICES ASSUME NEW j \in 1..Len(internal'), Inbound(j)'
                 PROVE  (internal[j].id < rNext[r] /\ Fresh(r, internal[j].id))'
        BY DEF QueuedFresh
    <2>1. internal'[j] = internal[j + 1] /\ j + 1 \in 1..Len(internal) BY <1>1
    <2>2. Inbound(j + 1) BY <2>1 DEF Inbound
    <2> QED BY <1>1, <2>1, <2>2 DEF QueuedFresh, Fresh
<1>3. QueuedDistinct'
    <2> SUFFICES ASSUME NEW j \in 1..Len(internal'), NEW k \in 1..Len(internal'),
                        Inbound(j)', Inbound(k)', j # k
                 PROVE  internal'[j].id # internal'[k].id
        BY DEF QueuedDistinct
    <2>1. internal'[j] = internal[j + 1] /\ internal'[k] = internal[k + 1]
          /\ j + 1 \in 1..Len(internal) /\ k + 1 \in 1..Len(internal)
        BY <1>1
    <2>2. Inbound(j + 1) /\ Inbound(k + 1) /\ j + 1 # k + 1 BY <2>1 DEF Inbound
    <2> QED BY <2>1, <2>2 DEF QueuedDistinct
<1> QED BY <1>1, <1>2, <1>3
        DEF IdsAhead, OpenPromptUnanswered, AtMostOneFinalReply, PromptAnswerable,
            Acked, Fresh

LEMMA RemoteRequestStep ==
    ASSUME NEW r, Peers = {r}, IInv(r), TypeOK', NEW p \in Peers, RemoteRequest(p)
    PROVE  IInv(r)'
<1> USE NodeAssumption DEF IInv, TypeOK, Ids
<1> DEFINE n == rNext[r]
<1>1. /\ p = r
      /\ n \in Ids
      /\ internal' = Append(internal, InboundSession(r, n))
      /\ rNext' = [rNext EXCEPT ![r] = n + 1]
      /\ UNCHANGED <<sessions, prompts, finals, acks>>
    <2>1. p = r OBVIOUS
    <2>2. n \in Ids BY <2>1 DEF RemoteRequest
    <2>3. internal' = Append(internal, InboundSession(r, n)) BY <2>1 DEF RemoteRequest
    <2>4. rNext' = [rNext EXCEPT ![r] = n + 1] BY <2>1 DEF RemoteRequest
    <2>5. UNCHANGED <<sessions, prompts, finals, acks>> BY DEF RemoteRequest
    <2> QED BY <2>1, <2>2, <2>3, <2>4, <2>5
<1>2. InboundSession(r, n) \in Events BY <1>1 DEF Events
<1>3. /\ Len(internal') = Len(internal) + 1
      /\ \A j \in 1..Len(internal) : internal'[j] = internal[j]
      /\ internal'[Len(internal) + 1] = InboundSession(r, n)
    BY <1>1, <1>2, AppendProperties
<1>4. Fresh(r, n) BY <1>1 DEF IdsAhead
<1>5. IdsAhead(r)'
    BY <1>1 DEF IdsAhead, Fresh
<1>6. QueuedFresh(r)'
    <2> SUFFICES ASSUME NEW j \in 1..Len(internal'), Inbound(j)'
                 PROVE  (internal[j].id < rNext[r] /\ Fresh(r, internal[j].id))'
        BY DEF QueuedFresh
    <2>1. CASE j \in 1..Len(internal)
        <3>1. Inbound(j) BY <1>3, <2>1 DEF Inbound
        <3>2. internal[j].id < n /\ Fresh(r, internal[j].id) BY <2>1, <3>1 DEF QueuedFresh
        <3>3. internal[j].id \in Ids
            <4>1. internal[j] \in Events BY <2>1
            <4> QED BY <4>1, <3>1, InboundFields DEF Inbound
        <3>4. rNext'[r] = n + 1 /\ internal'[j] = internal[j]
            <4>1. rNext'[r] = n + 1 BY <1>1
            <4>2. internal'[j] = internal[j] BY <1>3, <2>1
            <4> QED BY <4>1, <4>2
        <3> QED BY <1>1, <3>2, <3>3, <3>4 DEF Fresh
    <2>2. CASE j = Len(internal) + 1
        <3>1. rNext'[r] = n + 1 /\ internal'[j].id = n BY <1>1, <1>3, <2>2 DEF InboundSession
        <3> QED BY <1>1, <1>4, <3>1 DEF Fresh
    <2> QED BY <1>3, <2>1, <2>2
<1>7. QueuedDistinct'
    <2> SUFFICES ASSUME NEW j \in 1..Len(internal'), NEW k \in 1..Len(internal'),
                        Inbound(j)', Inbound(k)', j # k
                 PROVE  internal'[j].id # internal'[k].id
        BY DEF QueuedDistinct
    <2>1. \A x \in 1..Len(internal) : Inbound(x) => internal[x].id < n
        BY DEF QueuedFresh
    <2>2. CASE j \in 1..Len(internal) /\ k \in 1..Len(internal)
        BY <1>3, <2>2 DEF QueuedDistinct, Inbound
    <2>3. CASE j \in 1..Len(internal) /\ k = Len(internal) + 1
        <3>1. internal'[j] = internal[j] /\ internal'[k].id = n
            <4>1. internal'[j] = internal[j] BY <1>3, <2>3
            <4>2. internal'[k] = InboundSession(r, n) BY <1>3, <2>3
            <4>3. InboundSession(r, n).id = n BY DEF InboundSession
            <4> QED BY <4>1, <4>2, <4>3
        <3>2. Inbound(j) BY <3>1 DEF Inbound
        <3>3. internal[j].id < n BY <2>1, <2>3, <3>2
        <3> QED BY <1>1, <3>1, <3>3
    <2>4. CASE j = Len(internal) + 1 /\ k \in 1..Len(internal)
        <3>1. internal'[k] = internal[k] /\ internal'[j].id = n
            <4>1. internal'[k] = internal[k] BY <1>3, <2>4
            <4>2. internal'[j] = InboundSession(r, n) BY <1>3, <2>4, Zenon
            <4>3. InboundSession(r, n).id = n BY DEF InboundSession
            <4> QED BY <4>1, <4>2, <4>3
        <3>2. Inbound(k) BY <3>1 DEF Inbound
        <3>3. internal[k].id < n BY <2>1, <2>4, <3>2
        <3> QED BY <1>1, <3>1, <3>3
    <2>5. \/ j \in 1..Len(internal) /\ k \in 1..Len(internal)
          \/ j \in 1..Len(internal) /\ k = Len(internal) + 1
          \/ j = Len(internal) + 1 /\ k \in 1..Len(internal)
        BY <1>3
    <2> QED BY <2>2, <2>3, <2>4, <2>5
<1> QED BY <1>1, <1>5, <1>6, <1>7
        DEF OpenPromptUnanswered, AtMostOneFinalReply, PromptAnswerable, Acked

LEMMA RemoteAnswerStep ==
    ASSUME NEW r, IInv(r), TypeOK', NEW p \in Peers, RemoteAnswer(p)
    PROVE  IInv(r)'
<1>0. internal \in Seq(Events) BY DEF IInv, TypeOK
<1>1. PICK i \in Ids, st \in Statuses :
        internal' = Append(internal, SessionResult(p, i, st))
    BY DEF RemoteAnswer
<1>2. SessionResult(p, i, st) \in Events BY DEF Events
<1>3. /\ Len(internal') = Len(internal) + 1
      /\ \A j \in 1..Len(internal) : internal'[j] = internal[j]
      /\ internal'[Len(internal) + 1] = SessionResult(p, i, st)
      /\ UNCHANGED <<sessions, prompts, finals, rNext, acks>>
    <2>1. /\ Len(internal') = Len(internal) + 1
          /\ \A j \in 1..Len(internal) : internal'[j] = internal[j]
          /\ internal'[Len(internal) + 1] = SessionResult(p, i, st)
        BY <1>0, <1>1, <1>2, AppendProperties
    <2>2. UNCHANGED <<sessions, prompts, finals, rNext, acks>> BY DEF RemoteAnswer
    <2> QED BY <2>1, <2>2
<1>4. \A j \in 1..Len(internal') : Inbound(j)' => j \in 1..Len(internal) /\ Inbound(j)
    <2> SUFFICES ASSUME NEW j \in 1..Len(internal'), Inbound(j)'
                 PROVE  j \in 1..Len(internal) /\ Inbound(j)
        OBVIOUS
    <2>1. internal'[Len(internal) + 1].kind = "result" BY <1>3 DEF SessionResult
    <2>2. j # Len(internal) + 1 BY <2>1 DEF Inbound
    <2>3. j \in 1..Len(internal)
        <3>1. Len(internal) \in Nat /\ j \in 1..(Len(internal) + 1) BY <1>0, <1>3
        <3> QED BY <3>1, <2>2
    <2> QED BY <1>3, <2>3 DEF Inbound
<1>5. QueuedFresh(r)'
    BY <1>3, <1>4 DEF IInv, QueuedFresh, Fresh
<1>6. QueuedDistinct'
    BY <1>3, <1>4 DEF IInv, QueuedDistinct
<1> QED BY <1>3, <1>5, <1>6
        DEF IInv, IdsAhead, OpenPromptUnanswered, AtMostOneFinalReply, PromptAnswerable,
            Acked, Fresh
LEMMA IInvStep ==
    ASSUME NEW r, Peers = {r}, IInv(r), [Next]_vars
    PROVE  IInv(r)'
<1>1. TypeOK' BY TypeStep DEF IInv
<1>2. CASE GetConf
    BY <1>1, <1>2, SessionFrame DEF GetConf
<1>3. ASSUME NEW p \in Peers, SendPeer(p) \/ Pair(p) PROVE IInv(r)'
    BY <1>1, <1>3, SessionFrame DEF SendPeer, Pair
<1>4. ASSUME NEW auto \in BOOLEAN, SetConfig(auto) PROVE IInv(r)'
    BY <1>1, <1>4, SessionFrame DEF SetConfig
<1>5. ASSUME NEW p \in Peers, NEW i \in Ids, Ack(p, i) PROVE IInv(r)'
    BY <1>1, <1>5, AckStep
<1>6. CASE HandleInbound
    BY <1>1, <1>6, HandleInboundStep
<1>7. CASE HandleResult
    BY <1>1, <1>7, HandleResultStep
<1>8. ASSUME NEW p \in Peers,
             PeerConnected(p) \/ ServerClose(p) \/ ClientClose(p)
      PROVE IInv(r)'
    BY <1>1, <1>8, SessionFrame DEF PeerConnected, ServerClose, ClientClose
<1>9. ASSUME NEW p \in Peers, RemoteRequest(p) PROVE IInv(r)'
    BY <1>1, <1>9, RemoteRequestStep
<1>10. ASSUME NEW p \in Peers, RemoteAnswer(p) PROVE IInv(r)'
    BY <1>1, <1>10, RemoteAnswerStep
<1>11. CASE UNCHANGED vars
    BY <1>1, <1>11, SessionFrame DEF vars
<1> QED
    BY <1>2, <1>3, <1>4, <1>5, <1>6, <1>7, <1>8, <1>9, <1>10, <1>11
    DEF Next, NodeStep, RemoteStep

LEMMA InitIInv ==
    ASSUME NEW r \in Peers, Init
    PROVE  IInv(r)
<1>1. TypeOK BY NodeAssumption DEF Init, TypeOK, Configs, Ids, MaxCount
<1>2. Len(internal) = 0 BY DEF Init
<1>3. IdsAhead(r) /\ OpenPromptUnanswered(r) /\ AtMostOneFinalReply /\ PromptAnswerable
    BY DEF Init, Ids, IdsAhead, Fresh, OpenPromptUnanswered, AtMostOneFinalReply,
           PromptAnswerable
<1>4. QueuedFresh(r) /\ QueuedDistinct BY <1>2 DEF QueuedFresh, QueuedDistinct
<1> QED BY <1>1, <1>3, <1>4 DEF IInv

(* With one remote node, each inbound session gets at most one final      *)
(* answer (handle_event's automatic Success or the user's Ack, which      *)
(* removes the session), and a prompt the user has not answered still     *)
(* leads Ack to the remote that asked, for every MaxId and MaxQueue.  Run  *)
(* node_sessions checks both on ids 1..2; run node_ack_collision shows     *)
(* that a second remote breaks the session map.                            *)
THEOREM OneRemoteSessions ==
    ASSUME NEW r, Peers = {r}
    PROVE  Spec => [](AtMostOneFinalReply /\ PromptAnswerable)
<1>1. Init => IInv(r) BY InitIInv
<1>2. IInv(r) /\ [Next]_vars => IInv(r)' BY IInvStep
<1>3. IInv(r) => AtMostOneFinalReply /\ PromptAnswerable BY DEF IInv
<1> QED BY <1>1, <1>2, <1>3, PTL DEF Spec

(* With one remote node, as long as the user has not answered a prompt    *)
(* (no Ack for it yet), the sessions map still sends that Ack to the      *)
(* remote whose request raised it, however the remote's requests,         *)
(* handle_event's automatic answers and the other prompts interleave:     *)
(* the property run node_sessions checks, for every MaxId and MaxQueue.   *)
THEOREM OneRemotePromptAnswerable ==
    ASSUME NEW r, Peers = {r}
    PROVE  Spec => []PromptAnswerable
<1>1. Spec => [](AtMostOneFinalReply /\ PromptAnswerable) BY OneRemoteSessions
<1> QED BY <1>1, PTL
=============================================================================
