------------------------ MODULE HandshakeReplayProofs ------------------------
(***************************************************************************)
(* Proof that a replayed handshake recorded in an earlier TOTP window gets *)
(* no Peer from the honest end (module HandshakeReplay), for every set of  *)
(* secrets and windows: NoPeerForImpostor holds whenever                   *)
(* RecWindow < StartWindow.  Run handshake_replay_fresh shows that it      *)
(* fails when the two windows are equal.                                   *)
(*                                                                         *)
(* The argument follows the recorded tags through the streams.  The clock  *)
(* never goes back, so the server's key <<sAuth, now>> is never the        *)
(* recorded <<cAuth, RecWindow>>, and the client's key <<cAuth, w>>, taken *)
(* at CConnect with w >= StartWindow, never signs the recorded Response.   *)
(* Every Request the server can read is the recorded one, and every        *)
(* Response the client can read is the recorded one, so neither honest end *)
(* gets past verification.                                                 *)
(***************************************************************************)
EXTENDS HandshakeReplay, HandshakeProofs

\* The states of each end, the adversary's included.
ClientPcs == {"start", "waitResp", "waitComplete", "done", "failed"} \cup AdvClient
ServerPcs == {"waitReq", "waitComplete", "done", "failed"} \cup AdvServer

ReplayTypeOK ==
    /\ now \in Windows
    /\ cAuth \in Secrets
    /\ sAuth \in Secrets \cup {None}
    /\ c \in [pc : ClientPcs, key : Keys \cup {None}, res : Results]
    /\ s \in [pc : ServerPcs, key : Keys \cup {None}, res : Results]
    /\ c2s \in Seq(Msgs)
    /\ s2c \in Seq(Msgs)
    /\ cOpen \in BOOLEAN
    /\ sOpen \in BOOLEAN

\* Every frame of type t in stream q is the frame m.
OnlyFrame(q, t, m) == \A i \in 1..Len(q) : q[i].type = t => q[i] = m

\* Against the adversary as the client: the server is still waiting for a
\* Request or has failed, and every Request in flight is the recorded one.
ImpostorClient ==
    c.pc \in AdvClient =>
        /\ s.pc \in {"waitReq", "failed"}
        /\ OnlyFrame(c2s, "Request", RecordedRequest)

\* Against the adversary as the server: the client has not verified a
\* Response, every Response in flight is the recorded one, and a waiting
\* client's key is of a window after the recording.
ImpostorServer ==
    s.pc \in AdvServer =>
        /\ c.pc \in {"start", "waitResp", "failed"}
        /\ OnlyFrame(s2c, "Response", RecordedResponse)
        /\ c.pc = "waitResp" => \E w \in Windows : w > RecWindow /\ c.key = <<cAuth, w>>

ReplayInv ==
    /\ ReplayTypeOK
    /\ now >= StartWindow
    /\ sAuth = cAuth
    /\ ImpostorClient
    /\ ImpostorServer

-----------------------------------------------------------------------------
(* Reading a frame, or sending one that is of another type or is the       *)
(* recorded frame, keeps a stream's frames of that type the recorded one.  *)

LEMMA TailKeepsOnly ==
    ASSUME NEW q \in Seq(Msgs), q # <<>>, NEW t, NEW m, OnlyFrame(q, t, m)
    PROVE  /\ OnlyFrame(Tail(q), t, m)
           /\ Head(q).type = t => Head(q) = m
<1>1. Head(q) = q[1] OBVIOUS
<1> QED BY <1>1, HeadTailProperties DEF OnlyFrame

LEMMA AppendKeepsOnly ==
    ASSUME NEW q \in Seq(Msgs), NEW x \in Msgs, NEW t, NEW m, OnlyFrame(q, t, m),
           x.type = t => x = m
    PROVE  OnlyFrame(Append(q, x), t, m)
BY AppendProperties DEF OnlyFrame

-----------------------------------------------------------------------------
(* The invariant is inductive when the recording is of an earlier window.  *)

LEMMA ReplayInvStep ==
    ASSUME RecWindow < StartWindow, ReplayInv, [ReplayNext]_vars
    PROVE  ReplayInv'
<1> USE DEF ReplayTypeOK, ReplayInv, AdvClient, AdvServer
<1>1. /\ RecordedRequest \in Msgs /\ RecordedRequest.type = "Request"
      /\ RecordedResponse \in Msgs /\ RecordedResponse.type = "Response"
      /\ Msg("CompleteRequest", None) \in Msgs /\ Msg("CompleteResponse", None) \in Msgs
      /\ \A code \in Codes : Msg("Failure", code) \in Msgs
    <2>1. <<cAuth, RecWindow>> \in Keys BY ReplayAssumption DEF Keys
    <2> QED BY <2>1, MsgTypes DEF RecordedRequest, RecordedResponse, Msg
<1>2. /\ now \in Nat /\ RecWindow \in Nat /\ RecWindow < now
      /\ sAuth \in Secrets /\ sAuth # None
    BY ReplayAssumption, HandshakeAssumption DEF Windows
<1>0. UNCHANGED <<cAuth, sAuth>> =>
        /\ RecordedRequest' = RecordedRequest
        /\ RecordedResponse' = RecordedResponse
    BY DEF RecordedRequest, RecordedResponse
<1> USE <1>0
<1>3. CASE FakeRequest
    <2>1. ReplayTypeOK' BY <1>3, <1>1, SendType DEF FakeRequest, ClientPcs
    <2>2. ImpostorClient' BY <1>3, <1>1, AppendKeepsOnly DEF FakeRequest, ImpostorClient
    <2>3. ImpostorServer' BY <1>3 DEF FakeRequest, ImpostorClient, ImpostorServer
    <2> QED BY <1>3, <2>1, <2>2, <2>3 DEF FakeRequest
<1>4. CASE FakeCompleteRequest
    <2>1. ReplayTypeOK' BY <1>4, <1>1, SendType, ReceiveType DEF FakeCompleteRequest, ClientPcs
    <2>2. ImpostorClient' BY <1>4, <1>1, AppendKeepsOnly DEF FakeCompleteRequest, ImpostorClient, Msg
    <2>3. ImpostorServer' BY <1>4 DEF FakeCompleteRequest, ImpostorClient, ImpostorServer
    <2> QED BY <1>4, <2>1, <2>2, <2>3 DEF FakeCompleteRequest
<1>5. CASE FakeResponse
    <2>1. ReplayTypeOK' BY <1>5, <1>1, SendType, ReceiveType DEF FakeResponse, ServerPcs
    <2>2. ImpostorClient' BY <1>5 DEF FakeResponse, ImpostorClient, ImpostorServer
    <2>3. ImpostorServer' BY <1>5, <1>1, AppendKeepsOnly DEF FakeResponse, ImpostorServer
    <2> QED BY <1>5, <2>1, <2>2, <2>3 DEF FakeResponse
<1>6. CASE FakeCompleteResponse
    <2>1. ReplayTypeOK' BY <1>6, <1>1, SendType, ReceiveType DEF FakeCompleteResponse, ServerPcs
    <2>2. ImpostorClient' BY <1>6 DEF FakeCompleteResponse, ImpostorClient, ImpostorServer
    <2>3. ImpostorServer' BY <1>6, <1>1, AppendKeepsOnly DEF FakeCompleteResponse, ImpostorServer, Msg
    <2> QED BY <1>6, <2>1, <2>2, <2>3 DEF FakeCompleteResponse
<1>7. CASE Tick
    <2>1. now' \in Windows /\ now' >= StartWindow
        BY <1>7, HandshakeAssumption, ReplayAssumption DEF Tick, Windows
    <2>2. ImpostorClient' /\ ImpostorServer'
        BY <1>7 DEF Tick, ImpostorClient, ImpostorServer
    <2> QED BY <1>7, <2>1, <2>2 DEF Tick
<1>8. CASE UNCHANGED vars
    BY <1>8 DEF vars, ImpostorClient, ImpostorServer, OnlyFrame, RecordedRequest, RecordedResponse
(* The client's steps.  A client facing the adversary as the server has   *)
(* a key of a later window, so the recorded Response never verifies.       *)
<1>9. CASE CConnect
    <2>1. <<cAuth, now>> \in Keys BY DEF Keys
    <2>2. ReplayTypeOK' BY <1>9, <2>1, MsgTypes, SendType DEF CConnect, ClientPcs
    <2>3. ImpostorClient' BY <1>9 DEF CConnect, ImpostorClient
    <2>4. ImpostorServer' BY <1>9, <1>2 DEF CConnect, ImpostorServer
    <2> QED BY <1>9, <2>2, <2>3, <2>4 DEF CConnect
<1>10. CASE CTimeout
    BY <1>10, <1>1, SendType DEF CTimeout, CFail, Codes, ClientPcs, Results, ImpostorClient, ImpostorServer
<1>11. CASE CDisconnect
    BY <1>11 DEF CDisconnect, CFail, ClientPcs, Results, ImpostorClient, ImpostorServer
<1>12. CASE CResponseOk
    <2>1. s.pc \notin AdvServer
        <3> SUFFICES ASSUME s.pc \in AdvServer PROVE FALSE
            OBVIOUS
        <3>1. Head(s2c) = RecordedResponse
            BY <1>12, <1>1, TailKeepsOnly DEF CResponseOk, ImpostorServer, Msg
        <3>2. PICK w \in Windows : w > RecWindow /\ c.key = <<cAuth, w>>
            BY <1>12 DEF CResponseOk, ImpostorServer
        <3> QED BY <1>12, <1>2, <3>1, <3>2 DEF CResponseOk, RecordedResponse, Msg, Tag, Windows
    <2>2. ReplayTypeOK' BY <1>12, <1>1, SendType, ReceiveType DEF CResponseOk, ClientPcs
    <2> QED BY <1>12, <2>1, <2>2 DEF CResponseOk, ImpostorClient, ImpostorServer
<1>13. CASE CResponseBad
    <2>1. ReplayTypeOK' BY <1>13, <1>1, SendType, ReceiveType DEF CResponseBad, CFail, Codes, ClientPcs, Results
    <2>2. ImpostorServer' BY <1>13, TailKeepsOnly DEF CResponseBad, CFail, ImpostorServer
    <2> QED BY <1>13, <2>1, <2>2 DEF CResponseBad, CFail, ImpostorClient
<1>14. CASE CFailure
    <2>1. ReplayTypeOK' BY <1>14, ReceiveType DEF CFailure, CFail, ClientPcs, Results
    <2>2. ImpostorServer' BY <1>14, TailKeepsOnly DEF CFailure, CFail, ImpostorServer
    <2> QED BY <1>14, <2>1, <2>2 DEF CFailure, CFail, ImpostorClient
<1>15. CASE CComplete
    <2>1. ReplayTypeOK' BY <1>15, ReceiveType DEF CComplete, ClientPcs, Results
    <2> QED BY <1>15, <2>1 DEF CComplete, ImpostorClient, ImpostorServer
<1>16. CASE CCompleteWrong
    <2>1. ReplayTypeOK' BY <1>16, ReceiveType DEF CCompleteWrong, CFail, ClientPcs, Results
    <2> QED BY <1>16, <2>1 DEF CCompleteWrong, CFail, ImpostorClient, ImpostorServer
<1>17. CASE CAbort
    BY <1>17 DEF CAbort, CFail, ClientPcs, Results, ImpostorClient, ImpostorServer
(* The server's steps.  Its own key <<sAuth, now>> is of a later window    *)
(* than the recording, so the recorded Request never verifies.             *)
<1>18. CASE STimeout
    BY <1>18, <1>1, SendType DEF STimeout, SFail, Codes, ServerPcs, Results, ImpostorClient, ImpostorServer
<1>19. CASE SDisconnect
    BY <1>19 DEF SDisconnect, SFail, ServerPcs, Results, ImpostorClient, ImpostorServer
<1>20. CASE SRequestUnknown
    BY <1>20, <1>2 DEF SRequestUnknown
<1>21. CASE SRequestBad
    <2>1. ReplayTypeOK' BY <1>21, <1>1, SendType, ReceiveType DEF SRequestBad, SFail, Codes, ServerPcs, Results
    <2>2. ImpostorClient' BY <1>21, TailKeepsOnly DEF SRequestBad, SFail, ImpostorClient
    <2> QED BY <1>21, <2>1, <2>2 DEF SRequestBad, SFail, ImpostorServer
<1>22. CASE SRequestOk
    <2>1. c.pc \notin AdvClient
        <3> SUFFICES ASSUME c.pc \in AdvClient PROVE FALSE
            OBVIOUS
        <3>1. Head(c2s) = RecordedRequest
            BY <1>22, TailKeepsOnly DEF SRequestOk, ImpostorClient
        <3> QED BY <1>22, <1>2, <3>1 DEF SRequestOk, RecordedRequest, Msg, Tag
    <2>2. <<sAuth, now>> \in Keys BY <1>2 DEF Keys
    <2>3. ReplayTypeOK' BY <1>22, <2>2, MsgTypes, SendType, ReceiveType DEF SRequestOk, ServerPcs
    <2> QED BY <1>22, <2>1, <2>3 DEF SRequestOk, ImpostorClient, ImpostorServer
<1>23. CASE SComplete
    <2>1. ReplayTypeOK' BY <1>23, <1>1, SendType, ReceiveType DEF SComplete, ServerPcs, Results
    <2> QED BY <1>23, <2>1 DEF SComplete, ImpostorClient, ImpostorServer
<1>24. CASE SCompleteWrong
    <2>1. ReplayTypeOK' BY <1>24, ReceiveType DEF SCompleteWrong, SFail, ServerPcs, Results
    <2> QED BY <1>24, <2>1 DEF SCompleteWrong, SFail, ImpostorClient, ImpostorServer
<1>25. CASE SAbort
    BY <1>25 DEF SAbort, SFail, ServerPcs, Results, ImpostorClient, ImpostorServer
<1> QED
    BY <1>3, <1>4, <1>5, <1>6, <1>7, <1>8, <1>9, <1>10, <1>11, <1>12, <1>13,
       <1>14, <1>15, <1>16, <1>17, <1>18, <1>19, <1>20, <1>21, <1>22, <1>23,
       <1>24, <1>25
    DEF ReplayNext, ClientStep, ServerStep
LEMMA ReplayInitInv == ReplayInit => ReplayInv
<1> SUFFICES ASSUME ReplayInit PROVE ReplayInv
    OBVIOUS
<1>1. ReplayTypeOK
    BY ReplayAssumption DEF ReplayInit, ReplayTypeOK, ClientPcs, ServerPcs, AdvClient,
                            AdvServer, Results
<1>2. ImpostorClient /\ ImpostorServer
    BY DEF ReplayInit, ImpostorClient, ImpostorServer, OnlyFrame, AdvClient, AdvServer
<1> QED BY <1>1, <1>2, ReplayAssumption DEF ReplayInit, ReplayInv, Windows

(* An adversary that replays the frames of a handshake recorded in an      *)
(* earlier TOTP window gets no Peer: net::accept never reaches Peer::new   *)
(* for the recorded Request, and net::connect never completes on the       *)
(* recorded Response, whatever the secrets and the number of windows.      *)
(* Within the recorded window the replay succeeds (run                    *)
(* handshake_replay_fresh), so the hypothesis cannot be dropped.           *)
THEOREM ReplayRejected ==
    ASSUME RecWindow < StartWindow
    PROVE  ReplaySpec => []NoPeerForImpostor
<1>1. ReplayInv => NoPeerForImpostor
    BY DEF ReplayInv, ImpostorClient, ImpostorServer, NoPeerForImpostor
<1> QED BY <1>1, ReplayInitInv, ReplayInvStep, PTL DEF ReplaySpec
=============================================================================
