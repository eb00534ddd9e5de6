--------------------------- MODULE HandshakeProofs ---------------------------
(***************************************************************************)
(* Proofs about the handshake of net.rs (module Handshake), for every set  *)
(* of secrets and every number of TOTP windows:                            *)
(*                                                                         *)
(*   - HandshakeTypeCorrect: Spec => []TypeOK;                             *)
(*   - HandshakeRefinement: Spec => Refinement, i.e. the message-level     *)
(*     handshake implements the outcome-level HandshakeOutcome under the   *)
(*     mapping Outcome(c.pc), Outcome(s.pc).                               *)
(*                                                                         *)
(* The refinement rests on an inductive invariant that follows the tags    *)
(* through the two streams: every Request in flight carries the client's   *)
(* key, which starts with the client's secret; so a server that verified a *)
(* Request holds that same secret; and a CompleteResponse is in flight     *)
(* only from a server that has handed over its Peer.                       *)
(***************************************************************************)
EXTENDS Handshake, SequenceTheorems, TLAPS

-----------------------------------------------------------------------------
(* Types of the frames the actions send.                                   *)

LEMMA MsgTypes ==
    ASSUME NEW k \in Keys
    PROVE  /\ Msg("Request", Tag(k, "client")) \in Msgs
           /\ Msg("Response", Tag(k, "server")) \in Msgs
           /\ Msg("CompleteRequest", None) \in Msgs
           /\ Msg("CompleteResponse", None) \in Msgs
           /\ \A code \in Codes : Msg("Failure", code) \in Msgs
BY DEF Msg, Msgs, Tag, Tags, Codes

LEMMA SendType ==
    ASSUME NEW q \in Seq(Msgs), NEW m \in Msgs
    PROVE  Append(q, m) \in Seq(Msgs)
BY AppendProperties

LEMMA ReceiveType ==
    ASSUME NEW q \in Seq(Msgs), q # <<>>
    PROVE  /\ Head(q) \in Msgs
           /\ Tail(q) \in Seq(Msgs)
BY HeadTailProperties

-----------------------------------------------------------------------------
(* Type correctness.                                                       *)

LEMMA TypeStep == TypeOK /\ [Next]_vars => TypeOK'
<1> SUFFICES ASSUME TypeOK, [Next]_vars PROVE TypeOK'
    OBVIOUS
<1> USE DEF TypeOK
<1>1. Msg("Failure", "TIMEOUT_ERR") \in Msgs /\ Msg("Failure", "NOT_FOUND_ERR") \in Msgs
      /\ Msg("Failure", "AUTH_ERR") \in Msgs
        /\ Msg("CompleteRequest", None) \in Msgs /\ Msg("CompleteResponse", None) \in Msgs
    BY DEF Msg, Msgs, Codes
<1>3. CASE CConnect
    <2>1. <<cAuth, now>> \in Keys BY DEF Keys
    <2> QED BY <1>3, <2>1, MsgTypes, SendType DEF CConnect
<1>4. CASE CTimeout BY <1>4, <1>1, SendType DEF CTimeout, CFail, Results
<1>5. CASE CDisconnect BY <1>5 DEF CDisconnect, CFail, Results
<1>6. CASE CResponseOk BY <1>6, <1>1, SendType, ReceiveType DEF CResponseOk
<1>7. CASE CResponseBad BY <1>7, <1>1, SendType, ReceiveType DEF CResponseBad, CFail, Results
<1>8. CASE CFailure BY <1>8, ReceiveType DEF CFailure, CFail, Results
<1>9. CASE CComplete BY <1>9, ReceiveType DEF CComplete, Results
<1>10. CASE CCompleteWrong BY <1>10, ReceiveType DEF CCompleteWrong, CFail, Results
<1>11. CASE STimeout BY <1>11, <1>1, SendType DEF STimeout, SFail, Results
<1>12. CASE SDisconnect BY <1>12 DEF SDisconnect, SFail, Results
<1>13. CASE SRequestUnknown BY <1>13, <1>1, SendType, ReceiveType DEF SRequestUnknown, SFail, Results
<1>14. CASE SRequestBad BY <1>14, <1>1, SendType, ReceiveType DEF SRequestBad, SFail, Results
<1>15. CASE SRequestOk
    <2>1. <<sAuth, now>> \in Keys BY <1>15 DEF SRequestOk, Keys
    <2> QED BY <1>15, <2>1, MsgTypes, SendType, ReceiveType DEF SRequestOk
<1>16. CASE SComplete BY <1>16, <1>1, SendType, ReceiveType DEF SComplete, Results
<1>17. CASE SCompleteWrong BY <1>17, ReceiveType DEF SCompleteWrong, SFail, Results
<1>18. CASE CAbort BY <1>18 DEF CAbort, CFail, Results
<1>19. CASE SAbort BY <1>19 DEF SAbort, SFail, Results
<1>20. CASE Tick BY <1>20, HandshakeAssumption DEF Tick, Windows
<1>21. CASE UNCHANGED vars BY <1>21 DEF vars
<1> QED
    BY <1>3, <1>4, <1>5, <1>6, <1>7, <1>8, <1>9, <1>10, <1>11, <1>12, <1>13,
       <1>14, <1>15, <1>16, <1>17, <1>18, <1>19, <1>20, <1>21
    DEF Next, ClientStep, ServerStep

(* Every state the handshake reaches is well typed.                        *)
THEOREM HandshakeTypeCorrect == Spec => []TypeOK
<1>1. Init => TypeOK
    BY HandshakeAssumption DEF Init, TypeOK, Windows, Results
<1> QED BY <1>1, TypeStep, PTL DEF Spec

-----------------------------------------------------------------------------
(* The inductive invariant of the refinement.                              *)

\* Before net::connect has sent its Request, nothing is in flight to the server.
StartClean == c.pc = "start" => c2s = <<>>

\* Every Request in flight is the client's, signed with its key, which is a
\* TOTP code of the client's own secret.
ClientKey == \E w \in Windows : c.key = <<cAuth, w>>
ReqTagged == \A i \in 1..Len(c2s) :
                c2s[i].type = "Request" => ClientKey /\ c2s[i].arg = Tag(c.key, "client")

\* A server past verification holds the client's secret.
ServerAuth == s.pc \in {"waitComplete", "done"} => sAuth = cAuth

\* A CompleteResponse in flight comes from a server that has its Peer.
CompleteFromDone == \A i \in 1..Len(s2c) :
                       s2c[i].type = "CompleteResponse" => s.pc = "done"

\* A client has its Peer only after the server.
ClientAfterServer == c.pc = "done" => s.pc = "done"

RInv == /\ TypeOK /\ StartClean /\ ReqTagged
        /\ ServerAuth /\ CompleteFromDone /\ ClientAfterServer

(* Receiving and sending keep the two facts about frames in flight.        *)
LEMMA TailKeepsTagged ==
    ASSUME NEW q \in Seq(Msgs), q # <<>>, NEW k, NEW K,
           \A i \in 1..Len(q) : q[i].type = "Request" => K /\ q[i].arg = Tag(k, "client")
    PROVE  \A i \in 1..Len(Tail(q)) :
              Tail(q)[i].type = "Request" => K /\ Tail(q)[i].arg = Tag(k, "client")
BY HeadTailProperties

LEMMA AppendKeepsTagged ==
    ASSUME NEW q \in Seq(Msgs), NEW m \in Msgs, NEW k, NEW K,
           \A i \in 1..Len(q) : q[i].type = "Request" => K /\ q[i].arg = Tag(k, "client"),
           m.type = "Request" => K /\ m.arg = Tag(k, "client")
    PROVE  \A i \in 1..Len(Append(q, m)) :
              Append(q, m)[i].type = "Request" => K /\ Append(q, m)[i].arg = Tag(k, "client")
BY AppendProperties

LEMMA TailKeepsComplete ==
    ASSUME NEW q \in Seq(Msgs), q # <<>>, NEW D,
           \A i \in 1..Len(q) : q[i].type = "CompleteResponse" => D
    PROVE  \A i \in 1..Len(Tail(q)) : Tail(q)[i].type = "CompleteResponse" => D
BY HeadTailProperties

LEMMA AppendKeepsComplete ==
    ASSUME NEW q \in Seq(Msgs), NEW m \in Msgs, NEW D,
           \A i \in 1..Len(q) : q[i].type = "CompleteResponse" => D,
           m.type = "CompleteResponse" => D
    PROVE  \A i \in 1..Len(Append(q, m)) : Append(q, m)[i].type = "CompleteResponse" => D
BY AppendProperties

LEMMA RInvStep == RInv /\ [Next]_vars => RInv'
<1> SUFFICES ASSUME RInv, [Next]_vars PROVE RInv'
    OBVIOUS
<1>1. TypeOK' BY TypeStep DEF RInv
<1> USE DEF TypeOK
<1>2. CASE CConnect
    <2>1. StartClean' BY <1>2, <1>1, AppendKeepsTagged, MsgTypes DEF RInv, CConnect, StartClean, Msg, Msgs, Keys
    <2>3. ReqTagged'
        <3>1. c2s = <<>> BY <1>2 DEF RInv, StartClean, CConnect
        <3>2. c2s' = <<Msg("Request", Tag(<<cAuth, now>>, "client"))>>
            BY <3>1, <1>2 DEF CConnect
        <3>3. c'.key = <<cAuth, now>> BY <1>2 DEF CConnect
        <3>4. now \in Windows /\ cAuth' = cAuth BY <1>2 DEF RInv, CConnect
        <3>5. ClientKey' BY <3>3, <3>4 DEF ClientKey
        <3> QED BY <3>2, <3>3, <3>5 DEF ReqTagged, Msg
    <2>4. ServerAuth' BY <1>2, <1>1, AppendKeepsTagged, MsgTypes DEF RInv, CConnect, ServerAuth, Msg, Msgs, Keys
    <2>5. CompleteFromDone' BY <1>2, <1>1, AppendKeepsTagged, MsgTypes DEF RInv, CConnect, CompleteFromDone, Msg, Msgs, Keys
    <2>6. ClientAfterServer' BY <1>2, <1>1, AppendKeepsTagged, MsgTypes DEF RInv, CConnect, ClientAfterServer, Msg, Msgs, Keys
    <2> QED BY <1>1, <2>1, <2>3, <2>4, <2>5, <2>6 DEF RInv
<1>3. CASE CTimeout
    <2>1. StartClean' BY <1>3, <1>1, AppendKeepsTagged DEF RInv, CTimeout, CFail, StartClean, Msg, Msgs, Codes
    <2>3. ReqTagged' BY <1>3, <1>1, AppendKeepsTagged DEF RInv, CTimeout, CFail, ReqTagged, ClientKey, Msg, Msgs, Codes
    <2>4. ServerAuth' BY <1>3, <1>1, AppendKeepsTagged DEF RInv, CTimeout, CFail, ServerAuth, Msg, Msgs, Codes
    <2>5. CompleteFromDone' BY <1>3, <1>1, AppendKeepsTagged DEF RInv, CTimeout, CFail, CompleteFromDone, Msg, Msgs, Codes
    <2>6. ClientAfterServer' BY <1>3, <1>1, AppendKeepsTagged DEF RInv, CTimeout, CFail, ClientAfterServer, Msg, Msgs, Codes
    <2> QED BY <1>1, <2>1, <2>3, <2>4, <2>5, <2>6 DEF RInv
<1>4. CASE CDisconnect
    <2>1. StartClean' BY <1>4, <1>1 DEF RInv, CDisconnect, CFail, StartClean, Msg, Msgs
    <2>3. ReqTagged' BY <1>4, <1>1 DEF RInv, CDisconnect, CFail, ReqTagged, ClientKey, Msg, Msgs
    <2>4. ServerAuth' BY <1>4, <1>1 DEF RInv, CDisconnect, CFail, ServerAuth, Msg, Msgs
    <2>5. CompleteFromDone' BY <1>4, <1>1 DEF RInv, CDisconnect, CFail, CompleteFromDone, Msg, Msgs
    <2>6. ClientAfterServer' BY <1>4, <1>1 DEF RInv, CDisconnect, CFail, ClientAfterServer, Msg, Msgs
    <2> QED BY <1>1, <2>1, <2>3, <2>4, <2>5, <2>6 DEF RInv
<1>5. CASE CResponseOk
    <2>1. StartClean' BY <1>5, <1>1, TailKeepsComplete, AppendKeepsTagged DEF RInv, CResponseOk, StartClean, Msg, Msgs
    <2>3. ReqTagged' BY <1>5, <1>1, TailKeepsComplete, AppendKeepsTagged DEF RInv, CResponseOk, ReqTagged, ClientKey, Msg, Msgs
    <2>4. ServerAuth' BY <1>5, <1>1, TailKeepsComplete, AppendKeepsTagged DEF RInv, CResponseOk, ServerAuth, Msg, Msgs
    <2>5. CompleteFromDone' BY <1>5, <1>1, TailKeepsComplete, AppendKeepsTagged DEF RInv, CResponseOk, CompleteFromDone, Msg, Msgs
    <2>6. ClientAfterServer' BY <1>5, <1>1, TailKeepsComplete, AppendKeepsTagged DEF RInv, CResponseOk, ClientAfterServer, Msg, Msgs
    <2> QED BY <1>1, <2>1, <2>3, <2>4, <2>5, <2>6 DEF RInv
<1>6. CASE CResponseBad
    <2>1. StartClean' BY <1>6, <1>1, TailKeepsComplete, AppendKeepsTagged DEF RInv, CResponseBad, CFail, StartClean, Msg, Msgs, Codes
    <2>3. ReqTagged' BY <1>6, <1>1, TailKeepsComplete, AppendKeepsTagged DEF RInv, CResponseBad, CFail, ReqTagged, ClientKey, Msg, Msgs, Codes
    <2>4. ServerAuth' BY <1>6, <1>1, TailKeepsComplete, AppendKeepsTagged DEF RInv, CResponseBad, CFail, ServerAuth, Msg, Msgs, Codes
    <2>5. CompleteFromDone' BY <1>6, <1>1, TailKeepsComplete, AppendKeepsTagged DEF RInv, CResponseBad, CFail, CompleteFromDone, Msg, Msgs, Codes
    <2>6. ClientAfterServer' BY <1>6, <1>1, TailKeepsComplete, AppendKeepsTagged DEF RInv, CResponseBad, CFail, ClientAfterServer, Msg, Msgs, Codes
    <2> QED BY <1>1, <2>1, <2>3, <2>4, <2>5, <2>6 DEF RInv
<1>7. CASE CFailure
    <2>1. StartClean' BY <1>7, <1>1, TailKeepsComplete DEF RInv, CFailure, CFail, StartClean, Msg, Msgs
    <2>3. ReqTagged' BY <1>7, <1>1, TailKeepsComplete DEF RInv, CFailure, CFail, ReqTagged, ClientKey, Msg, Msgs
    <2>4. ServerAuth' BY <1>7, <1>1, TailKeepsComplete DEF RInv, CFailure, CFail, ServerAuth, Msg, Msgs
    <2>5. CompleteFromDone' BY <1>7, <1>1, TailKeepsComplete DEF RInv, CFailure, CFail, CompleteFromDone, Msg, Msgs
    <2>6. ClientAfterServer' BY <1>7, <1>1, TailKeepsComplete DEF RInv, CFailure, CFail, ClientAfterServer, Msg, Msgs
    <2> QED BY <1>1, <2>1, <2>3, <2>4, <2>5, <2>6 DEF RInv
<1>8. CASE CComplete
    <2>1. StartClean' BY <1>8, <1>1, TailKeepsComplete DEF RInv, CComplete, StartClean, Msg, Msgs
    <2>3. ReqTagged' BY <1>8, <1>1, TailKeepsComplete DEF RInv, CComplete, ReqTagged, ClientKey, Msg, Msgs
    <2>4. ServerAuth' BY <1>8, <1>1, TailKeepsComplete DEF RInv, CComplete, ServerAuth, Msg, Msgs
    <2>5. CompleteFromDone' BY <1>8, <1>1, TailKeepsComplete DEF RInv, CComplete, CompleteFromDone, Msg, Msgs
    <2>6. ClientAfterServer'
        <3>0. s2c \in Seq(Msgs) /\ s2c # <<>> BY <1>8 DEF RInv, CComplete
        <3>1. 1 \in 1..Len(s2c) /\ s2c[1].type = "CompleteResponse"
            <4>1. Len(s2c) \in Nat \ {0} BY <3>0, EmptySeq
            <4>2. s2c[1] = Head(s2c) OBVIOUS
            <4> QED BY <4>1, <4>2, <1>8 DEF CComplete
        <3>2. s.pc = "done" BY <3>1 DEF RInv, CompleteFromDone
        <3> QED BY <3>2, <1>8 DEF CComplete, ClientAfterServer
    <2> QED BY <1>1, <2>1, <2>3, <2>4, <2>5, <2>6 DEF RInv
<1>9. CASE CCompleteWrong
    <2>1. StartClean' BY <1>9, <1>1, TailKeepsComplete DEF RInv, CCompleteWrong, CFail, StartClean, Msg, Msgs
    <2>3. ReqTagged' BY <1>9, <1>1, TailKeepsComplete DEF RInv, CCompleteWrong, CFail, ReqTagged, ClientKey, Msg, Msgs
    <2>4. ServerAuth' BY <1>9, <1>1, TailKeepsComplete DEF RInv, CCompleteWrong, CFail, ServerAuth, Msg, Msgs
    <2>5. CompleteFromDone' BY <1>9, <1>1, TailKeepsComplete DEF RInv, CCompleteWrong, CFail, CompleteFromDone, Msg, Msgs
    <2>6. ClientAfterServer' BY <1>9, <1>1, TailKeepsComplete DEF RInv, CCompleteWrong, CFail, ClientAfterServer, Msg, Msgs
    <2> QED BY <1>1, <2>1, <2>3, <2>4, <2>5, <2>6 DEF RInv
<1>10. CASE STimeout
    <2>1. StartClean' BY <1>10, <1>1, AppendKeepsComplete DEF RInv, STimeout, SFail, StartClean, Msg, Msgs, Codes
    <2>3. ReqTagged' BY <1>10, <1>1, AppendKeepsComplete DEF RInv, STimeout, SFail, ReqTagged, ClientKey, Msg, Msgs, Codes
    <2>4. ServerAuth' BY <1>10, <1>1, AppendKeepsComplete DEF RInv, STimeout, SFail, ServerAuth, Msg, Msgs, Codes
    <2>5. CompleteFromDone' BY <1>10, <1>1, AppendKeepsComplete DEF RInv, STimeout, SFail, CompleteFromDone, Msg, Msgs, Codes
    <2>6. ClientAfterServer' BY <1>10, <1>1, AppendKeepsComplete DEF RInv, STimeout, SFail, ClientAfterServer, Msg, Msgs, Codes
    <2> QED BY <1>1, <2>1, <2>3, <2>4, <2>5, <2>6 DEF RInv
<1>11. CASE SDisconnect
    <2>1. StartClean' BY <1>11, <1>1 DEF RInv, SDisconnect, SFail, StartClean, Msg, Msgs
    <2>3. ReqTagged' BY <1>11, <1>1 DEF RInv, SDisconnect, SFail, ReqTagged, ClientKey, Msg, Msgs
    <2>4. ServerAuth' BY <1>11, <1>1 DEF RInv, SDisconnect, SFail, ServerAuth, Msg, Msgs
    <2>5. CompleteFromDone' BY <1>11, <1>1 DEF RInv, SDisconnect, SFail, CompleteFromDone, Msg, Msgs
    <2>6. ClientAfterServer' BY <1>11, <1>1 DEF RInv, SDisconnect, SFail, ClientAfterServer, Msg, Msgs
    <2> QED BY <1>1, <2>1, <2>3, <2>4, <2>5, <2>6 DEF RInv
<1>12. CASE SRequestUnknown
    <2>1. StartClean' BY <1>12, <1>1, AppendKeepsComplete, TailKeepsTagged DEF RInv, SRequestUnknown, SFail, StartClean, Msg, Msgs, Codes
    <2>3. ReqTagged'
        <3>1. c2s' = Tail(c2s) /\ c' = c /\ cAuth' = cAuth /\ c2s # <<>> BY <1>12 DEF SRequestUnknown, SFail
        <3>2. \A i \in 1..Len(Tail(c2s)) :
                 Tail(c2s)[i].type = "Request" => ClientKey /\ Tail(c2s)[i].arg = Tag(c.key, "client")
            BY <3>1, TailKeepsTagged DEF RInv, ReqTagged
        <3> QED BY <3>1, <3>2 DEF ReqTagged, ClientKey
    <2>4. ServerAuth' BY <1>12, <1>1, AppendKeepsComplete, TailKeepsTagged DEF RInv, SRequestUnknown, SFail, ServerAuth, Msg, Msgs, Codes
    <2>5. CompleteFromDone' BY <1>12, <1>1, AppendKeepsComplete, TailKeepsTagged DEF RInv, SRequestUnknown, SFail, CompleteFromDone, Msg, Msgs, Codes
    <2>6. ClientAfterServer' BY <1>12, <1>1, AppendKeepsComplete, TailKeepsTagged DEF RInv, SRequestUnknown, SFail, ClientAfterServer, Msg, Msgs, Codes
    <2> QED BY <1>1, <2>1, <2>3, <2>4, <2>5, <2>6 DEF RInv
<1>13. CASE SRequestBad
    <2>1. StartClean' BY <1>13, <1>1, AppendKeepsComplete, TailKeepsTagged DEF RInv, SRequestBad, SFail, StartClean, Msg, Msgs, Codes
    <2>3. ReqTagged'
        <3>1. c2s' = Tail(c2s) /\ c' = c /\ cAuth' = cAuth /\ c2s # <<>> BY <1>13 DEF SRequestBad, SFail
        <3>2. \A i \in 1..Len(Tail(c2s)) :
                 Tail(c2s)[i].type = "Request" => ClientKey /\ Tail(c2s)[i].arg = Tag(c.key, "client")
            BY <3>1, TailKeepsTagged DEF RInv, ReqTagged
        <3> QED BY <3>1, <3>2 DEF ReqTagged, ClientKey
    <2>4. ServerAuth' BY <1>13, <1>1, AppendKeepsComplete, TailKeepsTagged DEF RInv, SRequestBad, SFail, ServerAuth, Msg, Msgs, Codes
    <2>5. CompleteFromDone' BY <1>13, <1>1, AppendKeepsComplete, TailKeepsTagged DEF RInv, SRequestBad, SFail, CompleteFromDone, Msg, Msgs, Codes
    <2>6. ClientAfterServer' BY <1>13, <1>1, AppendKeepsComplete, TailKeepsTagged DEF RInv, SRequestBad, SFail, ClientAfterServer, Msg, Msgs, Codes
    <2> QED BY <1>1, <2>1, <2>3, <2>4, <2>5, <2>6 DEF RInv
<1>14. CASE SRequestOk
    <2>1. StartClean' BY <1>14, <1>1, AppendKeepsComplete, TailKeepsTagged DEF RInv, SRequestOk, StartClean, Msg, Msgs, Tag
    <2>3. ReqTagged'
        <3>1. c2s' = Tail(c2s) /\ c' = c /\ c2s # <<>> BY <1>14 DEF SRequestOk
        <3>2. \A i \in 1..Len(Tail(c2s)) :
                 Tail(c2s)[i].type = "Request" => ClientKey /\ Tail(c2s)[i].arg = Tag(c.key, "client")
            BY <3>1, TailKeepsTagged DEF RInv, ReqTagged
        <3>3. cAuth' = cAuth BY <1>14 DEF SRequestOk
        <3> QED BY <3>1, <3>2, <3>3 DEF ReqTagged, ClientKey
    <2>4. ServerAuth'
        <3>0. c2s \in Seq(Msgs) /\ c2s # <<>> BY <1>14 DEF RInv, SRequestOk
        <3>1. 1 \in 1..Len(c2s) /\ c2s[1].type = "Request"
              /\ c2s[1].arg = Tag(<<sAuth, now>>, "client")
            <4>1. Len(c2s) \in Nat \ {0} BY <3>0, EmptySeq
            <4>2. c2s[1] = Head(c2s) OBVIOUS
            <4> QED BY <4>1, <4>2, <1>14 DEF SRequestOk, Msg
        <3>2. ClientKey /\ c2s[1].arg = Tag(c.key, "client") BY <3>1 DEF RInv, ReqTagged
        <3>3. c.key = <<sAuth, now>> BY <3>1, <3>2 DEF Tag
        <3>4. PICK w \in Windows : c.key = <<cAuth, w>> BY <3>2 DEF ClientKey
        <3>5. sAuth = cAuth BY <3>3, <3>4
        <3> QED BY <3>5, <1>14 DEF SRequestOk, ServerAuth
    <2>5. CompleteFromDone' BY <1>14, <1>1, AppendKeepsComplete, TailKeepsTagged DEF RInv, SRequestOk, CompleteFromDone, Msg, Msgs, Tag
    <2>6. ClientAfterServer' BY <1>14, <1>1, AppendKeepsComplete, TailKeepsTagged DEF RInv, SRequestOk, ClientAfterServer, Msg, Msgs, Tag
    <2> QED BY <1>1, <2>1, <2>3, <2>4, <2>5, <2>6 DEF RInv
<1>15. CASE SComplete
    <2>1. StartClean' BY <1>15, <1>1, AppendKeepsComplete, TailKeepsTagged DEF RInv, SComplete, StartClean, Msg, Msgs
    <2>3. ReqTagged' BY <1>15, <1>1, AppendKeepsComplete, TailKeepsTagged DEF RInv, SComplete, ReqTagged, ClientKey, Msg, Msgs
    <2>4. ServerAuth' BY <1>15, <1>1, AppendKeepsComplete, TailKeepsTagged DEF RInv, SComplete, ServerAuth, Msg, Msgs
    <2>5. CompleteFromDone' BY <1>15, <1>1, AppendKeepsComplete, TailKeepsTagged DEF RInv, SComplete, CompleteFromDone, Msg, Msgs
    <2>6. ClientAfterServer' BY <1>15, <1>1, AppendKeepsComplete, TailKeepsTagged DEF RInv, SComplete, ClientAfterServer, Msg, Msgs
    <2> QED BY <1>1, <2>1, <2>3, <2>4, <2>5, <2>6 DEF RInv
<1>16. CASE SCompleteWrong
    <2>1. StartClean' BY <1>16, <1>1, TailKeepsTagged DEF RInv, SCompleteWrong, SFail, StartClean, Msg, Msgs
    <2>3. ReqTagged'
        <3>1. c2s' = Tail(c2s) /\ c' = c /\ cAuth' = cAuth /\ c2s # <<>> BY <1>16 DEF SCompleteWrong, SFail
        <3>2. \A i \in 1..Len(Tail(c2s)) :
                 Tail(c2s)[i].type = "Request" => ClientKey /\ Tail(c2s)[i].arg = Tag(c.key, "client")
            BY <3>1, TailKeepsTagged DEF RInv, ReqTagged
        <3> QED BY <3>1, <3>2 DEF ReqTagged, ClientKey
    <2>4. ServerAuth' BY <1>16, <1>1, TailKeepsTagged DEF RInv, SCompleteWrong, SFail, ServerAuth, Msg, Msgs
    <2>5. CompleteFromDone' BY <1>16, <1>1, TailKeepsTagged DEF RInv, SCompleteWrong, SFail, CompleteFromDone, Msg, Msgs
    <2>6. ClientAfterServer' BY <1>16, <1>1, TailKeepsTagged DEF RInv, SCompleteWrong, SFail, ClientAfterServer, Msg, Msgs
    <2> QED BY <1>1, <2>1, <2>3, <2>4, <2>5, <2>6 DEF RInv
<1>17. CASE CAbort
    <2>1. StartClean' BY <1>17, <1>1 DEF RInv, CAbort, CFail, StartClean, Msg, Msgs
    <2>3. ReqTagged' BY <1>17, <1>1 DEF RInv, CAbort, CFail, ReqTagged, ClientKey, Msg, Msgs
    <2>4. ServerAuth' BY <1>17, <1>1 DEF RInv, CAbort, CFail, ServerAuth, Msg, Msgs
    <2>5. CompleteFromDone' BY <1>17, <1>1 DEF RInv, CAbort, CFail, CompleteFromDone, Msg, Msgs
    <2>6. ClientAfterServer' BY <1>17, <1>1 DEF RInv, CAbort, CFail, ClientAfterServer, Msg, Msgs
    <2> QED BY <1>1, <2>1, <2>3, <2>4, <2>5, <2>6 DEF RInv
<1>18. CASE SAbort
    <2>1. StartClean' BY <1>18, <1>1 DEF RInv, SAbort, SFail, StartClean, Msg, Msgs
    <2>3. ReqTagged' BY <1>18, <1>1 DEF RInv, SAbort, SFail, ReqTagged, ClientKey, Msg, Msgs
    <2>4. ServerAuth' BY <1>18, <1>1 DEF RInv, SAbort, SFail, ServerAuth, Msg, Msgs
    <2>5. CompleteFromDone' BY <1>18, <1>1 DEF RInv, SAbort, SFail, CompleteFromDone, Msg, Msgs
    <2>6. ClientAfterServer' BY <1>18, <1>1 DEF RInv, SAbort, SFail, ClientAfterServer, Msg, Msgs
    <2> QED BY <1>1, <2>1, <2>3, <2>4, <2>5, <2>6 DEF RInv
<1>19. CASE Tick
    <2>1. StartClean' BY <1>19, <1>1 DEF RInv, Tick, StartClean, Msg, Msgs
    <2>3. ReqTagged' BY <1>19, <1>1 DEF RInv, Tick, ReqTagged, ClientKey, Msg, Msgs
    <2>4. ServerAuth' BY <1>19, <1>1 DEF RInv, Tick, ServerAuth, Msg, Msgs
    <2>5. CompleteFromDone' BY <1>19, <1>1 DEF RInv, Tick, CompleteFromDone, Msg, Msgs
    <2>6. ClientAfterServer' BY <1>19, <1>1 DEF RInv, Tick, ClientAfterServer, Msg, Msgs
    <2> QED BY <1>1, <2>1, <2>3, <2>4, <2>5, <2>6 DEF RInv
<1>20. CASE UNCHANGED vars
    BY <1>1, <1>20 DEF vars, RInv, StartClean, ReqTagged, ClientKey, ServerAuth, CompleteFromDone, ClientAfterServer
<1> QED
    BY <1>2, <1>3, <1>4, <1>5, <1>6, <1>7, <1>8, <1>9, <1>10, <1>11, <1>12, <1>13, <1>14, <1>15, <1>16, <1>17, <1>18, <1>19, <1>20
    DEF Next, ClientStep, ServerStep

-----------------------------------------------------------------------------
(* The refinement.                                                         *)

LEMMA InitRInv == Init => RInv
BY HandshakeAssumption
   DEF Init, RInv, TypeOK, Windows, Results, StartClean, ReqTagged,
       ServerAuth, CompleteFromDone, ClientAfterServer

\* Each step of the handshake is a step of HandshakeOutcome or leaves every
\* outcome as it was: sending and verifying change no outcome; every error
\* return is a Fail; SComplete is ServerPeer, since the server verified the
\* client's key (ServerAuth); CComplete is ClientPeer, since a
\* CompleteResponse comes only from a server that is done (CompleteFromDone).
LEMMA RefinementStep == RInv /\ [Next]_vars => [Abs!Next]_Abs!vars
<1> SUFFICES ASSUME RInv, [Next]_vars PROVE [Abs!Next]_Abs!vars
    OBVIOUS
<1> USE DEF RInv, TypeOK
<1>1. CASE CConnect
    BY <1>1 DEF CConnect, Abs!vars, Outcome
<1>2. CASE CResponseOk
    BY <1>2 DEF CResponseOk, Abs!vars, Outcome
<1>3. CASE SRequestOk
    BY <1>3 DEF SRequestOk, Abs!vars, Outcome
<1>4. CASE Tick
    BY <1>4 DEF Tick, Abs!vars, Outcome
<1>5. CASE CTimeout
    BY <1>5 DEF CTimeout, CFail, Abs!Next, Abs!ClientFail, Outcome
<1>6. CASE CDisconnect
    BY <1>6 DEF CDisconnect, CFail, Abs!Next, Abs!ClientFail, Outcome
<1>7. CASE CResponseBad
    BY <1>7 DEF CResponseBad, CFail, Abs!Next, Abs!ClientFail, Outcome
<1>8. CASE CFailure
    BY <1>8 DEF CFailure, CFail, Abs!Next, Abs!ClientFail, Outcome
<1>9. CASE CCompleteWrong
    BY <1>9 DEF CCompleteWrong, CFail, Abs!Next, Abs!ClientFail, Outcome
<1>10. CASE CAbort
    BY <1>10 DEF CAbort, CFail, Abs!Next, Abs!ClientFail, Outcome
<1>11. CASE STimeout
    BY <1>11 DEF STimeout, SFail, Abs!Next, Abs!ServerFail, Outcome
<1>12. CASE SDisconnect
    BY <1>12 DEF SDisconnect, SFail, Abs!Next, Abs!ServerFail, Outcome
<1>13. CASE SRequestUnknown
    BY <1>13 DEF SRequestUnknown, SFail, Abs!Next, Abs!ServerFail, Outcome
<1>14. CASE SRequestBad
    BY <1>14 DEF SRequestBad, SFail, Abs!Next, Abs!ServerFail, Outcome
<1>15. CASE SCompleteWrong
    BY <1>15 DEF SCompleteWrong, SFail, Abs!Next, Abs!ServerFail, Outcome
<1>16. CASE SAbort
    BY <1>16 DEF SAbort, SFail, Abs!Next, Abs!ServerFail, Outcome
<1>17. CASE SComplete
    <2>1. sAuth = cAuth BY <1>17 DEF SComplete, ServerAuth
    <2> QED BY <2>1, <1>17 DEF SComplete, Abs!Next, Abs!ServerPeer, Outcome
<1>18. CASE CComplete
    <2>1. s2c \in Seq(Msgs) /\ s2c # <<>> BY <1>18 DEF CComplete
    <2>2. 1 \in 1..Len(s2c) /\ s2c[1].type = "CompleteResponse"
        <3>1. Len(s2c) \in Nat \ {0} BY <2>1, EmptySeq
        <3>2. s2c[1] = Head(s2c) OBVIOUS
        <3> QED BY <3>1, <3>2, <1>18 DEF CComplete
    <2>3. s.pc = "done" BY <2>2 DEF CompleteFromDone
    <2> QED BY <2>3, <1>18 DEF CComplete, Abs!Next, Abs!ClientPeer, Outcome
<1>19. CASE UNCHANGED vars
    BY <1>19 DEF vars, Abs!vars
<1> QED
    BY <1>1, <1>2, <1>3, <1>4, <1>5, <1>6, <1>7, <1>8, <1>9, <1>10, <1>11, <1>12, <1>13, <1>14, <1>15, <1>16, <1>17, <1>18, <1>19
    DEF Next, ClientStep, ServerStep

(* The handshake of net.rs implements HandshakeOutcome: for every set of   *)
(* secrets and every number of TOTP windows, net::accept hands over a Peer *)
(* only to a client that holds the same pairing secret, and net::connect   *)
(* only after net::accept has.                                             *)
THEOREM HandshakeRefinement == Spec => Refinement
<1>1. Init => Abs!Init
    BY DEF Init, Abs!Init, Outcome
<1>2. []RInv /\ [][Next]_vars => [][Abs!Next]_Abs!vars
    BY RefinementStep, PTL
<1> QED BY <1>1, <1>2, InitRInv, RInvStep, PTL DEF Spec, Refinement, Abs!Spec

=============================================================================
