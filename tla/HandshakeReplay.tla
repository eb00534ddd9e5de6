--------------------------- MODULE HandshakeReplay ---------------------------
(***************************************************************************)
(* The handshake of net.rs against a replaying adversary on the LAN.  Two  *)
(* paired nodes share one secret.  The adversary has recorded the frames   *)
(* of one of their earlier handshakes, in TOTP window RecWindow, and plays *)
(* one end of a new handshake with them:                                   *)
(*                                                                         *)
(*   - as the client: it connects to the server, sends the recorded       *)
(*     Request and, on whatever frame comes back, a CompleteRequest,       *)
(*     which carries no proof of anything;                                 *)
(*   - as the server: it answers the client's Request with the recorded    *)
(*     Response, and whatever frame comes next with                        *)
(*     CompleteResponse.                                                   *)
(*                                                                         *)
(* The honest end runs the actions of module Handshake unchanged.  No tag  *)
(* binds a nonce or the stream, so a tag recorded in the current window    *)
(* verifies again.                                                         *)
(***************************************************************************)
EXTENDS Handshake

CONSTANTS
    RecWindow,    \* the TOTP window the recorded handshake ran in
    StartWindow   \* the TOTP window the replayed handshake starts in

ASSUME ReplayAssumption ==
    /\ RecWindow \in Windows
    /\ StartWindow \in Windows
    /\ RecWindow <= StartWindow

(* The end the adversary plays has pc values of its own, so that the      *)
(* actions of module Handshake for that end are never enabled.             *)
AdvClient == {"advStart", "advWait", "advDone"}
AdvServer == {"advWait", "advComplete", "advDone"}

RecordedRequest == Msg("Request", Tag(<<cAuth, RecWindow>>, "client"))
RecordedResponse == Msg("Response", Tag(<<sAuth, RecWindow>>, "server"))

ReplayInit ==
    /\ now = StartWindow
    /\ cAuth \in Secrets
    /\ sAuth = cAuth
    /\ \/ /\ c = [pc |-> "advStart", key |-> None, res |-> "none"]
          /\ s = [pc |-> "waitReq", key |-> None, res |-> "none"]
       \/ /\ c = [pc |-> "start", key |-> None, res |-> "none"]
          /\ s = [pc |-> "advWait", key |-> None, res |-> "none"]
    /\ c2s = <<>>
    /\ s2c = <<>>
    /\ cOpen = TRUE
    /\ sOpen = TRUE

(* The adversary as the client.                                            *)
FakeRequest ==
    /\ c.pc = "advStart"
    /\ c2s' = Append(c2s, RecordedRequest)
    /\ c' = [c EXCEPT !.pc = "advWait"]
    /\ UNCHANGED <<now, cAuth, sAuth, s, s2c, cOpen, sOpen>>

FakeCompleteRequest ==
    /\ c.pc = "advWait"
    /\ s2c # <<>>
    /\ s2c' = Tail(s2c)
    /\ c2s' = Append(c2s, Msg("CompleteRequest", None))
    /\ c' = [c EXCEPT !.pc = "advDone"]
    /\ UNCHANGED <<now, cAuth, sAuth, s, cOpen, sOpen>>

(* The adversary as the server.                                            *)
FakeResponse ==
    /\ s.pc = "advWait"
    /\ c2s # <<>>
    /\ Head(c2s).type = "Request"
    /\ c2s' = Tail(c2s)
    /\ s2c' = Append(s2c, RecordedResponse)
    /\ s' = [s EXCEPT !.pc = "advComplete"]
    /\ UNCHANGED <<now, cAuth, sAuth, c, cOpen, sOpen>>

FakeCompleteResponse ==
    /\ s.pc = "advComplete"
    /\ c2s # <<>>
    /\ c2s' = Tail(c2s)
    /\ s2c' = Append(s2c, Msg("CompleteResponse", None))
    /\ s' = [s EXCEPT !.pc = "advDone"]
    /\ UNCHANGED <<now, cAuth, sAuth, c, cOpen, sOpen>>

ReplayNext ==
    \/ FakeRequest \/ FakeCompleteRequest \/ FakeResponse \/ FakeCompleteResponse
    \/ ClientStep \/ ServerStep \/ CAbort \/ SAbort \/ Tick

ReplaySpec == ReplayInit /\ [][ReplayNext]_vars

(* The honest end of a handshake hands over a Peer only when the other end *)
(* is the paired node: net::accept never admits the adversary under the    *)
(* client's PeerId, and net::connect never takes the adversary for the     *)
(* server.                                                                 *)
NoPeerForImpostor ==
    /\ c.pc \in AdvClient => s.pc # "done"
    /\ s.pc \in AdvServer => c.pc # "done"

=============================================================================
