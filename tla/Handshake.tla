----------------------------- MODULE Handshake ------------------------------
(***************************************************************************)
(* One run of the authenticated TCP handshake of lib/p2p/src/net.rs:       *)
(* net::connect on the client and net::accept on the server, over the two  *)
(* directions of one TCP stream (FIFO, as the Framed codec keeps it).      *)
(*                                                                         *)
(*   client                              server                            *)
(*   Request{id, HMAC(totp, id)}  --->   get_peer_candidate, verify        *)
(*                                <---   Response(HMAC(totp, server id))   *)
(*   verify, CompleteRequest      --->                                     *)
(*                                <---   CompleteResponse, Peer::new       *)
(*   Peer::new                                                             *)
(*                                                                         *)
(* Every receive is guarded by a 1 s timeout; on a timeout the end sends   *)
(* Failure(TIMEOUT_ERR) and returns, and every error return drops the      *)
(* Framed stream, which the other end reads as the end of the stream.      *)
(* TOTP codes are abstracted to <<secret, window>>: the code the           *)
(* PairingAuthenticator generates in the current 30 s window.  An HMAC tag *)
(* is abstracted to the key and the PeerId it signs, so verify succeeds    *)
(* exactly when both are equal.                                            *)
(***************************************************************************)
EXTENDS Naturals, Sequences

CONSTANTS
    Secrets,    \* pairing secrets
    None,       \* no PeerCandidate, no key, no argument
    MaxWindow   \* the last TOTP window a behaviour reaches

ASSUME HandshakeAssumption ==
    /\ None \notin Secrets
    /\ MaxWindow \in Nat

VARIABLES
    now,        \* the current TOTP window
    cAuth,      \* the secret in the client's PeerCandidate for the server
    sAuth,      \* the secret of the server's candidate for the client, or None
    c,          \* the client task inside net::connect
    s,          \* the server task inside net::accept
    c2s,        \* frames in flight from client to server
    s2c,        \* frames in flight from server to client
    cOpen,      \* the client still holds its end of the stream
    sOpen       \* the server still holds its end of the stream

vars == <<now, cAuth, sAuth, c, s, c2s, s2c, cOpen, sOpen>>

Windows == 0..MaxWindow
Keys == Secrets \X Windows
Tag(k, who) == [key |-> k, signer |-> who]
Tags == [key : Keys, signer : {"client", "server"}]
Codes == {"TIMEOUT_ERR", "NOT_FOUND_ERR", "AUTH_ERR"}

Msg(t, a) == [type |-> t, arg |-> a]
Msgs == [type : {"Request", "Response"}, arg : Tags]
   \cup [type : {"CompleteRequest", "CompleteResponse"}, arg : {None}]
   \cup [type : {"Failure"}, arg : Codes]

\* err::ConnError, and "ok" for a Peer handed over.
\* "Aborted": the task or its process ended without returning.
Results == {"none", "ok", "Timeout", "Disconnect", "Auth", "NotFound", "Failure",
            "Msg", "Aborted"}

TypeOK ==
    /\ now \in Windows
    /\ cAuth \in Secrets
    /\ sAuth \in Secrets \cup {None}
    /\ c \in [pc : {"start", "waitResp", "waitComplete", "done", "failed"},
              key : Keys \cup {None}, res : Results]
    /\ s \in [pc : {"waitReq", "waitComplete", "done", "failed"},
              key : Keys \cup {None}, res : Results]
    /\ c2s \in Seq(Msgs)
    /\ s2c \in Seq(Msgs)
    /\ cOpen \in BOOLEAN
    /\ sOpen \in BOOLEAN

Init ==
    /\ now = 0
    /\ cAuth \in Secrets
    /\ sAuth \in Secrets \cup {None}
    /\ c = [pc |-> "start", key |-> None, res |-> "none"]
    /\ s = [pc |-> "waitReq", key |-> None, res |-> "none"]
    /\ c2s = <<>>
    /\ s2c = <<>>
    /\ cOpen = TRUE
    /\ sOpen = TRUE

(* An end returns an error: its Framed stream is dropped.                  *)
CFail(r) == /\ c' = [c EXCEPT !.pc = "failed", !.res = r]
            /\ cOpen' = FALSE
SFail(r) == /\ s' = [s EXCEPT !.pc = "failed", !.res = r]
            /\ sOpen' = FALSE

(* A receive that finds nothing.  The 1 s timeout can fire whenever the    *)
(* other end still holds the stream: a frame already sent may be delayed   *)
(* in transit beyond it, and is then never read.  The end of the stream is *)
(* read only after every frame sent before it.                             *)
Quiet(open) == open
Eof(q, open) == q = <<>> /\ ~open

-----------------------------------------------------------------------------
(* net::connect                                                            *)

\* peer.auth.generate(), hmac::sign and send Request.
CConnect ==
    /\ c.pc = "start"
    /\ LET k == <<cAuth, now>> IN
         /\ c' = [c EXCEPT !.pc = "waitResp", !.key = k]
         /\ c2s' = Append(c2s, Msg("Request", Tag(k, "client")))
    /\ UNCHANGED <<now, cAuth, sAuth, s, s2c, cOpen, sOpen>>

CTimeout ==
    /\ c.pc \in {"waitResp", "waitComplete"}
    /\ Quiet(sOpen)
    /\ c2s' = Append(c2s, Msg("Failure", "TIMEOUT_ERR"))
    /\ CFail("Timeout")
    /\ UNCHANGED <<now, cAuth, sAuth, s, s2c, sOpen>>

CDisconnect ==
    /\ c.pc \in {"waitResp", "waitComplete"}
    /\ Eof(s2c, sOpen)
    /\ CFail("Disconnect")
    /\ UNCHANGED <<now, cAuth, sAuth, s, c2s, s2c, sOpen>>

CResponseOk ==
    /\ c.pc = "waitResp"
    /\ s2c # <<>>
    /\ Head(s2c) = Msg("Response", Tag(c.key, "server"))
    /\ s2c' = Tail(s2c)
    /\ c2s' = Append(c2s, Msg("CompleteRequest", None))
    /\ c' = [c EXCEPT !.pc = "waitComplete"]
    /\ UNCHANGED <<now, cAuth, sAuth, s, cOpen, sOpen>>

CResponseBad ==
    /\ c.pc = "waitResp"
    /\ s2c # <<>>
    /\ Head(s2c).type = "Response"
    /\ Head(s2c).arg # Tag(c.key, "server")
    /\ s2c' = Tail(s2c)
    /\ c2s' = Append(c2s, Msg("Failure", "AUTH_ERR"))
    /\ CFail("Auth")
    /\ UNCHANGED <<now, cAuth, sAuth, s, sOpen>>

CFailure ==
    /\ c.pc = "waitResp"
    /\ s2c # <<>>
    /\ Head(s2c).type = "Failure"
    /\ s2c' = Tail(s2c)
    /\ CFail("Failure")
    /\ UNCHANGED <<now, cAuth, sAuth, s, c2s, sOpen>>

\* Fault: any frame is taken for the CompleteResponse.
CCompleteAny ==
    /\ c.pc = "waitComplete"
    /\ s2c # <<>>
    /\ s2c' = Tail(s2c)
    /\ c' = [c EXCEPT !.pc = "done", !.res = "ok"]
    /\ UNCHANGED <<now, cAuth, sAuth, s, c2s, cOpen, sOpen>>

CComplete ==
    /\ c.pc = "waitComplete"
    /\ s2c # <<>>
    /\ Head(s2c).type = "CompleteResponse"
    /\ s2c' = Tail(s2c)
    /\ c' = [c EXCEPT !.pc = "done", !.res = "ok"]
    /\ UNCHANGED <<now, cAuth, sAuth, s, c2s, cOpen, sOpen>>

CCompleteWrong ==
    /\ c.pc = "waitComplete"
    /\ s2c # <<>>
    /\ Head(s2c).type # "CompleteResponse"
    /\ s2c' = Tail(s2c)
    /\ CFail("Msg")
    /\ UNCHANGED <<now, cAuth, sAuth, s, c2s, sOpen>>

-----------------------------------------------------------------------------
(* net::accept                                                             *)

STimeout ==
    /\ s.pc \in {"waitReq", "waitComplete"}
    /\ Quiet(cOpen)
    /\ s2c' = Append(s2c, Msg("Failure", "TIMEOUT_ERR"))
    /\ SFail("Timeout")
    /\ UNCHANGED <<now, cAuth, sAuth, c, c2s, cOpen>>

SDisconnect ==
    /\ s.pc \in {"waitReq", "waitComplete"}
    /\ Eof(c2s, cOpen)
    /\ SFail("Disconnect")
    /\ UNCHANGED <<now, cAuth, sAuth, c, c2s, s2c, cOpen>>

\* get_peer_candidate finds nothing: Failure(NOT_FOUND_ERR).
SRequestUnknown ==
    /\ s.pc = "waitReq"
    /\ c2s # <<>>
    /\ Head(c2s).type = "Request"
    /\ sAuth = None
    /\ c2s' = Tail(c2s)
    /\ s2c' = Append(s2c, Msg("Failure", "NOT_FOUND_ERR"))
    /\ SFail("NotFound")
    /\ UNCHANGED <<now, cAuth, sAuth, c, cOpen>>

\* The tag does not verify under the server's own TOTP code.
SRequestBad ==
    /\ s.pc = "waitReq"
    /\ c2s # <<>>
    /\ Head(c2s).type = "Request"
    /\ sAuth # None
    /\ Head(c2s).arg # Tag(<<sAuth, now>>, "client")
    /\ c2s' = Tail(c2s)
    /\ s2c' = Append(s2c, Msg("Failure", "AUTH_ERR"))
    /\ SFail("Auth")
    /\ UNCHANGED <<now, cAuth, sAuth, c, cOpen>>

\* Fault: hmac::verify of the client's tag is left out.
SRequestOkUnverified ==
    /\ s.pc = "waitReq"
    /\ c2s # <<>>
    /\ Head(c2s).type = "Request"
    /\ sAuth # None
    /\ LET k == <<sAuth, now>> IN
         /\ c2s' = Tail(c2s)
         /\ s2c' = Append(s2c, Msg("Response", Tag(k, "server")))
         /\ s' = [s EXCEPT !.pc = "waitComplete", !.key = k]
    /\ UNCHANGED <<now, cAuth, sAuth, c, cOpen, sOpen>>

\* Fault: a tag of the previous TOTP window is accepted too.
SRequestOkSkew ==
    /\ s.pc = "waitReq"
    /\ c2s # <<>>
    /\ Head(c2s).type = "Request"
    /\ sAuth # None
    /\ \E w \in Windows :
         /\ w \in {now, now - 1}
         /\ Head(c2s).arg = Tag(<<sAuth, w>>, "client")
         /\ c2s' = Tail(c2s)
         /\ s2c' = Append(s2c, Msg("Response", Tag(<<sAuth, w>>, "server")))
         /\ s' = [s EXCEPT !.pc = "waitComplete", !.key = <<sAuth, w>>]
    /\ UNCHANGED <<now, cAuth, sAuth, c, cOpen, sOpen>>

\* The tag verifies: send Response(HMAC(totp, server id)).
SRequestOk ==
    /\ s.pc = "waitReq"
    /\ c2s # <<>>
    /\ Head(c2s).type = "Request"
    /\ sAuth # None
    /\ LET k == <<sAuth, now>> IN
         /\ Head(c2s).arg = Tag(k, "client")
         /\ c2s' = Tail(c2s)
         /\ s2c' = Append(s2c, Msg("Response", Tag(k, "server")))
         /\ s' = [s EXCEPT !.pc = "waitComplete", !.key = k]
    /\ UNCHANGED <<now, cAuth, sAuth, c, cOpen, sOpen>>

\* CompleteRequest: send CompleteResponse, then Peer::new.
SComplete ==
    /\ s.pc = "waitComplete"
    /\ c2s # <<>>
    /\ Head(c2s).type = "CompleteRequest"
    /\ c2s' = Tail(c2s)
    /\ s2c' = Append(s2c, Msg("CompleteResponse", None))
    /\ s' = [s EXCEPT !.pc = "done", !.res = "ok"]
    /\ UNCHANGED <<now, cAuth, sAuth, c, cOpen, sOpen>>

SCompleteWrong ==
    /\ s.pc = "waitComplete"
    /\ c2s # <<>>
    /\ Head(c2s).type # "CompleteRequest"
    /\ c2s' = Tail(c2s)
    /\ SFail("Msg")
    /\ UNCHANGED <<now, cAuth, sAuth, c, s2c, cOpen>>

-----------------------------------------------------------------------------
(* Faults: an end goes away mid-handshake (its process exits, its task is  *)
(* dropped) and its stream closes without a frame.                         *)
CAbort ==
    /\ c.pc \in {"start", "waitResp", "waitComplete"}
    /\ CFail("Aborted")
    /\ UNCHANGED <<now, cAuth, sAuth, s, c2s, s2c, sOpen>>

SAbort ==
    /\ s.pc \in {"waitReq", "waitComplete"}
    /\ SFail("Aborted")
    /\ UNCHANGED <<now, cAuth, sAuth, c, c2s, s2c, cOpen>>

(* The clock: the 30 s TOTP window moves on.                               *)
Tick ==
    /\ now < MaxWindow
    /\ now' = now + 1
    /\ UNCHANGED <<cAuth, sAuth, c, s, c2s, s2c, cOpen, sOpen>>

ClientStep == CConnect \/ CTimeout \/ CDisconnect \/ CResponseOk \/ CResponseBad
                \/ CFailure \/ CComplete \/ CCompleteWrong
ServerStep == STimeout \/ SDisconnect \/ SRequestUnknown \/ SRequestBad
                \/ SRequestOk \/ SComplete \/ SCompleteWrong

Next == ClientStep \/ ServerStep \/ CAbort \/ SAbort \/ Tick

Spec == Init /\ [][Next]_vars

-----------------------------------------------------------------------------
(* The outcome each end reports, and the refinement of HandshakeOutcome.   *)
Outcome(pc) == IF pc = "done" THEN "peer" ELSE IF pc = "failed" THEN "fail" ELSE "busy"

Abs == INSTANCE HandshakeOutcome
         WITH client <- Outcome(c.pc), server <- Outcome(s.pc)

(* The handshake of net.rs implements its promise: net::accept hands over  *)
(* a Peer only to a client holding the same pairing secret, and            *)
(* net::connect only after net::accept has.                                *)
Refinement == Abs!Spec

=============================================================================
