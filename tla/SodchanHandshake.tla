-------------------------- MODULE SodchanHandshake --------------------------
(***************************************************************************)
(* The handshake and device authentication of libsodchan                   *)
(* (src/src/sodchan.c): HELLO, key exchange, secretstream headers,         *)
(* AUTH_DEVICE and the server host's decision, up to READY.                *)
(*                                                                         *)
(* Cryptography is symbolic.  An ephemeral key is the number of the        *)
(* context's life (create or reset) that made it; a signature is the       *)
(* signing key and the signed transcript; the two secretstream keys are    *)
(* the pair of ephemerals they are derived from; a ciphertext names its    *)
(* key, its stream header and its position, and opens only where all three *)
(* match.  out_buf and in_buf cannot fill up here: the handshake frames    *)
(* are a few hundred bytes.                                                *)
(***************************************************************************)
EXTENDS Integers, Sequences, FiniteSets

CONSTANTS
  Configs,     \* the configurations a run starts from, see ConfigSet
  EventCap,    \* cfg.event_queue_size
  MaxLives     \* bound: contexts are created or reset at most this often

Client == "CLIENT"
Server == "SERVER"
Ends   == {Client, Server}
Peer(e) == IF e = Client THEN Server ELSE Client

\* pin: the client's server_id_pk is the server's, another one, or the client
\* takes any.  serverSk, deviceSk: the secret key belongs to the public key of
\* the same config or not; "absent": the client has no device key.
ConfigSet == [pin : {"match", "other", "any"}, serverSk : {"own", "other"},
              deviceSk : {"own", "other", "absent"}]

ASSUME HandshakeAssumption ==
  /\ Configs \subseteq ConfigSet
  /\ EventCap \in Nat \ {0}
  /\ MaxLives \in Nat \ {0}

VARIABLES
  cfg,       \* the configuration of this run
  ctx,       \* ctx[e]: the handshake fields of sodchan_ctx_t
  out,       \* out[e]: frames in e's out_buf
  wire,      \* wire[e]: frames on their way from e to its peer
  evq,       \* evq[e]: the event ring (types only)
  told       \* told: the server host has seen the AUTH_DEVICE event

\* History.
VARIABLES
  err,       \* err[e]: the message of set_error in this life, or "none"
  evLost,    \* evLost[e]: event types dropped on a full ring
  signed,    \* server signatures made
  proofs,    \* device signatures made
  accepted,  \* transcripts for which the server host decided 1
  rejected   \* transcripts for which the server host decided 0

host == <<evq, told, evLost>>
past == <<signed, proofs, accepted, rejected>>
vars == <<cfg, ctx, out, wire, host, err, past>>

----------------------------------------------------------------------------
(* Data *)

Lives  == 1 .. MaxLives
States == {"HELLO", "SS_HEADER", "AUTH", "READY", "DRAINING", "CLOSED", "ERROR"}
EventTypes == {"HELLO_RECEIVED", "KX_COMPLETE", "AUTH_DEVICE", "AUTHENTICATED",
               "AUTH_FAILED", "DISCONNECTED", "ERROR"}
Pdus   == {"AUTH_DEVICE", "AUTH_OK", "AUTH_FAIL", "DISCONNECT"}
Causes == {"none", "hello decode failed", "server pin mismatch",
           "server HELLO signature invalid", "bad ss header length",
           "ss decrypt failed", "AUTH_DEVICE bad signature",
           "authentication failed", "authentication rejected",
           "unexpected pdu in AUTH", "unknown mux pdu"}

\* t_hello binds both ephemerals; there is one server identity key, so it is
\* left out.  None: have_t_hello is 0.
Transcript == [c : Lives, s : Lives]
None == [c |-> 0, s |-> 0]

\* Whether sk belongs to the advertised public key decides verification.
Verify(sig, msg) == sig.sk = "own" /\ sig.msg = msg

NoSig == [sk |-> "zero", msg |-> None]
SigSet == [sk : {"zero", "own", "other"}, msg : Transcript \cup {None}]

\* A HELLO body (140 bytes), a secretstream header (24 bytes), or a ciphertext.  A frame
\* of another kind than the expected one fails: a ciphertext is taken for a HELLO only if
\* it has its length and its magic, which is excluded here as a forged ciphertext is, and
\* none meets an end that waits for a header, as each life sends its header right after
\* its HELLO.
FrameSet == [kind : {"HELLO", "HEADER", "CIPHER"}, life : Lives, sig : SigSet,
             key : Transcript \cup {None}, seq : Nat, pdu : Pdus \cup {"none"}]

Hello(life, sig) == [kind |-> "HELLO", life |-> life, sig |-> sig,
                     key |-> None, seq |-> 0, pdu |-> "none"]

Header(life, key) == [kind |-> "HEADER", life |-> life, sig |-> NoSig,
                      key |-> key, seq |-> 0, pdu |-> "none"]

Cipher(life, key, seq, pdu, sig) ==
  [kind |-> "CIPHER", life |-> life, sig |-> sig, key |-> key, seq |-> seq,
   pdu |-> pdu]

\* t_hello is None until have_t_hello; push and pull count the messages of the
\* two secretstreams (push_ready and pull_ready tell whether they exist), and
\* header is the life whose stream header pull was initialised with.
CtxSet == [state : States, life : Lives, t_hello : Transcript \cup {None},
           push_ready : BOOLEAN, push : Nat, pull_ready : BOOLEAN, pull : Nat,
           header : Lives \cup {0}, auth_awaiting_decide : BOOLEAN,
           auth_decided : BOOLEAN, auth_complete : BOOLEAN]

\* handshake_start after create or reset: new ephemeral keys, everything cleared.
Fresh(life) ==
  [state |-> "HELLO", life |-> life, t_hello |-> None,
   push_ready |-> FALSE, push |-> 0, pull_ready |-> FALSE, pull |-> 0,
   header |-> 0, auth_awaiting_decide |-> FALSE, auth_decided |-> FALSE,
   auth_complete |-> FALSE]

\* The client speaks first (queue_local_hello, id_sig zero).
FirstOutput(e, life) == IF e = Client THEN <<Hello(life, NoSig)>> ELSE <<>>

----------------------------------------------------------------------------
(* Helpers *)

\* Seeded defect: the ring's capacity is not checked.
QueueEventsUnbounded(e, evs) ==
  /\ evq' = [evq EXCEPT ![e] = @ \o evs]
  /\ UNCHANGED <<evLost, told>>

\* sodchan_i_queue_event for the events of one handler, in order: those that do
\* not fit are dropped.
QueueEvents(e, evs) ==
  LET room == EventCap - Len(evq[e])
      kept == IF Len(evs) <= room THEN Len(evs) ELSE room
  IN  /\ evq' = [evq EXCEPT ![e] = @ \o SubSeq(evs, 1, kept)]
      /\ evLost' = [evLost EXCEPT ![e] =
                      @ \cup {evs[i] : i \in (kept + 1) .. Len(evs)}]
      /\ UNCHANGED told

\* feed_input hands the next frame to process_input, which consumes it or, on an
\* error, leaves it in an in_buf nothing reads again: either way it is gone from
\* the wire.
Arrives(e) ==
  /\ wire[Peer(e)] # <<>>
  /\ ctx[e].state \notin {"ERROR", "CLOSED"}
  /\ wire' = [wire EXCEPT ![Peer(e)] = Tail(@)]

Frame(e) == Head(wire[Peer(e)])

\* sodchan_i_set_error: ERROR and an ERROR event, after the events before it.
Fail(e, cause, before) ==
  /\ ctx' = [ctx EXCEPT ![e].state = "ERROR"]
  /\ err' = [err EXCEPT ![e] = cause]
  /\ QueueEvents(e, Append(before, "ERROR"))

\* Seeded defect: the push stream starts over with every message.
SealedAtZero(e, pdu, sig) == Cipher(ctx[e].life, ctx[e].t_hello, 0, pdu, sig)

\* What e's secretstream push makes of a PDU.
Sealed(e, pdu, sig) ==
  Cipher(ctx[e].life, ctx[e].t_hello, ctx[e].push, pdu, sig)

\* crypto_secretstream_pull accepts the frame.
Opens(e, f) ==
  /\ f.kind = "CIPHER"
  /\ f.key = ctx[e].t_hello
  /\ f.life = ctx[e].header
  /\ f.seq = ctx[e].pull

----------------------------------------------------------------------------
(* Both contexts have been created with one of the configurations. *)
Init ==
  /\ cfg \in Configs
  /\ ctx = [e \in Ends |-> Fresh(1)]
  /\ out = [e \in Ends |-> FirstOutput(e, 1)]
  /\ wire = [e \in Ends |-> <<>>]
  /\ evq = [e \in Ends |-> <<>>]
  /\ told = FALSE
  /\ err = [e \in Ends |-> "none"]
  /\ evLost = [e \in Ends |-> {}]
  /\ signed = {} /\ proofs = {} /\ accepted = {} /\ rejected = {}

----------------------------------------------------------------------------
(* Incoming frames *)

\* Seeded defect: the server signature is not checked.
ServerHelloUnsigned(f, t) ==
  CASE f.kind # "HELLO"                      -> "hello decode failed"
    [] f.kind = "HELLO" /\ cfg.pin = "other" -> "server pin mismatch"
    [] OTHER                                 -> "none"

\* Seeded defect: accept_any_server_pk is ignored.
ServerHelloAlwaysPinned(f, t) ==
  CASE f.kind # "HELLO"                      -> "hello decode failed"
    [] f.kind = "HELLO" /\ cfg.pin # "match" -> "server pin mismatch"
    [] f.kind = "HELLO" /\ cfg.pin = "match" /\ ~Verify(f.sig, t)
                                             -> "server HELLO signature invalid"
    [] OTHER                                 -> "none"

\* The client's checks on the server HELLO, in their order.
ServerHelloVerdict(f, t) ==
  CASE f.kind # "HELLO"                        -> "hello decode failed"
    [] f.kind = "HELLO" /\ cfg.pin = "other"   -> "server pin mismatch"
    [] f.kind = "HELLO" /\ cfg.pin # "other" /\ ~Verify(f.sig, t)
                                               -> "server HELLO signature invalid"
    [] OTHER                                   -> "none"

\* handle_peer_hello on the client: pin, transcript, signature, keys, header.
\* (The t_hello a failed signature check leaves behind is read by nobody.)
RecvServerHello ==
  LET f == Frame(Client)
      t == [c |-> ctx[Client].life, s |-> f.life]
      verdict == ServerHelloVerdict(f, t)
  IN
  /\ ctx[Client].state = "HELLO"
  /\ Arrives(Client)
  /\ \/ /\ verdict # "none"
        /\ Fail(Client, verdict, <<>>)
        /\ UNCHANGED out
     \/ /\ verdict = "none"
        /\ ctx' = [ctx EXCEPT ![Client].state = "SS_HEADER",
                              ![Client].t_hello = t,
                              ![Client].push_ready = TRUE]
        /\ out' = [out EXCEPT ![Client] = Append(@, Header(ctx[Client].life, t))]
        /\ QueueEvents(Client, <<"HELLO_RECEIVED">>)
        /\ UNCHANGED err
  /\ UNCHANGED <<cfg, past>>

\* Seeded defect: a second HELLO is answered, with the keys of the first.
RecvClientHelloAgain ==
  LET f   == Frame(Server)
      t   == [c |-> f.life, s |-> ctx[Server].life]
      sig == [sk |-> cfg.serverSk, msg |-> t]
  IN
  /\ ctx[Server].state \in {"HELLO", "SS_HEADER"}
  /\ Arrives(Server)
  /\ f.kind = "HELLO"
  /\ ctx' = [ctx EXCEPT ![Server].state = "SS_HEADER",
               ![Server].t_hello = IF ctx[Server].state = "HELLO" THEN t ELSE @]
  /\ out' = [out EXCEPT ![Server] = Append(@, Hello(ctx[Server].life, sig))]
  /\ signed' = signed \cup {sig}
  /\ QueueEvents(Server, <<"HELLO_RECEIVED">>)
  /\ UNCHANGED <<cfg, err, proofs, accepted, rejected>>

\* handle_peer_hello on the server: answer with the signed HELLO, derive keys.
RecvClientHello ==
  LET f   == Frame(Server)
      t   == [c |-> f.life, s |-> ctx[Server].life]
      sig == [sk |-> cfg.serverSk, msg |-> t]
  IN
  /\ ctx[Server].state = "HELLO"
  /\ Arrives(Server)
  /\ \/ /\ f.kind # "HELLO"
        /\ Fail(Server, "hello decode failed", <<>>)
        /\ UNCHANGED <<out, signed>>
     \/ /\ f.kind = "HELLO"
        /\ ctx' = [ctx EXCEPT ![Server].state = "SS_HEADER", ![Server].t_hello = t]
        /\ out' = [out EXCEPT ![Server] = Append(@, Hello(ctx[Server].life, sig))]
        /\ signed' = signed \cup {sig}
        /\ QueueEvents(Server, <<"HELLO_RECEIVED">>)
        /\ UNCHANGED err
  /\ UNCHANGED <<cfg, proofs, accepted, rejected>>

\* handle_peer_ss_header on the client: the pull stream, AUTH, and AUTH_DEVICE at
\* once if there is a device key (client_send_auth_device).
RecvServerHeader ==
  LET f   == Frame(Client)
      sig == [sk |-> cfg.deviceSk, msg |-> ctx[Client].t_hello]
  IN
  /\ ctx[Client].state = "SS_HEADER"
  /\ Arrives(Client)
  /\ \/ /\ f.kind # "HEADER"
        /\ Fail(Client, "bad ss header length", <<>>)
        /\ UNCHANGED <<out, proofs>>
     \/ /\ f.kind = "HEADER"
        /\ QueueEvents(Client, <<"KX_COMPLETE">>)
        /\ \/ /\ cfg.deviceSk = "absent"
              /\ ctx' = [ctx EXCEPT ![Client].state = "AUTH",
                                    ![Client].pull_ready = TRUE,
                                    ![Client].header = f.life]
              /\ UNCHANGED <<out, proofs>>
           \/ /\ cfg.deviceSk # "absent"
              /\ ctx' = [ctx EXCEPT ![Client].state = "AUTH",
                                    ![Client].pull_ready = TRUE,
                                    ![Client].header = f.life,
                                    ![Client].push = @ + 1]
              /\ out' = [out EXCEPT ![Client] =
                           Append(@, Sealed(Client, "AUTH_DEVICE", sig))]
              /\ proofs' = proofs \cup {sig}
        /\ UNCHANGED err
  /\ UNCHANGED <<cfg, signed, accepted, rejected>>

\* Seeded defect: the server does not send its own stream header.
RecvClientHeaderNoAnswer ==
  LET f == Frame(Server) IN
  /\ ctx[Server].state = "SS_HEADER"
  /\ Arrives(Server)
  /\ f.kind = "HEADER"
  /\ ctx' = [ctx EXCEPT ![Server].state = "AUTH", ![Server].pull_ready = TRUE,
                        ![Server].header = f.life, ![Server].push_ready = TRUE]
  /\ QueueEvents(Server, <<"KX_COMPLETE">>)
  /\ UNCHANGED <<cfg, out, err, past>>

\* handle_peer_ss_header on the server: the pull stream, then its own header.
RecvClientHeader ==
  LET f == Frame(Server) IN
  /\ ctx[Server].state = "SS_HEADER"
  /\ Arrives(Server)
  /\ \/ /\ f.kind # "HEADER"
        /\ Fail(Server, "bad ss header length", <<>>)
        /\ UNCHANGED out
     \/ /\ f.kind = "HEADER"
        /\ ctx' = [ctx EXCEPT ![Server].state = "AUTH",
                              ![Server].pull_ready = TRUE,
                              ![Server].header = f.life,
                              ![Server].push_ready = TRUE]
        /\ out' = [out EXCEPT ![Server] =
                     Append(@, Header(ctx[Server].life, ctx[Server].t_hello))]
        /\ QueueEvents(Server, <<"KX_COMPLETE">>)
        /\ UNCHANGED err
  /\ UNCHANGED <<cfg, past>>

\* A frame the secretstream does not open.
RecvUnsealable(e) ==
  /\ ctx[e].state \in {"AUTH", "READY", "DRAINING"}
  /\ Arrives(e)
  /\ ~Opens(e, Frame(e))
  /\ Fail(e, "ss decrypt failed", <<>>)
  /\ UNCHANGED <<cfg, out, past>>

\* handle_encrypted_pdu has opened a PDU of this type.
Unsealed(e, pdu) ==
  /\ Arrives(e)
  /\ Opens(e, Frame(e))
  /\ Frame(e).pdu = pdu

\* Seeded defect: the device signature is not checked.
RecvAuthDeviceUnchecked ==
  /\ ctx[Server].state = "AUTH"
  /\ Unsealed(Server, "AUTH_DEVICE")
  /\ ctx' = [ctx EXCEPT ![Server].pull = @ + 1,
                        ![Server].auth_awaiting_decide = TRUE]
  /\ QueueEvents(Server, <<"AUTH_DEVICE">>)
  /\ UNCHANGED <<cfg, out, err, past>>

\* handle_auth_device_pdu: a bad signature is answered at once, a good one waits
\* for the host.
RecvAuthDevice ==
  LET good == Verify(Frame(Server).sig, ctx[Server].t_hello) IN
  /\ ctx[Server].state = "AUTH"
  /\ Unsealed(Server, "AUTH_DEVICE")
  /\ \/ /\ good
        /\ ctx' = [ctx EXCEPT ![Server].pull = @ + 1,
                              ![Server].auth_awaiting_decide = TRUE]
        /\ QueueEvents(Server, <<"AUTH_DEVICE">>)
        /\ UNCHANGED <<out, err>>
     \/ /\ ~good
        /\ out' = [out EXCEPT ![Server] =
                     Append(@, Sealed(Server, "AUTH_FAIL", NoSig))]
        /\ ctx' = [ctx EXCEPT ![Server].pull = @ + 1, ![Server].push = @ + 1,
                              ![Server].state = "ERROR"]
        /\ err' = [err EXCEPT ![Server] = "AUTH_DEVICE bad signature"]
        /\ QueueEvents(Server, <<"AUTH_FAILED", "ERROR">>)
  /\ UNCHANGED <<cfg, past>>

\* handle_auth_ok_pdu
RecvAuthOk ==
  /\ ctx[Client].state = "AUTH"
  /\ Unsealed(Client, "AUTH_OK")
  /\ ctx' = [ctx EXCEPT ![Client].pull = @ + 1, ![Client].state = "READY",
                        ![Client].auth_complete = TRUE]
  /\ QueueEvents(Client, <<"AUTHENTICATED">>)
  /\ UNCHANGED <<cfg, out, err, past>>

\* handle_auth_fail_pdu
RecvAuthFail ==
  /\ ctx[Client].state = "AUTH"
  /\ Unsealed(Client, "AUTH_FAIL")
  /\ Fail(Client, "authentication failed", <<"AUTH_FAILED">>)
  /\ UNCHANGED <<cfg, out, past>>

\* DISCONNECT closes a session that is past AUTH; in AUTH it is unexpected.
RecvDisconnect(e) ==
  /\ Unsealed(e, "DISCONNECT")
  /\ \/ /\ ctx[e].state = "AUTH"
        /\ Fail(e, "unexpected pdu in AUTH", <<>>)
     \/ /\ ctx[e].state \in {"READY", "DRAINING"}
        /\ ctx' = [ctx EXCEPT ![e].pull = @ + 1, ![e].state = "CLOSED"]
        /\ QueueEvents(e, <<"DISCONNECTED">>)
        /\ UNCHANGED err
  /\ UNCHANGED <<cfg, out, past>>

\* An authentication PDU reaches an end that has left AUTH by sodchan_disconnect:
\* handle_mux_pdu does not know it.
RecvLateAuth(e) ==
  /\ ctx[e].state = "DRAINING"
  /\ \E pdu \in {"AUTH_DEVICE", "AUTH_OK", "AUTH_FAIL"} : Unsealed(e, pdu)
  /\ Fail(e, "unknown mux pdu", <<>>)
  /\ UNCHANGED <<cfg, out, past>>

----------------------------------------------------------------------------
(* Host calls *)

\* sodchan_auth_decide(ctx, 1)
AuthAccept ==
  /\ ctx[Server].state = "AUTH"
  /\ ctx[Server].auth_awaiting_decide /\ ~ctx[Server].auth_decided
  /\ told
  /\ ctx' = [ctx EXCEPT ![Server].auth_awaiting_decide = FALSE,
                        ![Server].auth_decided = TRUE,
                        ![Server].auth_complete = TRUE,
                        ![Server].push = @ + 1,
                        ![Server].state = "READY"]
  /\ out' = [out EXCEPT ![Server] = Append(@, Sealed(Server, "AUTH_OK", NoSig))]
  /\ QueueEvents(Server, <<"AUTHENTICATED">>)
  /\ accepted' = accepted \cup {ctx[Server].t_hello}
  /\ UNCHANGED <<cfg, wire, err, signed, proofs, rejected>>

\* Seeded defect: a rejected device is sent AUTH_OK.
AuthRejectSendsOk ==
  /\ ctx[Server].state = "AUTH"
  /\ ctx[Server].auth_awaiting_decide /\ ~ctx[Server].auth_decided
  /\ told
  /\ ctx' = [ctx EXCEPT ![Server].auth_awaiting_decide = FALSE,
                        ![Server].auth_decided = TRUE,
                        ![Server].push = @ + 1,
                        ![Server].state = "ERROR"]
  /\ out' = [out EXCEPT ![Server] = Append(@, Sealed(Server, "AUTH_OK", NoSig))]
  /\ err' = [err EXCEPT ![Server] = "authentication rejected"]
  /\ QueueEvents(Server, <<"AUTH_FAILED", "ERROR">>)
  /\ rejected' = rejected \cup {ctx[Server].t_hello}
  /\ UNCHANGED <<cfg, wire, signed, proofs, accepted>>

\* Seeded defect: a rejection is only local.
AuthRejectSilent ==
  /\ ctx[Server].state = "AUTH"
  /\ ctx[Server].auth_awaiting_decide /\ ~ctx[Server].auth_decided
  /\ told
  /\ ctx' = [ctx EXCEPT ![Server].auth_awaiting_decide = FALSE,
                        ![Server].auth_decided = TRUE,
                        ![Server].push = @ + 1,
                        ![Server].state = "ERROR"]
  /\ err' = [err EXCEPT ![Server] = "authentication rejected"]
  /\ QueueEvents(Server, <<"AUTH_FAILED", "ERROR">>)
  /\ rejected' = rejected \cup {ctx[Server].t_hello}
  /\ UNCHANGED <<cfg, out, wire, signed, proofs, accepted>>

\* sodchan_auth_decide(ctx, 0): AUTH_FAIL, and the server is in ERROR at once.
AuthReject ==
  /\ ctx[Server].state = "AUTH"
  /\ ctx[Server].auth_awaiting_decide /\ ~ctx[Server].auth_decided
  /\ told
  /\ ctx' = [ctx EXCEPT ![Server].auth_awaiting_decide = FALSE,
                        ![Server].auth_decided = TRUE,
                        ![Server].push = @ + 1,
                        ![Server].state = "ERROR"]
  /\ out' = [out EXCEPT ![Server] = Append(@, Sealed(Server, "AUTH_FAIL", NoSig))]
  /\ err' = [err EXCEPT ![Server] = "authentication rejected"]
  /\ QueueEvents(Server, <<"AUTH_FAILED", "ERROR">>)
  /\ rejected' = rejected \cup {ctx[Server].t_hello}
  /\ UNCHANGED <<cfg, wire, signed, proofs, accepted>>

\* sodchan_disconnect: a PDU from AUTH on, otherwise straight to CLOSED.  Bound: a
\* host does not repeat the call in DRAINING.
Disconnect(e) ==
  /\ ctx[e].state \notin {"CLOSED", "DRAINING"}
  /\ \/ /\ ctx[e].push_ready /\ ctx[e].state \in {"AUTH", "READY"}
        /\ out' = [out EXCEPT ![e] = Append(@, Sealed(e, "DISCONNECT", NoSig))]
        /\ ctx' = [ctx EXCEPT ![e].push = @ + 1, ![e].state = "DRAINING"]
     \/ /\ ctx[e].state \notin {"AUTH", "READY"}
        /\ ctx' = [ctx EXCEPT ![e].state = "CLOSED"]
        /\ UNCHANGED out
  /\ UNCHANGED <<cfg, wire, host, err, past>>

\* sodchan_reset: all buffers emptied, the handshake starts over on the same transport.
\* What the former life sent stays there, as whole frames; half a frame, which
\* sodchan_get_output may have handed out, the peer could only fail to parse.
Reset(e) ==
  /\ ctx[e].life < MaxLives
  /\ ctx' = [ctx EXCEPT ![e] = Fresh(ctx[e].life + 1)]
  /\ out' = [out EXCEPT ![e] = FirstOutput(e, ctx[e].life + 1)]
  /\ evq' = [evq EXCEPT ![e] = <<>>]
  /\ evLost' = [evLost EXCEPT ![e] = {}]
  /\ told' = (told /\ e # Server)
  /\ err' = [err EXCEPT ![e] = "none"]
  /\ UNCHANGED <<cfg, wire, past>>

\* The transport is replaced and both hosts reset their contexts for it.
Reconnect ==
  /\ \A e \in Ends : ctx[e].life < MaxLives
  /\ ctx' = [e \in Ends |-> Fresh(ctx[e].life + 1)]
  /\ out' = [e \in Ends |-> FirstOutput(e, ctx[e].life + 1)]
  /\ wire' = [e \in Ends |-> <<>>]
  /\ evq' = [e \in Ends |-> <<>>]
  /\ evLost' = [e \in Ends |-> {}]
  /\ told' = FALSE
  /\ err' = [e \in Ends |-> "none"]
  /\ UNCHANGED <<cfg, past>>

\* sodchan_next_event
NextEvent(e) ==
  /\ evq[e] # <<>>
  /\ evq' = [evq EXCEPT ![e] = Tail(@)]
  /\ told' = (told \/ (e = Server /\ Head(evq[e]) = "AUTH_DEVICE"))
  /\ UNCHANGED <<cfg, ctx, out, wire, evLost, err, past>>

\* sodchan_get_output: the oldest buffered frame goes to the socket.
GetOutput(e) ==
  /\ out[e] # <<>>
  /\ out' = [out EXCEPT ![e] = Tail(@)]
  /\ wire' = [wire EXCEPT ![e] = Append(@, Head(out[e]))]
  /\ UNCHANGED <<cfg, ctx, host, err, past>>

----------------------------------------------------------------------------
(* The system *)

Recv(e) ==
  \/ e = Client /\ (RecvServerHello \/ RecvServerHeader \/ RecvAuthOk \/ RecvAuthFail)
  \/ e = Server /\ (RecvClientHello \/ RecvClientHeader \/ RecvAuthDevice)
  \/ RecvUnsealable(e)
  \/ RecvDisconnect(e)
  \/ RecvLateAuth(e)

Decide == AuthAccept \/ AuthReject

Next ==
  \/ \E e \in Ends : \/ Recv(e) \/ NextEvent(e) \/ GetOutput(e)
                     \/ Disconnect(e) \/ Reset(e)
  \/ Decide
  \/ Reconnect

Spec == Init /\ [][Next]_vars

\* Hosts move bytes, drain events and decide on the device they were shown.
Fairness ==
  /\ \A e \in Ends : WF_vars(Recv(e)) /\ WF_vars(NextEvent(e)) /\ WF_vars(GetOutput(e))
  /\ WF_vars(Decide)

FairSpec == Spec /\ Fairness

----------------------------------------------------------------------------
(* Properties *)

Running(e) == ctx[e].state \in {"AUTH", "READY", "DRAINING"}

Frames(e) == wire[e] \o out[e]

\* Every variable stays in its type; the event ring never exceeds its size.
TypeOK ==
  /\ cfg \in Configs
  /\ ctx \in [Ends -> CtxSet]
  /\ out \in [Ends -> Seq(FrameSet)]
  /\ wire \in [Ends -> Seq(FrameSet)]
  /\ evq \in [Ends -> Seq(EventTypes)]
  /\ \A e \in Ends : Len(evq[e]) <= EventCap
  /\ told \in BOOLEAN
  /\ err \in [Ends -> Causes]
  /\ evLost \in [Ends -> SUBSET EventTypes]
  /\ signed \subseteq SigSet /\ proofs \subseteq SigSet
  /\ accepted \subseteq Transcript /\ rejected \subseteq Transcript

\* The client leaves HELLO only for a server that proved, with the pinned key, the
\* transcript of this very life; a HELLO made for an earlier life of the client
\* or by a server without the key never gets it to derive keys.
ServerProven ==
  ctx[Client].state = "SS_HEADER" \/ Running(Client) =>
    /\ ctx[Client].t_hello.c = ctx[Client].life
    /\ [sk |-> "own", msg |-> ctx[Client].t_hello] \in signed
    /\ cfg.pin # "other"

\* Two running ends are in the same session: same transcript, hence same keys,
\* and each pulls the stream the other one pushes, whatever resets happened.
SessionAgreement ==
  Running(Client) /\ Running(Server) =>
    /\ ctx[Client].t_hello = ctx[Server].t_hello
    /\ \A e \in Ends : ctx[e].header = ctx[Peer(e)].life

\* The secretstreams stay in step: what is in flight towards a running end is
\* exactly the run of positions between its pull and its peer's push counter.
StreamSync ==
  \A e \in Ends :
    LET q == Peer(e) IN
    Running(q) /\ ctx[q].header = ctx[e].life =>
      /\ Len(Frames(e)) = ctx[e].push - ctx[q].pull
      /\ \A i \in DOMAIN Frames(e) : Frames(e)[i].seq = ctx[q].pull + i - 1

\* The server host is asked about, and the server becomes READY for, only a
\* device that signed this session's transcript with its own key; READY means
\* that the host said yes to this transcript and not no.
DeviceProven ==
  /\ ctx[Server].auth_awaiting_decide \/ ctx[Server].auth_decided =>
       [sk |-> "own", msg |-> ctx[Server].t_hello] \in proofs
  /\ ctx[Server].auth_complete => ctx[Server].t_hello \in accepted \ rejected

\* A READY client has been accepted by the server host for exactly this session,
\* although AUTH_OK carries nothing but its type.
ClientReadyIsAccepted ==
  ctx[Client].auth_complete => ctx[Client].t_hello \in accepted \ rejected

\* A host has reset its end: the frames of the former life are lost, and the
\* other end waits for them until it is reset too.
Interrupted == \E e \in Ends : ctx[e].life > 1

\* Without a reset, two honest ends fail only for a reason outside the protocol:
\* the configuration, the host's decision, or a disconnect before READY.
FailureExplained ==
  ~Interrupted =>
    \A e \in Ends :
      CASE err[e] = "server pin mismatch"            -> cfg.pin = "other"
        [] err[e] = "server HELLO signature invalid" -> cfg.serverSk = "other"
        [] err[e] = "AUTH_DEVICE bad signature"      -> cfg.deviceSk = "other"
        [] err[e] = "authentication rejected"        -> rejected # {}
        [] err[e] = "authentication failed"          ->
             rejected # {} \/ cfg.deviceSk = "other"
        [] err[e] = "unexpected pdu in AUTH"         ->
             ctx[Peer(e)].state \in {"DRAINING", "CLOSED", "ERROR"}
        [] err[e] = "unknown mux pdu"                ->
             ctx[e].push > 0 /\ ~ctx[e].auth_complete
        [] OTHER                                     -> err[e] = "none"

\* With matching keys and hosts that drain events, both ends become READY, unless
\* a host resets, rejects or disconnects, the client has no device key (it then
\* waits in AUTH for ever), or the AUTH_DEVICE event was dropped on a full ring.
HandshakeCompletes ==
  (\A e \in Ends : ctx[e].state = "HELLO") ~>
    \/ \A e \in Ends : ctx[e].auth_complete
    \/ Interrupted
    \/ \E e \in Ends : ctx[e].state \in {"DRAINING", "CLOSED", "ERROR"}
    \/ cfg.deviceSk = "absent"
    \/ "AUTH_DEVICE" \in evLost[Server]

\* An end that fails authentication tells the other: after a bad signature or a
\* rejection the client learns AUTH_FAIL, unless it has already left or a host
\* has reset its end.
RejectionReachesClient ==
  err[Server] \in {"AUTH_DEVICE bad signature", "authentication rejected"} ~>
    ctx[Client].state \in {"ERROR", "CLOSED"} \/ Interrupted

============================================================================
