------------------------- MODULE SodchanHandshakeInv -------------------------
(***************************************************************************)
(* The inductive invariant behind the safety properties of                 *)
(* SodchanHandshake, in six parts: what a context holds in each phase,     *)
(* where the frames in flight stand in their stream, what they carry, and  *)
(* what the signatures, the host's decisions and the errors imply.         *)
(* SodchanHandshakeProofs proves it.                                       *)
(***************************************************************************)
EXTENDS SodchanHandshake

----------------------------------------------------------------------------
(* Contexts *)

Early == {"HELLO", "SS_HEADER", "AUTH"}
Gone  == {"DRAINING", "CLOSED", "ERROR"}

\* t_hello exists and the peer's frames are being read.
InSession(e) == ctx[e].state = "SS_HEADER" \/ Running(e)

\* The life of e, and of its peer, in e's transcript.
OwnLife(e)  == IF e = Client THEN ctx[e].t_hello.c ELSE ctx[e].t_hello.s
PeerLife(e) == IF e = Client THEN ctx[e].t_hello.s ELSE ctx[e].t_hello.c

PhaseOK(e) ==
  /\ ctx[e].state = "HELLO" => ctx[e] = Fresh(ctx[e].life)
  /\ InSession(e) => ctx[e].t_hello # None
  /\ ctx[e].state = "SS_HEADER" =>
       ctx[e].push = 0 /\ ctx[e].pull = 0 /\ (ctx[e].push_ready <=> e = Client)
  /\ Running(e) => ctx[e].push_ready /\ ctx[e].header = PeerLife(e)
  /\ ctx[e].t_hello # None =>
       OwnLife(e) = ctx[e].life /\ PeerLife(e) <= ctx[Peer(e)].life
  /\ ctx[e].push_ready => ctx[e].t_hello # None
  /\ ~ctx[e].push_ready => ctx[e].push = 0
  /\ ctx[e].state = "AUTH" /\ e = Server => ctx[e].push = 0
  /\ ctx[e].state = "DRAINING" => ctx[e].push > 0
  /\ ctx[e].state \in Early => ~ctx[e].auth_complete /\ ~ctx[e].auth_decided
  /\ ctx[e].state \in {"HELLO", "SS_HEADER"} => ~ctx[e].auth_awaiting_decide
  /\ ctx[e].auth_awaiting_decide \/ ctx[e].auth_complete => ctx[e].pull > 0

PhaseInv == \A e \in Ends : PhaseOK(e)

----------------------------------------------------------------------------
(* Streams: F is a sequence of frames in flight in one direction *)

\* A frame's place in what its sender puts out in one life: the HELLO, the
\* stream header, then the ciphertexts.
Place(f) == CASE f.kind = "HELLO"  -> 0
              [] f.kind = "HEADER" -> 1
              [] OTHER             -> f.seq + 2

\* Lives succeed one another, frames of one life have no gap, and a frame of a
\* later life has all its predecessors behind the earlier life's frames.
Ordered(F) ==
  \A i, j \in DOMAIN F : i < j =>
    /\ F[i].life <= F[j].life
    /\ F[i].life = F[j].life => Place(F[j]) = Place(F[i]) + (j - i)
    /\ F[i].life < F[j].life => Place(F[j]) < j - i

\* The sender has put out n frames in this life; those in flight are the last
\* ones, behind everything from earlier lives.
SentUpTo(F, life, n) ==
  \A i \in DOMAIN F :
    /\ F[i].life <= life
    /\ F[i].life = life => Place(F[i]) + 1 + Len(F) = n + i
    /\ F[i].life < life => i + n <= Len(F)

\* The receiver is in a session with the sender's life l and has read r frames
\* of it; frames of later lives arrive from their HELLO on.
ReadUpTo(F, l, r) ==
  \A i \in DOMAIN F :
    /\ l <= F[i].life
    /\ F[i].life = l => Place(F[i]) + 1 = r + i
    /\ l < F[i].life => Place(F[i]) < i

\* What was sent in this life is what was read or is in flight; if the receiver
\* is in a session with an earlier life, nothing of this one has been read.
Balanced(F, life, n, l, r) ==
  /\ l <= life
  /\ l = life => Len(F) + r = n
  /\ l < life => n <= Len(F)

\* Frames e has put out in this life, and frames it has read in its session.
SentCount(e) ==
  (IF e = Client \/ ctx[e].t_hello # None THEN 1 ELSE 0)
    + (IF ctx[e].push_ready THEN 1 ELSE 0) + ctx[e].push

ReadCount(e) == IF ctx[e].state = "SS_HEADER" THEN 1 ELSE ctx[e].pull + 2

StreamOK(e) ==
  LET q == Peer(e) IN
  /\ Ordered(Frames(e))
  /\ SentUpTo(Frames(e), ctx[e].life, SentCount(e))
  /\ InSession(q) =>
       /\ ReadUpTo(Frames(e), PeerLife(q), ReadCount(q))
       /\ Balanced(Frames(e), ctx[e].life, SentCount(e), PeerLife(q), ReadCount(q))
  /\ ctx[q].state = "HELLO" /\ ~Interrupted => Len(Frames(e)) = SentCount(e)

StreamInv == \A e \in Ends : StreamOK(e)

----------------------------------------------------------------------------
(* Frames, signatures, decisions, errors *)

\* The frames e has sent and its peer has not read.
InTransit(e) == {Frames(e)[i] : i \in DOMAIN Frames(e)}

ClientPdus == {"AUTH_DEVICE", "DISCONNECT"}
ServerPdus == {"AUTH_OK", "AUTH_FAIL", "DISCONNECT"}

\* No life in t lies ahead of the contexts.
Reached(t) == t.c <= ctx[Client].life /\ t.s <= ctx[Server].life

\* A frame is what its sender's program makes: HELLOs are signed with the
\* server's key, ciphertexts are sealed under a transcript, the answers to
\* AUTH_DEVICE are the server's first ciphertext and follow a decision.
HonestFrame(e, f) ==
  /\ f.kind = "HELLO" /\ e = Server =>
       f.sig \in signed /\ f.sig.sk = cfg.serverSk
  /\ f.kind = "CIPHER" =>
       /\ f.key # None /\ Reached(f.key)
       /\ f.pdu \in IF e = Client THEN ClientPdus ELSE ServerPdus
       /\ f.pdu = "AUTH_DEVICE" =>
            /\ f.seq = 0
            /\ f.sig \in proofs
            /\ f.sig = [sk |-> cfg.deviceSk, msg |-> f.key]
            /\ cfg.deviceSk # "absent"
       /\ f.pdu \in {"AUTH_OK", "AUTH_FAIL"} => f.seq = 0
       /\ f.pdu = "AUTH_OK" => f.key \in accepted \ rejected
       /\ f.pdu = "AUTH_FAIL" => rejected # {} \/ cfg.deviceSk = "other"
       /\ f.pdu = "DISCONNECT" /\ f.life = ctx[e].life => ctx[e].state \in Gone

HonestInv == \A e \in Ends : \A f \in InTransit(e) : HonestFrame(e, f)

\* The server signs once in a life and for ever later lives of the client; a HELLO
\* of the client that is still in flight has not been answered.
SignedInv ==
  /\ \A g \in signed :
       /\ g.msg # None /\ Reached(g.msg)
       /\ g.msg.s = ctx[Server].life => ctx[Server].state # "HELLO"
       /\ \A f \in InTransit(Client) : f.kind = "HELLO" => g.msg.c < f.life
  /\ \A g, h \in signed :
       /\ g.msg.s = h.msg.s => g.msg.c = h.msg.c
       /\ g.msg.s < h.msg.s => g.msg.c < h.msg.c
  /\ ctx[Client].t_hello # None =>
       [sk |-> "own", msg |-> ctx[Client].t_hello] \in signed /\ cfg.pin # "other"
  /\ ctx[Server].t_hello # None =>
       [sk |-> cfg.serverSk, msg |-> ctx[Server].t_hello] \in signed

\* The host decides once in a life of the server, about a device that signed.
DecidedInv ==
  /\ accepted \cap rejected = {}
  /\ \A t \in accepted \cup rejected :
       /\ t.s <= ctx[Server].life
       /\ t.s = ctx[Server].life => ctx[Server].auth_decided
  /\ DeviceProven
  /\ ClientReadyIsAccepted

\* A context with an error has stopped.
ErrorInv ==
  /\ \A e \in Ends : err[e] # "none" => ctx[e].state \in {"ERROR", "CLOSED"}
  /\ FailureExplained

HandshakeInv ==
  /\ TypeOK
  /\ PhaseInv
  /\ StreamInv
  /\ HonestInv
  /\ SignedInv
  /\ DecidedInv
  /\ ErrorInv

============================================================================
