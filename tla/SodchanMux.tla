----------------------------- MODULE SodchanMux -----------------------------
(***************************************************************************)
(* The channel multiplexer of libsodchan (src/src/sodchan.c): two endpoint *)
(* contexts, joined by one reliable FIFO byte stream per direction, from   *)
(* the moment the server host has accepted the device.  One action per API *)
(* call and per incoming PDU handler.                                      *)
(*                                                                         *)
(* A PDU is a record; bytes are counted, never spelled out.  The DATA      *)
(* payload is the interval [pos, pos + len) of the sender's byte stream.   *)
(* API calls that return an error without touching the context are         *)
(* stuttering steps and have no action.                                    *)
(***************************************************************************)
EXTENDS Integers, Sequences, FiniteSets

CONSTANTS
  Names,          \* channel names a host may ask for
  Allowed,        \* [Ends -> SUBSET Names]  cfg.allowed_channels
  MaxChannels,    \* [Ends -> Nat]  cfg.max_channels (at most the 16 slots)
  InitialWindow,  \* [Ends -> Nat]  cfg.initial_window
  MaxPacket,      \* [Ends -> Nat]  cfg.max_packet, never 0 after defaulting
  DataMax,        \* SODCHAN_DATA_MAX
  WinMod,         \* 2^32 in the code: windows are uint32_t
  OutCap,         \* how many PDUs fit into out_buf
  EventCap        \* cfg.event_queue_size

\* Bounds on the environment: what hosts and the socket do in one run.
CONSTANTS
  WireCap,        \* PDUs between the two contexts (socket and in_buf)
  OpenLimit,      \* [Ends -> Nat]  a host opens while next_local_channel_id is below
  SendLens,       \* lengths a host passes to channel_send
  Credits,        \* credits a host passes to channel_window_adjust
  RecvCap,        \* a host never raises a receive window above this
  GrantLimit,     \* total credit a host grants on one channel
  SendLimit,      \* total bytes a host sends on one channel
  HostCalls       \* [Ends -> SUBSET CallNames]  the calls each host makes

Client == "CLIENT"
Server == "SERVER"
Ends   == {Client, Server}
Peer(e) == IF e = Client THEN Server ELSE Client

\* Local channel ids that a bounded run can allocate.
Ids == 0 .. (OpenLimit[Client] + OpenLimit[Server] - 1)

\* "ping" is external: no sodchan call sends PING, another implementation may.
CallNames == {"open", "accept", "reject", "send", "eof", "close", "window",
              "disconnect", "ping"}

NoName == "none"
NoId   == -1

ASSUME ConfigAssumption ==
  /\ NoName \notin Names
  /\ Allowed \in [Ends -> SUBSET Names]
  /\ MaxChannels \in [Ends -> Nat]
  /\ InitialWindow \in [Ends -> Nat]
  /\ MaxPacket \in [Ends -> Nat \ {0}]
  /\ DataMax \in Nat
  /\ OutCap \in Nat \ {0}
  /\ EventCap \in Nat \ {0}

ASSUME WidthAssumption ==
  /\ WinMod \in Nat \ {0}
  /\ \A e \in Ends : InitialWindow[e] < WinMod

ASSUME BoundAssumption ==
  /\ WireCap \in Nat \ {0}
  /\ OpenLimit \in [Ends -> Nat]
  /\ SendLens \subseteq Nat
  /\ Credits \subseteq Nat \ {0}
  /\ RecvCap \in Nat
  /\ GrantLimit \in Nat
  /\ SendLimit \in Nat
  /\ HostCalls \in [Ends -> SUBSET CallNames]

VARIABLES
  state,     \* state[e]: ctx->state
  ch,        \* ch[e][id]: the slot with that local_id (UNUSED when there is none)
  nextId,    \* nextId[e]: ctx->next_local_channel_id
  active,    \* active[e]: ctx->active_channels
  link,      \* link[e]: PDUs e has sent and its peer has not handled, oldest first
  outn,      \* outn[e]: how many of them (the newest) still are in e's out_buf
  evq,       \* evq[e]: the event ring
  known      \* known[e]: channel ids e's host has learned

\* History: what happened.  No guard of the code reads it; SendLimit and GrantLimit
\* bound two of its counters.
VARIABLES
  err,       \* err[e]: the message and channel of the error that set ERROR
  closed,    \* closed[e]: ids e's host passed to channel_close
  evLost,    \* evLost[e]: <<event type, id>> dropped on a full event ring
  pduLost,   \* pduLost[e]: <<PDU type, id>> dropped on a full out_buf
  acc,       \* acc[e][a]: e's id for the peer's channel a, once OPEN(a) was handled
  tally      \* tally[e][id]: byte counts of the channel's whole life

table == <<ch, nextId, active>>
io    == <<link, outn>>
host  == <<evq, known, evLost>>
past  == <<closed, pduLost, acc, tally>>
vars  == <<state, table, io, host, err, past>>

----------------------------------------------------------------------------
(* Data *)

States   == {"AUTH", "READY", "DRAINING", "CLOSED", "ERROR"}
ChStates == {"UNUSED", "OPENING", "PENDING", "OPEN"}

PduTypes == {"AUTH_OK", "OPEN", "CONFIRM", "OPEN_FAIL", "DATA", "WINDOW",
             "EOF", "CLOSE", "PING", "PONG", "DISCONNECT"}

EventTypes == {"AUTHENTICATED", "ERROR", "DISCONNECTED", "PING", "CHANNEL_OPEN",
               "CHANNEL_OPENED", "CHANNEL_OPEN_FAIL", "CHANNEL_DATA",
               "CHANNEL_WINDOW", "CHANNEL_EOF", "CHANNEL_CLOSE"}

Causes == {"none", "unknown mux pdu", "CONFIRM unknown", "DATA bad ch",
           "DATA not open", "DATA over window", "DATA over max"}

\* from is the sender's local id (on the wire only in OPEN and CONFIRM; history
\* in the others), to the recipient's.  len is the length of DATA, the credit of
\* WINDOW and the init_window of OPEN and CONFIRM; pos is where DATA starts in
\* the stream, and the credit granted before this WINDOW (history).
PduFields == [type : PduTypes, from : Ids \cup {NoId}, to : Ids \cup {NoId},
              pos : Nat, len : Nat, max : Nat, name : Names \cup {NoName}]

\* Which PDUs name the sender's channel, and which the recipient's.
FromChannel == {"OPEN", "CONFIRM", "DATA", "WINDOW", "EOF", "CLOSE"}
ToChannel   == {"CONFIRM", "OPEN_FAIL", "DATA", "WINDOW", "EOF", "CLOSE"}

PduSet == {m \in PduFields : /\ m.type \in FromChannel => m.from \in Ids
                             /\ m.type \in ToChannel => m.to \in Ids}

Pdu(t, from, to) ==
  [type |-> t, from |-> from, to |-> to, pos |-> 0, len |-> 0, max |-> 0,
   name |-> NoName]

\* CHANNEL_DATA carries its interval of the stream; CHANNEL_WINDOW carries
\* bytes_added in pos and window_avail in len.
EventSet == [type : EventTypes, id : Ids \cup {NoId}, pos : Nat, len : Nat]

Event(t, id) == [type |-> t, id |-> id, pos |-> 0, len |-> 0]

\* sodchan_channel_t; have_peer_id holds exactly in PENDING and OPEN.
ChannelFields == [st : ChStates, peer : Ids \cup {NoId}, sendw : Nat,
                  recvw : Nat, max : Nat, leof : BOOLEAN, reof : BOOLEAN]

ChannelSet == {c \in ChannelFields : c.st \in {"PENDING", "OPEN"} => c.peer \in Ids}

\* A slot after memset(ch, 0, sizeof(*ch)).
FreeSlot == [st |-> "UNUSED", peer |-> NoId, sendw |-> 0, recvw |-> 0,
             max |-> 0, leof |-> FALSE, reof |-> FALSE]

TallySet == [sent : Nat, rcvd : Nat, granted : Nat, credited : Nat]

----------------------------------------------------------------------------
(* Helpers shared by the calls and the handlers *)

Live(e) == {id \in Ids : ch[e][id].st # "UNUSED"}

\* ch_alloc finds a slot; the second conjunct is the bound of Ids, which the
\* OpenLimits keep from ever being the reason.
CanAlloc(e) == /\ active[e] < MaxChannels[e]
               /\ nextId[e] \in Ids

\* ch_alloc followed by the caller filling the slot in.
Alloc(e, slot) ==
  /\ ch' = [ch EXCEPT ![e][nextId[e]] = slot]
  /\ nextId' = [nextId EXCEPT ![e] = @ + 1]
  /\ active' = [active EXCEPT ![e] = @ + 1]

\* Seeded defect: ch_free forgets active_channels.
FreeWithoutCount(e, id) ==
  /\ ch' = [ch EXCEPT ![e][id] = FreeSlot]
  /\ UNCHANGED <<nextId, active>>

\* Seeded defect: ch_free makes the id available again.
FreeRecyclesId(e, id) ==
  /\ ch' = [ch EXCEPT ![e][id] = FreeSlot]
  /\ active' = [active EXCEPT ![e] = @ - 1]
  /\ nextId' = [nextId EXCEPT ![e] = id]

\* ch_free
Free(e, id) ==
  /\ ch' = [ch EXCEPT ![e][id] = FreeSlot]
  /\ active' = [active EXCEPT ![e] = @ - 1]
  /\ UNCHANGED nextId

Full(e) == outn[e] >= OutCap

\* ss_send_pdu, when its error is returned to the host.
Send(e, m) ==
  /\ ~Full(e)
  /\ link' = [link EXCEPT ![e] = Append(@, m)]
  /\ outn' = [outn EXCEPT ![e] = @ + 1]
  /\ UNCHANGED pduLost

\* (void)ss_send_pdu: the PDU is dropped when out_buf is full.
TrySend(e, m) ==
  \/ Send(e, m)
  \/ /\ Full(e)
     /\ pduLost' = [pduLost EXCEPT ![e] = @ \cup {<<m.type, m.to>>}]
     /\ UNCHANGED io

\* Seeded defect: the ring index ignores event_count, the newest event comes first.
QueueEventAtHead(e, ev) ==
  /\ \/ /\ Len(evq[e]) < EventCap
        /\ evq' = [evq EXCEPT ![e] = <<ev>> \o @]
        /\ UNCHANGED evLost
     \/ /\ Len(evq[e]) >= EventCap
        /\ evLost' = [evLost EXCEPT ![e] = @ \cup {<<ev.type, ev.id>>}]
        /\ UNCHANGED evq
  /\ UNCHANGED known

\* sodchan_i_queue_event, whose result every caller ignores.
QueueEvent(e, ev) ==
  /\ \/ /\ Len(evq[e]) < EventCap
        /\ evq' = [evq EXCEPT ![e] = Append(@, ev)]
        /\ UNCHANGED evLost
     \/ /\ Len(evq[e]) >= EventCap
        /\ evLost' = [evLost EXCEPT ![e] = @ \cup {<<ev.type, ev.id>>}]
        /\ UNCHANGED evq
  /\ UNCHANGED known

\* process_input reaches a whole frame: the peer's oldest unhandled PDU has left
\* its out_buf, and e still reads.
Readable(e) ==
  /\ state[e] \notin {"ERROR", "CLOSED"}
  /\ Len(link[Peer(e)]) > outn[Peer(e)]

Incoming(e) == Head(link[Peer(e)])

\* handle_encrypted_pdu dispatches to handle_mux_pdu.
Arrives(e, t) ==
  /\ Readable(e)
  /\ state[e] \in {"READY", "DRAINING"}
  /\ Incoming(e).type = t

\* The handler returned 0: the frame leaves in_buf.
Consume(e) ==
  /\ link' = [link EXCEPT ![Peer(e)] = Tail(@)]
  /\ UNCHANGED <<outn, pduLost>>

\* The frame leaves in_buf, and the handler (void)-sends an answer.
ConsumeAndTrySend(e, m) ==
  \/ /\ ~Full(e)
     /\ link' = [link EXCEPT ![Peer(e)] = Tail(@), ![e] = Append(@, m)]
     /\ outn' = [outn EXCEPT ![e] = @ + 1]
     /\ UNCHANGED pduLost
  \/ /\ Full(e)
     /\ link' = [link EXCEPT ![Peer(e)] = Tail(@)]
     /\ pduLost' = [pduLost EXCEPT ![e] = @ \cup {<<m.type, m.to>>}]
     /\ UNCHANGED outn

\* sodchan_i_set_error from a handler: process_input returns, so the frame is
\* not consumed; nothing will read it, the context stays in ERROR.
Fail(e, cause, id) ==
  /\ state' = [state EXCEPT ![e] = "ERROR"]
  /\ err' = [err EXCEPT ![e] = [cause |-> cause, id |-> id]]
  /\ QueueEvent(e, Event("ERROR", NoId))
  /\ UNCHANGED <<table, io, past>>

\* max_pkt ? max_pkt : ctx->max_packet
PacketLimit(e, max) == IF max = 0 THEN MaxPacket[e] ELSE max

----------------------------------------------------------------------------
(* The server host has just called auth_decide(1): the server is READY, its
   AUTH_OK is in its out_buf, the client still waits in AUTH. *)
Init ==
  /\ state = [e \in Ends |-> IF e = Server THEN "READY" ELSE "AUTH"]
  /\ ch = [e \in Ends |-> [id \in Ids |-> FreeSlot]]
  /\ nextId = [e \in Ends |-> 0]
  /\ active = [e \in Ends |-> 0]
  /\ link = [e \in Ends |-> IF e = Server THEN <<Pdu("AUTH_OK", NoId, NoId)>>
                                          ELSE <<>>]
  /\ outn = [e \in Ends |-> IF e = Server THEN 1 ELSE 0]
  /\ evq = [e \in Ends |-> IF e = Server THEN <<Event("AUTHENTICATED", NoId)>>
                                         ELSE <<>>]
  /\ known = [e \in Ends |-> {}]
  /\ err = [e \in Ends |-> [cause |-> "none", id |-> NoId]]
  /\ closed = [e \in Ends |-> {}]
  /\ evLost = [e \in Ends |-> {}]
  /\ pduLost = [e \in Ends |-> {}]
  /\ acc = [e \in Ends |-> [id \in Ids |-> NoId]]
  /\ tally = [e \in Ends |->
               [id \in Ids |->
                 [sent |-> 0, rcvd |-> 0, granted |-> 0, credited |-> 0]]]

----------------------------------------------------------------------------
(* Host calls *)

\* sodchan_channel_open
ChannelOpen(e, name) ==
  LET id == nextId[e] IN
  /\ state[e] = "READY"
  /\ name \in Allowed[e]
  /\ CanAlloc(e)
  /\ id < OpenLimit[e]
  /\ Send(e, [Pdu("OPEN", id, NoId) EXCEPT
                !.len = InitialWindow[e], !.max = MaxPacket[e], !.name = name])
  /\ Alloc(e, [FreeSlot EXCEPT !.st = "OPENING", !.recvw = InitialWindow[e],
                               !.max = MaxPacket[e]])
  /\ known' = [known EXCEPT ![e] = @ \cup {id}]
  /\ UNCHANGED <<state, evq, evLost, err, closed, acc, tally>>

\* sodchan_channel_open when out_buf is full: ch_alloc has already advanced the
\* id counter, ch_free gives only the slot back.
ChannelOpenFull(e) ==
  /\ state[e] = "READY"
  /\ Allowed[e] # {}
  /\ CanAlloc(e)
  /\ nextId[e] < OpenLimit[e]
  /\ Full(e)
  /\ nextId' = [nextId EXCEPT ![e] = @ + 1]
  /\ UNCHANGED <<state, ch, active, io, host, err, past>>

\* Seeded defect: the slot stays PENDING after CONFIRM was sent.
ChannelAcceptStaysPending(e, id) ==
  /\ state[e] = "READY"
  /\ id \in known[e]
  /\ ch[e][id].st = "PENDING"
  /\ Send(e, [Pdu("CONFIRM", id, ch[e][id].peer) EXCEPT
                !.len = InitialWindow[e], !.max = MaxPacket[e]])
  /\ QueueEvent(e, Event("CHANNEL_OPENED", id))
  /\ UNCHANGED <<state, table, err, closed, acc, tally>>

\* sodchan_channel_accept(ctx, id, 1)
ChannelAccept(e, id) ==
  /\ state[e] = "READY"
  /\ id \in known[e]
  /\ ch[e][id].st = "PENDING"
  /\ Send(e, [Pdu("CONFIRM", id, ch[e][id].peer) EXCEPT
                !.len = InitialWindow[e], !.max = MaxPacket[e]])
  /\ ch' = [ch EXCEPT ![e][id].st = "OPEN", ![e][id].recvw = InitialWindow[e]]
  /\ QueueEvent(e, Event("CHANNEL_OPENED", id))
  /\ UNCHANGED <<state, nextId, active, err, closed, acc, tally>>

\* sodchan_channel_accept(ctx, id, 0)
ChannelReject(e, id) ==
  /\ state[e] = "READY"
  /\ id \in known[e]
  /\ ch[e][id].st = "PENDING"
  /\ Send(e, Pdu("OPEN_FAIL", NoId, ch[e][id].peer))
  /\ Free(e, id)
  /\ UNCHANGED <<state, host, err, closed, acc, tally>>

\* Seeded defect: send_window is not consulted.
ChannelSendUnchecked(e, id, n) ==
  /\ state[e] = "READY"
  /\ ch[e][id].st = "OPEN"
  /\ ~ch[e][id].leof
  /\ n <= ch[e][id].max /\ n <= DataMax
  /\ tally[e][id].sent + n <= SendLimit
  /\ Send(e, [Pdu("DATA", id, ch[e][id].peer) EXCEPT
                !.pos = tally[e][id].sent, !.len = n])
  /\ ch' = [ch EXCEPT ![e][id].sendw = @ - n]
  /\ tally' = [tally EXCEPT ![e][id].sent = @ + n]
  /\ UNCHANGED <<state, nextId, active, host, err, closed, acc>>

\* sodchan_channel_send.  A PDU over max_record_size, which ss_send_pdu refuses without
\* changing anything, is left to SodchanFraming.
ChannelSend(e, id, n) ==
  /\ state[e] = "READY"
  /\ ch[e][id].st = "OPEN"
  /\ ~ch[e][id].leof
  /\ n <= ch[e][id].max /\ n <= DataMax
  /\ n <= ch[e][id].sendw
  /\ tally[e][id].sent + n <= SendLimit
  /\ Send(e, [Pdu("DATA", id, ch[e][id].peer) EXCEPT
                !.pos = tally[e][id].sent, !.len = n])
  /\ ch' = [ch EXCEPT ![e][id].sendw = @ - n]
  /\ tally' = [tally EXCEPT ![e][id].sent = @ + n]
  /\ UNCHANGED <<state, nextId, active, host, err, closed, acc>>

\* Seeded defect: local_eof is never set.
ChannelEofForgotten(e, id) ==
  /\ state[e] = "READY"
  /\ ch[e][id].st = "OPEN"
  /\ ~ch[e][id].leof
  /\ Send(e, Pdu("EOF", id, ch[e][id].peer))
  /\ UNCHANGED <<state, table, host, err, closed, acc, tally>>

\* sodchan_channel_eof (a second call returns OK and does nothing)
ChannelEof(e, id) ==
  /\ state[e] = "READY"
  /\ ch[e][id].st = "OPEN"
  /\ ~ch[e][id].leof
  /\ Send(e, Pdu("EOF", id, ch[e][id].peer))
  /\ ch' = [ch EXCEPT ![e][id].leof = TRUE]
  /\ UNCHANGED <<state, nextId, active, host, err, closed, acc, tally>>

\* Seeded defect: an OPEN channel is freed without telling the peer.
ChannelCloseSilent(e, id) ==
  /\ state[e] \in {"READY", "DRAINING"}
  /\ id \in known[e]
  /\ ch[e][id].st # "UNUSED"
  /\ Free(e, id)
  /\ closed' = [closed EXCEPT ![e] = @ \cup {id}]
  /\ UNCHANGED <<state, io, pduLost, host, err, acc, tally>>

\* Seeded defect: CLOSE is sent but the slot is not freed.
ChannelCloseKeepsSlot(e, id) ==
  /\ state[e] \in {"READY", "DRAINING"}
  /\ id \in known[e]
  /\ ch[e][id].st = "OPEN"
  /\ TrySend(e, Pdu("CLOSE", id, ch[e][id].peer))
  /\ closed' = [closed EXCEPT ![e] = @ \cup {id}]
  /\ UNCHANGED <<state, table, host, err, acc, tally>>

\* sodchan_channel_close: only an OPEN channel tells the peer.
ChannelClose(e, id) ==
  /\ state[e] \in {"READY", "DRAINING"}
  /\ id \in known[e]
  /\ ch[e][id].st # "UNUSED"
  /\ \/ /\ ch[e][id].st = "OPEN"
        /\ TrySend(e, Pdu("CLOSE", id, ch[e][id].peer))
     \/ /\ ch[e][id].st # "OPEN"
        /\ UNCHANGED <<io, pduLost>>
  /\ Free(e, id)
  /\ closed' = [closed EXCEPT ![e] = @ \cup {id}]
  /\ UNCHANGED <<state, host, err, acc, tally>>

\* Seeded defect: the credit is announced, recv_window is not raised.
ChannelWindowAdjustUncounted(e, id, credit) ==
  /\ state[e] = "READY"
  /\ ch[e][id].st = "OPEN"
  /\ tally[e][id].granted + credit <= GrantLimit
  /\ Send(e, [Pdu("WINDOW", id, ch[e][id].peer) EXCEPT
                !.pos = tally[e][id].granted, !.len = credit])
  /\ tally' = [tally EXCEPT ![e][id].granted = @ + credit]
  /\ UNCHANGED <<state, table, host, err, closed, acc>>

\* sodchan_channel_window_adjust; recv_window is a uint32_t.
ChannelWindowAdjust(e, id, credit) ==
  /\ state[e] = "READY"
  /\ ch[e][id].st = "OPEN"
  /\ ch[e][id].recvw + credit <= RecvCap
  /\ tally[e][id].granted + credit <= GrantLimit
  /\ Send(e, [Pdu("WINDOW", id, ch[e][id].peer) EXCEPT
                !.pos = tally[e][id].granted, !.len = credit])
  /\ ch' = [ch EXCEPT ![e][id].recvw = (@ + credit) % WinMod]
  /\ tally' = [tally EXCEPT ![e][id].granted = @ + credit]
  /\ UNCHANGED <<state, nextId, active, host, err, closed, acc>>

\* sodchan_disconnect with the send half of the stream ready.
Disconnect(e) ==
  /\ state[e] \in {"READY", "AUTH", "DRAINING"}
  /\ TrySend(e, Pdu("DISCONNECT", NoId, NoId))
  /\ state' = [state EXCEPT ![e] = "DRAINING"]
  /\ UNCHANGED <<table, host, err, closed, acc, tally>>

\* sodchan_disconnect in ERROR
DisconnectAfterError(e) ==
  /\ state[e] = "ERROR"
  /\ state' = [state EXCEPT ![e] = "CLOSED"]
  /\ UNCHANGED <<table, io, host, err, past>>

\* sodchan_next_event: an OPEN event tells the host the local id.
NextEvent(e) ==
  /\ evq[e] # <<>>
  /\ evq' = [evq EXCEPT ![e] = Tail(@)]
  /\ known' = [known EXCEPT ![e] =
                 @ \cup {id \in {Head(evq[e]).id} :
                           Head(evq[e]).type = "CHANNEL_OPEN"}]
  /\ UNCHANGED <<state, table, io, evLost, err, past>>

\* Seeded defect: only a session that is not DRAINING hands out its output.
GetOutputUndrained(e) ==
  /\ state[e] # "DRAINING"
  /\ outn[e] > 0
  /\ Len(link[e]) - outn[e] < WireCap
  /\ outn' = [outn EXCEPT ![e] = @ - 1]
  /\ UNCHANGED <<state, table, link, host, err, past>>

\* sodchan_get_output: the host moves the oldest buffered frame to the socket.
GetOutput(e) ==
  /\ outn[e] > 0
  /\ Len(link[e]) - outn[e] < WireCap
  /\ outn' = [outn EXCEPT ![e] = @ - 1]
  /\ UNCHANGED <<state, table, link, host, err, past>>

\* External: a peer implementation that keeps the session alive with PING, one
\* at a time.
PeerPing(e) ==
  /\ state[e] = "READY"
  /\ \A i \in DOMAIN link[e] : link[e][i].type # "PING"
  /\ Send(e, Pdu("PING", NoId, NoId))
  /\ UNCHANGED <<state, table, host, err, closed, acc, tally>>

----------------------------------------------------------------------------
(* Incoming PDUs *)

\* handle_auth_ok_pdu: only the client waits for it.
RecvAuthOk(e) ==
  /\ Readable(e)
  /\ state[e] = "AUTH"
  /\ Incoming(e).type = "AUTH_OK"
  /\ state' = [state EXCEPT ![e] = "READY"]
  /\ Consume(e)
  /\ QueueEvent(e, Event("AUTHENTICATED", NoId))
  /\ UNCHANGED <<table, err, closed, acc, tally>>

\* handle_mux_pdu's default case: AUTH_OK reaches a client that called
\* sodchan_disconnect while it was in AUTH.
RecvUnknown(e) ==
  /\ Arrives(e, "AUTH_OK")
  /\ Fail(e, "unknown mux pdu", NoId)

\* Seeded defect: a refused OPEN is dropped without OPEN_FAIL.
RecvOpenRefusedSilent(e) ==
  LET m == Incoming(e) IN
  /\ Arrives(e, "OPEN")
  /\ m.name \notin Allowed[e] \/ active[e] >= MaxChannels[e]
  /\ Consume(e)
  /\ UNCHANGED <<state, table, host, err, closed, acc, tally>>

\* CHANNEL_OPEN refused by the allowlist or for lack of a slot.
RecvOpenRefused(e) ==
  LET m == Incoming(e) IN
  /\ Arrives(e, "OPEN")
  /\ m.name \notin Allowed[e] \/ active[e] >= MaxChannels[e]
  /\ ConsumeAndTrySend(e, Pdu("OPEN_FAIL", NoId, m.from))
  /\ UNCHANGED <<state, table, host, err, closed, acc, tally>>

\* CHANNEL_OPEN that takes a slot and waits for the host.
RecvOpenPending(e) ==
  LET m == Incoming(e) IN
  /\ Arrives(e, "OPEN")
  /\ m.name \in Allowed[e]
  /\ CanAlloc(e)
  /\ Alloc(e, [FreeSlot EXCEPT !.st = "PENDING", !.peer = m.from,
                 !.sendw = m.len, !.max = PacketLimit(e, m.max),
                 !.recvw = InitialWindow[e]])
  /\ QueueEvent(e, Event("CHANNEL_OPEN", nextId[e]))
  /\ Consume(e)
  /\ acc' = [acc EXCEPT ![e][m.from] = nextId[e]]
  /\ UNCHANGED <<state, err, closed, tally>>

\* Seeded defect: the two ids of CONFIRM are swapped when the peer is bound.
RecvConfirmSwapped(e) ==
  LET m == Incoming(e) IN
  /\ Arrives(e, "CONFIRM")
  /\ ch[e][m.to].st = "OPENING"
  /\ ch' = [ch EXCEPT ![e][m.to].st = "OPEN",
                      ![e][m.to].peer = m.to,
                      ![e][m.to].sendw = m.len,
                      ![e][m.to].max = PacketLimit(e, m.max)]
  /\ QueueEvent(e, Event("CHANNEL_OPENED", m.to))
  /\ Consume(e)
  /\ UNCHANGED <<state, nextId, active, err, closed, acc, tally>>

\* CHANNEL_OPEN_CONFIRM
RecvConfirm(e) ==
  LET m == Incoming(e) IN
  /\ Arrives(e, "CONFIRM")
  /\ \/ /\ ch[e][m.to].st = "OPENING"
        /\ ch' = [ch EXCEPT ![e][m.to].st = "OPEN",
                            ![e][m.to].peer = m.from,
                            ![e][m.to].sendw = m.len,
                            ![e][m.to].max = PacketLimit(e, m.max)]
        /\ QueueEvent(e, Event("CHANNEL_OPENED", m.to))
        /\ Consume(e)
        /\ UNCHANGED <<state, nextId, active, err, closed, acc, tally>>
     \/ /\ ch[e][m.to].st # "OPENING"
        /\ Fail(e, "CONFIRM unknown", m.to)

\* Seeded defect: OPEN_FAIL reports the failure but keeps the slot in OPENING.
RecvOpenFailKeepsSlot(e) ==
  LET m == Incoming(e) IN
  /\ Arrives(e, "OPEN_FAIL")
  /\ QueueEvent(e, Event("CHANNEL_OPEN_FAIL", m.to))
  /\ Consume(e)
  /\ UNCHANGED <<state, table, err, closed, acc, tally>>

\* CHANNEL_OPEN_FAIL: ignored unless the channel still is OPENING.
RecvOpenFail(e) ==
  LET m == Incoming(e) IN
  /\ Arrives(e, "OPEN_FAIL")
  /\ \/ /\ ch[e][m.to].st = "OPENING"
        /\ QueueEvent(e, Event("CHANNEL_OPEN_FAIL", m.to))
        /\ Free(e, m.to)
     \/ /\ ch[e][m.to].st # "OPENING"
        /\ UNCHANGED <<table, host>>
  /\ Consume(e)
  /\ UNCHANGED <<state, err, closed, acc, tally>>

\* The checks of the CHANNEL_DATA case, in their order.
DataVerdict(c, n) ==
  CASE c.st \in {"UNUSED", "OPENING"} -> "DATA bad ch"
    [] c.st = "PENDING"               -> "DATA not open"
    [] c.st = "OPEN" /\ n > c.recvw   -> "DATA over window"
    [] c.st = "OPEN" /\ n <= c.recvw /\ n > DataMax -> "DATA over max"
    [] OTHER                          -> "none"

\* Seeded defect: the window is debited only when the event was queued.
RecvDataDebitsQueued(e) ==
  LET m == Incoming(e) IN
  /\ Arrives(e, "DATA")
  /\ DataVerdict(ch[e][m.to], m.len) = "none"
  /\ ch' = IF Len(evq[e]) < EventCap
             THEN [ch EXCEPT ![e][m.to].recvw = @ - m.len] ELSE ch
  /\ QueueEvent(e, [Event("CHANNEL_DATA", m.to) EXCEPT
                      !.pos = m.pos, !.len = m.len])
  /\ Consume(e)
  /\ tally' = [tally EXCEPT ![e][m.to].rcvd = @ + m.len]
  /\ UNCHANGED <<state, nextId, active, err, closed, acc>>

\* Seeded defect: DATA is skipped when the event ring is full.
RecvDataSkipsFull(e) ==
  LET m == Incoming(e) IN
  /\ Arrives(e, "DATA")
  /\ DataVerdict(ch[e][m.to], m.len) = "none"
  /\ Consume(e)
  /\ \/ /\ Len(evq[e]) < EventCap
        /\ ch' = [ch EXCEPT ![e][m.to].recvw = @ - m.len]
        /\ QueueEvent(e, [Event("CHANNEL_DATA", m.to) EXCEPT
                            !.pos = m.pos, !.len = m.len])
        /\ tally' = [tally EXCEPT ![e][m.to].rcvd = @ + m.len]
     \/ /\ Len(evq[e]) >= EventCap
        /\ UNCHANGED <<ch, host, tally>>
  /\ UNCHANGED <<state, nextId, active, err, closed, acc>>

\* CHANNEL_DATA: the window is debited whether or not the event is queued.
RecvData(e) ==
  LET m       == Incoming(e)
      verdict == DataVerdict(ch[e][m.to], m.len)
  IN
  /\ Arrives(e, "DATA")
  /\ \/ /\ verdict = "none"
        /\ ch' = [ch EXCEPT ![e][m.to].recvw = @ - m.len]
        /\ QueueEvent(e, [Event("CHANNEL_DATA", m.to) EXCEPT
                            !.pos = m.pos, !.len = m.len])
        /\ Consume(e)
        /\ tally' = [tally EXCEPT ![e][m.to].rcvd = @ + m.len]
        /\ UNCHANGED <<state, nextId, active, err, closed, acc>>
     \/ /\ verdict # "none"
        /\ Fail(e, verdict, m.to)

\* CHANNEL_WINDOW: stale credit is ignored, send_window is a uint32_t.
RecvWindow(e) ==
  LET m == Incoming(e) IN
  /\ Arrives(e, "WINDOW")
  /\ \/ /\ ch[e][m.to].st = "OPEN"
        /\ ch' = [ch EXCEPT ![e][m.to].sendw = (@ + m.len) % WinMod]
        /\ tally' = [tally EXCEPT ![e][m.to].credited = @ + m.len]
        /\ QueueEvent(e, [Event("CHANNEL_WINDOW", m.to) EXCEPT
                            !.pos = m.len, !.len = ch'[e][m.to].sendw])
     \/ /\ ch[e][m.to].st # "OPEN"
        /\ UNCHANGED <<ch, tally, host>>
  /\ Consume(e)
  /\ UNCHANGED <<state, nextId, active, err, closed, acc>>

\* CHANNEL_EOF: recorded for a channel in any state.
RecvEof(e) ==
  LET m == Incoming(e) IN
  /\ Arrives(e, "EOF")
  /\ \/ /\ ch[e][m.to].st # "UNUSED"
        /\ ch' = [ch EXCEPT ![e][m.to].reof = TRUE]
        /\ QueueEvent(e, Event("CHANNEL_EOF", m.to))
     \/ /\ ch[e][m.to].st = "UNUSED"
        /\ UNCHANGED <<ch, host>>
  /\ Consume(e)
  /\ UNCHANGED <<state, nextId, active, err, closed, acc, tally>>

\* CHANNEL_CLOSE: no answer; a CLOSE for a channel already gone is ignored.
RecvClose(e) ==
  LET m == Incoming(e) IN
  /\ Arrives(e, "CLOSE")
  /\ \/ /\ ch[e][m.to].st # "UNUSED"
        /\ QueueEvent(e, Event("CHANNEL_CLOSE", m.to))
        /\ Free(e, m.to)
     \/ /\ ch[e][m.to].st = "UNUSED"
        /\ UNCHANGED <<table, host>>
  /\ Consume(e)
  /\ UNCHANGED <<state, err, closed, acc, tally>>

\* PING: an event, and PONG if it fits.
RecvPing(e) ==
  /\ Arrives(e, "PING")
  /\ QueueEvent(e, Event("PING", NoId))
  /\ ConsumeAndTrySend(e, Pdu("PONG", NoId, NoId))
  /\ UNCHANGED <<state, table, err, closed, acc, tally>>

\* PONG
RecvPong(e) ==
  /\ Arrives(e, "PONG")
  /\ Consume(e)
  /\ UNCHANGED <<state, table, host, err, closed, acc, tally>>

\* DISCONNECT: the event, then CLOSED; nothing is sent back.
RecvDisconnect(e) ==
  /\ Arrives(e, "DISCONNECT")
  /\ QueueEvent(e, Event("DISCONNECTED", NoId))
  /\ state' = [state EXCEPT ![e] = "CLOSED"]
  /\ Consume(e)
  /\ UNCHANGED <<table, err, closed, acc, tally>>

----------------------------------------------------------------------------
(* The system *)

Recv(e) ==
  \/ RecvAuthOk(e)
  \/ RecvUnknown(e)
  \/ RecvOpenRefused(e)
  \/ RecvOpenPending(e)
  \/ RecvConfirm(e)
  \/ RecvOpenFail(e)
  \/ RecvData(e)
  \/ RecvWindow(e)
  \/ RecvEof(e)
  \/ RecvClose(e)
  \/ RecvPing(e)
  \/ RecvPong(e)
  \/ RecvDisconnect(e)

\* Calls a host chooses to make.
Call(e) ==
  \/ /\ "open" \in HostCalls[e]
     /\ (\E name \in Names : ChannelOpen(e, name)) \/ ChannelOpenFull(e)
  \/ \E id \in Ids :
       \/ "accept" \in HostCalls[e] /\ ChannelAccept(e, id)
       \/ "reject" \in HostCalls[e] /\ ChannelReject(e, id)
       \/ "send" \in HostCalls[e] /\ \E n \in SendLens : ChannelSend(e, id, n)
       \/ "eof" \in HostCalls[e] /\ ChannelEof(e, id)
       \/ "close" \in HostCalls[e] /\ ChannelClose(e, id)
       \/ /\ "window" \in HostCalls[e]
          /\ \E credit \in Credits : ChannelWindowAdjust(e, id, credit)
  \/ "disconnect" \in HostCalls[e] /\ (Disconnect(e) \/ DisconnectAfterError(e))
  \/ "ping" \in HostCalls[e] /\ PeerPing(e)

\* The loop every host runs: move bytes, drain events.
Pump(e) == GetOutput(e) \/ NextEvent(e) \/ Recv(e)

Next == \E e \in Ends : Call(e) \/ Pump(e)

Spec == Init /\ [][Next]_vars

\* The host decides on a request it has seen.
Answer(e) ==
  \E id \in Ids :
    \/ "accept" \in HostCalls[e] /\ ChannelAccept(e, id)
    \/ "reject" \in HostCalls[e] /\ ChannelReject(e, id)

\* What the code's scheduling justifies: a host keeps moving bytes and draining
\* events, a fed frame is handled by the call that feeds it, and a host answers
\* the channel requests it has seen.
Fairness ==
  \A e \in Ends :
    /\ WF_vars(GetOutput(e))
    /\ WF_vars(NextEvent(e))
    /\ WF_vars(Recv(e))
    /\ WF_vars(Answer(e))

FairSpec == Spec /\ Fairness

----------------------------------------------------------------------------
(* Invariants that SodchanMuxProofs proves *)

TypeSession ==
  /\ state \in [Ends -> States]
  /\ err \in [Ends -> [cause : Causes, id : Ids \cup {NoId}]]

TypeTable ==
  /\ ch \in [Ends -> [Ids -> ChannelSet]]
  /\ nextId \in [Ends -> Nat]
  /\ active \in [Ends -> Nat]

TypeIO ==
  /\ link \in [Ends -> Seq(PduSet)]
  /\ outn \in [Ends -> 0 .. OutCap]
  /\ \A e \in Ends : outn[e] <= Len(link[e])
  /\ pduLost \in [Ends -> SUBSET (PduTypes \X (Ids \cup {NoId}))]

TypeHost ==
  /\ evq \in [Ends -> Seq(EventSet)]
  /\ \A e \in Ends : Len(evq[e]) <= EventCap
  /\ known \in [Ends -> SUBSET (Ids \cup {NoId})]
  /\ evLost \in [Ends -> SUBSET (EventTypes \X (Ids \cup {NoId}))]

TypePast ==
  /\ closed \in [Ends -> SUBSET Ids]
  /\ acc \in [Ends -> [Ids -> Ids \cup {NoId}]]
  /\ tally \in [Ends -> [Ids -> TallySet]]

\* Every variable stays in its type; in particular no window goes below zero,
\* out_buf and the event ring never hold more than they can, and a PDU that is
\* about a channel always carries a channel id, because a PENDING or OPEN channel
\* always knows its peer's.
TypeOK == TypeSession /\ TypeTable /\ TypeIO /\ TypeHost /\ TypePast

\* ch_alloc and ch_free keep active_channels equal to the number of slots in
\* use, on every path (a refused open, a rejected request, CLOSE crossing
\* CLOSE), so the max_channels limit is enforced and never leaks.
SlotAccounting ==
  \A e \in Ends : /\ active[e] = Cardinality(Live(e))
                  /\ active[e] <= MaxChannels[e]

\* Between two sodchan endpoints a DATA PDU never exceeds the receive window,
\* never exceeds DATA_MAX and never reaches a channel the host has not accepted,
\* whatever sends, credits and closes are in flight.
NoOverWindow ==
  \A e \in Ends : err[e].cause \notin
    {"DATA over window", "DATA over max", "DATA not open"}

============================================================================
