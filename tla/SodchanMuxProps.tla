--------------------------- MODULE SodchanMuxProps ---------------------------
(***************************************************************************)
(* The properties of the multiplexer that relate the two endpoints, the    *)
(* PDUs between them and the events their hosts see.                       *)
(***************************************************************************)
EXTENDS SodchanMuxInv

\* A PDU of type t from (to) channel id is in flight from e.
Has(e, t, id) == \E i \in DOMAIN link[e] :
                   link[e][i].type = t /\ link[e][i].from = id
HasTo(e, t, id) == \E i \in DOMAIN link[e] :
                     link[e][i].type = t /\ link[e][i].to = id

Dead(e) == state[e] \in {"CLOSED", "ERROR"}

\* Bytes (DATA) or credit (WINDOW) in flight from channel id of e.
Carried(m, t, id) == IF m.type = t /\ m.from = id THEN m.len ELSE 0

InFlight(e, t, id) ==
  LET sum[n \in 0 .. Len(link[e])] ==
        IF n = 0 THEN 0 ELSE sum[n - 1] + Carried(link[e][n], t, id)
  IN  sum[Len(link[e])]

\* Flow control conserves credit: for an open channel pair, what the sender may
\* still send, plus the DATA and the WINDOW credit in flight, is exactly the
\* receiver's recv_window.  Nothing is minted, nothing is lost.
FlowConservation ==
  \A e \in Ends : \A a \in Ids :
    LET q == Peer(e)
        b == ch[e][a].peer
    IN  /\ ch[e][a].st = "OPEN"
        /\ ch[q][b].st = "OPEN"
        => ch[q][b].recvw = ch[e][a].sendw + InFlight(e, "DATA", a)
                                           + InFlight(q, "WINDOW", b)

\* The order of one channel's PDUs on the stream: CONFIRM before everything
\* else, no DATA after EOF, nothing after CLOSE; and after DISCONNECT only what
\* the handlers and channel_close still send in DRAINING.
StreamGrammar ==
  \A e \in Ends : \A i, j \in DOMAIN link[e] : i < j =>
    LET m == link[e][i]
        n == link[e][j]
    IN  /\ m.from = n.from /\ m.from # NoId =>
             /\ n.type # "CONFIRM"
             /\ m.type = "EOF" => n.type # "DATA"
             /\ m.type # "CLOSE"
        /\ m.type = "DISCONNECT" =>
             n.type \in {"DISCONNECT", "CLOSE", "OPEN_FAIL", "PONG"}

\* remote_eof means it: once a host has been told of EOF, no more DATA for that
\* channel is on its way.
EofIsFinal ==
  \A e \in Ends : \A id \in Ids :
    ch[e][id].reof => ~HasTo(Peer(e), "DATA", id)

\* A channel in OPENING is always waiting for something identifiable: its OPEN
\* is in flight, the peer host has yet to decide, the answer is in flight, the
\* peer host closed the request without an answer, or the automatic OPEN_FAIL
\* was dropped on a full out_buf.
OpeningAccounted ==
  \A e \in Ends : \A a \in Ids : ch[e][a].st = "OPENING" =>
    LET q == Peer(e)
        b == acc[q][a]
    IN  \/ Has(e, "OPEN", a)
        \/ HasTo(q, "CONFIRM", a)
        \/ HasTo(q, "OPEN_FAIL", a)
        \/ b \in Ids /\ ch[q][b].st = "PENDING"
        \/ b \in closed[q]
        \/ <<"OPEN_FAIL", a>> \in pduLost[q]

\* An OPEN channel has a counterpart: open towards it, or opening with the
\* CONFIRM in flight, or closed by its host; and if the host closed it, the CLOSE
\* is in flight, was dropped on a full out_buf, or was never sent because the
\* host gave up before the CONFIRM (which then is in flight or killed the peer).
CounterpartAccounted ==
  \A e \in Ends : \A a \in Ids : ch[e][a].st = "OPEN" =>
    LET q == Peer(e)
        b == ch[e][a].peer
    IN  \/ ch[q][b].st = "OPEN" /\ ch[q][b].peer = a
        \/ ch[q][b].st = "OPENING" /\ Has(e, "CONFIRM", a)
        \/ /\ b \in closed[q]
           /\ \/ Has(q, "CLOSE", b)
              \/ <<"CLOSE", a>> \in pduLost[q]
              \/ Has(e, "CONFIRM", a)

\* Two honest endpoints never drive each other into ERROR, with two exceptions
\* in the code: a host that closes a channel while DATA or CONFIRM for it is in
\* flight, and a client that disconnects before AUTH_OK arrives.
ErrorHasLocalCause ==
  \A e \in Ends : err[e].cause # "none" =>
    \/ err[e].cause \in {"DATA bad ch", "CONFIRM unknown"} /\ err[e].id \in closed[e]
    \/ /\ err[e].cause = "unknown mux pdu"
       /\ e = Client
       /\ \/ Has(e, "DISCONNECT", NoId)
          \/ <<"DISCONNECT", NoId>> \in pduLost[e]
          \/ state[Server] = "CLOSED"

\* The DATA events of a channel reach the host in stream order and without gaps
\* up to what has been received, as long as no event of it was dropped; an EOF
\* event comes after all of them.
EventStream ==
  \A e \in Ends : \A id \in Ids :
    LET mine == {i \in DOMAIN evq[e] : evq[e][i].id = id}
        data == {i \in mine : evq[e][i].type = "CHANNEL_DATA"}
        Upto(i) == evq[e][i].pos + evq[e][i].len
    IN  <<"CHANNEL_DATA", id>> \notin evLost[e] =>
          \A i \in data :
            /\ \/ \E j \in data : j > i /\ evq[e][j].pos = Upto(i)
               \/ Upto(i) = tally[e][id].rcvd
            /\ \A j \in mine : evq[e][j].type = "CHANNEL_EOF" => j > i

\* A PDU that arrives late is never taken for traffic of a newer channel: if the
\* addressed id is in use at all, it is the very channel the sender meant.  This
\* is what never reusing a local id is for.
LateTraffic ==
  \A e \in Ends : \A i \in DOMAIN link[e] :
    LET m == link[e][i]
        c == ch[Peer(e)][m.to]
    IN  m.type \in {"DATA", "WINDOW", "EOF", "CLOSE"} =>
          /\ c.st \in {"PENDING", "OPEN"} => c.peer = m.from
          /\ c.st = "OPENING" =>
               \E j \in 1 .. (i - 1) : /\ link[e][j].type = "CONFIRM"
                                       /\ link[e][j].from = m.from
                                       /\ link[e][j].to = m.to

----------------------------------------------------------------------------
(* Liveness, under FairSpec *)

\* channel_open is always answered: OPENING ends, unless one of the sessions
\* does, the peer host drops the request, or a full buffer dropped the event or
\* the answer.
OpenResolves ==
  \A e \in Ends : \A a \in Ids :
    LET q == Peer(e) IN
    ch[e][a].st = "OPENING" ~>
      \/ ch[e][a].st # "OPENING"
      \/ state[q] # "READY"
      \/ state[e] \notin {"READY", "DRAINING"}
      \/ acc[q][a] \in closed[q]
      \/ <<"CHANNEL_OPEN", acc[q][a]>> \in evLost[q]
      \/ <<"OPEN_FAIL", a>> \in pduLost[q]

\* Every byte channel_send accepted is received by the peer, unless the peer's
\* session ends.
DataReceived ==
  \A e \in Ends : \A a \in Ids : \A n \in 1 .. SendLimit :
    LET q == Peer(e) IN
    tally[e][a].sent >= n ~>
      \/ Dead(q)
      \/ \E b \in Ids : /\ acc[q][a] = b \/ acc[e][b] = a
                        /\ tally[q][b].rcvd >= n

\* sodchan_disconnect ends the peer's session as well: DISCONNECT gets out of
\* out_buf in DRAINING and past everything sent before it, unless out_buf was full
\* when it was sent or this end's session ends first.
DisconnectReaches ==
  \A e \in Ends :
    state[e] = "DRAINING" ~> \/ Dead(Peer(e)) \/ Dead(e)
                             \/ <<"DISCONNECT", NoId>> \in pduLost[e]

----------------------------------------------------------------------------
(* What the documents promise and the code does not keep *)

\* "enter DRAINING, then CLOSED" (docs/libsodchan-design.md:368): an endpoint
\* that has called sodchan_disconnect gets to CLOSED.
DrainingCloses ==
  \A e \in Ends : state[e] = "DRAINING" ~> state[e] = "CLOSED"

\* "Partial consume when internal buffers full" (docs/libsodchan-design.md:778):
\* a full event queue holds input back, so that no received DATA is dropped.
NoDataEventDropped ==
  \A e \in Ends : \A id \in Ids : <<"CHANNEL_DATA", id>> \notin evLost[e]

\* "assert(ev.u.window.window_avail >= 16)" after a credit of 16
\* (tests/test_sodchan_channels.c:251): a WINDOW event reports at least the
\* credit it just added.
WindowAvailCoversCredit ==
  \A e \in Ends : \A i \in DOMAIN evq[e] :
    evq[e][i].type = "CHANNEL_WINDOW" => evq[e][i].len >= evq[e][i].pos

============================================================================
