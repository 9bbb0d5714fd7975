-------------------------- MODULE SodchanMuxTraffic --------------------------
(***************************************************************************)
(* The inductive invariant behind the properties of SodchanMuxProps: what  *)
(* a PDU in flight says about the two ends of its channel.                 *)
(* SodchanMuxTrafficProofs proves it on top of FlowInv.                    *)
(***************************************************************************)
EXTENDS SodchanMuxProps

\* What is in flight from e.
Wire(e) == {link[e][i] : i \in DOMAIN link[e]}

\* The PDUs of a channel that has been confirmed.
Talk == {"DATA", "WINDOW", "EOF", "CLOSE"}

\* Channel id of e has nothing in flight but perhaps its OPEN.
Mute(e, id) == \A n \in Wire(e) : n.from = id => n.type \notin Talk \cup {"CONFIRM"}

----------------------------------------------------------------------------
(* Sessions *)

\* AUTH_OK is the server's first PDU, and the client is READY only after it.
AuthOkFirst ==
  \A e \in Ends : \A i \in DOMAIN link[e] : link[e][i].type = "AUTH_OK" =>
    e = Server /\ i = 1 /\ state[Client] # "READY"

\* e's DISCONNECT is in flight, was dropped on a full out_buf, or has arrived.
Told(e) == \/ Has(e, "DISCONNECT", NoId)
           \/ <<"DISCONNECT", NoId>> \in pduLost[e]
           \/ state[Peer(e)] = "CLOSED"

DrainTold == \A e \in Ends : state[e] = "DRAINING" => Told(e)

SessionInv == AuthOkFirst /\ DrainTold

----------------------------------------------------------------------------
(* Channels *)

\* What m, in flight from e, says about e: the channel it came from has been
\* allocated, and is in a state in which the code has sent it or in a later one.
PduSent(e, m) ==
  /\ m.type \notin FromChannel => m.from = NoId
  /\ m.type \in {"EOF", "CLOSE"} => Paired(e, m.from, m.to)
  /\ m.type = "OPEN" => ch[e][m.from].st = "OPENING" \/ m.from \in closed[e]
  /\ m.type \in Talk \cup {"CONFIRM"} => ch[e][m.from].st \in {"OPEN", "UNUSED"}
  /\ m.type = "EOF" /\ ch[e][m.from].st = "OPEN" => ch[e][m.from].leof
  /\ m.type = "CLOSE" => ch[e][m.from].st = "UNUSED"
  /\ m.type = "DISCONNECT" => state[e] \in {"DRAINING", "CLOSED", "ERROR"}

\* e's host has closed the channel of m after m was sent: the peer will know.
Shut(e, m) == /\ m.from \in closed[e]
              /\ Has(e, "CLOSE", m.from) \/ <<"CLOSE", m.to>> \in pduLost[e]

\* What CONFIRM in flight from e says: its addressee still waits, or its host has
\* given up; the channel it confirms is open, or its host has closed it; and the
\* addressee has not said anything.
ConfirmDue(e, m) ==
  LET q == Peer(e) IN
  /\ ch[q][m.to].st = "OPENING" \/ m.to \in closed[q]
  /\ ch[e][m.from].st = "OPEN" \/ Shut(e, m)
  /\ \A n \in Wire(q) : n.from = m.to => n.type \notin Talk

\* What OPEN_FAIL in flight from e says: the request has been handled and will not
\* come again, and if it had a slot, then that slot is gone without a word.
OpenFailDue(e, m) ==
  /\ m.to < nextId[Peer(e)]
  /\ \A n \in Wire(Peer(e)) : n.type = "OPEN" => n.from # m.to
  /\ acc[e][m.to] # NoId =>
       ch[e][acc[e][m.to]].st = "UNUSED" /\ Mute(e, acc[e][m.to])

\* What m, in flight from e, says about its addressee.
PduDue(e, m) ==
  /\ m.type \in Talk => ch[Peer(e)][m.to].st # "PENDING"
  /\ m.type = "CONFIRM" => ConfirmDue(e, m)
  /\ m.type = "OPEN_FAIL" => OpenFailDue(e, m)

LinkSent == \A e \in Ends : \A m \in Wire(e) : PduSent(e, m)
LinkDue  == \A e \in Ends : \A m \in Wire(e) : PduDue(e, m)

\* What the host has closed is gone.
ClosedGone ==
  \A e \in Ends : \A id \in closed[e] : ch[e][id].st = "UNUSED" /\ id < nextId[e]

\* The partner of a channel that went away without its host's doing never got to
\* OPEN, or has closed and said its last word.
GoneQuiet ==
  \A e \in Ends : \A a, b \in Ids :
    /\ Paired(e, a, b)
    /\ ch[Peer(e)][b].st = "UNUSED"
    /\ b \notin closed[Peer(e)]
    => ch[e][a].st \in {"OPENING", "UNUSED"} /\ Mute(e, a)

\* The sender of an EOF that has arrived is at its end or gone.
EofKept ==
  \A e \in Ends : \A id \in Ids : ch[e][id].reof =>
    \E a \in Ids : /\ Paired(Peer(e), a, id)
                   /\ ch[Peer(e)][a].leof \/ ch[Peer(e)][a].st = "UNUSED"

ChannelInv == LinkSent /\ LinkDue /\ ClosedGone /\ GoneQuiet /\ EofKept

----------------------------------------------------------------------------
(* The byte stream of a channel *)

\* DATA in flight starts where the receiver is, or where DATA ahead of it ends.
NoGap ==
  \A e \in Ends : \A i \in DOMAIN link[e] : link[e][i].type = "DATA" =>
    \/ link[e][i].pos = tally[Peer(e)][link[e][i].to].rcvd
    \/ \E j \in 1 .. (i - 1) : /\ link[e][j].type = "DATA"
                               /\ link[e][j].from = link[e][i].from
                               /\ link[e][j].pos + link[e][j].len = link[e][i].pos

\* The receiver is where the sender is, or DATA in flight ends there.
NoneMissing ==
  \A e \in Ends : \A a, b \in Ids : Paired(e, a, b) =>
    \/ tally[e][a].sent = tally[Peer(e)][b].rcvd
    \/ \E m \in Wire(e) : /\ m.type = "DATA" /\ m.from = a
                          /\ m.pos + m.len = tally[e][a].sent

\* An EOF event in the ring is about a channel that is at its end or gone.
EofEvents ==
  \A e \in Ends : \A i \in DOMAIN evq[e] : evq[e][i].type = "CHANNEL_EOF" =>
    /\ evq[e][i].id \in Ids
    /\ evq[e][i].id < nextId[e]
    /\ ch[e][evq[e][i].id].reof \/ ch[e][evq[e][i].id].st = "UNUSED"

StreamInv == NoGap /\ NoneMissing /\ EofEvents

----------------------------------------------------------------------------

\* The invariant, and the properties it is for.
TrafficInv == /\ FlowInv /\ SessionInv /\ ChannelInv /\ StreamInv
              /\ StreamGrammar /\ LateTraffic /\ EofIsFinal
              /\ OpeningAccounted /\ CounterpartAccounted
              /\ ErrorHasLocalCause /\ EventStream

============================================================================
