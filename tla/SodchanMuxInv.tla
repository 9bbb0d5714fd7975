---------------------------- MODULE SodchanMuxInv ----------------------------
(***************************************************************************)
(* The inductive invariants behind SlotAccounting, PairingAgreement and    *)
(* NoOverWindow.  SodchanMuxProofs proves TableInv and FlowInv.            *)
(***************************************************************************)
EXTENDS SodchanMux

\* Ids at or above the counter have never been used.
UnusedAhead ==
  \A e \in Ends : \A id \in Ids : id >= nextId[e] => ch[e][id] = FreeSlot

\* TypeOK and SlotAccounting are inductive together with UnusedAhead.
TableInv == TypeOK /\ SlotAccounting /\ UnusedAhead

----------------------------------------------------------------------------
(* Pairing: acc[e][a] is what makes a pair.  For the peer's channel a, opened by
   the peer, it is e's channel, for the rest of the session. *)

Paired(e, a, b) == acc[Peer(e)][a] = b \/ acc[e][b] = a

\* Only handled OPENs make pairs: both ids have been allocated, no id is
\* the answer to two requests, and no id is a request and an answer.
AccSound ==
  \A e \in Ends : \A a \in Ids : acc[e][a] # NoId =>
    /\ acc[e][a] < nextId[e]
    /\ a < nextId[Peer(e)]
    /\ \A x \in Ids : acc[e][x] = acc[e][a] => x = a
    /\ acc[Peer(e)][acc[e][a]] = NoId

\* A channel's peer is its partner.
PeerSound ==
  \A e \in Ends : \A a \in Ids :
    /\ ch[e][a].st = "PENDING" => acc[e][ch[e][a].peer] = a
    /\ ch[e][a].st = "OPEN" => Paired(e, a, ch[e][a].peer)
    /\ ch[e][a].st = "OPENING" => \A x \in Ids : acc[e][x] # a

\* What a PDU in flight from e says about pairs.
PduPaired(e, m) ==
  /\ m.type = "OPEN" =>
       /\ m.from < nextId[e]
       /\ acc[Peer(e)][m.from] = NoId
       /\ \A x \in Ids : acc[e][x] # m.from
  /\ m.type = "CONFIRM" => acc[e][m.to] = m.from
  /\ m.type \in {"DATA", "WINDOW"} => Paired(e, m.from, m.to)

\* m was sent before n: a channel is requested once, and the DATA and WINDOW PDUs
\* of a channel follow each other without overlap.
InOrder(m, n) ==
  m.from = n.from /\ m.type = n.type =>
    /\ m.type # "OPEN"
    /\ m.type \in {"DATA", "WINDOW"} => m.pos + m.len <= n.pos

LinkPaired == \A e \in Ends : \A i \in DOMAIN link[e] : PduPaired(e, link[e][i])

LinkOrdered == \A e \in Ends : \A i, j \in DOMAIN link[e] :
                 i < j => InOrder(link[e][i], link[e][j])

PairInv == AccSound /\ PeerSound /\ LinkPaired /\ LinkOrdered

\* CONFIRM binds the two ids: two open channels that name each other do so
\* mutually, and no two channels of one endpoint are bound to the same peer id.
PairingAgreement ==
  \A e \in Ends : \A a \in Ids :
    ch[e][a].st \in {"PENDING", "OPEN"} =>
      /\ LET c == ch[Peer(e)][ch[e][a].peer]
         IN  c.st = "OPEN" => c.peer = a
      /\ \A x \in Ids \ {a} :
           ch[e][x].st \in {"PENDING", "OPEN"} => ch[e][x].peer # ch[e][a].peer

----------------------------------------------------------------------------
(* Flow control, as arithmetic on the life-long byte counts. *)

\* The counters of a channel that has carried nothing yet.
Untouched(e, id) ==
  tally[e][id] = [sent |-> 0, rcvd |-> 0, granted |-> 0, credited |-> 0]

\* The windows are the counters, and no credit outstanding overflows a uint32_t.
Counted(e, id, c, t) ==
  /\ c.st # "UNUSED" => c.recvw + t.rcvd = InitialWindow[e] + t.granted
  /\ c.st \in {"PENDING", "OPEN"} =>
       c.sendw + t.sent = InitialWindow[Peer(e)] + t.credited
  /\ c.st \in {"PENDING", "OPENING"} => Untouched(e, id)
  /\ id >= nextId[e] => Untouched(e, id)
  /\ InitialWindow[e] + t.granted - t.rcvd < WinMod

WindowsCount ==
  \A e \in Ends : \A id \in Ids : Counted(e, id, ch[e][id], tally[e][id])

\* What has been sent, received, granted and credited on a pair, in this order.
Balanced(e, t, u) ==
  /\ u.rcvd <= t.sent
  /\ t.credited <= u.granted
  /\ t.sent <= InitialWindow[Peer(e)] + t.credited

PairBalance ==
  \A e \in Ends : \A a, b \in Ids :
    Paired(e, a, b) => Balanced(e, tally[e][a], tally[Peer(e)][b])

\* OPEN and CONFIRM announce the sender's receive window; DATA in flight lies
\* between what was received and what was sent, WINDOW between what was credited
\* and what was granted.
PduBalanced(e, m) ==
  /\ m.type \in {"OPEN", "CONFIRM"} => m.len = InitialWindow[e]
  /\ m.type = "OPEN" => Untouched(e, m.from)
  /\ m.type = "DATA" =>
       /\ m.len <= DataMax
       /\ m.pos + m.len <= tally[e][m.from].sent
       /\ tally[Peer(e)][m.to].rcvd <= m.pos
  /\ m.type = "WINDOW" =>
       /\ m.pos + m.len <= tally[e][m.from].granted
       /\ tally[Peer(e)][m.to].credited <= m.pos

LinkBalance == \A e \in Ends : \A i \in DOMAIN link[e] : PduBalanced(e, link[e][i])

\* DATA never meets a channel the host has not accepted: a PENDING channel has
\* sent no CONFIRM, so its partner is not OPEN and has sent nothing.
PduQuiet(e, m) ==
  /\ m.type = "DATA" => ch[Peer(e)][m.to].st # "PENDING"
  /\ m.type = "CONFIRM" => ch[e][m.from].st # "PENDING"

Quiet ==
  /\ \A e \in Ends : \A a \in Ids :
       ch[e][a].st = "OPEN" => ch[Peer(e)][ch[e][a].peer].st # "PENDING"
  /\ \A e \in Ends : \A i \in DOMAIN link[e] : PduQuiet(e, link[e][i])

\* The whole invariant: what SlotAccounting, pairing and flow control rest on.  It
\* is inductive when hosts keep their receive windows within a uint32_t
\* (RecvCap < WinMod).
FlowInv == /\ TableInv
           /\ PairInv
           /\ WindowsCount /\ PairBalance /\ LinkBalance /\ Quiet
           /\ NoOverWindow

----------------------------------------------------------------------------
(* The promise to the hosts *)

\* Where channel id of e is in its life.
Life(e, id) == IF id >= nextId[e] THEN "new"
               ELSE IF ch[e][id].st = "UNUSED" THEN "over"
               ELSE IF ch[e][id].leof THEN "shut" ELSE "live"

\* What SodchanChannel keeps of a channel.
Promised(e, id) ==
  [life |-> Life(e, id), sent |-> tally[e][id].sent, rcvd |-> tally[e][id].rcvd,
   granted |-> tally[e][id].granted]

PromisedAll == [e \in Ends |-> [id \in Ids |-> Promised(e, id)]]

\* Whatever PDUs are in flight or lost and whichever buffers are full, the two
\* channel tables are the channels of SodchanChannel: an id lives once, a pair is
\* made once and stays, no host has sent more than its partner granted or
\* received more than its partner sent, and nothing is sent after EOF.
Channels == INSTANCE SodchanChannel WITH chan <- PromisedAll, pair <- acc

ImplementsChannels == Channels!Spec

============================================================================
