--------------------------- MODULE SodchanChannel ---------------------------
(***************************************************************************)
(* What the multiplexer promises the two hosts about channels, without     *)
(* PDUs, buffers or windows.  A channel id has one life.  An answered      *)
(* request makes a pair of channels, for good and one to one.  On a pair,  *)
(* a host never has sent more than the other one granted, and never has    *)
(* received what the other one did not send.                               *)
(***************************************************************************)
EXTENDS Integers

CONSTANTS
  Ends,            \* the two endpoints
  Ids,             \* channel ids
  NoId,            \* no channel id
  InitialWindow,   \* [Ends -> Nat]: what an end grants with every channel
  Credits          \* what a host grants at a time

VARIABLES
  chan,            \* chan[e][id]: the channel of end e with that id
  pair             \* pair[e][a]: the channel with which e answered request a

promise == <<chan, pair>>

\* A life is new, then live, possibly shut (EOF was sent), then over.
InUse == {"live", "shut"}

Fresh == [life |-> "new", sent |-> 0, rcvd |-> 0, granted |-> 0]

\* Channel a of e and channel b of q talk to each other.
Partners(e, a, q, b) == pair[q][a] = b \/ pair[e][b] = a

Init ==
  /\ chan = [e \in Ends |-> [id \in Ids |-> Fresh]]
  /\ pair = [e \in Ends |-> [id \in Ids |-> NoId]]

\* A host asks for a channel, or wastes an id on a request that cannot be sent.
Request(e, id) ==
  /\ chan[e][id].life = "new"
  /\ \E l \in {"live", "over"} : chan' = [chan EXCEPT ![e][id].life = l]
  /\ UNCHANGED pair

\* Request a of q is taken up with channel id: neither is in a pair yet.
Answer(e, id, q, a) ==
  /\ chan[e][id].life = "new"
  /\ chan[q][a].life # "new"
  /\ pair[e][a] = NoId
  /\ \A x \in Ids : pair[q][x] # a /\ pair[e][x] # id
  /\ chan' = [chan EXCEPT ![e][id].life = "live"]
  /\ pair' = [pair EXCEPT ![e][a] = id]

\* A channel ends: closed by either host, rejected or refused.
End(e, id) ==
  /\ chan[e][id].life \in InUse
  /\ chan' = [chan EXCEPT ![e][id].life = "over"]
  /\ UNCHANGED pair

\* A host sends within what its partner has granted so far.
Put(e, a, q, b) ==
  /\ chan[e][a].life = "live"
  /\ Partners(e, a, q, b)
  /\ \E s \in chan[e][a].sent .. (InitialWindow[q] + chan[q][b].granted) :
       chan' = [chan EXCEPT ![e][a].sent = s]
  /\ UNCHANGED pair

\* A channel receives of what its partner has sent so far.
Get(e, a, q, b) ==
  /\ chan[e][a].life \in InUse
  /\ Partners(e, a, q, b)
  /\ \E s \in chan[e][a].rcvd .. chan[q][b].sent :
       chan' = [chan EXCEPT ![e][a].rcvd = s]
  /\ UNCHANGED pair

\* A host grants more.
Grant(e, a) ==
  /\ chan[e][a].life \in InUse
  /\ \E n \in Credits : chan' = [chan EXCEPT ![e][a].granted = @ + n]
  /\ UNCHANGED pair

\* A host sends EOF.
Shut(e, a) ==
  /\ chan[e][a].life = "live"
  /\ chan' = [chan EXCEPT ![e][a].life = "shut"]
  /\ UNCHANGED pair

Next ==
  \E e, q \in Ends : \E a, b \in Ids :
    /\ q # e
    /\ \/ Request(e, a)
       \/ Answer(e, a, q, b)
       \/ End(e, a)
       \/ Put(e, a, q, b)
       \/ Get(e, a, q, b)
       \/ Grant(e, a)
       \/ Shut(e, a)

Spec == Init /\ [][Next]_promise

============================================================================
