----------------------- MODULE SodchanMuxTrafficProofs -----------------------
(***************************************************************************)
(* The properties of SodchanMuxProps for every configuration: TrafficInv   *)
(* is inductive on top of FlowInv.                                         *)
(*                                                                         *)
(* The proof has two halves.  Step(e, O) says what one action of e, which  *)
(* takes the PDUs of O (one or none) from its peer, does to slots, links,  *)
(* pairs, counters, events and states; the first half shows that every     *)
(* action is such a step.  The second half shows, invariant by invariant,  *)
(* that every such step preserves TrafficInv.                              *)
(***************************************************************************)
EXTENDS SodchanMuxTraffic, SodchanMuxProofs, SodchanInduction

----------------------------------------------------------------------------
(* What a step does *)

Late == {"DRAINING", "CLOSED", "ERROR"}

\* n may come after m in one stream.
Follows(m, n) ==
  /\ m.from = n.from /\ m.from # NoId =>
       /\ n.type # "CONFIRM"
       /\ m.type = "EOF" => n.type # "DATA"
       /\ m.type # "CLOSE"
  /\ m.type = "DISCONNECT" => n.type \in {"DISCONNECT", "CLOSE", "OPEN_FAIL", "PONG"}

\* e refuses a request that has a slot, or one that comes in with this step.
Refusal(e, O, m) ==
  \/ \E id \in Ids : /\ ch[e][id].st = "PENDING" /\ ch[e][id].peer = m.to
                     /\ ch'[e][id].st = "UNUSED"
  \/ acc'[e] = acc[e] /\ \E o \in O : o.type = "OPEN" /\ o.from = m.to

\* m is a PDU that e may send in this step.
Sendable(e, O, m) ==
  /\ m.type # "AUTH_OK"
  /\ m.type \notin FromChannel => m.from = NoId
  /\ state[e] \in Late => m.type \in {"DISCONNECT", "CLOSE", "OPEN_FAIL", "PONG"}
  /\ m.type = "DISCONNECT" => state'[e] = "DRAINING"
  /\ m.type = "OPEN" => m.from = nextId[e] /\ ch'[e][m.from].st = "OPENING"
  /\ m.type = "CONFIRM" => /\ ch[e][m.from].st = "PENDING" /\ m.to = ch[e][m.from].peer
                           /\ ch'[e][m.from].st = "OPEN"
  /\ m.type \in Talk => ch[e][m.from].st = "OPEN" /\ m.to = ch[e][m.from].peer
  /\ m.type = "EOF" => ch'[e][m.from].leof
  /\ m.type = "CLOSE" => ch'[e][m.from].st = "UNUSED"
  /\ m.type = "DATA" => /\ ~ch[e][m.from].leof
                        /\ m.pos = tally[e][m.from].sent
  /\ m.type = "WINDOW" => m.pos = tally[e][m.from].granted
  /\ m.type = "OPEN_FAIL" => Refusal(e, O, m)

Puts(e, m) == link'[e] = Append(link[e], m)

LinkStep(e, O) ==
  /\ link'[e] = link[e] \/ \E m \in PduSet : Puts(e, m) /\ Sendable(e, O, m)
  /\ \/ O = {} /\ link'[Peer(e)] = link[Peer(e)]
     \/ /\ O = {Incoming(e)} /\ link[Peer(e)] # <<>>
        /\ link'[Peer(e)] = Tail(link[Peer(e)])

\* The five things that can happen to a slot.
Kept(e, O, id) ==
  /\ ch'[e][id].st = ch[e][id].st /\ ch'[e][id].peer = ch[e][id].peer
  /\ ch[e][id].leof => ch'[e][id].leof
  /\ ch'[e][id].reof => ch[e][id].reof \/ \E o \in O : o.type = "EOF" /\ o.to = id
  /\ ch[e][id].reof => ch'[e][id].reof

Begun(e, id) ==
  /\ id = nextId[e] /\ nextId'[e] = id + 1
  /\ ~ch'[e][id].reof
  /\ \/ ch'[e][id].st = "OPENING" /\ \E m \in Wire(e)' : m.type = "OPEN" /\ m.from = id
     \/ ch'[e][id].st = "PENDING"

Accepted(e, id) ==
  /\ ch[e][id].st = "PENDING" /\ ch'[e][id].st = "OPEN"
  /\ ch'[e][id].peer = ch[e][id].peer
  /\ ch[e][id].leof => ch'[e][id].leof
  /\ ch'[e][id].reof <=> ch[e][id].reof
  /\ \E m \in Wire(e)' : m.type = "CONFIRM" /\ m.from = id /\ m.to = ch[e][id].peer

Confirmed(e, O, id) ==
  /\ ch[e][id].st = "OPENING" /\ ch'[e][id].st = "OPEN"
  /\ ch[e][id].leof => ch'[e][id].leof
  /\ ch'[e][id].reof <=> ch[e][id].reof
  /\ \E o \in O : o.type = "CONFIRM" /\ o.to = id /\ o.from = ch'[e][id].peer

Freed(e, O, id) ==
  /\ ch[e][id].st # "UNUSED" /\ ch'[e][id].st = "UNUSED" /\ ~ch'[e][id].reof
  /\ \/ /\ id \in closed'[e]
        /\ ch[e][id].st = "OPEN" =>
             \/ \E m \in Wire(e)' : m.type = "CLOSE" /\ m.from = id
             \/ <<"CLOSE", ch[e][id].peer>> \in pduLost'[e]
     \/ /\ ch[e][id].st = "PENDING"
        /\ \E m \in Wire(e)' : m.type = "OPEN_FAIL" /\ m.to = ch[e][id].peer
     \/ ch[e][id].st = "OPENING" /\ \E o \in O : o.type = "OPEN_FAIL" /\ o.to = id
     \/ \E o \in O : o.type = "CLOSE" /\ o.to = id

SlotChange(e, O, id) ==
  \/ Kept(e, O, id) \/ Begun(e, id) \/ Accepted(e, id) \/ Confirmed(e, O, id)
  \/ Freed(e, O, id)

SlotStep(e, O) ==
  /\ \A id \in Ids : SlotChange(e, O, id)
  /\ nextId[e] <= nextId'[e]
  /\ closed[e] \subseteq closed'[e] /\ pduLost[e] \subseteq pduLost'[e]
  /\ \A id \in closed'[e] :
       id \in closed[e] \/ (ch[e][id].st # "UNUSED" /\ ch'[e][id].st = "UNUSED")

\* A pair is made for a request that has come in.
PairStep(e, O) ==
  \A a \in Ids : acc'[e][a] = acc[e][a] \/
    /\ \E o \in O : o.type = "OPEN" /\ o.from = a
    /\ acc[e][a] = NoId
    /\ acc'[e][a] \in Ids /\ acc'[e][a] = nextId[e] /\ ch'[e][acc'[e][a]].st = "PENDING"

\* What comes of a PDU that e takes.
TakenStep(e, O) ==
  \A o \in O :
    /\ o.type = "DISCONNECT" => state'[e] = "CLOSED"
    /\ o.type = "CONFIRM" => ch[e][o.to].st = "OPENING" /\ ch'[e][o.to].st = "OPEN"
    /\ o.type = "OPEN_FAIL" => ch'[e][o.to].st # "OPENING"
    /\ o.type = "CLOSE" => ch'[e][o.to].st = "UNUSED"
    /\ o.type = "DATA" => ch[e][o.to].st = "OPEN"
    /\ o.type = "OPEN" =>
         \/ \E m \in Wire(e)' : m.type = "OPEN_FAIL" /\ m.to = o.from
         \/ <<"OPEN_FAIL", o.from>> \in pduLost'[e]
         \/ acc'[e][o.from] \in Ids /\ ch'[e][acc'[e][o.from]].st = "PENDING"

\* DATA moves the byte counts.
ByteStep(e, O) ==
  \A id \in Ids :
    /\ \/ tally'[e][id].sent = tally[e][id].sent
       \/ \E m \in PduSet : /\ Puts(e, m) /\ m.type = "DATA" /\ m.from = id
                            /\ m.pos + m.len = tally'[e][id].sent
    /\ \/ tally'[e][id].rcvd = tally[e][id].rcvd /\ \A o \in O : o.type = "DATA" => o.to # id
       \/ \E o \in O : /\ o.type = "DATA" /\ o.to = id
                       /\ tally'[e][id].rcvd = tally[e][id].rcvd + o.len
    /\ \A m \in PduSet : Puts(e, m) /\ m.type = "DATA" /\ m.from = id =>
         tally'[e][id].sent = m.pos + m.len

\* WINDOW moves the credit counts; a channel that is not OPEN ignores it.
CreditStep(e, O) ==
  \A id \in Ids :
    /\ \/ tally'[e][id].granted = tally[e][id].granted
       \/ \E m \in PduSet : /\ Puts(e, m) /\ m.type = "WINDOW" /\ m.from = id
                            /\ m.pos + m.len = tally'[e][id].granted
    /\ \/ /\ tally'[e][id].credited = tally[e][id].credited
          /\ \A o \in O : o.type = "WINDOW" /\ o.to = id => ch[e][id].st # "OPEN"
       \/ \E o \in O : /\ o.type = "WINDOW" /\ o.to = id
                       /\ tally'[e][id].credited = tally[e][id].credited + o.len

TallyStep(e, O) == ByteStep(e, O) /\ CreditStep(e, O)

\* Events of DATA and EOF come from their PDUs.
NewEvent(e, O, ev) ==
  /\ ev.type = "CHANNEL_EOF" => /\ ev.id \in Ids /\ ch[e][ev.id].st # "UNUSED"
                                /\ ch'[e][ev.id].reof
  /\ ev.type = "CHANNEL_DATA" =>
       \E o \in O : /\ o.type = "DATA"
                    /\ ev.id = o.to /\ ev.pos = o.pos /\ ev.len = o.len

EventStep(e, O) ==
  /\ evLost[e] \subseteq evLost'[e]
  /\ \/ /\ evq'[e] = evq[e]
        /\ \A o \in O : o.type = "DATA" => <<"CHANNEL_DATA", o.to>> \in evLost'[e]
     \/ /\ evq[e] # <<>> /\ evq'[e] = Tail(evq[e])
        /\ \A o \in O : o.type # "DATA"
     \/ \E ev \in EventSet :
          /\ evq'[e] = Append(evq[e], ev) /\ NewEvent(e, O, ev)
          /\ \A o \in O : o.type = "DATA" => ev.type = "CHANNEL_DATA"

\* The PDU at hand is what this error is about.
Blamed(e, x) ==
  LET h == Incoming(e) IN
  \/ x.cause = "unknown mux pdu" /\ h.type = "AUTH_OK"
  \/ /\ x.cause = "CONFIRM unknown" /\ x.id = h.to
     /\ h.type = "CONFIRM" /\ ch[e][h.to].st # "OPENING"
  \/ /\ x.cause = "DATA bad ch" /\ x.id = h.to
     /\ h.type = "DATA" /\ ch[e][h.to].st \in {"UNUSED", "OPENING"}

ErrorStep(e) ==
  \/ err'[e] = err[e]
  \/ /\ link[Peer(e)] # <<>> /\ state[e] \in {"READY", "DRAINING"}
     /\ link'[Peer(e)] = link[Peer(e)]
     /\ Blamed(e, err'[e])

StateStep(e, O) ==
  /\ state[e] = "CLOSED" => state'[e] = "CLOSED"
  /\ state[e] \in Late => state'[e] \in Late
  /\ state'[e] = "READY" =>
       state[e] = "READY" \/ \E o \in O : o.type = "AUTH_OK"
  /\ state'[e] = "DRAINING" =>
       \/ state[e] = "DRAINING"
       \/ \E m \in Wire(e)' : m.type = "DISCONNECT" /\ m.from = NoId
       \/ <<"DISCONNECT", NoId>> \in pduLost'[e]

\* The peer's context is left alone.
PeerIdle(e) ==
  LET q == Peer(e) IN
  /\ state'[q] = state[q] /\ ch'[q] = ch[q] /\ nextId'[q] = nextId[q]
  /\ closed'[q] = closed[q] /\ pduLost'[q] = pduLost[q] /\ acc'[q] = acc[q]
  /\ tally'[q] = tally[q] /\ evq'[q] = evq[q] /\ evLost'[q] = evLost[q]
  /\ err'[q] = err[q]

Step(e, O) ==
  /\ PeerIdle(e) /\ LinkStep(e, O) /\ SlotStep(e, O) /\ PairStep(e, O)
  /\ TakenStep(e, O) /\ TallyStep(e, O) /\ EventStep(e, O) /\ ErrorStep(e)
  /\ StateStep(e, O)

----------------------------------------------------------------------------
(* Sequences as sets *)

Members(s) == {s[i] : i \in DOMAIN s}

LEMMA AppendMembers ==
  ASSUME NEW S, NEW s \in Seq(S), NEW m \in S
  PROVE  Members(Append(s, m)) = Members(s) \cup {m}
<1>1. /\ Len(s) \in Nat /\ DOMAIN s = 1 .. Len(s)
      /\ DOMAIN Append(s, m) = 1 .. (Len(s) + 1)
      /\ \A i \in 1 .. Len(s) : Append(s, m)[i] = s[i]
      /\ Append(s, m)[Len(s) + 1] = m
  BY AppendProperties, LenProperties
<1>2. \A i \in DOMAIN Append(s, m) : i \in DOMAIN s \/ i = Len(s) + 1
  BY <1>1
<1>3. \A i \in DOMAIN s : i \in DOMAIN Append(s, m)
  BY <1>1
<1>4. Len(s) + 1 \in DOMAIN Append(s, m)
  BY <1>1
<1>. QED
  BY <1>1, <1>2, <1>3, <1>4 DEF Members

LEMMA TailFacts ==
  ASSUME NEW S, NEW s \in Seq(S), s # <<>>
  PROVE  /\ Len(s) \in Nat /\ DOMAIN s = 1 .. Len(s) /\ 1 \in DOMAIN s
         /\ Head(s) = s[1] /\ Tail(s) \in Seq(S)
         /\ DOMAIN Tail(s) = 1 .. (Len(s) - 1)
         /\ \A i \in 1 .. (Len(s) - 1) : Tail(s)[i] = s[i + 1]
BY HeadTailProperties, LenProperties, EmptySeq

LEMMA TailMembers ==
  ASSUME NEW S, NEW s \in Seq(S), s # <<>>
  PROVE  /\ Members(Tail(s)) \subseteq Members(s)
         /\ Members(s) \subseteq Members(Tail(s)) \cup {Head(s)}
         /\ Head(s) \in Members(s)
<1>1. /\ Len(s) \in Nat /\ DOMAIN s = 1 .. Len(s) /\ 1 \in DOMAIN s
      /\ Head(s) = s[1]
      /\ DOMAIN Tail(s) = 1 .. (Len(s) - 1)
      /\ \A i \in 1 .. (Len(s) - 1) : Tail(s)[i] = s[i + 1]
  BY TailFacts
<1>2. ASSUME NEW i \in DOMAIN Tail(s)
      PROVE  i + 1 \in DOMAIN s /\ Tail(s)[i] = s[i + 1]
  BY <1>1, <1>2
<1>3. ASSUME NEW i \in DOMAIN s, i # 1
      PROVE  i - 1 \in DOMAIN Tail(s) /\ Tail(s)[i - 1] = s[i]
  BY <1>1, <1>3
<1>4. Members(Tail(s)) \subseteq Members(s)
  BY <1>2 DEF Members
<1>5. ASSUME NEW x \in Members(s), x # Head(s)
      PROVE  x \in Members(Tail(s))
  <2>1. PICK i \in DOMAIN s : x = s[i]
    BY <1>5 DEF Members
  <2>2. i # 1
    BY <1>1, <1>5, <2>1
  <2>. QED
    BY <1>3, <2>1, <2>2 DEF Members
<1>. QED
  BY <1>1, <1>4, <1>5 DEF Members

LEMMA MembersType ==
  ASSUME NEW S, NEW s \in Seq(S)
  PROVE  Members(s) \subseteq S
BY ElementOfSeq, LenProperties DEF Members

\* What is in flight before and after a step, and that what was taken came first.
LEMMA WireStep ==
  ASSUME TypeIO, LinkOrdered, StreamGrammar, NEW e \in Ends, NEW O, LinkStep(e, O)
  PROVE  /\ O \subseteq Wire(Peer(e)) /\ \A o, p \in O : o = p
         /\ Wire(e) \subseteq Wire(e)'
         /\ \A m \in Wire(e)' : m \in Wire(e) \/ Sendable(e, O, m)
         /\ Wire(Peer(e))' \subseteq Wire(Peer(e))
         /\ Wire(Peer(e)) \subseteq Wire(Peer(e))' \cup O
         /\ \A o \in O : \A n \in Wire(Peer(e))' : Follows(o, n) /\ InOrder(o, n)
<1>. DEFINE q == Peer(e)
<1>1. q \in Ends /\ link[e] \in Seq(PduSet) /\ link[q] \in Seq(PduSet)
  BY PeerFacts DEF TypeIO
<1>2. /\ Wire(e) = Members(link[e]) /\ Wire(q) = Members(link[q])
      /\ Wire(e)' = Members(link'[e]) /\ Wire(q)' = Members(link'[q])
  BY DEF Wire, Members
<1>3. Wire(e) \subseteq Wire(e)' /\ \A m \in Wire(e)' : m \in Wire(e) \/ Sendable(e, O, m)
  <2>1. CASE link'[e] = link[e]
    BY <1>2, <2>1
  <2>2. CASE \E m \in PduSet : Puts(e, m) /\ Sendable(e, O, m)
    <3>1. PICK m \in PduSet : link'[e] = Append(link[e], m) /\ Sendable(e, O, m)
      BY <2>2 DEF Puts
    <3>2. Members(link'[e]) = Members(link[e]) \cup {m}
      BY <1>1, <3>1, AppendMembers
    <3>. QED
      BY <1>2, <3>1, <3>2
  <2>. QED
    BY <2>1, <2>2 DEF LinkStep
<1>4. CASE O = {} /\ link'[q] = link[q]
  BY <1>2, <1>3, <1>4
<1>5. CASE O = {Incoming(e)} /\ link[q] # <<>> /\ link'[q] = Tail(link[q])
  <2>1. /\ Members(link'[q]) \subseteq Members(link[q])
        /\ Members(link[q]) \subseteq Members(link'[q]) \cup O
        /\ O \subseteq Members(link[q])
    BY <1>1, <1>5, TailMembers DEF Incoming
  <2>2. /\ Len(link[q]) \in Nat /\ DOMAIN link[q] = 1 .. Len(link[q]) /\ 1 \in DOMAIN link[q]
        /\ Incoming(e) = link[q][1]
        /\ DOMAIN link'[q] = 1 .. (Len(link[q]) - 1)
        /\ \A i \in 1 .. (Len(link[q]) - 1) : link'[q][i] = link[q][i + 1]
    BY <1>1, <1>5, TailFacts DEF Incoming
  <2>3. ASSUME NEW n \in Wire(q)'
        PROVE  Follows(Incoming(e), n) /\ InOrder(Incoming(e), n)
    <3>1. PICK i \in DOMAIN link'[q] : n = link'[q][i]
      BY <1>2, <2>3 DEF Members
    <3>2. i + 1 \in DOMAIN link[q] /\ 1 < i + 1 /\ n = link[q][i + 1]
      BY <2>2, <3>1
    <3>3. InOrder(link[q][1], link[q][i + 1])
      BY <1>1, <2>2, <3>2 DEF LinkOrdered
    <3>4. Follows(link[q][1], link[q][i + 1])
      BY <1>1, <2>2, <3>2 DEF StreamGrammar, Follows
    <3>. QED
      BY <2>2, <3>2, <3>3, <3>4
  <2>. QED
    BY <1>2, <1>3, <1>5, <2>1, <2>3
<1>. QED
  BY <1>4, <1>5 DEF LinkStep

----------------------------------------------------------------------------
(* First half: every action is a step.  Links and the lost PDUs first. *)

\* e puts out m, or loses it on a full out_buf; its peer's losses stay.
Tries(e, m) ==
  /\ pduLost[e] \subseteq pduLost'[e] /\ pduLost'[Peer(e)] = pduLost[Peer(e)]
  /\ \/ Puts(e, m) /\ m \in Wire(e)'
     \/ link'[e] = link[e] /\ <<m.type, m.to>> \in pduLost'[e]

LEMMA PutsWire ==
  ASSUME TypeIO, NEW e \in Ends, NEW m \in PduSet, Puts(e, m)
  PROVE  m \in Wire(e)'
<1>1. link[e] \in Seq(PduSet)
  BY DEF TypeIO
<1>2. Members(Append(link[e], m)) = Members(link[e]) \cup {m}
  BY <1>1, AppendMembers
<1>3. Wire(e)' = Members(Append(link[e], m))
  BY DEF Wire, Members, Puts
<1>. QED
  BY <1>2, <1>3

\* A step puts out one PDU.
LEMMA PutsOnce ==
  ASSUME TypeIO, NEW e \in Ends, NEW m \in PduSet, Puts(e, m)
  PROVE  link'[e] # link[e] /\ \A n \in PduSet : Puts(e, n) => n = m
<1>1. link[e] \in Seq(PduSet) /\ Len(link[e]) \in Nat
  BY LenProperties DEF TypeIO
<1>2. \A n \in PduSet : /\ Len(Append(link[e], n)) = Len(link[e]) + 1
                        /\ Append(link[e], n)[Len(link[e]) + 1] = n
  BY <1>1, AppendProperties
<1>3. link'[e] = Append(link[e], m)
  BY DEF Puts
<1>4. link'[e] # link[e]
  <2>1. Len(link'[e]) = Len(link[e]) + 1
    BY <1>2, <1>3
  <2>2. Len(link[e]) + 1 # Len(link[e])
    BY <1>1
  <2>. QED
    BY <2>1, <2>2
<1>5. ASSUME NEW n \in PduSet, Puts(e, n) PROVE n = m
  <2>1. link'[e][Len(link[e]) + 1] = m
    BY <1>2, <1>3
  <2>2. link'[e][Len(link[e]) + 1] = n
    BY <1>2, <1>5 DEF Puts
  <2>. QED
    BY <2>1, <2>2
<1>. QED
  BY <1>4, <1>5

LEMMA SendStep ==
  ASSUME TypeIO, NEW e \in Ends, NEW m \in PduSet, Send(e, m)
  PROVE  /\ Puts(e, m) /\ link'[Peer(e)] = link[Peer(e)] /\ pduLost' = pduLost
         /\ m \in Wire(e)'
         /\ Sendable(e, {}, m) => LinkStep(e, {})
<1>1. Puts(e, m) /\ link'[Peer(e)] = link[Peer(e)] /\ pduLost' = pduLost
  BY PeerFacts DEF Puts, Send, TypeIO
<1>2. m \in Wire(e)'
  BY <1>1, PutsWire
<1>. QED
  BY <1>1, <1>2 DEF LinkStep

LEMMA TrySendStep ==
  ASSUME TypeIO, NEW e \in Ends, NEW m \in PduSet, TrySend(e, m)
  PROVE  /\ Tries(e, m) /\ link'[Peer(e)] = link[Peer(e)]
         /\ Sendable(e, {}, m) => LinkStep(e, {})
<1>1. CASE Send(e, m)
  BY <1>1, SendStep DEF Tries
<1>2. CASE ~Send(e, m)
  <2>1. link' = link /\ pduLost' = [pduLost EXCEPT ![e] = @ \cup {<<m.type, m.to>>}]
    BY <1>2 DEF TrySend, io
  <2>2. /\ pduLost'[e] = pduLost[e] \cup {<<m.type, m.to>>}
        /\ pduLost'[Peer(e)] = pduLost[Peer(e)]
    BY <2>1, PeerFacts DEF TypeIO
  <2>. QED
    BY <2>1, <2>2 DEF Tries, LinkStep
<1>. QED
  BY <1>1, <1>2

LEMMA ConsumeStep ==
  ASSUME TypeIO, NEW e \in Ends, Readable(e), Consume(e)
  PROVE  /\ LinkStep(e, {Incoming(e)}) /\ link'[e] = link[e] /\ pduLost' = pduLost
<1>1. link[Peer(e)] # <<>>
  BY IncomingType
<1>. QED
  BY <1>1, PeerFacts DEF Consume, LinkStep, TypeIO

LEMMA ConsumeAndTrySendStep ==
  ASSUME TypeIO, NEW e \in Ends, NEW m \in PduSet, Readable(e), ConsumeAndTrySend(e, m)
  PROVE  /\ Tries(e, m)
         /\ Sendable(e, {Incoming(e)}, m) => LinkStep(e, {Incoming(e)})
<1>1. link[Peer(e)] # <<>> /\ link \in [Ends -> Seq(PduSet)] /\ Peer(e) \in Ends /\ Peer(e) # e
  BY IncomingType, PeerFacts DEF TypeIO
<1>2. link'[Peer(e)] = Tail(link[Peer(e)])
  BY <1>1 DEF ConsumeAndTrySend
<1>3. CASE Puts(e, m) /\ pduLost' = pduLost
  BY <1>1, <1>2, <1>3, PutsWire DEF Tries, LinkStep
<1>4. CASE link'[e] = link[e] /\ pduLost' = [pduLost EXCEPT ![e] = @ \cup {<<m.type, m.to>>}]
  <2>1. /\ pduLost'[e] = pduLost[e] \cup {<<m.type, m.to>>}
        /\ pduLost'[Peer(e)] = pduLost[Peer(e)]
    BY <1>1, <1>4 DEF TypeIO
  <2>. QED
    BY <1>1, <1>2, <1>4, <2>1 DEF Tries, LinkStep
<1>. QED
  BY <1>1, <1>3, <1>4 DEF ConsumeAndTrySend, Puts

----------------------------------------------------------------------------
(* Slots, pairs, counters and events that stay *)

LEMMA SlotsStay ==
  ASSUME TypeTable, NEW e \in Ends, NEW O, ch'[e] = ch[e], nextId' = nextId,
         closed'[e] = closed[e], pduLost[e] \subseteq pduLost'[e]
  PROVE  SlotStep(e, O)
<1>1. nextId[e] <= nextId'[e]
  BY DEF TypeTable
<1>2. \A id \in Ids : Kept(e, O, id)
  BY DEF Kept
<1>. QED
  BY <1>1, <1>2 DEF SlotStep, SlotChange

\* Only slot id changes, and nothing is closed.
LEMMA SlotEdit ==
  ASSUME TypeTable, NEW e \in Ends, NEW O, NEW id \in Ids,
         \A x \in Ids : x # id => ch'[e][x] = ch[e][x],
         SlotChange(e, O, id), nextId[e] <= nextId'[e],
         closed'[e] = closed[e], pduLost[e] \subseteq pduLost'[e]
  PROVE  SlotStep(e, O)
<1>1. \A x \in Ids : x # id => Kept(e, O, x)
  BY DEF Kept
<1>. QED
  BY <1>1 DEF SlotStep, SlotChange

LEMMA PairsStay ==
  ASSUME NEW e \in Ends, NEW O, acc' = acc
  PROVE  PairStep(e, O)
BY DEF PairStep

LEMMA BytesStay ==
  ASSUME TypeIO, NEW e \in Ends, NEW O, \A o \in O : o.type # "DATA",
         \A id \in Ids : /\ tally'[e][id].sent = tally[e][id].sent
                         /\ tally'[e][id].rcvd = tally[e][id].rcvd,
         link'[e] = link[e] \/ \E m \in PduSet : Puts(e, m) /\ m.type # "DATA"
  PROVE  ByteStep(e, O)
<1>1. \A m \in PduSet : Puts(e, m) => m.type # "DATA"
  BY PutsOnce
<1>. QED
  BY <1>1 DEF ByteStep

LEMMA CreditStays ==
  ASSUME NEW e \in Ends, NEW O,
         \A o \in O : o.type = "WINDOW" => ch[e][o.to].st # "OPEN",
         \A id \in Ids : /\ tally'[e][id].granted = tally[e][id].granted
                         /\ tally'[e][id].credited = tally[e][id].credited
  PROVE  CreditStep(e, O)
BY DEF CreditStep

LEMMA TallyStays ==
  ASSUME TypeIO, NEW e \in Ends, NEW O, tally'[e] = tally[e],
         \A o \in O : o.type # "DATA" /\ (o.type = "WINDOW" => ch[e][o.to].st # "OPEN"),
         link'[e] = link[e] \/ \E m \in PduSet : Puts(e, m) /\ m.type \notin {"DATA", "WINDOW"}
  PROVE  TallyStep(e, O)
<1>1. ByteStep(e, O)
  BY BytesStay
<1>2. CreditStep(e, O)
  BY CreditStays
<1>. QED
  BY <1>1, <1>2 DEF TallyStep

LEMMA EventsStay ==
  ASSUME NEW e \in Ends, NEW O, evq' = evq, evLost' = evLost, \A o \in O : o.type # "DATA"
  PROVE  EventStep(e, O)
BY DEF EventStep

LEMMA QueueStep ==
  ASSUME TypeHost, NEW e \in Ends, NEW ev \in EventSet, QueueEvent(e, ev)
  PROVE  /\ evq'[Peer(e)] = evq[Peer(e)] /\ evLost'[Peer(e)] = evLost[Peer(e)]
         /\ evLost[e] \subseteq evLost'[e]
         /\ \/ evq'[e] = Append(evq[e], ev)
            \/ evq'[e] = evq[e] /\ <<ev.type, ev.id>> \in evLost'[e]
BY PeerFacts DEF QueueEvent, TypeHost

LEMMA EventQueued ==
  ASSUME TypeHost, NEW e \in Ends, NEW O, NEW ev \in EventSet, QueueEvent(e, ev),
         NewEvent(e, O, ev),
         \A o \in O : o.type = "DATA" => ev.type = "CHANNEL_DATA" /\ ev.id = o.to
  PROVE  EventStep(e, O)
<1>1. /\ evLost[e] \subseteq evLost'[e]
      /\ \/ evq'[e] = Append(evq[e], ev)
         \/ evq'[e] = evq[e] /\ <<ev.type, ev.id>> \in evLost'[e]
  BY QueueStep
<1>. QED
  BY <1>1 DEF EventStep

\* No error, no change of state.
LEMMA StateStays ==
  ASSUME NEW e \in Ends, NEW O
  PROVE  /\ state' = state => StateStep(e, O)
         /\ err' = err => ErrorStep(e)
BY DEF StateStep, ErrorStep

----------------------------------------------------------------------------
(* The calls *)

LEMMA FlowTypesOK ==
  ASSUME FlowInv
  PROVE  TypeTable /\ TypeIO /\ TypeHost /\ TypePast /\ TypeSession
BY DEF FlowInv, TableInv, TypeOK

LEMMA PduIs ==
  ASSUME NEW t, NEW a, NEW b
  PROVE  /\ Pdu(t, a, b).type = t /\ Pdu(t, a, b).from = a /\ Pdu(t, a, b).to = b
         /\ \A n, k : LET m == [Pdu(t, a, b) EXCEPT !.len = n, !.max = k] IN
              m.type = t /\ m.from = a /\ m.to = b
         /\ \A n, k, s : LET m == [Pdu(t, a, b) EXCEPT !.len = n, !.max = k, !.name = s] IN
              m.type = t /\ m.from = a /\ m.to = b
         /\ \A p, n : LET m == [Pdu(t, a, b) EXCEPT !.pos = p, !.len = n] IN
              m.type = t /\ m.from = a /\ m.to = b /\ m.pos = p /\ m.len = n
BY DEF Pdu

\* A step that leaves the channels and the counters alone.
LEMMA IdleStep ==
  ASSUME FlowInv, NEW e \in Ends, NEW O, ch' = ch, nextId' = nextId, closed' = closed,
         acc' = acc, tally' = tally, LinkStep(e, O),
         pduLost[e] \subseteq pduLost'[e], pduLost'[Peer(e)] = pduLost[Peer(e)],
         \A o \in O : o.type # "DATA" /\ (o.type = "WINDOW" => ch[e][o.to].st # "OPEN"),
         link'[e] = link[e] \/ \E m \in PduSet : Puts(e, m) /\ m.type \notin {"DATA", "WINDOW"},
         state'[Peer(e)] = state[Peer(e)], evq'[Peer(e)] = evq[Peer(e)],
         evLost'[Peer(e)] = evLost[Peer(e)], err'[Peer(e)] = err[Peer(e)],
         TakenStep(e, O), EventStep(e, O), ErrorStep(e), StateStep(e, O)
  PROVE  Step(e, O)
<1>1. TypeTable /\ TypeIO
  BY FlowTypesOK
<1>2. SlotStep(e, O)
  BY <1>1, SlotsStay
<1>3. PairStep(e, O)
  BY PairsStay
<1>4. TallyStep(e, O)
  BY <1>1, TallyStays
<1>5. PeerIdle(e)
  BY DEF PeerIdle
<1>. QED
  BY <1>2, <1>3, <1>4, <1>5 DEF Step

LEMMA DisconnectStep ==
  ASSUME FlowInv, NEW e \in Ends, Disconnect(e)
  PROVE  Step(e, {})
<1>. DEFINE m == Pdu("DISCONNECT", NoId, NoId)
<1>1. /\ TypeIO /\ TypeSession
      /\ m \in PduSet /\ m.type = "DISCONNECT" /\ m.from = NoId /\ m.to = NoId
  BY FlowTypesOK, TamePdus, PduIs
<1>2. /\ TrySend(e, m) /\ state' = [state EXCEPT ![e] = "DRAINING"]
      /\ ch' = ch /\ nextId' = nextId /\ closed' = closed /\ acc' = acc /\ tally' = tally
      /\ evq' = evq /\ evLost' = evLost /\ err' = err
      /\ state[e] \in {"READY", "AUTH", "DRAINING"}
  BY DEF Disconnect, table, host
<1>. HIDE DEF m
<1>3. state'[e] = "DRAINING" /\ state'[Peer(e)] = state[Peer(e)]
  BY <1>1, <1>2, PeerFacts DEF TypeSession
<1>4. Sendable(e, {}, m)
  BY <1>1, <1>3 DEF Sendable, FromChannel, Talk
<1>5. Tries(e, m) /\ LinkStep(e, {})
  BY <1>1, <1>2, <1>4, TrySendStep
<1>6. StateStep(e, {})
  BY <1>1, <1>2, <1>3, <1>5 DEF StateStep, Tries, Late
<1>7. TakenStep(e, {}) /\ EventStep(e, {}) /\ ErrorStep(e)
  BY <1>2, EventsStay, StateStays DEF TakenStep
<1>. QED
  BY <1>1, <1>2, <1>3, <1>5, <1>6, <1>7, IdleStep DEF Tries

\* The steps that touch neither channels nor links.
LEMMA StillStep ==
  ASSUME FlowInv, NEW e \in Ends, ch' = ch, nextId' = nextId, closed' = closed,
         acc' = acc, tally' = tally, link' = link, pduLost' = pduLost,
         state'[Peer(e)] = state[Peer(e)], evq'[Peer(e)] = evq[Peer(e)],
         evLost'[Peer(e)] = evLost[Peer(e)], err'[Peer(e)] = err[Peer(e)],
         EventStep(e, {}), ErrorStep(e), StateStep(e, {})
  PROVE  Step(e, {})
<1>1. LinkStep(e, {}) /\ TakenStep(e, {})
  BY DEF LinkStep, TakenStep
<1>. QED
  BY <1>1, IdleStep

LEMMA QuietStep ==
  ASSUME FlowInv, NEW e \in Ends,
         DisconnectAfterError(e) \/ GetOutput(e) \/ NextEvent(e) \/ UNCHANGED vars
  PROVE  Step(e, {})
<1>0. TypeSession /\ TypeHost /\ Peer(e) \in Ends /\ Peer(e) # e
  BY FlowTypesOK, PeerFacts
<1>1. CASE DisconnectAfterError(e)
  <2>1. /\ ch' = ch /\ nextId' = nextId /\ closed' = closed /\ acc' = acc /\ tally' = tally
        /\ link' = link /\ pduLost' = pduLost /\ evq' = evq /\ evLost' = evLost /\ err' = err
        /\ state[e] = "ERROR" /\ state' = [state EXCEPT ![e] = "CLOSED"]
    BY <1>1 DEF DisconnectAfterError, table, io, host, past
  <2>2. state'[e] = "CLOSED" /\ state'[Peer(e)] = state[Peer(e)]
    BY <1>0, <2>1 DEF TypeSession
  <2>3. StateStep(e, {}) /\ EventStep(e, {}) /\ ErrorStep(e)
    BY <2>1, <2>2, EventsStay, StateStays DEF StateStep, Late
  <2>. QED
    BY <2>1, <2>2, <2>3, StillStep
<1>2. CASE GetOutput(e) \/ UNCHANGED vars
  <2>1. /\ ch' = ch /\ nextId' = nextId /\ closed' = closed /\ acc' = acc /\ tally' = tally
        /\ link' = link /\ pduLost' = pduLost /\ evq' = evq /\ evLost' = evLost /\ err' = err
        /\ state' = state
    BY <1>2 DEF GetOutput, table, io, host, past, vars
  <2>2. StateStep(e, {}) /\ EventStep(e, {}) /\ ErrorStep(e)
    BY <2>1, EventsStay, StateStays
  <2>. QED
    BY <2>1, <2>2, StillStep
<1>3. CASE NextEvent(e)
  <2>1. /\ ch' = ch /\ nextId' = nextId /\ closed' = closed /\ acc' = acc /\ tally' = tally
        /\ link' = link /\ pduLost' = pduLost /\ evLost' = evLost /\ err' = err
        /\ state' = state /\ evq[e] # <<>> /\ evq' = [evq EXCEPT ![e] = Tail(@)]
    BY <1>3 DEF NextEvent, table, io, past
  <2>2. evq'[e] = Tail(evq[e]) /\ evq'[Peer(e)] = evq[Peer(e)]
    BY <1>0, <2>1 DEF TypeHost
  <2>3. StateStep(e, {}) /\ EventStep(e, {}) /\ ErrorStep(e)
    BY <2>1, <2>2, StateStays DEF EventStep
  <2>. QED
    BY <2>1, <2>2, <2>3, StillStep
<1>. QED
  BY <1>1, <1>2, <1>3

LEMMA PeerPingStep ==
  ASSUME FlowInv, NEW e \in Ends, PeerPing(e)
  PROVE  Step(e, {})
<1>. DEFINE m == Pdu("PING", NoId, NoId)
<1>1. /\ TypeIO /\ m \in PduSet /\ m.type = "PING" /\ m.from = NoId
  BY FlowTypesOK, TamePdus, PduIs
<1>2. /\ Send(e, m) /\ state[e] = "READY" /\ state' = state
      /\ ch' = ch /\ nextId' = nextId /\ closed' = closed /\ acc' = acc /\ tally' = tally
      /\ evq' = evq /\ evLost' = evLost /\ err' = err
  BY DEF PeerPing, table, host
<1>. HIDE DEF m
<1>3. Sendable(e, {}, m)
  BY <1>1, <1>2 DEF Sendable, FromChannel, Talk, Late
<1>4. Puts(e, m) /\ LinkStep(e, {}) /\ pduLost' = pduLost
  BY <1>1, <1>2, <1>3, SendStep
<1>5. TakenStep(e, {}) /\ EventStep(e, {}) /\ ErrorStep(e) /\ StateStep(e, {})
  BY <1>2, EventsStay, StateStays DEF TakenStep
<1>. QED
  BY <1>1, <1>2, <1>4, <1>5, IdleStep

\* A step that changes one slot.
LEMMA EditStep ==
  ASSUME FlowInv, NEW e \in Ends, NEW O, NEW id \in Ids,
         \A x \in Ids : x # id => ch'[e][x] = ch[e][x],
         ch'[Peer(e)] = ch[Peer(e)], SlotChange(e, O, id),
         nextId[e] <= nextId'[e], nextId'[Peer(e)] = nextId[Peer(e)],
         closed' = closed, acc' = acc, state' = state, err' = err,
         pduLost[e] \subseteq pduLost'[e], pduLost'[Peer(e)] = pduLost[Peer(e)],
         evq'[Peer(e)] = evq[Peer(e)], evLost'[Peer(e)] = evLost[Peer(e)],
         tally'[Peer(e)] = tally[Peer(e)],
         LinkStep(e, O), TallyStep(e, O), TakenStep(e, O), EventStep(e, O)
  PROVE  Step(e, O)
<1>1. SlotStep(e, O)
  BY FlowTypesOK, SlotEdit
<1>2. PairStep(e, O) /\ StateStep(e, O) /\ ErrorStep(e)
  BY PairsStay, StateStays
<1>3. PeerIdle(e)
  BY DEF PeerIdle
<1>. QED
  BY <1>1, <1>2, <1>3 DEF Step

LEMMA ChannelOpenStep ==
  ASSUME FlowInv, NEW e \in Ends, NEW name \in Names, ChannelOpen(e, name)
  PROVE  Step(e, {})
<1>. DEFINE id == nextId[e]
            m  == [Pdu("OPEN", id, NoId) EXCEPT
                     !.len = InitialWindow[e], !.max = MaxPacket[e], !.name = name]
            c  == [FreeSlot EXCEPT !.st = "OPENING", !.recvw = InitialWindow[e],
                                   !.max = MaxPacket[e]]
<1>1. /\ TypeIO /\ TypeTable /\ Peer(e) \in Ends /\ Peer(e) # e
      /\ m.type = "OPEN" /\ m.from = id
      /\ c.st = "OPENING" /\ ~c.reof
  BY FlowTypesOK, PeerFacts, PduIs DEF FreeSlot
<1>2. /\ Send(e, m) /\ id \in Ids /\ state[e] = "READY" /\ state' = state
      /\ ch' = [ch EXCEPT ![e][id] = c] /\ nextId' = [nextId EXCEPT ![e] = @ + 1]
      /\ closed' = closed /\ acc' = acc /\ tally' = tally
      /\ evq' = evq /\ evLost' = evLost /\ err' = err
  BY DEF ChannelOpen, CanAlloc, Alloc
<1>3. m \in PduSet
  <2>1. Pdu("OPEN", id, NoId) \in PduSet
    BY <1>2, PduType DEF PduTypes, FromChannel, ToChannel
  <2>2. InitialWindow[e] \in Nat /\ MaxPacket[e] \in Nat
    BY ConfigAssumption
  <2>. QED
    BY <2>1, <2>2, PduAnnounceType
<1>. HIDE DEF m, c
<1>4. /\ ch'[e][id] = c /\ ch'[Peer(e)] = ch[Peer(e)]
      /\ \A x \in Ids : x # id => ch'[e][x] = ch[e][x]
      /\ nextId'[e] = id + 1 /\ nextId'[Peer(e)] = nextId[Peer(e)] /\ id \in Nat
  BY <1>1, <1>2 DEF TypeTable
<1>5. Sendable(e, {}, m)
  BY <1>1, <1>2, <1>4 DEF Sendable, FromChannel, Talk, Late
<1>6. Puts(e, m) /\ m \in Wire(e)' /\ LinkStep(e, {}) /\ pduLost' = pduLost
  BY <1>1, <1>2, <1>3, <1>5, SendStep
<1>7. SlotChange(e, {}, id)
  <2>1. Begun(e, id)
    BY <1>1, <1>4, <1>6 DEF Begun
  <2>. QED
    BY <2>1 DEF SlotChange
<1>8. TallyStep(e, {}) /\ TakenStep(e, {}) /\ EventStep(e, {})
  BY <1>1, <1>2, <1>3, <1>6, TallyStays, EventsStay DEF TakenStep
<1>9. nextId[e] <= nextId'[e]
  BY <1>4
<1>. QED
  BY <1>2, <1>4, <1>6, <1>7, <1>8, <1>9, EditStep

LEMMA ChannelOpenFullStep ==
  ASSUME FlowInv, NEW e \in Ends, ChannelOpenFull(e)
  PROVE  Step(e, {})
<1>1. /\ TypeTable /\ TypeIO /\ Peer(e) \in Ends /\ Peer(e) # e
  BY FlowTypesOK, PeerFacts
<1>2. /\ ch' = ch /\ nextId' = [nextId EXCEPT ![e] = @ + 1] /\ state' = state /\ link' = link
      /\ closed' = closed /\ acc' = acc /\ tally' = tally /\ pduLost' = pduLost
      /\ evq' = evq /\ evLost' = evLost /\ err' = err /\ nextId[e] \in Ids
  BY DEF ChannelOpenFull, io, host, past, CanAlloc
<1>3. nextId[e] <= nextId'[e] /\ nextId'[Peer(e)] = nextId[Peer(e)]
  BY <1>1, <1>2 DEF TypeTable
<1>4. SlotChange(e, {}, nextId[e])
  BY <1>2 DEF SlotChange, Kept
<1>5. LinkStep(e, {}) /\ TallyStep(e, {}) /\ TakenStep(e, {}) /\ EventStep(e, {})
  BY <1>1, <1>2, TallyStays, EventsStay DEF LinkStep, TakenStep
<1>. QED
  BY <1>2, <1>3, <1>4, <1>5, EditStep

LEMMA ChannelAcceptStep ==
  ASSUME FlowInv, NEW e \in Ends, NEW id \in Ids, ChannelAccept(e, id)
  PROVE  Step(e, {})
<1>. DEFINE p  == ch[e][id].peer
            m  == [Pdu("CONFIRM", id, p) EXCEPT
                     !.len = InitialWindow[e], !.max = MaxPacket[e]]
            ev == Event("CHANNEL_OPENED", id)
<1>1. /\ TypeIO /\ TypeTable /\ TypeHost /\ Peer(e) \in Ends /\ Peer(e) # e
      /\ m.type = "CONFIRM" /\ m.from = id /\ m.to = p
  BY FlowTypesOK, PeerFacts, PduIs
<1>2. /\ Send(e, m) /\ ch[e][id].st = "PENDING" /\ state[e] = "READY" /\ state' = state
      /\ ch' = [ch EXCEPT ![e][id].st = "OPEN", ![e][id].recvw = InitialWindow[e]]
      /\ QueueEvent(e, ev) /\ nextId' = nextId
      /\ closed' = closed /\ acc' = acc /\ tally' = tally /\ err' = err
  BY DEF ChannelAccept
<1>3. ch[e][id] \in ChannelSet /\ p \in Ids
  BY <1>1, <1>2 DEF TypeTable, ChannelSet
<1>4. m \in PduSet
  <2>1. Pdu("CONFIRM", id, p) \in PduSet
    BY <1>3, PduType DEF PduTypes
  <2>2. InitialWindow[e] \in Nat /\ MaxPacket[e] \in Nat
    BY ConfigAssumption
  <2>. QED
    BY <2>1, <2>2, PduAnnounceType
<1>5. ev \in EventSet /\ ev.type = "CHANNEL_OPENED"
  BY EventType DEF Event, EventTypes
<1>. HIDE DEF m, ev
<1>6. /\ ch'[e][id] = [ch[e][id] EXCEPT !.st = "OPEN", !.recvw = InitialWindow[e]]
      /\ ch'[Peer(e)] = ch[Peer(e)]
      /\ \A x \in Ids : x # id => ch'[e][x] = ch[e][x]
  BY <1>1, <1>2 DEF TypeTable
<1>7. /\ ch'[e][id].st = "OPEN" /\ ch'[e][id].peer = p
      /\ ch'[e][id].leof = ch[e][id].leof /\ ch'[e][id].reof = ch[e][id].reof
  BY <1>3, <1>6 DEF ChannelSet, ChannelFields
<1>8. Sendable(e, {}, m)
  BY <1>1, <1>2, <1>7 DEF Sendable, FromChannel, Talk, Late
<1>9. Puts(e, m) /\ m \in Wire(e)' /\ LinkStep(e, {}) /\ pduLost' = pduLost
  BY <1>1, <1>2, <1>4, <1>8, SendStep
<1>10. SlotChange(e, {}, id)
  <2>1. \E n \in Wire(e)' : n.type = "CONFIRM" /\ n.from = id /\ n.to = p
    BY <1>1, <1>9
  <2>2. Accepted(e, id)
    BY <1>2, <1>7, <2>1, Zenon DEF Accepted
  <2>. QED
    BY <2>2 DEF SlotChange
<1>11. /\ evq'[Peer(e)] = evq[Peer(e)] /\ evLost'[Peer(e)] = evLost[Peer(e)]
       /\ EventStep(e, {})
  <2>1. NewEvent(e, {}, ev)
    BY <1>5 DEF NewEvent
  <2>2. evq'[Peer(e)] = evq[Peer(e)] /\ evLost'[Peer(e)] = evLost[Peer(e)]
    BY <1>1, <1>2, <1>5, QueueStep
  <2>3. EventStep(e, {})
    BY <1>1, <1>2, <1>5, <2>1, EventQueued
  <2>. QED
    BY <2>2, <2>3
<1>12. TallyStep(e, {}) /\ TakenStep(e, {})
  BY <1>1, <1>2, <1>4, <1>9, TallyStays DEF TakenStep
<1>13. nextId[e] <= nextId'[e]
  BY <1>2, SameIds
<1>. QED
  BY <1>2, <1>6, <1>9, <1>10, <1>11, <1>12, <1>13, EditStep

LEMMA ChannelRejectStep ==
  ASSUME FlowInv, NEW e \in Ends, NEW id \in Ids, ChannelReject(e, id)
  PROVE  Step(e, {})
<1>. DEFINE p == ch[e][id].peer
            m == Pdu("OPEN_FAIL", NoId, p)
<1>1. /\ TypeIO /\ TypeTable /\ Peer(e) \in Ends /\ Peer(e) # e
      /\ m.type = "OPEN_FAIL" /\ m.from = NoId /\ m.to = p
  BY FlowTypesOK, PeerFacts, PduIs
<1>2. /\ Send(e, m) /\ ch[e][id].st = "PENDING" /\ state[e] = "READY" /\ state' = state
      /\ ch' = [ch EXCEPT ![e][id] = FreeSlot] /\ nextId' = nextId
      /\ evq' = evq /\ evLost' = evLost
      /\ closed' = closed /\ acc' = acc /\ tally' = tally /\ err' = err
  BY DEF ChannelReject, Free, host
<1>3. m \in PduSet
  BY <1>1, <1>2, TamePdus DEF TypeTable, ChannelSet
<1>. HIDE DEF m
<1>4. /\ ch'[e][id] = FreeSlot /\ ch'[Peer(e)] = ch[Peer(e)]
      /\ \A x \in Ids : x # id => ch'[e][x] = ch[e][x]
  BY <1>1, <1>2 DEF TypeTable
<1>5. ch'[e][id].st = "UNUSED" /\ ~ch'[e][id].reof
  BY <1>4 DEF FreeSlot
<1>6. Sendable(e, {}, m)
  BY <1>1, <1>2, <1>5 DEF Sendable, Refusal, FromChannel, Talk, Late
<1>7. Puts(e, m) /\ m \in Wire(e)' /\ LinkStep(e, {}) /\ pduLost' = pduLost
  BY <1>1, <1>2, <1>3, <1>6, SendStep
<1>8. SlotChange(e, {}, id)
  <2>1. Freed(e, {}, id)
    BY <1>1, <1>2, <1>5, <1>7 DEF Freed
  <2>. QED
    BY <2>1 DEF SlotChange
<1>9. TallyStep(e, {}) /\ TakenStep(e, {}) /\ EventStep(e, {}) /\ nextId[e] <= nextId'[e]
  BY <1>1, <1>2, <1>3, <1>7, TallyStays, EventsStay, SameIds DEF TakenStep
<1>. QED
  BY <1>2, <1>4, <1>7, <1>8, <1>9, EditStep

\* Sending on an open channel: DATA, WINDOW and EOF leave the slot as it is.
LEMMA ChannelSendStep ==
  ASSUME FlowInv, NEW e \in Ends, NEW id \in Ids, NEW n \in Nat, ChannelSend(e, id, n)
  PROVE  Step(e, {})
<1>. DEFINE p == ch[e][id].peer
            s == tally[e][id].sent
            m == [Pdu("DATA", id, p) EXCEPT !.pos = s, !.len = n]
<1>1. /\ TypeIO /\ TypeTable /\ TypePast /\ Peer(e) \in Ends /\ Peer(e) # e
      /\ m.type = "DATA" /\ m.from = id /\ m.to = p /\ m.pos = s /\ m.len = n
  BY FlowTypesOK, PeerFacts, PduIs
<1>2. /\ Send(e, m) /\ ch[e][id].st = "OPEN" /\ ~ch[e][id].leof
      /\ state[e] = "READY" /\ state' = state
      /\ ch' = [ch EXCEPT ![e][id].sendw = @ - n] /\ nextId' = nextId
      /\ tally' = [tally EXCEPT ![e][id].sent = @ + n]
      /\ evq' = evq /\ evLost' = evLost
      /\ closed' = closed /\ acc' = acc /\ err' = err
  BY DEF ChannelSend, host
<1>3. ch[e][id] \in ChannelSet /\ p \in Ids /\ tally[e][id] \in TallySet /\ s \in Nat
  BY <1>1, <1>2 DEF TypeTable, ChannelSet, TypePast, TallySet
<1>4. m \in PduSet
  <2>1. Pdu("DATA", id, p) \in PduSet
    BY <1>3, PduType DEF PduTypes
  <2>. QED
    BY <1>3, <2>1, PduFillType
<1>. HIDE DEF m
<1>5. /\ ch'[e][id] = [ch[e][id] EXCEPT !.sendw = @ - n]
      /\ ch'[Peer(e)] = ch[Peer(e)]
      /\ \A x \in Ids : x # id => ch'[e][x] = ch[e][x]
  BY <1>1, <1>2 DEF TypeTable
<1>6. /\ ch'[e][id].st = ch[e][id].st /\ ch'[e][id].peer = p
      /\ ch'[e][id].leof = ch[e][id].leof /\ ch'[e][id].reof = ch[e][id].reof
  BY <1>3, <1>5 DEF ChannelSet, ChannelFields
<1>7. Sendable(e, {}, m)
  BY <1>1, <1>2 DEF Sendable, FromChannel, Talk, Late
<1>8. Puts(e, m) /\ LinkStep(e, {}) /\ pduLost' = pduLost
  BY <1>1, <1>2, <1>4, <1>7, SendStep
<1>9. SlotChange(e, {}, id)
  <2>1. Kept(e, {}, id)
    BY <1>6, Zenon DEF Kept
  <2>. QED
    BY <2>1 DEF SlotChange
<1>10. TallyStep(e, {}) /\ tally'[Peer(e)] = tally[Peer(e)]
  <2>1. /\ tally'[Peer(e)] = tally[Peer(e)]
        /\ \A x \in Ids : x # id => tally'[e][x] = tally[e][x]
        /\ tally'[e][id] = [tally[e][id] EXCEPT !.sent = @ + n]
    BY <1>1, <1>2 DEF TypePast
  <2>2. /\ tally'[e][id].sent = s + n /\ tally'[e][id].rcvd = tally[e][id].rcvd
        /\ tally'[e][id].granted = tally[e][id].granted
        /\ tally'[e][id].credited = tally[e][id].credited
    BY <1>3, <2>1 DEF TallySet
  <2>3. \A k \in PduSet : Puts(e, k) => k = m
    BY <1>1, <1>4, <1>8, PutsOnce
  <2>4. tally'[e][id].sent = m.pos + m.len
    BY <1>1, <2>2
  <2>5. \A x \in Ids : \/ tally'[e][x].sent = tally[e][x].sent
                       \/ \E k \in PduSet : /\ Puts(e, k) /\ k.type = "DATA" /\ k.from = x
                                            /\ k.pos + k.len = tally'[e][x].sent
    <3>1. \E k \in PduSet : /\ Puts(e, k) /\ k.type = "DATA" /\ k.from = id
                            /\ k.pos + k.len = tally'[e][id].sent
      BY <1>1, <1>4, <1>8, <2>4
    <3>. QED
      BY <2>1, <3>1
  <2>6. \A x \in Ids : tally'[e][x].rcvd = tally[e][x].rcvd
    BY <2>1, <2>2
  <2>7. \A x \in Ids : \A k \in PduSet : Puts(e, k) /\ k.type = "DATA" /\ k.from = x =>
          tally'[e][x].sent = k.pos + k.len
    BY <1>1, <2>3, <2>4
  <2>8. ByteStep(e, {})
    BY <2>1, <2>5, <2>6, <2>7 DEF ByteStep
  <2>9. CreditStep(e, {})
    <3>1. \A x \in Ids : /\ tally'[e][x].granted = tally[e][x].granted
                         /\ tally'[e][x].credited = tally[e][x].credited
      BY <2>1, <2>2
    <3>. QED
      BY <3>1, CreditStays
  <2>. QED
    BY <2>1, <2>8, <2>9 DEF TallyStep
<1>11. TakenStep(e, {}) /\ EventStep(e, {}) /\ nextId[e] <= nextId'[e]
  BY <1>2, EventsStay, SameIds DEF TakenStep
<1>. QED
  BY <1>2, <1>5, <1>8, <1>9, <1>10, <1>11, EditStep

LEMMA ChannelWindowAdjustStep ==
  ASSUME FlowInv, NEW e \in Ends, NEW id \in Ids, NEW n \in Nat, ChannelWindowAdjust(e, id, n)
  PROVE  Step(e, {})
<1>. DEFINE p == ch[e][id].peer
            g == tally[e][id].granted
            m == [Pdu("WINDOW", id, p) EXCEPT !.pos = g, !.len = n]
<1>1. /\ TypeIO /\ TypeTable /\ TypePast /\ Peer(e) \in Ends /\ Peer(e) # e
      /\ m.type = "WINDOW" /\ m.from = id /\ m.to = p /\ m.pos = g /\ m.len = n
  BY FlowTypesOK, PeerFacts, PduIs
<1>2. /\ Send(e, m) /\ ch[e][id].st = "OPEN"
      /\ state[e] = "READY" /\ state' = state
      /\ ch' = [ch EXCEPT ![e][id].recvw = (@ + n) % WinMod] /\ nextId' = nextId
      /\ tally' = [tally EXCEPT ![e][id].granted = @ + n]
      /\ evq' = evq /\ evLost' = evLost
      /\ closed' = closed /\ acc' = acc /\ err' = err
  BY DEF ChannelWindowAdjust, host
<1>3. ch[e][id] \in ChannelSet /\ p \in Ids /\ tally[e][id] \in TallySet /\ g \in Nat
  BY <1>1, <1>2 DEF TypeTable, ChannelSet, TypePast, TallySet
<1>4. m \in PduSet
  <2>1. Pdu("WINDOW", id, p) \in PduSet
    BY <1>3, PduType DEF PduTypes
  <2>. QED
    BY <1>3, <2>1, PduFillType
<1>. HIDE DEF m
<1>5. /\ ch'[e][id] = [ch[e][id] EXCEPT !.recvw = (@ + n) % WinMod]
      /\ ch'[Peer(e)] = ch[Peer(e)]
      /\ \A x \in Ids : x # id => ch'[e][x] = ch[e][x]
  BY <1>1, <1>2 DEF TypeTable
<1>6. /\ ch'[e][id].st = ch[e][id].st /\ ch'[e][id].peer = p
      /\ ch'[e][id].leof = ch[e][id].leof /\ ch'[e][id].reof = ch[e][id].reof
  BY <1>3, <1>5 DEF ChannelSet, ChannelFields
<1>7. Sendable(e, {}, m)
  BY <1>1, <1>2 DEF Sendable, FromChannel, Talk, Late
<1>8. Puts(e, m) /\ LinkStep(e, {}) /\ pduLost' = pduLost
  BY <1>1, <1>2, <1>4, <1>7, SendStep
<1>9. SlotChange(e, {}, id)
  <2>1. Kept(e, {}, id)
    BY <1>6, Zenon DEF Kept
  <2>. QED
    BY <2>1 DEF SlotChange
<1>10. TallyStep(e, {}) /\ tally'[Peer(e)] = tally[Peer(e)]
  <2>1. /\ tally'[Peer(e)] = tally[Peer(e)]
        /\ \A x \in Ids : x # id => tally'[e][x] = tally[e][x]
        /\ tally'[e][id] = [tally[e][id] EXCEPT !.granted = @ + n]
    BY <1>1, <1>2 DEF TypePast
  <2>2. /\ tally'[e][id].sent = tally[e][id].sent /\ tally'[e][id].rcvd = tally[e][id].rcvd
        /\ tally'[e][id].granted = g + n /\ tally'[e][id].credited = tally[e][id].credited
    BY <1>3, <2>1 DEF TallySet
  <2>3. \A x \in Ids : /\ tally'[e][x].sent = tally[e][x].sent
                       /\ tally'[e][x].rcvd = tally[e][x].rcvd
                       /\ tally'[e][x].credited = tally[e][x].credited
    BY <2>1, <2>2
  <2>4. ByteStep(e, {})
    BY <1>1, <1>4, <1>8, <2>3, BytesStay
  <2>5. \E k \in PduSet : /\ Puts(e, k) /\ k.type = "WINDOW" /\ k.from = id
                          /\ k.pos + k.len = tally'[e][id].granted
    BY <1>1, <1>4, <1>8, <2>2
  <2>6. CreditStep(e, {})
    BY <2>1, <2>3, <2>5 DEF CreditStep
  <2>. QED
    BY <2>1, <2>4, <2>6 DEF TallyStep
<1>11. TakenStep(e, {}) /\ EventStep(e, {}) /\ nextId[e] <= nextId'[e]
  BY <1>2, EventsStay, SameIds DEF TakenStep
<1>. QED
  BY <1>2, <1>5, <1>8, <1>9, <1>10, <1>11, EditStep

LEMMA ChannelEofStep ==
  ASSUME FlowInv, NEW e \in Ends, NEW id \in Ids, ChannelEof(e, id)
  PROVE  Step(e, {})
<1>. DEFINE p == ch[e][id].peer
            m == Pdu("EOF", id, p)
<1>1. /\ TypeIO /\ TypeTable /\ Peer(e) \in Ends /\ Peer(e) # e
      /\ m.type = "EOF" /\ m.from = id /\ m.to = p
  BY FlowTypesOK, PeerFacts, PduIs
<1>2. /\ Send(e, m) /\ ch[e][id].st = "OPEN"
      /\ state[e] = "READY" /\ state' = state
      /\ ch' = [ch EXCEPT ![e][id].leof = TRUE] /\ nextId' = nextId
      /\ evq' = evq /\ evLost' = evLost
      /\ closed' = closed /\ acc' = acc /\ err' = err /\ tally' = tally
  BY DEF ChannelEof, host
<1>3. ch[e][id] \in ChannelSet /\ p \in Ids
  BY <1>1, <1>2 DEF TypeTable, ChannelSet
<1>4. m \in PduSet
  BY <1>3, TamePdus
<1>. HIDE DEF m
<1>5. /\ ch'[e][id] = [ch[e][id] EXCEPT !.leof = TRUE]
      /\ ch'[Peer(e)] = ch[Peer(e)]
      /\ \A x \in Ids : x # id => ch'[e][x] = ch[e][x]
  BY <1>1, <1>2 DEF TypeTable
<1>6. /\ ch'[e][id].st = ch[e][id].st /\ ch'[e][id].peer = p
      /\ ch'[e][id].leof /\ ch'[e][id].reof = ch[e][id].reof
  BY <1>3, <1>5 DEF ChannelSet, ChannelFields
<1>7. Sendable(e, {}, m)
  BY <1>1, <1>2, <1>6 DEF Sendable, FromChannel, Talk, Late
<1>8. Puts(e, m) /\ LinkStep(e, {}) /\ pduLost' = pduLost
  BY <1>1, <1>2, <1>4, <1>7, SendStep
<1>9. SlotChange(e, {}, id)
  <2>1. Kept(e, {}, id)
    BY <1>6, Zenon DEF Kept
  <2>. QED
    BY <2>1 DEF SlotChange
<1>10. TallyStep(e, {})
  BY <1>1, <1>2, <1>4, <1>8, TallyStays
<1>11. TakenStep(e, {}) /\ EventStep(e, {}) /\ nextId[e] <= nextId'[e]
  BY <1>2, EventsStay, SameIds DEF TakenStep
<1>. QED
  BY <1>2, <1>5, <1>8, <1>9, <1>10, <1>11, EditStep

LEMMA ChannelCloseStep ==
  ASSUME FlowInv, NEW e \in Ends, NEW id \in Ids, ChannelClose(e, id)
  PROVE  Step(e, {})
<1>. DEFINE p == ch[e][id].peer
            m == Pdu("CLOSE", id, p)
<1>1. /\ TypeIO /\ TypeTable /\ TypePast /\ Peer(e) \in Ends /\ Peer(e) # e
      /\ m.type = "CLOSE" /\ m.from = id /\ m.to = p
  BY FlowTypesOK, PeerFacts, PduIs
<1>2. /\ ch[e][id].st # "UNUSED" /\ state' = state
      /\ \/ ch[e][id].st = "OPEN" /\ TrySend(e, m)
         \/ ch[e][id].st # "OPEN" /\ link' = link /\ pduLost' = pduLost
      /\ ch' = [ch EXCEPT ![e][id] = FreeSlot] /\ nextId' = nextId
      /\ closed' = [closed EXCEPT ![e] = @ \cup {id}]
      /\ evq' = evq /\ evLost' = evLost
      /\ acc' = acc /\ err' = err /\ tally' = tally
  BY DEF ChannelClose, Free, host, io
<1>. HIDE DEF m
<1>3. /\ ch'[e][id] = FreeSlot /\ ch'[Peer(e)] = ch[Peer(e)]
      /\ \A x \in Ids : x # id => ch'[e][x] = ch[e][x]
      /\ closed'[e] = closed[e] \cup {id} /\ closed'[Peer(e)] = closed[Peer(e)]
  BY <1>1, <1>2 DEF TypeTable, TypePast
<1>4. ch'[e][id].st = "UNUSED" /\ ~ch'[e][id].reof
  BY <1>3 DEF FreeSlot
<1>5. /\ LinkStep(e, {}) /\ TallyStep(e, {})
      /\ pduLost[e] \subseteq pduLost'[e] /\ pduLost'[Peer(e)] = pduLost[Peer(e)]
      /\ ch[e][id].st = "OPEN" => \/ \E n \in Wire(e)' : n.type = "CLOSE" /\ n.from = id
                                  \/ <<"CLOSE", p>> \in pduLost'[e]
  <2>1. CASE ch[e][id].st = "OPEN" /\ TrySend(e, m)
    <3>1. m \in PduSet
      BY <1>1, <2>1, TamePdus DEF m, TypeTable, ChannelSet
    <3>2. Sendable(e, {}, m)
      BY <1>1, <1>4, <2>1 DEF Sendable, FromChannel, Talk
    <3>3. Tries(e, m) /\ LinkStep(e, {})
      BY <1>1, <2>1, <3>1, <3>2, TrySendStep
    <3>4. TallyStep(e, {})
      BY <1>1, <1>2, <3>1, <3>3, TallyStays DEF Tries
    <3>. QED
      BY <1>1, <3>3, <3>4 DEF Tries
  <2>2. CASE ch[e][id].st # "OPEN" /\ link' = link /\ pduLost' = pduLost
    BY <1>1, <1>2, <2>2, TallyStays DEF LinkStep
  <2>. QED
    BY <1>2, <2>1, <2>2
<1>6. SlotStep(e, {})
  <2>1. \A x \in Ids : x # id => Kept(e, {}, x)
    BY <1>3 DEF Kept
  <2>2. Freed(e, {}, id)
    BY <1>2, <1>3, <1>4, <1>5 DEF Freed
  <2>3. nextId[e] <= nextId'[e]
    BY <1>2, SameIds
  <2>. QED
    BY <1>2, <1>3, <1>4, <1>5, <2>1, <2>2, <2>3 DEF SlotStep, SlotChange
<1>7. TakenStep(e, {}) /\ EventStep(e, {}) /\ PairStep(e, {})
  BY <1>2, EventsStay, PairsStay DEF TakenStep
<1>8. StateStep(e, {}) /\ ErrorStep(e)
  BY <1>2, StateStays
<1>9. PeerIdle(e)
  BY <1>2, <1>3, <1>5 DEF PeerIdle
<1>. QED
  BY <1>5, <1>6, <1>7, <1>8, <1>9 DEF Step

LEMMA CallStep ==
  ASSUME FlowInv, NEW e \in Ends, Call(e)
  PROVE  Step(e, {})
<1>1. SendLens \subseteq Nat /\ Credits \subseteq Nat
  BY BoundAssumption
<1>. QED
  BY <1>1, ChannelOpenStep, ChannelOpenFullStep, ChannelAcceptStep, ChannelRejectStep,
     ChannelSendStep, ChannelEofStep, ChannelCloseStep, ChannelWindowAdjustStep,
     DisconnectStep, QuietStep, PeerPingStep DEF Call

----------------------------------------------------------------------------
(* The handlers *)

\* The handled PDU.
LEMMA ArrivedFacts ==
  ASSUME FlowInv, NEW e \in Ends, NEW t, Arrives(e, t)
  PROVE  /\ Readable(e) /\ Incoming(e) \in PduSet /\ Incoming(e).type = t
         /\ link[Peer(e)] # <<>> /\ state[e] \in {"READY", "DRAINING"}
         /\ t \in FromChannel => Incoming(e).from \in Ids
         /\ t \in ToChannel => Incoming(e).to \in Ids
<1>1. Readable(e) /\ Incoming(e).type = t /\ state[e] \in {"READY", "DRAINING"}
  BY DEF Arrives
<1>2. Incoming(e) \in PduSet /\ link[Peer(e)] # <<>>
  BY <1>1, FlowTypesOK, IncomingType
<1>. QED
  BY <1>1, <1>2 DEF PduSet

\* A handler that fails leaves the PDU where it is.
LEMMA FailStep ==
  ASSUME FlowInv, NEW e \in Ends, NEW why, NEW k, NEW t, Fail(e, why, k), Arrives(e, t),
         Blamed(e, [cause |-> why, id |-> k])
  PROVE  Step(e, {})
<1>1. PICK ev : ev = Event("ERROR", NoId)
  OBVIOUS
<1>2. PICK x : x = [cause |-> why, id |-> k]
  OBVIOUS
<1>3. TypeSession /\ TypeHost /\ Peer(e) \in Ends /\ Peer(e) # e
  BY FlowTypesOK, PeerFacts
<1>4. /\ ch' = ch /\ nextId' = nextId /\ closed' = closed /\ acc' = acc /\ tally' = tally
      /\ link' = link /\ pduLost' = pduLost /\ QueueEvent(e, ev)
      /\ state' = [state EXCEPT ![e] = "ERROR"] /\ err' = [err EXCEPT ![e] = x]
  BY <1>1, <1>2 DEF Fail, table, io, past
<1>5. ev \in EventSet /\ ev.type = "ERROR"
  BY <1>1, EventType DEF Event, EventTypes
<1>6. /\ state'[e] = "ERROR" /\ state'[Peer(e)] = state[Peer(e)]
      /\ err'[e] = x /\ err'[Peer(e)] = err[Peer(e)]
  BY <1>3, <1>4 DEF TypeSession
<1>7. ErrorStep(e)
  <2>1. link[Peer(e)] # <<>> /\ state[e] \in {"READY", "DRAINING"}
    BY ArrivedFacts
  <2>2. Blamed(e, x)
    BY <1>2
  <2>. QED
    BY <1>4, <1>6, <2>1, <2>2 DEF ErrorStep
<1>8. StateStep(e, {})
  <2>1. state'[e] = "ERROR" /\ state[e] # "CLOSED"
    BY <1>6, ArrivedFacts
  <2>. QED
    BY <2>1 DEF StateStep, Late
<1>9. NewEvent(e, {}, ev)
  BY <1>5 DEF NewEvent
<1>10. EventStep(e, {})
  <2>1. QueueEvent(e, ev) /\ TypeHost
    BY <1>3, <1>4
  <2>. QED
    BY <1>5, <1>9, <2>1, EventQueued
<1>11. evq'[Peer(e)] = evq[Peer(e)] /\ evLost'[Peer(e)] = evLost[Peer(e)]
  BY <1>3, <1>4, <1>5, QueueStep
<1>. QED
  BY <1>4, <1>6, <1>7, <1>8, <1>10, <1>11, StillStep

\* A PDU that only changes the session: AUTH_OK, PONG and DISCONNECT.
LEMMA SessionRecvStep ==
  ASSUME FlowInv, NEW e \in Ends, RecvAuthOk(e) \/ RecvPong(e) \/ RecvDisconnect(e)
  PROVE  \E O : Step(e, O)
<1>1. PICK o : o = Incoming(e)
  OBVIOUS
<1>. DEFINE O == {o}
<1>2. /\ TypeIO /\ TypeSession /\ TypeHost /\ Peer(e) \in Ends /\ Peer(e) # e
      /\ Readable(e) /\ Consume(e) /\ o.type \in {"AUTH_OK", "PONG", "DISCONNECT"}
      /\ ch' = ch /\ nextId' = nextId /\ closed' = closed /\ acc' = acc /\ tally' = tally
      /\ err' = err
  BY <1>1, FlowTypesOK, PeerFacts
     DEF RecvAuthOk, RecvPong, RecvDisconnect, Arrives, table
<1>3. LinkStep(e, O) /\ link'[e] = link[e] /\ pduLost' = pduLost
  BY <1>1, <1>2, ConsumeStep
<1>4. /\ evq'[Peer(e)] = evq[Peer(e)] /\ evLost'[Peer(e)] = evLost[Peer(e)]
      /\ EventStep(e, O)
  <2>1. CASE RecvPong(e)
    BY <1>2, <2>1, EventsStay DEF RecvPong, host
  <2>2. CASE RecvAuthOk(e) \/ RecvDisconnect(e)
    <3>1. PICK ev : /\ ev = Event("AUTHENTICATED", NoId) \/ ev = Event("DISCONNECTED", NoId)
                    /\ QueueEvent(e, ev)
      BY <2>2 DEF RecvAuthOk, RecvDisconnect
    <3>2. ev \in EventSet /\ ev.type \in {"AUTHENTICATED", "DISCONNECTED"}
      <4>1. CASE ev = Event("AUTHENTICATED", NoId)
        BY <4>1, EventType DEF Event, EventTypes
      <4>2. CASE ev = Event("DISCONNECTED", NoId)
        BY <4>2, EventType DEF Event, EventTypes
      <4>. QED
        BY <3>1, <4>1, <4>2
    <3>3. NewEvent(e, O, ev)
      BY <3>2 DEF NewEvent
    <3>4. EventStep(e, O)
      BY <1>2, <3>1, <3>2, <3>3, EventQueued
    <3>5. evq'[Peer(e)] = evq[Peer(e)] /\ evLost'[Peer(e)] = evLost[Peer(e)]
      BY <1>2, <3>1, <3>2, QueueStep
    <3>. QED
      BY <3>4, <3>5
  <2>. QED
    BY <2>1, <2>2
<1>5. /\ StateStep(e, O) /\ TakenStep(e, O) /\ state'[Peer(e)] = state[Peer(e)]
  <2>1. CASE RecvPong(e)
    <3>1. o.type = "PONG" /\ state' = state
      BY <1>1, <2>1 DEF RecvPong, Arrives
    <3>. QED
      BY <3>1, StateStays DEF TakenStep
  <2>2. CASE RecvAuthOk(e)
    <3>1. o.type = "AUTH_OK" /\ state[e] = "AUTH" /\ state' = [state EXCEPT ![e] = "READY"]
      BY <1>1, <2>2 DEF RecvAuthOk
    <3>2. state'[e] = "READY" /\ state'[Peer(e)] = state[Peer(e)]
      BY <1>2, <3>1 DEF TypeSession
    <3>. QED
      BY <3>1, <3>2 DEF TakenStep, StateStep, Late
  <2>3. CASE RecvDisconnect(e)
    <3>1. o.type = "DISCONNECT" /\ state' = [state EXCEPT ![e] = "CLOSED"]
      BY <1>1, <2>3 DEF RecvDisconnect, Arrives
    <3>2. state'[e] = "CLOSED" /\ state'[Peer(e)] = state[Peer(e)]
      BY <1>2, <3>1 DEF TypeSession
    <3>. QED
      BY <3>1, <3>2 DEF TakenStep, StateStep, Late
  <2>. QED
    BY <2>1, <2>2, <2>3
<1>6. ErrorStep(e)
  BY <1>2, StateStays
<1>7. Step(e, O)
  BY <1>2, <1>3, <1>4, <1>5, <1>6, IdleStep
<1>. QED
  BY <1>7

\* PING and a refused OPEN are answered at once.
LEMMA AnswerStep ==
  ASSUME FlowInv, NEW e \in Ends, RecvPing(e) \/ RecvOpenRefused(e)
  PROVE  \E O : Step(e, O)
<1>1. PICK o : o = Incoming(e)
  OBVIOUS
<1>2. PICK m : m = IF o.type = "PING" THEN Pdu("PONG", NoId, NoId)
                                      ELSE Pdu("OPEN_FAIL", NoId, o.from)
  OBVIOUS
<1>. DEFINE O == {o}
<1>3. \/ RecvPing(e) /\ o.type = "PING"
      \/ RecvOpenRefused(e) /\ o.type = "OPEN" /\ o.from \in Ids
  BY <1>1, ArrivedFacts DEF RecvPing, RecvOpenRefused, Arrives, FromChannel
<1>4. /\ TypeIO /\ TypeSession /\ TypeHost /\ Peer(e) \in Ends /\ Peer(e) # e
      /\ Readable(e) /\ ConsumeAndTrySend(e, m)
      /\ ch' = ch /\ nextId' = nextId /\ closed' = closed /\ acc' = acc /\ tally' = tally
      /\ err' = err /\ state' = state
  BY <1>1, <1>2, <1>3, FlowTypesOK, PeerFacts DEF RecvPing, RecvOpenRefused, Arrives, table
<1>5. /\ m \in PduSet /\ m.from = NoId
      /\ \/ m.type = "PONG" /\ o.type = "PING"
         \/ m.type = "OPEN_FAIL" /\ m.to = o.from /\ o.type = "OPEN"
  BY <1>2, <1>3, TamePdus, PduIs
<1>6. Sendable(e, O, m)
  BY <1>4, <1>5 DEF Sendable, Refusal, FromChannel, Talk
<1>7. Tries(e, m) /\ LinkStep(e, O)
  BY <1>1, <1>4, <1>5, <1>6, ConsumeAndTrySendStep
<1>8. TakenStep(e, O)
  BY <1>5, <1>7 DEF TakenStep, Tries
<1>9. /\ evq'[Peer(e)] = evq[Peer(e)] /\ evLost'[Peer(e)] = evLost[Peer(e)]
      /\ EventStep(e, O)
  <2>1. CASE RecvOpenRefused(e) /\ o.type = "OPEN"
    BY <2>1, EventsStay DEF RecvOpenRefused, host
  <2>2. CASE RecvPing(e) /\ o.type = "PING"
    <3>1. PICK ev : ev = Event("PING", NoId) /\ QueueEvent(e, ev)
      BY <2>2 DEF RecvPing
    <3>2. ev \in EventSet /\ ev.type = "PING"
      BY <3>1, EventType DEF Event, EventTypes
    <3>3. NewEvent(e, O, ev)
      BY <3>2 DEF NewEvent
    <3>4. EventStep(e, O)
      BY <1>4, <2>2, <3>1, <3>2, <3>3, EventQueued
    <3>5. evq'[Peer(e)] = evq[Peer(e)] /\ evLost'[Peer(e)] = evLost[Peer(e)]
      BY <1>4, <3>1, <3>2, QueueStep
    <3>. QED
      BY <3>4, <3>5
  <2>. QED
    BY <1>3, <2>1, <2>2
<1>10. StateStep(e, O) /\ ErrorStep(e)
  BY <1>4, StateStays
<1>11. Step(e, O)
  BY <1>4, <1>5, <1>7, <1>8, <1>9, <1>10, IdleStep DEF Tries
<1>. QED
  BY <1>11

\* A PDU for a channel that is not there, or no longer waits, is ignored.
LEMMA IgnoredStep ==
  ASSUME FlowInv, NEW e \in Ends, NEW o, o = Incoming(e), Readable(e), Consume(e),
         ch' = ch, nextId' = nextId, closed' = closed, acc' = acc, tally' = tally,
         err' = err, state' = state, evq' = evq, evLost' = evLost,
         \/ o.type = "EOF"
         \/ o.type = "WINDOW" /\ ch[e][o.to].st # "OPEN"
         \/ o.type = "OPEN_FAIL" /\ ch[e][o.to].st # "OPENING"
         \/ o.type = "CLOSE" /\ ch[e][o.to].st = "UNUSED"
  PROVE  Step(e, {o})
<1>1. LinkStep(e, {o}) /\ link'[e] = link[e] /\ pduLost' = pduLost
  BY FlowTypesOK, ConsumeStep
<1>2. TakenStep(e, {o})
  BY DEF TakenStep
<1>3. EventStep(e, {o}) /\ StateStep(e, {o}) /\ ErrorStep(e)
  BY EventsStay, StateStays
<1>. QED
  BY <1>1, <1>2, <1>3, IdleStep

\* A PDU about channel id that the handler takes and reports.
LEMMA HandledStep ==
  ASSUME FlowInv, NEW e \in Ends, NEW o, o = Incoming(e), Readable(e), Consume(e),
         NEW id \in Ids, \A x \in Ids : x # id => ch'[e][x] = ch[e][x],
         ch'[Peer(e)] = ch[Peer(e)], SlotChange(e, {o}, id),
         nextId' = nextId, closed' = closed, acc' = acc, state' = state, err' = err,
         tally'[Peer(e)] = tally[Peer(e)], TallyStep(e, {o}), TakenStep(e, {o}),
         NEW ev \in EventSet, QueueEvent(e, ev), NewEvent(e, {o}, ev),
         o.type = "DATA" => ev.type = "CHANNEL_DATA" /\ ev.id = o.to
  PROVE  Step(e, {o})
<1>1. LinkStep(e, {o}) /\ pduLost' = pduLost
  BY FlowTypesOK, ConsumeStep
<1>2. EventStep(e, {o})
  BY FlowTypesOK, EventQueued
<1>3. evq'[Peer(e)] = evq[Peer(e)] /\ evLost'[Peer(e)] = evLost[Peer(e)]
  BY FlowTypesOK, QueueStep
<1>4. nextId[e] <= nextId'[e] /\ nextId'[Peer(e)] = nextId[Peer(e)]
  BY SameIds
<1>. QED
  BY <1>1, <1>2, <1>3, <1>4, EditStep

\* A PDU that carries neither DATA nor credit leaves the counts alone.
LEMMA ConsumeTally ==
  ASSUME FlowInv, NEW e \in Ends, NEW o, Readable(e), Consume(e),
         o.type \notin {"DATA", "WINDOW"}, tally' = tally
  PROVE  TallyStep(e, {o}) /\ tally'[Peer(e)] = tally[Peer(e)]
<1>1. TypeIO /\ link'[e] = link[e]
  BY FlowTypesOK, ConsumeStep
<1>. QED
  BY <1>1, TallyStays

LEMMA RecvConfirmStep ==
  ASSUME FlowInv, NEW e \in Ends, RecvConfirm(e)
  PROVE  \E O : Step(e, O)
<1>1. PICK o : o = Incoming(e)
  OBVIOUS
<1>2. PICK ev : ev = Event("CHANNEL_OPENED", o.to)
  OBVIOUS
<1>3. /\ TypeTable /\ Peer(e) \in Ends /\ Peer(e) # e /\ Arrives(e, "CONFIRM")
      /\ Readable(e) /\ o \in PduSet /\ o.type = "CONFIRM" /\ o.to \in Ids /\ o.from \in Ids
  BY <1>1, FlowTypesOK, PeerFacts, ArrivedFacts DEF RecvConfirm, FromChannel, ToChannel
<1>4. CASE ch[e][o.to].st # "OPENING"
  <2>1. Fail(e, "CONFIRM unknown", o.to)
    BY <1>1, <1>4 DEF RecvConfirm
  <2>2. Blamed(e, [cause |-> "CONFIRM unknown", id |-> o.to])
    BY <1>1, <1>3, <1>4 DEF Blamed
  <2>3. Step(e, {})
    BY <1>3, <2>1, <2>2, FailStep
  <2>. QED
    BY <2>3
<1>5. CASE ch[e][o.to].st = "OPENING"
  <2>1. /\ ch' = [ch EXCEPT ![e][o.to].st = "OPEN", ![e][o.to].peer = o.from,
                            ![e][o.to].sendw = o.len,
                            ![e][o.to].max = PacketLimit(e, o.max)]
        /\ QueueEvent(e, ev) /\ Consume(e)
        /\ state' = state /\ nextId' = nextId /\ err' = err /\ closed' = closed
        /\ acc' = acc /\ tally' = tally
    BY <1>1, <1>2, <1>5 DEF RecvConfirm
  <2>2. /\ ch'[e][o.to] = [ch[e][o.to] EXCEPT !.st = "OPEN", !.peer = o.from, !.sendw = o.len,
                                              !.max = PacketLimit(e, o.max)]
        /\ ch'[Peer(e)] = ch[Peer(e)] /\ ch[e][o.to] \in ChannelSet
        /\ \A x \in Ids : x # o.to => ch'[e][x] = ch[e][x]
    BY <1>3, <2>1, ZenonT(30) DEF TypeTable
  <2>3. /\ ch'[e][o.to].st = "OPEN" /\ ch'[e][o.to].peer = o.from
        /\ ch'[e][o.to].leof = ch[e][o.to].leof /\ ch'[e][o.to].reof = ch[e][o.to].reof
    BY <2>2 DEF ChannelSet, ChannelFields
  <2>4. SlotChange(e, {o}, o.to)
    <3>1. \E n \in {o} : n.type = "CONFIRM" /\ n.to = o.to /\ n.from = ch'[e][o.to].peer
      BY <1>3, <2>3
    <3>2. Confirmed(e, {o}, o.to)
      BY <1>5, <2>3, <3>1, Zenon DEF Confirmed
    <3>. QED
      BY <3>2 DEF SlotChange
  <2>5. ev \in EventSet /\ ev.type = "CHANNEL_OPENED"
    BY <1>2, <1>3, EventType DEF Event, EventTypes
  <2>6. TallyStep(e, {o}) /\ tally'[Peer(e)] = tally[Peer(e)]
    BY <1>3, <2>1, ConsumeTally
  <2>7. TakenStep(e, {o}) /\ NewEvent(e, {o}, ev)
    BY <1>3, <1>5, <2>3, <2>5 DEF TakenStep, NewEvent
  <2>8. Step(e, {o})
    BY <1>1, <1>3, <2>1, <2>2, <2>4, <2>5, <2>6, <2>7, HandledStep
  <2>. QED
    BY <2>8
<1>. QED
  BY <1>4, <1>5

LEMMA RecvOpenFailStep ==
  ASSUME FlowInv, NEW e \in Ends, RecvOpenFail(e)
  PROVE  \E O : Step(e, O)
<1>1. PICK o : o = Incoming(e)
  OBVIOUS
<1>2. PICK ev : ev = Event("CHANNEL_OPEN_FAIL", o.to)
  OBVIOUS
<1>3. /\ TypeTable /\ Peer(e) \in Ends /\ Peer(e) # e
      /\ Readable(e) /\ o \in PduSet /\ o.type = "OPEN_FAIL" /\ o.to \in Ids
  BY <1>1, FlowTypesOK, PeerFacts, ArrivedFacts DEF RecvOpenFail, ToChannel
<1>4. /\ Consume(e) /\ state' = state /\ err' = err /\ closed' = closed
      /\ acc' = acc /\ tally' = tally
  BY DEF RecvOpenFail
<1>5. CASE ch[e][o.to].st # "OPENING"
  <2>1. ch' = ch /\ nextId' = nextId /\ evq' = evq /\ evLost' = evLost
    BY <1>1, <1>5 DEF RecvOpenFail, table, host
  <2>2. Step(e, {o})
    BY <1>1, <1>3, <1>4, <1>5, <2>1, IgnoredStep
  <2>. QED
    BY <2>2
<1>6. CASE ch[e][o.to].st = "OPENING"
  <2>1. ch' = [ch EXCEPT ![e][o.to] = FreeSlot] /\ QueueEvent(e, ev) /\ nextId' = nextId
    BY <1>1, <1>2, <1>6 DEF RecvOpenFail, Free
  <2>2. /\ ch'[e][o.to] = FreeSlot /\ ch'[Peer(e)] = ch[Peer(e)]
        /\ \A x \in Ids : x # o.to => ch'[e][x] = ch[e][x]
    BY <1>3, <2>1 DEF TypeTable
  <2>3. ch'[e][o.to].st = "UNUSED" /\ ~ch'[e][o.to].reof
    BY <2>2 DEF FreeSlot
  <2>4. SlotChange(e, {o}, o.to)
    <3>1. Freed(e, {o}, o.to)
      BY <1>3, <1>6, <2>3 DEF Freed
    <3>. QED
      BY <3>1 DEF SlotChange
  <2>5. ev \in EventSet /\ ev.type = "CHANNEL_OPEN_FAIL"
    BY <1>2, <1>3, EventType DEF Event, EventTypes
  <2>6. TallyStep(e, {o}) /\ tally'[Peer(e)] = tally[Peer(e)]
    BY <1>3, <1>4, ConsumeTally
  <2>7. TakenStep(e, {o}) /\ NewEvent(e, {o}, ev)
    BY <1>3, <2>3, <2>5 DEF TakenStep, NewEvent
  <2>8. Step(e, {o})
    BY <1>1, <1>3, <1>4, <2>1, <2>2, <2>4, <2>5, <2>6, <2>7, HandledStep
  <2>. QED
    BY <2>8
<1>. QED
  BY <1>5, <1>6

LEMMA RecvCloseStep ==
  ASSUME FlowInv, NEW e \in Ends, RecvClose(e)
  PROVE  \E O : Step(e, O)
<1>1. PICK o : o = Incoming(e)
  OBVIOUS
<1>2. PICK ev : ev = Event("CHANNEL_CLOSE", o.to)
  OBVIOUS
<1>3. /\ TypeTable /\ Peer(e) \in Ends /\ Peer(e) # e
      /\ Readable(e) /\ o \in PduSet /\ o.type = "CLOSE" /\ o.to \in Ids
  BY <1>1, FlowTypesOK, PeerFacts, ArrivedFacts DEF RecvClose, ToChannel
<1>4. /\ Consume(e) /\ state' = state /\ err' = err /\ closed' = closed
      /\ acc' = acc /\ tally' = tally
  BY DEF RecvClose
<1>5. CASE ch[e][o.to].st = "UNUSED"
  <2>1. ch' = ch /\ nextId' = nextId /\ evq' = evq /\ evLost' = evLost
    BY <1>1, <1>5 DEF RecvClose, table, host
  <2>2. Step(e, {o})
    BY <1>1, <1>3, <1>4, <1>5, <2>1, IgnoredStep
  <2>. QED
    BY <2>2
<1>6. CASE ch[e][o.to].st # "UNUSED"
  <2>1. ch' = [ch EXCEPT ![e][o.to] = FreeSlot] /\ QueueEvent(e, ev) /\ nextId' = nextId
    BY <1>1, <1>2, <1>6 DEF RecvClose, Free
  <2>2. /\ ch'[e][o.to] = FreeSlot /\ ch'[Peer(e)] = ch[Peer(e)]
        /\ \A x \in Ids : x # o.to => ch'[e][x] = ch[e][x]
    BY <1>3, <2>1 DEF TypeTable
  <2>3. ch'[e][o.to].st = "UNUSED" /\ ~ch'[e][o.to].reof
    BY <2>2 DEF FreeSlot
  <2>4. SlotChange(e, {o}, o.to)
    <3>1. Freed(e, {o}, o.to)
      BY <1>3, <1>6, <2>3 DEF Freed
    <3>. QED
      BY <3>1 DEF SlotChange
  <2>5. ev \in EventSet /\ ev.type = "CHANNEL_CLOSE"
    BY <1>2, <1>3, EventType DEF Event, EventTypes
  <2>6. TallyStep(e, {o}) /\ tally'[Peer(e)] = tally[Peer(e)]
    BY <1>3, <1>4, ConsumeTally
  <2>7. TakenStep(e, {o}) /\ NewEvent(e, {o}, ev)
    BY <1>3, <2>3, <2>5 DEF TakenStep, NewEvent
  <2>8. Step(e, {o})
    BY <1>1, <1>3, <1>4, <2>1, <2>2, <2>4, <2>5, <2>6, <2>7, HandledStep
  <2>. QED
    BY <2>8
<1>. QED
  BY <1>5, <1>6

LEMMA RecvEofStep ==
  ASSUME FlowInv, NEW e \in Ends, RecvEof(e)
  PROVE  \E O : Step(e, O)
<1>1. PICK o : o = Incoming(e)
  OBVIOUS
<1>2. PICK ev : ev = Event("CHANNEL_EOF", o.to)
  OBVIOUS
<1>3. /\ TypeTable /\ Peer(e) \in Ends /\ Peer(e) # e
      /\ Readable(e) /\ o \in PduSet /\ o.type = "EOF" /\ o.to \in Ids
  BY <1>1, FlowTypesOK, PeerFacts, ArrivedFacts DEF RecvEof, ToChannel
<1>4. /\ Consume(e) /\ state' = state /\ err' = err /\ closed' = closed
      /\ acc' = acc /\ tally' = tally /\ nextId' = nextId
  BY DEF RecvEof
<1>5. CASE ch[e][o.to].st = "UNUSED"
  <2>1. ch' = ch /\ evq' = evq /\ evLost' = evLost
    BY <1>1, <1>5 DEF RecvEof, host
  <2>2. Step(e, {o})
    BY <1>1, <1>3, <1>4, <1>5, <2>1, IgnoredStep
  <2>. QED
    BY <2>2
<1>6. CASE ch[e][o.to].st # "UNUSED"
  <2>1. ch' = [ch EXCEPT ![e][o.to].reof = TRUE] /\ QueueEvent(e, ev)
    BY <1>1, <1>2, <1>6 DEF RecvEof
  <2>2. /\ ch'[e][o.to] = [ch[e][o.to] EXCEPT !.reof = TRUE]
        /\ ch'[Peer(e)] = ch[Peer(e)] /\ ch[e][o.to] \in ChannelSet
        /\ \A x \in Ids : x # o.to => ch'[e][x] = ch[e][x]
    BY <1>3, <2>1 DEF TypeTable
  <2>3. /\ ch'[e][o.to].st = ch[e][o.to].st /\ ch'[e][o.to].peer = ch[e][o.to].peer
        /\ ch'[e][o.to].leof = ch[e][o.to].leof /\ ch'[e][o.to].reof
    BY <2>2 DEF ChannelSet, ChannelFields
  <2>4. SlotChange(e, {o}, o.to)
    <3>1. \E n \in {o} : n.type = "EOF" /\ n.to = o.to
      BY <1>3
    <3>2. Kept(e, {o}, o.to)
      BY <2>3, <3>1, Zenon DEF Kept
    <3>. QED
      BY <3>2 DEF SlotChange
  <2>5. ev \in EventSet /\ ev.type = "CHANNEL_EOF" /\ ev.id = o.to
    BY <1>2, <1>3, EventType DEF Event, EventTypes
  <2>6. TallyStep(e, {o}) /\ tally'[Peer(e)] = tally[Peer(e)]
    BY <1>3, <1>4, ConsumeTally
  <2>7. TakenStep(e, {o}) /\ NewEvent(e, {o}, ev)
    BY <1>3, <1>6, <2>3, <2>5 DEF TakenStep, NewEvent
  <2>8. Step(e, {o})
    BY <1>1, <1>3, <1>4, <2>1, <2>2, <2>4, <2>5, <2>6, <2>7, HandledStep
  <2>. QED
    BY <2>8
<1>. QED
  BY <1>5, <1>6

LEMMA RecvWindowStep ==
  ASSUME FlowInv, NEW e \in Ends, RecvWindow(e)
  PROVE  \E O : Step(e, O)
<1>1. PICK o : o = Incoming(e)
  OBVIOUS
<1>2. PICK w : w = (ch[e][o.to].sendw + o.len) % WinMod
  OBVIOUS
<1>3. /\ TypeTable /\ TypePast /\ TypeIO /\ Peer(e) \in Ends /\ Peer(e) # e
      /\ Readable(e) /\ o \in PduSet /\ o.type = "WINDOW" /\ o.to \in Ids
  BY <1>1, FlowTypesOK, PeerFacts, ArrivedFacts DEF RecvWindow, ToChannel
<1>4. /\ Consume(e) /\ state' = state /\ err' = err /\ closed' = closed
      /\ acc' = acc /\ nextId' = nextId
  BY DEF RecvWindow
<1>5. CASE ch[e][o.to].st # "OPEN"
  <2>1. ch' = ch /\ tally' = tally /\ evq' = evq /\ evLost' = evLost
    BY <1>1, <1>5 DEF RecvWindow, host
  <2>2. Step(e, {o})
    BY <1>1, <1>3, <1>4, <1>5, <2>1, IgnoredStep
  <2>. QED
    BY <2>2
<1>6. CASE ch[e][o.to].st = "OPEN"
  <2>1. PICK v : v = ch'[e][o.to].sendw
    OBVIOUS
  <2>2. PICK ev : ev = [Event("CHANNEL_WINDOW", o.to) EXCEPT !.pos = o.len, !.len = v]
    OBVIOUS
  <2>3. /\ ch' = [ch EXCEPT ![e][o.to].sendw = (@ + o.len) % WinMod]
        /\ tally' = [tally EXCEPT ![e][o.to].credited = @ + o.len]
        /\ QueueEvent(e, ev)
    BY <1>1, <1>6, <2>1, <2>2 DEF RecvWindow
  <2>4. /\ ch'[e][o.to] = [ch[e][o.to] EXCEPT !.sendw = (@ + o.len) % WinMod]
        /\ ch'[Peer(e)] = ch[Peer(e)] /\ ch[e][o.to] \in ChannelSet
        /\ \A x \in Ids : x # o.to => ch'[e][x] = ch[e][x]
    BY <1>3, <2>3 DEF TypeTable
  <2>5. /\ ch'[e][o.to].st = ch[e][o.to].st /\ ch'[e][o.to].peer = ch[e][o.to].peer
        /\ ch'[e][o.to].leof = ch[e][o.to].leof /\ ch'[e][o.to].reof = ch[e][o.to].reof
        /\ ch'[e][o.to].sendw = (ch[e][o.to].sendw + o.len) % WinMod
    BY <2>4 DEF ChannelSet, ChannelFields
  <2>6. SlotChange(e, {o}, o.to)
    <3>1. Kept(e, {o}, o.to)
      BY <2>5, Zenon DEF Kept
    <3>. QED
      BY <3>1 DEF SlotChange
  <2>7. o.len \in Nat /\ v \in Nat
    <3>1. o.len \in Nat /\ ch[e][o.to].sendw \in Nat /\ WinMod \in Nat \ {0}
      BY <1>3, <2>4, WidthAssumption DEF PduSet, PduFields, ChannelSet, ChannelFields
    <3>. QED
      BY <2>1, <2>5, <3>1
  <2>8. ev \in EventSet /\ ev.type = "CHANNEL_WINDOW"
    <3>1. Event("CHANNEL_WINDOW", o.to) \in EventSet /\ "CHANNEL_WINDOW" \in EventTypes
      BY <1>3, EventType DEF EventTypes
    <3>2. [Event("CHANNEL_WINDOW", o.to) EXCEPT !.pos = o.len, !.len = v] \in EventSet
      BY <1>3, <2>7, <3>1, EventType
    <3>. QED
      BY <2>2, <3>2 DEF Event
  <2>9. TallyStep(e, {o}) /\ tally'[Peer(e)] = tally[Peer(e)]
    <3>1. /\ tally'[Peer(e)] = tally[Peer(e)] /\ tally[e][o.to] \in TallySet
          /\ \A x \in Ids : x # o.to => tally'[e][x] = tally[e][x]
          /\ tally'[e][o.to] = [tally[e][o.to] EXCEPT !.credited = @ + o.len]
      BY <1>3, <2>3 DEF TypePast
    <3>2. /\ tally'[e][o.to].sent = tally[e][o.to].sent
          /\ tally'[e][o.to].rcvd = tally[e][o.to].rcvd
          /\ tally'[e][o.to].granted = tally[e][o.to].granted
          /\ tally'[e][o.to].credited = tally[e][o.to].credited + o.len
      BY <3>1 DEF TallySet
    <3>3. \A x \in Ids : /\ tally'[e][x].sent = tally[e][x].sent
                         /\ tally'[e][x].rcvd = tally[e][x].rcvd
                         /\ tally'[e][x].granted = tally[e][x].granted
      BY <3>1, <3>2
    <3>4. link'[e] = link[e]
      BY <1>3, <1>4, ConsumeStep
    <3>5. ByteStep(e, {o})
      BY <1>3, <3>3, <3>4, BytesStay
    <3>6. CreditStep(e, {o})
      BY <1>3, <3>1, <3>2, <3>3 DEF CreditStep
    <3>. QED
      BY <3>1, <3>5, <3>6 DEF TallyStep
  <2>10. TakenStep(e, {o}) /\ NewEvent(e, {o}, ev)
    BY <1>3, <2>8 DEF TakenStep, NewEvent
  <2>11. Step(e, {o})
    BY <1>1, <1>3, <1>4, <2>3, <2>4, <2>6, <2>8, <2>9, <2>10, HandledStep
  <2>. QED
    BY <2>11
<1>. QED
  BY <1>5, <1>6

LEMMA RecvDataStep ==
  ASSUME FlowInv, NEW e \in Ends, RecvData(e)
  PROVE  \E O : Step(e, O)
<1>1. PICK o : o = Incoming(e)
  OBVIOUS
<1>2. PICK ev : ev = [Event("CHANNEL_DATA", o.to) EXCEPT !.pos = o.pos, !.len = o.len]
  OBVIOUS
<1>3. /\ TypeTable /\ TypePast /\ TypeIO /\ Peer(e) \in Ends /\ Peer(e) # e
      /\ Arrives(e, "DATA") /\ Readable(e)
      /\ o \in PduSet /\ o.type = "DATA" /\ o.to \in Ids
  BY <1>1, FlowTypesOK, PeerFacts, ArrivedFacts DEF RecvData, ToChannel
<1>4. DataVerdict(ch[e][o.to], o.len) \in {"none", "DATA bad ch"}
  BY <1>1, <1>3, DataFits
<1>5. CASE DataVerdict(ch[e][o.to], o.len) = "DATA bad ch"
  <2>1. Fail(e, "DATA bad ch", o.to)
    BY <1>1, <1>5 DEF RecvData
  <2>2. ch[e][o.to].st \in {"UNUSED", "OPENING"}
    BY <1>5 DEF DataVerdict
  <2>3. Blamed(e, [cause |-> "DATA bad ch", id |-> o.to])
    BY <1>1, <1>3, <2>2 DEF Blamed
  <2>4. Step(e, {})
    BY <1>3, <2>1, <2>3, FailStep
  <2>. QED
    BY <2>4
<1>6. CASE DataVerdict(ch[e][o.to], o.len) = "none"
  <2>1. /\ ch' = [ch EXCEPT ![e][o.to].recvw = @ - o.len]
        /\ tally' = [tally EXCEPT ![e][o.to].rcvd = @ + o.len]
        /\ QueueEvent(e, ev) /\ Consume(e)
        /\ state' = state /\ nextId' = nextId /\ err' = err /\ closed' = closed /\ acc' = acc
    BY <1>1, <1>2, <1>6 DEF RecvData
  <2>2. /\ ch'[e][o.to] = [ch[e][o.to] EXCEPT !.recvw = @ - o.len]
        /\ ch'[Peer(e)] = ch[Peer(e)] /\ ch[e][o.to] \in ChannelSet
        /\ \A x \in Ids : x # o.to => ch'[e][x] = ch[e][x]
    BY <1>3, <2>1 DEF TypeTable
  <2>3. /\ ch'[e][o.to].st = ch[e][o.to].st /\ ch'[e][o.to].peer = ch[e][o.to].peer
        /\ ch'[e][o.to].leof = ch[e][o.to].leof /\ ch'[e][o.to].reof = ch[e][o.to].reof
    BY <2>2 DEF ChannelSet, ChannelFields
  <2>4. SlotChange(e, {o}, o.to)
    <3>1. Kept(e, {o}, o.to)
      BY <2>3, Zenon DEF Kept
    <3>. QED
      BY <3>1 DEF SlotChange
  <2>5. /\ ev \in EventSet /\ ev.type = "CHANNEL_DATA" /\ ev.id = o.to
        /\ ev.pos = o.pos /\ ev.len = o.len
    <3>1. "CHANNEL_DATA" \in EventTypes /\ o.pos \in Nat /\ o.len \in Nat
      BY <1>3 DEF EventTypes, PduSet, PduFields
    <3>2. [Event("CHANNEL_DATA", o.to) EXCEPT !.pos = o.pos, !.len = o.len] \in EventSet
      BY <1>3, <3>1, EventType
    <3>. QED
      BY <1>2, <3>2 DEF Event
  <2>6. TallyStep(e, {o}) /\ tally'[Peer(e)] = tally[Peer(e)]
    <3>1. /\ tally'[Peer(e)] = tally[Peer(e)] /\ tally[e][o.to] \in TallySet
          /\ \A x \in Ids : x # o.to => tally'[e][x] = tally[e][x]
          /\ tally'[e][o.to] = [tally[e][o.to] EXCEPT !.rcvd = @ + o.len]
      BY <1>3, <2>1 DEF TypePast
    <3>2. /\ tally'[e][o.to].sent = tally[e][o.to].sent
          /\ tally'[e][o.to].rcvd = tally[e][o.to].rcvd + o.len
          /\ tally'[e][o.to].granted = tally[e][o.to].granted
          /\ tally'[e][o.to].credited = tally[e][o.to].credited
      BY <3>1 DEF TallySet
    <3>3. link'[e] = link[e]
      BY <1>3, <2>1, ConsumeStep
    <3>4. \A m \in PduSet : ~Puts(e, m)
      BY <1>3, <3>3, PutsOnce
    <3>5. ByteStep(e, {o})
      BY <1>3, <3>1, <3>2, <3>4 DEF ByteStep
    <3>6. \A x \in Ids : /\ tally'[e][x].granted = tally[e][x].granted
                         /\ tally'[e][x].credited = tally[e][x].credited
      BY <3>1, <3>2
    <3>7. CreditStep(e, {o})
      BY <1>3, <3>6, CreditStays
    <3>. QED
      BY <3>1, <3>5, <3>7 DEF TallyStep
  <2>7. TakenStep(e, {o}) /\ NewEvent(e, {o}, ev)
    <3>1. ch[e][o.to].st = "OPEN"
      BY <1>1, <1>3, <1>6, DataFits
    <3>. QED
      BY <1>3, <2>5, <3>1 DEF TakenStep, NewEvent
  <2>8. Step(e, {o})
    BY <1>1, <1>3, <2>1, <2>2, <2>4, <2>5, <2>6, <2>7, HandledStep
  <2>. QED
    BY <2>8
<1>. QED
  BY <1>4, <1>5, <1>6

LEMMA RecvOpenPendingStep ==
  ASSUME FlowInv, NEW e \in Ends, RecvOpenPending(e)
  PROVE  \E O : Step(e, O)
<1>1. PICK o : o = Incoming(e)
  OBVIOUS
<1>2. PICK c : c = [FreeSlot EXCEPT !.st = "PENDING", !.peer = o.from, !.sendw = o.len,
                      !.max = PacketLimit(e, o.max), !.recvw = InitialWindow[e]]
  OBVIOUS
<1>3. PICK id : id = nextId[e]
  OBVIOUS
<1>4. PICK ev : ev = Event("CHANNEL_OPEN", id)
  OBVIOUS
<1>5. /\ TypeTable /\ TypePast /\ TypeIO /\ TypeHost /\ Peer(e) \in Ends /\ Peer(e) # e
      /\ Readable(e) /\ o.type = "OPEN" /\ o.from \in Ids
  BY <1>1, FlowTypesOK, PeerFacts, ArrivedFacts DEF RecvOpenPending, FromChannel
<1>6. /\ ch' = [ch EXCEPT ![e][id] = c] /\ nextId' = [nextId EXCEPT ![e] = @ + 1]
      /\ QueueEvent(e, ev) /\ Consume(e) /\ acc' = [acc EXCEPT ![e][o.from] = id]
      /\ state' = state /\ err' = err /\ closed' = closed /\ tally' = tally /\ id \in Ids
  BY <1>1, <1>2, <1>3, <1>4 DEF RecvOpenPending, Alloc, CanAlloc
<1>7. /\ ch'[e][id] = c /\ ch'[Peer(e)] = ch[Peer(e)]
      /\ \A x \in Ids : x # id => ch'[e][x] = ch[e][x]
      /\ nextId'[e] = id + 1 /\ nextId'[Peer(e)] = nextId[Peer(e)] /\ id \in Nat
      /\ c.st = "PENDING" /\ ~c.reof
  BY <1>2, <1>3, <1>5, <1>6 DEF TypeTable, FreeSlot
<1>8. /\ acc'[e][o.from] = id /\ acc'[Peer(e)] = acc[Peer(e)]
      /\ \A x \in Ids : x # o.from => acc'[e][x] = acc[e][x]
  BY <1>5, <1>6 DEF TypePast
<1>9. acc[e][o.from] = NoId
  <2>1. PduPaired(Peer(e), o)
    BY <1>1, <1>5, IncomingFlies, FlyingFacts
  <2>. QED
    BY <1>5, <2>1, PeerFacts DEF PduPaired
<1>10. LinkStep(e, {o}) /\ link'[e] = link[e] /\ pduLost' = pduLost
  BY <1>1, <1>5, <1>6, ConsumeStep
<1>11. SlotStep(e, {o})
  <2>1. Begun(e, id)
    BY <1>3, <1>7 DEF Begun
  <2>2. SlotChange(e, {o}, id)
    BY <2>1 DEF SlotChange
  <2>3. nextId[e] <= nextId'[e]
    BY <1>3, <1>7
  <2>. QED
    BY <1>5, <1>6, <1>7, <1>10, <2>2, <2>3, SlotEdit
<1>12. PairStep(e, {o})
  BY <1>3, <1>5, <1>6, <1>7, <1>8, <1>9 DEF PairStep
<1>13. TakenStep(e, {o})
  BY <1>5, <1>6, <1>7, <1>8 DEF TakenStep
<1>14. TallyStep(e, {o}) /\ tally'[Peer(e)] = tally[Peer(e)]
  BY <1>5, <1>6, ConsumeTally
<1>15. ev \in EventSet /\ ev.type = "CHANNEL_OPEN"
  BY <1>4, <1>6, EventType DEF Event, EventTypes
<1>16. EventStep(e, {o})
  <2>1. NewEvent(e, {o}, ev)
    BY <1>15 DEF NewEvent
  <2>2. TypeHost /\ QueueEvent(e, ev) /\ \A p \in {o} : p.type # "DATA"
    BY <1>5, <1>6
  <2>. QED
    BY <1>15, <2>1, <2>2, EventQueued
<1>17. evq'[Peer(e)] = evq[Peer(e)] /\ evLost'[Peer(e)] = evLost[Peer(e)]
  BY <1>5, <1>6, <1>15, QueueStep
<1>18. StateStep(e, {o}) /\ ErrorStep(e)
  BY <1>6, StateStays
<1>19. PeerIdle(e)
  BY <1>6, <1>7, <1>8, <1>10, <1>14, <1>17 DEF PeerIdle
<1>20. Step(e, {o})
  BY <1>10, <1>11, <1>12, <1>13, <1>14, <1>16, <1>18, <1>19 DEF Step
<1>. QED
  BY <1>20

LEMMA RecvStep ==
  ASSUME FlowInv, NEW e \in Ends, Recv(e)
  PROVE  \E O : Step(e, O)
<1>1. CASE RecvUnknown(e)
  <2>1. Arrives(e, "AUTH_OK") /\ Fail(e, "unknown mux pdu", NoId)
    BY <1>1 DEF RecvUnknown
  <2>2. Blamed(e, [cause |-> "unknown mux pdu", id |-> NoId])
    BY <2>1, ArrivedFacts DEF Blamed
  <2>3. Step(e, {})
    BY <2>1, <2>2, FailStep
  <2>. QED
    BY <2>3
<1>. QED
  BY <1>1, SessionRecvStep, AnswerStep, RecvOpenPendingStep, RecvConfirmStep,
     RecvOpenFailStep, RecvDataStep, RecvWindowStep, RecvEofStep, RecvCloseStep DEF Recv

\* Every action is a step.
LEMMA NextStep ==
  ASSUME FlowInv, [Next]_vars
  PROVE  \E e \in Ends : \E O : Step(e, O)
<1>1. ASSUME NEW e \in Ends, Call(e) \/ Pump(e) PROVE \E O : Step(e, O)
  <2>1. CASE Call(e)
    <3>1. Step(e, {})
      BY <2>1, CallStep
    <3>. QED
      BY <3>1
  <2>2. CASE GetOutput(e) \/ NextEvent(e)
    <3>1. Step(e, {})
      BY <2>2, QuietStep
    <3>. QED
      BY <3>1
  <2>3. CASE Recv(e)
    BY <2>3, RecvStep
  <2>. QED
    BY <1>1, <2>1, <2>2, <2>3 DEF Pump
<1>2. CASE UNCHANGED vars
  <2>1. Client \in Ends
    BY DEF Ends
  <2>2. Step(Client, {})
    BY <1>2, <2>1, QuietStep
  <2>. QED
    BY <2>1, <2>2
<1>. QED
  BY <1>1, <1>2 DEF Next

----------------------------------------------------------------------------
(* Second half: what every step preserves.  What the invariant says first. *)

\* What m, in flight from x, says.
LEMMA FlightFacts ==
  ASSUME TrafficInv, NEW x \in Ends, NEW m \in Wire(x)
  PROVE  /\ m \in PduSet /\ PduPaired(x, m) /\ PduBalanced(x, m) /\ PduQuiet(x, m)
         /\ PduSent(x, m) /\ PduDue(x, m)
         /\ m.type \in FromChannel => m.from \in Ids
         /\ m.type \in ToChannel => m.to \in Ids
<1>1. FlowInv /\ LinkSent /\ LinkDue
  BY DEF TrafficInv, ChannelInv
<1>2. Flying(x, m)
  BY DEF Flying, Wire
<1>3. m \in PduSet /\ PduPaired(x, m) /\ PduBalanced(x, m) /\ PduQuiet(x, m)
  BY <1>1, <1>2, FlyingFacts
<1>4. PduSent(x, m) /\ PduDue(x, m)
  BY <1>1 DEF LinkSent, LinkDue
<1>. QED
  BY <1>3, <1>4 DEF PduSet

\* Ids are numbers, and what is about a channel in use is about an allocated one.
LEMMA SlotFacts ==
  ASSUME TrafficInv, NEW x \in Ends
  PROVE  /\ Peer(x) \in Ends /\ Peer(x) # x /\ Peer(Peer(x)) = x
         /\ \A y \in Ends : y = x \/ y = Peer(x)
         /\ Ids \subseteq Nat /\ NoId \notin Ids /\ nextId[x] \in Nat
         /\ closed[x] \subseteq Ids
         /\ \A id \in closed[x] : ch[x][id].st = "UNUSED" /\ id < nextId[x]
         /\ \A id \in Ids :
              /\ ch[x][id].st # "UNUSED" => id < nextId[x]
              /\ ch[x][id].st \in {"UNUSED", "OPENING", "PENDING", "OPEN"}
              /\ ch[x][id].st \in {"PENDING", "OPEN"} =>
                   ch[x][id].peer \in Ids /\ Paired(x, id, ch[x][id].peer)
              /\ ch[x][id].st = "PENDING" => acc[x][ch[x][id].peer] = id
              /\ ch[x][id].st = "OPENING" => \A y \in Ids : acc[x][y] # id
              /\ ch[x][id].st = "OPEN" => ch[Peer(x)][ch[x][id].peer].st # "PENDING"
         /\ \A id \in Ids : acc[x][id] \in Ids \cup {NoId}
<1>1. FlowInv /\ ClosedGone
  BY DEF TrafficInv, ChannelInv
<1>2. TypeTable /\ TypePast /\ UnusedAhead /\ PeerSound /\ Quiet
  BY <1>1, FlowTypesOK DEF FlowInv, TableInv, PairInv
<1>3. Ids \subseteq Nat /\ NoId \notin Ids /\ nextId[x] \in Nat
  BY <1>2, IdFacts DEF TypeTable
<1>4. /\ closed[x] \subseteq Ids /\ \A id \in Ids : acc[x][id] \in Ids \cup {NoId}
      /\ \A id \in closed[x] : ch[x][id].st = "UNUSED" /\ id < nextId[x]
  BY <1>1, <1>2 DEF TypePast, ClosedGone
<1>. SUFFICES ASSUME NEW id \in Ids
              PROVE  /\ ch[x][id].st # "UNUSED" => id < nextId[x]
                     /\ ch[x][id].st \in {"UNUSED", "OPENING", "PENDING", "OPEN"}
                     /\ ch[x][id].st \in {"PENDING", "OPEN"} =>
                          ch[x][id].peer \in Ids /\ Paired(x, id, ch[x][id].peer)
                     /\ ch[x][id].st = "PENDING" => acc[x][ch[x][id].peer] = id
                     /\ ch[x][id].st = "OPENING" => \A y \in Ids : acc[x][y] # id
                     /\ ch[x][id].st = "OPEN" => ch[Peer(x)][ch[x][id].peer].st # "PENDING"
  BY <1>3, <1>4, PeerFacts
<1>5. ch[x][id] \in ChannelSet
  BY <1>2 DEF TypeTable
<1>6. /\ ch[x][id].st \in {"UNUSED", "OPENING", "PENDING", "OPEN"}
      /\ ch[x][id].st \in {"PENDING", "OPEN"} => ch[x][id].peer \in Ids
  BY <1>5 DEF ChannelSet, ChannelFields, ChStates
<1>7. ch[x][id].st # "UNUSED" => id < nextId[x]
  <2>1. id \in Nat /\ (id >= nextId[x] => ch[x][id].st = "UNUSED")
    BY <1>2, <1>3, FreeSlotType DEF UnusedAhead
  <2>. QED
    BY <1>3, <2>1
<1>8. /\ ch[x][id].st = "PENDING" => acc[x][ch[x][id].peer] = id
      /\ ch[x][id].st = "OPEN" => Paired(x, id, ch[x][id].peer)
      /\ ch[x][id].st = "OPENING" => \A y \in Ids : acc[x][y] # id
  BY <1>2 DEF PeerSound
<1>9. ch[x][id].st = "OPEN" => ch[Peer(x)][ch[x][id].peer].st # "PENDING"
  BY <1>2 DEF Quiet
<1>. QED
  BY <1>6, <1>7, <1>8, <1>9 DEF Paired

\* A channel has one partner, on either side.
LEMMA OnePartner ==
  ASSUME TrafficInv, NEW x \in Ends, NEW a \in Ids, NEW b \in Ids, Paired(x, a, b)
  PROVE  /\ \A c \in Ids : Paired(x, c, b) => c = a
         /\ \A c \in Ids : Paired(x, a, c) => c = b
         /\ a < nextId[x] /\ b < nextId[Peer(x)]
         /\ Paired(Peer(x), b, a)
         /\ acc[x][b] = a => acc[Peer(x)][a] = NoId
         /\ acc[Peer(x)][a] = b => acc[x][b] = NoId
<1>1. AccSound /\ TypePast
  BY FlowTypesOK DEF TrafficInv, FlowInv, PairInv
<1>2. \A c \in Ids : Paired(x, c, b) => c = a
  BY <1>1, PairUnique
<1>3. Peer(x) \in Ends /\ Peer(Peer(x)) = x /\ NoId \notin Ids
  BY PeerFacts, IdFacts
<1>4. Paired(Peer(x), b, a) /\ \A c \in Ids : Paired(x, a, c) => Paired(Peer(x), c, a)
  BY PairSymmetric
<1>5. \A c \in Ids : Paired(x, a, c) => c = b
  BY <1>1, <1>3, <1>4, PairUnique
<1>6. a < nextId[x] /\ b < nextId[Peer(x)]
  BY <1>1, PairAllocated
<1>7. acc[x][b] = a => acc[Peer(x)][a] = NoId
  BY <1>1, <1>3 DEF AccSound
<1>8. acc[Peer(x)][a] = b => acc[x][b] = NoId
  BY <1>1, <1>3 DEF AccSound
<1>. QED
  BY <1>2, <1>4, <1>5, <1>6, <1>7, <1>8

\* The PDUs of a channel that has been accepted are about a pair, and the channel a
\* PDU comes from has been allocated.
LEMMA FlightPaired ==
  ASSUME TrafficInv, NEW x \in Ends, NEW m \in Wire(x)
  PROVE  /\ m.type \in Talk \cup {"CONFIRM"} => Paired(x, m.from, m.to)
         /\ m.type = "CONFIRM" => acc[x][m.to] = m.from
         /\ m.type \in FromChannel => m.from < nextId[x]
         /\ m.type \notin FromChannel => m.from = NoId
<1>1. /\ PduPaired(x, m) /\ PduSent(x, m)
      /\ m.type \in FromChannel => m.from \in Ids
      /\ m.type \in ToChannel => m.to \in Ids
  BY FlightFacts
<1>2. m.type \in Talk \cup {"CONFIRM"} => Paired(x, m.from, m.to)
  BY <1>1 DEF PduPaired, PduSent, Talk, Paired
<1>3. m.type \in Talk \cup {"CONFIRM"} => m.from < nextId[x]
  BY <1>1, <1>2, OnePartner DEF Talk, FromChannel, ToChannel
<1>4. m.type \in FromChannel => m.from < nextId[x]
  BY <1>1, <1>3 DEF PduPaired, Talk, FromChannel
<1>. QED
  BY <1>1, <1>2, <1>4 DEF PduPaired, PduSent

\* What a step does to what is in flight.
LEMMA StepWire ==
  ASSUME TrafficInv, NEW e \in Ends, NEW O, Step(e, O)
  PROVE  /\ O \subseteq Wire(Peer(e)) /\ \A o, p \in O : o = p
         /\ Wire(e) \subseteq Wire(e)'
         /\ \A m \in Wire(e)' : m \in Wire(e) \/ Sendable(e, O, m)
         /\ Wire(Peer(e))' \subseteq Wire(Peer(e))
         /\ \A m \in Wire(Peer(e)) : m \in Wire(Peer(e))' \/ m \in O
         /\ \A o \in O : \A n \in Wire(Peer(e))' : Follows(o, n) /\ InOrder(o, n)
<1>1. TypeIO /\ LinkOrdered /\ StreamGrammar
  BY FlowTypesOK DEF TrafficInv, FlowInv, PairInv
<1>2. LinkStep(e, O)
  BY DEF Step
<1>. QED
  BY <1>1, <1>2, WireStep

\* What is in flight after a step is a PDU.
LEMMA WireType ==
  ASSUME FlowInv', NEW x \in Ends, NEW m \in Wire(x)'
  PROVE  /\ m \in PduSet
         /\ m.type \in FromChannel => m.from \in Ids
         /\ m.type \in ToChannel => m.to \in Ids
<1>1. link'[x] \in Seq(PduSet)
  BY DEF FlowInv, TableInv, TypeOK, TypeIO
<1>2. Members(link'[x]) \subseteq PduSet
  BY <1>1, MembersType
<1>3. Wire(x)' = Members(link'[x])
  BY DEF Wire, Members
<1>. QED
  BY <1>2, <1>3 DEF PduSet

\* What a step does to a slot that has been allocated.
LEMMA OldSlot ==
  ASSUME TrafficInv, NEW e \in Ends, NEW O, Step(e, O), NEW id \in Ids, id < nextId[e]
  PROVE  Kept(e, O, id) \/ Accepted(e, id) \/ Confirmed(e, O, id) \/ Freed(e, O, id)
<1>1. SlotChange(e, O, id)
  BY DEF Step, SlotStep
<1>2. nextId[e] \in Nat
  BY SlotFacts
<1>3. id # nextId[e]
  BY <1>2
<1>. QED
  BY <1>1, <1>3 DEF SlotChange, Begun

\* Where the slots go.
LEMMA SlotGoes ==
  ASSUME TrafficInv, NEW e \in Ends, NEW O, Step(e, O), NEW id \in Ids, id < nextId[e]
  PROVE  /\ ch[e][id].st = "UNUSED" => ch'[e][id].st = "UNUSED"
         /\ ch[e][id].st = "OPEN" =>
              \/ /\ ch'[e][id].st = "OPEN" /\ ch'[e][id].peer = ch[e][id].peer
                 /\ ch[e][id].leof => ch'[e][id].leof
              \/ ch'[e][id].st = "UNUSED" /\ Freed(e, O, id)
         /\ ch'[e][id].st = "PENDING" =>
              ch[e][id].st = "PENDING" /\ ch'[e][id].peer = ch[e][id].peer
         /\ ch'[e][id].st = "OPENING" => ch[e][id].st = "OPENING"
BY OldSlot DEF Kept, Accepted, Confirmed, Freed

\* Pairs stay.
LEMMA PairsKept ==
  ASSUME TrafficInv, NEW e \in Ends, NEW O, Step(e, O),
         NEW x \in Ends, NEW a \in Ids, NEW b \in Ids, Paired(x, a, b)
  PROVE  Paired(x, a, b)'
<1>1. acc'[Peer(e)] = acc[Peer(e)] /\ PairStep(e, O)
  BY DEF Step, PeerIdle
<1>2. \A y \in Ends : \A c, d \in Ids : acc[y][c] = d => acc'[y][c] = d
  <2>. SUFFICES ASSUME NEW y \in Ends, NEW c \in Ids, NEW d \in Ids, acc[y][c] = d
                PROVE  acc'[y][c] = d
    OBVIOUS
  <2>1. y = e \/ y = Peer(e)
    BY SlotFacts
  <2>2. d # NoId
    BY SlotFacts
  <2>3. CASE y = e
    BY <1>1, <2>2, <2>3 DEF PairStep
  <2>4. CASE y = Peer(e)
    BY <1>1, <2>4
  <2>. QED
    BY <2>1, <2>3, <2>4
<1>3. Peer(x) \in Ends
  BY SlotFacts
<1>. QED
  BY <1>2, <1>3 DEF Paired

\* A new pair is a request that has come in and the slot it got.
LEMMA PairsNew ==
  ASSUME TrafficInv, NEW e \in Ends, NEW O, Step(e, O), NEW a \in Ids, NEW b \in Ids,
         Paired(e, a, b)', ~Paired(e, a, b)
  PROVE  /\ acc'[e][b] = a /\ a = nextId[e] /\ ch'[e][a].st = "PENDING"
         /\ acc[e][b] = NoId /\ \E o \in O : o.type = "OPEN" /\ o.from = b
<1>1. acc'[Peer(e)] = acc[Peer(e)] /\ PairStep(e, O)
  BY DEF Step, PeerIdle
<1>2. acc'[e][b] = a /\ acc[e][b] # a
  BY <1>1 DEF Paired
<1>. QED
  BY <1>1, <1>2 DEF PairStep

\* Who waits for a host's decision, and that nothing has been said to it.
LEMMA PendingPartner ==
  ASSUME TrafficInv, NEW x \in Ends, NEW id \in Ids, ch[x][id].st = "PENDING"
  PROVE  LET a == ch[x][id].peer
             y == Peer(x)
         IN  /\ a \in Ids /\ acc[x][a] = id /\ Paired(x, id, a)
             /\ ch[y][a].st = "OPENING" \/ a \in closed[y]
             /\ ch[y][a].st \in {"OPENING", "UNUSED"}
             /\ \A n \in Wire(y) : n.from = a => n.type \notin Talk \cup {"CONFIRM"}
<1>1. PICK a : a = ch[x][id].peer
  OBVIOUS
<1>2. PICK y : y = Peer(x)
  OBVIOUS
<1>3. a \in Ids /\ acc[x][a] = id /\ Paired(x, id, a)
  BY <1>1, SlotFacts
<1>4. y \in Ends /\ Peer(y) = x /\ Paired(y, a, id) /\ NoId \notin Ids
  BY <1>2, <1>3, OnePartner, SlotFacts
<1>5. ch[y][a].st # "OPEN"
  <2>. SUFFICES ASSUME ch[y][a].st = "OPEN" PROVE FALSE
    OBVIOUS
  <2>1. /\ ch[y][a].peer \in Ids /\ Paired(y, a, ch[y][a].peer)
        /\ ch[x][ch[y][a].peer].st # "PENDING"
    BY <1>3, <1>4, SlotFacts
  <2>2. ch[y][a].peer = id
    BY <1>3, <1>4, <2>1, OnePartner
  <2>. QED
    BY <2>1, <2>2
<1>6. \A z \in Ids : acc[y][z] # a
  <2>. SUFFICES ASSUME NEW z \in Ids, acc[y][z] = a PROVE FALSE
    OBVIOUS
  <2>1. AccSound
    BY DEF TrafficInv, FlowInv, PairInv
  <2>2. acc[x][a] = NoId
    BY <1>3, <1>4, <2>1 DEF AccSound
  <2>. QED
    BY <1>3, <1>4, <2>2
<1>7. ch[y][a].st # "PENDING"
  BY <1>3, <1>4, <1>6, SlotFacts
<1>8. ch[y][a].st \in {"OPENING", "UNUSED"}
  BY <1>3, <1>4, <1>5, <1>7, SlotFacts
<1>9. ch[y][a].st = "UNUSED" => a \in closed[y]
  <2>1. GoneQuiet
    BY DEF TrafficInv, ChannelInv
  <2>. QED
    BY <1>2, <1>3, <2>1 DEF GoneQuiet
<1>10. ASSUME NEW n \in Wire(y), n.from = a, n.type \in Talk \cup {"CONFIRM"} PROVE FALSE
  <2>1. /\ PduDue(y, n) /\ n.to \in Ids /\ Paired(y, a, n.to)
        /\ n.type = "CONFIRM" => acc[y][n.to] = a
    BY <1>4, <1>10, FlightFacts, FlightPaired DEF Talk, ToChannel
  <2>2. n.to = id
    BY <1>3, <1>4, <2>1, OnePartner
  <2>3. n.type # "CONFIRM"
    BY <1>6, <2>1
  <2>4. ch[x][n.to].st # "PENDING"
    BY <1>4, <1>10, <2>1, <2>3 DEF PduDue
  <2>. QED
    BY <2>2, <2>4
<1>. QED
  BY <1>1, <1>2, <1>3, <1>8, <1>9, <1>10

\* A new PDU comes from a slot that has something to say.
LEMMA SendableFacts ==
  ASSUME TrafficInv, FlowInv', NEW e \in Ends, NEW O, Step(e, O), NEW m \in Wire(e)',
         Sendable(e, O, m)
  PROVE  /\ m \in PduSet
         /\ m.type \in FromChannel => m.from \in Ids
         /\ m.type \in ToChannel => m.to \in Ids
         /\ m.type \in Talk => /\ ch[e][m.from].st = "OPEN" /\ m.to = ch[e][m.from].peer
                               /\ Paired(e, m.from, m.to) /\ m.from < nextId[e]
         /\ m.type = "CONFIRM" => /\ ch[e][m.from].st = "PENDING" /\ m.to = ch[e][m.from].peer
                                  /\ ch'[e][m.from].st = "OPEN" /\ acc[e][m.to] = m.from
                                  /\ Paired(e, m.from, m.to) /\ m.from < nextId[e]
         /\ m.type = "OPEN" => m.from = nextId[e] /\ ch'[e][m.from].st = "OPENING"
<1>1. /\ m \in PduSet
      /\ m.type \in FromChannel => m.from \in Ids
      /\ m.type \in ToChannel => m.to \in Ids
  BY WireType
<1>2. m.type \in Talk => /\ ch[e][m.from].st = "OPEN" /\ m.to = ch[e][m.from].peer
                         /\ Paired(e, m.from, m.to) /\ m.from < nextId[e]
  BY <1>1, SlotFacts DEF Sendable, Talk, FromChannel
<1>3. m.type = "CONFIRM" => /\ ch[e][m.from].st = "PENDING" /\ m.to = ch[e][m.from].peer
                            /\ ch'[e][m.from].st = "OPEN" /\ acc[e][m.to] = m.from
                            /\ Paired(e, m.from, m.to) /\ m.from < nextId[e]
  BY <1>1, SlotFacts DEF Sendable, FromChannel
<1>. QED
  BY <1>1, <1>2, <1>3 DEF Sendable

----------------------------------------------------------------------------
(* Channels *)

LEMMA LinkSentStep ==
  ASSUME TrafficInv, FlowInv', NEW e \in Ends, NEW O, Step(e, O)
  PROVE  LinkSent'
<1>. SUFFICES ASSUME NEW x \in Ends, NEW m \in Wire(x)' PROVE PduSent(x, m)'
  BY DEF LinkSent
<1>1. /\ m \in PduSet
      /\ m.type \in FromChannel => m.from \in Ids
      /\ m.type \in ToChannel => m.to \in Ids
  BY WireType
<1>2. CASE x = Peer(e)
  <2>1. m \in Wire(x) /\ x \in Ends
    BY <1>2, StepWire
  <2>2. PduSent(x, m)
    BY <2>1, FlightFacts
  <2>3. ch'[x] = ch[x] /\ closed'[x] = closed[x] /\ state'[x] = state[x]
    BY <1>2 DEF Step, PeerIdle
  <2>4. m.type \in {"EOF", "CLOSE"} => Paired(x, m.from, m.to)'
    BY <1>1, <2>1, <2>2, PairsKept DEF PduSent, FromChannel, ToChannel
  <2>. QED
    BY <2>2, <2>3, <2>4 DEF PduSent
<1>3. CASE x = e /\ m \in Wire(e)
  <2>1. /\ PduSent(e, m) /\ PduPaired(e, m)
        /\ m.type \in FromChannel => m.from < nextId[e]
    BY <1>3, FlightFacts, FlightPaired
  <2>2. closed[e] \subseteq closed'[e] /\ StateStep(e, O) /\ Peer(e) \in Ends /\ Peer(Peer(e)) = e
    BY SlotFacts DEF Step, SlotStep
  <2>3. m.type \in {"EOF", "CLOSE"} => Paired(e, m.from, m.to)'
    BY <1>1, <2>1, PairsKept DEF PduSent, FromChannel, ToChannel
  <2>4. m.type = "DISCONNECT" => state'[e] \in {"DRAINING", "CLOSED", "ERROR"}
    BY <2>1, <2>2 DEF PduSent, StateStep, Late
  <2>5. ASSUME m.type \in FromChannel
        PROVE  \/ Kept(e, O, m.from) \/ Accepted(e, m.from)
               \/ Confirmed(e, O, m.from) \/ Freed(e, O, m.from)
    BY <1>1, <2>1, <2>5, OldSlot
  <2>6. ASSUME m.type \in Talk \cup {"CONFIRM"}
        PROVE  /\ ch'[e][m.from].st \in {"OPEN", "UNUSED"}
               /\ m.type = "EOF" /\ ch'[e][m.from].st = "OPEN" => ch'[e][m.from].leof
               /\ m.type = "CLOSE" => ch'[e][m.from].st = "UNUSED"
    <3>1. /\ ch[e][m.from].st \in {"OPEN", "UNUSED"}
          /\ m.type = "EOF" /\ ch[e][m.from].st = "OPEN" => ch[e][m.from].leof
          /\ m.type = "CLOSE" => ch[e][m.from].st = "UNUSED"
      BY <2>1, <2>6 DEF PduSent
    <3>. QED
      BY <1>1, <2>1, <2>6, <3>1, SlotGoes DEF Talk, FromChannel
  <2>7. ASSUME m.type = "OPEN"
        PROVE  ch'[e][m.from].st = "OPENING" \/ m.from \in closed'[e]
    <3>1. /\ ch[e][m.from].st = "OPENING" \/ m.from \in closed[e]
          /\ acc[Peer(e)][m.from] = NoId /\ \A y \in Ids : acc[e][y] # m.from
          /\ m.from \in Ids /\ NoId \notin Ids
      BY <1>1, <2>1, <2>7, SlotFacts DEF PduSent, PduPaired, FromChannel
    <3>2. \A o \in O : o.type = "CONFIRM" => o.to # m.from
      <4>. SUFFICES ASSUME NEW o \in O, o.type = "CONFIRM", o.to = m.from PROVE FALSE
        OBVIOUS
      <4>1. acc[Peer(e)][o.to] = o.from /\ o.from \in Ids
        BY <2>2, StepWire, FlightFacts, FlightPaired DEF FromChannel
      <4>. QED
        BY <3>1, <4>1
    <3>3. \A o \in O : o.type = "OPEN_FAIL" => o.to # m.from
      <4>. SUFFICES ASSUME NEW o \in O, o.type = "OPEN_FAIL", o.to = m.from PROVE FALSE
        OBVIOUS
      <4>1. PduDue(Peer(e), o)
        BY <2>2, StepWire, FlightFacts
      <4>2. \A n \in Wire(e) : n.type = "OPEN" => n.from # o.to
        BY <2>2, <4>1 DEF PduDue, OpenFailDue
      <4>. QED
        BY <1>3, <2>7, <4>2
    <3>4. \A o \in O : o.type = "CLOSE" => o.to # m.from
      <4>. SUFFICES ASSUME NEW o \in O, o.type = "CLOSE", o.to = m.from PROVE FALSE
        OBVIOUS
      <4>1. Paired(Peer(e), o.from, o.to) /\ o.from \in Ids
        BY <2>2, StepWire, FlightFacts, FlightPaired DEF FromChannel, Talk
      <4>. QED
        BY <2>2, <3>1, <4>1 DEF Paired
    <3>5. CASE ch[e][m.from].st = "OPENING"
      BY <2>5, <2>7, <3>2, <3>3, <3>4, <3>5 DEF Kept, Accepted, Confirmed, Freed, FromChannel
    <3>. QED
      BY <2>2, <3>1, <3>5
  <2>. QED
    BY <1>3, <2>1, <2>3, <2>4, <2>6, <2>7 DEF PduSent, Talk
<1>4. CASE x = e /\ Sendable(e, O, m)
  <2>1. /\ m.type \in Talk => /\ ch[e][m.from].st = "OPEN" /\ Paired(e, m.from, m.to)
                              /\ m.from < nextId[e]
        /\ m.type = "CONFIRM" => ch'[e][m.from].st = "OPEN"
        /\ m.type = "OPEN" => ch'[e][m.from].st = "OPENING"
    BY <1>4, SendableFacts
  <2>2. m.type \in {"EOF", "CLOSE"} => Paired(e, m.from, m.to)'
    BY <1>1, <2>1, PairsKept DEF FromChannel, ToChannel, Talk
  <2>3. m.type \in Talk => ch'[e][m.from].st \in {"OPEN", "UNUSED"}
    BY <1>1, <2>1, SlotGoes DEF FromChannel, Talk
  <2>4. /\ m.type = "EOF" => ch'[e][m.from].leof
        /\ m.type = "CLOSE" => ch'[e][m.from].st = "UNUSED"
        /\ m.type = "DISCONNECT" => state'[e] = "DRAINING"
        /\ m.type \notin FromChannel => m.from = NoId
    BY <1>4 DEF Sendable
  <2>. QED
    BY <1>4, <2>1, <2>2, <2>3, <2>4 DEF PduSent
<1>5. x = e \/ x = Peer(e)
  BY SlotFacts
<1>. QED
  BY <1>2, <1>3, <1>4, <1>5, StepWire

\* CONFIRM on its way to e still is due.
LEMMA ConfirmToStep ==
  ASSUME TrafficInv, FlowInv', NEW e \in Ends, NEW O, Step(e, O), NEW q, q = Peer(e),
         NEW m \in Wire(q)', m.type = "CONFIRM"
  PROVE  ConfirmDue(q, m)'
<1>1. /\ q \in Ends /\ Peer(q) = e /\ NoId \notin Ids /\ m \in Wire(q)
      /\ O \subseteq Wire(q) /\ \A o \in O : Follows(o, m)
  BY SlotFacts, StepWire
<1>2. /\ m.from \in Ids /\ m.to \in Ids /\ PduDue(q, m)
      /\ acc[q][m.to] = m.from /\ Paired(q, m.from, m.to) /\ Paired(e, m.to, m.from)
      /\ m.to < nextId[e]
  BY <1>1, FlightFacts, FlightPaired, OnePartner DEF FromChannel, ToChannel
<1>3. /\ ch[e][m.to].st = "OPENING" \/ m.to \in closed[e]
      /\ ch[q][m.from].st = "OPEN" \/ Shut(q, m)
      /\ \A n \in Wire(e) : n.from = m.to => n.type \notin Talk
  BY <1>1, <1>2 DEF PduDue, ConfirmDue
<1>4. /\ ch'[q] = ch[q] /\ closed'[q] = closed[q] /\ pduLost'[q] = pduLost[q]
      /\ closed[e] \subseteq closed'[e]
  BY DEF Step, PeerIdle, SlotStep
\* Nothing of this channel came before it.
<1>5. \A o \in O : o.type \in {"CONFIRM", "CLOSE"} => o.from # m.from
  BY <1>1, <1>2 DEF Follows
<1>6. \A o \in O : o.type \in {"CONFIRM", "CLOSE"} => o.to # m.to
  <2>. SUFFICES ASSUME NEW o \in O, o.type \in {"CONFIRM", "CLOSE"}, o.to = m.to PROVE FALSE
    OBVIOUS
  <2>1. o.from \in Ids /\ Paired(q, o.from, m.to)
    BY <1>1, FlightFacts, FlightPaired DEF FromChannel, Talk
  <2>2. o.from = m.from
    BY <1>1, <1>2, <2>1, OnePartner
  <2>. QED
    BY <1>5, <2>2
<1>7. \A o \in O : o.type = "OPEN_FAIL" => o.to # m.to
  <2>. SUFFICES ASSUME NEW o \in O, o.type = "OPEN_FAIL", o.to = m.to PROVE FALSE
    OBVIOUS
  <2>1. PduDue(q, o)
    BY <1>1, FlightFacts
  <2>2. Mute(q, m.from)
    BY <1>1, <1>2, <2>1 DEF PduDue, OpenFailDue
  <2>. QED
    BY <1>1, <2>2 DEF Mute
<1>8. ch'[e][m.to].st = "OPENING" \/ m.to \in closed'[e]
  <2>1. CASE ch[e][m.to].st = "OPENING"
    <3>1. Kept(e, O, m.to) \/ Accepted(e, m.to) \/ Confirmed(e, O, m.to) \/ Freed(e, O, m.to)
      BY <1>2, OldSlot
    <3>. QED
      BY <1>6, <1>7, <2>1, <3>1 DEF Kept, Accepted, Confirmed, Freed
  <2>. QED
    BY <1>3, <1>4, <2>1
<1>9. ch'[q][m.from].st = "OPEN" \/ Shut(q, m)'
  <2>1. ASSUME Has(q, "CLOSE", m.from) PROVE Has(q, "CLOSE", m.from)'
    <3>1. PICK n \in Wire(q) : n.type = "CLOSE" /\ n.from = m.from
      BY <2>1 DEF Has, Wire
    <3>2. n \in Wire(q)'
      BY <1>5, <3>1, StepWire
    <3>. QED
      BY <3>1, <3>2 DEF Has, Wire
  <2>. QED
    BY <1>3, <1>4, <2>1 DEF Shut
<1>10. ASSUME NEW n \in Wire(e)', n.from = m.to PROVE n.type \notin Talk
  <2>1. CASE n \in Wire(e)
    BY <1>3, <1>10, <2>1
  <2>2. CASE Sendable(e, O, n)
    <3>1. ch[e][m.to].st # "OPEN"
      BY <1>3, SlotFacts
    <3>. QED
      BY <1>10, <2>2, <3>1 DEF Sendable
  <2>. QED
    BY <2>1, <2>2, StepWire
<1>. QED
  BY <1>1, <1>8, <1>9, <1>10 DEF ConfirmDue

\* CONFIRM from e is due.
LEMMA ConfirmFromStep ==
  ASSUME TrafficInv, FlowInv', NEW e \in Ends, NEW O, Step(e, O), NEW q, q = Peer(e),
         NEW m \in Wire(e)', m.type = "CONFIRM"
  PROVE  ConfirmDue(e, m)'
<1>1. /\ q \in Ends /\ Peer(q) = e /\ NoId \notin Ids
      /\ O \subseteq Wire(q) /\ Wire(q)' \subseteq Wire(q) /\ Wire(e) \subseteq Wire(e)'
  BY SlotFacts, StepWire
<1>2. m.from \in Ids /\ m.to \in Ids
  BY WireType DEF FromChannel, ToChannel
<1>3. /\ ch'[q] = ch[q] /\ closed'[q] = closed[q]
      /\ closed[e] \subseteq closed'[e] /\ pduLost[e] \subseteq pduLost'[e]
  BY DEF Step, PeerIdle, SlotStep
<1>4. CASE m \in Wire(e)
  <2>1. /\ PduDue(e, m) /\ acc[e][m.to] = m.from /\ Paired(e, m.from, m.to)
        /\ Paired(q, m.to, m.from) /\ m.from < nextId[e]
    BY <1>2, <1>4, FlightFacts, FlightPaired, OnePartner
  <2>2. /\ ch[q][m.to].st = "OPENING" \/ m.to \in closed[q]
        /\ ch[e][m.from].st = "OPEN" \/ Shut(e, m)
        /\ \A n \in Wire(q) : n.from = m.to => n.type \notin Talk
    BY <1>4, <2>1 DEF PduDue, ConfirmDue
  <2>3. Shut(e, m) => Shut(e, m)'
    <3>1. Has(e, "CLOSE", m.from) => Has(e, "CLOSE", m.from)'
      BY <1>1 DEF Has, Wire
    <3>. QED
      BY <1>3, <3>1 DEF Shut
  <2>4. \A o \in O : o.type = "CLOSE" => o.to # m.from
    <3>. SUFFICES ASSUME NEW o \in O, o.type = "CLOSE", o.to = m.from PROVE FALSE
      OBVIOUS
    <3>1. o.from \in Ids /\ Paired(q, o.from, m.from)
      BY <1>1, FlightFacts, FlightPaired DEF FromChannel, Talk
    <3>2. o.from = m.to
      BY <1>1, <1>2, <2>1, <3>1, OnePartner
    <3>. QED
      BY <1>1, <2>2, <3>2 DEF Talk
  <2>5. CASE ch[e][m.from].st = "OPEN"
    <3>1. ch'[e][m.from].st = "OPEN" \/ Freed(e, O, m.from)
      BY <1>2, <2>1, <2>5, SlotGoes
    <3>2. ASSUME Freed(e, O, m.from) PROVE Shut(e, m)'
      <4>1. ch[e][m.from].peer = m.to
        BY <1>2, <2>1, <2>5, SlotFacts, OnePartner
      <4>2. /\ m.from \in closed'[e]
            /\ \/ \E n \in Wire(e)' : n.type = "CLOSE" /\ n.from = m.from
               \/ <<"CLOSE", m.to>> \in pduLost'[e]
        BY <2>4, <2>5, <3>2, <4>1 DEF Freed
      <4>. QED
        BY <4>2 DEF Shut, Has, Wire
    <3>. QED
      BY <1>1, <1>3, <2>2, <3>1, <3>2 DEF ConfirmDue
  <2>. QED
    BY <1>1, <1>3, <2>2, <2>3, <2>5 DEF ConfirmDue
<1>5. CASE Sendable(e, O, m)
  <2>1. /\ ch[e][m.from].st = "PENDING" /\ m.to = ch[e][m.from].peer
        /\ ch'[e][m.from].st = "OPEN"
    BY <1>5, SendableFacts
  <2>2. /\ ch[q][m.to].st = "OPENING" \/ m.to \in closed[q]
        /\ \A n \in Wire(q) : n.from = m.to => n.type \notin Talk
    BY <1>2, <2>1, PendingPartner
  <2>. QED
    BY <1>1, <1>3, <2>1, <2>2 DEF ConfirmDue
<1>. QED
  BY <1>4, <1>5, StepWire

\* A slot that has been free stays free and says nothing.
LEMMA StaysMute ==
  ASSUME TrafficInv, FlowInv', NEW e \in Ends, NEW O, Step(e, O), NEW id \in Ids,
         id < nextId[e], ch[e][id].st = "UNUSED", Mute(e, id)
  PROVE  ch'[e][id].st = "UNUSED" /\ Mute(e, id)'
<1>1. ch'[e][id].st = "UNUSED"
  BY SlotGoes
<1>2. ASSUME NEW n \in Wire(e)', n.from = id, n.type \in Talk \cup {"CONFIRM"} PROVE FALSE
  <2>1. CASE n \in Wire(e)
    BY <1>2, <2>1 DEF Mute
  <2>2. CASE Sendable(e, O, n)
    BY <1>2, <2>2 DEF Sendable
  <2>. QED
    BY <2>1, <2>2, StepWire
<1>. QED
  BY <1>1, <1>2 DEF Mute

LEMMA OpenFailStep ==
  ASSUME TrafficInv, FlowInv', NEW e \in Ends, NEW O, Step(e, O),
         NEW x \in Ends, NEW m \in Wire(x)', m.type = "OPEN_FAIL"
  PROVE  OpenFailDue(x, m)'
<1>1. PICK q : q = Peer(e)
  OBVIOUS
<1>2. /\ q \in Ends /\ Peer(q) = e /\ NoId \notin Ids /\ Ids \subseteq Nat
      /\ nextId[e] \in Nat /\ nextId[q] \in Nat /\ m.to \in Ids
      /\ O \subseteq Wire(q) /\ Wire(q)' \subseteq Wire(q) /\ Wire(e) \subseteq Wire(e)'
  BY <1>1, SlotFacts, StepWire, WireType DEF ToChannel
<1>3. /\ ch'[q] = ch[q] /\ closed'[q] = closed[q] /\ acc'[q] = acc[q] /\ nextId'[q] = nextId[q]
      /\ PairStep(e, O) /\ nextId[e] <= nextId'[e] /\ nextId'[e] \in Nat
  BY <1>1 DEF Step, PeerIdle, SlotStep, FlowInv, TableInv, TypeOK, TypeTable
<1>4. CASE x = q
  <2>1. PduDue(q, m)
    BY <1>2, <1>4, FlightFacts
  <2>2. /\ m.to < nextId[e] /\ \A n \in Wire(e) : n.type = "OPEN" => n.from # m.to
        /\ acc[q][m.to] # NoId => ch[q][acc[q][m.to]].st = "UNUSED" /\ Mute(q, acc[q][m.to])
    BY <1>2, <2>1 DEF PduDue, OpenFailDue
  <2>3. m.to < nextId'[e] /\ m.to # nextId[e]
    <3>1. m.to \in Nat /\ nextId[e] \in Nat /\ nextId'[e] \in Nat
      BY <1>2, <1>3
    <3>. QED
      BY <1>3, <2>2, <3>1
  <2>4. \A n \in Wire(e)' : n.type = "OPEN" => n.from # m.to
    BY <2>2, <2>3, StepWire DEF Sendable
  <2>5. Mute(q, acc[q][m.to]) => Mute(q, acc[q][m.to])'
    BY <1>2, <1>3 DEF Mute
  <2>. QED
    BY <1>2, <1>3, <1>4, <2>2, <2>3, <2>4, <2>5 DEF OpenFailDue
<1>5. CASE x = e /\ m \in Wire(e)
  <2>1. PduDue(e, m)
    BY <1>5, FlightFacts
  <2>2. /\ m.to < nextId[q] /\ \A n \in Wire(q) : n.type = "OPEN" => n.from # m.to
        /\ acc[e][m.to] # NoId => ch[e][acc[e][m.to]].st = "UNUSED" /\ Mute(e, acc[e][m.to])
    BY <1>1, <2>1 DEF PduDue, OpenFailDue
  <2>3. acc'[e][m.to] = acc[e][m.to]
    BY <1>2, <1>3, <2>2 DEF PairStep
  <2>4. ASSUME acc[e][m.to] # NoId
        PROVE  /\ ch'[e][acc'[e][m.to]].st = "UNUSED"
               /\ \A n \in Wire(e)' : n.from = acc'[e][m.to] => n.type \notin Talk \cup {"CONFIRM"}
    <3>1. PICK b : b = acc[e][m.to]
      OBVIOUS
    <3>2. b \in Ids /\ Paired(e, b, m.to)
      <4>1. acc[e][m.to] \in Ids
        <5>1. m.to \in Ids
          BY <1>2
        <5>2. acc[e][m.to] \in Ids \cup {NoId}
          BY <5>1, SlotFacts
        <5>. QED
          BY <2>4, <5>2
      <4>. QED
        BY <3>1, <4>1 DEF Paired
    <3>4. b < nextId[e]
      BY <1>2, <3>2, OnePartner
    <3>3. ch'[e][b].st = "UNUSED" /\ Mute(e, b)'
      BY <2>2, <2>4, <3>1, <3>2, <3>4, StaysMute
    <3>. QED
      BY <2>3, <3>1, <3>3 DEF Mute
  <2>5. m.to < nextId'[q] /\ \A n \in Wire(q)' : n.type = "OPEN" => n.from # m.to
    BY <1>2, <1>3, <2>2
  <2>6. acc'[e][m.to] # NoId =>
          /\ ch'[e][acc'[e][m.to]].st = "UNUSED"
          /\ \A n \in Wire(e)' : n.from = acc'[e][m.to] => n.type \notin Talk \cup {"CONFIRM"}
    BY <2>3, <2>4
  <2>. QED
    BY <1>1, <1>5, <2>5, <2>6 DEF OpenFailDue, Mute
<1>6. CASE x = e /\ Sendable(e, O, m)
  <2>1. Refusal(e, O, m)
    BY <1>6 DEF Sendable
  <2>2. CASE \E id \in Ids : /\ ch[e][id].st = "PENDING" /\ ch[e][id].peer = m.to
                             /\ ch'[e][id].st = "UNUSED"
    <3>1. PICK id \in Ids : /\ ch[e][id].st = "PENDING" /\ ch[e][id].peer = m.to
                            /\ ch'[e][id].st = "UNUSED"
      BY <2>2
    <3>2. acc[e][m.to] = id /\ Paired(e, id, m.to) /\ m.to < nextId[q]
      <4>1. acc[e][m.to] = id /\ Paired(e, id, m.to)
        BY <3>1, SlotFacts
      <4>. QED
        BY <1>1, <1>2, <4>1, OnePartner
    <3>3. acc'[e][m.to] = id
      BY <1>2, <1>3, <3>2 DEF PairStep
    <3>4. ASSUME NEW n \in Wire(q), n.type = "OPEN" PROVE n.from # m.to
      BY <1>2, <3>2, <3>4, FlightFacts DEF PduPaired
    <3>5. ASSUME NEW n \in Wire(e)', n.from = id, n.type \in Talk \cup {"CONFIRM"} PROVE FALSE
      <4>1. CASE n \in Wire(e)
        BY <3>1, <3>5, <4>1, FlightFacts DEF PduSent
      <4>2. CASE Sendable(e, O, n)
        BY <3>1, <3>5, <4>2 DEF Sendable
      <4>. QED
        BY <4>1, <4>2, StepWire
    <3>6. Mute(e, id)'
      BY <3>5 DEF Mute
    <3>. QED
      BY <1>1, <1>2, <1>3, <1>6, <3>1, <3>2, <3>3, <3>4, <3>6 DEF OpenFailDue
  <2>3. CASE acc'[e] = acc[e] /\ \E o \in O : o.type = "OPEN" /\ o.from = m.to
    <3>1. PICK o \in O : o.type = "OPEN" /\ o.from = m.to
      BY <2>3
    <3>2. PduPaired(q, o)
      BY <1>2, FlightFacts
    <3>3. m.to < nextId[q] /\ acc[e][m.to] = NoId
      BY <1>2, <3>1, <3>2 DEF PduPaired
    <3>4. \A n \in Wire(q)' : InOrder(o, n)
      BY <1>1, StepWire
    <3>5. \A n \in Wire(q)' : n.type = "OPEN" => n.from # m.to
      BY <3>1, <3>4 DEF InOrder
    <3>. QED
      BY <1>1, <1>3, <1>6, <2>3, <3>3, <3>5 DEF OpenFailDue
  <2>. QED
    BY <2>1, <2>2, <2>3 DEF Refusal
<1>7. x = e \/ x = q
  BY <1>1, SlotFacts
<1>. QED
  BY <1>4, <1>5, <1>6, <1>7, StepWire

LEMMA LinkDueStep ==
  ASSUME TrafficInv, FlowInv', NEW e \in Ends, NEW O, Step(e, O)
  PROVE  LinkDue'
<1>. SUFFICES ASSUME NEW x \in Ends, NEW m \in Wire(x)' PROVE PduDue(x, m)'
  BY DEF LinkDue
<1>1. PICK q : q = Peer(e)
  OBVIOUS
<1>2. /\ q \in Ends /\ Peer(q) = e /\ (x = e \/ x = q)
      /\ m.type \in Talk => m.from \in Ids /\ m.to \in Ids
  BY <1>1, SlotFacts, WireType DEF Talk, FromChannel, ToChannel
<1>3. m.type = "CONFIRM" => ConfirmDue(x, m)'
  BY <1>1, <1>2, ConfirmToStep, ConfirmFromStep
<1>4. m.type = "OPEN_FAIL" => OpenFailDue(x, m)'
  BY OpenFailStep
<1>5. ASSUME m.type \in Talk PROVE ch'[Peer(x)][m.to].st # "PENDING"
  <2>1. CASE x = q
    <3>1. m \in Wire(q)
      BY <1>1, <2>1, StepWire
    <3>2. ch[e][m.to].st # "PENDING" /\ Paired(q, m.from, m.to)
      BY <1>2, <1>5, <3>1, FlightFacts, FlightPaired DEF PduDue
    <3>3. m.to < nextId[e]
      BY <1>2, <1>5, <3>2, OnePartner
    <3>. QED
      BY <1>2, <1>5, <2>1, <3>2, <3>3, SlotGoes
  <2>2. CASE x = e
    <3>1. ch'[q] = ch[q]
      BY <1>1 DEF Step, PeerIdle
    <3>2. CASE m \in Wire(e)
      BY <1>1, <1>5, <2>2, <3>1, <3>2, FlightFacts DEF PduDue
    <3>3. CASE Sendable(e, O, m)
      BY <1>1, <1>2, <1>5, <2>2, <3>1, <3>3, SendableFacts, SlotFacts
    <3>. QED
      BY <2>2, <3>2, <3>3, StepWire
  <2>. QED
    BY <1>2, <2>1, <2>2
<1>. QED
  BY <1>3, <1>4, <1>5 DEF PduDue

LEMMA ClosedGoneStep ==
  ASSUME TrafficInv, FlowInv', NEW e \in Ends, NEW O, Step(e, O)
  PROVE  ClosedGone'
<1>. SUFFICES ASSUME NEW x \in Ends, NEW id \in closed'[x]
              PROVE  ch'[x][id].st = "UNUSED" /\ id < nextId'[x]
  BY DEF ClosedGone
<1>1. CASE x = Peer(e)
  <2>1. /\ ch'[x] = ch[x] /\ closed'[x] = closed[x] /\ nextId'[x] = nextId[x]
    BY <1>1 DEF Step, PeerIdle
  <2>. QED
    BY <2>1, SlotFacts
<1>2. CASE x = e
  <2>1. /\ nextId[e] <= nextId'[e]
        /\ id \in closed[e] \/ (ch[e][id].st # "UNUSED" /\ ch'[e][id].st = "UNUSED")
    BY <1>2 DEF Step, SlotStep
  <2>2. id \in Ids /\ nextId'[e] \in Nat
    BY <1>2 DEF FlowInv, TableInv, TypeOK, TypePast, TypeTable
  <2>3. id < nextId[e] /\ ch'[e][id].st = "UNUSED"
    BY <2>1, <2>2, SlotFacts, SlotGoes
  <2>4. id \in Nat /\ nextId[e] \in Nat
    BY <2>2, SlotFacts
  <2>5. id < nextId'[e]
    BY <2>1, <2>2, <2>3, <2>4
  <2>. QED
    BY <1>2, <2>3, <2>5
<1>. QED
  BY <1>1, <1>2, SlotFacts

\* A partner of e's channel that went away stays quiet, as seen from e.
LEMMA GoneQuietOwn ==
  ASSUME TrafficInv, FlowInv', NEW e \in Ends, NEW O, Step(e, O), NEW q, q = Peer(e),
         NEW a \in Ids, NEW b \in Ids, Paired(e, a, b)', ch[q][b].st = "UNUSED",
         b \notin closed[q]
  PROVE  ch'[e][a].st \in {"OPENING", "UNUSED"} /\ Mute(e, a)'
<1>1. q \in Ends /\ Peer(q) = e /\ O \subseteq Wire(q)
  BY SlotFacts, StepWire
<1>2. Paired(e, a, b)
  <2>. SUFFICES ASSUME ~Paired(e, a, b) PROVE FALSE
    OBVIOUS
  <2>1. PICK o \in O : o.type = "OPEN" /\ o.from = b
    BY PairsNew
  <2>2. PduSent(q, o)
    BY <1>1, FlightFacts
  <2>. QED
    BY <2>1, <2>2 DEF PduSent
<1>3. /\ ch[e][a].st \in {"OPENING", "UNUSED"} /\ Mute(e, a) /\ a < nextId[e]
  BY <1>2, OnePartner DEF TrafficInv, ChannelInv, GoneQuiet
<1>4. \A o \in O : o.type = "CONFIRM" => o.to # a
  <2>. SUFFICES ASSUME NEW o \in O, o.type = "CONFIRM", o.to = a PROVE FALSE
    OBVIOUS
  <2>1. PduDue(q, o) /\ o.from \in Ids /\ Paired(q, o.from, a)
    BY <1>1, FlightFacts, FlightPaired DEF FromChannel
  <2>2. Paired(e, a, o.from)
    BY <1>1, <2>1, OnePartner
  <2>3. o.from = b
    BY <1>2, <2>1, <2>2, OnePartner
  <2>4. ch[q][b].st = "OPEN" \/ b \in closed[q]
    BY <2>1, <2>3 DEF PduDue, ConfirmDue, Shut
  <2>. QED
    BY <2>4
<1>5. ch'[e][a].st \in {"OPENING", "UNUSED"}
  <2>1. Kept(e, O, a) \/ Accepted(e, a) \/ Confirmed(e, O, a) \/ Freed(e, O, a)
    BY <1>3, OldSlot
  <2>. QED
    BY <1>3, <1>4, <2>1 DEF Kept, Accepted, Confirmed, Freed
<1>6. ASSUME NEW n \in Wire(e)', n.from = a, n.type \in Talk \cup {"CONFIRM"} PROVE FALSE
  <2>1. CASE n \in Wire(e)
    BY <1>3, <1>6, <2>1 DEF Mute
  <2>2. CASE Sendable(e, O, n)
    BY <1>3, <1>6, <2>2 DEF Sendable
  <2>. QED
    BY <2>1, <2>2, StepWire
<1>. QED
  BY <1>5, <1>6 DEF Mute

\* The same as seen from the peer: e's channel goes away.
LEMMA GoneQuietPeer ==
  ASSUME TrafficInv, FlowInv', NEW e \in Ends, NEW O, Step(e, O), NEW q, q = Peer(e),
         NEW a \in Ids, NEW b \in Ids, Paired(q, a, b)', ch'[e][b].st = "UNUSED",
         b \notin closed'[e]
  PROVE  ch[q][a].st \in {"OPENING", "UNUSED"} /\ Mute(q, a)'
<1>1. /\ q \in Ends /\ Peer(q) = e /\ NoId \notin Ids
      /\ O \subseteq Wire(q) /\ Wire(q)' \subseteq Wire(q)
      /\ \A o \in O : \A n \in Wire(q)' : Follows(o, n)
      /\ closed[e] \subseteq closed'[e]
  BY SlotFacts, StepWire DEF Step, SlotStep
<1>2. Paired(q, a, b) /\ Paired(e, b, a)
  <2>1. Paired(e, b, a)'
    BY <1>1 DEF Paired
  <2>2. Paired(e, b, a)
    BY <2>1, PairsNew
  <2>. QED
    BY <1>1, <2>2, OnePartner
<1>3. b < nextId[e]
  BY <1>2, OnePartner
<1>4. CASE ch[e][b].st = "UNUSED"
  <2>1. ch[q][a].st \in {"OPENING", "UNUSED"} /\ Mute(q, a)
    BY <1>1, <1>2, <1>4 DEF TrafficInv, ChannelInv, GoneQuiet
  <2>. QED
    BY <1>1, <2>1 DEF Mute
<1>5. CASE ch[e][b].st # "UNUSED"
  <2>1. Freed(e, O, b)
    BY <1>3, <1>5, OldSlot DEF Kept, Accepted, Confirmed
  <2>2. CASE ch[e][b].st = "PENDING"
    <3>1. ch[e][b].peer = a
      BY <1>2, <2>2, SlotFacts, OnePartner
    <3>2. /\ ch[q][a].st \in {"OPENING", "UNUSED"}
          /\ \A n \in Wire(q) : n.from = a => n.type \notin Talk \cup {"CONFIRM"}
      BY <2>2, <3>1, PendingPartner
    <3>. QED
      BY <1>1, <3>2 DEF Mute
  <2>3. CASE ch[e][b].st = "OPENING" /\ \E o \in O : o.type = "OPEN_FAIL" /\ o.to = b
    <3>1. PICK o \in O : o.type = "OPEN_FAIL" /\ o.to = b
      BY <2>3
    <3>2. acc[e][a] # b
      BY <2>3, SlotFacts
    <3>3. acc[q][b] = a
      BY <1>1, <1>2, <3>2 DEF Paired
    <3>4. PduDue(q, o)
      BY <1>1, FlightFacts
    <3>5. ch[q][a].st = "UNUSED" /\ Mute(q, a)
      BY <1>1, <3>1, <3>3, <3>4 DEF PduDue, OpenFailDue
    <3>. QED
      BY <1>1, <3>5 DEF Mute
  <2>4. CASE \E o \in O : o.type = "CLOSE" /\ o.to = b
    <3>1. PICK o \in O : o.type = "CLOSE" /\ o.to = b
      BY <2>4
    <3>2. o.from \in Ids /\ Paired(q, o.from, b) /\ PduSent(q, o)
      BY <1>1, <3>1, FlightFacts, FlightPaired DEF FromChannel, Talk
    <3>3. o.from = a
      BY <1>1, <1>2, <3>2, OnePartner
    <3>4. ch[q][a].st = "UNUSED"
      BY <3>1, <3>2, <3>3 DEF PduSent
    <3>5. \A n \in Wire(q)' : n.from # a
      BY <1>1, <3>1, <3>3 DEF Follows
    <3>. QED
      BY <3>4, <3>5 DEF Mute
  <2>. QED
    BY <2>1, <2>2, <2>3, <2>4 DEF Freed
<1>. QED
  BY <1>4, <1>5

LEMMA GoneQuietStep ==
  ASSUME TrafficInv, FlowInv', NEW e \in Ends, NEW O, Step(e, O)
  PROVE  GoneQuiet'
<1>. SUFFICES ASSUME NEW x \in Ends, NEW a \in Ids, NEW b \in Ids, Paired(x, a, b)',
                     ch'[Peer(x)][b].st = "UNUSED", b \notin closed'[Peer(x)]
              PROVE  ch'[x][a].st \in {"OPENING", "UNUSED"} /\ Mute(x, a)'
  BY DEF GoneQuiet
<1>1. PICK q : q = Peer(e)
  OBVIOUS
<1>2. q \in Ends /\ Peer(q) = e /\ (x = e \/ x = q)
  BY <1>1, SlotFacts
<1>3. ch'[q] = ch[q] /\ closed'[q] = closed[q]
  BY <1>1 DEF Step, PeerIdle
<1>4. CASE x = e
  BY <1>1, <1>3, <1>4, GoneQuietOwn
<1>5. CASE x = q
  BY <1>1, <1>2, <1>3, <1>5, GoneQuietPeer
<1>. QED
  BY <1>2, <1>4, <1>5

LEMMA EofKeptStep ==
  ASSUME TrafficInv, FlowInv', NEW e \in Ends, NEW O, Step(e, O)
  PROVE  EofKept'
<1>. SUFFICES ASSUME NEW x \in Ends, NEW id \in Ids, ch'[x][id].reof
              PROVE  \E a \in Ids : /\ Paired(Peer(x), a, id)'
                                    /\ ch'[Peer(x)][a].leof \/ ch'[Peer(x)][a].st = "UNUSED"
  BY DEF EofKept
<1>1. PICK q : q = Peer(e)
  OBVIOUS
<1>2. q \in Ends /\ Peer(q) = e /\ (x = e \/ x = q) /\ O \subseteq Wire(q)
  BY <1>1, SlotFacts, StepWire
<1>3. ch'[q] = ch[q]
  BY <1>1 DEF Step, PeerIdle
<1>4. CASE x = q
  <2>1. PICK a \in Ids : /\ Paired(e, a, id)
                         /\ ch[e][a].leof \/ ch[e][a].st = "UNUSED"
    BY <1>2, <1>3, <1>4 DEF TrafficInv, ChannelInv, EofKept
  <2>2. a < nextId[e] /\ Paired(e, a, id)'
    BY <2>1, OnePartner, PairsKept
  <2>3. ch'[e][a].leof \/ ch'[e][a].st = "UNUSED"
    BY <2>1, <2>2, OldSlot DEF Kept, Accepted, Confirmed, Freed
  <2>. QED
    BY <1>2, <1>4, <2>2, <2>3
<1>5. CASE x = e
  <2>1. SlotChange(e, O, id)
    BY DEF Step, SlotStep
  <2>2. ch[e][id].reof \/ \E o \in O : o.type = "EOF" /\ o.to = id
    BY <1>5, <2>1 DEF SlotChange, Kept, Begun, Accepted, Confirmed, Freed
  <2>3. CASE ch[e][id].reof
    <3>1. PICK a \in Ids : /\ Paired(q, a, id)
                           /\ ch[q][a].leof \/ ch[q][a].st = "UNUSED"
      BY <1>1, <2>3 DEF TrafficInv, ChannelInv, EofKept
    <3>2. Paired(q, a, id)'
      BY <1>2, <3>1, PairsKept
    <3>. QED
      BY <1>1, <1>3, <1>5, <3>1, <3>2
  <2>4. CASE \E o \in O : o.type = "EOF" /\ o.to = id
    <3>1. PICK o \in O : o.type = "EOF" /\ o.to = id
      BY <2>4
    <3>2. o.from \in Ids /\ Paired(q, o.from, id) /\ PduSent(q, o)
      BY <1>2, <3>1, FlightFacts, FlightPaired DEF FromChannel, Talk
    <3>3. ch[q][o.from].leof \/ ch[q][o.from].st = "UNUSED"
      BY <3>1, <3>2 DEF PduSent, Talk
    <3>4. Paired(q, o.from, id)'
      BY <1>2, <3>2, PairsKept
    <3>. QED
      BY <1>1, <1>3, <1>5, <3>2, <3>3, <3>4
  <2>. QED
    BY <2>2, <2>3, <2>4
<1>. QED
  BY <1>2, <1>4, <1>5

LEMMA HasIs ==
  ASSUME NEW x, NEW t, NEW id
  PROVE  /\ Has(x, t, id) <=> \E m \in Wire(x) : m.type = t /\ m.from = id
         /\ Has(x, t, id)' <=> \E m \in Wire(x)' : m.type = t /\ m.from = id
         /\ HasTo(x, t, id) <=> \E m \in Wire(x) : m.type = t /\ m.to = id
         /\ HasTo(x, t, id)' <=> \E m \in Wire(x)' : m.type = t /\ m.to = id
BY DEF Has, HasTo, Wire

\* e's own request still waits.
LEMMA OpeningOwn ==
  ASSUME TrafficInv, FlowInv', NEW e \in Ends, NEW O, Step(e, O), NEW q, q = Peer(e),
         NEW a \in Ids, ch'[e][a].st = "OPENING"
  PROVE  \/ Has(e, "OPEN", a)'
         \/ HasTo(q, "CONFIRM", a)'
         \/ HasTo(q, "OPEN_FAIL", a)'
         \/ acc[q][a] \in Ids /\ ch[q][acc[q][a]].st = "PENDING"
         \/ acc[q][a] \in closed[q]
         \/ <<"OPEN_FAIL", a>> \in pduLost[q]
<1>1. /\ q \in Ends /\ Wire(e) \subseteq Wire(e)'
      /\ \A m \in Wire(q) : m \in Wire(q)' \/ m \in O
  BY SlotFacts, StepWire
<1>2. SlotChange(e, O, a) /\ TakenStep(e, O)
  BY DEF Step, SlotStep
<1>3. CASE Begun(e, a)
  BY <1>3, HasIs DEF Begun
<1>4. CASE Kept(e, O, a)
  <2>1. \/ Has(e, "OPEN", a) \/ HasTo(q, "CONFIRM", a) \/ HasTo(q, "OPEN_FAIL", a)
        \/ acc[q][a] \in Ids /\ ch[q][acc[q][a]].st = "PENDING"
        \/ acc[q][a] \in closed[q]
        \/ <<"OPEN_FAIL", a>> \in pduLost[q]
    BY <1>4 DEF TrafficInv, OpeningAccounted, Kept
  <2>2. Has(e, "OPEN", a) => Has(e, "OPEN", a)'
    BY <1>1, HasIs
  <2>3. HasTo(q, "CONFIRM", a) => HasTo(q, "CONFIRM", a)'
    <3>1. \A o \in O : ~(o.type = "CONFIRM" /\ o.to = a)
      BY <1>2 DEF TakenStep
    <3>. QED
      BY <1>1, <3>1, HasIs
  <2>4. HasTo(q, "OPEN_FAIL", a) => HasTo(q, "OPEN_FAIL", a)'
    <3>1. \A o \in O : ~(o.type = "OPEN_FAIL" /\ o.to = a)
      BY <1>2 DEF TakenStep
    <3>. QED
      BY <1>1, <3>1, HasIs
  <2>. QED
    BY <2>1, <2>2, <2>3, <2>4
<1>. QED
  BY <1>2, <1>3, <1>4 DEF SlotChange, Accepted, Confirmed, Freed

\* The peer's request still waits for e.
LEMMA OpeningPeer ==
  ASSUME TrafficInv, FlowInv', NEW e \in Ends, NEW O, Step(e, O), NEW q, q = Peer(e),
         NEW a \in Ids, ch[q][a].st = "OPENING"
  PROVE  \/ Has(q, "OPEN", a)'
         \/ HasTo(e, "CONFIRM", a)'
         \/ HasTo(e, "OPEN_FAIL", a)'
         \/ acc'[e][a] \in Ids /\ ch'[e][acc'[e][a]].st = "PENDING"
         \/ acc'[e][a] \in closed'[e]
         \/ <<"OPEN_FAIL", a>> \in pduLost'[e]
<1>1. /\ q \in Ends /\ Peer(q) = e /\ Wire(e) \subseteq Wire(e)' /\ O \subseteq Wire(q)
      /\ \A m \in Wire(q) : m \in Wire(q)' \/ m \in O
      /\ closed[e] \subseteq Ids /\ NoId \notin Ids
  BY SlotFacts, StepWire
<1>2. /\ TakenStep(e, O) /\ PairStep(e, O)
      /\ closed[e] \subseteq closed'[e] /\ pduLost[e] \subseteq pduLost'[e]
  BY DEF Step, SlotStep
<1>3. PICK b : b = acc[e][a]
  OBVIOUS
<1>4. b \in Ids => acc'[e][a] = b
  BY <1>1, <1>2, <1>3 DEF PairStep
<1>5. \/ Has(q, "OPEN", a) \/ HasTo(e, "CONFIRM", a) \/ HasTo(e, "OPEN_FAIL", a)
      \/ b \in Ids /\ ch[e][b].st = "PENDING"
      \/ b \in closed[e]
      \/ <<"OPEN_FAIL", a>> \in pduLost[e]
  BY <1>1, <1>3 DEF TrafficInv, OpeningAccounted
<1>6. CASE Has(q, "OPEN", a)
  <2>1. PICK m \in Wire(q) : m.type = "OPEN" /\ m.from = a
    BY <1>6, HasIs
  <2>2. CASE m \in Wire(q)'
    BY <2>1, <2>2, HasIs
  <2>3. CASE m \in O
    <3>1. \/ \E n \in Wire(e)' : n.type = "OPEN_FAIL" /\ n.to = a
          \/ <<"OPEN_FAIL", a>> \in pduLost'[e]
          \/ acc'[e][a] \in Ids /\ ch'[e][acc'[e][a]].st = "PENDING"
      BY <1>2, <2>1, <2>3 DEF TakenStep
    <3>. QED
      BY <3>1, HasIs
  <2>. QED
    BY <1>1, <2>2, <2>3
<1>7. CASE HasTo(e, "CONFIRM", a) \/ HasTo(e, "OPEN_FAIL", a)
  BY <1>1, <1>7, HasIs
<1>8. CASE b \in Ids /\ ch[e][b].st = "PENDING"
  <2>1. Paired(e, b, a) /\ ch[e][b].peer \in Ids /\ Paired(e, b, ch[e][b].peer)
    BY <1>3, <1>8, SlotFacts DEF Paired
  <2>2. ch[e][b].peer = a /\ b < nextId[e]
    BY <1>8, <2>1, OnePartner
  <2>3. \A o \in O : o.type = "CLOSE" => o.to # b
    BY <1>1, <1>8, FlightFacts DEF PduDue, Talk
  <2>4. Kept(e, O, b) \/ Accepted(e, b) \/ Confirmed(e, O, b) \/ Freed(e, O, b)
    BY <1>8, <2>2, OldSlot
  <2>5. CASE Kept(e, O, b)
    BY <1>4, <1>8, <2>5 DEF Kept
  <2>6. CASE Accepted(e, b)
    BY <2>2, <2>6, HasIs DEF Accepted
  <2>7. CASE Freed(e, O, b)
    <3>1. b \in closed'[e] \/ \E m \in Wire(e)' : m.type = "OPEN_FAIL" /\ m.to = a
      BY <1>8, <2>2, <2>3, <2>7 DEF Freed
    <3>. QED
      BY <1>4, <1>8, <3>1, HasIs
  <2>. QED
    BY <1>8, <2>4, <2>5, <2>6, <2>7 DEF Confirmed
<1>9. CASE b \in closed[e]
  BY <1>1, <1>2, <1>4, <1>9
<1>. QED
  BY <1>2, <1>5, <1>6, <1>7, <1>8, <1>9

LEMMA OpeningStep ==
  ASSUME TrafficInv, FlowInv', NEW e \in Ends, NEW O, Step(e, O)
  PROVE  OpeningAccounted'
<1>1. PICK q : q = Peer(e)
  OBVIOUS
<1>2. q \in Ends /\ Peer(q) = e /\ \A x \in Ends : x = e \/ x = q
  BY <1>1, SlotFacts
<1>3. /\ ch'[q] = ch[q] /\ closed'[q] = closed[q] /\ acc'[q] = acc[q] /\ pduLost'[q] = pduLost[q]
  BY <1>1 DEF Step, PeerIdle
<1>4. ASSUME NEW a \in Ids, ch'[e][a].st = "OPENING"
      PROVE  \/ Has(e, "OPEN", a)' \/ HasTo(q, "CONFIRM", a)' \/ HasTo(q, "OPEN_FAIL", a)'
             \/ acc'[q][a] \in Ids /\ ch'[q][acc'[q][a]].st = "PENDING"
             \/ acc'[q][a] \in closed'[q]
             \/ <<"OPEN_FAIL", a>> \in pduLost'[q]
  BY <1>1, <1>3, <1>4, OpeningOwn
<1>5. ASSUME NEW a \in Ids, ch'[q][a].st = "OPENING"
      PROVE  \/ Has(q, "OPEN", a)' \/ HasTo(e, "CONFIRM", a)' \/ HasTo(e, "OPEN_FAIL", a)'
             \/ acc'[e][a] \in Ids /\ ch'[e][acc'[e][a]].st = "PENDING"
             \/ acc'[e][a] \in closed'[e]
             \/ <<"OPEN_FAIL", a>> \in pduLost'[e]
  BY <1>1, <1>3, <1>5, OpeningPeer
<1>. QED
  BY <1>1, <1>2, <1>4, <1>5 DEF OpeningAccounted

\* What an open channel of x is entitled to, its partner being b of y.
Counterpart(x, y, a, b) ==
  \/ ch[y][b].st = "OPEN" /\ ch[y][b].peer = a
  \/ ch[y][b].st = "OPENING" /\ Has(x, "CONFIRM", a)
  \/ /\ b \in closed[y]
     /\ Has(y, "CLOSE", b) \/ <<"CLOSE", a>> \in pduLost[y] \/ Has(x, "CONFIRM", a)

LEMMA CounterpartOwn ==
  ASSUME TrafficInv, FlowInv', NEW e \in Ends, NEW O, Step(e, O), NEW q, q = Peer(e),
         NEW a \in Ids, ch'[e][a].st = "OPEN", NEW b, b = ch'[e][a].peer
  PROVE  Counterpart(e, q, a, b)'
<1>1. /\ q \in Ends /\ Peer(q) = e /\ Wire(e) \subseteq Wire(e)' /\ O \subseteq Wire(q)
      /\ \A m \in Wire(q) : m \in Wire(q)' \/ m \in O
  BY SlotFacts, StepWire
<1>2. /\ ch'[q] = ch[q] /\ closed'[q] = closed[q] /\ pduLost'[q] = pduLost[q]
      /\ SlotChange(e, O, a) /\ TakenStep(e, O)
  BY DEF Step, PeerIdle, SlotStep
<1>3. Has(e, "CONFIRM", a) => Has(e, "CONFIRM", a)'
  BY <1>1, HasIs
<1>4. CASE Kept(e, O, a)
  <2>1. ch[e][a].st = "OPEN" /\ b = ch[e][a].peer
    BY <1>4 DEF Kept
  <2>2. Counterpart(e, q, a, b)
    BY <2>1 DEF TrafficInv, CounterpartAccounted, Counterpart
  <2>3. b \in Ids /\ Paired(e, a, b)
    BY <2>1, SlotFacts
  <2>4. ASSUME Has(q, "CLOSE", b) PROVE Has(q, "CLOSE", b)'
    <3>1. PICK m \in Wire(q) : m.type = "CLOSE" /\ m.from = b
      BY <2>4, HasIs
    <3>2. m.to \in Ids /\ Paired(q, b, m.to)
      BY <1>1, <3>1, FlightFacts, FlightPaired DEF ToChannel, Talk
    <3>3. Paired(q, b, a)
      BY <2>3, OnePartner
    <3>4. m.to = a
      BY <1>1, <2>3, <3>2, <3>3, OnePartner
    <3>5. m \notin O
      BY <1>2, <3>1, <3>4 DEF TakenStep
    <3>. QED
      BY <1>1, <3>1, <3>5, HasIs
  <2>. QED
    BY <1>2, <1>3, <2>2, <2>4 DEF Counterpart
<1>5. CASE Accepted(e, a)
  <2>1. ch[e][a].st = "PENDING" /\ b = ch[e][a].peer /\ Has(e, "CONFIRM", a)'
    BY <1>5, HasIs DEF Accepted
  <2>2. ch[q][b].st = "OPENING" \/ b \in closed[q]
    BY <2>1, PendingPartner
  <2>. QED
    BY <1>2, <2>1, <2>2 DEF Counterpart
<1>6. CASE Confirmed(e, O, a)
  <2>1. PICK o \in O : o.type = "CONFIRM" /\ o.to = a /\ o.from = b
    BY <1>6 DEF Confirmed
  <2>2. o \in Wire(q) /\ b \in Ids /\ Paired(q, b, a) /\ PduDue(q, o)
    BY <1>1, <2>1, FlightFacts, FlightPaired DEF FromChannel
  <2>3. ch[q][b].st = "OPEN" \/ Shut(q, o)
    BY <1>1, <2>1, <2>2 DEF PduDue, ConfirmDue
  <2>4. ch[q][b].st = "OPEN" => ch[q][b].peer = a
    BY <1>1, <2>2, SlotFacts, OnePartner
  <2>5. Has(q, "CLOSE", b) => Has(q, "CLOSE", b)'
    <3>1. \A p \in O : p.type # "CLOSE"
      BY <2>1, StepWire
    <3>. QED
      BY <1>1, <3>1, HasIs
  <2>. QED
    BY <1>2, <2>1, <2>3, <2>4, <2>5 DEF Counterpart, Shut
<1>. QED
  BY <1>2, <1>4, <1>5, <1>6 DEF SlotChange, Begun, Freed

LEMMA CounterpartPeer ==
  ASSUME TrafficInv, FlowInv', NEW e \in Ends, NEW O, Step(e, O), NEW q, q = Peer(e),
         NEW a \in Ids, ch[q][a].st = "OPEN", NEW b, b = ch[q][a].peer
  PROVE  Counterpart(q, e, a, b)'
<1>1. /\ q \in Ends /\ Peer(q) = e /\ Wire(e) \subseteq Wire(e)' /\ O \subseteq Wire(q)
      /\ \A m \in Wire(q) : m \in Wire(q)' \/ m \in O
  BY SlotFacts, StepWire
<1>2. /\ closed[e] \subseteq closed'[e] /\ pduLost[e] \subseteq pduLost'[e] /\ TakenStep(e, O)
  BY DEF Step, SlotStep
<1>3. b \in Ids /\ Paired(q, a, b) /\ Counterpart(q, e, a, b)
  BY <1>1, SlotFacts, SMTT(30) DEF TrafficInv, CounterpartAccounted, Counterpart
<1>4. b < nextId[e]
  BY <1>1, <1>3, OnePartner
<1>5. \A m \in Wire(q) : m.type \in {"CONFIRM", "CLOSE"} => (m.from = a <=> m.to = b)
  <2>. SUFFICES ASSUME NEW m \in Wire(q), m.type \in {"CONFIRM", "CLOSE"}
                PROVE  m.from = a <=> m.to = b
    OBVIOUS
  <2>1. m.from \in Ids /\ m.to \in Ids /\ Paired(q, m.from, m.to)
    BY <1>1, FlightFacts, FlightPaired DEF FromChannel, ToChannel, Talk
  <2>. QED
    BY <1>1, <1>3, <2>1, OnePartner
<1>6. \A o \in O : o.type = "CLOSE" => o.to # b
  BY <1>1, <1>5, FlightFacts DEF PduSent
<1>7. Kept(e, O, b) \/ Accepted(e, b) \/ Confirmed(e, O, b) \/ Freed(e, O, b)
  BY <1>3, <1>4, OldSlot
<1>8. CASE ch[e][b].st = "OPEN" /\ ch[e][b].peer = a
  <2>1. CASE Kept(e, O, b)
    BY <1>8, <2>1 DEF Kept, Counterpart
  <2>2. CASE Freed(e, O, b)
    <3>1. /\ b \in closed'[e]
          /\ \/ \E m \in Wire(e)' : m.type = "CLOSE" /\ m.from = b
             \/ <<"CLOSE", a>> \in pduLost'[e]
      BY <1>6, <1>8, <2>2 DEF Freed
    <3>. QED
      BY <3>1, HasIs DEF Counterpart
  <2>. QED
    BY <1>7, <1>8, <2>1, <2>2 DEF Accepted, Confirmed
<1>9. CASE ch[e][b].st = "OPENING" /\ Has(q, "CONFIRM", a)
  <2>1. PICK m \in Wire(q) : m.type = "CONFIRM" /\ m.from = a
    BY <1>9, HasIs
  <2>2. m.to = b /\ acc[q][b] = a
    BY <1>1, <1>5, <2>1, FlightPaired
  <2>3. CASE Confirmed(e, O, b)
    <3>1. PICK o \in O : o.type = "CONFIRM" /\ o.to = b /\ o.from = ch'[e][b].peer
      BY <2>3 DEF Confirmed
    <3>2. o.from = a
      BY <1>1, <1>5, <3>1
    <3>. QED
      BY <2>3, <3>1, <3>2 DEF Confirmed, Counterpart
  <2>4. ch'[e][b].st # "OPEN" => Has(q, "CONFIRM", a)'
    <3>1. m \in O => ch'[e][b].st = "OPEN"
      BY <1>2, <2>1, <2>2 DEF TakenStep
    <3>. QED
      BY <1>1, <2>1, <3>1, HasIs
  <2>5. CASE Kept(e, O, b)
    BY <1>9, <2>4, <2>5 DEF Kept, Counterpart
  <2>6. CASE Freed(e, O, b)
    <3>1. \A o \in O : o.type = "OPEN_FAIL" => o.to # b
      <4>. SUFFICES ASSUME NEW o \in O, o.type = "OPEN_FAIL", o.to = b PROVE FALSE
        OBVIOUS
      <4>1. PduDue(q, o)
        BY <1>1, FlightFacts
      <4>2. Mute(q, a)
        <5>1. acc[q][b] # NoId
          BY <2>2, SlotFacts
        <5>. QED
          BY <1>1, <2>2, <4>1, <5>1 DEF PduDue, OpenFailDue
      <4>. QED
        BY <2>1, <4>2 DEF Mute
    <3>2. b \in closed'[e] /\ ch'[e][b].st = "UNUSED"
      BY <1>6, <1>9, <2>6, <3>1 DEF Freed
    <3>. QED
      BY <2>4, <3>2 DEF Counterpart
  <2>. QED
    BY <1>7, <1>9, <2>3, <2>5, <2>6 DEF Accepted
<1>10. CASE /\ b \in closed[e]
            /\ Has(e, "CLOSE", b) \/ <<"CLOSE", a>> \in pduLost[e] \/ Has(q, "CONFIRM", a)
  <2>1. Has(e, "CLOSE", b) => Has(e, "CLOSE", b)'
    BY <1>1, HasIs
  <2>2. ASSUME Has(q, "CONFIRM", a) PROVE Has(q, "CONFIRM", a)'
    <3>1. PICK m \in Wire(q) : m.type = "CONFIRM" /\ m.from = a
      BY <2>2, HasIs
    <3>2. ch[e][m.to].st = "UNUSED"
      BY <1>5, <1>10, <3>1, SlotFacts
    <3>3. m \notin O
      BY <1>2, <3>1, <3>2 DEF TakenStep
    <3>. QED
      BY <1>1, <3>1, <3>3, HasIs
  <2>. QED
    BY <1>2, <1>10, <2>1, <2>2 DEF Counterpart
<1>. QED
  BY <1>3, <1>8, <1>9, <1>10 DEF Counterpart

LEMMA CounterpartStep ==
  ASSUME TrafficInv, FlowInv', NEW e \in Ends, NEW O, Step(e, O)
  PROVE  CounterpartAccounted'
<1>1. PICK q : q = Peer(e)
  OBVIOUS
<1>2. q \in Ends /\ Peer(q) = e /\ \A x \in Ends : x = e \/ x = q
  BY <1>1, SlotFacts
<1>3. ch'[q] = ch[q]
  BY <1>1 DEF Step, PeerIdle
<1>4. ASSUME NEW a \in Ids, ch'[e][a].st = "OPEN", NEW b, b = ch'[e][a].peer
      PROVE  Counterpart(e, q, a, b)'
  BY <1>1, <1>4, CounterpartOwn
<1>5. ASSUME NEW a \in Ids, ch'[q][a].st = "OPEN", NEW b, b = ch'[q][a].peer
      PROVE  Counterpart(q, e, a, b)'
  BY <1>1, <1>3, <1>5, CounterpartPeer
<1>6. \A a \in Ids : ch'[e][a].st = "OPEN" => Counterpart(e, q, a, ch[e][a].peer)'
  BY <1>4
<1>7. \A a \in Ids : ch'[q][a].st = "OPEN" => Counterpart(q, e, a, ch[q][a].peer)'
  BY <1>5
<1>. QED
  BY ONLY <1>1, <1>2, <1>6, <1>7 DEF CounterpartAccounted, Counterpart

----------------------------------------------------------------------------
(* Order on the links *)

\* What e has in flight after a step: what was there, in its places, and perhaps
\* one more PDU behind it.
LEMMA OwnOrder ==
  ASSUME TrafficInv, NEW e \in Ends, NEW O, Step(e, O), NEW i \in DOMAIN link'[e]
  PROVE  /\ i \in Nat /\ link'[e][i] \in Wire(e)'
         /\ \A j \in 1 .. (i - 1) : j \in DOMAIN link[e] /\ link'[e][j] = link[e][j]
         /\ \/ i \in DOMAIN link[e] /\ link'[e][i] = link[e][i]
            \/ /\ Sendable(e, O, link'[e][i])
               /\ \A j \in DOMAIN link[e] : j \in 1 .. (i - 1)
               /\ Puts(e, link'[e][i]) /\ link'[e][i] \in PduSet
<1>1. link[e] \in Seq(PduSet)
  BY FlowTypesOK DEF TrafficInv, TypeIO
<1>2. Len(link[e]) \in Nat /\ DOMAIN link[e] = 1 .. Len(link[e])
  BY <1>1, LenProperties
<1>3. CASE link'[e] = link[e]
  BY <1>2, <1>3 DEF Wire
<1>4. CASE \E m \in PduSet : Puts(e, m) /\ Sendable(e, O, m)
  <2>1. PICK m \in PduSet : Puts(e, m) /\ Sendable(e, O, m)
    BY <1>4
  <2>2. link'[e] = Append(link[e], m)
    BY <2>1 DEF Puts
  <2>3. /\ DOMAIN link'[e] = 1 .. (Len(link[e]) + 1)
        /\ \A j \in 1 .. Len(link[e]) : link'[e][j] = link[e][j]
        /\ link'[e][Len(link[e]) + 1] = m
    BY <1>1, <1>2, <2>2, AppendProperties, LenProperties
  <2>4. i \in Nat /\ i <= Len(link[e]) + 1 /\ 1 <= i
    BY <1>2, <2>3
  <2>5. link'[e][i] \in Wire(e)'
    BY DEF Wire
  <2>6. \A j \in 1 .. (i - 1) : j \in DOMAIN link[e] /\ link'[e][j] = link[e][j]
    BY <1>2, <2>3, <2>4
  <2>7. CASE i = Len(link[e]) + 1
    <3>1. link'[e][i] = m
      BY <2>3, <2>7
    <3>2. \A j \in DOMAIN link[e] : j \in 1 .. (i - 1)
      BY <1>2, <2>7
    <3>. QED
      BY <2>1, <2>4, <2>5, <2>6, <3>1, <3>2
  <2>8. CASE i # Len(link[e]) + 1
    <3>1. i \in 1 .. Len(link[e])
      BY <1>2, <2>4, <2>8
    <3>. QED
      BY <1>2, <2>3, <2>4, <2>5, <2>6, <3>1
  <2>. QED
    BY <2>7, <2>8
<1>. QED
  BY <1>3, <1>4 DEF Step, LinkStep

\* What the peer has in flight after a step: what was there, d places further to
\* the front.
LEMMA PeerOrder ==
  ASSUME TrafficInv, NEW e \in Ends, NEW O, Step(e, O), NEW q, q = Peer(e)
  PROVE  \E d \in {0, 1} :
           /\ \A i \in DOMAIN link'[q] :
                i \in Nat /\ 1 <= i /\ i + d \in DOMAIN link[q] /\ link'[q][i] = link[q][i + d]
           /\ \A i \in DOMAIN link[q] :
                i \in Nat /\ 1 <= i
                /\ (i - d \in DOMAIN link'[q] \/ (i = 1 /\ d = 1))
           /\ d = 0 => O = {}
           /\ d = 1 => O = {link[q][1]} /\ 1 \in DOMAIN link[q]
<1>1. q \in Ends /\ link[q] \in Seq(PduSet)
  BY PeerFacts, FlowTypesOK DEF TrafficInv, TypeIO
<1>2. Len(link[q]) \in Nat /\ DOMAIN link[q] = 1 .. Len(link[q])
  BY <1>1, LenProperties
<1>3. CASE O = {} /\ link'[q] = link[q]
  <2>1. \A i \in DOMAIN link[q] : i \in Nat /\ 1 <= i /\ i + 0 = i /\ i - 0 = i
    BY <1>2
  <2>2. \A i \in DOMAIN link'[q] :
          i \in Nat /\ 1 <= i /\ i + 0 \in DOMAIN link[q] /\ link'[q][i] = link[q][i + 0]
    BY <1>3, <2>1
  <2>3. \A i \in DOMAIN link[q] : i \in Nat /\ 1 <= i /\ i - 0 \in DOMAIN link'[q]
    BY <1>3, <2>1
  <2>. WITNESS 0 \in {0, 1}
  <2>. QED
    BY <1>3, <2>2, <2>3
<1>4. CASE O = {Incoming(e)} /\ link[q] # <<>> /\ link'[q] = Tail(link[q])
  <2>1. /\ 1 \in DOMAIN link[q] /\ Head(link[q]) = link[q][1]
        /\ DOMAIN link'[q] = 1 .. (Len(link[q]) - 1)
        /\ \A i \in 1 .. (Len(link[q]) - 1) : link'[q][i] = link[q][i + 1]
    BY <1>1, <1>4, TailFacts
  <2>2. O = {link[q][1]}
    BY <1>4, <2>1 DEF Incoming
  <2>3. \A i \in DOMAIN link'[q] :
          i \in Nat /\ 1 <= i /\ i + 1 \in DOMAIN link[q] /\ link'[q][i] = link[q][i + 1]
    BY <1>2, <2>1
  <2>4. \A i \in DOMAIN link[q] :
          i \in Nat /\ 1 <= i /\ (i - 1 \in DOMAIN link'[q] \/ i = 1)
    BY <1>2, <2>1
  <2>. WITNESS 1 \in {0, 1}
  <2>. QED
    BY <2>1, <2>2, <2>3, <2>4
<1>. QED
  BY <1>3, <1>4 DEF Step, LinkStep

\* A new PDU may come after everything that is in flight.
LEMMA FollowsNew ==
  ASSUME TrafficInv, FlowInv', NEW e \in Ends, NEW O, Step(e, O), NEW m \in Wire(e),
         NEW n \in Wire(e)', Sendable(e, O, n)
  PROVE  Follows(m, n)
<1>1. /\ PduSent(e, m) /\ PduPaired(e, m)
      /\ m.type \in FromChannel => m.from \in Ids /\ m.from < nextId[e]
      /\ m.type \notin FromChannel => m.from = NoId
  BY FlightFacts, FlightPaired
<1>2. /\ n.type \in Talk => ch[e][n.from].st = "OPEN"
      /\ n.type = "CONFIRM" => ch[e][n.from].st = "PENDING"
      /\ n.type = "OPEN" => n.from = nextId[e]
      /\ n.type \notin FromChannel => n.from = NoId
      /\ n.type = "DATA" => ~ch[e][n.from].leof
  BY SendableFacts DEF Sendable
<1>3. m.type = "DISCONNECT" => n.type \in {"DISCONNECT", "CLOSE", "OPEN_FAIL", "PONG"}
  BY <1>1 DEF PduSent, Sendable, Late
<1>4. ASSUME m.from = n.from, m.from # NoId
      PROVE  n.type # "CONFIRM" /\ m.type # "CLOSE" /\ (m.type = "EOF" => n.type # "DATA")
  <2>1. m.type \in FromChannel /\ n.type \in FromChannel
    BY <1>1, <1>2, <1>4
  <2>2. nextId[e] \in Nat /\ m.from \in Nat /\ m.from < nextId[e]
    BY <1>1, <2>1, SlotFacts
  <2>3. n.type # "OPEN"
    BY <1>2, <1>4, <2>2
  <2>4. n.type # "CONFIRM"
    <3>1. m.type \in Talk \cup {"CONFIRM"} => ch[e][m.from].st # "PENDING"
      BY <1>1 DEF PduSent
    <3>2. m.type = "OPEN" => ch[e][m.from].st # "PENDING"
      BY <1>1, SlotFacts DEF PduSent
    <3>. QED
      BY <1>2, <1>4, <2>1, <3>1, <3>2 DEF FromChannel, Talk
  <2>5. n.type \in Talk
    BY <2>1, <2>3, <2>4 DEF FromChannel, Talk
  <2>6. m.type # "CLOSE"
    BY <1>1, <1>2, <1>4, <2>5 DEF PduSent
  <2>7. m.type = "EOF" => n.type # "DATA"
    BY <1>1, <1>2, <1>4, <2>5 DEF PduSent
  <2>. QED
    BY <2>4, <2>6, <2>7
<1>. QED
  BY <1>3, <1>4 DEF Follows

LEMMA GrammarStep ==
  ASSUME TrafficInv, FlowInv', NEW e \in Ends, NEW O, Step(e, O)
  PROVE  StreamGrammar'
<1>1. PICK q : q = Peer(e)
  OBVIOUS
<1>2. q \in Ends /\ \A x \in Ends : x = e \/ x = q
  BY <1>1, SlotFacts
<1>3. ASSUME NEW x \in Ends, NEW i \in DOMAIN link[x], NEW j \in DOMAIN link[x], i < j
      PROVE  Follows(link[x][i], link[x][j])
  BY <1>3 DEF TrafficInv, StreamGrammar, Follows
<1>4. ASSUME NEW i \in DOMAIN link'[q], NEW j \in DOMAIN link'[q], i < j
      PROVE  Follows(link'[q][i], link'[q][j])
  <2>1. PICK d \in {0, 1} :
          \A k \in DOMAIN link'[q] :
            k \in Nat /\ 1 <= k /\ k + d \in DOMAIN link[q] /\ link'[q][k] = link[q][k + d]
    BY <1>1, PeerOrder
  <2>2. i + d < j + d
    BY <1>4, <2>1
  <2>. QED
    BY <1>2, <1>3, <2>1, <2>2
<1>5. ASSUME NEW i \in DOMAIN link'[e], NEW j \in DOMAIN link'[e], i < j
      PROVE  Follows(link'[e][i], link'[e][j])
  <2>1. i \in Nat /\ j \in Nat /\ 1 <= i
    <3>1. link'[e] \in Seq(PduSet)
      BY DEF FlowInv, TableInv, TypeOK, TypeIO
    <3>. QED
      BY <3>1, LenProperties
  <2>2. i \in 1 .. (j - 1)
    BY <1>5, <2>1
  <2>3. i \in DOMAIN link[e] /\ link'[e][i] = link[e][i]
    BY <2>2, OwnOrder
  <2>4. link[e][i] \in Wire(e)
    BY <2>3 DEF Wire
  <2>5. /\ link'[e][j] \in Wire(e)'
        /\ \/ j \in DOMAIN link[e] /\ link'[e][j] = link[e][j]
           \/ Sendable(e, O, link'[e][j])
    BY OwnOrder
  <2>6. CASE j \in DOMAIN link[e] /\ link'[e][j] = link[e][j]
    BY <1>3, <1>5, <2>3, <2>6
  <2>7. CASE Sendable(e, O, link'[e][j])
    BY <2>3, <2>4, <2>5, <2>7, FollowsNew
  <2>. QED
    BY <2>5, <2>6, <2>7
<1>. QED
  BY <1>2, <1>4, <1>5 DEF StreamGrammar, Follows

----------------------------------------------------------------------------
(* Late traffic *)

\* The addressee of m, if it is in use and knows its partner, knows m's sender.
LateBound ==
  \A x \in Ends : \A m \in Wire(x) :
    m.type \in Talk /\ ch[Peer(x)][m.to].st \in {"PENDING", "OPEN"} =>
      ch[Peer(x)][m.to].peer = m.from

\* That much follows from the pairs.
LEMMA LateBoundHolds == FlowInv /\ LinkSent => LateBound
<1>. SUFFICES ASSUME FlowInv, LinkSent, NEW x \in Ends, NEW m \in Wire(x), NEW y, y = Peer(x),
                     m.type \in Talk, ch[y][m.to].st \in {"PENDING", "OPEN"}
              PROVE  ch[y][m.to].peer = m.from
  BY DEF LateBound
<1>1. Flying(x, m)
  BY DEF Flying, Wire
<1>2. m \in PduSet /\ PduPaired(x, m) /\ PduSent(x, m)
  BY <1>1, FlyingFacts DEF LinkSent
<1>3. m.from \in Ids /\ m.to \in Ids /\ Paired(x, m.from, m.to)
  BY <1>2 DEF PduSet, PduPaired, PduSent, Talk, FromChannel, ToChannel
<1>4. AccSound /\ PeerSound /\ TypeTable
  BY FlowTypesOK DEF FlowInv, PairInv
<1>5. y \in Ends /\ Peer(y) = x
  BY PeerFacts
<1>6. ch[y][m.to].peer \in Ids
  BY <1>3, <1>4, <1>5 DEF TypeTable, ChannelSet, ChannelFields
<1>7. Paired(y, m.to, ch[y][m.to].peer)
  BY <1>3, <1>4, <1>5 DEF PeerSound, Paired
<1>8. Paired(x, ch[y][m.to].peer, m.to)
  BY <1>3, <1>5, <1>6, <1>7, PairSymmetric
<1>. QED
  BY <1>3, <1>4, <1>6, <1>8, PairUnique

LEMMA LateBoundNext == FlowInv' /\ LinkSent' => LateBound'
BY LateBoundHolds, PTL

\* A channel that still waits for CONFIRM finds it ahead of everything else.
ConfirmAhead(x, i) ==
  \E j \in 1 .. (i - 1) : /\ link[x][j].type = "CONFIRM"
                          /\ link[x][j].from = link[x][i].from
                          /\ link[x][j].to = link[x][i].to

LEMMA ConfirmAheadOwn ==
  ASSUME TrafficInv, FlowInv', NEW e \in Ends, NEW O, Step(e, O), NEW q, q = Peer(e),
         NEW i \in DOMAIN link'[e], link'[e][i].type \in Talk,
         ch[q][link'[e][i].to].st = "OPENING"
  PROVE  ConfirmAhead(e, i)'
<1>1. PICK m : m = link'[e][i]
  OBVIOUS
<1>2. \A j \in 1 .. (i - 1) : j \in DOMAIN link[e] /\ link'[e][j] = link[e][j]
  BY OwnOrder
<1>3. CASE i \in DOMAIN link[e] /\ m = link[e][i]
  <2>1. \E j \in 1 .. (i - 1) : /\ link[e][j].type = "CONFIRM"
                                /\ link[e][j].from = m.from /\ link[e][j].to = m.to
    BY <1>1, <1>3 DEF TrafficInv, LateTraffic, Talk
  <2>. QED
    BY <1>1, <1>2, <2>1 DEF ConfirmAhead
<1>4. CASE Sendable(e, O, m) /\ \A j \in DOMAIN link[e] : j \in 1 .. (i - 1)
  <2>1. m \in Wire(e)'
    BY <1>1 DEF Wire
  <2>2. /\ m.from \in Ids /\ m.to \in Ids
        /\ ch[e][m.from].st = "OPEN" /\ m.to = ch[e][m.from].peer /\ Paired(e, m.from, m.to)
    BY <1>1, <1>4, <2>1, SendableFacts DEF Talk, FromChannel, ToChannel
  <2>3. m.to \notin closed[q] /\ ch[q][m.to].st # "OPEN"
    BY <1>1, SlotFacts
  <2>4. Has(e, "CONFIRM", m.from)
    BY <2>2, <2>3 DEF TrafficInv, CounterpartAccounted
  <2>5. PICK j \in DOMAIN link[e] : link[e][j].type = "CONFIRM" /\ link[e][j].from = m.from
    BY <2>4 DEF Has
  <2>6. PICK n \in Wire(e) : n = link[e][j]
    BY DEF Wire
  <2>7. n.to \in Ids /\ Paired(e, m.from, n.to)
    BY <2>5, <2>6, FlightFacts, FlightPaired DEF ToChannel
  <2>8. n.to = m.to
    BY <2>2, <2>7, OnePartner
  <2>9. j \in 1 .. (i - 1) /\ link'[e][j] = n
    BY <1>2, <1>4, <2>6
  <2>. QED
    BY <1>1, <2>5, <2>6, <2>8, <2>9 DEF ConfirmAhead
<1>. QED
  BY <1>1, <1>3, <1>4, OwnOrder

LEMMA ConfirmAheadPeer ==
  ASSUME TrafficInv, FlowInv', NEW e \in Ends, NEW O, Step(e, O), NEW q, q = Peer(e),
         NEW i \in DOMAIN link'[q], link'[q][i].type \in Talk,
         ch'[e][link'[q][i].to].st = "OPENING"
  PROVE  ConfirmAhead(q, i)'
<1>1. PICK m : m = link'[q][i]
  OBVIOUS
<1>2. PICK d \in {0, 1} :
        /\ \A k \in DOMAIN link'[q] :
             k \in Nat /\ 1 <= k /\ k + d \in DOMAIN link[q] /\ link'[q][k] = link[q][k + d]
        /\ \A k \in DOMAIN link[q] :
             k \in Nat /\ 1 <= k /\ (k - d \in DOMAIN link'[q] \/ (k = 1 /\ d = 1))
        /\ d = 1 => O = {link[q][1]}
  BY PeerOrder
<1>3. /\ q \in Ends /\ Peer(q) = e
      /\ i \in Nat /\ i + d \in DOMAIN link[q] /\ m = link[q][i + d] /\ m \in Wire(q)
  BY <1>1, <1>2, SlotFacts DEF Wire
<1>4. m.from \in Ids /\ m.to \in Ids /\ Paired(q, m.from, m.to)
  BY <1>1, <1>3, FlightFacts, FlightPaired DEF Talk, FromChannel, ToChannel
<1>5. m.to < nextId[e]
  BY <1>3, <1>4, OnePartner
<1>6. ch[e][m.to].st = "OPENING"
  BY <1>1, <1>4, <1>5, SlotGoes
<1>7. PICK j \in 1 .. (i + d - 1) : /\ link[q][j].type = "CONFIRM"
                                    /\ link[q][j].from = m.from /\ link[q][j].to = m.to
  BY <1>1, <1>3, <1>6 DEF TrafficInv, LateTraffic, Talk
<1>8. j \in DOMAIN link[q]
  <2>1. link[q] \in Seq(PduSet)
    BY <1>3, FlowTypesOK DEF TrafficInv, TypeIO
  <2>2. Len(link[q]) \in Nat /\ DOMAIN link[q] = 1 .. Len(link[q])
    BY <2>1, LenProperties
  <2>. QED
    BY <1>3, <1>7, <2>2
<1>9. ~(j = 1 /\ d = 1)
  <2>. SUFFICES ASSUME j = 1, d = 1 PROVE FALSE
    OBVIOUS
  <2>1. link[q][j] \in O /\ TakenStep(e, O)
    BY <1>2 DEF Step
  <2>2. ch'[e][m.to].st = "OPEN"
    BY <1>7, <2>1 DEF TakenStep
  <2>. QED
    BY <1>1, <2>2
<1>10. PICK k : k = j - d
  OBVIOUS
<1>11. /\ j \in Nat /\ k \in DOMAIN link'[q] /\ k \in Nat /\ 1 <= k /\ k + d = j
       /\ k \in 1 .. (i - 1)
  BY <1>2, <1>3, <1>7, <1>8, <1>9, <1>10
<1>12. link'[q][k] = link[q][j]
  BY <1>2, <1>11
<1>. QED
  BY <1>1, <1>7, <1>11, <1>12 DEF ConfirmAhead

LEMMA LateTrafficStep ==
  ASSUME TrafficInv, FlowInv', NEW e \in Ends, NEW O, Step(e, O)
  PROVE  LateTraffic'
<1>1. PICK q : q = Peer(e)
  OBVIOUS
<1>2. q \in Ends /\ Peer(q) = e /\ \A x \in Ends : x = e \/ x = q
  BY <1>1, SlotFacts
<1>3. ch'[q] = ch[q]
  BY <1>1 DEF Step, PeerIdle
<1>4. LateBound'
  BY LateBoundNext, LinkSentStep
<1>5. ASSUME NEW x \in Ends, NEW i \in DOMAIN link'[x], link'[x][i].type \in Talk,
             ch'[Peer(x)][link'[x][i].to].st = "OPENING"
      PROVE  ConfirmAhead(x, i)'
  <2>1. CASE x = e
    BY <1>1, <1>3, <1>5, <2>1, ConfirmAheadOwn
  <2>2. CASE x = q
    BY <1>1, <1>2, <1>5, <2>2, ConfirmAheadPeer
  <2>. QED
    BY <1>2, <2>1, <2>2
<1>6. ASSUME NEW x \in Ends, NEW i \in DOMAIN link'[x], link'[x][i].type \in Talk,
             ch'[Peer(x)][link'[x][i].to].st \in {"PENDING", "OPEN"}
      PROVE  ch'[Peer(x)][link'[x][i].to].peer = link'[x][i].from
  <2>1. link'[x][i] \in Wire(x)'
    BY DEF Wire
  <2>. QED
    BY <1>4, <1>6, <2>1 DEF LateBound
<1>. QED
  BY <1>5, <1>6 DEF LateTraffic, ConfirmAhead, Talk

\* After EOF no DATA is on its way.
LEMMA EofFinalStep ==
  ASSUME TrafficInv, FlowInv', NEW e \in Ends, NEW O, Step(e, O)
  PROVE  EofIsFinal'
<1>1. PICK q : q = Peer(e)
  OBVIOUS
<1>2. q \in Ends /\ Peer(q) = e /\ \A x \in Ends : x = e \/ x = q
  BY <1>1, SlotFacts
<1>3. /\ ch'[q] = ch[q]
      /\ O \subseteq Wire(q) /\ Wire(q)' \subseteq Wire(q)
      /\ \A m \in Wire(e)' : m \in Wire(e) \/ Sendable(e, O, m)
      /\ \A o \in O : \A n \in Wire(q)' : Follows(o, n)
  BY <1>1, StepWire DEF Step, PeerIdle
<1>4. ASSUME NEW x \in Ends, NEW m \in Wire(Peer(x)), m.type = "DATA", ch[x][m.to].reof
      PROVE  FALSE
  <2>1. m.to \in Ids
    BY <1>4, SlotFacts, FlightFacts DEF ToChannel
  <2>2. HasTo(Peer(x), "DATA", m.to)
    BY <1>4 DEF HasTo, Wire
  <2>. QED
    BY <1>4, <2>1, <2>2 DEF TrafficInv, EofIsFinal
<1>5. ASSUME NEW m \in Wire(q)', m.type = "DATA", ch'[e][m.to].reof
      PROVE  FALSE
  <2>1. m \in Wire(q) /\ m.from \in Ids /\ m.to \in Ids /\ Paired(q, m.from, m.to)
    BY <1>2, <1>3, <1>5, FlightFacts, FlightPaired DEF Talk, FromChannel, ToChannel
  <2>2. m.to < nextId[e]
    BY <1>2, <2>1, OnePartner
  <2>3. ~ch[e][m.to].reof
    BY <1>1, <1>4, <1>5, <2>1
  <2>4. \/ Kept(e, O, m.to) \/ Accepted(e, m.to) \/ Confirmed(e, O, m.to)
        \/ Freed(e, O, m.to)
    BY <2>1, <2>2, OldSlot
  <2>5. PICK o \in O : o.type = "EOF" /\ o.to = m.to
    BY <1>5, <2>3, <2>4 DEF Kept, Accepted, Confirmed, Freed
  <2>6. o.from \in Ids /\ Paired(q, o.from, m.to) /\ NoId \notin Ids
    BY <1>2, <1>3, <2>5, FlightFacts, FlightPaired, SlotFacts DEF Talk, FromChannel
  <2>7. o.from = m.from
    BY <1>2, <2>1, <2>6, OnePartner
  <2>. QED
    BY <1>3, <1>5, <2>5, <2>6, <2>7 DEF Follows
<1>6. ASSUME NEW m \in Wire(e)', m.type = "DATA", ch[q][m.to].reof
      PROVE  FALSE
  <2>1. CASE m \in Wire(e)
    BY <1>2, <1>4, <1>6, <2>1
  <2>2. CASE Sendable(e, O, m)
    <3>1. /\ m.from \in Ids /\ m.to \in Ids
          /\ ch[e][m.from].st = "OPEN" /\ Paired(e, m.from, m.to) /\ ~ch[e][m.from].leof
      BY <1>6, <2>2, SendableFacts DEF Talk, FromChannel, ToChannel, Sendable
    <3>2. PICK a \in Ids : /\ Paired(e, a, m.to)
                           /\ ch[e][a].leof \/ ch[e][a].st = "UNUSED"
      BY <1>2, <1>6, <3>1 DEF TrafficInv, ChannelInv, EofKept
    <3>3. a = m.from
      BY <3>1, <3>2, OnePartner
    <3>. QED
      BY <3>1, <3>2, <3>3
  <2>. QED
    BY <1>3, <2>1, <2>2
<1>7. ASSUME NEW id \in Ids, ch'[e][id].reof PROVE ~HasTo(q, "DATA", id)'
  BY <1>5, <1>7 DEF HasTo, Wire
<1>8. ASSUME NEW id \in Ids, ch'[q][id].reof PROVE ~HasTo(e, "DATA", id)'
  BY <1>3, <1>6, <1>8 DEF HasTo, Wire
<1>. QED
  BY <1>1, <1>2, <1>7, <1>8 DEF EofIsFinal

----------------------------------------------------------------------------
(* Sessions and errors *)

LEMMA AuthOkStep ==
  ASSUME TrafficInv, FlowInv', NEW e \in Ends, NEW O, Step(e, O)
  PROVE  AuthOkFirst'
<1>1. PICK q : q = Peer(e)
  OBVIOUS
<1>2. q \in Ends /\ Peer(q) = e /\ q # e /\ \A x \in Ends : x = e \/ x = q
  BY <1>1, SlotFacts
<1>3. /\ state'[q] = state[q]
      /\ state'[e] = "READY" => state[e] = "READY" \/ \E o \in O : o.type = "AUTH_OK"
  BY <1>1 DEF Step, PeerIdle, StateStep
<1>4. ASSUME NEW x \in Ends, NEW i \in DOMAIN link[x], link[x][i].type = "AUTH_OK"
      PROVE  x = Server /\ i = 1 /\ state[Client] # "READY"
  BY <1>4 DEF TrafficInv, SessionInv, AuthOkFirst
<1>5. ASSUME NEW i \in DOMAIN link'[e], link'[e][i].type = "AUTH_OK"
      PROVE  e = Server /\ i = 1 /\ state'[Client] # "READY"
  <2>1. i \in DOMAIN link[e] /\ link'[e][i] = link[e][i]
    BY <1>5, OwnOrder DEF Sendable
  <2>2. e = Server /\ i = 1 /\ state[Client] # "READY"
    BY <1>4, <1>5, <2>1
  <2>3. q = Client
    BY <1>1, <2>2 DEF Peer, Server, Client
  <2>. QED
    BY <1>3, <2>2, <2>3
<1>6. ASSUME NEW i \in DOMAIN link'[q], link'[q][i].type = "AUTH_OK"
      PROVE  q = Server /\ i = 1 /\ state'[Client] # "READY"
  <2>1. PICK d \in {0, 1} :
          /\ \A k \in DOMAIN link'[q] :
               k \in Nat /\ 1 <= k /\ k + d \in DOMAIN link[q] /\ link'[q][k] = link[q][k + d]
          /\ d = 0 => O = {}
    BY <1>1, PeerOrder
  <2>2. q = Server /\ i + d = 1 /\ state[Client] # "READY"
    BY <1>2, <1>4, <1>6, <2>1
  <2>3. d = 0 /\ i = 1
    BY <2>1, <2>2
  <2>4. e = Client
    BY <1>2, <2>2 DEF Ends
  <2>. QED
    BY <1>3, <2>1, <2>2, <2>3, <2>4
<1>. QED
  BY <1>2, <1>5, <1>6 DEF AuthOkFirst

\* What the peer has been told it does not forget.
LEMMA ToldKept ==
  ASSUME TrafficInv, NEW e \in Ends, NEW O, Step(e, O), NEW x \in Ends, Told(x)
  PROVE  Told(x)'
<1>1. PICK q : q = Peer(e)
  OBVIOUS
<1>2. q \in Ends /\ Peer(q) = e /\ (x = e \/ x = q)
  BY <1>1, SlotFacts
<1>3. /\ state'[q] = state[q] /\ pduLost'[q] = pduLost[q] /\ pduLost[e] \subseteq pduLost'[e]
      /\ state[e] = "CLOSED" => state'[e] = "CLOSED"
      /\ \A o \in O : o.type = "DISCONNECT" => state'[e] = "CLOSED"
  BY <1>1 DEF Step, PeerIdle, StateStep, SlotStep, TakenStep
<1>4. Wire(e) \subseteq Wire(e)' /\ \A m \in Wire(q) : m \in Wire(q)' \/ m \in O
  BY <1>1, StepWire
<1>5. CASE x = e
  <2>1. Has(e, "DISCONNECT", NoId) => Has(e, "DISCONNECT", NoId)'
    BY <1>4, HasIs
  <2>. QED
    BY <1>1, <1>3, <1>5, <2>1 DEF Told
<1>6. CASE x = q
  <2>1. Has(q, "DISCONNECT", NoId) => Has(q, "DISCONNECT", NoId)' \/ state'[e] = "CLOSED"
    BY <1>3, <1>4, HasIs
  <2>. QED
    BY <1>2, <1>3, <1>6, <2>1 DEF Told
<1>. QED
  BY <1>2, <1>5, <1>6

LEMMA DrainToldStep ==
  ASSUME TrafficInv, FlowInv', NEW e \in Ends, NEW O, Step(e, O)
  PROVE  DrainTold'
<1>. SUFFICES ASSUME NEW x \in Ends, state'[x] = "DRAINING" PROVE Told(x)'
  BY DEF DrainTold
<1>1. state[x] = "DRAINING" => Told(x)'
  BY ToldKept DEF TrafficInv, SessionInv, DrainTold
<1>2. CASE x = Peer(e)
  BY <1>1, <1>2 DEF Step, PeerIdle
<1>3. CASE x = e
  <2>1. \/ state[e] = "DRAINING"
        \/ \E m \in Wire(e)' : m.type = "DISCONNECT" /\ m.from = NoId
        \/ <<"DISCONNECT", NoId>> \in pduLost'[e]
    BY <1>3 DEF Step, StateStep
  <2>. QED
    BY <1>1, <1>3, <2>1, HasIs DEF Told
<1>. QED
  BY <1>2, <1>3, SlotFacts

\* An error has its cause on this end.
LEMMA ErrorLocalStep ==
  ASSUME TrafficInv, FlowInv', NEW e \in Ends, NEW O, Step(e, O)
  PROVE  ErrorHasLocalCause'
<1>1. PICK q : q = Peer(e)
  OBVIOUS
<1>2. q \in Ends /\ Peer(q) = e /\ q # e /\ \A x \in Ends : x = e \/ x = q
  BY <1>1, SlotFacts
<1>3. closed[e] \subseteq closed'[e] /\ closed'[q] = closed[q] /\ err'[q] = err[q]
  BY <1>1 DEF Step, PeerIdle, SlotStep
<1>4. ASSUME NEW x \in Ends, err'[x] = err[x], err'[x].cause # "none"
      PROVE  \/ err'[x].cause \in {"DATA bad ch", "CONFIRM unknown"} /\ err'[x].id \in closed'[x]
             \/ err'[x].cause = "unknown mux pdu" /\ x = Client /\ Told(Client)'
  <2>1. \/ err[x].cause \in {"DATA bad ch", "CONFIRM unknown"} /\ err[x].id \in closed[x]
        \/ err[x].cause = "unknown mux pdu" /\ x = Client /\ Told(Client)
    BY <1>4 DEF TrafficInv, ErrorHasLocalCause, Told, Peer
  <2>2. closed[x] \subseteq closed'[x]
    BY <1>2, <1>3
  <2>. QED
    BY <1>4, <2>1, <2>2, ToldKept
<1>5. ASSUME link[q] # <<>>, state[e] \in {"READY", "DRAINING"}, Blamed(e, err'[e])
      PROVE  \/ err'[e].cause \in {"DATA bad ch", "CONFIRM unknown"} /\ err'[e].id \in closed'[e]
             \/ err'[e].cause = "unknown mux pdu" /\ e = Client /\ Told(Client)'
  <2>1. PICK h : h = Incoming(e)
    OBVIOUS
  <2>2. 1 \in DOMAIN link[q] /\ h = link[q][1] /\ h \in Wire(q)
    <3>1. link[q] \in Seq(PduSet)
      BY <1>2, FlowTypesOK DEF TrafficInv, TypeIO
    <3>2. 1 \in DOMAIN link[q] /\ Head(link[q]) = link[q][1]
      BY <1>5, <3>1, TailFacts
    <3>. QED
      BY <1>1, <2>1, <3>2 DEF Incoming, Wire
  <2>3. /\ PduDue(q, h)
        /\ h.type \in {"DATA", "CONFIRM"} => /\ h.from \in Ids /\ h.to \in Ids
                                             /\ Paired(q, h.from, h.to)
    BY <1>2, <2>2, FlightFacts, FlightPaired DEF Talk, FromChannel, ToChannel
  <2>4. CASE err'[e].cause = "unknown mux pdu" /\ h.type = "AUTH_OK"
    <3>1. q = Server /\ state[Client] # "READY"
      BY <1>2, <2>2, <2>4 DEF TrafficInv, SessionInv, AuthOkFirst
    <3>2. e = Client
      BY <1>2, <3>1 DEF Ends
    <3>3. Told(Client)
      BY <1>5, <3>1, <3>2 DEF TrafficInv, SessionInv, DrainTold
    <3>. QED
      BY <2>4, <3>2, <3>3, ToldKept
  <2>5. CASE /\ err'[e].cause = "CONFIRM unknown" /\ err'[e].id = h.to
             /\ h.type = "CONFIRM" /\ ch[e][h.to].st # "OPENING"
    <3>1. h.to \in closed[e]
      BY <1>2, <2>3, <2>5 DEF PduDue, ConfirmDue
    <3>. QED
      BY <1>3, <2>5, <3>1
  <2>6. CASE /\ err'[e].cause = "DATA bad ch" /\ err'[e].id = h.to
             /\ h.type = "DATA" /\ ch[e][h.to].st \in {"UNUSED", "OPENING"}
    <3>1. ch[e][h.to].st # "OPENING"
      <4>. SUFFICES ASSUME ch[e][h.to].st = "OPENING" PROVE FALSE
        OBVIOUS
      <4>1. \E j \in 1 .. (1 - 1) : link[q][j].type = "CONFIRM"
        BY <1>2, <2>2, <2>6 DEF TrafficInv, LateTraffic
      <4>. QED
        BY <4>1
    <3>2. ~Mute(q, h.from)
      BY <2>2, <2>6 DEF Mute, Talk
    <3>3. h.to \in closed[e]
      BY <1>2, <2>3, <2>6, <3>1, <3>2 DEF TrafficInv, ChannelInv, GoneQuiet
    <3>. QED
      BY <1>3, <2>6, <3>3
  <2>. QED
    BY <1>5, <2>1, <2>4, <2>5, <2>6 DEF Blamed
<1>6. ASSUME NEW x \in Ends, err'[x].cause # "none"
      PROVE  \/ err'[x].cause \in {"DATA bad ch", "CONFIRM unknown"} /\ err'[x].id \in closed'[x]
             \/ err'[x].cause = "unknown mux pdu" /\ x = Client /\ Told(Client)'
  <2>1. CASE err'[x] = err[x]
    BY <1>4, <1>6, <2>1
  <2>2. CASE err'[x] # err[x]
    <3>1. x = e
      BY <1>2, <1>3, <2>2
    <3>2. link[q] # <<>> /\ state[e] \in {"READY", "DRAINING"} /\ Blamed(e, err'[e])
      BY <1>1, <2>2, <3>1 DEF Step, ErrorStep
    <3>. QED
      BY <1>5, <3>1, <3>2
  <2>. QED
    BY <2>1, <2>2
<1>. QED
  BY <1>6 DEF ErrorHasLocalCause, Told, Peer

----------------------------------------------------------------------------
(* Byte streams *)

LEMMA PduNumbers ==
  ASSUME TrafficInv, FlowInv', NEW x \in Ends
  PROVE  /\ \A m \in Wire(x) \cup Wire(x)' : m.pos \in Nat /\ m.len \in Nat
         /\ \A id \in Ids : /\ tally[x][id].sent \in Nat /\ tally[x][id].rcvd \in Nat
                            /\ tally'[x][id].sent \in Nat /\ tally'[x][id].rcvd \in Nat
                            /\ tally[x][id].granted \in Nat
<1>1. \A m \in Wire(x) : m.pos \in Nat /\ m.len \in Nat
  BY FlightFacts DEF PduSet, PduFields
<1>2. \A m \in Wire(x)' : m.pos \in Nat /\ m.len \in Nat
  BY WireType DEF PduSet, PduFields
<1>3. \A id \in Ids : /\ tally[x][id].sent \in Nat /\ tally[x][id].rcvd \in Nat
                      /\ tally[x][id].granted \in Nat
  BY FlowTypesOK DEF TrafficInv, TypePast, TallySet
<1>4. \A id \in Ids : tally'[x][id].sent \in Nat /\ tally'[x][id].rcvd \in Nat
  BY DEF FlowInv, TableInv, TypeOK, TypePast, TallySet
<1>. QED
  BY <1>1, <1>2, <1>3, <1>4

\* DATA that is taken starts where the receiver is, and the receiver moves to its end.
LEMMA HeadData ==
  ASSUME TrafficInv, FlowInv', NEW e \in Ends, NEW O, Step(e, O), NEW q, q = Peer(e),
         NEW o \in O, o.type = "DATA"
  PROVE  /\ o \in Wire(q) /\ o.from \in Ids /\ o.to \in Ids /\ Paired(q, o.from, o.to)
         /\ o.pos \in Nat /\ o.len \in Nat
         /\ o.pos = tally[e][o.to].rcvd
         /\ tally'[e][o.to].rcvd = o.pos + o.len
         /\ o.pos + o.len <= tally[q][o.from].sent
<1>1. q \in Ends /\ Peer(q) = e /\ o \in Wire(q) /\ \A p \in O : p = o
  BY SlotFacts, StepWire
<1>2. o.from \in Ids /\ o.to \in Ids /\ Paired(q, o.from, o.to) /\ PduBalanced(q, o)
  BY <1>1, FlightFacts, FlightPaired DEF Talk, FromChannel, ToChannel
<1>3. o.pos \in Nat /\ o.len \in Nat
  BY <1>1, PduNumbers
<1>4. PICK d \in {0, 1} : /\ d = 0 => O = {}
                          /\ d = 1 => O = {link[q][1]} /\ 1 \in DOMAIN link[q]
  BY PeerOrder
<1>5. o = link[q][1] /\ 1 \in DOMAIN link[q]
  BY <1>4
<1>6. o.pos = tally[e][o.to].rcvd
  <2>1. \/ o.pos = tally[e][o.to].rcvd
        \/ \E j \in 1 .. (1 - 1) : link[q][j].type = "DATA"
    BY <1>1, <1>5 DEF TrafficInv, StreamInv, NoGap
  <2>. QED
    BY <2>1
<1>7. tally'[e][o.to].rcvd = tally[e][o.to].rcvd + o.len
  BY <1>1, <1>2 DEF Step, TallyStep, ByteStep
<1>8. o.pos + o.len <= tally[q][o.from].sent
  BY <1>2 DEF PduBalanced
<1>. QED
  BY <1>1, <1>2, <1>3, <1>6, <1>7, <1>8

\* The receiver's count only moves with DATA.
LEMMA RcvdKept ==
  ASSUME NEW e, NEW O, Step(e, O), NEW id \in Ids, \A o \in O : o.type = "DATA" => o.to # id
  PROVE  tally'[e][id].rcvd = tally[e][id].rcvd
BY DEF Step, TallyStep, ByteStep

LEMMA NoGapOwn ==
  ASSUME TrafficInv, FlowInv', NEW e \in Ends, NEW O, Step(e, O), NEW q, q = Peer(e),
         NEW i \in DOMAIN link'[e], NEW m, m = link'[e][i], m.type = "DATA"
  PROVE  \/ m.pos = tally[q][m.to].rcvd
         \/ \E j \in 1 .. (i - 1) : /\ link'[e][j].type = "DATA"
                                    /\ link'[e][j].from = m.from
                                    /\ link'[e][j].pos + link'[e][j].len = m.pos
<1>1. \A j \in 1 .. (i - 1) : j \in DOMAIN link[e] /\ link'[e][j] = link[e][j]
  BY OwnOrder
<1>2. CASE i \in DOMAIN link[e] /\ m = link[e][i]
  <2>1. \/ m.pos = tally[q][m.to].rcvd
        \/ \E j \in 1 .. (i - 1) : /\ link[e][j].type = "DATA"
                                   /\ link[e][j].from = m.from
                                   /\ link[e][j].pos + link[e][j].len = m.pos
    BY <1>2 DEF TrafficInv, StreamInv, NoGap
  <2>. QED
    BY <1>1, <2>1
<1>3. CASE Sendable(e, O, m) /\ \A j \in DOMAIN link[e] : j \in 1 .. (i - 1)
  <2>1. m \in Wire(e)'
    BY DEF Wire
  <2>2. m.from \in Ids /\ m.to \in Ids /\ Paired(e, m.from, m.to)
    BY <1>3, <2>1, SendableFacts DEF Talk, FromChannel, ToChannel
  <2>3. m.pos = tally[e][m.from].sent
    BY <1>3 DEF Sendable
  <2>4. \/ tally[e][m.from].sent = tally[q][m.to].rcvd
        \/ \E n \in Wire(e) : /\ n.type = "DATA" /\ n.from = m.from
                              /\ n.pos + n.len = tally[e][m.from].sent
    BY <2>2 DEF TrafficInv, StreamInv, NoneMissing
  <2>5. CASE tally[e][m.from].sent = tally[q][m.to].rcvd
    BY <2>3, <2>5
  <2>6. CASE \E n \in Wire(e) : /\ n.type = "DATA" /\ n.from = m.from
                                /\ n.pos + n.len = tally[e][m.from].sent
    <3>1. PICK n \in Wire(e) : /\ n.type = "DATA" /\ n.from = m.from
                               /\ n.pos + n.len = tally[e][m.from].sent
      BY <2>6
    <3>2. PICK j \in DOMAIN link[e] : n = link[e][j]
      BY DEF Wire
    <3>3. j \in 1 .. (i - 1) /\ link'[e][j] = n
      BY <1>1, <1>3, <3>2
    <3>. QED
      BY <2>3, <3>1, <3>3
  <2>. QED
    BY <2>4, <2>5, <2>6
<1>. QED
  BY <1>2, <1>3, OwnOrder

LEMMA NoGapPeer ==
  ASSUME TrafficInv, FlowInv', NEW e \in Ends, NEW O, Step(e, O), NEW q, q = Peer(e),
         NEW i \in DOMAIN link'[q], NEW m, m = link'[q][i], m.type = "DATA"
  PROVE  \/ m.pos = tally'[e][m.to].rcvd
         \/ \E j \in 1 .. (i - 1) : /\ link'[q][j].type = "DATA"
                                    /\ link'[q][j].from = m.from
                                    /\ link'[q][j].pos + link'[q][j].len = m.pos
<1>1. PICK d \in {0, 1} :
        /\ \A k \in DOMAIN link'[q] :
             k \in Nat /\ 1 <= k /\ k + d \in DOMAIN link[q] /\ link'[q][k] = link[q][k + d]
        /\ \A k \in DOMAIN link[q] :
             k \in Nat /\ 1 <= k /\ (k - d \in DOMAIN link'[q] \/ (k = 1 /\ d = 1))
        /\ d = 1 => O = {link[q][1]}
  BY PeerOrder
<1>2. /\ q \in Ends /\ Peer(q) = e
      /\ i \in Nat /\ i + d \in DOMAIN link[q] /\ m = link[q][i + d]
      /\ m \in Wire(q) /\ m \in Wire(q)'
  BY <1>1, SlotFacts DEF Wire
<1>3. /\ m.from \in Ids /\ m.to \in Ids /\ Paired(q, m.from, m.to)
      /\ m.pos \in Nat /\ m.len \in Nat
  BY <1>2, FlightFacts, FlightPaired, PduNumbers DEF Talk, FromChannel, ToChannel
<1>4. \A n \in Wire(q) : n.type = "DATA" => (n.from = m.from <=> n.to = m.to)
  <2>. SUFFICES ASSUME NEW n \in Wire(q), n.type = "DATA" PROVE n.from = m.from <=> n.to = m.to
    OBVIOUS
  <2>1. n.from \in Ids /\ n.to \in Ids /\ Paired(q, n.from, n.to)
    BY <1>2, FlightFacts, FlightPaired DEF Talk, FromChannel, ToChannel
  <2>. QED
    BY <1>2, <1>3, <2>1, OnePartner
<1>5. \/ m.pos = tally[e][m.to].rcvd
      \/ \E j \in 1 .. (i + d - 1) : /\ link[q][j].type = "DATA"
                                     /\ link[q][j].from = m.from
                                     /\ link[q][j].pos + link[q][j].len = m.pos
  BY <1>2 DEF TrafficInv, StreamInv, NoGap
<1>6. CASE m.pos = tally[e][m.to].rcvd
  <2>1. CASE \A o \in O : o.type = "DATA" => o.to # m.to
    BY <1>3, <1>6, <2>1, RcvdKept
  <2>2. ASSUME NEW o \in O, o.type = "DATA", o.to = m.to
        PROVE  m.pos = tally'[e][m.to].rcvd
    <3>1. /\ o \in Wire(q) /\ o.pos \in Nat /\ o.len \in Nat
          /\ o.pos = tally[e][m.to].rcvd /\ tally'[e][m.to].rcvd = o.pos + o.len
      BY <2>2, HeadData
    <3>2. o.from = m.from
      BY <1>4, <2>2, <3>1
    <3>3. InOrder(o, m)
      BY <1>2, <2>2, StepWire
    <3>4. o.pos + o.len <= m.pos
      BY <2>2, <3>2, <3>3 DEF InOrder
    <3>. QED
      BY <1>3, <1>6, <3>1, <3>4
  <2>. QED
    BY <2>1, <2>2
<1>7. CASE \E j \in 1 .. (i + d - 1) : /\ link[q][j].type = "DATA"
                                       /\ link[q][j].from = m.from
                                       /\ link[q][j].pos + link[q][j].len = m.pos
  <2>1. PICK j \in 1 .. (i + d - 1) : /\ link[q][j].type = "DATA"
                                      /\ link[q][j].from = m.from
                                      /\ link[q][j].pos + link[q][j].len = m.pos
    BY <1>7
  <2>2. j \in DOMAIN link[q] /\ link[q][j] \in Wire(q)
    <3>1. link[q] \in Seq(PduSet)
      BY <1>2, FlowTypesOK DEF TrafficInv, TypeIO
    <3>2. Len(link[q]) \in Nat /\ DOMAIN link[q] = 1 .. Len(link[q])
      BY <3>1, LenProperties
    <3>3. j \in DOMAIN link[q]
      BY <1>2, <2>1, <3>2
    <3>. QED
      BY <3>3 DEF Wire
  <2>3. CASE j = 1 /\ d = 1
    <3>1. PICK o \in O : o = link[q][j]
      BY <1>1, <2>3
    <3>2. o.type = "DATA" /\ o.pos + o.len = m.pos /\ o.to = m.to
      BY <1>4, <2>1, <2>2, <3>1
    <3>3. tally'[e][m.to].rcvd = o.pos + o.len
      BY <3>2, HeadData
    <3>. QED
      BY <3>2, <3>3
  <2>4. CASE ~(j = 1 /\ d = 1)
    <3>1. PICK k : k = j - d
      OBVIOUS
    <3>2. /\ k \in DOMAIN link'[q] /\ k + d = j /\ k \in 1 .. (i - 1)
      BY <1>1, <1>2, <2>1, <2>2, <2>4, <3>1
    <3>3. link'[q][k] = link[q][j]
      BY <1>1, <3>2
    <3>. QED
      BY <2>1, <3>2, <3>3
  <2>. QED
    BY <2>3, <2>4
<1>. QED
  BY <1>5, <1>6, <1>7

LEMMA NoGapStep ==
  ASSUME TrafficInv, FlowInv', NEW e \in Ends, NEW O, Step(e, O)
  PROVE  NoGap'
<1>1. PICK q : q = Peer(e)
  OBVIOUS
<1>2. q \in Ends /\ Peer(q) = e /\ \A x \in Ends : x = e \/ x = q
  BY <1>1, SlotFacts
<1>3. tally'[q] = tally[q]
  BY <1>1 DEF Step, PeerIdle
<1>4. ASSUME NEW i \in DOMAIN link'[e], link'[e][i].type = "DATA"
      PROVE  \/ link'[e][i].pos = tally'[q][link'[e][i].to].rcvd
             \/ \E j \in 1 .. (i - 1) : /\ link'[e][j].type = "DATA"
                                        /\ link'[e][j].from = link'[e][i].from
                                        /\ link'[e][j].pos + link'[e][j].len = link'[e][i].pos
  BY <1>1, <1>3, <1>4, NoGapOwn
<1>5. ASSUME NEW i \in DOMAIN link'[q], link'[q][i].type = "DATA"
      PROVE  \/ link'[q][i].pos = tally'[e][link'[q][i].to].rcvd
             \/ \E j \in 1 .. (i - 1) : /\ link'[q][j].type = "DATA"
                                        /\ link'[q][j].from = link'[q][i].from
                                        /\ link'[q][j].pos + link'[q][j].len = link'[q][i].pos
  BY <1>1, <1>5, NoGapPeer
<1>. QED
  BY <1>1, <1>2, <1>4, <1>5 DEF NoGap

\* A new pair has carried nothing.
LEMMA NewPairEmpty ==
  ASSUME TrafficInv, FlowInv', NEW e \in Ends, NEW O, Step(e, O), NEW q, q = Peer(e),
         NEW a \in Ids, NEW b \in Ids, Paired(e, a, b)', ~Paired(e, a, b)
  PROVE  /\ tally'[e][a].sent = 0 /\ tally'[e][a].rcvd = 0
         /\ tally[q][b].sent = 0 /\ tally[q][b].rcvd = 0
         /\ tally'[e][a].granted = 0 /\ tally'[e][a].credited = 0
         /\ tally[q][b].granted = 0 /\ tally[q][b].credited = 0
<1>1. ch'[e][a].st = "PENDING" /\ \E o \in O : o.type = "OPEN" /\ o.from = b
  BY PairsNew
<1>2. PICK o \in O : o.type = "OPEN" /\ o.from = b
  BY <1>1
<1>3. PduBalanced(q, o)
  BY SlotFacts, StepWire, FlightFacts
<1>4. tally[q][b] = [sent |-> 0, rcvd |-> 0, granted |-> 0, credited |-> 0]
  BY <1>2, <1>3 DEF PduBalanced, Untouched
<1>5. Counted(e, a, ch[e][a], tally[e][a])'
  BY DEF FlowInv, WindowsCount
<1>6. tally'[e][a] = [sent |-> 0, rcvd |-> 0, granted |-> 0, credited |-> 0]
  BY <1>1, <1>5 DEF Counted, Untouched
<1>. QED
  BY <1>4, <1>6

LEMMA NoneMissingOwn ==
  ASSUME TrafficInv, FlowInv', NEW e \in Ends, NEW O, Step(e, O), NEW q, q = Peer(e),
         NEW a \in Ids, NEW b \in Ids, Paired(e, a, b)'
  PROVE  \/ tally'[e][a].sent = tally[q][b].rcvd
         \/ \E m \in Wire(e)' : /\ m.type = "DATA" /\ m.from = a
                                /\ m.pos + m.len = tally'[e][a].sent
<1>1. CASE ~Paired(e, a, b)
  <2>1. tally'[e][a].sent = 0 /\ tally[q][b].rcvd = 0
    BY <1>1, NewPairEmpty
  <2>. QED
    BY <2>1
<1>2. CASE Paired(e, a, b)
  <2>1. \/ tally[e][a].sent = tally[q][b].rcvd
        \/ \E m \in Wire(e) : /\ m.type = "DATA" /\ m.from = a
                              /\ m.pos + m.len = tally[e][a].sent
    BY <1>2 DEF TrafficInv, StreamInv, NoneMissing
  <2>2. CASE tally'[e][a].sent = tally[e][a].sent
    BY <2>1, <2>2, StepWire
  <2>3. CASE \E m \in PduSet : /\ Puts(e, m) /\ m.type = "DATA" /\ m.from = a
                               /\ m.pos + m.len = tally'[e][a].sent
    <3>1. PICK m \in PduSet : /\ Puts(e, m) /\ m.type = "DATA" /\ m.from = a
                              /\ m.pos + m.len = tally'[e][a].sent
      BY <2>3
    <3>2. m \in Wire(e)'
      BY <3>1, PutsWire, FlowTypesOK DEF TrafficInv
    <3>. QED
      BY <3>1, <3>2
  <2>. QED
    BY <2>2, <2>3 DEF Step, TallyStep, ByteStep
<1>. QED
  BY <1>1, <1>2

LEMMA NoneMissingPeer ==
  ASSUME TrafficInv, FlowInv', NEW e \in Ends, NEW O, Step(e, O), NEW q, q = Peer(e),
         NEW a \in Ids, NEW b \in Ids, Paired(q, a, b)'
  PROVE  \/ tally[q][a].sent = tally'[e][b].rcvd
         \/ \E m \in Wire(q)' : /\ m.type = "DATA" /\ m.from = a
                                /\ m.pos + m.len = tally[q][a].sent
<1>1. q \in Ends /\ Peer(q) = e
  BY SlotFacts
<1>2. CASE ~Paired(q, a, b)
  <2>1. Paired(e, b, a)' /\ ~Paired(e, b, a)
    BY <1>1, <1>2 DEF Paired
  <2>2. tally'[e][b].rcvd = 0 /\ tally[q][a].sent = 0
    BY <2>1, NewPairEmpty
  <2>. QED
    BY <2>2
<1>3. CASE Paired(q, a, b)
  <2>1. \A n \in Wire(q) : n.type = "DATA" => (n.from = a <=> n.to = b)
    <3>. SUFFICES ASSUME NEW n \in Wire(q), n.type = "DATA" PROVE n.from = a <=> n.to = b
      OBVIOUS
    <3>1. n.from \in Ids /\ n.to \in Ids /\ Paired(q, n.from, n.to)
      BY <1>1, FlightFacts, FlightPaired DEF Talk, FromChannel, ToChannel
    <3>. QED
      BY <1>1, <1>3, <3>1, OnePartner
  <2>2. \/ tally[q][a].sent = tally[e][b].rcvd
        \/ \E m \in Wire(q) : /\ m.type = "DATA" /\ m.from = a
                              /\ m.pos + m.len = tally[q][a].sent
    BY <1>1, <1>3 DEF TrafficInv, StreamInv, NoneMissing
  <2>3. CASE tally[q][a].sent = tally[e][b].rcvd
    <3>1. CASE \A o \in O : o.type = "DATA" => o.to # b
      BY <2>3, <3>1, RcvdKept
    <3>2. ASSUME NEW o \in O, o.type = "DATA", o.to = b
          PROVE  tally[q][a].sent = tally'[e][b].rcvd
      <4>1. /\ o \in Wire(q) /\ o.pos \in Nat /\ o.len \in Nat
            /\ o.pos = tally[e][b].rcvd /\ tally'[e][b].rcvd = o.pos + o.len
            /\ o.pos + o.len <= tally[q][o.from].sent
        BY <3>2, HeadData
      <4>2. o.from = a
        BY <2>1, <3>2, <4>1
      <4>3. tally[q][a].sent \in Nat
        BY <1>1, PduNumbers
      <4>. QED
        BY <2>3, <4>1, <4>2, <4>3
    <3>. QED
      BY <3>1, <3>2
  <2>4. CASE \E m \in Wire(q) : /\ m.type = "DATA" /\ m.from = a
                                /\ m.pos + m.len = tally[q][a].sent
    <3>1. PICK m \in Wire(q) : /\ m.type = "DATA" /\ m.from = a
                               /\ m.pos + m.len = tally[q][a].sent
      BY <2>4
    <3>2. CASE m \in O
      <4>1. m.to = b
        BY <2>1, <3>1
      <4>2. tally'[e][b].rcvd = m.pos + m.len
        BY <3>1, <3>2, <4>1, HeadData
      <4>. QED
        BY <3>1, <4>2
    <3>. QED
      BY <3>1, <3>2, StepWire
  <2>. QED
    BY <2>2, <2>3, <2>4
<1>. QED
  BY <1>2, <1>3

LEMMA NoneMissingStep ==
  ASSUME TrafficInv, FlowInv', NEW e \in Ends, NEW O, Step(e, O)
  PROVE  NoneMissing'
<1>1. PICK q : q = Peer(e)
  OBVIOUS
<1>2. q \in Ends /\ Peer(q) = e /\ \A x \in Ends : x = e \/ x = q
  BY <1>1, SlotFacts
<1>3. tally'[q] = tally[q]
  BY <1>1 DEF Step, PeerIdle
<1>4. ASSUME NEW a \in Ids, NEW b \in Ids, Paired(e, a, b)'
      PROVE  \/ tally'[e][a].sent = tally'[q][b].rcvd
             \/ \E m \in Wire(e)' : /\ m.type = "DATA" /\ m.from = a
                                    /\ m.pos + m.len = tally'[e][a].sent
  BY <1>1, <1>3, <1>4, NoneMissingOwn
<1>5. ASSUME NEW a \in Ids, NEW b \in Ids, Paired(q, a, b)'
      PROVE  \/ tally'[q][a].sent = tally'[e][b].rcvd
             \/ \E m \in Wire(q)' : /\ m.type = "DATA" /\ m.from = a
                                    /\ m.pos + m.len = tally'[q][a].sent
  BY <1>1, <1>3, <1>5, NoneMissingPeer
<1>. QED
  BY <1>1, <1>2, <1>4, <1>5 DEF NoneMissing

----------------------------------------------------------------------------
(* Events *)

\* An EOF event e's host will see.
EofSound(e, ev) == ev.type = "CHANNEL_EOF" =>
  ev.id \in Ids /\ ev.id < nextId[e] /\ (ch[e][ev.id].reof \/ ch[e][ev.id].st = "UNUSED")

LEMMA EofEventsStep ==
  ASSUME TrafficInv, FlowInv', NEW e \in Ends, NEW O, Step(e, O)
  PROVE  EofEvents'
<1>1. PICK q : q = Peer(e)
  OBVIOUS
<1>2. q \in Ends /\ \A x \in Ends : x = e \/ x = q
  BY <1>1, SlotFacts
<1>3. ch'[q] = ch[q] /\ nextId'[q] = nextId[q] /\ evq'[q] = evq[q]
  BY <1>1 DEF Step, PeerIdle
<1>4. ASSUME NEW ev \in Members(evq[e]) PROVE EofSound(e, ev)'
  <2>. SUFFICES ASSUME ev.type = "CHANNEL_EOF"
                PROVE  /\ ev.id \in Ids /\ ev.id < nextId'[e]
                       /\ ch'[e][ev.id].reof \/ ch'[e][ev.id].st = "UNUSED"
    BY DEF EofSound
  <2>1. /\ ev.id \in Ids /\ ev.id < nextId[e]
        /\ ch[e][ev.id].reof \/ ch[e][ev.id].st = "UNUSED"
    BY <1>4 DEF TrafficInv, StreamInv, EofEvents, Members
  <2>2. ev.id < nextId'[e]
    <3>1. nextId[e] \in Nat /\ nextId[e] <= nextId'[e] /\ ev.id \in Nat
      BY <2>1, SlotFacts DEF Step, SlotStep
    <3>2. nextId'[e] \in Nat
      BY DEF FlowInv, TableInv, TypeOK, TypeTable
    <3>. QED
      BY <2>1, <3>1, <3>2
  <2>3. ch[e][ev.id].st = "UNUSED" => ch'[e][ev.id].st = "UNUSED"
    BY <2>1, SlotGoes
  <2>4. ch[e][ev.id].reof => ch'[e][ev.id].reof \/ ch'[e][ev.id].st = "UNUSED"
    BY <2>1, OldSlot DEF Kept, Accepted, Confirmed, Freed
  <2>. QED
    BY <2>1, <2>2, <2>3, <2>4
<1>5. ASSUME NEW ev, NewEvent(e, O, ev) PROVE EofSound(e, ev)'
  <2>. SUFFICES ASSUME ev.type = "CHANNEL_EOF"
                PROVE  ev.id \in Ids /\ ev.id < nextId'[e] /\ ch'[e][ev.id].reof
    BY DEF EofSound
  <2>1. ev.id \in Ids /\ ch[e][ev.id].st # "UNUSED" /\ ch'[e][ev.id].reof
    BY <1>5 DEF NewEvent
  <2>2. /\ nextId[e] \in Nat /\ nextId[e] <= nextId'[e] /\ ev.id \in Nat /\ ev.id < nextId[e]
    BY <2>1, SlotFacts DEF Step, SlotStep
  <2>3. nextId'[e] \in Nat
    BY DEF FlowInv, TableInv, TypeOK, TypeTable
  <2>. QED
    BY <2>1, <2>2, <2>3
<1>6. evq[e] \in Seq(EventSet)
  BY FlowTypesOK DEF TrafficInv, TypeHost
<1>7. \A ev \in Members(evq'[e]) : ev \in Members(evq[e]) \/ NewEvent(e, O, ev)
  <2>1. CASE evq'[e] = evq[e]
    BY <2>1
  <2>2. CASE evq[e] # <<>> /\ evq'[e] = Tail(evq[e])
    BY <1>6, <2>2, TailMembers
  <2>3. CASE \E ev \in EventSet : evq'[e] = Append(evq[e], ev) /\ NewEvent(e, O, ev)
    BY <1>6, <2>3, AppendMembers
  <2>. QED
    BY <2>1, <2>2, <2>3 DEF Step, EventStep
<1>8. \A ev \in Members(evq'[e]) : EofSound(e, ev)'
  BY <1>4, <1>5, <1>7
<1>9. \A ev \in Members(evq'[q]) : EofSound(q, ev)'
  BY <1>2, <1>3 DEF TrafficInv, StreamInv, EofEvents, Members, EofSound
<1>. QED
  BY <1>2, <1>8, <1>9 DEF EofEvents, Members, EofSound

\* The events of one channel, spelled out: event i of the ring e is of DATA that the
\* next one continues, or that ends where the receiver is, and before any EOF.
DataEvent(e, id, i) == evq[e][i].id = id /\ evq[e][i].type = "CHANNEL_DATA"
EofEvent(e, id, i)  == evq[e][i].id = id /\ evq[e][i].type = "CHANNEL_EOF"
Continued(e, id, i) ==
  \/ \E j \in DOMAIN evq[e] : /\ j > i /\ DataEvent(e, id, j)
                              /\ evq[e][j].pos = evq[e][i].pos + evq[e][i].len
  \/ evq[e][i].pos + evq[e][i].len = tally[e][id].rcvd
BeforeEof(e, id, i) == \A j \in DOMAIN evq[e] : EofEvent(e, id, j) => j > i

ChannelEvents(e, id) ==
  <<"CHANNEL_DATA", id>> \notin evLost[e] =>
    \A i \in DOMAIN evq[e] : DataEvent(e, id, i) => Continued(e, id, i) /\ BeforeEof(e, id, i)

LEMMA EventStreamIs == EventStream <=> \A e \in Ends : \A id \in Ids : ChannelEvents(e, id)
BY DEF EventStream, ChannelEvents, DataEvent, EofEvent, Continued, BeforeEof

LEMMA EventStreamIsNext ==
  EventStream' <=> \A e \in Ends : \A id \in Ids : ChannelEvents(e, id)'
BY DEF EventStream, ChannelEvents, DataEvent, EofEvent, Continued, BeforeEof

\* No event, or none of DATA on this channel.
LEMMA EventsSame ==
  ASSUME TrafficInv, FlowInv', NEW e \in Ends, NEW O, Step(e, O), NEW id \in Ids,
         evq'[e] = evq[e], \A o \in O : o.type = "DATA" => o.to # id
  PROVE  ChannelEvents(e, id)'
<1>1. tally'[e][id].rcvd = tally[e][id].rcvd /\ evLost[e] \subseteq evLost'[e]
  BY RcvdKept DEF Step, EventStep
<1>2. ChannelEvents(e, id)
  BY EventStreamIs DEF TrafficInv
<1>. QED
  BY <1>1, <1>2 DEF ChannelEvents, DataEvent, EofEvent, Continued, BeforeEof

\* The host takes the oldest event.
LEMMA EventsTaken ==
  ASSUME TrafficInv, FlowInv', NEW e \in Ends, NEW O, Step(e, O), NEW id \in Ids,
         evq[e] # <<>>, evq'[e] = Tail(evq[e]), \A o \in O : o.type # "DATA"
  PROVE  ChannelEvents(e, id)'
<1>1. tally'[e][id].rcvd = tally[e][id].rcvd /\ evLost[e] \subseteq evLost'[e]
  BY RcvdKept DEF Step, EventStep
<1>2. ChannelEvents(e, id)
  BY EventStreamIs DEF TrafficInv
<1>3. evq[e] \in Seq(EventSet)
  BY FlowTypesOK DEF TrafficInv, TypeHost
<1>4. /\ Len(evq[e]) \in Nat /\ DOMAIN evq[e] = 1 .. Len(evq[e])
      /\ DOMAIN evq'[e] = 1 .. (Len(evq[e]) - 1)
      /\ \A i \in 1 .. (Len(evq[e]) - 1) : evq'[e][i] = evq[e][i + 1]
  BY <1>3, TailFacts
<1>5. \A i \in DOMAIN evq'[e] : i \in Nat /\ i + 1 \in DOMAIN evq[e] /\ evq'[e][i] = evq[e][i + 1]
  BY <1>4
<1>. SUFFICES ASSUME <<"CHANNEL_DATA", id>> \notin evLost'[e], NEW i \in DOMAIN evq'[e],
                     DataEvent(e, id, i)'
              PROVE  Continued(e, id, i)' /\ BeforeEof(e, id, i)'
  BY DEF ChannelEvents
<1>6. PICK k : k = i + 1
  OBVIOUS
<1>7. i \in Nat /\ k \in DOMAIN evq[e] /\ evq'[e][i] = evq[e][k]
  BY <1>5, <1>6
<1>8. Continued(e, id, k) /\ BeforeEof(e, id, k)
  BY <1>1, <1>2, <1>7 DEF ChannelEvents, DataEvent
<1>9. BeforeEof(e, id, i)'
  <2>. SUFFICES ASSUME NEW j \in DOMAIN evq'[e], EofEvent(e, id, j)' PROVE j > i
    BY DEF BeforeEof
  <2>1. j \in Nat /\ j + 1 \in DOMAIN evq[e] /\ evq'[e][j] = evq[e][j + 1]
    BY <1>5
  <2>2. j + 1 > k
    BY <1>8, <2>1 DEF BeforeEof, EofEvent
  <2>. QED
    BY <1>6, <1>7, <2>1, <2>2
<1>10. Continued(e, id, i)'
  <2>1. CASE evq[e][k].pos + evq[e][k].len = tally[e][id].rcvd
    BY <1>1, <1>7, <2>1 DEF Continued
  <2>2. CASE \E j \in DOMAIN evq[e] : /\ j > k /\ DataEvent(e, id, j)
                                      /\ evq[e][j].pos = evq[e][k].pos + evq[e][k].len
    <3>1. PICK j \in DOMAIN evq[e] : /\ j > k /\ DataEvent(e, id, j)
                                     /\ evq[e][j].pos = evq[e][k].pos + evq[e][k].len
      BY <2>2
    <3>2. PICK l : l = j - 1
      OBVIOUS
    <3>3. l \in DOMAIN evq'[e] /\ l > i /\ l + 1 = j
      BY <1>4, <1>6, <1>7, <3>1, <3>2
    <3>4. evq'[e][l] = evq[e][j]
      BY <1>5, <3>3
    <3>. QED
      BY <1>7, <3>1, <3>3, <3>4 DEF Continued, DataEvent
  <2>. QED
    BY <1>8, <2>1, <2>2 DEF Continued
<1>. QED
  BY <1>9, <1>10

\* A handler puts an event into the ring.
LEMMA EventsPut ==
  ASSUME TrafficInv, FlowInv', NEW e \in Ends, NEW O, Step(e, O), NEW id \in Ids,
         NEW ev \in EventSet, evq'[e] = Append(evq[e], ev), NewEvent(e, O, ev),
         \A o \in O : o.type = "DATA" => ev.type = "CHANNEL_DATA"
  PROVE  ChannelEvents(e, id)'
<1>1. PICK q : q = Peer(e)
  OBVIOUS
<1>2. /\ q \in Ends /\ Peer(q) = e /\ evLost[e] \subseteq evLost'[e]
      /\ \A o, p \in O : o = p
  BY <1>1, SlotFacts, StepWire DEF Step, EventStep
<1>3. ChannelEvents(e, id)
  BY EventStreamIs DEF TrafficInv
<1>4. evq[e] \in Seq(EventSet)
  BY FlowTypesOK DEF TrafficInv, TypeHost
<1>5. PICK n : n = Len(evq[e])
  OBVIOUS
<1>6. /\ n \in Nat /\ DOMAIN evq[e] = 1 .. n /\ DOMAIN evq'[e] = 1 .. (n + 1)
      /\ \A i \in 1 .. n : evq'[e][i] = evq[e][i]
      /\ evq'[e][n + 1] = ev
  BY <1>4, <1>5, AppendProperties, LenProperties
<1>7. /\ \A i \in DOMAIN evq[e] : /\ i \in Nat /\ n + 1 > i /\ i \in DOMAIN evq'[e]
                                  /\ evq'[e][i] = evq[e][i]
      /\ \A i \in DOMAIN evq'[e] : i \in DOMAIN evq[e] \/ i = n + 1
      /\ n + 1 \in DOMAIN evq'[e]
  BY <1>6
<1>. SUFFICES ASSUME <<"CHANNEL_DATA", id>> \notin evLost'[e], NEW i \in DOMAIN evq'[e],
                     DataEvent(e, id, i)'
              PROVE  Continued(e, id, i)' /\ BeforeEof(e, id, i)'
  BY DEF ChannelEvents
<1>8. CASE i \in DOMAIN evq[e]
  <2>1. i \in Nat /\ n + 1 > i /\ evq'[e][i] = evq[e][i]
    BY <1>7, <1>8
  <2>2. Continued(e, id, i) /\ BeforeEof(e, id, i)
    BY <1>2, <1>3, <1>8, <2>1 DEF ChannelEvents, DataEvent
  <2>3. BeforeEof(e, id, i)'
    BY <1>7, <2>1, <2>2 DEF BeforeEof, EofEvent
  <2>4. CASE \E j \in DOMAIN evq[e] : /\ j > i /\ DataEvent(e, id, j)
                                      /\ evq[e][j].pos = evq[e][i].pos + evq[e][i].len
    BY <1>7, <2>1, <2>3, <2>4 DEF Continued, DataEvent
  <2>5. CASE evq[e][i].pos + evq[e][i].len = tally[e][id].rcvd
    <3>1. CASE \A o \in O : o.type = "DATA" => o.to # id
      BY <2>1, <2>3, <2>5, <3>1, RcvdKept DEF Continued
    <3>2. ASSUME NEW o \in O, o.type = "DATA", o.to = id PROVE Continued(e, id, i)'
      <4>1. o.pos = tally[e][id].rcvd
        BY <1>1, <3>2, HeadData
      <4>2. ev.type = "CHANNEL_DATA" /\ ev.id = id /\ ev.pos = o.pos
        BY <1>2, <3>2 DEF NewEvent
      <4>3. n + 1 > i /\ DataEvent(e, id, n + 1)' /\ evq'[e][n + 1].pos = o.pos
        BY <1>6, <2>1, <4>2 DEF DataEvent
      <4>. QED
        BY <1>7, <2>1, <2>5, <4>1, <4>3 DEF Continued
    <3>. QED
      BY <2>3, <3>1, <3>2
  <2>. QED
    BY <2>2, <2>3, <2>4, <2>5 DEF Continued
<1>9. CASE i = n + 1
  <2>1. evq'[e][i] = ev /\ ev.id = id /\ ev.type = "CHANNEL_DATA"
    BY <1>6, <1>9 DEF DataEvent
  <2>2. PICK o \in O : /\ o.type = "DATA" /\ o.to = id /\ ev.pos = o.pos /\ ev.len = o.len
    BY <2>1 DEF NewEvent
  <2>3. tally'[e][id].rcvd = o.pos + o.len /\ o \in Wire(q)
    BY <1>1, <2>2, HeadData
  <2>4. Continued(e, id, i)'
    BY <2>1, <2>2, <2>3 DEF Continued
  <2>5. ASSUME NEW j \in DOMAIN evq[e] PROVE ~EofEvent(e, id, j)
    <3>. SUFFICES ASSUME EofEvent(e, id, j) PROVE FALSE
      OBVIOUS
    <3>1. ch[e][id].reof \/ ch[e][id].st = "UNUSED"
      BY <2>5 DEF TrafficInv, StreamInv, EofEvents, EofEvent
    <3>2. ch[e][id].st = "OPEN"
      BY <2>2 DEF Step, TakenStep
    <3>3. HasTo(q, "DATA", id)
      BY <2>2, <2>3, HasIs
    <3>. QED
      BY <1>1, <3>1, <3>2, <3>3 DEF TrafficInv, EofIsFinal
  <2>6. BeforeEof(e, id, i)'
    <3>. SUFFICES ASSUME NEW j \in DOMAIN evq'[e], EofEvent(e, id, j)' PROVE FALSE
      BY DEF BeforeEof
    <3>1. CASE j \in DOMAIN evq[e]
      BY <1>7, <2>5, <3>1 DEF EofEvent
    <3>2. CASE j = n + 1
      BY <1>9, <2>1, <3>2 DEF EofEvent
    <3>. QED
      BY <1>7, <3>1, <3>2
  <2>. QED
    BY <2>4, <2>6
<1>. QED
  BY <1>7, <1>8, <1>9

LEMMA EventStreamStep ==
  ASSUME TrafficInv, FlowInv', NEW e \in Ends, NEW O, Step(e, O)
  PROVE  EventStream'
<1>1. PICK q : q = Peer(e)
  OBVIOUS
<1>2. q \in Ends /\ \A x \in Ends : x = e \/ x = q
  BY <1>1, SlotFacts
<1>3. evLost'[q] = evLost[q] /\ tally'[q] = tally[q] /\ evq'[q] = evq[q]
  BY <1>1 DEF Step, PeerIdle
<1>4. ASSUME NEW id \in Ids PROVE ChannelEvents(q, id)'
  <2>1. ChannelEvents(q, id)
    BY <1>2, EventStreamIs DEF TrafficInv
  <2>. QED
    BY <1>3, <2>1 DEF ChannelEvents, DataEvent, EofEvent, Continued, BeforeEof
<1>5. ASSUME NEW id \in Ids PROVE ChannelEvents(e, id)'
  <2>1. CASE /\ evq'[e] = evq[e]
             /\ \A o \in O : o.type = "DATA" => <<"CHANNEL_DATA", o.to>> \in evLost'[e]
    <3>1. CASE <<"CHANNEL_DATA", id>> \in evLost'[e]
      BY <3>1 DEF ChannelEvents
    <3>2. CASE <<"CHANNEL_DATA", id>> \notin evLost'[e]
      BY <2>1, <3>2, EventsSame
    <3>. QED
      BY <3>1, <3>2
  <2>2. CASE /\ evq[e] # <<>> /\ evq'[e] = Tail(evq[e])
             /\ \A o \in O : o.type # "DATA"
    BY <2>2, EventsTaken
  <2>3. CASE \E ev \in EventSet :
               /\ evq'[e] = Append(evq[e], ev) /\ NewEvent(e, O, ev)
               /\ \A o \in O : o.type = "DATA" => ev.type = "CHANNEL_DATA"
    BY <2>3, EventsPut
  <2>. QED
    BY <2>1, <2>2, <2>3 DEF Step, EventStep
<1>. QED
  BY <1>2, <1>4, <1>5, EventStreamIsNext

----------------------------------------------------------------------------
(* The invariant *)

LEMMA TrafficInit == Init => TrafficInv
<1>. SUFFICES ASSUME Init PROVE TrafficInv
  OBVIOUS
<1>1. FlowInv
  BY FlowInit
<1>2. /\ \A e \in Ends : Peer(e) \in Ends
      /\ \A e \in Ends : \A id \in Ids : ch[e][id] = FreeSlot
      /\ \A e \in Ends : \A id \in Ids : acc[e][id] = NoId
      /\ \A e \in Ends : closed[e] = {}
      /\ \A e \in Ends : state[e] # "DRAINING" /\ err[e].cause = "none"
      /\ state[Client] # "READY" /\ NoId \notin Ids
  BY PeerFacts, IdFacts DEF Init, Ends, Server, Client
<1>3. \A e \in Ends : \A i \in DOMAIN link[e] :
        e = Server /\ i = 1 /\ link[e][i] = Pdu("AUTH_OK", NoId, NoId)
  BY DEF Init
<1>4. \A e \in Ends : \A m \in Wire(e) : m.type = "AUTH_OK" /\ m.from = NoId
  BY <1>3 DEF Wire, Pdu
<1>5. \A e \in Ends : \A i \in DOMAIN evq[e] : evq[e][i] = Event("AUTHENTICATED", NoId)
  BY DEF Init
<1>6. FreeSlot.st = "UNUSED" /\ ~FreeSlot.reof
  BY DEF FreeSlot
<1>7. AuthOkFirst /\ DrainTold
  BY <1>2, <1>3 DEF AuthOkFirst, DrainTold
<1>8. LinkSent /\ LinkDue
  BY <1>4 DEF LinkSent, PduSent, LinkDue, PduDue, Talk, FromChannel
<1>9. ClosedGone /\ EofKept
  BY <1>2, <1>6 DEF ClosedGone, EofKept
<1>10. \A e \in Ends : \A a, b \in Ids : ~Paired(e, a, b)
  BY <1>2 DEF Paired
<1>11. GoneQuiet /\ NoneMissing
  BY <1>10 DEF GoneQuiet, NoneMissing
<1>12. NoGap /\ LateTraffic
  BY <1>3 DEF NoGap, LateTraffic, Pdu
<1>13. EofEvents /\ EventStream
  BY <1>5 DEF EofEvents, EventStream, Event
<1>14. StreamGrammar
  BY <1>3 DEF StreamGrammar
<1>15. EofIsFinal /\ OpeningAccounted /\ CounterpartAccounted
  BY <1>2, <1>6 DEF EofIsFinal, OpeningAccounted, CounterpartAccounted
<1>16. ErrorHasLocalCause
  BY <1>2 DEF ErrorHasLocalCause
<1>. QED
  BY <1>1, <1>7, <1>8, <1>9, <1>11, <1>12, <1>13, <1>14, <1>15, <1>16
     DEF TrafficInv, SessionInv, ChannelInv, StreamInv

LEMMA TrafficStep ==
  ASSUME RecvCap < WinMod
  PROVE  TrafficInv /\ [Next]_vars => TrafficInv'
<1>. SUFFICES ASSUME TrafficInv, [Next]_vars PROVE TrafficInv'
  OBVIOUS
<1>1. FlowInv
  BY DEF TrafficInv
<1>2. FlowInv'
  BY <1>1, FlowStep
<1>3. PICK e \in Ends : \E O : Step(e, O)
  BY <1>1, NextStep
<1>4. PICK O : Step(e, O)
  BY <1>3
<1>5. SessionInv'
  BY <1>2, <1>4, AuthOkStep, DrainToldStep DEF SessionInv
<1>6. ChannelInv'
  BY <1>2, <1>4, LinkSentStep, LinkDueStep, ClosedGoneStep, GoneQuietStep, EofKeptStep
     DEF ChannelInv
<1>7. StreamInv'
  BY <1>2, <1>4, NoGapStep, NoneMissingStep, EofEventsStep DEF StreamInv
<1>8. StreamGrammar' /\ LateTraffic' /\ EofIsFinal'
  BY <1>2, <1>4, GrammarStep, LateTrafficStep, EofFinalStep
<1>9. OpeningAccounted' /\ CounterpartAccounted'
  BY <1>2, <1>4, OpeningStep, CounterpartStep
<1>10. ErrorHasLocalCause' /\ EventStream'
  BY <1>2, <1>4, ErrorLocalStep, EventStreamStep
<1>. QED
  BY <1>2, <1>5, <1>6, <1>7, <1>8, <1>9, <1>10 DEF TrafficInv

LEMMA TrafficInvariant ==
  ASSUME RecvCap < WinMod
  PROVE  Spec => []TrafficInv
BY TrafficInit, TrafficStep, PTL DEF Spec

----------------------------------------------------------------------------
(* Credit.  WINDOW is to granted and credited what DATA is to sent and rcvd, with
   one difference: a channel that is gone ignores it, so the chain from what is
   credited to what is granted is whole only as long as the receiver's slot is in
   use. *)

\* WINDOW in flight to a channel in use starts where the receiver is, or where
\* WINDOW ahead of it ends.
CreditNoGap ==
  \A e \in Ends : \A i \in DOMAIN link[e] :
    link[e][i].type = "WINDOW" /\ ch[Peer(e)][link[e][i].to].st # "UNUSED" =>
      \/ link[e][i].pos = tally[Peer(e)][link[e][i].to].credited
      \/ \E j \in 1 .. (i - 1) : /\ link[e][j].type = "WINDOW"
                                 /\ link[e][j].from = link[e][i].from
                                 /\ link[e][j].pos + link[e][j].len = link[e][i].pos

\* A receiver in use has been credited all that was granted, or WINDOW in flight
\* ends there.
CreditNoneMissing ==
  \A e \in Ends : \A a, b \in Ids :
    Paired(e, a, b) /\ ch[Peer(e)][b].st # "UNUSED" =>
      \/ tally[e][a].granted = tally[Peer(e)][b].credited
      \/ \E m \in Wire(e) : /\ m.type = "WINDOW" /\ m.from = a
                            /\ m.pos + m.len = tally[e][a].granted

CreditInv == CreditNoGap /\ CreditNoneMissing

\* A slot of a pair that is in use after a step was in use before.
LEMMA PairSlotKept ==
  ASSUME TrafficInv, NEW e \in Ends, NEW O, Step(e, O), NEW q, q = Peer(e),
         NEW a \in Ids, NEW b \in Ids, Paired(q, a, b), ch'[e][b].st # "UNUSED"
  PROVE  ch[e][b].st # "UNUSED"
<1>1. q \in Ends /\ Peer(q) = e
  BY SlotFacts
<1>2. b < nextId[e]
  BY <1>1, OnePartner
<1>. QED
  BY <1>2, SlotGoes

\* Credit that a channel in use takes starts where the receiver is, and the receiver
\* moves to its end: the channel is OPEN, because CONFIRM has come before.
LEMMA HeadCredit ==
  ASSUME TrafficInv, CreditInv, FlowInv', NEW e \in Ends, NEW O, Step(e, O),
         NEW q, q = Peer(e), NEW o \in O, o.type = "WINDOW", ch[e][o.to].st # "UNUSED"
  PROVE  /\ o \in Wire(q) /\ o.from \in Ids /\ o.to \in Ids /\ Paired(q, o.from, o.to)
         /\ o.pos \in Nat /\ o.len \in Nat
         /\ o.pos = tally[e][o.to].credited
         /\ tally'[e][o.to].credited = o.pos + o.len
         /\ o.pos + o.len <= tally[q][o.from].granted
<1>1. q \in Ends /\ Peer(q) = e /\ o \in Wire(q) /\ \A p \in O : p = o
  BY SlotFacts, StepWire
<1>2. /\ o.from \in Ids /\ o.to \in Ids /\ Paired(q, o.from, o.to)
      /\ PduBalanced(q, o) /\ PduDue(q, o)
  BY <1>1, FlightFacts, FlightPaired DEF Talk, FromChannel, ToChannel
<1>3. o.pos \in Nat /\ o.len \in Nat
  BY <1>1, PduNumbers
<1>4. PICK d \in {0, 1} : /\ d = 0 => O = {}
                          /\ d = 1 => O = {link[q][1]} /\ 1 \in DOMAIN link[q]
  BY PeerOrder
<1>5. o = link[q][1] /\ 1 \in DOMAIN link[q]
  BY <1>4
<1>6. o.pos = tally[e][o.to].credited
  <2>1. \/ o.pos = tally[e][o.to].credited
        \/ \E j \in 1 .. (1 - 1) : link[q][j].type = "WINDOW"
    BY <1>1, <1>5 DEF CreditInv, CreditNoGap
  <2>. QED
    BY <2>1
<1>7. ch[e][o.to].st = "OPEN"
  <2>1. ch[e][o.to].st # "PENDING"
    BY <1>1, <1>2 DEF PduDue, Talk
  <2>2. ch[e][o.to].st # "OPENING"
    <3>. SUFFICES ASSUME ch[e][o.to].st = "OPENING" PROVE FALSE
      OBVIOUS
    <3>1. \E j \in 1 .. (1 - 1) : link[q][j].type = "CONFIRM"
      BY <1>1, <1>5 DEF TrafficInv, LateTraffic
    <3>. QED
      BY <3>1
  <2>. QED
    BY <1>2, <2>1, <2>2, SlotFacts
<1>8. tally'[e][o.to].credited = tally[e][o.to].credited + o.len
  BY <1>1, <1>2, <1>7 DEF Step, TallyStep, CreditStep
<1>9. o.pos + o.len <= tally[q][o.from].granted
  BY <1>2 DEF PduBalanced
<1>. QED
  BY <1>1, <1>2, <1>3, <1>6, <1>8, <1>9

\* The receiver's count only moves with WINDOW.
LEMMA CreditedKept ==
  ASSUME NEW e, NEW O, Step(e, O), NEW id \in Ids, \A o \in O : o.type = "WINDOW" => o.to # id
  PROVE  tally'[e][id].credited = tally[e][id].credited
BY DEF Step, TallyStep, CreditStep

LEMMA CreditNoGapOwn ==
  ASSUME TrafficInv, CreditInv, FlowInv', NEW e \in Ends, NEW O, Step(e, O),
         NEW q, q = Peer(e), NEW i \in DOMAIN link'[e],
         NEW m, m = link'[e][i], m.type = "WINDOW", ch[q][m.to].st # "UNUSED"
  PROVE  \/ m.pos = tally[q][m.to].credited
         \/ \E j \in 1 .. (i - 1) : /\ link'[e][j].type = "WINDOW"
                                    /\ link'[e][j].from = m.from
                                    /\ link'[e][j].pos + link'[e][j].len = m.pos
<1>1. \A j \in 1 .. (i - 1) : j \in DOMAIN link[e] /\ link'[e][j] = link[e][j]
  BY OwnOrder
<1>2. CASE i \in DOMAIN link[e] /\ m = link[e][i]
  <2>1. \/ m.pos = tally[q][m.to].credited
        \/ \E j \in 1 .. (i - 1) : /\ link[e][j].type = "WINDOW"
                                   /\ link[e][j].from = m.from
                                   /\ link[e][j].pos + link[e][j].len = m.pos
    BY <1>2 DEF CreditInv, CreditNoGap
  <2>. QED
    BY <1>1, <2>1
<1>3. CASE Sendable(e, O, m) /\ \A j \in DOMAIN link[e] : j \in 1 .. (i - 1)
  <2>1. m \in Wire(e)'
    BY DEF Wire
  <2>2. m.from \in Ids /\ m.to \in Ids /\ Paired(e, m.from, m.to)
    BY <1>3, <2>1, SendableFacts DEF Talk, FromChannel, ToChannel
  <2>3. m.pos = tally[e][m.from].granted
    BY <1>3 DEF Sendable
  <2>4. \/ tally[e][m.from].granted = tally[q][m.to].credited
        \/ \E n \in Wire(e) : /\ n.type = "WINDOW" /\ n.from = m.from
                              /\ n.pos + n.len = tally[e][m.from].granted
    BY <2>2 DEF CreditInv, CreditNoneMissing
  <2>5. CASE tally[e][m.from].granted = tally[q][m.to].credited
    BY <2>3, <2>5
  <2>6. CASE \E n \in Wire(e) : /\ n.type = "WINDOW" /\ n.from = m.from
                                /\ n.pos + n.len = tally[e][m.from].granted
    <3>1. PICK n \in Wire(e) : /\ n.type = "WINDOW" /\ n.from = m.from
                               /\ n.pos + n.len = tally[e][m.from].granted
      BY <2>6
    <3>2. PICK j \in DOMAIN link[e] : n = link[e][j]
      BY DEF Wire
    <3>3. j \in 1 .. (i - 1) /\ link'[e][j] = n
      BY <1>1, <1>3, <3>2
    <3>. QED
      BY <2>3, <3>1, <3>3
  <2>. QED
    BY <2>4, <2>5, <2>6
<1>. QED
  BY <1>2, <1>3, OwnOrder

LEMMA CreditNoGapPeer ==
  ASSUME TrafficInv, CreditInv, FlowInv', NEW e \in Ends, NEW O, Step(e, O),
         NEW q, q = Peer(e), NEW i \in DOMAIN link'[q],
         NEW m, m = link'[q][i], m.type = "WINDOW", ch'[e][m.to].st # "UNUSED"
  PROVE  \/ m.pos = tally'[e][m.to].credited
         \/ \E j \in 1 .. (i - 1) : /\ link'[q][j].type = "WINDOW"
                                    /\ link'[q][j].from = m.from
                                    /\ link'[q][j].pos + link'[q][j].len = m.pos
<1>1. PICK d \in {0, 1} :
        /\ \A k \in DOMAIN link'[q] :
             k \in Nat /\ 1 <= k /\ k + d \in DOMAIN link[q] /\ link'[q][k] = link[q][k + d]
        /\ \A k \in DOMAIN link[q] :
             k \in Nat /\ 1 <= k /\ (k - d \in DOMAIN link'[q] \/ (k = 1 /\ d = 1))
        /\ d = 1 => O = {link[q][1]}
  BY PeerOrder
<1>2. /\ q \in Ends /\ Peer(q) = e
      /\ i \in Nat /\ i + d \in DOMAIN link[q] /\ m = link[q][i + d]
      /\ m \in Wire(q) /\ m \in Wire(q)'
  BY <1>1, SlotFacts DEF Wire
<1>3. /\ m.from \in Ids /\ m.to \in Ids /\ Paired(q, m.from, m.to)
      /\ m.pos \in Nat /\ m.len \in Nat
  BY <1>2, FlightFacts, FlightPaired, PduNumbers DEF Talk, FromChannel, ToChannel
<1>4. ch[e][m.to].st # "UNUSED"
  BY <1>3, PairSlotKept
<1>5. \A n \in Wire(q) : n.type = "WINDOW" => (n.from = m.from <=> n.to = m.to)
  <2>. SUFFICES ASSUME NEW n \in Wire(q), n.type = "WINDOW" PROVE n.from = m.from <=> n.to = m.to
    OBVIOUS
  <2>1. n.from \in Ids /\ n.to \in Ids /\ Paired(q, n.from, n.to)
    BY <1>2, FlightFacts, FlightPaired DEF Talk, FromChannel, ToChannel
  <2>. QED
    BY <1>2, <1>3, <2>1, OnePartner
<1>6. \/ m.pos = tally[e][m.to].credited
      \/ \E j \in 1 .. (i + d - 1) : /\ link[q][j].type = "WINDOW"
                                     /\ link[q][j].from = m.from
                                     /\ link[q][j].pos + link[q][j].len = m.pos
  BY <1>2, <1>4 DEF CreditInv, CreditNoGap
<1>7. CASE m.pos = tally[e][m.to].credited
  <2>1. CASE \A o \in O : o.type = "WINDOW" => o.to # m.to
    BY <1>3, <1>7, <2>1, CreditedKept
  <2>2. ASSUME NEW o \in O, o.type = "WINDOW", o.to = m.to
        PROVE  m.pos = tally'[e][m.to].credited
    <3>1. /\ o \in Wire(q) /\ o.pos \in Nat /\ o.len \in Nat
          /\ o.pos = tally[e][m.to].credited /\ tally'[e][m.to].credited = o.pos + o.len
      BY <1>4, <2>2, HeadCredit
    <3>2. o.from = m.from
      BY <1>5, <2>2, <3>1
    <3>3. InOrder(o, m)
      BY <1>2, <2>2, StepWire
    <3>4. o.pos + o.len <= m.pos
      BY <2>2, <3>2, <3>3 DEF InOrder
    <3>. QED
      BY <1>3, <1>7, <3>1, <3>4
  <2>. QED
    BY <2>1, <2>2
<1>8. CASE \E j \in 1 .. (i + d - 1) : /\ link[q][j].type = "WINDOW"
                                       /\ link[q][j].from = m.from
                                       /\ link[q][j].pos + link[q][j].len = m.pos
  <2>1. PICK j \in 1 .. (i + d - 1) : /\ link[q][j].type = "WINDOW"
                                      /\ link[q][j].from = m.from
                                      /\ link[q][j].pos + link[q][j].len = m.pos
    BY <1>8
  <2>2. j \in DOMAIN link[q] /\ link[q][j] \in Wire(q)
    <3>1. link[q] \in Seq(PduSet)
      BY <1>2, FlowTypesOK DEF TrafficInv, TypeIO
    <3>2. Len(link[q]) \in Nat /\ DOMAIN link[q] = 1 .. Len(link[q])
      BY <3>1, LenProperties
    <3>3. j \in DOMAIN link[q]
      BY <1>2, <2>1, <3>2
    <3>. QED
      BY <3>3 DEF Wire
  <2>3. CASE j = 1 /\ d = 1
    <3>1. PICK o \in O : o = link[q][j]
      BY <1>1, <2>3
    <3>2. o.type = "WINDOW" /\ o.pos + o.len = m.pos /\ o.to = m.to
      BY <1>5, <2>1, <2>2, <3>1
    <3>3. tally'[e][m.to].credited = o.pos + o.len
      BY <1>4, <3>2, HeadCredit
    <3>. QED
      BY <3>2, <3>3
  <2>4. CASE ~(j = 1 /\ d = 1)
    <3>1. PICK k : k = j - d
      OBVIOUS
    <3>2. /\ k \in DOMAIN link'[q] /\ k + d = j /\ k \in 1 .. (i - 1)
      BY <1>1, <1>2, <2>1, <2>2, <2>4, <3>1
    <3>3. link'[q][k] = link[q][j]
      BY <1>1, <3>2
    <3>. QED
      BY <2>1, <3>2, <3>3
  <2>. QED
    BY <2>3, <2>4
<1>. QED
  BY <1>6, <1>7, <1>8

LEMMA CreditNoGapStep ==
  ASSUME TrafficInv, CreditInv, FlowInv', NEW e \in Ends, NEW O, Step(e, O)
  PROVE  CreditNoGap'
<1>1. PICK q : q = Peer(e)
  OBVIOUS
<1>2. q \in Ends /\ Peer(q) = e /\ \A x \in Ends : x = e \/ x = q
  BY <1>1, SlotFacts
<1>3. tally'[q] = tally[q] /\ ch'[q] = ch[q]
  BY <1>1 DEF Step, PeerIdle
<1>4. ASSUME NEW i \in DOMAIN link'[e], link'[e][i].type = "WINDOW",
             ch'[q][link'[e][i].to].st # "UNUSED"
      PROVE  \/ link'[e][i].pos = tally'[q][link'[e][i].to].credited
             \/ \E j \in 1 .. (i - 1) : /\ link'[e][j].type = "WINDOW"
                                        /\ link'[e][j].from = link'[e][i].from
                                        /\ link'[e][j].pos + link'[e][j].len = link'[e][i].pos
  BY <1>1, <1>3, <1>4, CreditNoGapOwn
<1>5. ASSUME NEW i \in DOMAIN link'[q], link'[q][i].type = "WINDOW",
             ch'[e][link'[q][i].to].st # "UNUSED"
      PROVE  \/ link'[q][i].pos = tally'[e][link'[q][i].to].credited
             \/ \E j \in 1 .. (i - 1) : /\ link'[q][j].type = "WINDOW"
                                        /\ link'[q][j].from = link'[q][i].from
                                        /\ link'[q][j].pos + link'[q][j].len = link'[q][i].pos
  BY <1>1, <1>5, CreditNoGapPeer
<1>. QED
  BY <1>1, <1>2, <1>4, <1>5 DEF CreditNoGap

LEMMA CreditMissingOwn ==
  ASSUME TrafficInv, CreditInv, FlowInv', NEW e \in Ends, NEW O, Step(e, O),
         NEW q, q = Peer(e), NEW a \in Ids, NEW b \in Ids, Paired(e, a, b)',
         ch[q][b].st # "UNUSED"
  PROVE  \/ tally'[e][a].granted = tally[q][b].credited
         \/ \E m \in Wire(e)' : /\ m.type = "WINDOW" /\ m.from = a
                                /\ m.pos + m.len = tally'[e][a].granted
<1>1. CASE ~Paired(e, a, b)
  <2>1. tally'[e][a].granted = 0 /\ tally[q][b].credited = 0
    BY <1>1, NewPairEmpty
  <2>. QED
    BY <2>1
<1>2. CASE Paired(e, a, b)
  <2>1. \/ tally[e][a].granted = tally[q][b].credited
        \/ \E m \in Wire(e) : /\ m.type = "WINDOW" /\ m.from = a
                              /\ m.pos + m.len = tally[e][a].granted
    BY <1>2 DEF CreditInv, CreditNoneMissing
  <2>2. CASE tally'[e][a].granted = tally[e][a].granted
    BY <2>1, <2>2, StepWire
  <2>3. CASE \E m \in PduSet : /\ Puts(e, m) /\ m.type = "WINDOW" /\ m.from = a
                               /\ m.pos + m.len = tally'[e][a].granted
    <3>1. PICK m \in PduSet : /\ Puts(e, m) /\ m.type = "WINDOW" /\ m.from = a
                              /\ m.pos + m.len = tally'[e][a].granted
      BY <2>3
    <3>2. m \in Wire(e)'
      BY <3>1, PutsWire, FlowTypesOK DEF TrafficInv
    <3>. QED
      BY <3>1, <3>2
  <2>. QED
    BY <2>2, <2>3 DEF Step, TallyStep, CreditStep
<1>. QED
  BY <1>1, <1>2

LEMMA CreditMissingPeer ==
  ASSUME TrafficInv, CreditInv, FlowInv', NEW e \in Ends, NEW O, Step(e, O),
         NEW q, q = Peer(e), NEW a \in Ids, NEW b \in Ids, Paired(q, a, b)',
         ch'[e][b].st # "UNUSED"
  PROVE  \/ tally[q][a].granted = tally'[e][b].credited
         \/ \E m \in Wire(q)' : /\ m.type = "WINDOW" /\ m.from = a
                                /\ m.pos + m.len = tally[q][a].granted
<1>1. q \in Ends /\ Peer(q) = e
  BY SlotFacts
<1>2. CASE ~Paired(q, a, b)
  <2>1. Paired(e, b, a)' /\ ~Paired(e, b, a)
    BY <1>1, <1>2 DEF Paired
  <2>2. tally'[e][b].credited = 0 /\ tally[q][a].granted = 0
    BY <2>1, NewPairEmpty
  <2>. QED
    BY <2>2
<1>3. CASE Paired(q, a, b)
  <2>0. ch[e][b].st # "UNUSED"
    BY <1>3, PairSlotKept
  <2>1. \A n \in Wire(q) : n.type = "WINDOW" => (n.from = a <=> n.to = b)
    <3>. SUFFICES ASSUME NEW n \in Wire(q), n.type = "WINDOW" PROVE n.from = a <=> n.to = b
      OBVIOUS
    <3>1. n.from \in Ids /\ n.to \in Ids /\ Paired(q, n.from, n.to)
      BY <1>1, FlightFacts, FlightPaired DEF Talk, FromChannel, ToChannel
    <3>. QED
      BY <1>1, <1>3, <3>1, OnePartner
  <2>2. \/ tally[q][a].granted = tally[e][b].credited
        \/ \E m \in Wire(q) : /\ m.type = "WINDOW" /\ m.from = a
                              /\ m.pos + m.len = tally[q][a].granted
    BY <1>1, <1>3, <2>0 DEF CreditInv, CreditNoneMissing
  <2>3. CASE tally[q][a].granted = tally[e][b].credited
    <3>1. CASE \A o \in O : o.type = "WINDOW" => o.to # b
      BY <2>3, <3>1, CreditedKept
    <3>2. ASSUME NEW o \in O, o.type = "WINDOW", o.to = b
          PROVE  tally[q][a].granted = tally'[e][b].credited
      <4>1. /\ o \in Wire(q) /\ o.pos \in Nat /\ o.len \in Nat
            /\ o.pos = tally[e][b].credited /\ tally'[e][b].credited = o.pos + o.len
            /\ o.pos + o.len <= tally[q][o.from].granted
        BY <2>0, <3>2, HeadCredit
      <4>2. o.from = a
        BY <2>1, <3>2, <4>1
      <4>3. tally[q][a].granted \in Nat
        BY <1>1, PduNumbers
      <4>. QED
        BY <2>3, <4>1, <4>2, <4>3
    <3>. QED
      BY <3>1, <3>2
  <2>4. CASE \E m \in Wire(q) : /\ m.type = "WINDOW" /\ m.from = a
                                /\ m.pos + m.len = tally[q][a].granted
    <3>1. PICK m \in Wire(q) : /\ m.type = "WINDOW" /\ m.from = a
                               /\ m.pos + m.len = tally[q][a].granted
      BY <2>4
    <3>2. CASE m \in O
      <4>1. m.to = b
        BY <2>1, <3>1
      <4>2. tally'[e][b].credited = m.pos + m.len
        BY <2>0, <3>1, <3>2, <4>1, HeadCredit
      <4>. QED
        BY <3>1, <4>2
    <3>. QED
      BY <3>1, <3>2, StepWire
  <2>. QED
    BY <2>2, <2>3, <2>4
<1>. QED
  BY <1>2, <1>3

LEMMA CreditMissingStep ==
  ASSUME TrafficInv, CreditInv, FlowInv', NEW e \in Ends, NEW O, Step(e, O)
  PROVE  CreditNoneMissing'
<1>1. PICK q : q = Peer(e)
  OBVIOUS
<1>2. q \in Ends /\ Peer(q) = e /\ \A x \in Ends : x = e \/ x = q
  BY <1>1, SlotFacts
<1>3. tally'[q] = tally[q] /\ ch'[q] = ch[q]
  BY <1>1 DEF Step, PeerIdle
<1>4. ASSUME NEW a \in Ids, NEW b \in Ids, Paired(e, a, b)', ch'[q][b].st # "UNUSED"
      PROVE  \/ tally'[e][a].granted = tally'[q][b].credited
             \/ \E m \in Wire(e)' : /\ m.type = "WINDOW" /\ m.from = a
                                    /\ m.pos + m.len = tally'[e][a].granted
  BY <1>1, <1>3, <1>4, CreditMissingOwn
<1>5. ASSUME NEW a \in Ids, NEW b \in Ids, Paired(q, a, b)', ch'[e][b].st # "UNUSED"
      PROVE  \/ tally'[q][a].granted = tally'[e][b].credited
             \/ \E m \in Wire(q)' : /\ m.type = "WINDOW" /\ m.from = a
                                    /\ m.pos + m.len = tally'[q][a].granted
  BY <1>1, <1>3, <1>5, CreditMissingPeer
<1>. QED
  BY <1>1, <1>2, <1>4, <1>5 DEF CreditNoneMissing

LEMMA CreditInit == Init => CreditInv
<1>. SUFFICES ASSUME Init PROVE CreditInv
  OBVIOUS
<1>1. /\ \A e \in Ends : \A i \in DOMAIN link[e] : link[e][i].type # "WINDOW"
      /\ \A e \in Ends : \A id \in Ids : acc[e][id] = NoId
  BY DEF Init, Pdu, Ends, Client, Server
<1>2. \A e \in Ends : \A a, b \in Ids : ~Paired(e, a, b)
  BY <1>1, PeerFacts, IdFacts DEF Paired
<1>. QED
  BY <1>1, <1>2 DEF CreditInv, CreditNoGap, CreditNoneMissing

LEMMA CreditInvariant ==
  ASSUME RecvCap < WinMod
  PROVE  Spec => [](TrafficInv /\ CreditInv)
<1>1. ASSUME TrafficInv, CreditInv, [Next]_vars PROVE CreditInv'
  <2>1. FlowInv
    BY <1>1 DEF TrafficInv
  <2>2. FlowInv'
    BY <1>1, <2>1, FlowStep
  <2>3. PICK e \in Ends : \E O : Step(e, O)
    BY <1>1, <2>1, NextStep
  <2>4. PICK O : Step(e, O)
    BY <2>3
  <2>. QED
    BY <1>1, <2>2, <2>4, CreditNoGapStep, CreditMissingStep DEF CreditInv
<1>. QED
  BY <1>1, CreditInit, TrafficInvariant, PTL DEF Spec

----------------------------------------------------------------------------
(* Adding up what is in flight *)

\* f[n] is the sum of the weights of the first n.
Sums(L, weight, f) ==
  f \in [0 .. L -> Nat] /\ f[0] = 0 /\ \A k \in 1 .. L : f[k] = f[k - 1] + weight[k]

\* The intervals [start[i], start[i] + size[i]) of the numbers i of M follow each other
\* from lo to hi without gap or overlap.
Tiled(M, L, start, size, lo, hi) ==
  /\ \A i, j \in M : i < j => start[i] + size[i] <= start[j]
  /\ \A i \in M : lo <= start[i] /\ start[i] + size[i] <= hi
  /\ \A i \in M : start[i] = lo \/ \E j \in M : j < i /\ start[j] + size[j] = start[i]
  /\ hi = lo \/ \E i \in M : start[i] + size[i] = hi

LEMMA Squeezed == \A x, y, z \in Nat : x + y <= z /\ z <= x + y => x + y = z
OBVIOUS

LEMMA Raised ==
  \A p, l, x, y, z \in Nat : p + l <= z + x /\ z + x <= z + y => p + l <= z + y
OBVIOUS

\* w weighs the numbers of M by their sizes, and f sums that up.
Weighed(L, M, size, w, f) ==
  w = [k \in 1 .. L |-> IF k \in M THEN size[k] ELSE 0] /\ Sums(L, w, f)

Reaches(lo, x, hi) == lo + x = hi

\* The lengths of such intervals add up to hi - lo.
LEMMA TiledSum ==
  ASSUME NEW L \in Nat, NEW M \in SUBSET (1 .. L), NEW start \in [1 .. L -> Nat],
         NEW size \in [1 .. L -> Nat], NEW lo \in Nat, NEW hi \in Nat,
         Tiled(M, L, start, size, lo, hi),
         NEW w, NEW f, Weighed(L, M, size, w, f)
  PROVE  Reaches(lo, f[L], hi)
<1>1. /\ f \in [0 .. L -> Nat] /\ f[0] = 0
      /\ \A k \in 1 .. L : f[k] = f[k - 1] + (IF k \in M THEN size[k] ELSE 0)
  BY DEF Weighed, Sums
<1>2. \A k \in M : k \in Nat /\ start[k] \in Nat /\ size[k] \in Nat
  OBVIOUS
<1> DEFINE Below(n) == \A i \in M : i <= n => start[i] + size[i] <= lo + f[n]
           Reached(n) == f[n] = 0 \/ \E i \in M : i <= n /\ start[i] + size[i] = lo + f[n]
           S == {n \in 0 .. L : Below(n) /\ Reached(n)}
<1>3. 0 \in S
  BY <1>1
<1>4. ASSUME NEW n \in 0 .. (L - 1), n \in S PROVE n + 1 \in S
  <2>1. n + 1 \in 1 .. L /\ (n + 1) - 1 = n /\ f[n] \in Nat /\ n \in Nat
    BY <1>1
  <2>2. f[n + 1] = f[n] + (IF n + 1 \in M THEN size[n + 1] ELSE 0)
    BY <1>1, <2>1
  <2>3. Below(n) /\ Reached(n)
    BY <1>4
  <2>4. \A i \in M : i <= n + 1 => i <= n \/ i = n + 1
    BY <1>2
  <2>5. CASE n + 1 \notin M
    <3>1. f[n + 1] = f[n]
      BY <2>1, <2>2, <2>5
    <3>2. Below(n + 1)
      BY <2>3, <2>4, <2>5, <3>1
    <3>3. Reached(n + 1)
      <4>1. \A i \in M : i <= n => i <= n + 1
        BY <1>2, <2>1
      <4> QED BY <2>3, <3>1, <4>1
    <3> HIDE DEF Below, Reached
    <3> QED BY <2>1, <3>2, <3>3
  <2>6. CASE n + 1 \in M
    <3>1. /\ start[n + 1] \in Nat /\ size[n + 1] \in Nat /\ lo <= start[n + 1]
          /\ f[n + 1] = f[n] + size[n + 1]
      BY <1>2, <2>2, <2>6 DEF Tiled
    <3>2. start[n + 1] >= lo + f[n]
      <4>1. ASSUME NEW i \in M, i <= n, start[i] + size[i] = lo + f[n] PROVE lo + f[n] <= start[n + 1]
        BY <1>2, <2>1, <2>6, <4>1 DEF Tiled
      <4> QED BY <2>3, <3>1, <4>1
    <3>3. start[n + 1] <= lo + f[n]
      <4>1. CASE start[n + 1] = lo
        BY <2>1, <4>1
      <4>2. ASSUME NEW j \in M, j < n + 1, start[j] + size[j] = start[n + 1]
            PROVE  start[n + 1] <= lo + f[n]
        BY <1>2, <2>1, <2>3, <4>2
      <4> QED BY <2>6, <4>1, <4>2 DEF Tiled
    <3>4. start[n + 1] + size[n + 1] = lo + f[n + 1]
      <4>1. \A p, l, x, y \in Nat : p >= lo + x /\ p <= lo + x /\ y = x + l => p + l = lo + y
        BY ONLY lo \in Nat
      <4>2. f[n + 1] \in Nat
        BY <1>1, <2>1
      <4>3. f[n] \in Nat
        BY <2>1
      <4> QED BY ONLY <3>1, <3>2, <3>3, <4>1, <4>2, <4>3, SMTT(30)
    <3>5. Below(n + 1)
      <4>1. \A x, y, l \in Nat : y = x + l => lo + x <= lo + y
        BY ONLY lo \in Nat
      <4>2. f[n + 1] \in Nat /\ lo + f[n] <= lo + f[n + 1]
        BY <1>1, <2>1, <3>1, <4>1
      <4>3. ASSUME NEW i \in M, i <= n PROVE start[i] + size[i] <= lo + f[n + 1]
        <5>1. start[i] + size[i] <= lo + f[n]
          BY <2>3, <4>3
        <5> QED BY <1>2, <2>1, <4>2, <5>1, Raised, Zenon
      <4>4. start[n + 1] + size[n + 1] <= lo + f[n + 1]
        BY <3>4, <4>2
      <4> QED BY <2>4, <4>3, <4>4
    <3>6. Reached(n + 1)
      BY <2>1, <2>6, <3>4
    <3> QED BY <2>1, <3>5, <3>6
  <2> QED BY <2>5, <2>6
<1>5. 0 .. L \subseteq S
  <2> HIDE DEF S
  <2> QED BY <1>3, <1>4, IntervalInduction
<1>6. Below(L) /\ Reached(L) /\ f[L] \in Nat
  BY <1>1, <1>5
<1>7. \A i \in M : i <= L
  OBVIOUS
<1>8. lo + f[L] <= hi
  <2>0. lo <= hi
    BY <1>2 DEF Tiled
  <2>1. CASE f[L] = 0
    BY <2>0, <2>1
  <2>2. ASSUME NEW i \in M, start[i] + size[i] = lo + f[L] PROVE lo + f[L] <= hi
    BY <2>2 DEF Tiled
  <2> QED BY <1>6, <2>1, <2>2
<1>9. hi <= lo + f[L]
  <2>1. CASE hi = lo
    BY <1>6, <2>1
  <2>2. ASSUME NEW i \in M, start[i] + size[i] = hi PROVE hi <= lo + f[L]
    BY <1>6, <1>7, <2>2
  <2> QED BY <2>1, <2>2 DEF Tiled
<1> HIDE DEF Below, Reached
<1>10. f[L] \in Nat
  BY <1>6
<1>11. lo + f[L] = hi
  BY <1>8, <1>9, <1>10, Squeezed, Zenon
<1> QED BY <1>11 DEF Reaches

LEMMA CarriedNat ==
  ASSUME NEW m \in PduSet, NEW t, NEW id
  PROVE  Carried(m, t, id) \in Nat
BY DEF Carried, PduSet, PduFields

\* InFlight is what its definition says.
FlightSum(e, t, id, L, f) ==
  /\ Sums(L, [k \in 1 .. L |-> Carried(link[e][k], t, id)], f)
  /\ InFlight(e, t, id) = f[L]

LEMMA InFlightDef ==
  ASSUME TypeIO, NEW e \in Ends, NEW t, NEW id
  PROVE  \E f : FlightSum(e, t, id, Len(link[e]), f)
<1> DEFINE L == Len(link[e])
<1>1. L \in Nat /\ \A k \in 1 .. L : link[e][k] \in PduSet
  <2>1. link[e] \in Seq(PduSet)
    BY DEF TypeIO
  <2> QED BY <2>1, LenProperties
<1> HIDE DEF L
<1>2. PICK w : w = [k \in 1 .. L |-> Carried(link[e][k], t, id)]
  OBVIOUS
<1>3. w \in [1 .. L -> Nat]
  BY <1>1, <1>2, CarriedNat
<1> DEFINE IsSum(f) == f = [n \in 0 .. L |-> IF n = 0 THEN 0
                                            ELSE f[n - 1] + Carried(link[e][n], t, id)]
           step == [k \in 1 .. L |-> [x \in Nat |-> x + w[k]]]
<1>4. \E f : IsSum(f)
  <2>1. step \in Steps(L, Nat)
    BY <1>3 DEF Steps
  <2>2. \A k \in 1 .. L : \A x \in Nat : step[k][x] = x + Carried(link[e][k], t, id)
    BY <1>2
  <2> HIDE DEF step
  <2>3. PICK f : Solves(L, Nat, 0, step, f)
    <3>1. 0 \in Nat
      OBVIOUS
    <3> QED BY <1>1, <2>1, <3>1, Recursion, Zenon
  <2>4. IsSum(f)
    <3>1. f \in [0 .. L -> Nat] /\ f[0] = 0 /\ \A k \in 1 .. L : f[k] = step[k][f[k - 1]]
      BY <2>3 DEF Solves
    <3>2. ASSUME NEW n \in 0 .. L
          PROVE  f[n] = IF n = 0 THEN 0 ELSE f[n - 1] + Carried(link[e][n], t, id)
      <4>1. CASE n = 0
        BY <3>1, <4>1
      <4>2. CASE n # 0
        <5>1. n \in 1 .. L /\ n - 1 \in 0 .. L
          BY <1>1, <4>2
        <5>2. f[n - 1] \in Nat /\ f[n] = step[n][f[n - 1]]
          BY <3>1, <5>1
        <5> QED BY <2>2, <4>2, <5>1, <5>2
      <4> QED BY <4>1, <4>2
    <3>3. f = [n \in 0 .. L |-> f[n]]
      BY <3>1
    <3> QED BY <3>2, <3>3
  <2> QED BY <2>4
<1> DEFINE sum == CHOOSE f : IsSum(f)
<1>5. IsSum(sum)
  BY <1>4
<1>6. InFlight(e, t, id) = sum[L]
  BY DEF InFlight, L
<1> HIDE DEF sum
<1>7. sum[0] = 0 /\ \A k \in 1 .. L : sum[k] = sum[k - 1] + w[k]
  <2> HIDE DEF IsSum
  <2>1. \A k \in 0 .. L : sum[k] = IF k = 0 THEN 0
                                   ELSE sum[k - 1] + Carried(link[e][k], t, id)
    BY <1>5 DEF IsSum
  <2> QED BY <1>1, <1>2, <2>1
<1> DEFINE S == {k \in 0 .. L : sum[k] \in Nat}
<1>8. 0 \in S
  BY <1>1, <1>7
<1>9. ASSUME NEW k \in 0 .. (L - 1), k \in S PROVE k + 1 \in S
  <2>1. k + 1 \in 1 .. L /\ (k + 1) - 1 = k
    BY <1>1
  <2>2. sum[k + 1] = sum[k] + w[k + 1] /\ w[k + 1] \in Nat
    BY <1>3, <1>7, <2>1
  <2> QED BY <1>9, <2>1, <2>2
<1>10. 0 .. L \subseteq S
  <2> HIDE DEF S
  <2> QED BY <1>1, <1>8, <1>9, IntervalInduction
<1>11. sum \in [0 .. L -> Nat]
  <2>1. \A k \in 0 .. L : sum[k] \in Nat
    BY <1>10
  <2>2. sum = [k \in 0 .. L |-> sum[k]]
    BY <1>5
  <2> QED BY <2>1, <2>2
<1>12. Sums(L, w, sum)
  BY <1>7, <1>11 DEF Sums
<1>13. FlightSum(e, t, id, L, sum)
  BY <1>2, <1>6, <1>12 DEF FlightSum
<1> QED BY <1>13 DEF L

\* The PDUs of type t from channel id, among those in flight from e, that reach
\* without gap or overlap from lo to hi, carry hi - lo.
Chain(e, t, id, lo, hi) ==
  LET mine == {i \in DOMAIN link[e] : link[e][i].type = t /\ link[e][i].from = id}
      Upto(i) == link[e][i].pos + link[e][i].len
  IN  /\ \A i, j \in mine : i < j => Upto(i) <= link[e][j].pos
      /\ \A i \in mine : lo <= link[e][i].pos /\ Upto(i) <= hi
      /\ \A i \in mine : link[e][i].pos = lo
                           \/ \E j \in mine : j < i /\ Upto(j) = link[e][i].pos
      /\ hi = lo \/ \E i \in mine : Upto(i) = hi

LEMMA ChainSum ==
  ASSUME TypeIO, NEW e \in Ends, NEW t, NEW id, NEW lo \in Nat, NEW hi \in Nat,
         Chain(e, t, id, lo, hi)
  PROVE  InFlight(e, t, id) \in Nat /\ lo + InFlight(e, t, id) = hi
<1>1. PICK L : L = Len(link[e])
  OBVIOUS
<1>2. L \in Nat /\ DOMAIN link[e] = 1 .. L /\ \A k \in 1 .. L : link[e][k] \in PduSet
  <2>1. link[e] \in Seq(PduSet)
    BY DEF TypeIO
  <2> QED BY <1>1, <2>1, LenProperties
<1>3. PICK M : M = {i \in 1 .. L : link[e][i].type = t /\ link[e][i].from = id}
  OBVIOUS
<1>4. PICK start : start = [i \in 1 .. L |-> link[e][i].pos]
  OBVIOUS
<1>5. PICK size : size = [i \in 1 .. L |-> link[e][i].len]
  OBVIOUS
<1>6. M \in SUBSET (1 .. L) /\ start \in [1 .. L -> Nat] /\ size \in [1 .. L -> Nat]
  <2>1. \A k \in 1 .. L : link[e][k].pos \in Nat /\ link[e][k].len \in Nat
    BY <1>2 DEF PduSet, PduFields
  <2> QED BY <1>3, <1>4, <1>5, <2>1
<1>7. Tiled(M, L, start, size, lo, hi)
  <2>1. \A i \in M : start[i] = link[e][i].pos /\ size[i] = link[e][i].len
    BY <1>3, <1>4, <1>5
  <2>2. M = {i \in DOMAIN link[e] : link[e][i].type = t /\ link[e][i].from = id}
    BY <1>2, <1>3
  <2>3. /\ \A i, j \in M : i < j => link[e][i].pos + link[e][i].len <= link[e][j].pos
        /\ \A i \in M : lo <= link[e][i].pos /\ link[e][i].pos + link[e][i].len <= hi
        /\ \A i \in M : link[e][i].pos = lo \/ \E j \in M :
              j < i /\ link[e][j].pos + link[e][j].len = link[e][i].pos
        /\ hi = lo \/ \E i \in M : link[e][i].pos + link[e][i].len = hi
    BY ONLY <2>2, Chain(e, t, id, lo, hi) DEF Chain
  <2>4. \A i, j \in M : i < j => start[i] + size[i] <= start[j]
    BY ONLY <2>1, <2>3
  <2>5. \A i \in M : lo <= start[i] /\ start[i] + size[i] <= hi
    BY ONLY <2>1, <2>3
  <2>6. \A i \in M : start[i] = lo \/ \E j \in M : j < i /\ start[j] + size[j] = start[i]
    BY ONLY <2>1, <2>3
  <2>7. hi = lo \/ \E i \in M : start[i] + size[i] = hi
    BY ONLY <2>1, <2>3
  <2> QED BY ONLY <2>4, <2>5, <2>6, <2>7 DEF Tiled
<1>8. PICK f : /\ Sums(L, [k \in 1 .. L |-> Carried(link[e][k], t, id)], f)
               /\ InFlight(e, t, id) = f[L]
  <2>1. PICK f : FlightSum(e, t, id, Len(link[e]), f)
    BY InFlightDef, Zenon
  <2> QED BY <1>1, <2>1, Zenon DEF FlightSum
<1>9. [k \in 1 .. L |-> Carried(link[e][k], t, id)]
        = [k \in 1 .. L |-> IF k \in M THEN size[k] ELSE 0]
  <2>1. ASSUME NEW k \in 1 .. L
        PROVE  Carried(link[e][k], t, id) = IF k \in M THEN size[k] ELSE 0
    BY <1>3, <1>5 DEF Carried
  <2> QED BY <2>1
<1>10. PICK w : Weighed(L, M, size, w, f)
  BY <1>8, <1>9 DEF Weighed
<1>11. lo + f[L] = hi
  <2>1. L \in Nat
    BY <1>2
  <2>2. Reaches(lo, f[L], hi)
    BY ONLY <1>6, <1>7, <1>10, <2>1, lo \in Nat, hi \in Nat, TiledSum, Zenon
  <2> QED BY <2>2 DEF Reaches
<1>12. f[L] \in Nat
  BY <1>2, <1>8 DEF Sums
<1> QED BY <1>8, <1>11, <1>12, Zenon

LEMMA MakeChain ==
  ASSUME TrafficInv, NEW x \in Ends, NEW t \in {"DATA", "WINDOW"}, NEW id, NEW lo, NEW hi,
         \A i \in DOMAIN link[x] : link[x][i].type = t /\ link[x][i].from = id =>
           /\ lo <= link[x][i].pos /\ link[x][i].pos + link[x][i].len <= hi
           /\ link[x][i].pos = lo \/ \E j \in 1 .. (i - 1) :
                /\ link[x][j].type = t /\ link[x][j].from = id
                /\ link[x][j].pos + link[x][j].len = link[x][i].pos,
         hi = lo \/ \E m \in Wire(x) : m.type = t /\ m.from = id /\ m.pos + m.len = hi
  PROVE  Chain(x, t, id, lo, hi)
<1>1. PICK M : M = {i \in DOMAIN link[x] : link[x][i].type = t /\ link[x][i].from = id}
  OBVIOUS
<1>2. DOMAIN link[x] = 1 .. Len(link[x]) /\ Len(link[x]) \in Nat
  <2>1. link[x] \in Seq(PduSet)
    BY FlowTypesOK DEF TrafficInv, TypeIO
  <2> QED BY <2>1, LenProperties
<1>3. \A i, j \in M : i < j => link[x][i].pos + link[x][i].len <= link[x][j].pos
  <2>1. LinkOrdered
    BY DEF TrafficInv, FlowInv, PairInv
  <2>2. SUFFICES ASSUME NEW i \in M, NEW j \in M, i < j
                 PROVE  link[x][i].pos + link[x][i].len <= link[x][j].pos
    OBVIOUS
  <2>3. InOrder(link[x][i], link[x][j])
    BY <1>1, <2>1, <2>2 DEF LinkOrdered
  <2> QED BY <1>1, <2>3 DEF InOrder
<1>4. \A i \in M : lo <= link[x][i].pos /\ link[x][i].pos + link[x][i].len <= hi
  BY <1>1
<1>5. \A i \in M : link[x][i].pos = lo \/ \E j \in M :
        j < i /\ link[x][j].pos + link[x][j].len = link[x][i].pos
  <2>1. SUFFICES ASSUME NEW i \in M, link[x][i].pos # lo
                 PROVE  \E j \in M : j < i /\ link[x][j].pos + link[x][j].len = link[x][i].pos
    OBVIOUS
  <2>2. PICK j \in 1 .. (i - 1) : /\ link[x][j].type = t /\ link[x][j].from = id
                                  /\ link[x][j].pos + link[x][j].len = link[x][i].pos
    BY <1>1, <2>1
  <2>3. i \in 1 .. Len(link[x])
    BY <1>1, <1>2
  <2>4. j \in DOMAIN link[x] /\ j < i
    BY <1>2, <2>3
  <2> QED BY <1>1, <2>2, <2>4
<1>6. hi = lo \/ \E i \in M : link[x][i].pos + link[x][i].len = hi
  <2>1. ASSUME NEW m \in Wire(x), m.type = t, m.from = id, m.pos + m.len = hi
        PROVE  \E i \in M : link[x][i].pos + link[x][i].len = hi
    <3>1. PICK i \in DOMAIN link[x] : m = link[x][i]
      BY DEF Wire
    <3> QED BY <1>1, <2>1, <3>1
  <2> QED BY <2>1
<1> QED BY ONLY <1>1, <1>3, <1>4, <1>5, <1>6 DEF Chain

\* DATA in flight lies between what has been received and what has been sent.
LEMMA DataChain ==
  ASSUME TrafficInv, NEW e \in Ends, NEW q, q = Peer(e), NEW a \in Ids, NEW b \in Ids,
         Paired(e, a, b)
  PROVE  Chain(e, "DATA", a, tally[q][b].rcvd, tally[e][a].sent)
<1>1. PICK lo : lo = tally[q][b].rcvd
  OBVIOUS
<1>2. PICK hi : hi = tally[e][a].sent
  OBVIOUS
<1>3. ASSUME NEW i \in DOMAIN link[e], link[e][i].type = "DATA", link[e][i].from = a
      PROVE  /\ lo <= link[e][i].pos /\ link[e][i].pos + link[e][i].len <= hi
             /\ link[e][i].pos = lo \/ \E j \in 1 .. (i - 1) :
                  /\ link[e][j].type = "DATA" /\ link[e][j].from = a
                  /\ link[e][j].pos + link[e][j].len = link[e][i].pos
  <2>1. PICK m \in Wire(e) : m = link[e][i]
    BY DEF Wire
  <2>2. m.to \in Ids /\ Paired(e, a, m.to) /\ PduBalanced(e, m)
    BY <1>3, <2>1, FlightFacts, FlightPaired DEF Talk, ToChannel
  <2>3. m.to = b
    BY <2>2, OnePartner
  <2>4. lo <= m.pos /\ m.pos + m.len <= hi
    BY <1>1, <1>2, <1>3, <2>1, <2>2, <2>3 DEF PduBalanced
  <2>5. m.pos = lo \/ \E j \in 1 .. (i - 1) :
          /\ link[e][j].type = "DATA" /\ link[e][j].from = a
          /\ link[e][j].pos + link[e][j].len = m.pos
    BY <1>1, <1>3, <2>1, <2>3 DEF TrafficInv, StreamInv, NoGap
  <2> QED BY <2>1, <2>4, <2>5
<1>4. hi = lo \/ \E m \in Wire(e) : m.type = "DATA" /\ m.from = a /\ m.pos + m.len = hi
  BY <1>1, <1>2 DEF TrafficInv, StreamInv, NoneMissing
<1>5. "DATA" \in {"DATA", "WINDOW"}
  OBVIOUS
<1> QED BY <1>1, <1>2, <1>3, <1>4, <1>5, MakeChain

\* Credit in flight lies between what has been credited and what has been granted.
LEMMA CreditChain ==
  ASSUME TrafficInv, CreditInv, NEW e \in Ends, NEW q, q = Peer(e),
         NEW a \in Ids, NEW b \in Ids, Paired(e, a, b), ch[q][b].st # "UNUSED"
  PROVE  Chain(e, "WINDOW", a, tally[q][b].credited, tally[e][a].granted)
<1>1. PICK lo : lo = tally[q][b].credited
  OBVIOUS
<1>2. PICK hi : hi = tally[e][a].granted
  OBVIOUS
<1>3. ASSUME NEW i \in DOMAIN link[e], link[e][i].type = "WINDOW", link[e][i].from = a
      PROVE  /\ lo <= link[e][i].pos /\ link[e][i].pos + link[e][i].len <= hi
             /\ link[e][i].pos = lo \/ \E j \in 1 .. (i - 1) :
                  /\ link[e][j].type = "WINDOW" /\ link[e][j].from = a
                  /\ link[e][j].pos + link[e][j].len = link[e][i].pos
  <2>1. PICK m \in Wire(e) : m = link[e][i]
    BY DEF Wire
  <2>2. m.to \in Ids /\ Paired(e, a, m.to) /\ PduBalanced(e, m)
    BY <1>3, <2>1, FlightFacts, FlightPaired DEF Talk, ToChannel
  <2>3. m.to = b
    BY <2>2, OnePartner
  <2>4. lo <= m.pos /\ m.pos + m.len <= hi
    BY <1>1, <1>2, <1>3, <2>1, <2>2, <2>3 DEF PduBalanced
  <2>5. m.pos = lo \/ \E j \in 1 .. (i - 1) :
          /\ link[e][j].type = "WINDOW" /\ link[e][j].from = a
          /\ link[e][j].pos + link[e][j].len = m.pos
    BY <1>1, <1>3, <2>1, <2>3 DEF CreditInv, CreditNoGap
  <2> QED BY <2>1, <2>4, <2>5
<1>4. hi = lo \/ \E m \in Wire(e) : m.type = "WINDOW" /\ m.from = a /\ m.pos + m.len = hi
  BY <1>1, <1>2 DEF CreditInv, CreditNoneMissing
<1>5. "WINDOW" \in {"DATA", "WINDOW"}
  OBVIOUS
<1> QED BY <1>1, <1>2, <1>3, <1>4, <1>5, MakeChain

\* The windows, the counts and what is in flight.
LEMMA WindowSum ==
  ASSUME NEW init \in Nat, NEW recvw \in Nat, NEW sendw \in Nat, NEW sent \in Nat,
         NEW rcvd \in Nat, NEW granted \in Nat, NEW credited \in Nat, NEW d \in Nat,
         NEW w \in Nat, recvw + rcvd = init + granted, sendw + sent = init + credited,
         rcvd + d = sent, credited + w = granted
  PROVE  recvw = sendw + d + w
OBVIOUS

LEMMA FlowConserved ==
  ASSUME TrafficInv, CreditInv
  PROVE  FlowConservation
<1>1. SUFFICES ASSUME NEW e \in Ends, NEW a \in Ids, NEW q, q = Peer(e),
                      NEW b, b = ch[e][a].peer,
                      ch[e][a].st = "OPEN", ch[q][b].st = "OPEN"
               PROVE  ch[q][b].recvw = ch[e][a].sendw + InFlight(e, "DATA", a)
                                                      + InFlight(q, "WINDOW", b)
  BY DEF FlowConservation
<1>2. TypeIO /\ TypeTable /\ TypePast /\ WindowsCount
  BY FlowTypesOK DEF TrafficInv, FlowInv
<1>3. q \in Ends /\ Peer(q) = e /\ b \in Ids /\ Paired(e, a, b) /\ Paired(q, b, a)
  <2>1. q \in Ends /\ Peer(q) = e /\ b \in Ids /\ Paired(e, a, b)
    BY <1>1, SlotFacts
  <2> QED BY <1>1, <2>1, OnePartner
<1>4. ch[e][a] \in ChannelSet /\ ch[q][b] \in ChannelSet
      /\ tally[e][a] \in TallySet /\ tally[q][b] \in TallySet
  BY <1>2, <1>3 DEF TypeTable, TypePast
<1>5. /\ ch[e][a].sendw \in Nat /\ ch[q][b].recvw \in Nat
      /\ tally[e][a].sent \in Nat /\ tally[e][a].credited \in Nat
      /\ tally[q][b].rcvd \in Nat /\ tally[q][b].granted \in Nat
      /\ InitialWindow[q] \in Nat
  BY <1>3, <1>4, ConfigAssumption DEF ChannelSet, ChannelFields, TallySet
<1>6. ch[q][b].recvw + tally[q][b].rcvd = InitialWindow[q] + tally[q][b].granted
  BY <1>1, <1>2, <1>3 DEF WindowsCount, Counted
<1>7. ch[e][a].sendw + tally[e][a].sent = InitialWindow[q] + tally[e][a].credited
  BY <1>1, <1>2 DEF WindowsCount, Counted
<1>8. PICK d \in Nat : d = InFlight(e, "DATA", a) /\ tally[q][b].rcvd + d = tally[e][a].sent
  <2>1. Chain(e, "DATA", a, tally[q][b].rcvd, tally[e][a].sent)
    BY <1>1, <1>3, DataChain
  <2> QED BY <1>2, <1>5, <2>1, ChainSum, Zenon
<1>9. PICK w \in Nat : /\ w = InFlight(q, "WINDOW", b)
                       /\ tally[e][a].credited + w = tally[q][b].granted
  <2>1. Chain(q, "WINDOW", b, tally[e][a].credited, tally[q][b].granted)
    BY <1>1, <1>3, CreditChain
  <2> QED BY <1>2, <1>3, <1>5, <2>1, ChainSum, Zenon
<1>10. ch[q][b].recvw = ch[e][a].sendw + d + w
  <2>1. PICK recvw \in Nat, sendw \in Nat, sent \in Nat, rcvd \in Nat, granted \in Nat,
             credited \in Nat, init \in Nat :
          /\ recvw = ch[q][b].recvw /\ sendw = ch[e][a].sendw
          /\ sent = tally[e][a].sent /\ credited = tally[e][a].credited
          /\ rcvd = tally[q][b].rcvd /\ granted = tally[q][b].granted
          /\ init = InitialWindow[q]
    BY ONLY <1>5, Zenon
  <2>2. recvw + rcvd = init + granted /\ sendw + sent = init + credited
    BY ONLY <1>6, <1>7, <2>1, Zenon
  <2>3. rcvd + d = sent /\ credited + w = granted
    BY ONLY <1>8, <1>9, <2>1, Zenon
  <2>4. recvw = sendw + d + w
    BY ONLY <2>2, <2>3, recvw \in Nat, sendw \in Nat, sent \in Nat, rcvd \in Nat,
            granted \in Nat, credited \in Nat, init \in Nat, d \in Nat, w \in Nat
  <2> QED BY ONLY <2>1, <2>4, Zenon
<1> QED BY <1>8, <1>9, <1>10

----------------------------------------------------------------------------
(* The theorems.  All of them rest on FlowInv, and so on hosts that keep their
   receive windows within a uint32_t. *)

\* A PDU that was in flight while its channel was closed is never taken for traffic
\* of a newer one: whatever DATA, WINDOW, EOF or CLOSE finds in the slot it
\* names is the very channel its sender meant, or one that has its CONFIRM coming
\* first.  The handlers look slots up by id alone, and ids are never reused.
THEOREM LateTrafficHarmless ==
  ASSUME RecvCap < WinMod
  PROVE  Spec => []LateTraffic
<1>1. TrafficInv => LateTraffic
  BY DEF TrafficInv
<1>. QED
  BY <1>1, TrafficInvariant, PTL

\* sodchan_recv_bytes sets ERROR on PDUs of an honest peer for two reasons only, both
\* of this end's own making: its host closed the channel the PDU is for, or the
\* client disconnected before AUTH_OK came.
THEOREM ErrorsAreLocal ==
  ASSUME RecvCap < WinMod
  PROVE  Spec => []ErrorHasLocalCause
<1>1. TrafficInv => ErrorHasLocalCause
  BY DEF TrafficInv
<1>. QED
  BY <1>1, TrafficInvariant, PTL

\* No half-open channel goes unexplained: an OPEN channel has an open partner, one
\* that is about to read CONFIRM, or one whose host has closed it, and then
\* CLOSE is on its way, was dropped on a full out_buf, or was not owed.
THEOREM CounterpartsAccounted ==
  ASSUME RecvCap < WinMod
  PROVE  Spec => []CounterpartAccounted
<1>1. TrafficInv => CounterpartAccounted
  BY DEF TrafficInv
<1>. QED
  BY <1>1, TrafficInvariant, PTL

\* No channel stays in OPENING without a reason one can name: the request or
\* its answer is in flight, the peer's host has yet to decide, the peer's host closed
\* the request, or OPEN_FAIL was dropped on a full out_buf.
THEOREM OpeningsAccounted ==
  ASSUME RecvCap < WinMod
  PROVE  Spec => []OpeningAccounted
<1>1. TrafficInv => OpeningAccounted
  BY DEF TrafficInv
<1>. QED
  BY <1>1, TrafficInvariant, PTL

\* The PDUs of one channel are in order on the stream: CONFIRM first, no DATA after
\* EOF, nothing after CLOSE, and next to nothing after DISCONNECT.
THEOREM StreamsWellFormed ==
  ASSUME RecvCap < WinMod
  PROVE  Spec => []StreamGrammar
<1>1. TrafficInv => StreamGrammar
  BY DEF TrafficInv
<1>. QED
  BY <1>1, TrafficInvariant, PTL

\* Once EOF has set remote_eof, no DATA for the channel is on its way: a host that
\* has seen CHANNEL_EOF has seen the whole stream.
THEOREM EofFinal ==
  ASSUME RecvCap < WinMod
  PROVE  Spec => []EofIsFinal
<1>1. TrafficInv => EofIsFinal
  BY DEF TrafficInv
<1>. QED
  BY <1>1, TrafficInvariant, PTL

\* CHANNEL_DATA events are in stream order and without gaps in the event ring and
\* come before CHANNEL_EOF, unless the full ring has dropped one of the channel's.
THEOREM EventsInStreamOrder ==
  ASSUME RecvCap < WinMod
  PROVE  Spec => []EventStream
<1>1. TrafficInv => EventStream
  BY DEF TrafficInv
<1>. QED
  BY <1>1, TrafficInvariant, PTL

\* Flow control conserves credit: what the sender of an open channel may still send,
\* the DATA and the WINDOW credit in flight are exactly the receiver's recv_window.
\* The four counters of a pair are sums over the PDUs the two ends have exchanged,
\* and what is in flight is what separates them (CreditInv, StreamInv).
THEOREM CreditConserved ==
  ASSUME RecvCap < WinMod
  PROVE  Spec => []FlowConservation
<1>1. TrafficInv /\ CreditInv => FlowConservation
  BY FlowConserved
<1>. QED
  BY <1>1, CreditInvariant, PTL

============================================================================
