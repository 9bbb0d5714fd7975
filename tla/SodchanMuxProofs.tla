------------------------- MODULE SodchanMuxProofs --------------------------
(***************************************************************************)
(* Proofs about SodchanMux for every configuration and every bound: type   *)
(* correctness and the slot accounting of the channel table (TableInv),    *)
(* pairing and flow control when hosts keep their receive windows within a *)
(* uint32_t (FlowInv, hence NoOverWindow and PairingAgreement), and that   *)
(* the multiplexer implements SodchanChannel.                              *)
(*                                                                         *)
(* Eight actions matter for pairing and flow control.  All others only     *)
(* free slots, touch the EOF flags and move PDUs that say nothing about    *)
(* windows: TameStep covers them together.  For the refinement, every      *)
(* action changes what is promised of one channel at most; the bounds of   *)
(* Put and Get are FlowInv's arithmetic, the guards of Answer are PairInv. *)
(***************************************************************************)
EXTENDS SodchanMuxInv, FiniteSetTheorems, SequenceTheorems, TLAPS

----------------------------------------------------------------------------
(* Constants and constructors *)

\* There are two ends, each the other's peer.
LEMMA PeerFacts ==
  ASSUME NEW e \in Ends
  PROVE  /\ Peer(e) \in Ends
         /\ Peer(e) # e
         /\ Peer(Peer(e)) = e
         /\ \A x \in Ends : x = e \/ x = Peer(e)
BY DEF Ends, Peer, Client, Server

\* Ids are natural numbers, all different from NoId.
LEMMA IdFacts ==
  /\ Ids \subseteq Nat
  /\ NoId \notin Ids
  /\ IsFiniteSet(Ids)
<1>1. /\ OpenLimit[Client] \in Nat
      /\ OpenLimit[Server] \in Nat
  BY BoundAssumption DEF Ends, Client, Server
<1>2. IsFiniteSet(Ids)
  <2>. DEFINE top == OpenLimit[Client] + OpenLimit[Server] - 1
  <2>1. top \in Int /\ 0 \in Int
    BY <1>1
  <2>2. IsFiniteSet(0 .. top)
    BY <2>1, FS_Interval
  <2>. QED
    BY <2>2 DEF Ids
<1>. QED
  BY <1>1, <1>2 DEF Ids, NoId

\* The PDU, event and slot constructors have the declared types.
LEMMA PduType ==
  ASSUME NEW t \in PduTypes, NEW from \in Ids \cup {NoId}, NEW to \in Ids \cup {NoId},
         t \in FromChannel => from \in Ids,
         t \in ToChannel => to \in Ids
  PROVE  Pdu(t, from, to) \in PduSet
BY DEF Pdu, PduSet, PduFields

LEMMA PduFillType ==
  ASSUME NEW m \in PduSet, NEW p \in Nat, NEW n \in Nat
  PROVE  [m EXCEPT !.pos = p, !.len = n] \in PduSet
BY DEF PduSet, PduFields

LEMMA PduAnnounceType ==
  ASSUME NEW m \in PduSet, NEW n \in Nat, NEW k \in Nat
  PROVE  /\ [m EXCEPT !.len = n, !.max = k] \in PduSet
         /\ \A name \in Names :
              [m EXCEPT !.len = n, !.max = k, !.name = name] \in PduSet
BY DEF PduSet, PduFields

LEMMA EventType ==
  ASSUME NEW t \in EventTypes, NEW id \in Ids \cup {NoId}
  PROVE  /\ Event(t, id) \in EventSet
         /\ \A p, n \in Nat :
              [Event(t, id) EXCEPT !.pos = p, !.len = n] \in EventSet
BY DEF Event, EventSet

LEMMA FreeSlotType == FreeSlot \in ChannelSet /\ FreeSlot.st = "UNUSED"
BY DEF FreeSlot, ChannelSet, ChannelFields, ChStates

----------------------------------------------------------------------------
(* The building blocks of the actions preserve their part of TypeOK *)

LEMMA SendIO ==
  ASSUME TypeIO, NEW e \in Ends, NEW m \in PduSet, Send(e, m)
  PROVE  TypeIO'
<1>1. link[e] \in Seq(PduSet)
  BY DEF TypeIO
<1>2. Append(link[e], m) \in Seq(PduSet) /\ Len(Append(link[e], m)) = Len(link[e]) + 1
  BY <1>1, AppendProperties
<1>3. OutCap \in Nat /\ Len(link[e]) \in Nat
  BY <1>1, ConfigAssumption, LenProperties
<1>. QED
  BY <1>1, <1>2, <1>3 DEF TypeIO, Send, Full

LEMMA TrySendIO ==
  ASSUME TypeIO, NEW e \in Ends, NEW m \in PduSet, TrySend(e, m)
  PROVE  TypeIO'
<1>1. CASE Send(e, m)
  BY <1>1, SendIO
<1>2. CASE ~Send(e, m)
  <2>1. <<m.type, m.to>> \in PduTypes \X (Ids \cup {NoId})
    BY DEF PduSet, PduFields
  <2>. QED
    BY <1>2, <2>1 DEF TypeIO, TrySend, io
<1>. QED
  BY <1>1, <1>2

LEMMA IncomingType ==
  ASSUME TypeIO, NEW e \in Ends, Readable(e)
  PROVE  /\ Incoming(e) \in PduSet
         /\ link[Peer(e)] \in Seq(PduSet)
         /\ link[Peer(e)] # <<>>
         /\ Tail(link[Peer(e)]) \in Seq(PduSet)
         /\ Len(Tail(link[Peer(e)])) = Len(link[Peer(e)]) - 1
         /\ Len(link[Peer(e)]) \in Nat
<1>1. Peer(e) \in Ends
  BY PeerFacts
<1>2. link[Peer(e)] \in Seq(PduSet) /\ outn[Peer(e)] \in Nat
  BY <1>1, ConfigAssumption DEF TypeIO
<1>3. link[Peer(e)] # <<>>
  BY <1>2, EmptySeq, LenProperties DEF Readable
<1>. QED
  BY <1>2, <1>3, HeadTailProperties, LenProperties DEF Incoming

LEMMA ConsumeIO ==
  ASSUME TypeIO, NEW e \in Ends, Readable(e), Consume(e)
  PROVE  TypeIO'
<1>1. Peer(e) \in Ends
  BY PeerFacts
<1>2. outn[Peer(e)] \in Nat /\ OutCap \in Nat
  BY <1>1, ConfigAssumption DEF TypeIO
<1>. QED
  BY <1>1, <1>2, IncomingType DEF TypeIO, Consume, Readable

LEMMA ConsumeAndTrySendIO ==
  ASSUME TypeIO, NEW e \in Ends, NEW m \in PduSet, Readable(e),
         ConsumeAndTrySend(e, m)
  PROVE  TypeIO'
<1>1. Peer(e) \in Ends /\ Peer(e) # e
  BY PeerFacts
<1>2. /\ outn[Peer(e)] \in Nat /\ OutCap \in Nat
      /\ outn[e] \in Nat /\ link[e] \in Seq(PduSet) /\ Len(link[e]) \in Nat
  BY <1>1, ConfigAssumption, LenProperties DEF TypeIO
<1>3. Append(link[e], m) \in Seq(PduSet) /\ Len(Append(link[e], m)) = Len(link[e]) + 1
  BY <1>2, AppendProperties
<1>4. /\ link \in [Ends -> Seq(PduSet)]
      /\ outn \in [Ends -> 0 .. OutCap]
      /\ \A x \in Ends : outn[x] <= Len(link[x])
      /\ pduLost \in [Ends -> SUBSET (PduTypes \X (Ids \cup {NoId}))]
  BY DEF TypeIO
<1>5. Len(link[Peer(e)]) > outn[Peer(e)]
  BY DEF Readable
<1>6. CASE ~Full(e)
  <2>1. /\ link' = [link EXCEPT ![Peer(e)] = Tail(@), ![e] = Append(@, m)]
        /\ outn' = [outn EXCEPT ![e] = @ + 1]
        /\ pduLost' = pduLost
    BY <1>6 DEF ConsumeAndTrySend
  <2>2. /\ link' \in [Ends -> Seq(PduSet)]
        /\ link'[e] = Append(link[e], m)
        /\ link'[Peer(e)] = Tail(link[Peer(e)])
    BY <2>1, <1>1, <1>3, <1>4, IncomingType
  <2>3. outn' \in [Ends -> 0 .. OutCap]
    BY <2>1, <1>2, <1>4, <1>6 DEF Full
  <2>4. \A x \in Ends : outn'[x] <= Len(link'[x])
    <3>1. outn'[e] <= Len(link'[e])
      BY <2>1, <2>2, <1>2, <1>3, <1>4
    <3>2. outn'[Peer(e)] <= Len(link'[Peer(e)])
      BY <2>1, <2>2, <1>1, <1>2, <1>4, <1>5, IncomingType
    <3>. QED
      BY <3>1, <3>2, PeerFacts
  <2>. QED
    BY <2>1, <2>2, <2>3, <2>4, <1>4 DEF TypeIO
<1>7. CASE Full(e)
  <2>1. <<m.type, m.to>> \in PduTypes \X (Ids \cup {NoId})
    BY DEF PduSet, PduFields
  <2>2. /\ link' = [link EXCEPT ![Peer(e)] = Tail(@)]
        /\ outn' = outn
        /\ pduLost' = [pduLost EXCEPT ![e] = @ \cup {<<m.type, m.to>>}]
    BY <1>7 DEF ConsumeAndTrySend
  <2>3. /\ link' \in [Ends -> Seq(PduSet)]
        /\ link'[e] = link[e]
        /\ link'[Peer(e)] = Tail(link[Peer(e)])
    BY <2>2, <1>1, <1>4, IncomingType
  <2>4. \A x \in Ends : outn'[x] <= Len(link'[x])
    <3>1. outn'[Peer(e)] <= Len(link'[Peer(e)])
      BY <2>2, <2>3, <1>1, <1>2, <1>4, <1>5, IncomingType
    <3>. QED
      BY <3>1, <2>2, <2>3, <1>4, PeerFacts
  <2>5. pduLost' \in [Ends -> SUBSET (PduTypes \X (Ids \cup {NoId}))]
    BY <2>1, <2>2, <1>4
  <2>. QED
    BY <2>2, <2>3, <2>4, <2>5, <1>4 DEF TypeIO
<1>. QED
  BY <1>6, <1>7

LEMMA QueueEventHost ==
  ASSUME TypeHost, NEW e \in Ends, NEW ev \in EventSet, QueueEvent(e, ev)
  PROVE  TypeHost'
<1>1. evq[e] \in Seq(EventSet) /\ EventCap \in Nat /\ Len(evq[e]) \in Nat
  BY ConfigAssumption, LenProperties DEF TypeHost
<1>2. Append(evq[e], ev) \in Seq(EventSet) /\ Len(Append(evq[e], ev)) = Len(evq[e]) + 1
  BY <1>1, AppendProperties
<1>3. <<ev.type, ev.id>> \in EventTypes \X (Ids \cup {NoId})
  BY DEF EventSet
<1>4. /\ evq \in [Ends -> Seq(EventSet)]
      /\ \A x \in Ends : Len(evq[x]) <= EventCap
      /\ known \in [Ends -> SUBSET (Ids \cup {NoId})]
      /\ evLost \in [Ends -> SUBSET (EventTypes \X (Ids \cup {NoId}))]
  BY DEF TypeHost
<1>5. CASE Len(evq[e]) < EventCap
  <2>1. /\ evq' = [evq EXCEPT ![e] = Append(@, ev)]
        /\ evLost' = evLost /\ known' = known
    BY <1>1, <1>5 DEF QueueEvent
  <2>. QED
    BY <2>1, <1>1, <1>2, <1>4, <1>5 DEF TypeHost
<1>6. CASE ~(Len(evq[e]) < EventCap)
  <2>1. /\ evLost' = [evLost EXCEPT ![e] = @ \cup {<<ev.type, ev.id>>}]
        /\ evq' = evq /\ known' = known
    BY <1>6 DEF QueueEvent
  <2>. QED
    BY <2>1, <1>3, <1>4 DEF TypeHost
<1>. QED
  BY <1>5, <1>6

----------------------------------------------------------------------------
(* The channel table: a step allocates a slot, frees one, edits one that stays
   in use, or leaves the table alone. *)

LEMMA LiveFinite ==
  ASSUME NEW e \in Ends
  PROVE  IsFiniteSet(Live(e))
BY IdFacts, FS_Subset DEF Live

LEMMA AllocTable ==
  ASSUME TypeTable, SlotAccounting, UnusedAhead,
         NEW e \in Ends, NEW slot \in ChannelSet, slot.st # "UNUSED",
         CanAlloc(e), Alloc(e, slot)
  PROVE  TypeTable' /\ SlotAccounting' /\ UnusedAhead'
<1>. DEFINE n == nextId[e]
<1>1. n \in Ids /\ n \in Nat /\ active[e] \in Nat /\ MaxChannels[e] \in Nat
  BY IdFacts, ConfigAssumption DEF CanAlloc, TypeTable
<1>2. /\ ch' = [ch EXCEPT ![e][n] = slot]
      /\ nextId' = [nextId EXCEPT ![e] = n + 1]
      /\ active' = [active EXCEPT ![e] = @ + 1]
  BY DEF Alloc
<1>3. TypeTable'
  BY <1>1, <1>2 DEF TypeTable
<1>4. ch[e][n] = FreeSlot
  BY <1>1 DEF UnusedAhead
<1>5. \A x \in Ends, i \in Ids :
        ch'[x][i] = IF x = e /\ i = n THEN slot ELSE ch[x][i]
  BY <1>1, <1>2 DEF TypeTable
<1>6. Live(e)' = Live(e) \cup {n} /\ n \notin Live(e)
  BY <1>1, <1>4, <1>5, FreeSlotType DEF Live
<1>7. Cardinality(Live(e)') = Cardinality(Live(e)) + 1
  BY <1>6, LiveFinite, FS_AddElement
<1>8. \A x \in Ends \ {e} : Live(x)' = Live(x)
  BY <1>5 DEF Live
<1>9. SlotAccounting'
  BY <1>1, <1>2, <1>7, <1>8 DEF SlotAccounting, TypeTable, CanAlloc
<1>10. UnusedAhead'
  BY <1>1, <1>2, <1>5, IdFacts DEF UnusedAhead, TypeTable
<1>. QED
  BY <1>3, <1>9, <1>10

LEMMA FreeTable ==
  ASSUME TypeTable, SlotAccounting, UnusedAhead,
         NEW e \in Ends, NEW id \in Ids, ch[e][id].st # "UNUSED", Free(e, id)
  PROVE  TypeTable' /\ SlotAccounting' /\ UnusedAhead'
<1>1. /\ ch' = [ch EXCEPT ![e][id] = FreeSlot]
      /\ nextId' = nextId
      /\ active' = [active EXCEPT ![e] = @ - 1]
  BY DEF Free
<1>2. \A x \in Ends, i \in Ids :
        ch'[x][i] = IF x = e /\ i = id THEN FreeSlot ELSE ch[x][i]
  BY <1>1 DEF TypeTable
<1>3. Live(e)' = Live(e) \ {id} /\ id \in Live(e)
  BY <1>2, FreeSlotType DEF Live
<1>4. /\ Cardinality(Live(e)') = Cardinality(Live(e)) - 1
      /\ Cardinality(Live(e)') \in Nat
  BY <1>3, LiveFinite, FS_RemoveElement, FS_CardinalityType
<1>5. \A x \in Ends \ {e} : Live(x)' = Live(x)
  BY <1>2 DEF Live
<1>6. active[e] \in Nat /\ active[e] - 1 \in Nat /\ MaxChannels[e] \in Nat
  BY <1>4, ConfigAssumption DEF SlotAccounting, TypeTable
<1>7. TypeTable'
  BY <1>1, <1>6, FreeSlotType DEF TypeTable
<1>8. SlotAccounting'
  BY <1>1, <1>4, <1>5, <1>6 DEF SlotAccounting, TypeTable
<1>9. UnusedAhead'
  BY <1>1, <1>2 DEF UnusedAhead
<1>. QED
  BY <1>7, <1>8, <1>9

LEMMA EditTable ==
  ASSUME TypeTable, SlotAccounting, UnusedAhead,
         NEW e \in Ends, NEW id \in Ids, NEW c \in ChannelSet,
         ch[e][id].st # "UNUSED", c.st # "UNUSED",
         ch' = [ch EXCEPT ![e][id] = c], nextId' = nextId, active' = active
  PROVE  TypeTable' /\ SlotAccounting' /\ UnusedAhead'
<1>1. \A x \in Ends, i \in Ids :
        ch'[x][i] = IF x = e /\ i = id THEN c ELSE ch[x][i]
  BY DEF TypeTable
<1>2. \A x \in Ends : Live(x)' = Live(x)
  BY <1>1 DEF Live
<1>3. TypeTable'
  BY DEF TypeTable
<1>4. SlotAccounting'
  BY <1>2 DEF SlotAccounting
<1>5. UnusedAhead'
  BY <1>1, FreeSlotType DEF UnusedAhead
<1>. QED
  BY <1>3, <1>4, <1>5

LEMMA SameTable ==
  ASSUME TypeTable, SlotAccounting, UnusedAhead, UNCHANGED table
  PROVE  TypeTable' /\ SlotAccounting' /\ UnusedAhead'
BY DEF TypeTable, SlotAccounting, UnusedAhead, Live, table

\* Edits of single fields keep a slot a slot.
LEMMA EditFields ==
  ASSUME NEW c \in ChannelSet, NEW n \in Nat, NEW k \in Nat, NEW p \in Ids,
         c.st # "UNUSED"
  PROVE  /\ [c EXCEPT !.sendw = n] \in ChannelSet
         /\ [c EXCEPT !.recvw = n] \in ChannelSet
         /\ [c EXCEPT !.leof = TRUE] \in ChannelSet
         /\ [c EXCEPT !.reof = TRUE] \in ChannelSet
         /\ c.peer \in Ids => [c EXCEPT !.st = "OPEN", !.recvw = n] \in ChannelSet
         /\ [c EXCEPT !.st = "OPEN", !.peer = p, !.sendw = n, !.max = k] \in ChannelSet
BY DEF ChannelSet, ChannelFields, ChStates

----------------------------------------------------------------------------
(* TableInv is inductive *)

LEMMA TableInit == Init => TableInv
<1>. SUFFICES ASSUME Init PROVE TableInv
  OBVIOUS
<1>1. TypeSession
  BY DEF Init, TypeSession, States, Causes
<1>2. TypeTable /\ UnusedAhead
  BY FreeSlotType DEF Init, TypeTable, UnusedAhead
<1>3. SlotAccounting
  <2>1. \A e \in Ends : Live(e) = {}
    BY FreeSlotType DEF Init, Live
  <2>2. \A e \in Ends : MaxChannels[e] \in Nat /\ active[e] = 0
    BY ConfigAssumption DEF Init
  <2>3. Cardinality({}) = 0
    BY FS_EmptySet
  <2>. QED
    BY <2>1, <2>2, <2>3 DEF SlotAccounting
<1>4. TypeIO
  <2>1. Pdu("AUTH_OK", NoId, NoId) \in PduSet
    BY PduType DEF PduTypes, FromChannel, ToChannel
  <2>2. /\ <<Pdu("AUTH_OK", NoId, NoId)>> \in Seq(PduSet)
        /\ Len(<<Pdu("AUTH_OK", NoId, NoId)>>) = 1
        /\ <<>> \in Seq(PduSet) /\ Len(<<>>) = 0
    BY <2>1
  <2>3. 0 \in 0 .. OutCap /\ 1 \in 0 .. OutCap
    BY ConfigAssumption
  <2>. QED
    BY <2>2, <2>3 DEF Init, TypeIO
<1>5. TypeHost
  <2>1. Event("AUTHENTICATED", NoId) \in EventSet
    BY EventType DEF EventTypes
  <2>2. /\ <<Event("AUTHENTICATED", NoId)>> \in Seq(EventSet)
        /\ Len(<<Event("AUTHENTICATED", NoId)>>) = 1
        /\ <<>> \in Seq(EventSet) /\ Len(<<>>) = 0
    BY <2>1
  <2>. QED
    BY <2>2, ConfigAssumption DEF Init, TypeHost
<1>6. TypePast
  BY DEF Init, TypePast, TallySet
<1>. QED
  BY <1>1, <1>2, <1>3, <1>4, <1>5, <1>6 DEF TableInv, TypeOK

\* The parts of TypeOK that a step leaves alone.
LEMMA SameParts ==
  /\ TypeSession /\ UNCHANGED <<state, err>> => TypeSession'
  /\ TypeIO /\ UNCHANGED <<link, outn, pduLost>> => TypeIO'
  /\ TypeHost /\ UNCHANGED host => TypeHost'
  /\ TypePast /\ UNCHANGED <<closed, acc, tally>> => TypePast'
BY DEF TypeSession, TypeIO, TypeHost, TypePast, host

LEMMA FailTable ==
  ASSUME TableInv, NEW e \in Ends, NEW cause \in Causes, NEW id \in Ids \cup {NoId},
         Fail(e, cause, id)
  PROVE  TableInv'
<1>1. TypeSession'
  BY DEF TableInv, TypeOK, TypeSession, Fail, States
<1>2. TypeHost'
  BY QueueEventHost, EventType DEF TableInv, TypeOK, Fail, EventTypes
<1>3. TypeIO' /\ TypePast'
  BY SameParts DEF TableInv, TypeOK, Fail, io, past
<1>4. TypeTable' /\ SlotAccounting' /\ UnusedAhead'
  BY SameTable DEF TableInv, TypeOK, Fail
<1>. QED
  BY <1>1, <1>2, <1>3, <1>4 DEF TableInv, TypeOK

LEMMA CallTable ==
  ASSUME TableInv, NEW e \in Ends, Call(e)
  PROVE  TableInv'
<1>. USE DEF TableInv, TypeOK
<1>c. /\ InitialWindow[e] \in Nat /\ MaxPacket[e] \in Nat /\ WinMod \in Nat \ {0}
  BY ConfigAssumption, WidthAssumption
<1>1. ASSUME NEW name \in Names, ChannelOpen(e, name)
      PROVE  TableInv'
  <2>. DEFINE n == nextId[e]
  <2>1. n \in Ids /\ n \in Ids \cup {NoId}
    BY <1>1 DEF ChannelOpen, CanAlloc
  <2>2. Pdu("OPEN", n, NoId) \in PduSet
    BY <2>1, PduType DEF PduTypes, FromChannel, ToChannel
  <2>3. TypeIO'
    BY <1>1, <1>c, <2>2, PduAnnounceType, SendIO DEF ChannelOpen
  <2>4. [FreeSlot EXCEPT !.st = "OPENING", !.recvw = InitialWindow[e],
                         !.max = MaxPacket[e]] \in ChannelSet
    BY <1>c DEF FreeSlot, ChannelSet, ChannelFields, ChStates
  <2>5. TypeTable' /\ SlotAccounting' /\ UnusedAhead'
    BY <1>1, <2>4, AllocTable DEF ChannelOpen, FreeSlot
  <2>6. TypeHost'
    BY <1>1, <2>1 DEF ChannelOpen, TypeHost
  <2>7. TypeSession' /\ TypePast'
    BY <1>1, SameParts DEF ChannelOpen
  <2>. QED
    BY <2>3, <2>5, <2>6, <2>7
<1>2. ASSUME ChannelOpenFull(e)
      PROVE  TableInv'
  <2>1. TypeTable'
    BY <1>2 DEF ChannelOpenFull, TypeTable
  <2>2. SlotAccounting'
    BY <1>2 DEF ChannelOpenFull, SlotAccounting, Live
  <2>3. UnusedAhead'
    BY <1>2, IdFacts DEF ChannelOpenFull, UnusedAhead, TypeTable
  <2>4. TypeSession' /\ TypeIO' /\ TypeHost' /\ TypePast'
    BY <1>2, SameParts DEF ChannelOpenFull, io, past
  <2>. QED
    BY <2>1, <2>2, <2>3, <2>4
<1>3. ASSUME NEW id \in Ids, ChannelAccept(e, id)
      PROVE  TableInv'
  <2>1. ch[e][id] \in ChannelSet /\ ch[e][id].st = "PENDING" /\ ch[e][id].peer \in Ids
    BY <1>3 DEF ChannelAccept, TypeTable, ChannelSet
  <2>2. Pdu("CONFIRM", id, ch[e][id].peer) \in PduSet
    BY <2>1, PduType DEF PduTypes
  <2>3. TypeIO'
    BY <1>3, <1>c, <2>2, PduAnnounceType, SendIO DEF ChannelAccept
  <2>. DEFINE c == [ch[e][id] EXCEPT !.st = "OPEN", !.recvw = InitialWindow[e]]
  <2>4. ch' = [ch EXCEPT ![e][id] = c]
    BY <1>3 DEF ChannelAccept, TypeTable, ChannelSet, ChannelFields
  <2>5. c \in ChannelSet /\ c.st = "OPEN"
    BY <2>1, <1>c, EditFields DEF ChannelSet, ChannelFields
  <2>6. TypeTable' /\ SlotAccounting' /\ UnusedAhead'
    BY <1>3, <2>1, <2>4, <2>5, EditTable DEF ChannelAccept
  <2>7. TypeHost'
    BY <1>3, EventType, QueueEventHost DEF ChannelAccept, EventTypes
  <2>8. TypeSession' /\ TypePast'
    BY <1>3, SameParts DEF ChannelAccept
  <2>. QED
    BY <2>3, <2>6, <2>7, <2>8
<1>4. ASSUME NEW id \in Ids, ChannelReject(e, id)
      PROVE  TableInv'
  <2>1. ch[e][id].st = "PENDING" /\ ch[e][id].peer \in Ids
    BY <1>4 DEF ChannelReject, TypeTable, ChannelSet
  <2>2. Pdu("OPEN_FAIL", NoId, ch[e][id].peer) \in PduSet
    BY <2>1, PduType DEF PduTypes, FromChannel
  <2>3. TypeIO'
    BY <1>4, <2>2, SendIO DEF ChannelReject
  <2>4. TypeTable' /\ SlotAccounting' /\ UnusedAhead'
    BY <1>4, <2>1, FreeTable DEF ChannelReject
  <2>5. TypeSession' /\ TypeHost' /\ TypePast'
    BY <1>4, SameParts DEF ChannelReject
  <2>. QED
    BY <2>3, <2>4, <2>5
<1>5. ASSUME NEW id \in Ids, NEW n \in SendLens, ChannelSend(e, id, n)
      PROVE  TableInv'
  <2>1. /\ ch[e][id] \in ChannelSet /\ ch[e][id].st = "OPEN" /\ ch[e][id].peer \in Ids
        /\ n \in Nat /\ ch[e][id].sendw - n \in Nat /\ tally[e][id] \in TallySet
    BY <1>5, BoundAssumption DEF ChannelSend, TypeTable, ChannelSet, ChannelFields, TypePast
  <2>2. Pdu("DATA", id, ch[e][id].peer) \in PduSet
    BY <2>1, PduType DEF PduTypes
  <2>3. TypeIO'
    BY <1>5, <2>1, <2>2, PduFillType, SendIO DEF ChannelSend, TallySet
  <2>. DEFINE c == [ch[e][id] EXCEPT !.sendw = @ - n]
  <2>4. ch' = [ch EXCEPT ![e][id] = c]
    BY <1>5 DEF ChannelSend
  <2>5. c \in ChannelSet /\ c.st = "OPEN"
    BY <2>1, IdFacts, EditFields DEF ChannelSet, ChannelFields
  <2>6. TypeTable' /\ SlotAccounting' /\ UnusedAhead'
    BY <1>5, <2>1, <2>4, <2>5, EditTable DEF ChannelSend
  <2>7. TypePast'
    <3>1. [tally[e][id] EXCEPT !.sent = @ + n] \in TallySet
      BY <2>1 DEF TallySet
    <3>. QED
      BY <1>5, <3>1 DEF ChannelSend, TypePast
  <2>8. TypeSession' /\ TypeHost'
    BY <1>5, SameParts DEF ChannelSend
  <2>. QED
    BY <2>3, <2>6, <2>7, <2>8
<1>6. ASSUME NEW id \in Ids, ChannelEof(e, id)
      PROVE  TableInv'
  <2>1. ch[e][id] \in ChannelSet /\ ch[e][id].st = "OPEN" /\ ch[e][id].peer \in Ids
    BY <1>6 DEF ChannelEof, TypeTable, ChannelSet
  <2>2. Pdu("EOF", id, ch[e][id].peer) \in PduSet
    BY <2>1, PduType DEF PduTypes
  <2>3. TypeIO'
    BY <1>6, <2>2, SendIO DEF ChannelEof
  <2>. DEFINE c == [ch[e][id] EXCEPT !.leof = TRUE]
  <2>4. ch' = [ch EXCEPT ![e][id] = c]
    BY <1>6 DEF ChannelEof
  <2>5. c \in ChannelSet /\ c.st = "OPEN"
    BY <2>1, <1>c, EditFields DEF ChannelSet, ChannelFields
  <2>6. TypeTable' /\ SlotAccounting' /\ UnusedAhead'
    BY <1>6, <2>1, <2>4, <2>5, EditTable DEF ChannelEof
  <2>7. TypeSession' /\ TypeHost' /\ TypePast'
    BY <1>6, SameParts DEF ChannelEof
  <2>. QED
    BY <2>3, <2>6, <2>7
<1>7. ASSUME NEW id \in Ids, ChannelClose(e, id)
      PROVE  TableInv'
  <2>1. TypeIO'
    <3>1. CASE ch[e][id].st = "OPEN"
      <4>1. ch[e][id].peer \in Ids
        BY <3>1 DEF TypeTable, ChannelSet
      <4>2. Pdu("CLOSE", id, ch[e][id].peer) \in PduSet
        BY <4>1, PduType DEF PduTypes
      <4>. QED
        BY <1>7, <3>1, <4>2, TrySendIO DEF ChannelClose
    <3>2. CASE ch[e][id].st # "OPEN"
      BY <1>7, <3>2, SameParts DEF ChannelClose, io
    <3>. QED
      BY <3>1, <3>2
  <2>2. TypeTable' /\ SlotAccounting' /\ UnusedAhead'
    BY <1>7, FreeTable DEF ChannelClose
  <2>3. TypePast'
    BY <1>7 DEF ChannelClose, TypePast
  <2>4. TypeSession' /\ TypeHost'
    BY <1>7, SameParts DEF ChannelClose
  <2>. QED
    BY <2>1, <2>2, <2>3, <2>4
<1>8. ASSUME NEW id \in Ids, NEW credit \in Credits, ChannelWindowAdjust(e, id, credit)
      PROVE  TableInv'
  <2>1. /\ ch[e][id] \in ChannelSet /\ ch[e][id].st = "OPEN" /\ ch[e][id].peer \in Ids
        /\ credit \in Nat /\ ch[e][id].recvw \in Nat /\ tally[e][id] \in TallySet
    BY <1>8, BoundAssumption DEF ChannelWindowAdjust, TypeTable, ChannelSet, ChannelFields, TypePast
  <2>2. Pdu("WINDOW", id, ch[e][id].peer) \in PduSet
    BY <2>1, PduType DEF PduTypes
  <2>3. TypeIO'
    BY <1>8, <2>1, <2>2, PduFillType, SendIO DEF ChannelWindowAdjust, TallySet
  <2>. DEFINE w == (ch[e][id].recvw + credit) % WinMod
              c == [ch[e][id] EXCEPT !.recvw = w]
  <2>4. ch' = [ch EXCEPT ![e][id] = c]
    BY <1>8 DEF ChannelWindowAdjust
  <2>5. w \in Nat
    BY <2>1, <1>c
  <2>6. c \in ChannelSet /\ c.st = "OPEN"
    BY <2>1, <2>5, IdFacts, EditFields DEF ChannelSet, ChannelFields
  <2>7. TypeTable' /\ SlotAccounting' /\ UnusedAhead'
    BY <1>8, <2>1, <2>4, <2>6, EditTable DEF ChannelWindowAdjust
  <2>8. TypePast'
    <3>1. [tally[e][id] EXCEPT !.granted = @ + credit] \in TallySet
      BY <2>1 DEF TallySet
    <3>. QED
      BY <1>8, <3>1 DEF ChannelWindowAdjust, TypePast
  <2>9. TypeSession' /\ TypeHost'
    BY <1>8, SameParts DEF ChannelWindowAdjust
  <2>. QED
    BY <2>3, <2>7, <2>8, <2>9
<1>9. ASSUME Disconnect(e)
      PROVE  TableInv'
  <2>1. Pdu("DISCONNECT", NoId, NoId) \in PduSet
    BY PduType DEF PduTypes, FromChannel, ToChannel
  <2>2. TypeIO'
    BY <1>9, <2>1, TrySendIO DEF Disconnect
  <2>3. TypeSession'
    BY <1>9 DEF Disconnect, TypeSession, States
  <2>4. TypeTable' /\ SlotAccounting' /\ UnusedAhead'
    BY <1>9, SameTable DEF Disconnect
  <2>5. TypeHost' /\ TypePast'
    BY <1>9, SameParts DEF Disconnect
  <2>. QED
    BY <2>2, <2>3, <2>4, <2>5
<1>10. ASSUME DisconnectAfterError(e)
       PROVE  TableInv'
  <2>1. TypeSession'
    BY <1>10 DEF DisconnectAfterError, TypeSession, States
  <2>2. TypeTable' /\ SlotAccounting' /\ UnusedAhead'
    BY <1>10, SameTable DEF DisconnectAfterError
  <2>3. TypeIO' /\ TypeHost' /\ TypePast'
    BY <1>10, SameParts DEF DisconnectAfterError, io, past
  <2>. QED
    BY <2>1, <2>2, <2>3
<1>11. ASSUME PeerPing(e)
       PROVE  TableInv'
  <2>1. Pdu("PING", NoId, NoId) \in PduSet
    BY PduType DEF PduTypes, FromChannel, ToChannel
  <2>2. TypeIO'
    BY <1>11, <2>1, SendIO DEF PeerPing
  <2>3. TypeTable' /\ SlotAccounting' /\ UnusedAhead'
    BY <1>11, SameTable DEF PeerPing
  <2>4. TypeSession' /\ TypeHost' /\ TypePast'
    BY <1>11, SameParts DEF PeerPing
  <2>. QED
    BY <2>2, <2>3, <2>4
<1>. HIDE DEF TableInv, TypeOK
<1>. QED
  BY <1>1, <1>2, <1>3, <1>4, <1>5, <1>6, <1>7, <1>8, <1>9, <1>10, <1>11 DEF Call

\* The PDU that a handler of channel PDUs works on names a channel of e, or (OPEN)
\* of the peer, and the addressed slot is a slot.
LEMMA ArrivesType ==
  ASSUME TableInv, NEW e \in Ends, NEW t \in PduTypes, Arrives(e, t)
  PROVE  /\ Readable(e)
         /\ Incoming(e) \in PduSet
         /\ Incoming(e).pos \in Nat /\ Incoming(e).len \in Nat /\ Incoming(e).max \in Nat
         /\ t \in FromChannel => Incoming(e).from \in Ids
         /\ t \in ToChannel => Incoming(e).to \in Ids
         /\ t \in ToChannel => ch[e][Incoming(e).to] \in ChannelSet
<1>1. Readable(e) /\ Incoming(e).type = t
  BY DEF Arrives
<1>2. Incoming(e) \in PduSet
  BY <1>1, IncomingType DEF TableInv, TypeOK
<1>3. /\ Incoming(e).pos \in Nat /\ Incoming(e).len \in Nat /\ Incoming(e).max \in Nat
      /\ t \in FromChannel => Incoming(e).from \in Ids
      /\ t \in ToChannel => Incoming(e).to \in Ids
  BY <1>1, <1>2 DEF PduSet, PduFields
<1>. QED
  BY <1>1, <1>2, <1>3 DEF TableInv, TypeOK, TypeTable

LEMMA RecvTable ==
  ASSUME TableInv, NEW e \in Ends, Recv(e)
  PROVE  TableInv'
<1>. DEFINE m == Incoming(e)
<1>. USE DEF TableInv, TypeOK
<1>c. /\ InitialWindow[e] \in Nat /\ MaxPacket[e] \in Nat /\ WinMod \in Nat \ {0}
      /\ \A k \in Nat : PacketLimit(e, k) \in Nat
  BY ConfigAssumption, WidthAssumption DEF PacketLimit
<1>1. ASSUME RecvAuthOk(e) PROVE TableInv'
  <2>1. TypeIO'
    BY <1>1, ConsumeIO DEF RecvAuthOk
  <2>2. TypeSession'
    BY <1>1 DEF RecvAuthOk, TypeSession, States
  <2>3. TypeHost'
    BY <1>1, EventType, QueueEventHost DEF RecvAuthOk, EventTypes
  <2>4. TypeTable' /\ SlotAccounting' /\ UnusedAhead'
    BY <1>1, SameTable DEF RecvAuthOk
  <2>5. TypePast'
    BY <1>1, SameParts DEF RecvAuthOk
  <2>. QED
    BY <2>1, <2>2, <2>3, <2>4, <2>5
<1>2. ASSUME RecvUnknown(e) PROVE TableInv'
  <2>1. "unknown mux pdu" \in Causes /\ NoId \in Ids \cup {NoId}
    BY DEF Causes
  <2>. HIDE DEF TableInv
  <2>. QED
    BY <1>2, <2>1, FailTable DEF RecvUnknown
<1>3. ASSUME RecvOpenRefused(e) PROVE TableInv'
  <2>1. Readable(e) /\ m.from \in Ids
    <3>. HIDE DEF TableInv
    <3>. QED
      BY <1>3, ArrivesType DEF RecvOpenRefused, PduTypes, FromChannel
  <2>2. Pdu("OPEN_FAIL", NoId, m.from) \in PduSet
    BY <2>1, PduType DEF PduTypes, FromChannel
  <2>3. TypeIO'
    BY <1>3, <2>1, <2>2, ConsumeAndTrySendIO DEF RecvOpenRefused
  <2>4. TypeTable' /\ SlotAccounting' /\ UnusedAhead'
    BY <1>3, SameTable DEF RecvOpenRefused
  <2>5. TypeSession' /\ TypeHost' /\ TypePast'
    BY <1>3, SameParts DEF RecvOpenRefused
  <2>. QED
    BY <2>3, <2>4, <2>5
<1>4. ASSUME RecvOpenPending(e) PROVE TableInv'
  <2>1. Readable(e) /\ m.from \in Ids /\ m.len \in Nat /\ m.max \in Nat
    <3>. HIDE DEF TableInv
    <3>. QED
      BY <1>4, ArrivesType DEF RecvOpenPending, PduTypes, FromChannel
  <2>. DEFINE c == [FreeSlot EXCEPT !.st = "PENDING", !.peer = m.from,
                      !.sendw = m.len, !.max = PacketLimit(e, m.max),
                      !.recvw = InitialWindow[e]]
  <2>2. c \in ChannelSet /\ c.st = "PENDING"
    BY <1>c, <2>1 DEF FreeSlot, ChannelSet, ChannelFields, ChStates
  <2>3. CanAlloc(e) /\ Alloc(e, c) /\ nextId[e] \in Ids
    BY <1>4 DEF RecvOpenPending, CanAlloc
  <2>4. TypeTable' /\ SlotAccounting' /\ UnusedAhead'
    BY <2>2, <2>3, AllocTable
  <2>5. TypeHost'
    BY <1>4, <2>3, EventType, QueueEventHost DEF RecvOpenPending, EventTypes
  <2>6. TypeIO'
    BY <1>4, <2>1, ConsumeIO DEF RecvOpenPending
  <2>7. TypePast'
    BY <1>4, <2>1, <2>3 DEF RecvOpenPending, TypePast
  <2>8. TypeSession'
    BY <1>4, SameParts DEF RecvOpenPending
  <2>. QED
    BY <2>4, <2>5, <2>6, <2>7, <2>8
<1>5. ASSUME RecvConfirm(e) PROVE TableInv'
  <2>1. /\ Readable(e) /\ m.from \in Ids /\ m.to \in Ids /\ m.len \in Nat /\ m.max \in Nat
        /\ ch[e][m.to] \in ChannelSet
    <3>. HIDE DEF TableInv
    <3>. QED
      BY <1>5, ArrivesType DEF RecvConfirm, PduTypes, FromChannel, ToChannel
  <2>2. CASE ch[e][m.to].st = "OPENING"
    <3>. DEFINE c == [ch[e][m.to] EXCEPT !.st = "OPEN", !.peer = m.from,
                        !.sendw = m.len, !.max = PacketLimit(e, m.max)]
    <3>1. /\ ch' = [ch EXCEPT ![e][m.to].st = "OPEN",
                              ![e][m.to].peer = m.from,
                              ![e][m.to].sendw = m.len,
                              ![e][m.to].max = PacketLimit(e, m.max)]
          /\ QueueEvent(e, Event("CHANNEL_OPENED", m.to))
          /\ Consume(e)
          /\ UNCHANGED <<state, nextId, active, err, closed, acc, tally>>
      BY <1>5, <2>2 DEF RecvConfirm, Fail
    <3>2. ch' = [ch EXCEPT ![e][m.to] = c]
      BY <2>1, <3>1, ZenonT(30) DEF TypeTable, ChannelSet, ChannelFields
    <3>3. c \in ChannelSet /\ c.st = "OPEN"
      <4>1. PacketLimit(e, m.max) \in Nat
        BY <1>c, <2>1
      <4>2. c \in ChannelSet
        BY <2>1, <2>2, <4>1, EditFields
      <4>. QED
        BY <2>1, <4>2 DEF ChannelSet, ChannelFields
    <3>4. TypeTable' /\ SlotAccounting' /\ UnusedAhead'
      BY <2>1, <2>2, <3>1, <3>2, <3>3, EditTable
    <3>5. TypeHost'
      BY <2>1, <3>1, EventType, QueueEventHost DEF EventTypes
    <3>6. TypeIO'
      BY <2>1, <3>1, ConsumeIO
    <3>7. TypeSession' /\ TypePast'
      BY <3>1, SameParts
    <3>. QED
      BY <3>4, <3>5, <3>6, <3>7
  <2>3. CASE ch[e][m.to].st # "OPENING"
    <3>1. Fail(e, "CONFIRM unknown", m.to) /\ "CONFIRM unknown" \in Causes
      BY <1>5, <2>3 DEF RecvConfirm, Causes
    <3>. HIDE DEF TableInv
    <3>. QED
      BY <2>1, <3>1, FailTable
  <2>. QED
    BY <2>2, <2>3
<1>6. ASSUME RecvOpenFail(e) PROVE TableInv'
  <2>1. Readable(e) /\ m.to \in Ids
    <3>. HIDE DEF TableInv
    <3>. QED
      BY <1>6, ArrivesType DEF RecvOpenFail, PduTypes, ToChannel
  <2>2. TypeIO'
    BY <1>6, <2>1, ConsumeIO DEF RecvOpenFail
  <2>3. TypeSession' /\ TypePast'
    BY <1>6, SameParts DEF RecvOpenFail
  <2>4. TypeTable' /\ SlotAccounting' /\ UnusedAhead'
    BY <1>6, <2>1, FreeTable, SameTable DEF RecvOpenFail
  <2>5. TypeHost'
    BY <1>6, <2>1, EventType, QueueEventHost, SameParts DEF RecvOpenFail, EventTypes
  <2>. QED
    BY <2>2, <2>3, <2>4, <2>5
<1>7. ASSUME RecvData(e) PROVE TableInv'
  <2>1. /\ Readable(e) /\ m.to \in Ids /\ m.len \in Nat /\ m.pos \in Nat
        /\ ch[e][m.to] \in ChannelSet
    <3>. HIDE DEF TableInv
    <3>. QED
      BY <1>7, ArrivesType DEF RecvData, PduTypes, ToChannel
  <2>. DEFINE verdict == DataVerdict(ch[e][m.to], m.len)
  <2>2. verdict \in Causes
    BY DEF DataVerdict, Causes
  <2>3. CASE verdict = "none"
    <3>. DEFINE c == [ch[e][m.to] EXCEPT !.recvw = @ - m.len]
    <3>1. /\ ch' = [ch EXCEPT ![e][m.to].recvw = @ - m.len]
          /\ QueueEvent(e, [Event("CHANNEL_DATA", m.to) EXCEPT
                              !.pos = m.pos, !.len = m.len])
          /\ Consume(e)
          /\ tally' = [tally EXCEPT ![e][m.to].rcvd = @ + m.len]
          /\ UNCHANGED <<state, nextId, active, err, closed, acc>>
      BY <1>7, <2>3 DEF RecvData
    <3>2. ch' = [ch EXCEPT ![e][m.to] = c]
      BY <3>1
    <3>3. ch[e][m.to].st = "OPEN" /\ ch[e][m.to].recvw - m.len \in Nat
      BY <2>1, <2>3 DEF DataVerdict, ChannelSet, ChannelFields, ChStates
    <3>4. c \in ChannelSet /\ c.st = "OPEN"
      BY <2>1, <3>3, EditFields DEF ChannelSet, ChannelFields
    <3>5. TypeTable' /\ SlotAccounting' /\ UnusedAhead'
      BY <2>1, <3>1, <3>2, <3>3, <3>4, EditTable
    <3>6. TypeHost'
      BY <2>1, <3>1, EventType, QueueEventHost DEF EventTypes
    <3>7. TypeIO'
      BY <2>1, <3>1, ConsumeIO
    <3>8. TypeSession'
      BY <3>1, SameParts
    <3>9. TypePast'
      <4>. DEFINE t == tally[e][m.to]
      <4>1. t \in TallySet /\ m.len \in Nat
        BY <2>1 DEF TypePast
      <4>2. [t EXCEPT !.rcvd = @ + m.len] \in TallySet
        BY <4>1 DEF TallySet
      <4>. QED
        BY <3>1, <2>1, <4>2 DEF TypePast
    <3>. QED
      BY <3>5, <3>6, <3>7, <3>8, <3>9
  <2>4. CASE verdict # "none"
    <3>1. Fail(e, verdict, m.to)
      BY <1>7, <2>4 DEF RecvData
    <3>. HIDE DEF TableInv, verdict
    <3>. QED
      BY <2>1, <2>2, <3>1, FailTable
  <2>. QED
    BY <2>3, <2>4
<1>8. ASSUME RecvWindow(e) PROVE TableInv'
  <2>1. /\ Readable(e) /\ m.to \in Ids /\ m.len \in Nat
        /\ ch[e][m.to] \in ChannelSet /\ ch[e][m.to].sendw \in Nat
    <3>. HIDE DEF TableInv
    <3>. QED
      BY <1>8, ArrivesType DEF RecvWindow, PduTypes, ToChannel, ChannelSet, ChannelFields
  <2>2. TypeIO'
    BY <1>8, <2>1, ConsumeIO DEF RecvWindow
  <2>3. TypeSession'
    BY <1>8, SameParts DEF RecvWindow
  <2>4. CASE ch[e][m.to].st = "OPEN"
    <3>. DEFINE w == (ch[e][m.to].sendw + m.len) % WinMod
                c == [ch[e][m.to] EXCEPT !.sendw = w]
    <3>1. /\ ch' = [ch EXCEPT ![e][m.to].sendw = (@ + m.len) % WinMod]
          /\ tally' = [tally EXCEPT ![e][m.to].credited = @ + m.len]
          /\ QueueEvent(e, [Event("CHANNEL_WINDOW", m.to) EXCEPT
                              !.pos = m.len, !.len = ch'[e][m.to].sendw])
          /\ UNCHANGED <<nextId, active, closed, acc>>
      BY <1>8, <2>4 DEF RecvWindow
    <3>2. ch' = [ch EXCEPT ![e][m.to] = c]
      BY <3>1
    <3>3. w \in Nat
      BY <1>c, <2>1
    <3>4. c \in ChannelSet /\ c.st = "OPEN"
      BY <2>1, <2>4, <3>3, EditFields DEF ChannelSet, ChannelFields
    <3>5. TypeTable' /\ SlotAccounting' /\ UnusedAhead'
      BY <2>1, <2>4, <3>1, <3>2, <3>4, EditTable
    <3>6. TypeHost'
      <4>1. ch'[e][m.to].sendw \in Nat
        BY <2>1, <3>5 DEF TypeTable, ChannelSet, ChannelFields
      <4>. QED
        BY <2>1, <3>1, <4>1, EventType, QueueEventHost DEF EventTypes
    <3>7. TypePast'
      <4>. DEFINE t == tally[e][m.to]
      <4>1. t \in TallySet /\ m.len \in Nat
        BY <2>1 DEF TypePast
      <4>2. [t EXCEPT !.credited = @ + m.len] \in TallySet
        BY <4>1 DEF TallySet
      <4>. QED
        BY <3>1, <2>1, <4>2 DEF TypePast
    <3>. QED
      BY <2>2, <2>3, <3>5, <3>6, <3>7
  <2>5. CASE ch[e][m.to].st # "OPEN"
    <3>1. UNCHANGED <<table, host, closed, acc, tally>>
      BY <1>8, <2>5 DEF RecvWindow, table
    <3>. QED
      BY <2>2, <2>3, <3>1, SameTable, SameParts
  <2>. QED
    BY <2>4, <2>5
<1>9. ASSUME RecvEof(e) PROVE TableInv'
  <2>1. Readable(e) /\ m.to \in Ids /\ ch[e][m.to] \in ChannelSet
    <3>. HIDE DEF TableInv
    <3>. QED
      BY <1>9, ArrivesType DEF RecvEof, PduTypes, ToChannel
  <2>2. TypeIO'
    BY <1>9, <2>1, ConsumeIO DEF RecvEof
  <2>3. TypeSession' /\ TypePast'
    BY <1>9, SameParts DEF RecvEof
  <2>4. CASE ch[e][m.to].st # "UNUSED"
    <3>. DEFINE c == [ch[e][m.to] EXCEPT !.reof = TRUE]
    <3>1. /\ ch' = [ch EXCEPT ![e][m.to] = c]
          /\ QueueEvent(e, Event("CHANNEL_EOF", m.to))
          /\ UNCHANGED <<nextId, active>>
      BY <1>9, <2>4 DEF RecvEof
    <3>2. c \in ChannelSet /\ c.st # "UNUSED"
      BY <1>c, <2>1, <2>4, EditFields DEF ChannelSet, ChannelFields
    <3>3. TypeTable' /\ SlotAccounting' /\ UnusedAhead'
      BY <2>1, <2>4, <3>1, <3>2, EditTable
    <3>4. TypeHost'
      BY <2>1, <3>1, EventType, QueueEventHost DEF EventTypes
    <3>. QED
      BY <2>2, <2>3, <3>3, <3>4
  <2>5. CASE ch[e][m.to].st = "UNUSED"
    <3>1. UNCHANGED <<table, host>>
      BY <1>9, <2>5 DEF RecvEof, table
    <3>. QED
      BY <2>2, <2>3, <3>1, SameTable, SameParts
  <2>. QED
    BY <2>4, <2>5
<1>10. ASSUME RecvClose(e) PROVE TableInv'
  <2>1. Readable(e) /\ m.to \in Ids
    <3>. HIDE DEF TableInv
    <3>. QED
      BY <1>10, ArrivesType DEF RecvClose, PduTypes, ToChannel
  <2>2. TypeIO'
    BY <1>10, <2>1, ConsumeIO DEF RecvClose
  <2>3. TypeSession' /\ TypePast'
    BY <1>10, SameParts DEF RecvClose
  <2>4. TypeTable' /\ SlotAccounting' /\ UnusedAhead'
    BY <1>10, <2>1, FreeTable, SameTable DEF RecvClose
  <2>5. TypeHost'
    BY <1>10, <2>1, EventType, QueueEventHost, SameParts DEF RecvClose, EventTypes
  <2>. QED
    BY <2>2, <2>3, <2>4, <2>5
<1>11. ASSUME RecvPing(e) PROVE TableInv'
  <2>1. Readable(e) /\ Pdu("PONG", NoId, NoId) \in PduSet
    BY <1>11, PduType DEF RecvPing, Arrives, PduTypes, FromChannel, ToChannel
  <2>2. TypeIO'
    BY <1>11, <2>1, ConsumeAndTrySendIO DEF RecvPing
  <2>3. TypeHost'
    BY <1>11, EventType, QueueEventHost DEF RecvPing, EventTypes
  <2>4. TypeTable' /\ SlotAccounting' /\ UnusedAhead'
    BY <1>11, SameTable DEF RecvPing
  <2>5. TypeSession' /\ TypePast'
    BY <1>11, SameParts DEF RecvPing
  <2>. QED
    BY <2>2, <2>3, <2>4, <2>5
<1>12. ASSUME RecvPong(e) PROVE TableInv'
  <2>1. TypeIO'
    BY <1>12, ConsumeIO DEF RecvPong, Arrives
  <2>2. TypeTable' /\ SlotAccounting' /\ UnusedAhead'
    BY <1>12, SameTable DEF RecvPong
  <2>3. TypeSession' /\ TypeHost' /\ TypePast'
    BY <1>12, SameParts DEF RecvPong
  <2>. QED
    BY <2>1, <2>2, <2>3
<1>13. ASSUME RecvDisconnect(e) PROVE TableInv'
  <2>1. TypeIO'
    BY <1>13, ConsumeIO DEF RecvDisconnect, Arrives
  <2>2. TypeHost'
    BY <1>13, EventType, QueueEventHost DEF RecvDisconnect, EventTypes
  <2>3. TypeSession'
    BY <1>13 DEF RecvDisconnect, TypeSession, States
  <2>4. TypeTable' /\ SlotAccounting' /\ UnusedAhead'
    BY <1>13, SameTable DEF RecvDisconnect
  <2>5. TypePast'
    BY <1>13, SameParts DEF RecvDisconnect
  <2>. QED
    BY <2>1, <2>2, <2>3, <2>4, <2>5
<1>. HIDE DEF TableInv, TypeOK
<1>. QED
  BY <1>1, <1>2, <1>3, <1>4, <1>5, <1>6, <1>7, <1>8, <1>9, <1>10, <1>11, <1>12,
     <1>13 DEF Recv

LEMMA TableStep == TableInv /\ [Next]_vars => TableInv'
<1>. SUFFICES ASSUME TableInv, [Next]_vars PROVE TableInv'
  OBVIOUS
<1>1. ASSUME NEW e \in Ends, GetOutput(e) PROVE TableInv'
  <2>1. TypeIO'
    BY <1>1, ConfigAssumption DEF TableInv, TypeOK, TypeIO, GetOutput, past
  <2>2. TypeTable' /\ SlotAccounting' /\ UnusedAhead'
    BY <1>1, SameTable DEF TableInv, TypeOK, GetOutput
  <2>3. TypeSession' /\ TypeHost' /\ TypePast'
    BY <1>1, SameParts DEF TableInv, TypeOK, GetOutput, past
  <2>. QED
    BY <2>1, <2>2, <2>3 DEF TableInv, TypeOK
<1>2. ASSUME NEW e \in Ends, NextEvent(e) PROVE TableInv'
  <2>1. TypeHost'
    <3>1. evq[e] \in Seq(EventSet) /\ evq[e] # <<>>
      BY <1>2 DEF TableInv, TypeOK, TypeHost, NextEvent
    <3>2. /\ Head(evq[e]) \in EventSet /\ Tail(evq[e]) \in Seq(EventSet)
          /\ Len(Tail(evq[e])) = Len(evq[e]) - 1
          /\ Len(evq[e]) \in Nat
      BY <3>1, HeadTailProperties, LenProperties
    <3>3. Head(evq[e]).id \in Ids \cup {NoId}
      BY <3>2 DEF EventSet
    <3>4. EventCap \in Nat
      BY ConfigAssumption
    <3>. QED
      BY <1>2, <3>2, <3>3, <3>4 DEF TableInv, TypeOK, TypeHost, NextEvent
  <2>2. TypeTable' /\ SlotAccounting' /\ UnusedAhead'
    BY <1>2, SameTable DEF TableInv, TypeOK, NextEvent
  <2>3. TypeSession' /\ TypeIO' /\ TypePast'
    BY <1>2, SameParts DEF TableInv, TypeOK, NextEvent, io, past
  <2>. QED
    BY <2>1, <2>2, <2>3 DEF TableInv, TypeOK
<1>3. CASE UNCHANGED vars
  <2>1. TypeTable' /\ SlotAccounting' /\ UnusedAhead'
    BY <1>3, SameTable DEF TableInv, TypeOK, vars
  <2>2. TypeSession' /\ TypeIO' /\ TypeHost' /\ TypePast'
    BY <1>3, SameParts DEF TableInv, TypeOK, vars, io, past
  <2>. QED
    BY <2>1, <2>2 DEF TableInv, TypeOK
<1>. QED
  BY <1>1, <1>2, <1>3, CallTable, RecvTable DEF Next, Pump

LEMMA TableInvariant == Spec => []TableInv
BY TableInit, TableStep, PTL DEF Spec

\* Whatever the hosts call and however the PDUs interleave, every field of both
\* contexts keeps its type: no window is debited below zero, neither out_buf nor
\* the event ring overflows, and every PDU and slot that needs an id has one.
THEOREM TypeCorrect == Spec => []TypeOK
<1>1. TableInv => TypeOK
  BY DEF TableInv
<1>. QED
  BY <1>1, TableInvariant, PTL

\* ch_alloc and ch_free account for every slot: active_channels is always the
\* number of slots in use and never exceeds max_channels.
THEOREM SlotsAccounted == Spec => []SlotAccounting
<1>1. TableInv => SlotAccounting
  BY DEF TableInv
<1>. QED
  BY <1>1, TableInvariant, PTL

----------------------------------------------------------------------------
(* PDUs in flight *)

\* m is in flight from x.
Flying(x, m) == \E j \in DOMAIN link[x] : link[x][j] = m

\* Every PDU in flight after the step was in flight before, or is m, sent by e.
OnlyNew(e, m) ==
  \A x \in Ends : \A i \in DOMAIN link'[x] :
    Flying(x, link'[x][i]) \/ (x = e /\ link'[x][i] = m)

NothingNew ==
  \A x \in Ends : \A i \in DOMAIN link'[x] : Flying(x, link'[x][i])

\* The PDUs FlowInv says something about.
FlowTypes == {"OPEN", "CONFIRM", "DATA", "WINDOW"}

LEMMA LinkSend ==
  ASSUME TypeIO, LinkOrdered, NEW e \in Ends, NEW m \in PduSet, Send(e, m),
         \A j \in DOMAIN link[e] : InOrder(link[e][j], m)
  PROVE  OnlyNew(e, m) /\ LinkOrdered'
<1>1. link[e] \in Seq(PduSet) /\ link \in [Ends -> Seq(PduSet)]
  BY DEF TypeIO
<1>2. /\ \A x \in Ends : x # e => link'[x] = link[x]
      /\ link'[e] = Append(link[e], m)
  BY <1>1 DEF Send
<1>3. /\ Len(link[e]) \in Nat
      /\ DOMAIN link[e] = 1 .. Len(link[e])
      /\ DOMAIN link'[e] = 1 .. (Len(link[e]) + 1)
      /\ \A i \in 1 .. Len(link[e]) : link'[e][i] = link[e][i]
      /\ link'[e][Len(link[e]) + 1] = m
  BY <1>1, <1>2, AppendProperties, LenProperties
<1>4. OnlyNew(e, m)
  BY <1>2, <1>3 DEF OnlyNew, Flying
<1>5. ASSUME NEW x \in Ends, NEW i \in DOMAIN link'[x], NEW j \in DOMAIN link'[x], i < j
      PROVE  InOrder(link'[x][i], link'[x][j])
  <2>1. CASE x # e
    BY <1>2, <1>5, <2>1 DEF LinkOrdered
  <2>2. CASE x = e /\ j = Len(link[e]) + 1
    BY <1>3, <1>5, <2>2, SMTT(30)
  <2>3. CASE x = e /\ j # Len(link[e]) + 1
    BY <1>3, <1>5, <2>3 DEF LinkOrdered
  <2>. QED
    BY <2>1, <2>2, <2>3
<1>6. LinkOrdered'
  BY <1>5 DEF LinkOrdered, InOrder
<1>. QED
  BY <1>4, <1>6

\* The frame that is handled was in flight, and precedes all that remain.
LEMMA LinkConsume ==
  ASSUME TypeIO, LinkOrdered, NEW e \in Ends, Readable(e), Consume(e)
  PROVE  /\ NothingNew
         /\ LinkOrdered'
         /\ Flying(Peer(e), Incoming(e))
         /\ \A i \in DOMAIN link'[Peer(e)] : InOrder(Incoming(e), link'[Peer(e)][i])
<1>. DEFINE q == Peer(e)
<1>1. /\ q \in Ends
      /\ link \in [Ends -> Seq(PduSet)]
      /\ link[q] \in Seq(PduSet) /\ link[q] # <<>> /\ Len(link[q]) \in Nat
  BY PeerFacts, IncomingType DEF TypeIO
<1>2. /\ \A x \in Ends : x # q => link'[x] = link[x]
      /\ link'[q] = Tail(link[q])
  BY <1>1 DEF Consume
<1>3. /\ DOMAIN link[q] = 1 .. Len(link[q])
      /\ 1 \in DOMAIN link[q]
      /\ Incoming(e) = link[q][1]
      /\ DOMAIN link'[q] = 1 .. (Len(link[q]) - 1)
      /\ \A i \in 1 .. (Len(link[q]) - 1) : link'[q][i] = link[q][i + 1]
  BY <1>1, <1>2, HeadTailProperties, LenProperties, EmptySeq DEF Incoming
<1>4. NothingNew
  <2>1. \A i \in DOMAIN link'[q] : i + 1 \in DOMAIN link[q] /\ link'[q][i] = link[q][i + 1]
    BY <1>1, <1>3
  <2>. QED
    BY <1>2, <2>1 DEF NothingNew, Flying
<1>5. ASSUME NEW x \in Ends, NEW i \in DOMAIN link'[x], NEW j \in DOMAIN link'[x], i < j
      PROVE  InOrder(link'[x][i], link'[x][j])
  <2>1. CASE x # q
    BY <1>2, <1>5, <2>1 DEF LinkOrdered
  <2>2. CASE x = q
    <3>1. /\ i + 1 \in DOMAIN link[q] /\ j + 1 \in DOMAIN link[q] /\ i + 1 < j + 1
          /\ link'[q][i] = link[q][i + 1] /\ link'[q][j] = link[q][j + 1]
      BY <1>1, <1>3, <1>5, <2>2, SMTT(30)
    <3>. QED
      BY <1>1, <2>2, <3>1 DEF LinkOrdered
  <2>. QED
    BY <2>1, <2>2
<1>6. LinkOrdered'
  BY <1>5 DEF LinkOrdered, InOrder
<1>7. ASSUME NEW i \in DOMAIN link'[q]
      PROVE  InOrder(Incoming(e), link'[q][i])
  <2>1. i + 1 \in DOMAIN link[q] /\ 1 < i + 1 /\ link'[q][i] = link[q][i + 1]
    BY <1>1, <1>3
  <2>. QED
    BY <1>1, <1>3, <2>1 DEF LinkOrdered
<1>. QED
  BY <1>3, <1>4, <1>6, <1>7 DEF Flying

\* A PDU that says nothing about windows is in order with everything.
LEMMA TameInOrder ==
  ASSUME NEW m, NEW n, n.type \notin FlowTypes
  PROVE  InOrder(m, n)
BY DEF InOrder, FlowTypes

LEMMA LinkTrySend ==
  ASSUME TypeIO, LinkOrdered, NEW e \in Ends, NEW m \in PduSet, TrySend(e, m),
         m.type \notin FlowTypes
  PROVE  OnlyNew(e, m) /\ LinkOrdered'
<1>1. CASE Send(e, m)
  BY <1>1, LinkSend, TameInOrder
<1>2. CASE ~Send(e, m)
  <2>1. link' = link
    BY <1>2 DEF TrySend, io
  <2>. QED
    BY <2>1 DEF OnlyNew, Flying, LinkOrdered, InOrder
<1>. QED
  BY <1>1, <1>2

LEMMA LinkConsumeAndTrySend ==
  ASSUME TypeIO, LinkOrdered, NEW e \in Ends, NEW m \in PduSet, Readable(e),
         ConsumeAndTrySend(e, m), m.type \notin FlowTypes
  PROVE  OnlyNew(e, m) /\ LinkOrdered'
<1>. DEFINE q == Peer(e)
<1>1. /\ q \in Ends /\ q # e /\ \A x \in Ends : x = e \/ x = q
      /\ link \in [Ends -> Seq(PduSet)]
      /\ link[q] \in Seq(PduSet) /\ link[q] # <<>> /\ Len(link[q]) \in Nat
      /\ link[e] \in Seq(PduSet) /\ Len(link[e]) \in Nat
  BY PeerFacts, IncomingType, LenProperties DEF TypeIO
<1>2. link'[q] = Tail(link[q]) /\ (link'[e] = Append(link[e], m) \/ link'[e] = link[e])
  BY <1>1 DEF ConsumeAndTrySend
<1>3. /\ DOMAIN link'[q] = 1 .. (Len(link[q]) - 1)
      /\ DOMAIN link[q] = 1 .. Len(link[q])
      /\ \A i \in 1 .. (Len(link[q]) - 1) : link'[q][i] = link[q][i + 1]
  BY <1>1, <1>2, HeadTailProperties, LenProperties
<1>4. \A i \in DOMAIN link'[q] : i + 1 \in DOMAIN link[q] /\ link'[q][i] = link[q][i + 1]
  BY <1>1, <1>3
<1>5. /\ DOMAIN link[e] = 1 .. Len(link[e])
      /\ DOMAIN link'[e] \subseteq 1 .. (Len(link[e]) + 1)
      /\ \A i \in 1 .. Len(link[e]) : link'[e][i] = link[e][i]
      /\ Len(link[e]) + 1 \in DOMAIN link'[e] => link'[e][Len(link[e]) + 1] = m
  <2>1. CASE link'[e] = Append(link[e], m)
    BY <1>1, <2>1, AppendProperties, LenProperties
  <2>2. CASE link'[e] = link[e]
    BY <1>1, <2>2, LenProperties
  <2>. QED
    BY <1>2, <2>1, <2>2
<1>6. OnlyNew(e, m)
  <2>1. \A i \in DOMAIN link'[q] : Flying(q, link'[q][i])
    BY <1>4 DEF Flying
  <2>2. \A i \in DOMAIN link'[e] :
          (i \in DOMAIN link[e] /\ link'[e][i] = link[e][i]) \/ link'[e][i] = m
    BY <1>1, <1>5
  <2>3. \A i \in DOMAIN link'[e] : Flying(e, link'[e][i]) \/ link'[e][i] = m
    BY <2>2 DEF Flying
  <2>. QED
    BY <1>1, <2>1, <2>3 DEF OnlyNew
<1>7. ASSUME NEW x \in Ends, NEW i \in DOMAIN link'[x], NEW j \in DOMAIN link'[x], i < j
      PROVE  InOrder(link'[x][i], link'[x][j])
  <2>1. CASE x = q
    <3>1. i + 1 < j + 1
      BY <1>1, <1>3, <1>7, <2>1
    <3>. QED
      BY <1>1, <1>4, <1>7, <2>1, <3>1 DEF LinkOrdered
  <2>2. CASE x = e /\ j = Len(link[e]) + 1
    BY <1>5, <1>7, <2>2, TameInOrder
  <2>3. CASE x = e /\ j # Len(link[e]) + 1
    BY <1>1, <1>5, <1>7, <2>3, SMTT(30) DEF LinkOrdered
  <2>. QED
    BY <1>1, <2>1, <2>2, <2>3
<1>8. LinkOrdered'
  BY <1>7 DEF LinkOrdered, InOrder
<1>. QED
  BY <1>6, <1>8

----------------------------------------------------------------------------
(* Pairs *)

LEMMA PairSymmetric ==
  ASSUME NEW e \in Ends, NEW a \in Ids, NEW b \in Ids
  PROVE  Paired(e, a, b) <=> Paired(Peer(e), b, a)
BY PeerFacts DEF Paired

\* A channel has one partner.
LEMMA PairUnique ==
  ASSUME AccSound, NEW e \in Ends, NEW a \in Ids, NEW x \in Ids, NEW b \in Ids,
         Paired(e, a, b), Paired(e, x, b)
  PROVE  a = x
<1>. DEFINE q == Peer(e)
<1>1. q \in Ends /\ Peer(q) = e /\ NoId \notin Ids
  BY PeerFacts, IdFacts
<1>2. \A y \in Ids : acc[q][y] = b => \A z \in Ids : (acc[q][z] = b => z = y)
  BY <1>1 DEF AccSound
<1>3. \A y \in Ids : acc[q][y] = b => acc[e][b] = NoId
  BY <1>1 DEF AccSound
<1>. QED
  BY <1>1, <1>2, <1>3 DEF Paired

\* What FlowInv says of a PDU in flight.
LEMMA FlyingFacts ==
  ASSUME FlowInv, NEW x \in Ends, NEW m, Flying(x, m)
  PROVE  m \in PduSet /\ PduPaired(x, m) /\ PduBalanced(x, m) /\ PduQuiet(x, m)
<1>1. PICK j \in DOMAIN link[x] : link[x][j] = m
  BY DEF Flying
<1>2. link[x] \in Seq(PduSet)
  BY DEF FlowInv, TableInv, TypeOK, TypeIO
<1>3. m \in PduSet
  BY <1>1, <1>2, ElementOfSeq, LenProperties
<1>. QED
  BY <1>1, <1>3 DEF FlowInv, PairInv, LinkPaired, LinkBalance, Quiet

\* A channel that is OPEN is not being requested, and its id has been allocated.
LEMMA OpenIsPaired ==
  ASSUME FlowInv, NEW e \in Ends, NEW id \in Ids, ch[e][id].st = "OPEN"
  PROVE  /\ ch[e][id].peer \in Ids
         /\ Paired(e, id, ch[e][id].peer)
         /\ ~(id >= nextId[e])
         /\ \A m : Flying(e, m) /\ m.type = "OPEN" => m.from # id
<1>1. ch[e][id].peer \in Ids
  BY DEF FlowInv, TableInv, TypeOK, TypeTable, ChannelSet
<1>2. Paired(e, id, ch[e][id].peer)
  BY DEF FlowInv, PairInv, PeerSound
<1>3. ~(id >= nextId[e])
  BY FreeSlotType DEF FlowInv, TableInv, UnusedAhead
<1>4. ASSUME NEW m, Flying(e, m), m.type = "OPEN"
      PROVE  m.from # id
  <2>1. PduPaired(e, m)
    BY <1>4, FlyingFacts
  <2>2. acc[Peer(e)][m.from] = NoId /\ \A x \in Ids : acc[e][x] # m.from
    BY <1>4, <2>1 DEF PduPaired
  <2>. QED
    BY <1>1, <1>2, <2>2, IdFacts DEF Paired
<1>. QED
  BY <1>1, <1>2, <1>3, <1>4

\* Pairs stay sound when no pair is made: the id counters only grow.
LEMMA AccSoundKept ==
  ASSUME TypePast, AccSound, acc' = acc,
         \A x \in Ends : /\ nextId[x] \in Nat /\ nextId'[x] \in Nat
                        /\ nextId[x] <= nextId'[x]
  PROVE  AccSound'
<1>. SUFFICES ASSUME NEW x \in Ends, NEW a \in Ids, acc[x][a] # NoId
              PROVE  acc[x][a] < nextId'[x] /\ a < nextId'[Peer(x)]
  BY DEF AccSound
<1>1. acc[x][a] \in Nat /\ a \in Nat /\ Peer(x) \in Ends
  BY IdFacts, PeerFacts DEF TypePast
<1>2. acc[x][a] < nextId[x] /\ a < nextId[Peer(x)]
  BY DEF AccSound
<1>3. /\ nextId[x] \in Nat /\ nextId'[x] \in Nat /\ nextId[x] <= nextId'[x]
      /\ nextId[Peer(x)] \in Nat /\ nextId'[Peer(x)] \in Nat
      /\ nextId[Peer(x)] <= nextId'[Peer(x)]
  BY <1>1
<1>. QED
  BY <1>1, <1>2, <1>3

\* Both ids of a pair have been allocated.
LEMMA PairAllocated ==
  ASSUME TypePast, AccSound, NEW e \in Ends, NEW a \in Ids, NEW b \in Ids, Paired(e, a, b)
  PROVE  a < nextId[e] /\ b < nextId[Peer(e)]
BY IdFacts, PeerFacts DEF Paired, AccSound

\* Slots are only freed, or keep their state and peer.
StatesKept ==
  \A x \in Ends : \A id \in Ids :
    \/ ch'[x][id].st = "UNUSED"
    \/ ch'[x][id].st = ch[x][id].st /\ ch'[x][id].peer = ch[x][id].peer

LEMMA PeerSoundKept ==
  ASSUME PeerSound, StatesKept, acc' = acc
  PROVE  PeerSound'
<1>. SUFFICES ASSUME NEW x \in Ends, NEW a \in Ids, ch'[x][a].st # "UNUSED"
              PROVE  /\ ch'[x][a].st = "PENDING" => acc[x][ch'[x][a].peer] = a
                     /\ ch'[x][a].st = "OPEN" => Paired(x, a, ch'[x][a].peer)
                     /\ ch'[x][a].st = "OPENING" => \A y \in Ids : acc[x][y] # a
  BY DEF PeerSound, Paired
<1>1. ch'[x][a].st = ch[x][a].st /\ ch'[x][a].peer = ch[x][a].peer
  BY DEF StatesKept
<1>. QED
  BY <1>1 DEF PeerSound

\* The channel-table half of Quiet.
OpenQuiet ==
  \A e \in Ends : \A a \in Ids :
    ch[e][a].st = "OPEN" => ch[Peer(e)][ch[e][a].peer].st # "PENDING"

LEMMA OpenQuietKept ==
  ASSUME FlowInv, StatesKept
  PROVE  OpenQuiet'
<1>. SUFFICES ASSUME NEW x \in Ends, NEW a \in Ids, ch'[x][a].st = "OPEN"
              PROVE  ch'[Peer(x)][ch'[x][a].peer].st # "PENDING"
  BY DEF OpenQuiet
<1>1. ch[x][a].st = "OPEN" /\ ch'[x][a].peer = ch[x][a].peer
  BY DEF StatesKept
<1>2. ch[x][a].peer \in Ids /\ Peer(x) \in Ends
  BY <1>1, OpenIsPaired, PeerFacts
<1>3. ch[Peer(x)][ch[x][a].peer].st # "PENDING"
  BY <1>1 DEF FlowInv, Quiet
<1>. QED
  BY <1>1, <1>2, <1>3 DEF StatesKept

\* The numbers of FlowInv.
LEMMA FlowNumbers ==
  ASSUME FlowInv
  PROVE  /\ Ids \subseteq Nat /\ NoId \notin Ids
         /\ WinMod \in Nat /\ DataMax \in Nat
         /\ \A x \in Ends : /\ Peer(x) \in Ends /\ Peer(Peer(x)) = x /\ Peer(x) # x
                            /\ nextId[x] \in Nat
                            /\ InitialWindow[x] \in Nat /\ InitialWindow[x] < WinMod
         /\ \A x \in Ends : \A id \in Ids :
              /\ ch[x][id].sendw \in Nat /\ ch[x][id].recvw \in Nat
              /\ tally[x][id] \in TallySet
              /\ tally[x][id].sent \in Nat /\ tally[x][id].rcvd \in Nat
              /\ tally[x][id].granted \in Nat /\ tally[x][id].credited \in Nat
              /\ acc[x][id] \in Ids \cup {NoId}
<1>1. /\ Ids \subseteq Nat /\ NoId \notin Ids
      /\ WinMod \in Nat /\ DataMax \in Nat
      /\ \A x \in Ends : /\ Peer(x) \in Ends /\ Peer(Peer(x)) = x /\ Peer(x) # x
                         /\ InitialWindow[x] \in Nat /\ InitialWindow[x] < WinMod
  BY IdFacts, PeerFacts, ConfigAssumption, WidthAssumption
<1>2. TypeTable /\ TypePast
  BY DEF FlowInv, TableInv, TypeOK
<1>3. \A x \in Ends : nextId[x] \in Nat
  BY <1>2 DEF TypeTable
<1>4. \A x \in Ends : \A id \in Ids : ch[x][id].sendw \in Nat /\ ch[x][id].recvw \in Nat
  BY <1>2 DEF TypeTable, ChannelSet, ChannelFields
<1>5. \A x \in Ends : \A id \in Ids :
        tally[x][id] \in TallySet /\ acc[x][id] \in Ids \cup {NoId}
  BY <1>2 DEF TypePast
<1>6. \A t \in TallySet : /\ t.sent \in Nat /\ t.rcvd \in Nat
                          /\ t.granted \in Nat /\ t.credited \in Nat
  BY DEF TallySet
<1>. QED
  BY <1>1, <1>3, <1>4, <1>5, <1>6

\* No pair is made and no counter goes back: what a PDU says about pairs stays true.
LEMMA FlyingPaired ==
  ASSUME FlowInv, acc' = acc,
         \A x \in Ends : nextId'[x] \in Nat /\ nextId[x] <= nextId'[x],
         NEW x \in Ends, NEW i \in DOMAIN link'[x], Flying(x, link'[x][i])
  PROVE  PduPaired(x, link[x][i])'
<1>. DEFINE m == link'[x][i]
<1>1. m \in PduSet /\ PduPaired(x, m)
  BY FlyingFacts
<1>2. m.type = "OPEN" => m.from < nextId'[x]
  <2>. HAVE m.type = "OPEN"
  <2>1. m.from < nextId[x] /\ m.from \in Nat /\ nextId[x] \in Nat
    BY <1>1, FlowNumbers DEF PduPaired, PduSet, FromChannel
  <2>2. nextId'[x] \in Nat /\ nextId[x] <= nextId'[x]
    OBVIOUS
  <2>. QED
    BY <2>1, <2>2
<1>. QED
  BY <1>1, <1>2 DEF PduPaired, Paired

----------------------------------------------------------------------------
(* Steps that say nothing about windows *)

\* Slots are only freed, or keep state, peer and windows.
TameSlots ==
  /\ StatesKept
  /\ \A x \in Ends : \A id \in Ids :
       ch'[x][id].st # "UNUSED" => /\ ch'[x][id].sendw = ch[x][id].sendw
                                   /\ ch'[x][id].recvw = ch[x][id].recvw

\* New PDUs are none that FlowInv says something about.
TameLink ==
  /\ \A x \in Ends : \A i \in DOMAIN link'[x] :
       Flying(x, link'[x][i]) \/ link'[x][i].type \notin FlowTypes
  /\ LinkOrdered'

LEMMA TameStep ==
  ASSUME FlowInv, TableInv',
         TameSlots, TameLink, NoOverWindow',
         \A x \in Ends : nextId[x] <= nextId'[x],
         acc' = acc, tally' = tally
  PROVE  FlowInv'
<1>1. \A x \in Ends : nextId[x] \in Nat /\ nextId'[x] \in Nat
  BY DEF FlowInv, TableInv, TypeOK, TypeTable
<1>2. AccSound' /\ PeerSound'
  BY <1>1, AccSoundKept, PeerSoundKept DEF TameSlots, FlowInv, PairInv, TableInv, TypeOK
<1>3. \A x \in Ends : \A id \in Ids :
        ch'[x][id].st = "UNUSED" \/ ch'[x][id].st = ch[x][id].st
  BY DEF TameSlots, StatesKept
<1>4. ASSUME NEW x \in Ends, NEW i \in DOMAIN link'[x]
      PROVE  /\ PduPaired(x, link[x][i])'
             /\ PduBalanced(x, link[x][i])'
             /\ PduQuiet(x, link[x][i])'
  <2>. DEFINE m == link'[x][i]
  <2>1. CASE m.type \notin FlowTypes
    BY <2>1 DEF PduPaired, PduBalanced, PduQuiet, FlowTypes
  <2>2. CASE Flying(x, m)
    <3>1. m \in PduSet /\ PduBalanced(x, m) /\ PduQuiet(x, m)
      BY <2>2, FlyingFacts
    <3>2. /\ m.type \in FromChannel => m.from \in Ids
          /\ m.type \in ToChannel => m.to \in Ids
          /\ Peer(x) \in Ends
      BY <3>1, PeerFacts DEF PduSet
    <3>3. PduPaired(x, link[x][i])'
      BY <1>1, <2>2, FlyingPaired
    <3>4. PduBalanced(x, link[x][i])'
      BY <3>1 DEF PduBalanced, Untouched
    <3>5. PduQuiet(x, link[x][i])'
      BY <1>3, <3>1, <3>2 DEF PduQuiet, FromChannel, ToChannel
    <3>. QED
      BY <3>3, <3>4, <3>5
  <2>. QED
    BY <2>1, <2>2 DEF TameLink
<1>5. WindowsCount'
  <2>. SUFFICES ASSUME NEW x \in Ends, NEW id \in Ids
                PROVE  Counted(x, id, ch[x][id], tally[x][id])'
    BY DEF WindowsCount
  <2>1. Counted(x, id, ch[x][id], tally[x][id])
    BY DEF FlowInv, WindowsCount
  <2>2. id \in Nat /\ nextId[x] \in Nat /\ nextId'[x] \in Nat /\ nextId[x] <= nextId'[x]
    BY <1>1, IdFacts
  <2>3. id >= nextId'[x] => id >= nextId[x]
    BY <2>2
  <2>. QED
    BY <1>3, <2>1, <2>3 DEF TameSlots, Counted, Untouched
<1>6. PairBalance'
  BY DEF FlowInv, PairBalance, Balanced, Paired
<1>7. Quiet'
  BY <1>4, OpenQuietKept DEF TameSlots, Quiet, OpenQuiet
<1>8. LinkPaired' /\ LinkBalance'
  BY <1>4 DEF LinkPaired, LinkBalance
<1>. QED
  BY <1>2, <1>5, <1>6, <1>7, <1>8 DEF TameLink, FlowInv, PairInv

----------------------------------------------------------------------------
(* Sending DATA and credit *)

\* A window that fits a uint32_t does not wrap.
LEMMA NoWrap ==
  ASSUME NEW w \in Nat, NEW M \in Nat, w < M
  PROVE  w % M = w
OBVIOUS

LEMMA FlowSend ==
  ASSUME FlowInv, TableInv', NEW e \in Ends, NEW id \in Ids, NEW n \in Nat,
         ChannelSend(e, id, n)
  PROVE  FlowInv'
<1>. DEFINE q == Peer(e)
            b == ch[e][id].peer
            t == tally[e][id]
            m == [Pdu("DATA", id, b) EXCEPT !.pos = t.sent, !.len = n]
<1>1. /\ ch[e][id].st = "OPEN" /\ n <= ch[e][id].sendw /\ n <= DataMax
      /\ Send(e, m)
      /\ ch' = [ch EXCEPT ![e][id].sendw = @ - n]
      /\ tally' = [tally EXCEPT ![e][id].sent = @ + n]
      /\ nextId' = nextId /\ err' = err /\ acc' = acc
  BY DEF ChannelSend
<1>2. /\ b \in Ids /\ Paired(e, id, b) /\ ~(id >= nextId[e])
      /\ \A p : Flying(e, p) /\ p.type = "OPEN" => p.from # id
  BY <1>1, OpenIsPaired
<1>3. ch \in [Ends -> [Ids -> ChannelSet]] /\ tally \in [Ends -> [Ids -> TallySet]]
  BY DEF FlowInv, TableInv, TypeOK, TypeTable, TypePast
<1>4. /\ q \in Ends /\ q # e /\ Peer(q) = e
      /\ \A x \in Ends : x = e \/ x = q
      /\ t.sent \in Nat /\ t.rcvd \in Nat /\ t.granted \in Nat /\ t.credited \in Nat
      /\ InitialWindow[q] \in Nat /\ ch[e][id].sendw \in Nat
  BY FlowNumbers, PeerFacts
<1>5. /\ m.type = "DATA" /\ m.from = id /\ m.to = b /\ m.pos = t.sent /\ m.len = n
      /\ m \in PduSet
  BY <1>2, <1>4, PduType, PduFillType DEF Pdu, PduTypes
<1>6. \A x \in Ends : \A i \in Ids :
        /\ ch'[x][i].st = ch[x][i].st /\ ch'[x][i].peer = ch[x][i].peer
        /\ ch'[x][i].recvw = ch[x][i].recvw
        /\ ch'[x][i].sendw = IF x = e /\ i = id THEN ch[x][i].sendw - n ELSE ch[x][i].sendw
  BY <1>1, <1>3 DEF ChannelSet, ChannelFields
<1>7. \A x \in Ends : \A i \in Ids :
        /\ tally'[x][i].rcvd = tally[x][i].rcvd
        /\ tally'[x][i].granted = tally[x][i].granted
        /\ tally'[x][i].credited = tally[x][i].credited
        /\ tally'[x][i].sent = IF x = e /\ i = id THEN tally[x][i].sent + n
                                                  ELSE tally[x][i].sent
        /\ ~(x = e /\ i = id) => tally'[x][i] = tally[x][i]
  BY <1>1, <1>3 DEF TallySet
<1>8. t.sent + n <= InitialWindow[q] + t.credited
  <2>1. ch[e][id].sendw + t.sent = InitialWindow[q] + t.credited
    BY <1>1 DEF FlowInv, WindowsCount, Counted
  <2>. QED
    BY <1>1, <1>4, <2>1
<1>9. \A j \in DOMAIN link[e] : InOrder(link[e][j], m)
  <2>. SUFFICES ASSUME NEW j \in DOMAIN link[e],
                       link[e][j].from = id, link[e][j].type = "DATA"
                PROVE  link[e][j].pos + link[e][j].len <= t.sent
    BY <1>5 DEF InOrder
  <2>. QED
    BY DEF FlowInv, LinkBalance, PduBalanced
<1>10. OnlyNew(e, m) /\ LinkOrdered'
  BY <1>1, <1>5, <1>9, LinkSend DEF FlowInv, TableInv, TypeOK, PairInv
<1>11. StatesKept /\ \A x \in Ends : nextId[x] \in Nat /\ nextId[x] <= nextId[x]
  BY <1>6, FlowNumbers DEF StatesKept
<1>12. AccSound' /\ PeerSound'
  BY <1>1, <1>11, AccSoundKept, PeerSoundKept DEF FlowInv, PairInv, TableInv, TypeOK
<1>13. ASSUME NEW x \in Ends, NEW i \in DOMAIN link'[x]
       PROVE  /\ PduPaired(x, link[x][i])'
              /\ PduBalanced(x, link[x][i])'
              /\ PduQuiet(x, link[x][i])'
  <2>. DEFINE p == link'[x][i]
  <2>1. CASE Flying(x, p)
    <3>1. p \in PduSet /\ PduBalanced(x, p) /\ PduQuiet(x, p)
      BY <2>1, FlyingFacts
    <3>2. /\ p.type \in FromChannel => p.from \in Ids
          /\ p.type \in ToChannel => p.to \in Ids
          /\ Peer(x) \in Ends
          /\ p.pos \in Nat /\ p.len \in Nat
      BY <3>1, PeerFacts DEF PduSet, PduFields
    <3>3. PduPaired(x, link[x][i])'
      BY <1>1, <1>11, <2>1, FlyingPaired
    <3>4. PduBalanced(x, link[x][i])'
      <4>1. p.type = "OPEN" => tally'[x][p.from] = tally[x][p.from]
        BY <1>2, <1>7, <2>1, <3>2 DEF FromChannel
      <4>2. p.type = "DATA" => p.pos + p.len <= tally'[x][p.from].sent
        <5>. HAVE p.type = "DATA"
        <5>1. p.from \in Ids /\ p.pos + p.len <= tally[x][p.from].sent
          BY <3>1, <3>2 DEF PduBalanced, FromChannel
        <5>2. tally[x][p.from].sent \in Nat
          BY <5>1, FlowNumbers
        <5>3. tally[x][p.from].sent <= tally'[x][p.from].sent
          BY <1>7, <5>1, <5>2
        <5>4. tally'[x][p.from].sent \in Nat
          BY <1>7, <5>1, <5>2
        <5>. QED
          BY <3>2, <5>1, <5>2, <5>3, <5>4
      <4>. QED
        BY <1>7, <3>1, <3>2, <4>1, <4>2 DEF PduBalanced, Untouched, FromChannel, ToChannel
    <3>5. PduQuiet(x, link[x][i])'
      BY <1>6, <3>1, <3>2 DEF PduQuiet, FromChannel, ToChannel
    <3>. QED
      BY <3>3, <3>4, <3>5
  <2>2. CASE x = e /\ p = m
    <3>1. PduPaired(x, link[x][i])'
      BY <1>1, <1>2, <1>5, <2>2, SMTT(30) DEF PduPaired, Paired
    <3>2. tally[q][b].rcvd <= t.sent
      BY <1>2 DEF FlowInv, PairBalance, Balanced
    <3>3. PduBalanced(x, link[x][i])'
      <4>1. p.type = "DATA" /\ p.from = id /\ p.to = b /\ p.pos = t.sent /\ p.len = n
        BY ONLY <1>5, <2>2
      <4>2. p.pos + p.len <= tally'[x][p.from].sent
        <5>1. tally'[e][id].sent = t.sent + n
          BY <1>7
        <5>2. t.sent + n <= t.sent + n
          BY <1>4
        <5>. QED
          BY ONLY <2>2, <4>1, <5>1, <5>2
      <4>3. tally'[Peer(x)][p.to].rcvd <= p.pos
        <5>1. tally'[q][b].rcvd = tally[q][b].rcvd
          BY <1>2, <1>4, <1>7
        <5>. QED
          BY ONLY <2>2, <3>2, <4>1, <5>1
      <4>4. p.len <= DataMax
        BY ONLY <1>1, <4>1
      <4>. QED
        BY ONLY <4>1, <4>2, <4>3, <4>4 DEF PduBalanced
    <3>4. PduQuiet(x, link[x][i])'
      <4>1. p.type = "DATA" /\ p.to = b
        BY ONLY <1>5, <2>2
      <4>2. ch[q][b].st # "PENDING" /\ ch'[q][b].st = ch[q][b].st
        BY <1>1, <1>2, <1>4, <1>6 DEF FlowInv, Quiet
      <4>. QED
        BY ONLY <2>2, <4>1, <4>2 DEF PduQuiet
    <3>. QED
      BY <3>1, <3>3, <3>4
  <2>. QED
    BY <1>10, <2>1, <2>2 DEF OnlyNew
<1>14. WindowsCount'
  <2>. SUFFICES ASSUME NEW x \in Ends, NEW i \in Ids
                PROVE  Counted(x, i, ch[x][i], tally[x][i])'
    BY DEF WindowsCount
  <2>1. Counted(x, i, ch[x][i], tally[x][i])
    BY DEF FlowInv, WindowsCount
  <2>2. CASE x = e /\ i = id
    <3>1. ch'[e][id].sendw + tally'[e][id].sent = ch[e][id].sendw + t.sent
      BY <1>4, <1>6, <1>7
    <3>. QED
      BY <1>1, <1>2, <1>6, <1>7, <2>1, <2>2, <3>1, SMTT(30) DEF Counted
  <2>3. CASE ~(x = e /\ i = id)
    BY <1>1, <1>6, <1>7, <2>1, <2>3 DEF Counted, Untouched
  <2>. QED
    BY <2>2, <2>3
<1>15. PairBalance'
  <2>. SUFFICES ASSUME NEW x \in Ends, NEW i \in Ids, NEW j \in Ids, Paired(x, i, j)
                PROVE  Balanced(x, tally[x][i], tally[Peer(x)][j])'
    BY <1>1 DEF PairBalance, Paired
  <2>1. Balanced(x, tally[x][i], tally[Peer(x)][j]) /\ Peer(x) \in Ends
    BY PeerFacts DEF FlowInv, PairBalance
  <2>2. tally[Peer(x)][j].rcvd \in Nat /\ tally[x][i].sent \in Nat
    BY <2>1, FlowNumbers
  <2>3. CASE x = e /\ i = id
    BY <1>4, <1>7, <1>8, <2>1, <2>2, <2>3 DEF Balanced
  <2>4. CASE ~(x = e /\ i = id)
    BY <1>7, <2>1, <2>4 DEF Balanced
  <2>. QED
    BY <2>3, <2>4
<1>16. Quiet'
  BY <1>11, <1>13, OpenQuietKept DEF Quiet, OpenQuiet
<1>17. LinkPaired' /\ LinkBalance' /\ NoOverWindow'
  BY <1>1, <1>13 DEF LinkPaired, LinkBalance, FlowInv, NoOverWindow
<1>. QED
  BY <1>10, <1>12, <1>14, <1>15, <1>16, <1>17 DEF FlowInv, PairInv

LEMMA FlowWindowAdjust ==
  ASSUME FlowInv, TableInv', RecvCap < WinMod, NEW e \in Ends, NEW id \in Ids,
         NEW n \in Nat, ChannelWindowAdjust(e, id, n)
  PROVE  FlowInv'
<1>. DEFINE q == Peer(e)
            b == ch[e][id].peer
            t == tally[e][id]
            m == [Pdu("WINDOW", id, b) EXCEPT !.pos = t.granted, !.len = n]
<1>1. /\ ch[e][id].st = "OPEN" /\ ch[e][id].recvw + n <= RecvCap
      /\ Send(e, m)
      /\ ch' = [ch EXCEPT ![e][id].recvw = (@ + n) % WinMod]
      /\ tally' = [tally EXCEPT ![e][id].granted = @ + n]
      /\ nextId' = nextId /\ err' = err /\ acc' = acc
  BY DEF ChannelWindowAdjust
<1>2. /\ b \in Ids /\ Paired(e, id, b) /\ ~(id >= nextId[e])
      /\ \A p : Flying(e, p) /\ p.type = "OPEN" => p.from # id
  BY <1>1, OpenIsPaired
<1>3. ch \in [Ends -> [Ids -> ChannelSet]] /\ tally \in [Ends -> [Ids -> TallySet]]
  BY DEF FlowInv, TableInv, TypeOK, TypeTable, TypePast
<1>4. /\ q \in Ends /\ q # e /\ Peer(q) = e
      /\ \A x \in Ends : x = e \/ x = q
      /\ t.sent \in Nat /\ t.rcvd \in Nat /\ t.granted \in Nat /\ t.credited \in Nat
      /\ InitialWindow[e] \in Nat /\ ch[e][id].recvw \in Nat
      /\ WinMod \in Nat /\ RecvCap \in Nat
  BY FlowNumbers, PeerFacts, BoundAssumption
<1>5. /\ m.type = "WINDOW" /\ m.from = id /\ m.to = b /\ m.pos = t.granted /\ m.len = n
      /\ m \in PduSet
  BY <1>2, <1>4, PduType, PduFillType DEF Pdu, PduTypes
<1>6. \A x \in Ends : \A i \in Ids :
        /\ ch'[x][i].st = ch[x][i].st /\ ch'[x][i].peer = ch[x][i].peer
        /\ ch'[x][i].sendw = ch[x][i].sendw
        /\ ch'[x][i].recvw = IF x = e /\ i = id THEN ch[x][i].recvw + n ELSE ch[x][i].recvw
  <2>1. ch[e][id].recvw + n \in Nat /\ ch[e][id].recvw + n < WinMod
    BY <1>1, <1>4
  <2>2. (ch[e][id].recvw + n) % WinMod = ch[e][id].recvw + n
    BY <1>4, <2>1, NoWrap
  <2>. QED
    BY <1>1, <1>3, <2>2 DEF ChannelSet, ChannelFields
<1>7. \A x \in Ends : \A i \in Ids :
        /\ tally'[x][i].rcvd = tally[x][i].rcvd
        /\ tally'[x][i].sent = tally[x][i].sent
        /\ tally'[x][i].credited = tally[x][i].credited
        /\ tally'[x][i].granted = IF x = e /\ i = id THEN tally[x][i].granted + n
                                                     ELSE tally[x][i].granted
        /\ ~(x = e /\ i = id) => tally'[x][i] = tally[x][i]
  BY <1>1, <1>3 DEF TallySet
<1>8. /\ ch[e][id].recvw + t.rcvd = InitialWindow[e] + t.granted
      /\ InitialWindow[e] + (t.granted + n) - t.rcvd < WinMod
  <2>1. ch[e][id].recvw + t.rcvd = InitialWindow[e] + t.granted
    BY <1>1 DEF FlowInv, WindowsCount, Counted
  <2>. QED
    BY <1>1, <1>4, <2>1
<1>9. \A j \in DOMAIN link[e] : InOrder(link[e][j], m)
  <2>. SUFFICES ASSUME NEW j \in DOMAIN link[e],
                       link[e][j].from = id, link[e][j].type = "WINDOW"
                PROVE  link[e][j].pos + link[e][j].len <= t.granted
    BY <1>5 DEF InOrder
  <2>. QED
    BY DEF FlowInv, LinkBalance, PduBalanced
<1>10. OnlyNew(e, m) /\ LinkOrdered'
  BY <1>1, <1>5, <1>9, LinkSend DEF FlowInv, TableInv, TypeOK, PairInv
<1>11. StatesKept /\ \A x \in Ends : nextId[x] \in Nat /\ nextId[x] <= nextId[x]
  BY <1>6, FlowNumbers DEF StatesKept
<1>12. AccSound' /\ PeerSound'
  BY <1>1, <1>11, AccSoundKept, PeerSoundKept DEF FlowInv, PairInv, TableInv, TypeOK
<1>13. ASSUME NEW x \in Ends, NEW i \in DOMAIN link'[x]
       PROVE  /\ PduPaired(x, link[x][i])'
              /\ PduBalanced(x, link[x][i])'
              /\ PduQuiet(x, link[x][i])'
  <2>. DEFINE p == link'[x][i]
  <2>1. CASE Flying(x, p)
    <3>1. p \in PduSet /\ PduBalanced(x, p) /\ PduQuiet(x, p)
      BY <2>1, FlyingFacts
    <3>2. /\ p.type \in FromChannel => p.from \in Ids
          /\ p.type \in ToChannel => p.to \in Ids
          /\ Peer(x) \in Ends
          /\ p.pos \in Nat /\ p.len \in Nat
      BY <3>1, PeerFacts DEF PduSet, PduFields
    <3>3. PduPaired(x, link[x][i])'
      BY <1>1, <1>11, <2>1, FlyingPaired
    <3>4. PduBalanced(x, link[x][i])'
      <4>1. p.type = "OPEN" => tally'[x][p.from] = tally[x][p.from]
        BY <1>2, <1>7, <2>1, <3>2 DEF FromChannel
      <4>2. p.type = "WINDOW" => p.pos + p.len <= tally'[x][p.from].granted
        <5>. HAVE p.type = "WINDOW"
        <5>1. p.from \in Ids /\ p.pos + p.len <= tally[x][p.from].granted
          BY <3>1, <3>2 DEF PduBalanced, FromChannel
        <5>2. tally[x][p.from].granted \in Nat
          BY <5>1, FlowNumbers
        <5>3. tally[x][p.from].granted <= tally'[x][p.from].granted
          BY <1>7, <5>1, <5>2
        <5>4. tally'[x][p.from].granted \in Nat
          BY <1>7, <5>1, <5>2
        <5>. QED
          BY <3>2, <5>1, <5>2, <5>3, <5>4
      <4>. QED
        BY <1>7, <3>1, <3>2, <4>1, <4>2 DEF PduBalanced, Untouched, FromChannel, ToChannel
    <3>5. PduQuiet(x, link[x][i])'
      BY <1>6, <3>1, <3>2 DEF PduQuiet, FromChannel, ToChannel
    <3>. QED
      BY <3>3, <3>4, <3>5
  <2>2. CASE x = e /\ p = m
    <3>1. PduPaired(x, link[x][i])'
      BY <1>1, <1>2, <1>5, <2>2, SMTT(30) DEF PduPaired, Paired
    <3>2. tally[q][b].credited <= t.granted
      <4>1. Paired(q, b, id)
        BY <1>2, PairSymmetric
      <4>. QED
        BY <1>2, <1>4, <4>1 DEF FlowInv, PairBalance, Balanced
    <3>3. m.pos + m.len = tally'[e][id].granted /\ tally'[q][b].credited <= m.pos
      BY <1>2, <1>4, <1>5, <1>7, <3>2
    <3>4. PduBalanced(x, link[x][i])'
      <4>1. tally'[e][id].granted \in Nat
        BY <1>4, <1>7
      <4>. QED
        BY <1>5, <2>2, <3>3, <4>1, SMTT(30) DEF PduBalanced
    <3>5. PduQuiet(x, link[x][i])'
      BY <1>5, <2>2 DEF PduQuiet
    <3>. QED
      BY <3>1, <3>4, <3>5
  <2>. QED
    BY <1>10, <2>1, <2>2 DEF OnlyNew
<1>14. WindowsCount'
  <2>. SUFFICES ASSUME NEW x \in Ends, NEW i \in Ids
                PROVE  Counted(x, i, ch[x][i], tally[x][i])'
    BY DEF WindowsCount
  <2>1. Counted(x, i, ch[x][i], tally[x][i])
    BY DEF FlowInv, WindowsCount
  <2>2. CASE x = e /\ i = id
    <3>1. ch'[e][id].recvw + t.rcvd = InitialWindow[e] + (t.granted + n)
      BY <1>4, <1>6, <1>8
    <3>. QED
      BY <1>1, <1>2, <1>6, <1>7, <1>8, <2>1, <2>2, <3>1, SMTT(30) DEF Counted
  <2>3. CASE ~(x = e /\ i = id)
    BY <1>1, <1>6, <1>7, <2>1, <2>3, SMTT(30) DEF Counted, Untouched
  <2>. QED
    BY <2>2, <2>3
<1>15. PairBalance'
  <2>. SUFFICES ASSUME NEW x \in Ends, NEW i \in Ids, NEW j \in Ids, Paired(x, i, j)
                PROVE  Balanced(x, tally[x][i], tally[Peer(x)][j])'
    BY <1>1 DEF PairBalance, Paired
  <2>1. Balanced(x, tally[x][i], tally[Peer(x)][j]) /\ Peer(x) \in Ends
    BY PeerFacts DEF FlowInv, PairBalance
  <2>2. tally[Peer(x)][j].granted \in Nat /\ tally[x][i].credited \in Nat
    BY <2>1, FlowNumbers
  <2>3. tally[x][i].credited <= tally'[Peer(x)][j].granted
    BY <1>7, <2>1, <2>2 DEF Balanced
  <2>. QED
    BY <1>7, <2>1, <2>3 DEF Balanced
<1>16. Quiet'
  BY <1>11, <1>13, OpenQuietKept DEF Quiet, OpenQuiet
<1>17. LinkPaired' /\ LinkBalance' /\ NoOverWindow'
  BY <1>1, <1>13 DEF LinkPaired, LinkBalance, FlowInv, NoOverWindow
<1>. QED
  BY <1>10, <1>12, <1>14, <1>15, <1>16, <1>17 DEF FlowInv, PairInv

----------------------------------------------------------------------------
(* Receiving DATA and credit *)

\* Facts about the frame that is being handled.
LEMMA IncomingFacts ==
  ASSUME FlowInv, NEW e \in Ends, NEW t, Arrives(e, t), Consume(e)
  PROVE  LET m == Incoming(e) IN
         /\ m.type = t /\ m \in PduSet /\ m.pos \in Nat /\ m.len \in Nat
         /\ Flying(Peer(e), m)
         /\ PduPaired(Peer(e), m) /\ PduBalanced(Peer(e), m) /\ PduQuiet(Peer(e), m)
         /\ NothingNew /\ LinkOrdered'
         /\ \A i \in DOMAIN link'[Peer(e)] : InOrder(m, link'[Peer(e)][i])
<1>1. Readable(e) /\ Incoming(e).type = t
  BY DEF Arrives
<1>2. /\ NothingNew /\ LinkOrdered' /\ Flying(Peer(e), Incoming(e))
      /\ \A i \in DOMAIN link'[Peer(e)] : InOrder(Incoming(e), link'[Peer(e)][i])
  BY <1>1, LinkConsume DEF FlowInv, TableInv, TypeOK, PairInv
<1>3. /\ Incoming(e) \in PduSet /\ PduPaired(Peer(e), Incoming(e))
      /\ PduBalanced(Peer(e), Incoming(e)) /\ PduQuiet(Peer(e), Incoming(e))
  BY <1>2, FlyingFacts, PeerFacts
<1>4. Incoming(e).pos \in Nat /\ Incoming(e).len \in Nat
  BY <1>3 DEF PduSet, PduFields
<1>. QED
  BY <1>1, <1>2, <1>3, <1>4

LEMMA FlowRecvWindow ==
  ASSUME FlowInv, TableInv', NEW e \in Ends, RecvWindow(e),
         ch[e][Incoming(e).to].st = "OPEN"
  PROVE  FlowInv'
<1>. DEFINE q == Peer(e)
            m == Incoming(e)
            id == m.to
            b == m.from
            n == m.len
            t == tally[e][id]
<1>1. /\ Arrives(e, "WINDOW") /\ Consume(e) /\ ch[e][id].st = "OPEN"
      /\ ch' = [ch EXCEPT ![e][id].sendw = (@ + n) % WinMod]
      /\ tally' = [tally EXCEPT ![e][id].credited = @ + n]
      /\ nextId' = nextId /\ err' = err /\ acc' = acc
  BY DEF RecvWindow
<1>2. /\ m.type = "WINDOW" /\ m \in PduSet /\ m.pos \in Nat /\ n \in Nat
      /\ PduPaired(q, m) /\ PduBalanced(q, m)
      /\ NothingNew /\ LinkOrdered'
      /\ \A i \in DOMAIN link'[q] : InOrder(m, link'[q][i])
  BY <1>1, IncomingFacts
<1>3. ch \in [Ends -> [Ids -> ChannelSet]] /\ tally \in [Ends -> [Ids -> TallySet]]
  BY DEF FlowInv, TableInv, TypeOK, TypeTable, TypePast
<1>4. /\ id \in Ids /\ b \in Ids
      /\ q \in Ends /\ q # e /\ Peer(q) = e
      /\ \A x \in Ends : x = e \/ x = q
  BY <1>2, PeerFacts DEF PduSet, FromChannel, ToChannel
<1>5. /\ t.sent \in Nat /\ t.rcvd \in Nat /\ t.granted \in Nat /\ t.credited \in Nat
      /\ tally[q][b].granted \in Nat /\ tally[q][b].rcvd \in Nat
      /\ InitialWindow[q] \in Nat /\ ch[e][id].sendw \in Nat
      /\ WinMod \in Nat
  BY <1>4, FlowNumbers
<1>6. /\ Paired(q, b, id) /\ Paired(e, id, b)
      /\ m.pos + n <= tally[q][b].granted /\ t.credited <= m.pos
      /\ t.credited + n <= m.pos + n /\ t.credited + n <= tally[q][b].granted
  <2>1. Paired(q, b, id)
    BY <1>2 DEF PduPaired
  <2>2. m.pos + n <= tally[q][b].granted /\ t.credited <= m.pos
    BY <1>2, <1>4 DEF PduBalanced
  <2>. QED
    BY <1>2, <1>4, <1>5, <2>1, <2>2, PairSymmetric
<1>7. ~(id >= nextId[e]) /\ \A p : Flying(e, p) /\ p.type = "OPEN" => p.from # id
  BY <1>1, <1>4, OpenIsPaired
<1>8. /\ ch[e][id].sendw + t.sent = InitialWindow[q] + t.credited
      /\ ch[e][id].sendw + n \in Nat /\ ch[e][id].sendw + n < WinMod
  <2>1. ch[e][id].sendw + t.sent = InitialWindow[q] + t.credited
    BY <1>1, <1>4 DEF FlowInv, WindowsCount, Counted
  <2>2. InitialWindow[q] + tally[q][b].granted - tally[q][b].rcvd < WinMod
    BY <1>4 DEF FlowInv, WindowsCount, Counted
  <2>3. tally[q][b].rcvd <= t.sent
    BY <1>4, <1>6 DEF FlowInv, PairBalance, Balanced
  <2>. QED
    BY <1>2, <1>5, <1>6, <2>1, <2>2, <2>3
<1>9. \A x \in Ends : \A i \in Ids :
        /\ ch'[x][i].st = ch[x][i].st /\ ch'[x][i].peer = ch[x][i].peer
        /\ ch'[x][i].recvw = ch[x][i].recvw
        /\ ch'[x][i].sendw = IF x = e /\ i = id THEN ch[x][i].sendw + n ELSE ch[x][i].sendw
  <2>1. (ch[e][id].sendw + n) % WinMod = ch[e][id].sendw + n
    BY <1>5, <1>8, NoWrap
  <2>. QED
    BY <1>1, <1>3, <1>4, <2>1 DEF ChannelSet, ChannelFields
<1>10. \A x \in Ends : \A i \in Ids :
        /\ tally'[x][i].rcvd = tally[x][i].rcvd
        /\ tally'[x][i].sent = tally[x][i].sent
        /\ tally'[x][i].granted = tally[x][i].granted
        /\ tally'[x][i].credited = IF x = e /\ i = id THEN tally[x][i].credited + n
                                                      ELSE tally[x][i].credited
        /\ ~(x = e /\ i = id) => tally'[x][i] = tally[x][i]
  BY <1>1, <1>3, <1>4 DEF TallySet
<1>11. StatesKept /\ \A x \in Ends : nextId[x] \in Nat /\ nextId[x] <= nextId[x]
  BY <1>9, FlowNumbers DEF StatesKept
<1>12. AccSound' /\ PeerSound'
  BY <1>1, <1>11, AccSoundKept, PeerSoundKept DEF FlowInv, PairInv, TableInv, TypeOK
<1>13. ASSUME NEW x \in Ends, NEW i \in DOMAIN link'[x]
       PROVE  /\ PduPaired(x, link[x][i])'
              /\ PduBalanced(x, link[x][i])'
              /\ PduQuiet(x, link[x][i])'
  <2>. DEFINE p == link'[x][i]
  <2>1. Flying(x, p)
    BY <1>2 DEF NothingNew
  <2>2. p \in PduSet /\ PduPaired(x, p) /\ PduBalanced(x, p) /\ PduQuiet(x, p)
    BY <2>1, FlyingFacts
  <2>3. /\ p.type \in FromChannel => p.from \in Ids
        /\ p.type \in ToChannel => p.to \in Ids
        /\ Peer(x) \in Ends
        /\ p.pos \in Nat /\ p.len \in Nat
    BY <2>2, PeerFacts DEF PduSet, PduFields
  <2>4. PduPaired(x, link[x][i])'
    BY <1>1, <1>11, <2>1, FlyingPaired
  <2>5. PduBalanced(x, link[x][i])'
    <3>1. p.type = "OPEN" => tally'[x][p.from] = tally[x][p.from]
      BY <1>7, <1>10, <2>1, <2>3 DEF FromChannel
    <3>2. p.type = "WINDOW" => tally'[Peer(x)][p.to].credited <= p.pos
      <4>. HAVE p.type = "WINDOW"
      <4>1. /\ p.from \in Ids /\ p.to \in Ids /\ Paired(x, p.from, p.to)
            /\ tally[Peer(x)][p.to].credited <= p.pos
        BY <2>2, <2>3 DEF PduPaired, PduBalanced, FromChannel, ToChannel
      <4>2. CASE Peer(x) = e /\ p.to = id
        <5>1. x = q /\ p.from = b
          BY <1>4, <1>6, <4>1, <4>2, PairUnique DEF FlowInv, PairInv
        <5>2. m.pos + n <= p.pos
          BY <1>2, <2>3, <5>1 DEF InOrder
        <5>. QED
          BY <1>2, <1>4, <1>5, <1>6, <1>10, <2>3, <4>2, <5>2
      <4>3. CASE ~(Peer(x) = e /\ p.to = id)
        BY <1>10, <2>3, <4>1, <4>3
      <4>. QED
        BY <4>2, <4>3
    <3>. QED
      BY <1>10, <2>2, <2>3, <3>1, <3>2 DEF PduBalanced, Untouched, FromChannel, ToChannel
  <2>6. PduQuiet(x, link[x][i])'
    BY <1>9, <2>2, <2>3 DEF PduQuiet, FromChannel, ToChannel
  <2>. QED
    BY <2>4, <2>5, <2>6
<1>14. WindowsCount'
  <2>. SUFFICES ASSUME NEW x \in Ends, NEW i \in Ids
                PROVE  Counted(x, i, ch[x][i], tally[x][i])'
    BY DEF WindowsCount
  <2>1. Counted(x, i, ch[x][i], tally[x][i])
    BY DEF FlowInv, WindowsCount
  <2>2. CASE x = e /\ i = id
    <3>1. ch'[e][id].sendw + t.sent = InitialWindow[q] + (t.credited + n)
      BY <1>2, <1>4, <1>5, <1>8, <1>9
    <3>. QED
      BY <1>1, <1>4, <1>7, <1>9, <1>10, <2>1, <2>2, <3>1, SMTT(30) DEF Counted
  <2>3. CASE ~(x = e /\ i = id)
    BY <1>1, <1>9, <1>10, <2>1, <2>3, SMTT(30) DEF Counted, Untouched
  <2>. QED
    BY <2>2, <2>3
<1>15. PairBalance'
  <2>. SUFFICES ASSUME NEW x \in Ends, NEW i \in Ids, NEW j \in Ids, Paired(x, i, j)
                PROVE  Balanced(x, tally[x][i], tally[Peer(x)][j])'
    BY <1>1 DEF PairBalance, Paired
  <2>1. Balanced(x, tally[x][i], tally[Peer(x)][j]) /\ Peer(x) \in Ends
    BY PeerFacts DEF FlowInv, PairBalance
  <2>2. CASE x = e /\ i = id
    <3>1. j = b
      <4>1. Paired(q, j, id)
        BY <2>2, PairSymmetric
      <4>. QED
        BY <1>4, <1>6, <4>1, PairUnique DEF FlowInv, PairInv
    <3>2. t.sent <= InitialWindow[q] + (t.credited + n)
      BY <1>2, <1>5, <2>1, <2>2 DEF Balanced
    <3>. QED
      BY <1>4, <1>6, <1>10, <2>1, <2>2, <3>1, <3>2 DEF Balanced
  <2>3. CASE ~(x = e /\ i = id)
    BY <1>10, <2>1, <2>3 DEF Balanced
  <2>. QED
    BY <2>2, <2>3
<1>16. Quiet'
  BY <1>11, <1>13, OpenQuietKept DEF Quiet, OpenQuiet
<1>17. LinkPaired' /\ LinkBalance' /\ NoOverWindow'
  BY <1>1, <1>13 DEF LinkPaired, LinkBalance, FlowInv, NoOverWindow
<1>. QED
  BY <1>2, <1>12, <1>14, <1>15, <1>16, <1>17 DEF FlowInv, PairInv

\* The frame at the head of the link is in flight.
LEMMA IncomingFlies ==
  ASSUME TypeIO, NEW e \in Ends, Readable(e)
  PROVE  Flying(Peer(e), Incoming(e))
<1>1. /\ link[Peer(e)] \in Seq(PduSet) /\ link[Peer(e)] # <<>>
      /\ Len(link[Peer(e)]) \in Nat
  BY IncomingType
<1>2. 1 \in DOMAIN link[Peer(e)] /\ Incoming(e) = link[Peer(e)][1]
  BY <1>1, HeadTailProperties, LenProperties, EmptySeq DEF Incoming
<1>. QED
  BY <1>2 DEF Flying

\* DATA that arrives at an OPEN channel fits its receive window and DATA_MAX, and
\* DATA never arrives at a PENDING one.
LEMMA DataFits ==
  ASSUME FlowInv, NEW e \in Ends, Arrives(e, "DATA")
  PROVE  LET m == Incoming(e) IN
         /\ DataVerdict(ch[e][m.to], m.len) \in {"none", "DATA bad ch"}
         /\ DataVerdict(ch[e][m.to], m.len) = "none" =>
              ch[e][m.to].st = "OPEN" /\ m.len <= ch[e][m.to].recvw
<1>. DEFINE q == Peer(e)
            m == Incoming(e)
            c == ch[e][m.to]
<1>1. m.type = "DATA" /\ Flying(q, m) /\ q \in Ends /\ Peer(q) = e
  BY IncomingFlies, PeerFacts DEF Arrives, FlowInv, TableInv, TypeOK
<1>2. m \in PduSet /\ PduPaired(q, m) /\ PduBalanced(q, m) /\ PduQuiet(q, m)
  BY <1>1, FlyingFacts
<1>3. m.from \in Ids /\ m.to \in Ids /\ m.len \in Nat /\ m.pos \in Nat
  BY <1>1, <1>2 DEF PduSet, PduFields, FromChannel, ToChannel
<1>4. c.st \in ChStates /\ c.st # "PENDING" /\ m.len <= DataMax
  <2>1. c \in ChannelSet
    BY <1>3 DEF FlowInv, TableInv, TypeOK, TypeTable
  <2>. QED
    BY <1>1, <1>2, <2>1 DEF ChannelSet, ChannelFields, PduQuiet, PduBalanced
<1>5. c.st = "OPEN" => m.len <= c.recvw
  <2>. HAVE c.st = "OPEN"
  <2>1. c.recvw + tally[e][m.to].rcvd = InitialWindow[e] + tally[e][m.to].granted
    BY <1>3 DEF FlowInv, WindowsCount, Counted
  <2>2. /\ m.pos + m.len <= tally[q][m.from].sent
        /\ tally[e][m.to].rcvd <= m.pos
    BY <1>1, <1>2 DEF PduBalanced
  <2>3. /\ tally[q][m.from].credited <= tally[e][m.to].granted
        /\ tally[q][m.from].sent <= InitialWindow[e] + tally[q][m.from].credited
    BY <1>1, <1>2, <1>3 DEF PduPaired, FlowInv, PairBalance, Balanced
  <2>4. /\ c.recvw \in Nat /\ tally[e][m.to].rcvd \in Nat /\ tally[e][m.to].granted \in Nat
        /\ tally[q][m.from].sent \in Nat /\ tally[q][m.from].credited \in Nat
        /\ InitialWindow[e] \in Nat
    BY <1>1, <1>3, FlowNumbers
  <2>. QED
    BY <1>3, <2>1, <2>2, <2>3, <2>4
<1>6. c.st \in {"UNUSED", "OPENING", "OPEN"}
  BY <1>4 DEF ChStates
<1>7. CASE c.st = "OPEN"
  <2>1. m.len <= c.recvw /\ m.len <= DataMax
    BY <1>4, <1>5, <1>7
  <2>2. ~(m.len > c.recvw) /\ ~(m.len > DataMax)
    BY <1>3, <1>7, <2>1, FlowNumbers
  <2>3. DataVerdict(c, m.len) = "none"
    BY <1>7, <2>1, <2>2 DEF DataVerdict
  <2>. QED
    BY <1>7, <2>1, <2>3
<1>8. CASE c.st \in {"UNUSED", "OPENING"}
  <2>1. DataVerdict(c, m.len) = "DATA bad ch"
    BY <1>8 DEF DataVerdict
  <2>. QED
    BY <2>1
<1>. QED
  BY <1>6, <1>7, <1>8

LEMMA FlowRecvData ==
  ASSUME FlowInv, TableInv', NEW e \in Ends, RecvData(e),
         DataVerdict(ch[e][Incoming(e).to], Incoming(e).len) = "none"
  PROVE  FlowInv'
<1>. DEFINE q == Peer(e)
            m == Incoming(e)
            id == m.to
            b == m.from
            n == m.len
            t == tally[e][id]
<1>1. /\ Arrives(e, "DATA") /\ Consume(e)
      /\ ch' = [ch EXCEPT ![e][id].recvw = @ - n]
      /\ tally' = [tally EXCEPT ![e][id].rcvd = @ + n]
      /\ nextId' = nextId /\ err' = err /\ acc' = acc
  BY DEF RecvData
<1>2. /\ m.type = "DATA" /\ m \in PduSet /\ m.pos \in Nat /\ n \in Nat
      /\ PduPaired(q, m) /\ PduBalanced(q, m)
      /\ NothingNew /\ LinkOrdered'
      /\ \A i \in DOMAIN link'[q] : InOrder(m, link'[q][i])
  BY <1>1, IncomingFacts
<1>3. ch \in [Ends -> [Ids -> ChannelSet]] /\ tally \in [Ends -> [Ids -> TallySet]]
  BY DEF FlowInv, TableInv, TypeOK, TypeTable, TypePast
<1>4. /\ id \in Ids /\ b \in Ids
      /\ q \in Ends /\ q # e /\ Peer(q) = e
      /\ \A x \in Ends : x = e \/ x = q
  BY <1>2, PeerFacts DEF PduSet, FromChannel, ToChannel
<1>5. /\ t.sent \in Nat /\ t.rcvd \in Nat /\ t.granted \in Nat /\ t.credited \in Nat
      /\ tally[q][b].sent \in Nat
      /\ InitialWindow[e] \in Nat /\ ch[e][id].recvw \in Nat
      /\ WinMod \in Nat
  BY <1>4, FlowNumbers
<1>6. /\ Paired(q, b, id) /\ Paired(e, id, b)
      /\ m.pos + n <= tally[q][b].sent /\ t.rcvd <= m.pos
      /\ t.rcvd + n <= m.pos + n /\ t.rcvd + n <= tally[q][b].sent
  <2>1. Paired(q, b, id)
    BY <1>2 DEF PduPaired
  <2>2. m.pos + n <= tally[q][b].sent /\ t.rcvd <= m.pos
    BY <1>2, <1>4 DEF PduBalanced
  <2>. QED
    BY <1>2, <1>4, <1>5, <2>1, <2>2, PairSymmetric
<1>7. /\ ch[e][id].st = "OPEN" /\ ~(id >= nextId[e])
      /\ \A p : Flying(e, p) /\ p.type = "OPEN" => p.from # id
  BY <1>1, <1>4, DataFits, OpenIsPaired
<1>8. /\ ch[e][id].recvw + t.rcvd = InitialWindow[e] + t.granted
      /\ InitialWindow[e] + t.granted - (t.rcvd + n) < WinMod
  <2>1. /\ ch[e][id].recvw + t.rcvd = InitialWindow[e] + t.granted
        /\ InitialWindow[e] + t.granted - t.rcvd < WinMod
    BY <1>4, <1>7 DEF FlowInv, WindowsCount, Counted
  <2>. QED
    BY <1>2, <1>5, <2>1
<1>9. \A x \in Ends : \A i \in Ids :
        /\ ch'[x][i].st = ch[x][i].st /\ ch'[x][i].peer = ch[x][i].peer
        /\ ch'[x][i].sendw = ch[x][i].sendw
        /\ ch'[x][i].recvw = IF x = e /\ i = id THEN ch[x][i].recvw - n ELSE ch[x][i].recvw
  BY <1>1, <1>3, <1>4 DEF ChannelSet, ChannelFields
<1>10. \A x \in Ends : \A i \in Ids :
        /\ tally'[x][i].credited = tally[x][i].credited
        /\ tally'[x][i].sent = tally[x][i].sent
        /\ tally'[x][i].granted = tally[x][i].granted
        /\ tally'[x][i].rcvd = IF x = e /\ i = id THEN tally[x][i].rcvd + n
                                                  ELSE tally[x][i].rcvd
        /\ ~(x = e /\ i = id) => tally'[x][i] = tally[x][i]
  BY <1>1, <1>3, <1>4 DEF TallySet
<1>11. StatesKept /\ \A x \in Ends : nextId[x] \in Nat /\ nextId[x] <= nextId[x]
  BY <1>9, FlowNumbers DEF StatesKept
<1>12. AccSound' /\ PeerSound'
  BY <1>1, <1>11, AccSoundKept, PeerSoundKept DEF FlowInv, PairInv, TableInv, TypeOK
<1>13. ASSUME NEW x \in Ends, NEW i \in DOMAIN link'[x]
       PROVE  /\ PduPaired(x, link[x][i])'
              /\ PduBalanced(x, link[x][i])'
              /\ PduQuiet(x, link[x][i])'
  <2>. DEFINE p == link'[x][i]
  <2>1. Flying(x, p)
    BY <1>2 DEF NothingNew
  <2>2. p \in PduSet /\ PduPaired(x, p) /\ PduBalanced(x, p) /\ PduQuiet(x, p)
    BY <2>1, FlyingFacts
  <2>3. /\ p.type \in FromChannel => p.from \in Ids
        /\ p.type \in ToChannel => p.to \in Ids
        /\ Peer(x) \in Ends
        /\ p.pos \in Nat /\ p.len \in Nat
    BY <2>2, PeerFacts DEF PduSet, PduFields
  <2>4. PduPaired(x, link[x][i])'
    BY <1>1, <1>11, <2>1, FlyingPaired
  <2>5. PduBalanced(x, link[x][i])'
    <3>1. p.type = "OPEN" => tally'[x][p.from] = tally[x][p.from]
      BY <1>7, <1>10, <2>1, <2>3 DEF FromChannel
    <3>2. p.type = "DATA" => tally'[Peer(x)][p.to].rcvd <= p.pos
      <4>. HAVE p.type = "DATA"
      <4>1. /\ p.from \in Ids /\ p.to \in Ids /\ Paired(x, p.from, p.to)
            /\ tally[Peer(x)][p.to].rcvd <= p.pos
        BY <2>2, <2>3 DEF PduPaired, PduBalanced, FromChannel, ToChannel
      <4>2. CASE Peer(x) = e /\ p.to = id
        <5>1. x = q /\ p.from = b
          BY <1>4, <1>6, <4>1, <4>2, PairUnique DEF FlowInv, PairInv
        <5>2. m.pos + n <= p.pos
          BY <1>2, <2>3, <5>1 DEF InOrder
        <5>. QED
          BY <1>2, <1>4, <1>5, <1>6, <1>10, <2>3, <4>2, <5>2
      <4>3. CASE ~(Peer(x) = e /\ p.to = id)
        BY <1>10, <2>3, <4>1, <4>3
      <4>. QED
        BY <4>2, <4>3
    <3>. QED
      BY <1>10, <2>2, <2>3, <3>1, <3>2 DEF PduBalanced, Untouched, FromChannel, ToChannel
  <2>6. PduQuiet(x, link[x][i])'
    BY <1>9, <2>2, <2>3 DEF PduQuiet, FromChannel, ToChannel
  <2>. QED
    BY <2>4, <2>5, <2>6
<1>14. WindowsCount'
  <2>. SUFFICES ASSUME NEW x \in Ends, NEW i \in Ids
                PROVE  Counted(x, i, ch[x][i], tally[x][i])'
    BY DEF WindowsCount
  <2>1. Counted(x, i, ch[x][i], tally[x][i])
    BY DEF FlowInv, WindowsCount
  <2>2. CASE x = e /\ i = id
    <3>1. ch'[e][id].recvw + (t.rcvd + n) = InitialWindow[e] + t.granted
      BY <1>2, <1>4, <1>5, <1>8, <1>9
    <3>. QED
      BY <1>1, <1>4, <1>7, <1>8, <1>9, <1>10, <2>1, <2>2, <3>1, SMTT(30) DEF Counted
  <2>3. CASE ~(x = e /\ i = id)
    BY <1>1, <1>9, <1>10, <2>1, <2>3, SMTT(30) DEF Counted, Untouched
  <2>. QED
    BY <2>2, <2>3
<1>15. PairBalance'
  <2>. SUFFICES ASSUME NEW x \in Ends, NEW i \in Ids, NEW j \in Ids, Paired(x, i, j)
                PROVE  Balanced(x, tally[x][i], tally[Peer(x)][j])'
    BY <1>1 DEF PairBalance, Paired
  <2>1. Balanced(x, tally[x][i], tally[Peer(x)][j]) /\ Peer(x) \in Ends
    BY PeerFacts DEF FlowInv, PairBalance
  <2>2. CASE x = q /\ j = id
    <3>1. i = b
      BY <1>4, <1>6, <2>2, PairUnique DEF FlowInv, PairInv
    <3>. QED
      BY <1>4, <1>6, <1>10, <2>1, <2>2, <3>1 DEF Balanced
  <2>3. CASE ~(x = q /\ j = id)
    BY <1>4, <1>10, <2>1, <2>3 DEF Balanced
  <2>. QED
    BY <2>2, <2>3
<1>16. Quiet'
  BY <1>11, <1>13, OpenQuietKept DEF Quiet, OpenQuiet
<1>17. LinkPaired' /\ LinkBalance' /\ NoOverWindow'
  BY <1>1, <1>13 DEF LinkPaired, LinkBalance, FlowInv, NoOverWindow
<1>. QED
  BY <1>2, <1>12, <1>14, <1>15, <1>16, <1>17 DEF FlowInv, PairInv

----------------------------------------------------------------------------
(* Opening channels *)

\* A step that counts no bytes and makes no pair keeps the pairs balanced.
LEMMA BalanceKept ==
  ASSUME FlowInv, acc' = acc, tally' = tally
  PROVE  PairBalance'
BY DEF FlowInv, PairBalance, Balanced, Paired

LEMMA FlowRecvConfirm ==
  ASSUME FlowInv, TableInv', NEW e \in Ends, RecvConfirm(e),
         ch[e][Incoming(e).to].st = "OPENING"
  PROVE  FlowInv'
<1>. DEFINE q == Peer(e)
            m == Incoming(e)
            id == m.to
            b == m.from
<1>1. /\ Arrives(e, "CONFIRM") /\ Consume(e) /\ ch[e][id].st = "OPENING"
      /\ ch' = [ch EXCEPT ![e][id].st = "OPEN", ![e][id].peer = b,
                          ![e][id].sendw = m.len, ![e][id].max = PacketLimit(e, m.max)]
      /\ tally' = tally /\ nextId' = nextId /\ err' = err /\ acc' = acc
  BY DEF RecvConfirm
<1>2. /\ m.type = "CONFIRM" /\ m \in PduSet
      /\ PduPaired(q, m) /\ PduBalanced(q, m) /\ PduQuiet(q, m)
      /\ NothingNew /\ LinkOrdered'
  BY <1>1, IncomingFacts
<1>3. ch \in [Ends -> [Ids -> ChannelSet]]
  BY DEF FlowInv, TableInv, TypeOK, TypeTable
<1>4. /\ id \in Ids /\ b \in Ids
      /\ q \in Ends /\ q # e /\ Peer(q) = e
      /\ \A x \in Ends : x = e \/ x = q
  BY <1>2, PeerFacts DEF PduSet, FromChannel, ToChannel
<1>5. /\ \A x \in Ends : \A i \in Ids : ~(x = e /\ i = id) => ch'[x][i] = ch[x][i]
      /\ ch'[e][id].st = "OPEN" /\ ch'[e][id].peer = b
      /\ ch'[e][id].sendw = m.len /\ ch'[e][id].recvw = ch[e][id].recvw
  BY <1>1, <1>3, <1>4, SMTT(30) DEF ChannelSet, ChannelFields
<1>6. acc[q][id] = b /\ Paired(e, id, b) /\ m.len = InitialWindow[q] /\ ch[q][b].st # "PENDING"
  BY <1>2, <1>4 DEF PduPaired, PduBalanced, PduQuiet, Paired
<1>7. \A x \in Ends : nextId[x] \in Nat /\ nextId[x] <= nextId[x]
  BY FlowNumbers
<1>8. AccSound'
  BY <1>1, <1>7, AccSoundKept DEF FlowInv, PairInv, TableInv, TypeOK
<1>9. PeerSound'
  <2>. SUFFICES ASSUME NEW x \in Ends, NEW a \in Ids
                PROVE  /\ ch'[x][a].st = "PENDING" => acc[x][ch'[x][a].peer] = a
                       /\ ch'[x][a].st = "OPEN" => Paired(x, a, ch'[x][a].peer)
                       /\ ch'[x][a].st = "OPENING" => \A y \in Ids : acc[x][y] # a
    BY <1>1 DEF PeerSound, Paired
  <2>1. CASE x = e /\ a = id
    BY <1>5, <1>6, <2>1
  <2>2. CASE ~(x = e /\ a = id)
    BY <1>5, <2>2 DEF FlowInv, PairInv, PeerSound
  <2>. QED
    BY <2>1, <2>2
<1>10. \A x \in Ends : \A i \in Ids : ch'[x][i].st = "PENDING" => ch[x][i].st = "PENDING"
  BY <1>5
<1>11. ASSUME NEW x \in Ends, NEW i \in DOMAIN link'[x]
       PROVE  /\ PduPaired(x, link[x][i])'
              /\ PduBalanced(x, link[x][i])'
              /\ PduQuiet(x, link[x][i])'
  <2>. DEFINE p == link'[x][i]
  <2>1. Flying(x, p)
    BY <1>2 DEF NothingNew
  <2>2. p \in PduSet /\ PduBalanced(x, p) /\ PduQuiet(x, p)
    BY <2>1, FlyingFacts
  <2>3. /\ p.type \in FromChannel => p.from \in Ids
        /\ p.type \in ToChannel => p.to \in Ids
        /\ Peer(x) \in Ends
    BY <2>2, PeerFacts DEF PduSet
  <2>4. PduPaired(x, link[x][i])'
    BY <1>1, <1>7, <2>1, FlyingPaired
  <2>5. PduBalanced(x, link[x][i])'
    BY <1>1, <2>2 DEF PduBalanced, Untouched
  <2>6. PduQuiet(x, link[x][i])'
    BY <1>10, <2>2, <2>3 DEF PduQuiet, FromChannel, ToChannel
  <2>. QED
    BY <2>4, <2>5, <2>6
<1>12. WindowsCount'
  <2>. SUFFICES ASSUME NEW x \in Ends, NEW i \in Ids
                PROVE  Counted(x, i, ch[x][i], tally[x][i])'
    BY DEF WindowsCount
  <2>1. Counted(x, i, ch[x][i], tally[x][i])
    BY DEF FlowInv, WindowsCount
  <2>2. CASE x = e /\ i = id
    <3>1. tally[e][id].sent = 0 /\ tally[e][id].credited = 0
      BY <1>1, <2>1, <2>2, SMTT(30) DEF Counted, Untouched
    <3>2. ch'[e][id].sendw + tally[e][id].sent = InitialWindow[q] + tally[e][id].credited
      BY <1>4, <1>5, <1>6, <3>1, FlowNumbers
    <3>. QED
      BY <1>1, <1>5, <2>1, <2>2, <3>2 DEF Counted, Untouched
  <2>3. CASE ~(x = e /\ i = id)
    BY <1>1, <1>5, <2>1, <2>3 DEF Counted, Untouched
  <2>. QED
    BY <2>2, <2>3
<1>13. OpenQuiet'
  <2>. SUFFICES ASSUME NEW x \in Ends, NEW a \in Ids, ch'[x][a].st = "OPEN"
                PROVE  ch'[Peer(x)][ch'[x][a].peer].st # "PENDING"
    BY DEF OpenQuiet
  <2>1. CASE x = e /\ a = id
    BY <1>4, <1>5, <1>6, <2>1
  <2>2. CASE ~(x = e /\ a = id)
    <3>1. ch'[x][a] = ch[x][a] /\ ch[x][a].st = "OPEN"
      BY <1>5, <2>2
    <3>2. ch[x][a].peer \in Ids /\ Peer(x) \in Ends
      BY <3>1, OpenIsPaired, PeerFacts
    <3>. QED
      BY <1>10, <3>1, <3>2 DEF FlowInv, Quiet
  <2>. QED
    BY <2>1, <2>2
<1>14. Quiet' /\ LinkPaired' /\ LinkBalance' /\ NoOverWindow'
  BY <1>1, <1>11, <1>13 DEF Quiet, OpenQuiet, LinkPaired, LinkBalance, FlowInv, NoOverWindow
<1>. QED
  BY <1>1, <1>2, <1>8, <1>9, <1>12, <1>14, BalanceKept DEF FlowInv, PairInv

LEMMA FlowAccept ==
  ASSUME FlowInv, TableInv', NEW e \in Ends, NEW id \in Ids, ChannelAccept(e, id)
  PROVE  FlowInv'
<1>. DEFINE q == Peer(e)
            b == ch[e][id].peer
            m == [Pdu("CONFIRM", id, b) EXCEPT !.len = InitialWindow[e], !.max = MaxPacket[e]]
<1>1. /\ ch[e][id].st = "PENDING" /\ Send(e, m)
      /\ ch' = [ch EXCEPT ![e][id].st = "OPEN", ![e][id].recvw = InitialWindow[e]]
      /\ tally' = tally /\ nextId' = nextId /\ err' = err /\ acc' = acc
  BY DEF ChannelAccept
<1>2. ch \in [Ends -> [Ids -> ChannelSet]] /\ TypeIO /\ LinkOrdered
  BY DEF FlowInv, TableInv, TypeOK, TypeTable, PairInv
<1>3. /\ b \in Ids /\ acc[e][b] = id
      /\ q \in Ends /\ q # e /\ Peer(q) = e
  BY <1>1, <1>2, PeerFacts DEF FlowInv, PairInv, PeerSound, ChannelSet
<1>4. /\ m.type = "CONFIRM" /\ m.from = id /\ m.to = b /\ m.len = InitialWindow[e]
      /\ m \in PduSet
  <2>1. Pdu("CONFIRM", id, b) \in PduSet
    BY <1>3, PduType DEF PduTypes
  <2>2. InitialWindow[e] \in Nat /\ MaxPacket[e] \in Nat
    BY ConfigAssumption
  <2>3. m \in PduSet
    BY <2>1, <2>2, PduAnnounceType
  <2>. QED
    BY <2>3 DEF Pdu
<1>5. /\ \A x \in Ends : \A i \in Ids : ~(x = e /\ i = id) => ch'[x][i] = ch[x][i]
      /\ ch'[e][id].st = "OPEN" /\ ch'[e][id].peer = b
      /\ ch'[e][id].sendw = ch[e][id].sendw /\ ch'[e][id].recvw = InitialWindow[e]
  BY <1>1, <1>2 DEF ChannelSet, ChannelFields
<1>6. OnlyNew(e, m) /\ LinkOrdered'
  <2>1. \A j \in DOMAIN link[e] : InOrder(link[e][j], m)
    BY <1>4 DEF InOrder
  <2>. QED
    BY <1>1, <1>2, <1>4, <2>1, LinkSend
<1>7. \A x \in Ends : nextId[x] \in Nat /\ nextId[x] <= nextId[x]
  BY FlowNumbers
<1>8. AccSound'
  BY <1>1, <1>7, AccSoundKept DEF FlowInv, PairInv, TableInv, TypeOK
<1>9. PeerSound'
  <2>. SUFFICES ASSUME NEW x \in Ends, NEW a \in Ids
                PROVE  /\ ch'[x][a].st = "PENDING" => acc[x][ch'[x][a].peer] = a
                       /\ ch'[x][a].st = "OPEN" => Paired(x, a, ch'[x][a].peer)
                       /\ ch'[x][a].st = "OPENING" => \A y \in Ids : acc[x][y] # a
    BY <1>1 DEF PeerSound, Paired
  <2>1. CASE x = e /\ a = id
    BY <1>3, <1>5, <2>1 DEF Paired
  <2>2. CASE ~(x = e /\ a = id)
    BY <1>5, <2>2 DEF FlowInv, PairInv, PeerSound
  <2>. QED
    BY <2>1, <2>2
<1>10. \A x \in Ends : \A i \in Ids : ch'[x][i].st = "PENDING" => ch[x][i].st = "PENDING"
  BY <1>5
<1>11. ASSUME NEW x \in Ends, NEW i \in DOMAIN link'[x]
       PROVE  /\ PduPaired(x, link[x][i])'
              /\ PduBalanced(x, link[x][i])'
              /\ PduQuiet(x, link[x][i])'
  <2>. DEFINE p == link'[x][i]
  <2>1. CASE Flying(x, p)
    <3>1. p \in PduSet /\ PduBalanced(x, p) /\ PduQuiet(x, p)
      BY <2>1, FlyingFacts
    <3>2. /\ p.type \in FromChannel => p.from \in Ids
          /\ p.type \in ToChannel => p.to \in Ids
          /\ Peer(x) \in Ends
      BY <3>1, PeerFacts DEF PduSet
    <3>3. PduPaired(x, link[x][i])'
      BY <1>1, <1>7, <2>1, FlyingPaired
    <3>4. PduBalanced(x, link[x][i])'
      BY <1>1, <3>1 DEF PduBalanced, Untouched
    <3>5. PduQuiet(x, link[x][i])'
      BY <1>10, <3>1, <3>2 DEF PduQuiet, FromChannel, ToChannel
    <3>. QED
      BY <3>3, <3>4, <3>5
  <2>2. CASE x = e /\ p = m
    BY <1>1, <1>3, <1>4, <1>5, <2>2, ZenonT(30) DEF PduPaired, PduBalanced, PduQuiet
  <2>. QED
    BY <1>6, <2>1, <2>2 DEF OnlyNew
<1>12. WindowsCount'
  <2>. SUFFICES ASSUME NEW x \in Ends, NEW i \in Ids
                PROVE  Counted(x, i, ch[x][i], tally[x][i])'
    BY DEF WindowsCount
  <2>1. Counted(x, i, ch[x][i], tally[x][i])
    BY DEF FlowInv, WindowsCount
  <2>2. CASE x = e /\ i = id
    <3>1. tally[e][id].rcvd = 0 /\ tally[e][id].granted = 0
      BY <1>1, <2>1, <2>2 DEF Counted, Untouched
    <3>2. ch'[e][id].recvw + tally[e][id].rcvd = InitialWindow[e] + tally[e][id].granted
      BY <1>5, <3>1, FlowNumbers
    <3>. QED
      BY <1>1, <1>5, <2>1, <2>2, <3>2 DEF Counted, Untouched
  <2>3. CASE ~(x = e /\ i = id)
    BY <1>1, <1>5, <2>1, <2>3 DEF Counted, Untouched
  <2>. QED
    BY <2>2, <2>3
<1>13. OpenQuiet'
  <2>. SUFFICES ASSUME NEW x \in Ends, NEW a \in Ids, ch'[x][a].st = "OPEN"
                PROVE  ch'[Peer(x)][ch'[x][a].peer].st # "PENDING"
    BY DEF OpenQuiet
  <2>1. CASE x = e /\ a = id
    <3>. SUFFICES ASSUME ch[q][b].st = "PENDING"
                  PROVE  FALSE
      BY <1>3, <1>5, <2>1
    <3>1. ch[q][b].peer \in Ids /\ acc[q][ch[q][b].peer] = b
      BY <1>2, <1>3 DEF FlowInv, PairInv, PeerSound, ChannelSet
    <3>2. acc[e][b] = NoId
      BY <1>3, <3>1, IdFacts DEF FlowInv, PairInv, AccSound
    <3>. QED
      BY <1>3, <3>2, IdFacts
  <2>2. CASE ~(x = e /\ a = id)
    <3>1. ch'[x][a] = ch[x][a] /\ ch[x][a].st = "OPEN"
      BY <1>5, <2>2
    <3>2. ch[x][a].peer \in Ids /\ Peer(x) \in Ends
      BY <3>1, OpenIsPaired, PeerFacts
    <3>. QED
      BY <1>10, <3>1, <3>2 DEF FlowInv, Quiet
  <2>. QED
    BY <2>1, <2>2
<1>14. Quiet' /\ LinkPaired' /\ LinkBalance' /\ NoOverWindow'
  BY <1>1, <1>11, <1>13 DEF Quiet, OpenQuiet, LinkPaired, LinkBalance, FlowInv, NoOverWindow
<1>. QED
  BY <1>1, <1>6, <1>8, <1>9, <1>12, <1>14, BalanceKept DEF FlowInv, PairInv

LEMMA FlowOpen ==
  ASSUME FlowInv, TableInv', NEW e \in Ends, NEW name \in Names, ChannelOpen(e, name)
  PROVE  FlowInv'
<1>. DEFINE q == Peer(e)
            n == nextId[e]
            m == [Pdu("OPEN", n, NoId) EXCEPT !.len = InitialWindow[e],
                                              !.max = MaxPacket[e], !.name = name]
            slot == [FreeSlot EXCEPT !.st = "OPENING", !.recvw = InitialWindow[e],
                                     !.max = MaxPacket[e]]
<1>1. /\ Send(e, m) /\ n \in Ids
      /\ ch' = [ch EXCEPT ![e][n] = slot]
      /\ nextId' = [nextId EXCEPT ![e] = @ + 1]
      /\ tally' = tally /\ err' = err /\ acc' = acc
  BY DEF ChannelOpen, Alloc, CanAlloc
<1>2. /\ ch \in [Ends -> [Ids -> ChannelSet]] /\ nextId \in [Ends -> Nat]
      /\ TypeIO /\ TypePast /\ LinkOrdered /\ AccSound
  BY DEF FlowInv, TableInv, TypeOK, TypeTable, PairInv
<1>3. /\ q \in Ends /\ q # e /\ Peer(q) = e /\ n \in Nat
      /\ InitialWindow[e] \in Nat /\ InitialWindow[e] < WinMod
  BY FlowNumbers
<1>4. /\ m.type = "OPEN" /\ m.from = n /\ m.len = InitialWindow[e]
      /\ m \in PduSet
  <2>1. Pdu("OPEN", n, NoId) \in PduSet
    BY <1>1, PduType DEF PduTypes, ToChannel
  <2>2. InitialWindow[e] \in Nat /\ MaxPacket[e] \in Nat
    BY ConfigAssumption
  <2>3. m \in PduSet
    BY <2>1, <2>2, PduAnnounceType
  <2>. QED
    BY <2>3 DEF Pdu
<1>5. /\ \A x \in Ends : \A i \in Ids : ~(x = e /\ i = n) => ch'[x][i] = ch[x][i]
      /\ ch'[e][n].st = "OPENING" /\ ch'[e][n].recvw = InitialWindow[e]
  BY <1>1, <1>2 DEF FreeSlot
<1>6. \A x \in Ends : /\ nextId[x] \in Nat /\ nextId'[x] \in Nat
                      /\ nextId[x] <= nextId'[x]
                      /\ x # e => nextId'[x] = nextId[x]
  BY <1>1, <1>2
<1>7. /\ \A x \in Ids : acc[e][x] # n
      /\ acc[q][n] = NoId
      /\ n < nextId'[e]
  <2>1. \A x \in Ids : acc[e][x] # NoId => acc[e][x] < n
    BY <1>2 DEF AccSound
  <2>2. acc[q][n] # NoId => n < nextId[e]
    BY <1>1, <1>2, <1>3 DEF AccSound
  <2>. QED
    BY <1>1, <1>2, <1>3, <2>1, <2>2, IdFacts
<1>8. Untouched(e, n)
  <2>1. n >= nextId[e]
    BY <1>3
  <2>. QED
    BY <1>1, <2>1 DEF FlowInv, WindowsCount, Counted
<1>9. OnlyNew(e, m) /\ LinkOrdered'
  <2>1. ASSUME NEW j \in DOMAIN link[e], link[e][j].from = n, link[e][j].type = "OPEN"
        PROVE  FALSE
    <3>1. link[e][j].from < nextId[e]
      BY <2>1 DEF FlowInv, PairInv, LinkPaired, PduPaired
    <3>. QED
      BY <1>3, <2>1, <3>1
  <2>2. \A j \in DOMAIN link[e] : InOrder(link[e][j], m)
    BY <1>4, <2>1 DEF InOrder
  <2>. QED
    BY <1>1, <1>2, <1>4, <2>2, LinkSend
<1>10. AccSound'
  BY <1>1, <1>2, <1>6, AccSoundKept
<1>11. PeerSound'
  <2>. SUFFICES ASSUME NEW x \in Ends, NEW a \in Ids
                PROVE  /\ ch'[x][a].st = "PENDING" => acc[x][ch'[x][a].peer] = a
                       /\ ch'[x][a].st = "OPEN" => Paired(x, a, ch'[x][a].peer)
                       /\ ch'[x][a].st = "OPENING" => \A y \in Ids : acc[x][y] # a
    BY <1>1 DEF PeerSound, Paired
  <2>1. CASE x = e /\ a = n
    BY <1>5, <1>7, <2>1
  <2>2. CASE ~(x = e /\ a = n)
    BY <1>5, <2>2 DEF FlowInv, PairInv, PeerSound
  <2>. QED
    BY <2>1, <2>2
<1>12. \A x \in Ends : \A i \in Ids : ch'[x][i].st = "PENDING" => ch[x][i].st = "PENDING"
  BY <1>5
<1>13. ASSUME NEW x \in Ends, NEW i \in DOMAIN link'[x]
       PROVE  /\ PduPaired(x, link[x][i])'
              /\ PduBalanced(x, link[x][i])'
              /\ PduQuiet(x, link[x][i])'
  <2>. DEFINE p == link'[x][i]
  <2>1. CASE Flying(x, p)
    <3>1. p \in PduSet /\ PduBalanced(x, p) /\ PduQuiet(x, p)
      BY <2>1, FlyingFacts
    <3>2. /\ p.type \in FromChannel => p.from \in Ids
          /\ p.type \in ToChannel => p.to \in Ids
          /\ Peer(x) \in Ends
      BY <3>1, PeerFacts DEF PduSet
    <3>3. PduPaired(x, link[x][i])'
      BY <1>1, <1>6, <2>1, FlyingPaired
    <3>4. PduBalanced(x, link[x][i])'
      BY <1>1, <3>1 DEF PduBalanced, Untouched
    <3>5. PduQuiet(x, link[x][i])'
      BY <1>12, <3>1, <3>2 DEF PduQuiet, FromChannel, ToChannel
    <3>. QED
      BY <3>3, <3>4, <3>5
  <2>2. CASE x = e /\ p = m
    <3>1. PduPaired(x, link[x][i])'
      BY <1>1, <1>4, <1>7, <2>2 DEF PduPaired
    <3>2. PduBalanced(x, link[x][i])'
      BY <1>1, <1>4, <1>8, <2>2 DEF PduBalanced, Untouched
    <3>3. PduQuiet(x, link[x][i])'
      BY <1>4, <2>2 DEF PduQuiet
    <3>. QED
      BY <3>1, <3>2, <3>3
  <2>. QED
    BY <1>9, <2>1, <2>2 DEF OnlyNew
<1>14. WindowsCount'
  <2>. SUFFICES ASSUME NEW x \in Ends, NEW i \in Ids
                PROVE  Counted(x, i, ch[x][i], tally[x][i])'
    BY DEF WindowsCount
  <2>1. Counted(x, i, ch[x][i], tally[x][i])
    BY DEF FlowInv, WindowsCount
  <2>2. CASE x = e /\ i = n
    <3>1. tally[e][n].rcvd = 0 /\ tally[e][n].granted = 0
      BY <1>8 DEF Untouched
    <3>2. ch'[e][n].recvw + tally[e][n].rcvd = InitialWindow[e] + tally[e][n].granted
      BY <1>3, <1>5, <3>1
    <3>. QED
      BY <1>1, <1>5, <1>8, <2>1, <2>2, <3>2 DEF Counted, Untouched
  <2>3. CASE ~(x = e /\ i = n)
    <3>1. i \in Nat /\ nextId[x] \in Nat /\ nextId'[x] \in Nat /\ nextId[x] <= nextId'[x]
      BY <1>6, IdFacts
    <3>2. i >= nextId'[x] => i >= nextId[x]
      BY <3>1
    <3>. QED
      BY <1>1, <1>5, <2>1, <2>3, <3>2 DEF Counted, Untouched
  <2>. QED
    BY <2>2, <2>3
<1>15. OpenQuiet'
  <2>. SUFFICES ASSUME NEW x \in Ends, NEW a \in Ids, ch'[x][a].st = "OPEN"
                PROVE  ch'[Peer(x)][ch'[x][a].peer].st # "PENDING"
    BY DEF OpenQuiet
  <2>1. ch'[x][a] = ch[x][a] /\ ch[x][a].st = "OPEN"
    BY <1>5
  <2>2. ch[x][a].peer \in Ids /\ Peer(x) \in Ends
    BY <2>1, OpenIsPaired, PeerFacts
  <2>. QED
    BY <1>12, <2>1, <2>2 DEF FlowInv, Quiet
<1>16. Quiet' /\ LinkPaired' /\ LinkBalance' /\ NoOverWindow'
  BY <1>1, <1>13, <1>15 DEF Quiet, OpenQuiet, LinkPaired, LinkBalance, FlowInv, NoOverWindow
<1>. QED
  BY <1>1, <1>9, <1>10, <1>11, <1>14, <1>16, BalanceKept DEF FlowInv, PairInv

LEMMA BelowNext ==
  ASSUME NEW i \in Nat, NEW n \in Nat, i < n
  PROVE  i < n + 1 /\ i # n
OBVIOUS

\* The one step that makes a pair.
LEMMA FlowRecvOpen ==
  ASSUME FlowInv, TableInv', NEW e \in Ends, RecvOpenPending(e)
  PROVE  FlowInv'
<1>. DEFINE q == Peer(e)
            m == Incoming(e)
            a == m.from
            n == nextId[e]
            slot == [FreeSlot EXCEPT !.st = "PENDING", !.peer = a, !.sendw = m.len,
                       !.max = PacketLimit(e, m.max), !.recvw = InitialWindow[e]]
<1>1. /\ Arrives(e, "OPEN") /\ Consume(e) /\ n \in Ids
      /\ ch' = [ch EXCEPT ![e][n] = slot]
      /\ nextId' = [nextId EXCEPT ![e] = @ + 1]
      /\ acc' = [acc EXCEPT ![e][a] = n]
      /\ tally' = tally /\ err' = err
  BY DEF RecvOpenPending, Alloc, CanAlloc
<1>2. /\ m.type = "OPEN" /\ m \in PduSet
      /\ PduPaired(q, m) /\ PduBalanced(q, m)
      /\ NothingNew /\ LinkOrdered'
      /\ \A i \in DOMAIN link'[q] : InOrder(m, link'[q][i])
  BY <1>1, IncomingFacts
<1>3. /\ ch \in [Ends -> [Ids -> ChannelSet]] /\ nextId \in [Ends -> Nat]
      /\ acc \in [Ends -> [Ids -> Ids \cup {NoId}]]
      /\ TypePast /\ AccSound /\ PeerSound
  BY DEF FlowInv, TableInv, TypeOK, TypeTable, TypePast, PairInv
<1>4. /\ q \in Ends /\ q # e /\ Peer(q) = e
      /\ \A x \in Ends : x = e \/ x = q
      /\ a \in Ids /\ n \in Nat
      /\ Ids \subseteq Nat /\ NoId \notin Ids
  BY <1>2, <1>3, PeerFacts, IdFacts DEF PduSet, FromChannel
<1>5. /\ a < nextId[q] /\ acc[e][a] = NoId
      /\ \A x \in Ids : acc[q][x] # a
      /\ m.len = InitialWindow[q]
      /\ Untouched(q, a)
  BY <1>2, <1>4 DEF PduPaired, PduBalanced
<1>6. /\ \A x \in Ids : acc[e][x] # NoId => acc[e][x] < n
      /\ \A x \in Ids : acc[e][x] # n
      /\ acc[q][n] = NoId
  <2>1. \A x \in Ids : acc[e][x] # NoId => acc[e][x] < n
    BY <1>3 DEF AccSound
  <2>2. acc[q][n] # NoId => n < nextId[e]
    BY <1>1, <1>3, <1>4 DEF AccSound
  <2>. QED
    BY <1>1, <1>3, <1>4, <2>1, <2>2
<1>7. Untouched(e, n)
  <2>1. n >= nextId[e]
    BY <1>4
  <2>. QED
    BY <1>1, <2>1 DEF FlowInv, WindowsCount, Counted
<1>8. /\ \A x \in Ends : \A i \in Ids : ~(x = e /\ i = n) => ch'[x][i] = ch[x][i]
      /\ ch'[e][n].st = "PENDING" /\ ch'[e][n].peer = a
      /\ ch'[e][n].sendw = m.len /\ ch'[e][n].recvw = InitialWindow[e]
  BY <1>1, <1>3 DEF FreeSlot
<1>9. /\ acc'[q] = acc[q] /\ acc'[e][a] = n
      /\ \A x \in Ids : x # a => acc'[e][x] = acc[e][x]
      /\ nextId'[q] = nextId[q] /\ nextId'[e] = n + 1
      /\ nextId[q] \in Nat
  BY <1>1, <1>3, <1>4
\* Old pairs stay, the only new one is <<a, n>>.
<1>10. \A x \in Ends : \A i, j \in Ids : Paired(x, i, j) => Paired(x, i, j)'
  BY <1>4, <1>5, <1>9 DEF Paired
<1>11. \A x \in Ends : \A i, j \in Ids : Paired(x, i, j)' =>
         \/ Paired(x, i, j)
         \/ x = e /\ i = n /\ j = a
         \/ x = q /\ i = a /\ j = n
  BY <1>4, <1>9 DEF Paired
<1>12. AccSound'
  <2>. SUFFICES ASSUME NEW x \in Ends, NEW i \in Ids, acc'[x][i] # NoId
                PROVE  /\ acc'[x][i] < nextId'[x]
                       /\ i < nextId'[Peer(x)]
                       /\ \A y \in Ids : acc'[x][y] = acc'[x][i] => y = i
                       /\ acc'[Peer(x)][acc'[x][i]] = NoId
    BY DEF AccSound
  <2>1. CASE x = e /\ i = a
    BY <1>4, <1>5, <1>6, <1>9, <2>1
  <2>2. CASE x = e /\ i # a
    <3>1. /\ acc'[e][i] = acc[e][i] /\ acc[e][i] # NoId /\ acc[e][i] \in Ids
          /\ acc[e][i] < n /\ i < nextId[q]
          /\ \A y \in Ids : acc[e][y] = acc[e][i] => y = i
          /\ acc[q][acc[e][i]] = NoId
      BY <1>3, <1>9, <2>2 DEF AccSound
    <3>2. acc[e][i] < n + 1
      <4>1. acc[e][i] \in Nat
        BY <1>4, <3>1
      <4>. QED
        BY <1>4, <3>1, <4>1, BelowNext
    <3>3. \A y \in Ids : acc'[e][y] = acc[e][i] => y = i
      BY <1>6, <1>9, <2>2, <3>1
    <3>. QED
      BY <1>9, <2>2, <3>1, <3>2, <3>3
  <2>3. CASE x = q
    <3>1. /\ acc[q][i] # NoId /\ acc[q][i] \in Ids /\ acc[q][i] # a
          /\ acc[q][i] < nextId[q] /\ i < n
          /\ \A y \in Ids : acc[q][y] = acc[q][i] => y = i
          /\ acc[e][acc[q][i]] = NoId
      BY <1>3, <1>4, <1>5, <1>9, <2>3 DEF AccSound
    <3>2. i < n + 1
      BY <1>4, <3>1
    <3>. QED
      BY <1>4, <1>9, <2>3, <3>1, <3>2
  <2>. QED
    BY <1>4, <2>1, <2>2, <2>3
<1>13. PeerSound'
  <2>. SUFFICES ASSUME NEW x \in Ends, NEW i \in Ids
                PROVE  /\ ch'[x][i].st = "PENDING" => acc'[x][ch'[x][i].peer] = i
                       /\ ch'[x][i].st = "OPEN" =>
                            acc'[Peer(x)][i] = ch'[x][i].peer \/ acc'[x][ch'[x][i].peer] = i
                       /\ ch'[x][i].st = "OPENING" => \A y \in Ids : acc'[x][y] # i
    BY DEF PeerSound, Paired
  <2>1. CASE x = e /\ i = n
    BY <1>8, <1>9, <2>1
  <2>2. CASE ~(x = e /\ i = n)
    <3>1. /\ ch'[x][i] = ch[x][i]
          /\ ch[x][i].st \in {"PENDING", "OPEN"} => ch[x][i].peer \in Ids
      BY <1>3, <1>8, <2>2 DEF ChannelSet
    <3>2. ch[x][i].st = "PENDING" => acc'[x][ch[x][i].peer] = i
      <4>. HAVE ch[x][i].st = "PENDING"
      <4>1. ch[x][i].peer \in Ids /\ acc[x][ch[x][i].peer] = i
        BY <1>3, <3>1 DEF PeerSound
      <4>2. x = e => ch[x][i].peer # a
        BY <1>4, <1>5, <4>1
      <4>. QED
        BY <1>4, <1>9, <4>1, <4>2
    <3>3. ch[x][i].st = "OPEN" =>
            acc'[Peer(x)][i] = ch[x][i].peer \/ acc'[x][ch[x][i].peer] = i
      BY <1>3, <1>10, <3>1 DEF PeerSound, Paired
    <3>4. ch[x][i].st = "OPENING" => \A y \in Ids : acc'[x][y] # i
      BY <1>3, <1>4, <1>9, <2>2 DEF PeerSound
    <3>. QED
      BY <3>1, <3>2, <3>3, <3>4
  <2>. QED
    BY <2>1, <2>2
<1>14. ASSUME NEW x \in Ends, NEW i \in DOMAIN link'[x]
       PROVE  /\ PduPaired(x, link[x][i])'
              /\ PduBalanced(x, link[x][i])'
              /\ PduQuiet(x, link[x][i])'
  <2>. DEFINE p == link'[x][i]
  <2>1. Flying(x, p)
    BY <1>2 DEF NothingNew
  <2>2. p \in PduSet /\ PduPaired(x, p) /\ PduBalanced(x, p) /\ PduQuiet(x, p)
    BY <2>1, FlyingFacts
  <2>3. /\ p.type \in FromChannel => p.from \in Ids
        /\ p.type \in ToChannel => p.to \in Ids
        /\ Peer(x) \in Ends
    BY <2>2, PeerFacts DEF PduSet
  <2>4. PduPaired(x, link[x][i])'
    <3>1. CASE p.type = "OPEN"
      <4>1. /\ p.from \in Ids /\ p.from < nextId[x] /\ acc[Peer(x)][p.from] = NoId
            /\ \A y \in Ids : acc[x][y] # p.from
        BY <2>2, <2>3, <3>1 DEF PduPaired, FromChannel
      <4>2. CASE x = e
        <5>1. p.from < n + 1 /\ p.from # n
          <6>1. p.from \in Nat /\ p.from < n
            BY <1>4, <4>1, <4>2
          <6>. QED
            BY <1>4, <6>1, BelowNext
        <5>2. \A y \in Ids : acc'[e][y] # p.from
          BY <1>9, <4>1, <4>2, <5>1
        <5>. QED
          BY <1>9, <3>1, <4>1, <4>2, <5>1, <5>2 DEF PduPaired
      <4>3. CASE x = q
        <5>1. p.from # a
          BY <1>2, <3>1, <4>3 DEF InOrder
        <5>. QED
          BY <1>4, <1>9, <3>1, <4>1, <4>3, <5>1 DEF PduPaired
      <4>. QED
        BY <1>4, <4>2, <4>3
    <3>2. CASE p.type = "CONFIRM"
      <4>1. p.from \in Ids /\ p.to \in Ids /\ acc[x][p.to] = p.from
        BY <2>2, <2>3, <3>2 DEF PduPaired, FromChannel, ToChannel
      <4>2. acc'[x][p.to] = p.from
        BY <1>4, <1>5, <1>9, <4>1
      <4>. QED
        BY <3>2, <4>2 DEF PduPaired
    <3>3. CASE p.type \in {"DATA", "WINDOW"}
      <4>1. p.from \in Ids /\ p.to \in Ids /\ Paired(x, p.from, p.to)
        BY <2>2, <2>3, <3>3 DEF PduPaired, FromChannel, ToChannel
      <4>2. acc'[Peer(x)][p.from] = p.to \/ acc'[x][p.to] = p.from
        BY <1>10, <4>1 DEF Paired
      <4>. QED
        BY <3>3, <4>2 DEF PduPaired, Paired
    <3>4. CASE p.type \notin FlowTypes
      BY <3>4 DEF PduPaired, FlowTypes
    <3>. QED
      BY <3>1, <3>2, <3>3, <3>4 DEF FlowTypes
  <2>5. PduBalanced(x, link[x][i])'
    BY <1>1, <2>2 DEF PduBalanced, Untouched
  <2>6. PduQuiet(x, link[x][i])'
    <3>1. p.type = "DATA" => ~(Peer(x) = e /\ p.to = n)
      <4>. HAVE p.type = "DATA"
      <4>1. p.from \in Ids /\ p.to \in Ids /\ Paired(x, p.from, p.to)
        BY <2>2, <2>3 DEF PduPaired, FromChannel, ToChannel
      <4>2. p.to < nextId[Peer(x)]
        BY <1>3, <4>1, PairAllocated
      <4>. QED
        BY <1>4, <4>2
    <3>2. p.type = "CONFIRM" => ~(x = e /\ p.from = n)
      BY <1>6, <2>2, <2>3 DEF PduPaired, ToChannel
    <3>. QED
      BY <1>8, <2>2, <2>3, <3>1, <3>2 DEF PduQuiet, FromChannel, ToChannel
  <2>. QED
    BY <2>4, <2>5, <2>6
<1>15. WindowsCount'
  <2>. SUFFICES ASSUME NEW x \in Ends, NEW i \in Ids
                PROVE  Counted(x, i, ch[x][i], tally[x][i])'
    BY DEF WindowsCount
  <2>1. Counted(x, i, ch[x][i], tally[x][i])
    BY DEF FlowInv, WindowsCount
  <2>2. CASE x = e /\ i = n
    <3>1. /\ tally[e][n].rcvd = 0 /\ tally[e][n].granted = 0
          /\ tally[e][n].sent = 0 /\ tally[e][n].credited = 0
      BY <1>7 DEF Untouched
    <3>2. /\ ch'[e][n].recvw + tally[e][n].rcvd = InitialWindow[e] + tally[e][n].granted
          /\ ch'[e][n].sendw + tally[e][n].sent = InitialWindow[q] + tally[e][n].credited
      BY <1>4, <1>5, <1>8, <3>1, FlowNumbers
    <3>. QED
      BY <1>1, <1>7, <1>8, <2>1, <2>2, <3>2 DEF Counted, Untouched
  <2>3. CASE ~(x = e /\ i = n)
    <3>1. i >= nextId'[x] => i >= nextId[x]
      BY <1>4, <1>9
    <3>. QED
      BY <1>1, <1>8, <2>1, <2>3, <3>1 DEF Counted, Untouched
  <2>. QED
    BY <2>2, <2>3
<1>16. PairBalance'
  <2>. SUFFICES ASSUME NEW x \in Ends, NEW i \in Ids, NEW j \in Ids, Paired(x, i, j)'
                PROVE  Balanced(x, tally[x][i], tally[Peer(x)][j])
    BY <1>1 DEF PairBalance, Balanced
  <2>1. CASE Paired(x, i, j)
    BY <2>1 DEF FlowInv, PairBalance
  <2>2. CASE Untouched(x, i) /\ Untouched(Peer(x), j)
    <3>1. InitialWindow[Peer(x)] \in Nat
      BY FlowNumbers
    <3>. QED
      BY <2>2, <3>1 DEF Balanced, Untouched
  <2>. QED
    BY <1>4, <1>5, <1>7, <1>11, <2>1, <2>2
<1>17. OpenQuiet'
  <2>. SUFFICES ASSUME NEW x \in Ends, NEW i \in Ids, ch'[x][i].st = "OPEN"
                PROVE  ch'[Peer(x)][ch'[x][i].peer].st # "PENDING"
    BY DEF OpenQuiet
  <2>1. ch'[x][i] = ch[x][i] /\ ch[x][i].st = "OPEN"
    BY <1>8
  <2>2. ch[x][i].peer \in Ids /\ Peer(x) \in Ends /\ Paired(x, i, ch[x][i].peer)
    BY <2>1, OpenIsPaired, PeerFacts
  <2>3. ch[x][i].peer < nextId[Peer(x)]
    BY <1>3, <2>2, PairAllocated
  <2>4. ~(Peer(x) = e /\ ch[x][i].peer = n)
    BY <1>4, <2>3
  <2>. QED
    BY <1>8, <2>1, <2>2, <2>4 DEF FlowInv, Quiet
<1>18. Quiet' /\ LinkPaired' /\ LinkBalance' /\ NoOverWindow'
  BY <1>1, <1>14, <1>17 DEF Quiet, OpenQuiet, LinkPaired, LinkBalance, FlowInv, NoOverWindow
<1>. QED
  BY <1>2, <1>12, <1>13, <1>15, <1>16, <1>18 DEF FlowInv, PairInv

----------------------------------------------------------------------------
(* FlowInv is inductive *)

LEMMA FlowInit == Init => FlowInv
<1>. SUFFICES ASSUME Init PROVE FlowInv
  OBVIOUS
<1>1. TableInv
  BY TableInit
<1>2. /\ \A e \in Ends : \A id \in Ids : /\ ch[e][id] = FreeSlot /\ acc[e][id] = NoId
                                         /\ Untouched(e, id)
      /\ \A e \in Ends : Peer(e) \in Ends
  BY PeerFacts DEF Init, Untouched
<1>3. \A e \in Ends : \A i \in DOMAIN link[e] :
        i = 1 /\ link[e][i] = Pdu("AUTH_OK", NoId, NoId)
  BY DEF Init
<1>4. AccSound /\ PeerSound
  BY <1>2, FreeSlotType DEF AccSound, PeerSound
<1>5. LinkPaired /\ LinkBalance /\ Quiet
  BY <1>2, <1>3, FreeSlotType
     DEF LinkPaired, PduPaired, LinkBalance, PduBalanced, Quiet, PduQuiet, Pdu
<1>6. LinkOrdered
  BY <1>3 DEF LinkOrdered
<1>7. WindowsCount
  <2>. SUFFICES ASSUME NEW e \in Ends, NEW id \in Ids
                PROVE  Counted(e, id, ch[e][id], tally[e][id])
    BY DEF WindowsCount
  <2>1. tally[e][id].granted = 0 /\ tally[e][id].rcvd = 0
    BY <1>2 DEF Untouched
  <2>2. InitialWindow[e] \in Nat /\ InitialWindow[e] < WinMod /\ WinMod \in Nat
    BY ConfigAssumption, WidthAssumption
  <2>3. InitialWindow[e] + tally[e][id].granted - tally[e][id].rcvd < WinMod
    BY <2>1, <2>2
  <2>. QED
    BY <1>2, <2>3, FreeSlotType DEF Counted
<1>8. PairBalance
  BY <1>2, IdFacts DEF PairBalance, Paired
<1>9. NoOverWindow
  BY DEF Init, NoOverWindow
<1>. QED
  BY <1>1, <1>4, <1>5, <1>6, <1>7, <1>8, <1>9 DEF FlowInv, PairInv

\* What the tame actions do to the slots.
LEMMA TameTable ==
  ASSUME TypeTable, NEW e \in Ends, NEW id \in Ids
  PROVE  /\ ch' = ch => TameSlots
         /\ ch' = [ch EXCEPT ![e][id] = FreeSlot] => TameSlots
         /\ ch' = [ch EXCEPT ![e][id].leof = TRUE] => TameSlots
         /\ ch' = [ch EXCEPT ![e][id].reof = TRUE] => TameSlots
<1>1. ch' = ch => TameSlots
  BY DEF TameSlots, StatesKept
<1>2. ch' = [ch EXCEPT ![e][id] = FreeSlot] => TameSlots
  BY FreeSlotType DEF TameSlots, StatesKept, TypeTable
<1>3. ch' = [ch EXCEPT ![e][id].leof = TRUE] => TameSlots
  BY DEF TameSlots, StatesKept, TypeTable, ChannelSet, ChannelFields
<1>4. ch' = [ch EXCEPT ![e][id].reof = TRUE] => TameSlots
  BY DEF TameSlots, StatesKept, TypeTable, ChannelSet, ChannelFields
<1>. QED
  BY <1>1, <1>2, <1>3, <1>4

\* What the tame actions do to the links.
LEMMA TameLinks ==
  ASSUME TypeIO, LinkOrdered, NEW e \in Ends
  PROVE  /\ link' = link => TameLink
         /\ Readable(e) /\ Consume(e) => TameLink
         /\ \A m \in PduSet : m.type \notin FlowTypes =>
              /\ Send(e, m) => TameLink
              /\ TrySend(e, m) => TameLink
              /\ Readable(e) /\ ConsumeAndTrySend(e, m) => TameLink
<1>1. link' = link => TameLink
  BY DEF TameLink, Flying, LinkOrdered, InOrder
<1>2. Readable(e) /\ Consume(e) => TameLink
  BY LinkConsume DEF TameLink, NothingNew
<1>3. ASSUME NEW m \in PduSet, m.type \notin FlowTypes, TrySend(e, m)
      PROVE  TameLink
  BY <1>3, LinkTrySend DEF TameLink, OnlyNew
<1>4. ASSUME NEW m \in PduSet, m.type \notin FlowTypes, Readable(e), ConsumeAndTrySend(e, m)
      PROVE  TameLink
  BY <1>4, LinkConsumeAndTrySend DEF TameLink, OnlyNew
<1>5. \A m : Send(e, m) => TrySend(e, m)
  BY DEF TrySend
<1>. QED
  BY <1>1, <1>2, <1>3, <1>4, <1>5

\* The PDUs the tame actions send.
LEMMA TamePdus ==
  /\ \A t \in {"PING", "PONG", "DISCONNECT"} :
       Pdu(t, NoId, NoId) \in PduSet /\ Pdu(t, NoId, NoId).type \notin FlowTypes
  /\ \A b \in Ids :
       Pdu("OPEN_FAIL", NoId, b) \in PduSet /\ Pdu("OPEN_FAIL", NoId, b).type \notin FlowTypes
  /\ \A t \in {"EOF", "CLOSE"} : \A a, b \in Ids :
       Pdu(t, a, b) \in PduSet /\ Pdu(t, a, b).type \notin FlowTypes
<1>1. \A t, a, b : Pdu(t, a, b).type = t
  BY DEF Pdu
<1>2. \A t \in {"PING", "PONG", "DISCONNECT"} : Pdu(t, NoId, NoId) \in PduSet
  BY PduType DEF PduTypes, FromChannel, ToChannel
<1>3. \A b \in Ids : Pdu("OPEN_FAIL", NoId, b) \in PduSet
  BY PduType DEF PduTypes, FromChannel, ToChannel
<1>4. ASSUME NEW t \in {"EOF", "CLOSE"}, NEW a \in Ids, NEW b \in Ids
      PROVE  Pdu(t, a, b) \in PduSet
  BY PduType DEF PduTypes
<1>. QED
  BY <1>1, <1>2, <1>3, <1>4 DEF FlowTypes

LEMMA SameIds ==
  ASSUME FlowInv, nextId' = nextId
  PROVE  \A x \in Ends : nextId[x] <= nextId'[x]
BY FlowNumbers

\* An error that is no flow-control error.
LEMMA FlowFail ==
  ASSUME FlowInv, TableInv', NEW e \in Ends, NEW cause, NEW id, Fail(e, cause, id),
         cause \in {"unknown mux pdu", "CONFIRM unknown", "DATA bad ch"}
  PROVE  FlowInv'
<1>1. /\ ch' = ch /\ nextId' = nextId /\ link' = link /\ acc' = acc /\ tally' = tally
      /\ err' = [err EXCEPT ![e] = [cause |-> cause, id |-> id]]
  BY DEF Fail, table, io, past
<1>2. NoOverWindow'
  BY <1>1 DEF NoOverWindow, FlowInv, TableInv, TypeOK, TypeSession
<1>3. TameSlots /\ TameLink
  <2>1. TameSlots
    BY <1>1 DEF TameSlots, StatesKept
  <2>. QED
    BY <1>1, <2>1, TameLinks DEF FlowInv, TableInv, TypeOK, PairInv
<1>4. \A x \in Ends : nextId[x] <= nextId'[x]
  BY <1>1, SameIds
<1>. QED
  BY <1>1, <1>2, <1>3, <1>4, TameStep

\* A step that only frees slots, moves tame PDUs and reports no error.
LEMMA TameAction ==
  ASSUME FlowInv, TableInv', TameSlots, TameLink,
         \A x \in Ends : nextId[x] <= nextId'[x],
         acc' = acc, tally' = tally, err' = err
  PROVE  FlowInv'
<1>1. NoOverWindow'
  BY DEF FlowInv, NoOverWindow
<1>. QED
  BY <1>1, TameStep

LEMMA FlowCall ==
  ASSUME FlowInv, TableInv', RecvCap < WinMod, NEW e \in Ends, Call(e)
  PROVE  FlowInv'
<1>a. TypeTable /\ TypeIO /\ LinkOrdered /\ \A x \in Ends : nextId[x] \in Nat
  BY DEF FlowInv, TableInv, TypeOK, TypeTable, PairInv
<1>b. nextId' = nextId => \A x \in Ends : nextId[x] <= nextId'[x]
  BY SameIds
<1>c. \A id \in Ids : ch[e][id].st \in {"PENDING", "OPEN"} => ch[e][id].peer \in Ids
  BY <1>a DEF TypeTable, ChannelSet
<1>1. ASSUME NEW name \in Names, ChannelOpen(e, name) PROVE FlowInv'
  BY <1>1, FlowOpen
<1>2. ASSUME ChannelOpenFull(e) PROVE FlowInv'
  <2>1. /\ ch' = ch /\ link' = link /\ acc' = acc /\ tally' = tally /\ err' = err
        /\ nextId' = [nextId EXCEPT ![e] = @ + 1]
    BY <1>2 DEF ChannelOpenFull, io, past
  <2>2. \A x \in Ends : nextId[x] <= nextId'[x]
    BY <1>a, <2>1 DEF TypeTable
  <2>3. TameSlots /\ TameLink
    BY <1>a, <2>1, TameLinks DEF TameSlots, StatesKept
  <2>. QED
    BY <2>1, <2>2, <2>3, TameAction
<1>3. ASSUME NEW id \in Ids, ChannelAccept(e, id) PROVE FlowInv'
  BY <1>3, FlowAccept
<1>4. ASSUME NEW id \in Ids, ChannelReject(e, id) PROVE FlowInv'
  <2>1. /\ ch[e][id].st = "PENDING"
        /\ Send(e, Pdu("OPEN_FAIL", NoId, ch[e][id].peer))
        /\ ch' = [ch EXCEPT ![e][id] = FreeSlot]
        /\ nextId' = nextId /\ acc' = acc /\ tally' = tally /\ err' = err
    BY <1>4 DEF ChannelReject, Free
  <2>2. TameSlots
    BY <1>a, <2>1, TameTable
  <2>3. TameLink
    BY <1>a, <1>c, <2>1, TameLinks, TamePdus
  <2>. QED
    BY <1>b, <2>1, <2>2, <2>3, TameAction
<1>5. ASSUME NEW id \in Ids, NEW n \in SendLens, ChannelSend(e, id, n) PROVE FlowInv'
  BY <1>5, FlowSend, BoundAssumption
<1>6. ASSUME NEW id \in Ids, ChannelEof(e, id) PROVE FlowInv'
  <2>1. /\ ch[e][id].st = "OPEN"
        /\ Send(e, Pdu("EOF", id, ch[e][id].peer))
        /\ ch' = [ch EXCEPT ![e][id].leof = TRUE]
        /\ nextId' = nextId /\ acc' = acc /\ tally' = tally /\ err' = err
    BY <1>6 DEF ChannelEof
  <2>2. TameSlots
    BY <1>a, <2>1, TameTable
  <2>3. TameLink
    BY <1>a, <1>c, <2>1, TameLinks, TamePdus
  <2>. QED
    BY <1>b, <2>1, <2>2, <2>3, TameAction
<1>7. ASSUME NEW id \in Ids, ChannelClose(e, id) PROVE FlowInv'
  <2>1. /\ \/ ch[e][id].st = "OPEN" /\ TrySend(e, Pdu("CLOSE", id, ch[e][id].peer))
           \/ link' = link
        /\ ch' = [ch EXCEPT ![e][id] = FreeSlot]
        /\ nextId' = nextId /\ acc' = acc /\ tally' = tally /\ err' = err
    BY <1>7 DEF ChannelClose, Free, io
  <2>2. TameSlots
    BY <1>a, <2>1, TameTable
  <2>3. TameLink
    BY <1>a, <1>c, <2>1, TameLinks, TamePdus
  <2>. QED
    BY <1>b, <2>1, <2>2, <2>3, TameAction
<1>8. ASSUME NEW id \in Ids, NEW n \in Credits, ChannelWindowAdjust(e, id, n)
      PROVE  FlowInv'
  BY <1>8, FlowWindowAdjust, BoundAssumption
<1>9. ASSUME Disconnect(e) \/ DisconnectAfterError(e) \/ PeerPing(e) PROVE FlowInv'
  <2>1. /\ \/ TrySend(e, Pdu("DISCONNECT", NoId, NoId))
           \/ Send(e, Pdu("PING", NoId, NoId))
           \/ link' = link
        /\ ch' = ch /\ nextId' = nextId /\ acc' = acc /\ tally' = tally /\ err' = err
    BY <1>9 DEF Disconnect, DisconnectAfterError, PeerPing, table, io, past
  <2>2. TameSlots
    BY <2>1 DEF TameSlots, StatesKept
  <2>3. TameLink
    BY <1>a, <2>1, TameLinks, TamePdus
  <2>. QED
    BY <1>b, <2>1, <2>2, <2>3, TameAction
<1>. QED
  BY <1>1, <1>2, <1>3, <1>4, <1>5, <1>6, <1>7, <1>8, <1>9 DEF Call

LEMMA FlowRecv ==
  ASSUME FlowInv, TableInv', NEW e \in Ends, Recv(e)
  PROVE  FlowInv'
<1>. DEFINE m == Incoming(e)
<1>a. TypeTable /\ TypeIO /\ LinkOrdered /\ \A x \in Ends : nextId[x] \in Nat
  BY DEF FlowInv, TableInv, TypeOK, TypeTable, PairInv
<1>b. nextId' = nextId => \A x \in Ends : nextId[x] <= nextId'[x]
  BY SameIds
<1>c. Readable(e) => /\ m.type \in FromChannel => m.from \in Ids
                     /\ m.type \in ToChannel => m.to \in Ids
  BY <1>a, IncomingType DEF PduSet
<1>d. \A t : Arrives(e, t) => Readable(e) /\ m.type = t
  BY DEF Arrives
<1>1. ASSUME RecvOpenPending(e) PROVE FlowInv'
  BY <1>1, FlowRecvOpen
<1>2. ASSUME RecvConfirm(e) PROVE FlowInv'
  <2>1. CASE ch[e][m.to].st = "OPENING"
    BY <1>2, <2>1, FlowRecvConfirm
  <2>2. CASE ch[e][m.to].st # "OPENING"
    BY <1>2, <2>2, FlowFail DEF RecvConfirm
  <2>. QED
    BY <2>1, <2>2
<1>3. ASSUME RecvData(e) PROVE FlowInv'
  <2>1. CASE DataVerdict(ch[e][m.to], m.len) = "none"
    BY <1>3, <2>1, FlowRecvData
  <2>2. CASE DataVerdict(ch[e][m.to], m.len) # "none"
    <3>1. /\ Arrives(e, "DATA")
          /\ Fail(e, DataVerdict(ch[e][m.to], m.len), m.to)
      BY <1>3, <2>2 DEF RecvData
    <3>2. DataVerdict(ch[e][m.to], m.len) = "DATA bad ch"
      BY <2>2, <3>1, DataFits
    <3>. QED
      BY <3>1, <3>2, FlowFail
  <2>. QED
    BY <2>1, <2>2
<1>4. ASSUME RecvUnknown(e) PROVE FlowInv'
  BY <1>4, FlowFail DEF RecvUnknown
<1>5. ASSUME RecvWindow(e) PROVE FlowInv'
  <2>1. CASE ch[e][m.to].st = "OPEN"
    BY <1>5, <2>1, FlowRecvWindow
  <2>2. CASE ch[e][m.to].st # "OPEN"
    <3>1. /\ Arrives(e, "WINDOW") /\ Consume(e)
          /\ ch' = ch /\ nextId' = nextId /\ acc' = acc /\ tally' = tally /\ err' = err
      BY <1>5, <2>2 DEF RecvWindow
    <3>2. TameSlots /\ TameLink
      BY <1>a, <1>d, <3>1, TameLinks DEF TameSlots, StatesKept
    <3>. QED
      BY <1>b, <3>1, <3>2, TameAction
  <2>. QED
    BY <2>1, <2>2
<1>6. ASSUME RecvOpenRefused(e) PROVE FlowInv'
  <2>1. /\ Arrives(e, "OPEN") /\ ConsumeAndTrySend(e, Pdu("OPEN_FAIL", NoId, m.from))
        /\ ch' = ch /\ nextId' = nextId /\ acc' = acc /\ tally' = tally /\ err' = err
    BY <1>6 DEF RecvOpenRefused, table
  <2>2. Readable(e) /\ m.from \in Ids
    BY <1>c, <1>d, <2>1 DEF FromChannel
  <2>3. TameLink
    BY <1>a, <2>1, <2>2, TameLinks, TamePdus
  <2>4. TameSlots
    BY <2>1 DEF TameSlots, StatesKept
  <2>. QED
    BY <1>b, <2>1, <2>3, <2>4, TameAction
<1>7. ASSUME RecvOpenFail(e) \/ RecvClose(e) \/ RecvEof(e) PROVE FlowInv'
  <2>1. /\ Readable(e) /\ Consume(e) /\ m.to \in Ids
        /\ \/ ch' = [ch EXCEPT ![e][m.to] = FreeSlot]
           \/ ch' = [ch EXCEPT ![e][m.to].reof = TRUE]
           \/ ch' = ch
        /\ nextId' = nextId /\ acc' = acc /\ tally' = tally /\ err' = err
    <3>1. CASE RecvOpenFail(e)
      BY <1>c, <1>d, <3>1 DEF RecvOpenFail, Free, table, ToChannel
    <3>2. CASE RecvClose(e)
      BY <1>c, <1>d, <3>2 DEF RecvClose, Free, table, ToChannel
    <3>3. CASE RecvEof(e)
      BY <1>c, <1>d, <3>3 DEF RecvEof, ToChannel
    <3>. QED
      BY <1>7, <3>1, <3>2, <3>3
  <2>2. TameSlots
    BY <1>a, <2>1, TameTable
  <2>3. TameLink
    BY <1>a, <2>1, TameLinks
  <2>. QED
    BY <1>b, <2>1, <2>2, <2>3, TameAction
<1>8. ASSUME RecvAuthOk(e) \/ RecvPong(e) \/ RecvDisconnect(e) PROVE FlowInv'
  <2>1. /\ Readable(e) /\ Consume(e)
        /\ ch' = ch /\ nextId' = nextId /\ acc' = acc /\ tally' = tally /\ err' = err
    BY <1>8 DEF RecvAuthOk, RecvPong, RecvDisconnect, Arrives, table
  <2>2. TameSlots /\ TameLink
    BY <1>a, <2>1, TameLinks DEF TameSlots, StatesKept
  <2>. QED
    BY <1>b, <2>1, <2>2, TameAction
<1>9. ASSUME RecvPing(e) PROVE FlowInv'
  <2>1. /\ Readable(e) /\ ConsumeAndTrySend(e, Pdu("PONG", NoId, NoId))
        /\ ch' = ch /\ nextId' = nextId /\ acc' = acc /\ tally' = tally /\ err' = err
    BY <1>9 DEF RecvPing, Arrives, table
  <2>2. TameLink
    BY <1>a, <2>1, TameLinks, TamePdus
  <2>3. TameSlots
    BY <2>1 DEF TameSlots, StatesKept
  <2>. QED
    BY <1>b, <2>1, <2>2, <2>3, TameAction
<1>. QED
  BY <1>1, <1>2, <1>3, <1>4, <1>5, <1>6, <1>7, <1>8, <1>9 DEF Recv

LEMMA FlowStep ==
  ASSUME RecvCap < WinMod
  PROVE  FlowInv /\ [Next]_vars => FlowInv'
<1>. SUFFICES ASSUME FlowInv, [Next]_vars PROVE FlowInv'
  OBVIOUS
<1>1. TableInv'
  BY TableStep DEF FlowInv
<1>2. ASSUME NEW e \in Ends, Call(e) PROVE FlowInv'
  BY <1>1, <1>2, FlowCall
<1>3. ASSUME NEW e \in Ends, Recv(e) PROVE FlowInv'
  BY <1>1, <1>3, FlowRecv
<1>4. CASE (\E e \in Ends : GetOutput(e) \/ NextEvent(e)) \/ UNCHANGED vars
  <2>1. /\ ch' = ch /\ nextId' = nextId /\ link' = link
        /\ acc' = acc /\ tally' = tally /\ err' = err
    BY <1>4 DEF GetOutput, NextEvent, vars, table, io, past
  <2>2. TypeIO /\ LinkOrdered
    BY DEF FlowInv, TableInv, TypeOK, PairInv
  <2>3. TameSlots
    BY <2>1 DEF TameSlots, StatesKept
  <2>4. TameLink
    BY <2>1 DEF TameLink, Flying, LinkOrdered, InOrder, FlowInv, PairInv
  <2>5. \A x \in Ends : nextId[x] <= nextId'[x]
    BY <2>1, SameIds
  <2>. QED
    BY <1>1, <2>1, <2>3, <2>4, <2>5, TameAction
<1>. QED
  BY <1>2, <1>3, <1>4 DEF Next, Pump

LEMMA FlowInvariant ==
  ASSUME RecvCap < WinMod
  PROVE  Spec => []FlowInv
<1>1. FlowInv /\ [Next]_vars => FlowInv'
  BY FlowStep
<1>. QED
  BY <1>1, FlowInit, PTL DEF Spec

\* Two sodchan endpoints never break each other's flow control: if no host raises
\* a receive window to 2^32 or beyond (RecvCap < WinMod), then whatever they send,
\* grant, accept, reject and close, and however the PDUs cross, no DATA PDU is
\* ever larger than the receive window or DATA_MAX or reaches a PENDING channel.
THEOREM WindowsRespected ==
  ASSUME RecvCap < WinMod
  PROVE  Spec => []NoOverWindow
<1>1. FlowInv => NoOverWindow
  BY DEF FlowInv
<1>. QED
  BY <1>1, FlowInvariant, PTL

\* The two channel tables agree on who talks to whom: under the same condition, the
\* ids that OPEN and CONFIRM bind name each other mutually, and no two channels of
\* one endpoint are bound to the same channel of the peer.
THEOREM PairsAgree ==
  ASSUME RecvCap < WinMod
  PROVE  Spec => []PairingAgreement
<1>1. FlowInv => PairingAgreement
  <2>. SUFFICES ASSUME FlowInv, NEW e \in Ends, NEW a \in Ids,
                       ch[e][a].st \in {"PENDING", "OPEN"}
                PROVE  /\ LET c == ch[Peer(e)][ch[e][a].peer]
                          IN  c.st = "OPEN" => c.peer = a
                       /\ \A x \in Ids \ {a} :
                            ch[e][x].st \in {"PENDING", "OPEN"} =>
                              ch[e][x].peer # ch[e][a].peer
    BY DEF PairingAgreement
  <2>1. \A x \in Ids : ch[e][x].st \in {"PENDING", "OPEN"} =>
          ch[e][x].peer \in Ids /\ Paired(e, x, ch[e][x].peer)
    BY DEF FlowInv, TableInv, TypeOK, TypeTable, ChannelSet, PairInv, PeerSound, Paired
  <2>2. AccSound /\ Peer(e) \in Ends /\ Peer(Peer(e)) = e
    BY PeerFacts DEF FlowInv, PairInv
  <2>3. ASSUME ch[Peer(e)][ch[e][a].peer].st = "OPEN"
        PROVE  ch[Peer(e)][ch[e][a].peer].peer = a
    <3>. DEFINE b == ch[e][a].peer
                y == ch[Peer(e)][b].peer
    <3>1. b \in Ids /\ Paired(e, a, b)
      BY <2>1
    <3>2. y \in Ids /\ Paired(Peer(e), b, y)
      BY <2>2, <2>3, <3>1, OpenIsPaired
    <3>3. Paired(e, y, b)
      BY <2>2, <3>1, <3>2, PairSymmetric
    <3>. QED
      BY <2>2, <3>1, <3>2, <3>3, PairUnique
  <2>4. ASSUME NEW x \in Ids \ {a}, ch[e][x].st \in {"PENDING", "OPEN"},
               ch[e][x].peer = ch[e][a].peer
        PROVE  FALSE
    <3>1. /\ ch[e][a].peer \in Ids
          /\ Paired(e, a, ch[e][a].peer) /\ Paired(e, x, ch[e][a].peer)
      BY <2>1, <2>4
    <3>. QED
      BY <2>2, <2>4, <3>1, PairUnique
  <2>. QED
    BY <2>3, <2>4
<1>. QED
  BY <1>1, FlowInvariant, PTL

----------------------------------------------------------------------------
(* Changing the promise in one place *)

\* A step leaves what is promised of channel y of x alone.
UnmovedAt(x, y) ==
  /\ (y >= nextId'[x]) <=> (y >= nextId[x])
  /\ (ch'[x][y].st = "UNUSED") <=> (ch[x][y].st = "UNUSED")
  /\ ch'[x][y].leof = ch[x][y].leof
  /\ tally'[x][y].sent = tally[x][y].sent
  /\ tally'[x][y].rcvd = tally[x][y].rcvd
  /\ tally'[x][y].granted = tally[x][y].granted

KeptElse(e, id) ==
  \A x \in Ends : \A y \in Ids : ~(x = e /\ y = id) => UnmovedAt(x, y)

LEMMA KeptPromise ==
  ASSUME NEW x \in Ends, NEW y \in Ids, UnmovedAt(x, y)
  PROVE  Promised(x, y)' = Promised(x, y)
<1>1. Life(x, y)' = Life(x, y)
  BY DEF UnmovedAt, Life
<1>. QED
  BY <1>1 DEF UnmovedAt, Promised

\* What is promised of one channel.
LEMMA PromisedAt ==
  ASSUME NEW e \in Ends, NEW id \in Ids
  PROVE  /\ PromisedAll[e][id] = Promised(e, id)
         /\ PromisedAll[e][id].life = Life(e, id)
         /\ PromisedAll[e][id].sent = tally[e][id].sent
         /\ PromisedAll[e][id].rcvd = tally[e][id].rcvd
         /\ PromisedAll[e][id].granted = tally[e][id].granted
<1>1. PromisedAll[e][id] = Promised(e, id)
  BY DEF PromisedAll
<1>2. /\ Promised(e, id).life = Life(e, id)
      /\ Promised(e, id).sent = tally[e][id].sent
      /\ Promised(e, id).rcvd = tally[e][id].rcvd
      /\ Promised(e, id).granted = tally[e][id].granted
  BY Zenon DEF Promised
<1>. QED
  BY <1>1, <1>2, Zenon

\* If the step keeps all channels, it is a stuttering step.
LEMMA KeptAll ==
  ASSUME \A x \in Ends : \A y \in Ids : UnmovedAt(x, y)
  PROVE  PromisedAll' = PromisedAll
<1>1. \A x \in Ends : \A y \in Ids : Promised(x, y)' = Promised(x, y)
  BY KeptPromise
<1>. QED
  BY <1>1 DEF PromisedAll

\* If it keeps all but one, it changes the promise at one place.
LEMMA KeptElsewhere ==
  ASSUME NEW e \in Ends, NEW id \in Ids, KeptElse(e, id)
  PROVE  PromisedAll' = [PromisedAll EXCEPT ![e][id] = Promised(e, id)']
<1>1. \A x \in Ends : \A y \in Ids :
        ~(x = e /\ y = id) => Promised(x, y)' = Promised(x, y)
  BY KeptPromise DEF KeptElse
<1>2. PromisedAll' = [x \in Ends |-> [y \in Ids |-> Promised(x, y)']]
  BY DEF PromisedAll
<1>3. PromisedAll = [x \in Ends |-> [y \in Ids |-> Promised(x, y)]]
  BY DEF PromisedAll
<1>. QED
  BY <1>1, <1>2, <1>3

\* A channel that is in use is in its life.
LEMMA LiveLife ==
  ASSUME FlowInv, NEW e \in Ends, NEW id \in Ids, ch[e][id].st # "UNUSED"
  PROVE  /\ ~(id >= nextId[e])
         /\ Life(e, id) \in Channels!InUse
         /\ ~ch[e][id].leof => Life(e, id) = "live"
<1>1. ~(id >= nextId[e])
  BY FreeSlotType DEF FlowInv, TableInv, UnusedAhead
<1>. QED
  BY <1>1 DEF Life, Channels!InUse

\* A step that touches none of table, pairs and history touches no promise.
LEMMA SamePromise ==
  ASSUME nextId' = nextId, ch' = ch, tally' = tally
  PROVE  PromisedAll' = PromisedAll
BY DEF PromisedAll, Promised, Life

\* Changes of one field.
LEMMA EditLife ==
  ASSUME NEW e \in Ends, NEW id \in Ids, KeptElse(e, id),
         tally'[e][id].sent = tally[e][id].sent,
         tally'[e][id].rcvd = tally[e][id].rcvd,
         tally'[e][id].granted = tally[e][id].granted
  PROVE  PromisedAll' = [PromisedAll EXCEPT ![e][id].life = Life(e, id)']
<1>1. Promised(e, id)' = [life |-> Life(e, id)', sent |-> tally[e][id].sent,
                          rcvd |-> tally[e][id].rcvd, granted |-> tally[e][id].granted]
  BY Zenon DEF Promised
<1>2. \A l : [Promised(e, id) EXCEPT !.life = l] =
               [life |-> l, sent |-> tally[e][id].sent,
                rcvd |-> tally[e][id].rcvd, granted |-> tally[e][id].granted]
  BY DEF Promised
<1>3. Promised(e, id)' = [Promised(e, id) EXCEPT !.life = Life(e, id)']
  BY <1>1, <1>2
<1>4. PromisedAll' = [PromisedAll EXCEPT ![e][id] =
                        [Promised(e, id) EXCEPT !.life = Life(e, id)']]
  BY <1>3, KeptElsewhere
<1>. QED
  BY <1>4, PromisedAt DEF PromisedAll

LEMMA EditSent ==
  ASSUME NEW e \in Ends, NEW id \in Ids, KeptElse(e, id), Life(e, id)' = Life(e, id),
         tally'[e][id].rcvd = tally[e][id].rcvd,
         tally'[e][id].granted = tally[e][id].granted
  PROVE  PromisedAll' = [PromisedAll EXCEPT ![e][id].sent = tally'[e][id].sent]
<1>1. Promised(e, id)' = [life |-> Life(e, id), sent |-> tally'[e][id].sent,
                          rcvd |-> tally[e][id].rcvd, granted |-> tally[e][id].granted]
  BY Zenon DEF Promised
<1>2. \A k : [Promised(e, id) EXCEPT !.sent = k] =
               [life |-> Life(e, id), sent |-> k,
                rcvd |-> tally[e][id].rcvd, granted |-> tally[e][id].granted]
  BY DEF Promised
<1>3. Promised(e, id)' = [Promised(e, id) EXCEPT !.sent = tally'[e][id].sent]
  BY <1>1, <1>2
<1>4. PromisedAll' = [PromisedAll EXCEPT ![e][id] =
                        [Promised(e, id) EXCEPT !.sent = tally'[e][id].sent]]
  BY <1>3, KeptElsewhere
<1>. QED
  BY <1>4, PromisedAt DEF PromisedAll

LEMMA EditRcvd ==
  ASSUME NEW e \in Ends, NEW id \in Ids, KeptElse(e, id), Life(e, id)' = Life(e, id),
         tally'[e][id].sent = tally[e][id].sent,
         tally'[e][id].granted = tally[e][id].granted
  PROVE  PromisedAll' = [PromisedAll EXCEPT ![e][id].rcvd = tally'[e][id].rcvd]
<1>1. Promised(e, id)' = [life |-> Life(e, id), sent |-> tally[e][id].sent,
                          rcvd |-> tally'[e][id].rcvd, granted |-> tally[e][id].granted]
  BY Zenon DEF Promised
<1>2. \A k : [Promised(e, id) EXCEPT !.rcvd = k] =
               [life |-> Life(e, id), sent |-> tally[e][id].sent,
                rcvd |-> k, granted |-> tally[e][id].granted]
  BY DEF Promised
<1>3. Promised(e, id)' = [Promised(e, id) EXCEPT !.rcvd = tally'[e][id].rcvd]
  BY <1>1, <1>2
<1>4. PromisedAll' = [PromisedAll EXCEPT ![e][id] =
                        [Promised(e, id) EXCEPT !.rcvd = tally'[e][id].rcvd]]
  BY <1>3, KeptElsewhere
<1>. QED
  BY <1>4, PromisedAt DEF PromisedAll

LEMMA EditGranted ==
  ASSUME NEW e \in Ends, NEW id \in Ids, KeptElse(e, id), Life(e, id)' = Life(e, id),
         tally'[e][id].sent = tally[e][id].sent,
         tally'[e][id].rcvd = tally[e][id].rcvd
  PROVE  PromisedAll' = [PromisedAll EXCEPT ![e][id].granted = tally'[e][id].granted]
<1>1. Promised(e, id)' = [life |-> Life(e, id), sent |-> tally[e][id].sent,
                          rcvd |-> tally[e][id].rcvd, granted |-> tally'[e][id].granted]
  BY Zenon DEF Promised
<1>2. \A k : [Promised(e, id) EXCEPT !.granted = k] =
               [life |-> Life(e, id), sent |-> tally[e][id].sent,
                rcvd |-> tally[e][id].rcvd, granted |-> k]
  BY DEF Promised
<1>3. Promised(e, id)' = [Promised(e, id) EXCEPT !.granted = tally'[e][id].granted]
  BY <1>1, <1>2
<1>4. PromisedAll' = [PromisedAll EXCEPT ![e][id] =
                        [Promised(e, id) EXCEPT !.granted = tally'[e][id].granted]]
  BY <1>3, KeptElsewhere
<1>. QED
  BY <1>4, PromisedAt DEF PromisedAll

----------------------------------------------------------------------------
(* The actions of SodchanChannel *)

\* ch_free ends a life.
LEMMA FreeEnds ==
  ASSUME FlowInv, NEW e \in Ends, NEW id \in Ids, ch[e][id].st # "UNUSED",
         ch' = [ch EXCEPT ![e][id] = FreeSlot],
         nextId' = nextId, acc' = acc, tally' = tally
  PROVE  Channels!Next
<1>1. ch \in [Ends -> [Ids -> ChannelSet]]
  BY DEF FlowInv, TableInv, TypeOK, TypeTable
<1>2. /\ \A x \in Ends : \A y \in Ids : ~(x = e /\ y = id) => ch'[x][y] = ch[x][y]
      /\ ch'[e][id].st = "UNUSED"
  BY <1>1 DEF FreeSlot
<1>3. KeptElse(e, id)
  BY <1>2 DEF KeptElse, UnmovedAt
<1>4. Life(e, id) \in Channels!InUse /\ Life(e, id)' = "over"
  BY <1>2, LiveLife DEF Life
<1>5. PromisedAll' = [PromisedAll EXCEPT ![e][id].life = "over"]
  BY <1>3, <1>4, EditLife
<1>6. PromisedAll[e][id].life \in Channels!InUse
  BY <1>4, PromisedAt, Zenon
<1>7. Channels!End(e, id)
  BY <1>5, <1>6 DEF Channels!End
<1>. QED
  BY <1>7, PeerFacts DEF Channels!Next

\* channel_send puts bytes that the partner has granted.
LEMMA SendPuts ==
  ASSUME FlowInv, NEW e \in Ends, NEW id \in Ids, NEW n \in Nat, ChannelSend(e, id, n)
  PROVE  Channels!Next
<1>. DEFINE q == Peer(e)
            b == ch[e][id].peer
            t == tally[e][id]
<1>1. /\ ch[e][id].st = "OPEN" /\ ~ch[e][id].leof /\ n <= ch[e][id].sendw
      /\ ch' = [ch EXCEPT ![e][id].sendw = @ - n]
      /\ tally' = [tally EXCEPT ![e][id].sent = @ + n]
      /\ nextId' = nextId /\ acc' = acc
  BY DEF ChannelSend
<1>2. b \in Ids /\ Paired(e, id, b)
  BY <1>1, OpenIsPaired
<1>3. ch \in [Ends -> [Ids -> ChannelSet]] /\ tally \in [Ends -> [Ids -> TallySet]]
  BY DEF FlowInv, TableInv, TypeOK, TypeTable, TypePast
<1>4. /\ q \in Ends /\ q # e
      /\ t.sent \in Nat /\ t.credited \in Nat /\ tally[q][b].granted \in Nat
      /\ InitialWindow[q] \in Nat /\ ch[e][id].sendw \in Nat
  BY <1>2, FlowNumbers
<1>5. \A x \in Ends : \A i \in Ids :
        ch'[x][i].st = ch[x][i].st /\ ch'[x][i].leof = ch[x][i].leof
  BY <1>1, <1>3 DEF ChannelSet, ChannelFields
<1>6. \A x \in Ends : \A i \in Ids :
        /\ tally'[x][i].rcvd = tally[x][i].rcvd
        /\ tally'[x][i].granted = tally[x][i].granted
        /\ ~(x = e /\ i = id) => tally'[x][i].sent = tally[x][i].sent
  BY <1>1, <1>3 DEF TallySet
<1>7. tally'[e][id].sent = t.sent + n
  BY <1>1, <1>3 DEF TallySet
<1>8. t.sent + n \in t.sent .. (InitialWindow[q] + tally[q][b].granted)
  <2>1. t.sent + ch[e][id].sendw = InitialWindow[q] + t.credited
    <3>1. ch[e][id].sendw + t.sent = InitialWindow[q] + t.credited
      BY <1>1 DEF FlowInv, WindowsCount, Counted
    <3>. QED
      BY <1>4, <3>1
  <2>2. t.credited <= tally[q][b].granted
    BY <1>2 DEF FlowInv, PairBalance, Balanced
  <2>. QED
    BY <1>1, <1>4, <2>1, <2>2
<1>9. Life(e, id) = "live" /\ Life(e, id)' = Life(e, id)
  BY <1>1, <1>5, LiveLife DEF Life
<1>10. KeptElse(e, id)
  BY <1>1, <1>5, <1>6 DEF KeptElse, UnmovedAt
<1>11. PromisedAll' = [PromisedAll EXCEPT ![e][id].sent = t.sent + n]
  BY <1>6, <1>7, <1>9, <1>10, EditSent
<1>12. /\ PromisedAll[e][id].life = "live"
       /\ PromisedAll[e][id].sent = t.sent
       /\ PromisedAll[q][b].granted = tally[q][b].granted
  BY <1>2, <1>4, <1>9, PromisedAt, Zenon
<1>13. Channels!Partners(e, id, q, b)
  BY <1>2 DEF Paired, Channels!Partners
<1>14. Channels!Put(e, id, q, b)
  BY <1>1, <1>8, <1>11, <1>12, <1>13 DEF Channels!Put
<1>. QED
  BY <1>2, <1>4, <1>14 DEF Channels!Next

\* A channel receives bytes that the partner has sent.
LEMMA GetBytes ==
  ASSUME FlowInv, NEW e \in Ends, NEW id \in Ids, NEW b \in Ids, NEW n \in Nat,
         ch[e][id].st = "OPEN", Paired(e, id, b),
         tally[e][id].rcvd + n <= tally[Peer(e)][b].sent,
         ch' = [ch EXCEPT ![e][id].recvw = @ - n],
         tally' = [tally EXCEPT ![e][id].rcvd = @ + n],
         nextId' = nextId, acc' = acc
  PROVE  Channels!Next
<1>. DEFINE q == Peer(e)
            t == tally[e][id]
<1>1. ch \in [Ends -> [Ids -> ChannelSet]] /\ tally \in [Ends -> [Ids -> TallySet]]
  BY DEF FlowInv, TableInv, TypeOK, TypeTable, TypePast
<1>2. /\ q \in Ends /\ q # e
      /\ t.rcvd \in Nat /\ tally[q][b].sent \in Nat
  BY FlowNumbers
<1>3. \A x \in Ends : \A i \in Ids :
        ch'[x][i].st = ch[x][i].st /\ ch'[x][i].leof = ch[x][i].leof
  BY <1>1 DEF ChannelSet, ChannelFields
<1>4. \A x \in Ends : \A i \in Ids :
        /\ tally'[x][i].sent = tally[x][i].sent
        /\ tally'[x][i].granted = tally[x][i].granted
        /\ ~(x = e /\ i = id) => tally'[x][i].rcvd = tally[x][i].rcvd
  BY <1>1 DEF TallySet
<1>5. tally'[e][id].rcvd = t.rcvd + n
  BY <1>1 DEF TallySet
<1>6. t.rcvd + n \in t.rcvd .. tally[q][b].sent
  BY <1>2
<1>7. Life(e, id) \in Channels!InUse /\ Life(e, id)' = Life(e, id)
  BY <1>3, LiveLife DEF Life
<1>8. KeptElse(e, id)
  BY <1>3, <1>4 DEF KeptElse, UnmovedAt
<1>9. PromisedAll' = [PromisedAll EXCEPT ![e][id].rcvd = t.rcvd + n]
  BY <1>4, <1>5, <1>7, <1>8, EditRcvd
<1>10. /\ PromisedAll[e][id].life \in Channels!InUse
       /\ PromisedAll[e][id].rcvd = t.rcvd
       /\ PromisedAll[q][b].sent = tally[q][b].sent
  BY <1>2, <1>7, PromisedAt, Zenon
<1>11. Channels!Partners(e, id, q, b)
  BY DEF Paired, Channels!Partners
<1>12. Channels!Get(e, id, q, b)
  BY <1>6, <1>9, <1>10, <1>11 DEF Channels!Get
<1>. QED
  BY <1>2, <1>12 DEF Channels!Next

\* The DATA handler does so.
LEMMA RecvGets ==
  ASSUME FlowInv, NEW e \in Ends, RecvData(e),
         DataVerdict(ch[e][Incoming(e).to], Incoming(e).len) = "none"
  PROVE  Channels!Next
<1>. DEFINE q == Peer(e)
            m == Incoming(e)
<1>1. /\ Arrives(e, "DATA") /\ Consume(e)
      /\ ch' = [ch EXCEPT ![e][m.to].recvw = @ - m.len]
      /\ tally' = [tally EXCEPT ![e][m.to].rcvd = @ + m.len]
      /\ nextId' = nextId /\ acc' = acc
  BY DEF RecvData
<1>2. /\ m.type = "DATA" /\ m \in PduSet /\ m.pos \in Nat /\ m.len \in Nat
      /\ PduPaired(q, m) /\ PduBalanced(q, m)
  BY <1>1, IncomingFacts
<1>3. m.to \in Ids /\ m.from \in Ids /\ q \in Ends /\ Peer(q) = e
  BY <1>2, PeerFacts DEF PduSet, FromChannel, ToChannel
<1>4. tally[e][m.to].rcvd \in Nat /\ tally[q][m.from].sent \in Nat
  BY <1>3, FlowNumbers
<1>5. Paired(e, m.to, m.from)
  BY <1>2, <1>3, PairSymmetric DEF PduPaired
<1>6. /\ m.pos + m.len <= tally[q][m.from].sent
      /\ tally[e][m.to].rcvd <= m.pos
  BY <1>2, <1>3 DEF PduBalanced
<1>7. tally[e][m.to].rcvd + m.len <= tally[q][m.from].sent
  BY <1>2, <1>4, <1>6
<1>8. ch[e][m.to].st = "OPEN"
  BY <1>1, DataFits
<1>. QED
  BY <1>1, <1>2, <1>3, <1>5, <1>7, <1>8, GetBytes

\* channel_window_adjust grants credit.
LEMMA AdjustGrants ==
  ASSUME FlowInv, NEW e \in Ends, NEW id \in Ids, NEW n \in Credits,
         ChannelWindowAdjust(e, id, n)
  PROVE  Channels!Next
<1>1. /\ ch[e][id].st = "OPEN"
      /\ ch' = [ch EXCEPT ![e][id].recvw = (@ + n) % WinMod]
      /\ tally' = [tally EXCEPT ![e][id].granted = @ + n]
      /\ nextId' = nextId /\ acc' = acc
  BY DEF ChannelWindowAdjust
<1>2. ch \in [Ends -> [Ids -> ChannelSet]] /\ tally \in [Ends -> [Ids -> TallySet]]
  BY DEF FlowInv, TableInv, TypeOK, TypeTable, TypePast
<1>3. \A x \in Ends : \A i \in Ids :
        ch'[x][i].st = ch[x][i].st /\ ch'[x][i].leof = ch[x][i].leof
  BY <1>1, <1>2 DEF ChannelSet, ChannelFields
<1>4. \A x \in Ends : \A i \in Ids :
        /\ tally'[x][i].sent = tally[x][i].sent
        /\ tally'[x][i].rcvd = tally[x][i].rcvd
        /\ ~(x = e /\ i = id) => tally'[x][i].granted = tally[x][i].granted
  BY <1>1, <1>2 DEF TallySet
<1>5. tally'[e][id].granted = tally[e][id].granted + n
  BY <1>1, <1>2 DEF TallySet
<1>6. Life(e, id) \in Channels!InUse /\ Life(e, id)' = Life(e, id)
  BY <1>1, <1>3, LiveLife DEF Life
<1>7. KeptElse(e, id)
  BY <1>1, <1>3, <1>4 DEF KeptElse, UnmovedAt
<1>8. PromisedAll[e][id].granted = tally[e][id].granted
  BY PromisedAt, Zenon
<1>9. PromisedAll' = [PromisedAll EXCEPT ![e][id].granted = @ + n]
  BY <1>4, <1>5, <1>6, <1>7, <1>8, EditGranted
<1>10. PromisedAll[e][id].life \in Channels!InUse
  BY <1>6, PromisedAt, Zenon
<1>11. Channels!Grant(e, id)
  BY <1>1, <1>9, <1>10 DEF Channels!Grant
<1>. QED
  BY <1>11, PeerFacts DEF Channels!Next

\* channel_eof shuts the channel.
LEMMA EofShuts ==
  ASSUME FlowInv, NEW e \in Ends, NEW id \in Ids, ChannelEof(e, id)
  PROVE  Channels!Next
<1>1. /\ ch[e][id].st = "OPEN" /\ ~ch[e][id].leof
      /\ ch' = [ch EXCEPT ![e][id].leof = TRUE]
      /\ nextId' = nextId /\ acc' = acc /\ tally' = tally
  BY DEF ChannelEof
<1>2. ch \in [Ends -> [Ids -> ChannelSet]]
  BY DEF FlowInv, TableInv, TypeOK, TypeTable
<1>3. /\ \A x \in Ends : \A y \in Ids : ~(x = e /\ y = id) => ch'[x][y] = ch[x][y]
      /\ ch'[e][id].st = "OPEN" /\ ch'[e][id].leof
  BY <1>1, <1>2 DEF ChannelSet, ChannelFields
<1>4. KeptElse(e, id)
  BY <1>1, <1>3 DEF KeptElse, UnmovedAt
<1>5. Life(e, id) = "live" /\ ~(id >= nextId[e])
  BY <1>1, LiveLife
<1>6. Life(e, id)' = "shut"
  BY <1>1, <1>3, <1>5 DEF Life
<1>7. PromisedAll' = [PromisedAll EXCEPT ![e][id].life = "shut"]
  BY <1>1, <1>4, <1>6, EditLife
<1>8. PromisedAll[e][id].life = "live"
  BY <1>5, PromisedAt, Zenon
<1>9. Channels!Shut(e, id)
  BY <1>1, <1>7, <1>8 DEF Channels!Shut
<1>. QED
  BY <1>9, PeerFacts DEF Channels!Next

\* The next id begins its life: ch_alloc, or an id wasted when out_buf is full.
LEMMA NextIdBegins ==
  ASSUME FlowInv, NEW e \in Ends, NEW n \in Ids, n = nextId[e],
         nextId' = [nextId EXCEPT ![e] = @ + 1], tally' = tally,
         \A x \in Ends : \A y \in Ids : ~(x = e /\ y = n) => ch'[x][y] = ch[x][y]
  PROVE  /\ PromisedAll[e][n].life = "new"
         /\ ~(n >= nextId'[e])
         /\ PromisedAll' = [PromisedAll EXCEPT ![e][n].life = Life(e, n)']
<1>1. /\ \A i, j \in Nat : i # j => ((i >= j + 1) <=> (i >= j))
      /\ \A i \in Nat : i >= i /\ ~(i >= i + 1)
  OBVIOUS
<1>2. n \in Nat /\ Ids \subseteq Nat /\ nextId \in [Ends -> Nat]
  BY FlowNumbers DEF FlowInv, TableInv, TypeOK, TypeTable
<1>3. nextId'[e] = n + 1 /\ \A x \in Ends : x # e => nextId'[x] = nextId[x]
  BY <1>2
<1>4. ASSUME NEW x \in Ends, NEW y \in Ids, ~(x = e /\ y = n)
      PROVE  (y >= nextId'[x]) <=> (y >= nextId[x])
  <2>1. CASE x # e
    BY <1>3, <2>1
  <2>2. CASE x = e
    <3>1. y \in Nat /\ y # n
      BY <1>2, <1>4, <2>2
    <3>. QED
      BY <1>1, <1>2, <1>3, <2>2, <3>1
  <2>. QED
    BY <2>1, <2>2
<1>5. KeptElse(e, n)
  BY <1>4 DEF KeptElse, UnmovedAt
<1>6. Life(e, n) = "new"
  BY <1>1, <1>2 DEF Life
<1>7. PromisedAll[e][n].life = "new"
  BY <1>6, PromisedAt, Zenon
<1>8. ~(n >= nextId'[e])
  BY <1>1, <1>2, <1>3
<1>. QED
  BY <1>5, <1>7, <1>8, EditLife

\* channel_open asks for a channel.
LEMMA OpenRequests ==
  ASSUME FlowInv, NEW e \in Ends, NEW name \in Names, ChannelOpen(e, name)
  PROVE  Channels!Next
<1>. DEFINE slot == [FreeSlot EXCEPT !.st = "OPENING", !.recvw = InitialWindow[e],
                                     !.max = MaxPacket[e]]
<1>. PICK n \in Ids : n = nextId[e]
  BY DEF ChannelOpen, CanAlloc
<1>1. /\ ch' = [ch EXCEPT ![e][n] = slot]
      /\ nextId' = [nextId EXCEPT ![e] = @ + 1]
      /\ acc' = acc /\ tally' = tally
  BY DEF ChannelOpen, CanAlloc, Alloc
<1>2. ch \in [Ends -> [Ids -> ChannelSet]]
  BY DEF FlowInv, TableInv, TypeOK, TypeTable
<1>3. slot.st = "OPENING" /\ slot.leof = FALSE
  BY DEF FreeSlot
<1>4. /\ \A x \in Ends : \A y \in Ids : ~(x = e /\ y = n) => ch'[x][y] = ch[x][y]
      /\ ch'[e][n] = slot
  BY <1>1, <1>2
<1>5. /\ PromisedAll[e][n].life = "new"
      /\ ~(n >= nextId'[e])
      /\ PromisedAll' = [PromisedAll EXCEPT ![e][n].life = Life(e, n)']
  BY <1>1, <1>4, NextIdBegins
<1>6. ch'[e][n].st # "UNUSED" /\ ~ch'[e][n].leof
  BY <1>3, <1>4
<1>7. Life(e, n)' = "live"
  BY <1>5, <1>6 DEF Life
<1>8. Channels!Request(e, n)
  BY <1>1, <1>5, <1>7 DEF Channels!Request
<1>. QED
  BY <1>1, <1>8, PeerFacts DEF Channels!Next

\* channel_open wastes an id when out_buf is full.
LEMMA OpenFullRequests ==
  ASSUME FlowInv, NEW e \in Ends, ChannelOpenFull(e)
  PROVE  Channels!Next
<1>. PICK n \in Ids : n = nextId[e]
  BY DEF ChannelOpenFull, CanAlloc
<1>1. /\ ch' = ch
      /\ nextId' = [nextId EXCEPT ![e] = @ + 1]
      /\ acc' = acc /\ tally' = tally
  BY DEF ChannelOpenFull, CanAlloc, past
<1>2. /\ PromisedAll[e][n].life = "new"
      /\ ~(n >= nextId'[e])
      /\ PromisedAll' = [PromisedAll EXCEPT ![e][n].life = Life(e, n)']
  BY <1>1, NextIdBegins
<1>3. ch'[e][n].st = "UNUSED"
  <2>1. n \in Nat /\ n >= nextId[e]
    BY <1>1, FlowNumbers
  <2>. QED
    BY <1>1, <2>1, FreeSlotType DEF FlowInv, TableInv, UnusedAhead
<1>4. Life(e, n)' = "over"
  BY <1>2, <1>3 DEF Life
<1>5. Channels!Request(e, n)
  BY <1>1, <1>2, <1>4 DEF Channels!Request
<1>. QED
  BY <1>1, <1>5, PeerFacts DEF Channels!Next

\* An OPEN that takes a slot answers a request, and makes a pair.
LEMMA PendingAnswers ==
  ASSUME FlowInv, NEW e \in Ends, RecvOpenPending(e)
  PROVE  Channels!Next
<1>. DEFINE q == Peer(e)
            m == Incoming(e)
            a == m.from
            slot == [FreeSlot EXCEPT !.st = "PENDING", !.peer = a, !.sendw = m.len,
                       !.max = PacketLimit(e, m.max), !.recvw = InitialWindow[e]]
<1>. PICK n \in Ids : n = nextId[e]
  BY DEF RecvOpenPending, CanAlloc
<1>1. /\ Arrives(e, "OPEN") /\ Consume(e)
      /\ ch' = [ch EXCEPT ![e][n] = slot]
      /\ nextId' = [nextId EXCEPT ![e] = @ + 1]
      /\ acc' = [acc EXCEPT ![e][a] = n]
      /\ tally' = tally
  BY DEF RecvOpenPending, Alloc, CanAlloc
<1>2. m.type = "OPEN" /\ m \in PduSet /\ PduPaired(q, m)
  BY <1>1, IncomingFacts
<1>3. /\ ch \in [Ends -> [Ids -> ChannelSet]] /\ nextId \in [Ends -> Nat]
      /\ TypePast /\ AccSound
  BY DEF FlowInv, TableInv, TypeOK, TypeTable, PairInv
<1>4. /\ q \in Ends /\ q # e /\ Peer(q) = e
      /\ a \in Ids /\ n \in Nat
      /\ Ids \subseteq Nat /\ NoId \notin Ids
  BY <1>2, <1>3, PeerFacts, IdFacts DEF PduSet, FromChannel
<1>5. /\ a < nextId[q] /\ acc[e][a] = NoId
      /\ \A x \in Ids : acc[q][x] # a
  BY <1>2, <1>4 DEF PduPaired
<1>6. \A x \in Ids : acc[e][x] # n
  <2>1. \A x \in Ids : acc[e][x] # NoId => acc[e][x] < n
    BY <1>3 DEF AccSound
  <2>. QED
    BY <1>1, <1>3, <1>4, <2>1 DEF TypePast
<1>7. slot.st = "PENDING" /\ slot.leof = FALSE
  BY DEF FreeSlot
<1>8. /\ \A x \in Ends : \A y \in Ids : ~(x = e /\ y = n) => ch'[x][y] = ch[x][y]
      /\ ch'[e][n] = slot
  BY <1>1, <1>3
<1>9. /\ PromisedAll[e][n].life = "new"
      /\ ~(n >= nextId'[e])
      /\ PromisedAll' = [PromisedAll EXCEPT ![e][n].life = Life(e, n)']
  BY <1>1, <1>8, NextIdBegins
<1>10. ch'[e][n].st # "UNUSED" /\ ~ch'[e][n].leof
  BY <1>7, <1>8
<1>11. Life(e, n)' = "live"
  BY <1>9, <1>10 DEF Life
<1>12. Life(q, a) # "new"
  <2>a. a \in Nat /\ nextId[q] \in Nat
    BY <1>3, <1>4
  <2>b. \A i, j \in Nat : i < j => ~(i >= j)
    OBVIOUS
  <2>1. ~(a >= nextId[q])
    BY <1>5, <2>a, <2>b
  <2>. QED
    BY <2>1 DEF Life
<1>13. PromisedAll[q][a].life # "new"
  BY <1>4, <1>12, PromisedAt, Zenon
<1>14. Channels!Answer(e, n, q, a)
  BY <1>1, <1>5, <1>6, <1>9, <1>11, <1>13 DEF Channels!Answer
<1>. QED
  BY <1>1, <1>4, <1>14 DEF Channels!Next

----------------------------------------------------------------------------
(* Every step of the multiplexer is a step of SodchanChannel or a stutter *)

Still == PromisedAll' = PromisedAll /\ acc' = acc

\* Steps that touch one slot, within its life, are stutters.
LEMMA SlotStill ==
  ASSUME NEW e \in Ends, NEW id \in Ids,
         \A x \in Ends : \A y \in Ids : ~(x = e /\ y = id) => ch'[x][y] = ch[x][y],
         ch[e][id].st # "UNUSED", ch'[e][id].st # "UNUSED",
         ch'[e][id].leof = ch[e][id].leof,
         nextId' = nextId, acc' = acc,
         \A x \in Ends : \A y \in Ids : /\ tally'[x][y].sent = tally[x][y].sent
                                        /\ tally'[x][y].rcvd = tally[x][y].rcvd
                                        /\ tally'[x][y].granted = tally[x][y].granted
  PROVE  Still
<1>1. \A x \in Ends : \A y \in Ids : UnmovedAt(x, y)
  BY DEF UnmovedAt
<1>. QED
  BY <1>1, KeptAll DEF Still

LEMMA FailStill ==
  ASSUME NEW e, NEW cause, NEW id, Fail(e, cause, id)
  PROVE  Still
BY SamePromise DEF Fail, table, past, Still

LEMMA CallPromise ==
  ASSUME FlowInv, NEW e \in Ends, Call(e)
  PROVE  Channels!Next \/ Still
<1>a. ch \in [Ends -> [Ids -> ChannelSet]]
  BY DEF FlowInv, TableInv, TypeOK, TypeTable
<1>1. ASSUME NEW id \in Ids, ChannelAccept(e, id) PROVE Still
  <2>1. /\ ch[e][id].st = "PENDING"
        /\ ch' = [ch EXCEPT ![e][id].st = "OPEN", ![e][id].recvw = InitialWindow[e]]
        /\ tally' = tally /\ nextId' = nextId /\ acc' = acc
    BY <1>1 DEF ChannelAccept
  <2>2. /\ \A x \in Ends : \A i \in Ids : ~(x = e /\ i = id) => ch'[x][i] = ch[x][i]
        /\ ch'[e][id].st = "OPEN" /\ ch'[e][id].leof = ch[e][id].leof
    BY <1>a, <2>1 DEF ChannelSet, ChannelFields
  <2>. QED
    BY <2>1, <2>2, SlotStill
<1>2. ASSUME NEW id \in Ids, ChannelReject(e, id) \/ ChannelClose(e, id)
      PROVE  Channels!Next
  BY <1>2, FreeEnds DEF ChannelReject, ChannelClose, Free
<1>3. ASSUME Disconnect(e) \/ DisconnectAfterError(e) \/ PeerPing(e) PROVE Still
  BY <1>3, SamePromise DEF Disconnect, DisconnectAfterError, PeerPing, table, past, Still
<1>4. ASSUME NEW id \in Ids, NEW n \in SendLens, ChannelSend(e, id, n)
      PROVE  Channels!Next
  BY <1>4, SendPuts, BoundAssumption
<1>. QED
  BY <1>1, <1>2, <1>3, <1>4, OpenRequests, OpenFullRequests, EofShuts, AdjustGrants
  DEF Call

LEMMA RecvPromise ==
  ASSUME FlowInv, NEW e \in Ends, Recv(e)
  PROVE  Channels!Next \/ Still
<1>. DEFINE m == Incoming(e)
<1>a. ch \in [Ends -> [Ids -> ChannelSet]] /\ tally \in [Ends -> [Ids -> TallySet]]
  BY DEF FlowInv, TableInv, TypeOK, TypeTable, TypePast
<1>b. Readable(e) /\ m.type \in ToChannel => m.to \in Ids
  BY IncomingType DEF FlowInv, TableInv, TypeOK, PduSet
<1>c. \A t \in ToChannel : Arrives(e, t) => m.to \in Ids
  BY <1>b DEF Arrives
<1>1. ASSUME RecvConfirm(e) PROVE Still
  <2>1. CASE ch[e][m.to].st = "OPENING"
    <3>1. /\ Arrives(e, "CONFIRM")
          /\ ch' = [ch EXCEPT ![e][m.to].st = "OPEN", ![e][m.to].peer = m.from,
                              ![e][m.to].sendw = m.len,
                              ![e][m.to].max = PacketLimit(e, m.max)]
          /\ tally' = tally /\ nextId' = nextId /\ acc' = acc
      BY <1>1, <2>1 DEF RecvConfirm
    <3>2. m.to \in Ids
      BY <1>c, <3>1 DEF ToChannel
    <3>3. /\ \A x \in Ends : \A i \in Ids : ~(x = e /\ i = m.to) => ch'[x][i] = ch[x][i]
          /\ ch'[e][m.to].st = "OPEN" /\ ch'[e][m.to].leof = ch[e][m.to].leof
      BY <1>a, <3>1, <3>2, SMTT(30) DEF ChannelSet, ChannelFields
    <3>. QED
      BY <2>1, <3>1, <3>2, <3>3, SlotStill
  <2>2. CASE ch[e][m.to].st # "OPENING"
    BY <1>1, <2>2, FailStill DEF RecvConfirm
  <2>. QED
    BY <2>1, <2>2
<1>2. ASSUME RecvData(e) PROVE Channels!Next \/ Still
  <2>1. CASE DataVerdict(ch[e][m.to], m.len) = "none"
    BY <1>2, <2>1, RecvGets
  <2>2. CASE DataVerdict(ch[e][m.to], m.len) # "none"
    BY <1>2, <2>2, FailStill DEF RecvData
  <2>. QED
    BY <2>1, <2>2
<1>3. ASSUME RecvWindow(e) PROVE Still
  <2>1. CASE ch[e][m.to].st = "OPEN"
    <3>1. /\ Arrives(e, "WINDOW")
          /\ ch' = [ch EXCEPT ![e][m.to].sendw = (@ + m.len) % WinMod]
          /\ tally' = [tally EXCEPT ![e][m.to].credited = @ + m.len]
          /\ nextId' = nextId /\ acc' = acc
      BY <1>3, <2>1 DEF RecvWindow
    <3>2. m.to \in Ids
      BY <1>c, <3>1 DEF ToChannel
    <3>3. /\ \A x \in Ends : \A i \in Ids : ~(x = e /\ i = m.to) => ch'[x][i] = ch[x][i]
          /\ ch'[e][m.to].st = "OPEN" /\ ch'[e][m.to].leof = ch[e][m.to].leof
      BY <1>a, <2>1, <3>1, <3>2 DEF ChannelSet, ChannelFields
    <3>4. \A x \in Ends : \A y \in Ids : /\ tally'[x][y].sent = tally[x][y].sent
                                         /\ tally'[x][y].rcvd = tally[x][y].rcvd
                                         /\ tally'[x][y].granted = tally[x][y].granted
      BY <1>a, <3>1, <3>2 DEF TallySet
    <3>. QED
      BY <2>1, <3>1, <3>2, <3>3, <3>4, SlotStill
  <2>2. CASE ch[e][m.to].st # "OPEN"
    BY <1>3, <2>2, SamePromise DEF RecvWindow, Still
  <2>. QED
    BY <2>1, <2>2
<1>4. ASSUME RecvEof(e) PROVE Still
  <2>1. CASE ch[e][m.to].st # "UNUSED"
    <3>1. /\ Arrives(e, "EOF")
          /\ ch' = [ch EXCEPT ![e][m.to].reof = TRUE]
          /\ tally' = tally /\ nextId' = nextId /\ acc' = acc
      BY <1>4, <2>1 DEF RecvEof
    <3>2. m.to \in Ids
      BY <1>c, <3>1 DEF ToChannel
    <3>3. /\ \A x \in Ends : \A i \in Ids : ~(x = e /\ i = m.to) => ch'[x][i] = ch[x][i]
          /\ ch'[e][m.to].st = ch[e][m.to].st /\ ch'[e][m.to].leof = ch[e][m.to].leof
      BY <1>a, <3>1, <3>2 DEF ChannelSet, ChannelFields
    <3>. QED
      BY <2>1, <3>1, <3>2, <3>3, SlotStill
  <2>2. CASE ch[e][m.to].st = "UNUSED"
    BY <1>4, <2>2, SamePromise DEF RecvEof, Still
  <2>. QED
    BY <2>1, <2>2
<1>5. ASSUME RecvOpenFail(e) \/ RecvClose(e) PROVE Channels!Next \/ Still
  <2>1. /\ m.to \in Ids
        /\ nextId' = nextId /\ acc' = acc /\ tally' = tally
        /\ \/ ch[e][m.to].st # "UNUSED" /\ ch' = [ch EXCEPT ![e][m.to] = FreeSlot]
           \/ ch' = ch
    <3>1. CASE RecvOpenFail(e)
      BY <1>c, <3>1 DEF RecvOpenFail, Free, table, ToChannel
    <3>2. CASE RecvClose(e)
      BY <1>c, <3>2 DEF RecvClose, Free, table, ToChannel
    <3>. QED
      BY <1>5, <3>1, <3>2
  <2>. QED
    BY <2>1, FreeEnds, SamePromise DEF Still
<1>6. ASSUME RecvUnknown(e) PROVE Still
  BY <1>6, FailStill DEF RecvUnknown
<1>7. ASSUME \/ RecvAuthOk(e) \/ RecvOpenRefused(e) \/ RecvPing(e) \/ RecvPong(e)
             \/ RecvDisconnect(e)
      PROVE  Still
  BY <1>7, SamePromise
  DEF RecvAuthOk, RecvOpenRefused, RecvPing, RecvPong, RecvDisconnect, table, Still
<1>. QED
  BY <1>1, <1>2, <1>3, <1>4, <1>5, <1>6, <1>7, PendingAnswers DEF Recv

LEMMA PromiseStep == FlowInv /\ [Next]_vars => [Channels!Next]_(Channels!promise)
<1>. SUFFICES ASSUME FlowInv, [Next]_vars PROVE Channels!Next \/ Still
  BY DEF Still, Channels!promise
<1>1. ASSUME NEW e \in Ends, GetOutput(e) \/ NextEvent(e) PROVE Still
  BY <1>1, SamePromise DEF GetOutput, NextEvent, table, past, Still
<1>2. CASE UNCHANGED vars
  BY <1>2, SamePromise DEF vars, table, past, Still
<1>. QED
  BY <1>1, <1>2, CallPromise, RecvPromise DEF Next, Pump

LEMMA PromiseInit == Init => Channels!Init
<1>. SUFFICES ASSUME Init PROVE Channels!Init
  OBVIOUS
<1>1. ASSUME NEW e \in Ends, NEW id \in Ids
      PROVE  Promised(e, id) = Channels!Fresh
  <2>1. id >= nextId[e]
    BY IdFacts DEF Init
  <2>2. Life(e, id) = "new"
    BY <2>1 DEF Life
  <2>3. /\ tally[e][id].sent = 0 /\ tally[e][id].rcvd = 0
        /\ tally[e][id].granted = 0
    BY DEF Init
  <2>. QED
    BY <2>2, <2>3 DEF Promised, Channels!Fresh
<1>2. PromisedAll = [e \in Ends |-> [id \in Ids |-> Channels!Fresh]]
  BY <1>1 DEF PromisedAll
<1>. QED
  BY <1>2 DEF Init, Channels!Init

\* For every configuration in which no host raises a receive window to 2^32 or
\* beyond, the two multiplexers keep the promise of SodchanChannel: an id has one
\* life, pairs are one to one and for good, no host has sent more than its partner
\* granted or received what its partner did not send, and none sends after EOF.
THEOREM MuxImplementsChannels ==
  ASSUME RecvCap < WinMod
  PROVE  Spec => ImplementsChannels
<1>1. Spec => []FlowInv
  BY FlowInvariant
<1>2. Init => Channels!Init
  BY PromiseInit
<1>3. FlowInv /\ [Next]_vars => [Channels!Next]_(Channels!promise)
  BY PromiseStep
<1>. QED
  BY <1>1, <1>2, <1>3, PTL DEF Spec, ImplementsChannels, Channels!Spec

============================================================================
