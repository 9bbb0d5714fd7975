---------------------- MODULE SodchanHandshakeProofs -----------------------
(***************************************************************************)
(* The handshake for every configuration, event queue size and number of   *)
(* resets: types and streams first, then who has proved what to whom       *)
(* (server and device authentication), and what the errors mean.           *)
(***************************************************************************)
EXTENDS SodchanHandshakeInv, SequenceTheorems, TLAPS

----------------------------------------------------------------------------
(* Types *)

LEMMA EndFacts ==
  /\ Ends = {Client, Server} /\ Client # Server
  /\ Peer(Client) = Server /\ Peer(Server) = Client
  /\ \A e \in Ends : Peer(e) \in Ends /\ Peer(e) # e /\ Peer(Peer(e)) = e
BY DEF Ends, Client, Server, Peer

TypeCtx  == ctx \in [Ends -> CtxSet]
TypeIO   == out \in [Ends -> Seq(FrameSet)] /\ wire \in [Ends -> Seq(FrameSet)]
TypeHost == /\ evq \in [Ends -> Seq(EventTypes)]
            /\ \A e \in Ends : Len(evq[e]) <= EventCap
            /\ told \in BOOLEAN
            /\ evLost \in [Ends -> SUBSET EventTypes]
TypePast == /\ signed \subseteq SigSet /\ proofs \subseteq SigSet
            /\ accepted \subseteq Transcript /\ rejected \subseteq Transcript
TypeRest == cfg \in Configs /\ err \in [Ends -> Causes]

LEMMA TypeParts ==
  /\ TypeOK <=> TypeCtx /\ TypeIO /\ TypeHost /\ TypePast /\ TypeRest
  /\ TypeOK' <=> TypeCtx' /\ TypeIO' /\ TypeHost' /\ TypePast' /\ TypeRest'
BY DEF TypeOK, TypeCtx, TypeIO, TypeHost, TypePast, TypeRest

LEMMA PrefixFacts ==
  ASSUME NEW S, NEW s \in Seq(S), NEW n \in 0 .. Len(s)
  PROVE  /\ SubSeq(s, 1, n) \in Seq(S)
         /\ Len(SubSeq(s, 1, n)) = n
<1>1. Len(s) \in Nat /\ n \in Int /\ 1 \in Int /\ \A i \in 1 .. n : s[i] \in S
  BY ElementOfSeq, LenProperties
<1>2. /\ SubSeq(s, 1, n) \in Seq(S)
      /\ Len(SubSeq(s, 1, n)) = IF 1 <= n THEN n - 1 + 1 ELSE 0
  BY <1>1, SubSeqProperties
<1>. QED
  BY <1>1, <1>2

\* The ring keeps its bound whatever is queued.
LEMMA QueueType ==
  ASSUME TypeHost, NEW e \in Ends, NEW evs \in Seq(EventTypes), QueueEvents(e, evs)
  PROVE  TypeHost'
<1>. DEFINE room == EventCap - Len(evq[e])
            kept == IF Len(evs) <= room THEN Len(evs) ELSE room
            new  == SubSeq(evs, 1, kept)
<1>1. /\ evq[e] \in Seq(EventTypes) /\ Len(evq[e]) \in Nat /\ Len(evs) \in Nat
      /\ EventCap \in Nat /\ room \in Nat /\ kept \in 0 .. Len(evs) /\ kept <= room
  BY HandshakeAssumption, LenProperties DEF TypeHost
<1>2. new \in Seq(EventTypes) /\ Len(new) = kept
  BY <1>1, PrefixFacts
<1>3. evq[e] \o new \in Seq(EventTypes) /\ Len(evq[e] \o new) = Len(evq[e]) + kept
  <2>. HIDE DEF room, kept, new
  <2>. QED
    BY <1>1, <1>2, ConcatProperties
<1>4. evq' = [evq EXCEPT ![e] = evq[e] \o new]
  BY DEF QueueEvents
<1>5. {evs[i] : i \in (kept + 1) .. Len(evs)} \subseteq EventTypes
  BY <1>1, ElementOfSeq
<1>6. evLost' \in [Ends -> SUBSET EventTypes] /\ told' = told
  BY <1>5 DEF QueueEvents, TypeHost
<1>. HIDE DEF room, kept, new
<1>7. evq' \in [Ends -> Seq(EventTypes)]
  BY <1>3, <1>4 DEF TypeHost
<1>8. \A x \in Ends : Len(evq'[x]) <= EventCap
  <2>1. Len(evq[e]) + kept <= EventCap
    BY <1>1 DEF room
  <2>. QED
    BY <1>3, <1>4, <2>1 DEF TypeHost
<1>. QED
  BY <1>6, <1>7, <1>8 DEF TypeHost

LEMMA FrameTypes ==
  ASSUME TypeCtx
  PROVE  /\ \A life \in Lives, sig \in SigSet : Hello(life, sig) \in FrameSet
         /\ \A life \in Lives, key \in Transcript \cup {None} : Header(life, key) \in FrameSet
         /\ \A e \in Ends, pdu \in Pdus, sig \in SigSet : Sealed(e, pdu, sig) \in FrameSet
         /\ NoSig \in SigSet
         /\ \A life \in Lives : Fresh(life) \in CtxSet
         /\ \A e \in Ends, life \in Lives : FirstOutput(e, life) \in Seq(FrameSet)
<1>1. NoSig \in SigSet
  BY DEF NoSig, SigSet
<1>2. \A life \in Lives, sig \in SigSet : Hello(life, sig) \in FrameSet
  BY DEF Hello, FrameSet
<1>3. \A life \in Lives, key \in Transcript \cup {None} : Header(life, key) \in FrameSet
  BY <1>1 DEF Header, FrameSet
<1>4. \A e \in Ends, pdu \in Pdus, sig \in SigSet : Sealed(e, pdu, sig) \in FrameSet
  BY DEF Sealed, Cipher, FrameSet, TypeCtx, CtxSet
<1>5. \A life \in Lives : Fresh(life) \in CtxSet
  BY DEF Fresh, CtxSet, States
<1>6. \A e \in Ends, life \in Lives : FirstOutput(e, life) \in Seq(FrameSet)
  BY <1>1, <1>2 DEF FirstOutput
<1>. QED
  BY <1>1, <1>2, <1>3, <1>4, <1>5, <1>6

\* The frame that arrives, and what is left on the wire.
LEMMA ArrivesType ==
  ASSUME TypeIO, NEW e \in Ends, Arrives(e)
  PROVE  /\ Frame(e) \in FrameSet
         /\ wire' \in [Ends -> Seq(FrameSet)]
<1>1. Peer(e) \in Ends /\ wire[Peer(e)] \in Seq(FrameSet) /\ wire[Peer(e)] # <<>>
  BY EndFacts DEF TypeIO, Arrives
<1>2. Head(wire[Peer(e)]) \in FrameSet /\ Tail(wire[Peer(e)]) \in Seq(FrameSet)
  BY <1>1, HeadTailProperties
<1>. QED
  BY <1>1, <1>2 DEF Frame, Arrives, TypeIO

----------------------------------------------------------------------------
(* What a step does to one end and to the frames in flight *)

\* e's context becomes r, the other one is left alone.
Moves(e, r) == r \in CtxSet /\ ctx' = [ctx EXCEPT ![e] = r]

\* e takes the oldest frame in flight towards it.
Reads(e) ==
  LET F == Frames(Peer(e)) IN
  F # <<>> /\ Frame(e) = F[1] /\ Frames(Peer(e))' = Tail(F)

\* e puts out f.
Sends(e, f) == f \in FrameSet /\ Frames(e)' = Append(Frames(e), f)

\* Nothing is put out by e, nothing of it is read.
Still(e) == Frames(e)' = Frames(e)

LEMMA FramesType ==
  ASSUME TypeIO, NEW e \in Ends
  PROVE  Frames(e) \in Seq(FrameSet) /\ Len(Frames(e)) = Len(wire[e]) + Len(out[e])
BY ConcatProperties DEF TypeIO, Frames

\* The updates of a context that handlers and host calls make.
LEMMA CtxUpdates ==
  ASSUME NEW r \in CtxSet, NEW st \in States
  PROVE  /\ [r EXCEPT !.state = st] \in CtxSet
         /\ [r EXCEPT !.pull = @ + 1, !.state = st] \in CtxSet
         /\ [r EXCEPT !.push = @ + 1, !.state = st] \in CtxSet
         /\ [r EXCEPT !.pull = @ + 1, !.auth_awaiting_decide = TRUE] \in CtxSet
         /\ [r EXCEPT !.pull = @ + 1, !.push = @ + 1, !.state = st] \in CtxSet
         /\ [r EXCEPT !.pull = @ + 1, !.state = st, !.auth_complete = TRUE] \in CtxSet
         /\ [r EXCEPT !.auth_awaiting_decide = FALSE, !.auth_decided = TRUE,
                      !.auth_complete = TRUE, !.push = @ + 1, !.state = st] \in CtxSet
         /\ [r EXCEPT !.auth_awaiting_decide = FALSE, !.auth_decided = TRUE,
                      !.push = @ + 1, !.state = st] \in CtxSet
<1>1. r.push + 1 \in Nat /\ r.pull + 1 \in Nat
  BY DEF CtxSet
<1>. QED
  BY <1>1 DEF CtxSet

LEMMA CtxSessionUpdates ==
  ASSUME NEW r \in CtxSet, NEW t \in Transcript, NEW life \in Lives, NEW st \in States
  PROVE  /\ [r EXCEPT !.state = st, !.t_hello = t] \in CtxSet
         /\ [r EXCEPT !.state = st, !.t_hello = t, !.push_ready = TRUE] \in CtxSet
         /\ [r EXCEPT !.state = st, !.pull_ready = TRUE, !.header = life] \in CtxSet
         /\ [r EXCEPT !.state = st, !.pull_ready = TRUE, !.header = life,
                      !.push = @ + 1] \in CtxSet
         /\ [r EXCEPT !.state = st, !.pull_ready = TRUE, !.header = life,
                      !.push_ready = TRUE] \in CtxSet
<1>1. /\ r.push + 1 \in Nat /\ t \in Transcript \cup {None} /\ life \in Lives \cup {0}
  BY DEF CtxSet
<1>. QED
  BY <1>1 DEF CtxSet

LEMMA MovesFacts ==
  ASSUME TypeCtx, NEW e \in Ends, NEW r, Moves(e, r)
  PROVE  TypeCtx' /\ ctx'[e] = r /\ ctx'[Peer(e)] = ctx[Peer(e)]
BY EndFacts DEF TypeCtx, Moves

LEMMA ConcatSnoc ==
  ASSUME NEW S, NEW s \in Seq(S), NEW u \in Seq(S), NEW x \in S
  PROVE  /\ s \o Append(u, x) = Append(s \o u, x)
         /\ Append(s, x) \o u = s \o (<<x>> \o u)
<1>1. /\ <<x>> \in Seq(S) /\ s \o u \in Seq(S)
      /\ Append(u, x) = u \o <<x>> /\ Append(s, x) = s \o <<x>>
  BY AppendIsConcat, ConcatProperties
<1>2. \A v \in Seq(S) : s \o (u \o v) = (s \o u) \o v
  BY ConcatAssociative
<1>4. \A v \in Seq(S) : (s \o v) \o u = s \o (v \o u)
  BY ConcatAssociative
<1>3. Append(s \o u, x) = (s \o u) \o <<x>>
  BY <1>1, AppendIsConcat
<1>. QED
  BY <1>1, <1>2, <1>3, <1>4

LEMMA SendsFacts ==
  ASSUME TypeIO, NEW e \in Ends, NEW f \in FrameSet, out' = [out EXCEPT ![e] = Append(@, f)],
         wire'[e] = wire[e]
  PROVE  /\ out' \in [Ends -> Seq(FrameSet)]
         /\ Sends(e, f)
         /\ out'[Peer(e)] = out[Peer(e)]
<1>1. out[e] \in Seq(FrameSet) /\ wire[e] \in Seq(FrameSet)
  BY DEF TypeIO
<1>2. Append(out[e], f) \in Seq(FrameSet)
  BY <1>1, AppendProperties
<1>3. out' \in [Ends -> Seq(FrameSet)] /\ out'[e] = Append(out[e], f)
      /\ out'[Peer(e)] = out[Peer(e)]
  BY <1>2, EndFacts DEF TypeIO
<1>4. wire[e] \o Append(out[e], f) = Append(wire[e] \o out[e], f)
  <2>. DEFINE w == wire[e]  o == out[e]
  <2>1. w \in Seq(FrameSet) /\ o \in Seq(FrameSet)
    BY <1>1
  <2>. HIDE DEF w, o
  <2>2. w \o Append(o, f) = Append(w \o o, f)
    BY <2>1, ConcatSnoc
  <2>. QED
    BY <2>2 DEF w, o
<1>. QED
  BY <1>3, <1>4 DEF Sends, Frames

\* Taking the head of a concatenation.
LEMMA TailOfConcat ==
  ASSUME NEW S, NEW s \in Seq(S), NEW u \in Seq(S), s # <<>>
  PROVE  /\ s \o u # <<>> /\ Head(s) = (s \o u)[1]
         /\ Tail(s) \o u = Tail(s \o u)
<1>1. /\ Len(s) \in Nat /\ Len(s) > 0 /\ Len(u) \in Nat
      /\ Tail(s) \in Seq(S) /\ Len(Tail(s)) = Len(s) - 1
      /\ \A i \in 1 .. Len(s) - 1 : Tail(s)[i] = s[i + 1]
  BY HeadTailProperties, LenProperties, EmptySeq
<1>2. /\ s \o u \in Seq(S) /\ Len(s \o u) = Len(s) + Len(u)
      /\ \A i \in 1 .. Len(s) + Len(u) :
           (s \o u)[i] = IF i <= Len(s) THEN s[i] ELSE u[i - Len(s)]
  BY ConcatProperties
<1>3. s \o u # <<>>
  BY <1>1, <1>2, EmptySeq
<1>4. /\ Tail(s \o u) \in Seq(S) /\ Len(Tail(s \o u)) = Len(s) + Len(u) - 1
      /\ \A i \in 1 .. Len(s) + Len(u) - 1 : Tail(s \o u)[i] = (s \o u)[i + 1]
  BY <1>2, <1>3, HeadTailProperties
<1>5. /\ Tail(s) \o u \in Seq(S) /\ Len(Tail(s) \o u) = Len(s) + Len(u) - 1
      /\ \A i \in 1 .. Len(s) + Len(u) - 1 :
           (Tail(s) \o u)[i] = IF i <= Len(s) - 1 THEN Tail(s)[i] ELSE u[i - (Len(s) - 1)]
  BY <1>1, ConcatProperties
<1>6. \A i \in 1 .. Len(s) + Len(u) - 1 : (Tail(s) \o u)[i] = Tail(s \o u)[i]
  BY <1>1, <1>2, <1>4, <1>5
<1>7. Tail(s) \o u = Tail(s \o u)
  BY <1>4, <1>5, <1>6, SeqEqual
<1>8. Head(s) = (s \o u)[1]
  BY <1>1, <1>2
<1>. QED
  BY <1>3, <1>7, <1>8

LEMMA ReadsFacts ==
  ASSUME TypeIO, NEW e \in Ends, Arrives(e), out'[Peer(e)] = out[Peer(e)]
  PROVE  /\ Frame(e) \in FrameSet
         /\ wire' \in [Ends -> Seq(FrameSet)]
         /\ wire'[e] = wire[e]
         /\ Reads(e)
<1>1. /\ wire[Peer(e)] \in Seq(FrameSet) /\ wire[Peer(e)] # <<>>
      /\ out[Peer(e)] \in Seq(FrameSet)
  BY EndFacts DEF Arrives, TypeIO
<1>2. wire'[e] = wire[e] /\ wire'[Peer(e)] = Tail(wire[Peer(e)])
  BY EndFacts DEF Arrives, TypeIO
<1>3. Frames(Peer(e))' = Tail(wire[Peer(e)]) \o out[Peer(e)]
  BY <1>2 DEF Frames
<1>4. /\ Frames(Peer(e)) # <<>> /\ Head(wire[Peer(e)]) = Frames(Peer(e))[1]
      /\ Tail(wire[Peer(e)]) \o out[Peer(e)] = Tail(Frames(Peer(e)))
  BY <1>1, TailOfConcat DEF Frames
<1>. QED
  BY <1>2, <1>3, <1>4, ArrivesType DEF Reads, Frame

\* sodchan_get_output moves a frame without changing what is in flight.
LEMMA HandedOver ==
  ASSUME TypeIO, NEW e \in Ends, GetOutput(e)
  PROVE  TypeIO' /\ \A x \in Ends : Still(x)
<1>1. /\ wire[e] \in Seq(FrameSet) /\ out[e] \in Seq(FrameSet) /\ out[e] # <<>>
  BY DEF GetOutput, TypeIO
<1>2. /\ Head(out[e]) \in FrameSet /\ Tail(out[e]) \in Seq(FrameSet)
      /\ Append(wire[e], Head(out[e])) \in Seq(FrameSet)
      /\ out[e] = <<Head(out[e])>> \o Tail(out[e])
  <2>1. Head(out[e]) \in FrameSet /\ Tail(out[e]) \in Seq(FrameSet)
    BY <1>1, HeadTailProperties
  <2>2. Append(wire[e], Head(out[e])) \in Seq(FrameSet)
    BY <1>1, <2>1, AppendProperties
  <2>3. out[e] = <<Head(out[e])>> \o Tail(out[e])
    BY <1>1
  <2>. QED
    BY <2>1, <2>2, <2>3
<1>3. Append(wire[e], Head(out[e])) \o Tail(out[e]) = wire[e] \o out[e]
  <2>. DEFINE w == wire[e]  h == Head(out[e])  o == Tail(out[e])
  <2>1. w \in Seq(FrameSet) /\ h \in FrameSet /\ o \in Seq(FrameSet)
    BY <1>1, <1>2
  <2>2. out[e] = <<h>> \o o
    BY <1>2
  <2>. HIDE DEF w, h, o
  <2>3. Append(w, h) \o o = w \o (<<h>> \o o)
    BY <2>1, ConcatSnoc
  <2>. QED
    BY <2>2, <2>3 DEF w, h, o
<1>4. TypeIO'
  BY <1>2 DEF GetOutput, TypeIO
<1>5. /\ out'[e] = Tail(out[e]) /\ wire'[e] = Append(wire[e], Head(out[e]))
      /\ \A x \in Ends : x # e => out'[x] = out[x] /\ wire'[x] = wire[x]
  BY DEF GetOutput, TypeIO
<1>. QED
  BY <1>2, <1>3, <1>4, <1>5 DEF Still, Frames

\* e stops: ERROR or CLOSED, possibly with one more message opened.
Stops(e) ==
  \E st \in {"ERROR", "CLOSED"} :
    \/ Moves(e, [ctx[e] EXCEPT !.state = st])
    \/ Moves(e, [ctx[e] EXCEPT !.pull = @ + 1, !.state = st])

LEMMA StopsIf ==
  ASSUME TypeCtx, NEW e \in Ends, NEW st \in {"ERROR", "CLOSED"},
         \/ ctx' = [ctx EXCEPT ![e].state = st]
         \/ ctx' = [ctx EXCEPT ![e].pull = @ + 1, ![e].state = st]
  PROVE  Stops(e)
<1>1. ctx[e] \in CtxSet
  BY DEF TypeCtx
<1>2. CASE ctx' = [ctx EXCEPT ![e].state = st]
  <2>1. ctx' = [ctx EXCEPT ![e] = [ctx[e] EXCEPT !.state = st]]
    BY <1>2 DEF TypeCtx
  <2>2. [ctx[e] EXCEPT !.state = st] \in CtxSet
    BY <1>1, CtxUpdates DEF States
  <2>. QED
    BY <2>1, <2>2 DEF Stops, Moves
<1>3. CASE ctx' = [ctx EXCEPT ![e].pull = @ + 1, ![e].state = st]
  <2>1. ctx' = [ctx EXCEPT ![e] = [ctx[e] EXCEPT !.pull = @ + 1, !.state = st]]
    BY <1>3 DEF TypeCtx
  <2>2. [ctx[e] EXCEPT !.pull = @ + 1, !.state = st] \in CtxSet
    BY <1>1, CtxUpdates DEF States
  <2>. QED
    BY <2>1, <2>2 DEF Stops, Moves
<1>. QED
  BY <1>2, <1>3

LEMMA FailEffect ==
  ASSUME TypeOK, NEW e \in Ends, NEW cause \in Causes, NEW before \in Seq(EventTypes),
         Fail(e, cause, before)
  PROVE  Stops(e) /\ TypeCtx' /\ TypeHost' /\ err' \in [Ends -> Causes]
<1>1. Stops(e)
  BY TypeParts, StopsIf DEF Fail
<1>2. TypeCtx'
  BY <1>1, TypeParts, MovesFacts DEF Stops
<1>3. err' \in [Ends -> Causes]
  BY DEF Fail, TypeOK
<1>4. Append(before, "ERROR") \in Seq(EventTypes)
  BY AppendProperties DEF EventTypes
<1>5. TypeHost'
  BY <1>4, TypeParts, QueueType DEF Fail
<1>. QED
  BY <1>1, <1>2, <1>3, <1>5

LEMMA SomeEvents ==
  /\ \A t \in EventTypes : <<t>> \in Seq(EventTypes)
  /\ \A t, u \in EventTypes : <<t, u>> \in Seq(EventTypes)
  /\ <<>> \in Seq(EventTypes)
OBVIOUS

\* A frame is read and e stops, as on every error path and on a DISCONNECT.
Halts(e) == Reads(e) /\ Still(e) /\ Stops(e)

LEMMA FailedRead ==
  ASSUME TypeOK, NEW e \in Ends, Arrives(e), NEW cause \in Causes,
         NEW before \in Seq(EventTypes), Fail(e, cause, before), UNCHANGED <<cfg, out, past>>
  PROVE  TypeOK' /\ Halts(e)
<1>1. Stops(e) /\ TypeCtx' /\ TypeHost' /\ err' \in [Ends -> Causes]
  BY FailEffect
<1>2. wire' \in [Ends -> Seq(FrameSet)] /\ wire'[e] = wire[e] /\ Reads(e)
  BY TypeParts, ReadsFacts
<1>3. TypeOK'
  BY <1>1, <1>2, TypeParts DEF TypeIO, TypePast, TypeRest, past
<1>. QED
  BY <1>1, <1>2, <1>3 DEF Halts, Still, Frames

LEMMA RecvUnsealableEffect ==
  ASSUME TypeOK, NEW e \in Ends, RecvUnsealable(e)
  PROVE  TypeOK' /\ Halts(e)
BY FailedRead, SomeEvents DEF RecvUnsealable, Causes

LEMMA RecvAuthFailEffect ==
  ASSUME TypeOK, RecvAuthFail
  PROVE  TypeOK' /\ Halts(Client)
BY FailedRead, SomeEvents, EndFacts DEF RecvAuthFail, Unsealed, Causes, EventTypes

LEMMA RecvLateAuthEffect ==
  ASSUME TypeOK, NEW e \in Ends, RecvLateAuth(e)
  PROVE  TypeOK' /\ Halts(e)
BY FailedRead, SomeEvents DEF RecvLateAuth, Unsealed, Causes

LEMMA RecvDisconnectEffect ==
  ASSUME TypeOK, NEW e \in Ends, RecvDisconnect(e)
  PROVE  TypeOK' /\ Halts(e)
<1>1. Arrives(e) /\ UNCHANGED <<cfg, out, past>>
  BY DEF RecvDisconnect, Unsealed
<1>2. CASE Fail(e, "unexpected pdu in AUTH", <<>>)
  BY <1>1, <1>2, FailedRead, SomeEvents DEF Causes
<1>3. CASE /\ ctx' = [ctx EXCEPT ![e].pull = @ + 1, ![e].state = "CLOSED"]
           /\ QueueEvents(e, <<"DISCONNECTED">>)
           /\ UNCHANGED err
  <2>1. Stops(e)
    BY <1>3, TypeParts, StopsIf
  <2>2. TypeCtx'
    BY <2>1, TypeParts, MovesFacts DEF Stops
  <2>3. wire' \in [Ends -> Seq(FrameSet)] /\ wire'[e] = wire[e] /\ Reads(e)
    BY <1>1, TypeParts, ReadsFacts
  <2>4. TypeHost'
    BY <1>3, TypeParts, SomeEvents, QueueType DEF EventTypes
  <2>5. TypeOK'
    BY <1>1, <1>3, <2>2, <2>3, <2>4, TypeParts DEF TypeIO, TypePast, TypeRest, past
  <2>. QED
    BY <1>1, <2>1, <2>3, <2>5 DEF Halts, Still, Frames
<1>. QED
  BY <1>2, <1>3 DEF RecvDisconnect

\* The three shapes of a step that goes on: an answer, a frame read, a frame sent.
LEMMA ReadAndSend ==
  ASSUME TypeOK, NEW e \in Ends, Arrives(e), NEW f \in FrameSet,
         out' = [out EXCEPT ![e] = Append(@, f)], NEW r, Moves(e, r),
         NEW evs \in Seq(EventTypes), QueueEvents(e, evs), TypePast', TypeRest'
  PROVE  TypeOK' /\ Reads(e) /\ Sends(e, f)
<1>1. out'[Peer(e)] = out[Peer(e)]
  BY TypeParts, EndFacts DEF TypeIO
<1>2. wire' \in [Ends -> Seq(FrameSet)] /\ wire'[e] = wire[e] /\ Reads(e)
  BY <1>1, TypeParts, ReadsFacts
<1>3. out' \in [Ends -> Seq(FrameSet)] /\ Sends(e, f)
  BY <1>2, TypeParts, SendsFacts
<1>4. TypeHost' /\ TypeCtx'
  BY TypeParts, QueueType, MovesFacts
<1>. QED
  BY <1>2, <1>3, <1>4, TypeParts DEF TypeIO

LEMMA ReadOnly ==
  ASSUME TypeOK, NEW e \in Ends, Arrives(e), UNCHANGED out, NEW r, Moves(e, r),
         NEW evs \in Seq(EventTypes), QueueEvents(e, evs), TypePast', TypeRest'
  PROVE  TypeOK' /\ Reads(e) /\ Still(e)
<1>1. wire' \in [Ends -> Seq(FrameSet)] /\ wire'[e] = wire[e] /\ Reads(e)
  BY TypeParts, ReadsFacts
<1>2. TypeHost' /\ TypeCtx'
  BY TypeParts, QueueType, MovesFacts
<1>. QED
  BY <1>1, <1>2, TypeParts DEF TypeIO, Still, Frames

LEMMA SendOnly ==
  ASSUME TypeOK, NEW e \in Ends, UNCHANGED wire, NEW f \in FrameSet,
         out' = [out EXCEPT ![e] = Append(@, f)], NEW r, Moves(e, r),
         TypeHost', TypePast', TypeRest'
  PROVE  TypeOK' /\ Sends(e, f) /\ Still(Peer(e))
<1>1. /\ out' \in [Ends -> Seq(FrameSet)] /\ Sends(e, f)
      /\ out'[Peer(e)] = out[Peer(e)]
  BY TypeParts, SendsFacts
<1>2. TypeCtx'
  BY TypeParts, MovesFacts
<1>. QED
  BY <1>1, <1>2, TypeParts DEF TypeIO, Still, Frames

LEMMA RecvServerHelloEffect ==
  ASSUME TypeOK, RecvServerHello
  PROVE  LET f == Frame(Client)
             t == [c |-> ctx[Client].life, s |-> f.life]
         IN  /\ TypeOK' /\ f \in FrameSet /\ t \in Transcript
             /\ \/ Halts(Client)
                \/ /\ ServerHelloVerdict(f, t) = "none"
                   /\ Reads(Client) /\ Sends(Client, Header(ctx[Client].life, t))
                   /\ Moves(Client, [ctx[Client] EXCEPT !.state = "SS_HEADER",
                                       !.t_hello = t, !.push_ready = TRUE])
<1>. USE EndFacts
<1>. DEFINE f == Frame(Client)
            t == [c |-> ctx[Client].life, s |-> f.life]
            r == [ctx[Client] EXCEPT !.state = "SS_HEADER", !.t_hello = t, !.push_ready = TRUE]
<1>1. Arrives(Client) /\ UNCHANGED <<cfg, past>>
  BY DEF RecvServerHello
<1>2. f \in FrameSet
  BY <1>1, TypeParts, ArrivesType
<1>3. ctx[Client] \in CtxSet /\ ctx[Client].life \in Lives /\ f.life \in Lives
  BY <1>2, TypeParts DEF TypeCtx, CtxSet, FrameSet
<1>4. t \in Transcript
  BY <1>3 DEF Transcript
<1>5. ServerHelloVerdict(f, t) \in Causes
  BY DEF ServerHelloVerdict, Causes
<1>6. CASE Fail(Client, ServerHelloVerdict(f, t), <<>>) /\ UNCHANGED out
  <2>1. TypeOK' /\ Halts(Client)
    BY <1>1, <1>5, <1>6, FailedRead, SomeEvents
  <2>. QED
    BY <1>2, <1>4, <2>1
<1>7. CASE /\ ServerHelloVerdict(f, t) = "none"
           /\ ctx' = [ctx EXCEPT ![Client].state = "SS_HEADER",
                                 ![Client].t_hello = t,
                                 ![Client].push_ready = TRUE]
           /\ out' = [out EXCEPT ![Client] = Append(@, Header(ctx[Client].life, t))]
           /\ QueueEvents(Client, <<"HELLO_RECEIVED">>)
           /\ UNCHANGED err
  <2>1. Moves(Client, r)
    <3>1. r \in CtxSet
      BY <1>3, <1>4, CtxSessionUpdates DEF States
    <3>2. ctx' = [ctx EXCEPT ![Client] = r]
      BY <1>7, TypeParts DEF TypeCtx
    <3>. QED
      BY <3>1, <3>2 DEF Moves
  <2>2. Header(ctx[Client].life, t) \in FrameSet
    BY <1>3, <1>4, TypeParts, FrameTypes
  <2>3. TypePast' /\ TypeRest'
    BY <1>1, <1>7, TypeParts DEF TypePast, TypeRest, past
  <2>4. <<"HELLO_RECEIVED">> \in Seq(EventTypes)
    BY SomeEvents DEF EventTypes
  <2>5. TypeOK' /\ Reads(Client) /\ Sends(Client, Header(ctx[Client].life, t))
    BY <1>1, <1>7, <2>1, <2>2, <2>3, <2>4, ReadAndSend
  <2>. QED
    BY <1>2, <1>4, <1>7, <2>1, <2>5
<1>. QED
  BY <1>6, <1>7 DEF RecvServerHello

LEMMA RecvClientHelloEffect ==
  ASSUME TypeOK, RecvClientHello
  PROVE  LET f   == Frame(Server)
             t   == [c |-> f.life, s |-> ctx[Server].life]
             sig == [sk |-> cfg.serverSk, msg |-> t]
         IN  /\ TypeOK' /\ f \in FrameSet /\ t \in Transcript
             /\ \/ Halts(Server) /\ f.kind # "HELLO" /\ UNCHANGED signed
                \/ /\ f.kind = "HELLO"
                   /\ signed' = signed \cup {sig}
                   /\ Reads(Server) /\ Sends(Server, Hello(ctx[Server].life, sig))
                   /\ Moves(Server, [ctx[Server] EXCEPT !.state = "SS_HEADER",
                                       !.t_hello = t])
<1>. USE EndFacts
<1>. DEFINE f   == Frame(Server)
            t   == [c |-> f.life, s |-> ctx[Server].life]
            sig == [sk |-> cfg.serverSk, msg |-> t]
            r   == [ctx[Server] EXCEPT !.state = "SS_HEADER", !.t_hello = t]
<1>1. Arrives(Server) /\ UNCHANGED <<cfg, proofs, accepted, rejected>>
  BY DEF RecvClientHello
<1>2. f \in FrameSet
  BY <1>1, TypeParts, ArrivesType
<1>3. ctx[Server] \in CtxSet /\ ctx[Server].life \in Lives /\ f.life \in Lives
  BY <1>2, TypeParts DEF TypeCtx, CtxSet, FrameSet
<1>4. t \in Transcript
  BY <1>3 DEF Transcript
<1>5. sig \in SigSet
  <2>1. cfg.serverSk \in {"zero", "own", "other"}
    BY HandshakeAssumption, TypeParts DEF TypeRest, ConfigSet
  <2>. QED
    BY <1>4, <2>1 DEF SigSet
<1>6. CASE f.kind # "HELLO" /\ Fail(Server, "hello decode failed", <<>>) /\ UNCHANGED <<out, signed>>
  <2>1. TypeOK' /\ Halts(Server)
    BY <1>1, <1>6, FailedRead, SomeEvents DEF Causes, past
  <2>. QED
    BY <1>2, <1>4, <1>6, <2>1
<1>7. CASE /\ f.kind = "HELLO"
           /\ ctx' = [ctx EXCEPT ![Server].state = "SS_HEADER", ![Server].t_hello = t]
           /\ out' = [out EXCEPT ![Server] = Append(@, Hello(ctx[Server].life, sig))]
           /\ signed' = signed \cup {sig}
           /\ QueueEvents(Server, <<"HELLO_RECEIVED">>)
           /\ UNCHANGED err
  <2>1. Moves(Server, r)
    <3>1. r \in CtxSet
      BY <1>3, <1>4, CtxSessionUpdates DEF States
    <3>2. ctx' = [ctx EXCEPT ![Server] = r]
      BY <1>7, TypeParts DEF TypeCtx
    <3>. QED
      BY <3>1, <3>2 DEF Moves
  <2>2. Hello(ctx[Server].life, sig) \in FrameSet
    BY <1>3, <1>5, TypeParts, FrameTypes
  <2>3. TypePast' /\ TypeRest'
    BY <1>1, <1>5, <1>7, TypeParts DEF TypePast, TypeRest
  <2>4. <<"HELLO_RECEIVED">> \in Seq(EventTypes)
    BY SomeEvents DEF EventTypes
  <2>5. TypeOK' /\ Reads(Server) /\ Sends(Server, Hello(ctx[Server].life, sig))
    BY <1>1, <1>7, <2>1, <2>2, <2>3, <2>4, ReadAndSend
  <2>. QED
    BY <1>2, <1>4, <1>7, <2>1, <2>5
<1>. QED
  BY <1>6, <1>7 DEF RecvClientHello

LEMMA RecvServerHeaderEffect ==
  ASSUME TypeOK, RecvServerHeader
  PROVE  LET f   == Frame(Client)
             sig == [sk |-> cfg.deviceSk, msg |-> ctx[Client].t_hello]
         IN  /\ TypeOK' /\ f \in FrameSet
             /\ \/ Halts(Client) /\ f.kind # "HEADER" /\ UNCHANGED proofs
                \/ /\ f.kind = "HEADER" /\ Reads(Client) /\ Still(Client)
                   /\ Moves(Client, [ctx[Client] EXCEPT !.state = "AUTH",
                                       !.pull_ready = TRUE, !.header = f.life])
                   /\ UNCHANGED proofs
                \/ /\ f.kind = "HEADER" /\ Reads(Client)
                   /\ cfg.deviceSk # "absent"
                   /\ proofs' = proofs \cup {sig}
                   /\ Sends(Client, Sealed(Client, "AUTH_DEVICE", sig))
                   /\ Moves(Client, [ctx[Client] EXCEPT !.state = "AUTH",
                                       !.pull_ready = TRUE, !.header = f.life,
                                       !.push = @ + 1])
<1>. USE EndFacts
<1>. DEFINE f   == Frame(Client)
            sig == [sk |-> cfg.deviceSk, msg |-> ctx[Client].t_hello]
            r   == [ctx[Client] EXCEPT !.state = "AUTH", !.pull_ready = TRUE,
                                       !.header = f.life]
            rs  == [ctx[Client] EXCEPT !.state = "AUTH", !.pull_ready = TRUE,
                                       !.header = f.life, !.push = @ + 1]
<1>1. Arrives(Client) /\ UNCHANGED <<cfg, signed, accepted, rejected>>
  BY DEF RecvServerHeader
<1>2. f \in FrameSet
  BY <1>1, TypeParts, ArrivesType
<1>3. ctx[Client] \in CtxSet /\ f.life \in Lives
  BY <1>2, TypeParts DEF TypeCtx, FrameSet
<1>4. cfg.deviceSk \in {"own", "other", "absent"}
  BY HandshakeAssumption, TypeParts DEF TypeRest, ConfigSet
<1>5. <<"KX_COMPLETE">> \in Seq(EventTypes)
  BY SomeEvents DEF EventTypes
<1>6. r \in CtxSet /\ rs \in CtxSet
  <2>1. \A t \in Transcript : r \in CtxSet /\ rs \in CtxSet
    BY <1>3, CtxSessionUpdates DEF States
  <2>2. [c |-> f.life, s |-> f.life] \in Transcript
    BY <1>3 DEF Transcript
  <2>. QED
    BY <2>1, <2>2
<1>7. CASE /\ f.kind # "HEADER" /\ Fail(Client, "bad ss header length", <<>>)
           /\ UNCHANGED <<out, proofs>>
  <2>1. TypeOK' /\ Halts(Client)
    BY <1>1, <1>7, FailedRead, SomeEvents DEF Causes, past
  <2>. QED
    BY <1>2, <1>7, <2>1
<1>8. CASE /\ f.kind = "HEADER" /\ QueueEvents(Client, <<"KX_COMPLETE">>)
           /\ ctx' = [ctx EXCEPT ![Client].state = "AUTH",
                                 ![Client].pull_ready = TRUE,
                                 ![Client].header = f.life]
           /\ UNCHANGED <<out, proofs>> /\ UNCHANGED err
  <2>1. Moves(Client, r)
    BY <1>6, <1>8, TypeParts DEF TypeCtx, Moves
  <2>2. TypePast' /\ TypeRest'
    BY <1>1, <1>8, TypeParts DEF TypePast, TypeRest
  <2>3. TypeOK' /\ Reads(Client) /\ Still(Client)
    BY <1>1, <1>5, <1>8, <2>1, <2>2, ReadOnly
  <2>. QED
    BY <1>2, <1>8, <2>1, <2>3
<1>9. CASE /\ f.kind = "HEADER" /\ QueueEvents(Client, <<"KX_COMPLETE">>)
           /\ cfg.deviceSk # "absent"
           /\ ctx' = [ctx EXCEPT ![Client].state = "AUTH",
                                 ![Client].pull_ready = TRUE,
                                 ![Client].header = f.life,
                                 ![Client].push = @ + 1]
           /\ out' = [out EXCEPT ![Client] =
                        Append(@, Sealed(Client, "AUTH_DEVICE", sig))]
           /\ proofs' = proofs \cup {sig}
           /\ UNCHANGED err
  <2>1. Moves(Client, rs)
    BY <1>6, <1>9, TypeParts DEF TypeCtx, Moves
  <2>2. sig \in SigSet
    BY <1>3, <1>4, <1>9 DEF SigSet, CtxSet
  <2>3. TypePast' /\ TypeRest'
    BY <1>1, <1>9, <2>2, TypeParts DEF TypePast, TypeRest
  <2>4. Sealed(Client, "AUTH_DEVICE", sig) \in FrameSet
    BY <2>2, TypeParts, FrameTypes DEF Pdus
  <2>5. TypeOK' /\ Reads(Client) /\ Sends(Client, Sealed(Client, "AUTH_DEVICE", sig))
    BY <1>1, <1>5, <1>9, <2>1, <2>3, <2>4, ReadAndSend
  <2>. QED
    BY <1>2, <1>9, <2>1, <2>5
<1>. QED
  BY <1>7, <1>8, <1>9 DEF RecvServerHeader

LEMMA RecvClientHeaderEffect ==
  ASSUME TypeOK, RecvClientHeader
  PROVE  LET f == Frame(Server)
             h == Header(ctx[Server].life, ctx[Server].t_hello)
         IN  /\ TypeOK' /\ f \in FrameSet
             /\ \/ Halts(Server) /\ f.kind # "HEADER"
                \/ /\ f.kind = "HEADER" /\ Reads(Server) /\ Sends(Server, h)
                   /\ Moves(Server, [ctx[Server] EXCEPT !.state = "AUTH",
                                       !.pull_ready = TRUE, !.header = f.life,
                                       !.push_ready = TRUE])
<1>. USE EndFacts
<1>. DEFINE f == Frame(Server)
            h == Header(ctx[Server].life, ctx[Server].t_hello)
            r == [ctx[Server] EXCEPT !.state = "AUTH", !.pull_ready = TRUE,
                                     !.header = f.life, !.push_ready = TRUE]
<1>1. Arrives(Server) /\ UNCHANGED <<cfg, past>>
  BY DEF RecvClientHeader
<1>2. f \in FrameSet
  BY <1>1, TypeParts, ArrivesType
<1>3. ctx[Server] \in CtxSet /\ f.life \in Lives
  BY <1>2, TypeParts DEF TypeCtx, FrameSet
<1>4. CASE f.kind # "HEADER" /\ Fail(Server, "bad ss header length", <<>>) /\ UNCHANGED out
  <2>1. TypeOK' /\ Halts(Server)
    BY <1>1, <1>4, FailedRead, SomeEvents DEF Causes
  <2>. QED
    BY <1>2, <1>4, <2>1
<1>5. CASE /\ f.kind = "HEADER"
           /\ ctx' = [ctx EXCEPT ![Server].state = "AUTH",
                                 ![Server].pull_ready = TRUE,
                                 ![Server].header = f.life,
                                 ![Server].push_ready = TRUE]
           /\ out' = [out EXCEPT ![Server] = Append(@, h)]
           /\ QueueEvents(Server, <<"KX_COMPLETE">>)
           /\ UNCHANGED err
  <2>1. Moves(Server, r)
    <3>1. \A t \in Transcript : r \in CtxSet
      BY <1>3, CtxSessionUpdates DEF States
    <3>2. [c |-> f.life, s |-> f.life] \in Transcript
      BY <1>3 DEF Transcript
    <3>3. ctx' = [ctx EXCEPT ![Server] = r]
      BY <1>5, TypeParts DEF TypeCtx
    <3>. QED
      BY <3>1, <3>2, <3>3 DEF Moves
  <2>2. h \in FrameSet
    BY <1>3, TypeParts, FrameTypes DEF CtxSet
  <2>3. TypePast' /\ TypeRest'
    BY <1>1, <1>5, TypeParts DEF TypePast, TypeRest, past
  <2>4. <<"KX_COMPLETE">> \in Seq(EventTypes)
    BY SomeEvents DEF EventTypes
  <2>5. TypeOK' /\ Reads(Server) /\ Sends(Server, h)
    BY <1>1, <1>5, <2>1, <2>2, <2>3, <2>4, ReadAndSend
  <2>. QED
    BY <1>2, <1>5, <2>1, <2>5
<1>. QED
  BY <1>4, <1>5 DEF RecvClientHeader

LEMMA RecvAuthDeviceEffect ==
  ASSUME TypeOK, RecvAuthDevice
  PROVE  LET f    == Frame(Server)
             good == Verify(f.sig, ctx[Server].t_hello)
         IN  /\ TypeOK' /\ f \in FrameSet /\ Reads(Server)
             /\ \/ /\ good /\ Still(Server)
                   /\ Moves(Server, [ctx[Server] EXCEPT !.pull = @ + 1,
                                       !.auth_awaiting_decide = TRUE])
                \/ /\ ~good /\ Sends(Server, Sealed(Server, "AUTH_FAIL", NoSig))
                   /\ Moves(Server, [ctx[Server] EXCEPT !.pull = @ + 1, !.push = @ + 1,
                                       !.state = "ERROR"])
<1>. USE EndFacts
<1>. DEFINE f    == Frame(Server)
            good == Verify(f.sig, ctx[Server].t_hello)
            ra   == [ctx[Server] EXCEPT !.pull = @ + 1, !.auth_awaiting_decide = TRUE]
            rf   == [ctx[Server] EXCEPT !.pull = @ + 1, !.push = @ + 1, !.state = "ERROR"]
<1>1. Arrives(Server) /\ UNCHANGED <<cfg, past>>
  BY DEF RecvAuthDevice, Unsealed
<1>2. f \in FrameSet
  BY <1>1, TypeParts, ArrivesType
<1>3. ctx[Server] \in CtxSet /\ ra \in CtxSet /\ rf \in CtxSet
  BY TypeParts, CtxUpdates DEF TypeCtx, States
<1>4. TypePast'
  BY <1>1, TypeParts DEF TypePast, past
<1>5. CASE /\ good
           /\ ctx' = [ctx EXCEPT ![Server].pull = @ + 1,
                                 ![Server].auth_awaiting_decide = TRUE]
           /\ QueueEvents(Server, <<"AUTH_DEVICE">>)
           /\ UNCHANGED <<out, err>>
  <2>1. Moves(Server, ra)
    BY <1>3, <1>5, TypeParts DEF TypeCtx, Moves
  <2>2. TypeRest' /\ <<"AUTH_DEVICE">> \in Seq(EventTypes)
    BY <1>1, <1>5, TypeParts, SomeEvents DEF TypeRest, EventTypes
  <2>3. TypeOK' /\ Reads(Server) /\ Still(Server)
    BY <1>1, <1>4, <1>5, <2>1, <2>2, ReadOnly
  <2>. QED
    BY <1>2, <1>5, <2>1, <2>3
<1>6. CASE /\ ~good
           /\ out' = [out EXCEPT ![Server] =
                        Append(@, Sealed(Server, "AUTH_FAIL", NoSig))]
           /\ ctx' = [ctx EXCEPT ![Server].pull = @ + 1, ![Server].push = @ + 1,
                                 ![Server].state = "ERROR"]
           /\ err' = [err EXCEPT ![Server] = "AUTH_DEVICE bad signature"]
           /\ QueueEvents(Server, <<"AUTH_FAILED", "ERROR">>)
  <2>1. Moves(Server, rf)
    BY <1>3, <1>6, TypeParts DEF TypeCtx, Moves
  <2>2. TypeRest'
    BY <1>1, <1>6, TypeParts DEF TypeRest, Causes
  <2>3. <<"AUTH_FAILED", "ERROR">> \in Seq(EventTypes)
    BY SomeEvents DEF EventTypes
  <2>4. Sealed(Server, "AUTH_FAIL", NoSig) \in FrameSet
    BY TypeParts, FrameTypes DEF Pdus
  <2>5. TypeOK' /\ Reads(Server) /\ Sends(Server, Sealed(Server, "AUTH_FAIL", NoSig))
    BY <1>1, <1>4, <1>6, <2>1, <2>2, <2>3, <2>4, ReadAndSend
  <2>. QED
    BY <1>2, <1>6, <2>1, <2>5
<1>. QED
  BY <1>5, <1>6 DEF RecvAuthDevice

LEMMA RecvAuthOkEffect ==
  ASSUME TypeOK, RecvAuthOk
  PROVE  /\ TypeOK' /\ Frame(Client) \in FrameSet
         /\ Reads(Client) /\ Still(Client)
         /\ Moves(Client, [ctx[Client] EXCEPT !.pull = @ + 1, !.state = "READY",
                                              !.auth_complete = TRUE])
<1>. USE EndFacts
<1>. DEFINE r == [ctx[Client] EXCEPT !.pull = @ + 1, !.state = "READY", !.auth_complete = TRUE]
<1>1. Arrives(Client) /\ UNCHANGED <<cfg, out, err, past>>
  BY DEF RecvAuthOk, Unsealed
<1>2. r \in CtxSet
  BY TypeParts, CtxUpdates DEF TypeCtx, States
<1>3. Moves(Client, r)
  BY <1>2, TypeParts DEF RecvAuthOk, TypeCtx, Moves
<1>4. TypePast' /\ TypeRest'
  BY <1>1, TypeParts DEF TypePast, TypeRest, past
<1>5. <<"AUTHENTICATED">> \in Seq(EventTypes) /\ QueueEvents(Client, <<"AUTHENTICATED">>)
  BY SomeEvents DEF EventTypes, RecvAuthOk
<1>6. TypeOK' /\ Reads(Client) /\ Still(Client)
  BY <1>1, <1>3, <1>4, <1>5, ReadOnly
<1>. QED
  BY <1>1, <1>3, <1>6, TypeParts, ArrivesType

LEMMA AuthAcceptEffect ==
  ASSUME TypeOK, PhaseInv, AuthAccept
  PROVE  /\ TypeOK'
         /\ Sends(Server, Sealed(Server, "AUTH_OK", NoSig)) /\ Still(Client)
         /\ Moves(Server, [ctx[Server] EXCEPT !.auth_awaiting_decide = FALSE,
                             !.auth_decided = TRUE, !.auth_complete = TRUE,
                             !.push = @ + 1, !.state = "READY"])
<1>. USE EndFacts
<1>. DEFINE r == [ctx[Server] EXCEPT !.auth_awaiting_decide = FALSE,
                             !.auth_decided = TRUE, !.auth_complete = TRUE,
                             !.push = @ + 1, !.state = "READY"]
<1>1. Sealed(Server, "AUTH_OK", NoSig) \in FrameSet
  BY TypeParts, FrameTypes DEF Pdus
<1>2. Moves(Server, r)
  <2>1. r \in CtxSet
    BY TypeParts, CtxUpdates DEF TypeCtx, States
  <2>2. ctx' = [ctx EXCEPT ![Server] = r]
    BY TypeParts DEF AuthAccept, TypeCtx
  <2>. QED
    BY <2>1, <2>2 DEF Moves
<1>3. TypeHost'
  BY TypeParts, SomeEvents, QueueType DEF AuthAccept, EventTypes
<1>4. TypePast' /\ TypeRest'
  <2>1. ctx[Server].t_hello \in Transcript
    <3>1. ctx[Server].t_hello \in Transcript \cup {None}
      BY TypeParts DEF TypeCtx, CtxSet
    <3>. QED
      BY <3>1 DEF AuthAccept, PhaseInv, PhaseOK, InSession, Running
  <2>. QED
    BY <2>1, TypeParts DEF AuthAccept, TypePast, TypeRest
<1>5. TypeOK' /\ Sends(Server, Sealed(Server, "AUTH_OK", NoSig)) /\ Still(Client)
  BY <1>1, <1>2, <1>3, <1>4, SendOnly DEF AuthAccept
<1>. QED
  BY <1>2, <1>5

LEMMA AuthRejectEffect ==
  ASSUME TypeOK, PhaseInv, AuthReject
  PROVE  /\ TypeOK'
         /\ Sends(Server, Sealed(Server, "AUTH_FAIL", NoSig)) /\ Still(Client)
         /\ Moves(Server, [ctx[Server] EXCEPT !.auth_awaiting_decide = FALSE,
                             !.auth_decided = TRUE,
                             !.push = @ + 1, !.state = "ERROR"])
<1>. USE EndFacts
<1>. DEFINE r == [ctx[Server] EXCEPT !.auth_awaiting_decide = FALSE,
                             !.auth_decided = TRUE,
                             !.push = @ + 1, !.state = "ERROR"]
<1>1. Sealed(Server, "AUTH_FAIL", NoSig) \in FrameSet
  BY TypeParts, FrameTypes DEF Pdus
<1>2. Moves(Server, r)
  <2>1. r \in CtxSet
    BY TypeParts, CtxUpdates DEF TypeCtx, States
  <2>2. ctx' = [ctx EXCEPT ![Server] = r]
    BY TypeParts DEF AuthReject, TypeCtx
  <2>. QED
    BY <2>1, <2>2 DEF Moves
<1>3. TypeHost'
  BY TypeParts, SomeEvents, QueueType DEF AuthReject, EventTypes
<1>4. TypePast' /\ TypeRest'
  <2>1. ctx[Server].t_hello \in Transcript
    <3>1. ctx[Server].t_hello \in Transcript \cup {None}
      BY TypeParts DEF TypeCtx, CtxSet
    <3>. QED
      BY <3>1 DEF AuthReject, PhaseInv, PhaseOK, InSession, Running
  <2>. QED
    BY <2>1, TypeParts DEF AuthReject, TypePast, TypeRest, Causes
<1>5. TypeOK' /\ Sends(Server, Sealed(Server, "AUTH_FAIL", NoSig)) /\ Still(Client)
  BY <1>1, <1>2, <1>3, <1>4, SendOnly DEF AuthReject
<1>. QED
  BY <1>2, <1>5

LEMMA DisconnectEffect ==
  ASSUME TypeOK, NEW e \in Ends, Disconnect(e)
  PROVE  /\ TypeOK' /\ UNCHANGED <<err, past>>
         /\ \/ Still(e) /\ Still(Peer(e)) /\ Stops(e)
            \/ /\ ctx[e].state \in {"AUTH", "READY"} /\ ctx[e].push_ready
               /\ Sends(e, Sealed(e, "DISCONNECT", NoSig)) /\ Still(Peer(e))
               /\ Moves(e, [ctx[e] EXCEPT !.push = @ + 1, !.state = "DRAINING"])
<1>1. TypeHost' /\ TypePast' /\ TypeRest' /\ UNCHANGED wire
  BY TypeParts DEF Disconnect, TypeHost, TypePast, TypeRest, host, past
<1>2. CASE /\ ctx[e].push_ready /\ ctx[e].state \in {"AUTH", "READY"}
           /\ out' = [out EXCEPT ![e] = Append(@, Sealed(e, "DISCONNECT", NoSig))]
           /\ ctx' = [ctx EXCEPT ![e].push = @ + 1, ![e].state = "DRAINING"]
  <2>. DEFINE r == [ctx[e] EXCEPT !.push = @ + 1, !.state = "DRAINING"]
  <2>1. Sealed(e, "DISCONNECT", NoSig) \in FrameSet
    BY TypeParts, FrameTypes DEF Pdus
  <2>2. Moves(e, r)
    <3>1. r \in CtxSet
      BY TypeParts, CtxUpdates DEF TypeCtx, States
    <3>2. ctx' = [ctx EXCEPT ![e] = r]
      BY <1>2, TypeParts DEF TypeCtx
    <3>. QED
      BY <3>1, <3>2 DEF Moves
  <2>3. TypeOK' /\ Sends(e, Sealed(e, "DISCONNECT", NoSig)) /\ Still(Peer(e))
    BY <1>1, <1>2, <2>1, <2>2, SendOnly
  <2>. QED
    BY <1>2, <2>2, <2>3 DEF Disconnect
<1>3. CASE ctx' = [ctx EXCEPT ![e].state = "CLOSED"] /\ UNCHANGED out
  <2>1. Stops(e)
    BY <1>3, TypeParts, StopsIf
  <2>2. TypeCtx'
    BY <2>1, TypeParts, MovesFacts DEF Stops
  <2>3. Still(e) /\ Still(Peer(e)) /\ TypeIO'
    BY <1>1, <1>3, TypeParts DEF Still, Frames, TypeIO
  <2>. QED
    BY <1>1, <2>1, <2>2, <2>3, TypeParts DEF Disconnect
<1>. QED
  BY <1>2, <1>3 DEF Disconnect

\* A new life: everything unsent is dropped, what is on the wire stays.
LEMMA ResetEffect ==
  ASSUME TypeOK, NEW e \in Ends, Reset(e)
  PROVE  /\ TypeOK' /\ UNCHANGED past
         /\ ctx[e].life + 1 \in Lives
         /\ Moves(e, Fresh(ctx[e].life + 1))
         /\ Still(Peer(e))
         /\ Frames(e)' = wire[e] \o FirstOutput(e, ctx[e].life + 1)
<1>1. ctx[e].life + 1 \in Lives
  BY HandshakeAssumption, TypeParts DEF Reset, TypeCtx, CtxSet, Lives
<1>2. Moves(e, Fresh(ctx[e].life + 1))
  BY <1>1, TypeParts, FrameTypes DEF Reset, Moves
<1>3. TypeCtx'
  BY <1>2, TypeParts, MovesFacts
<1>4. TypeIO'
  BY <1>1, TypeParts, FrameTypes DEF Reset, TypeIO
<1>5. TypeHost'
  <2>1. <<>> \in Seq(EventTypes) /\ Len(<<>>) = 0 /\ 0 <= EventCap
    BY HandshakeAssumption, EmptySeq
  <2>2. evq' \in [Ends -> Seq(EventTypes)] /\ \A x \in Ends : Len(evq'[x]) <= EventCap
    BY <2>1, TypeParts DEF Reset, TypeHost
  <2>3. told' \in BOOLEAN /\ evLost' \in [Ends -> SUBSET EventTypes]
    BY TypeParts DEF Reset, TypeHost
  <2>. QED
    BY <2>2, <2>3 DEF TypeHost
<1>6. TypePast' /\ TypeRest'
  BY TypeParts DEF Reset, TypePast, TypeRest, Causes, past
<1>7. Still(Peer(e)) /\ Frames(e)' = wire[e] \o FirstOutput(e, ctx[e].life + 1)
  BY EndFacts, TypeParts DEF Reset, Still, Frames, TypeIO
<1>. QED
  BY <1>1, <1>2, <1>3, <1>4, <1>5, <1>6, <1>7, TypeParts DEF Reset

LEMMA ReconnectEffect ==
  ASSUME TypeOK, Reconnect
  PROVE  /\ TypeOK' /\ UNCHANGED past
         /\ \A e \in Ends : /\ ctx[e].life + 1 \in Lives
                            /\ ctx'[e] = Fresh(ctx[e].life + 1)
                            /\ Frames(e)' = FirstOutput(e, ctx[e].life + 1)
<1>1. \A e \in Ends : ctx[e].life + 1 \in Lives /\ ctx'[e] = Fresh(ctx[e].life + 1)
  BY HandshakeAssumption, TypeParts DEF Reconnect, TypeCtx, CtxSet, Lives
<1>2. TypeCtx' /\ TypeIO'
  BY <1>1, EmptySeq, TypeParts, FrameTypes DEF Reconnect, TypeCtx, TypeIO
<1>3. TypeHost'
  <2>1. <<>> \in Seq(EventTypes) /\ Len(<<>>) = 0 /\ 0 <= EventCap
    BY HandshakeAssumption, EmptySeq
  <2>. QED
    BY <2>1, TypeParts DEF Reconnect, TypeHost
<1>4. TypePast' /\ TypeRest'
  BY TypeParts DEF Reconnect, TypePast, TypeRest, Causes, past
<1>5. ASSUME NEW e \in Ends
      PROVE  Frames(e)' = FirstOutput(e, ctx[e].life + 1)
  <2>1. Frames(e)' = <<>> \o FirstOutput(e, ctx[e].life + 1)
    BY DEF Reconnect, Frames
  <2>2. FirstOutput(e, ctx[e].life + 1) \in Seq(FrameSet)
    BY <1>1, TypeParts, FrameTypes
  <2>. QED
    BY <2>1, <2>2, ConcatEmptySeq
<1>. QED
  BY <1>1, <1>2, <1>3, <1>4, <1>5, TypeParts DEF Reconnect

\* Events drained and bytes handed over change nothing but the queues.
LEMMA TransportEffect ==
  ASSUME TypeOK, NEW e \in Ends, NextEvent(e) \/ GetOutput(e)
  PROVE  TypeOK' /\ UNCHANGED <<cfg, ctx, err, past>> /\ \A x \in Ends : Still(x)
<1>1. UNCHANGED <<cfg, ctx, err, past>>
  BY DEF NextEvent, GetOutput
<1>2. TypeCtx' /\ TypePast' /\ TypeRest'
  BY <1>1, TypeParts DEF TypeCtx, TypePast, TypeRest, past
<1>3. CASE NextEvent(e)
  <2>1. TypeIO' /\ \A x \in Ends : Still(x)
    BY <1>3, TypeParts DEF NextEvent, TypeIO, Still, Frames
  <2>2. /\ Tail(evq[e]) \in Seq(EventTypes) /\ Len(Tail(evq[e])) <= EventCap
    <3>1. evq[e] \in Seq(EventTypes) /\ evq[e] # <<>> /\ Len(evq[e]) <= EventCap
      BY <1>3, TypeParts DEF NextEvent, TypeHost
    <3>. QED
      BY <3>1, HandshakeAssumption, HeadTailProperties, LenProperties
  <2>3. evq' \in [Ends -> Seq(EventTypes)] /\ \A x \in Ends : Len(evq'[x]) <= EventCap
    BY <1>3, <2>2, TypeParts DEF NextEvent, TypeHost
  <2>4. told' \in BOOLEAN /\ evLost' \in [Ends -> SUBSET EventTypes]
    BY <1>3, TypeParts DEF NextEvent, TypeHost
  <2>. QED
    BY <1>1, <1>2, <2>1, <2>3, <2>4, TypeParts DEF TypeHost
<1>4. CASE GetOutput(e)
  <2>1. TypeIO' /\ \A x \in Ends : Still(x)
    BY <1>4, TypeParts, HandedOver
  <2>2. TypeHost'
    BY <1>4, TypeParts DEF GetOutput, host, TypeHost
  <2>. QED
    BY <1>1, <1>2, <2>1, <2>2, TypeParts
<1>. QED
  BY <1>3, <1>4

----------------------------------------------------------------------------
(* Streams: appending, taking and cutting *)

LEMMA FrameFacts ==
  ASSUME NEW f \in FrameSet
  PROVE  /\ f.life \in Nat /\ Place(f) \in Nat
         /\ f.kind = "HELLO" <=> Place(f) = 0
         /\ f.kind = "HEADER" <=> Place(f) = 1
         /\ f.kind = "CIPHER" => f.seq \in Nat /\ Place(f) = f.seq + 2
BY HandshakeAssumption DEF FrameSet, Lives, Place

LEMMA PlaceArith ==
  ASSUME NEW v \in Nat, NEW life \in Nat, NEW p \in Nat, NEW k \in Nat, NEW n \in Nat,
         NEW i \in Nat, v <= life, v = life => p + 1 + k = n + i, v < life => i + n <= k
  PROVE  /\ v = life => p + 1 + (k + 1) = (n + 1) + i /\ n = p + ((k + 1) - i)
         /\ v < life => i + (n + 1) <= k + 1 /\ n < (k + 1) - i
OBVIOUS

\* F and one more frame.
LEMMA StreamAppend ==
  ASSUME NEW F \in Seq(FrameSet), NEW f \in FrameSet, NEW n \in Nat,
         Ordered(F), SentUpTo(F, f.life, n), Place(f) = n
  PROVE  /\ Ordered(Append(F, f))
         /\ SentUpTo(Append(F, f), f.life, n + 1)
         /\ \A l, r \in Nat :
              ReadUpTo(F, l, r) /\ Balanced(F, f.life, n, l, r) =>
                /\ ReadUpTo(Append(F, f), l, r)
                /\ Balanced(Append(F, f), f.life, n + 1, l, r)
<1>. DEFINE G == Append(F, f)
            k == Len(F)
<1>1. /\ k \in Nat /\ DOMAIN F = 1 .. k /\ DOMAIN G = 1 .. k + 1 /\ Len(G) = k + 1
      /\ \A i \in 1 .. k : G[i] = F[i]
      /\ G[k + 1] = f
  BY AppendProperties, LenProperties
<1>2. \A i \in 1 .. k : F[i] \in FrameSet /\ F[i].life \in Nat /\ Place(F[i]) \in Nat
  BY <1>1, ElementOfSeq, FrameFacts
<1>3. f.life \in Nat
  BY FrameFacts
<1>. HIDE DEF G, k
<1>4. Ordered(G)
  <2>. SUFFICES ASSUME NEW i \in 1 .. k + 1, NEW j \in 1 .. k + 1, i < j
                PROVE  /\ G[i].life <= G[j].life
                       /\ G[i].life = G[j].life => Place(G[j]) = Place(G[i]) + (j - i)
                       /\ G[i].life < G[j].life => Place(G[j]) < j - i
    BY <1>1 DEF Ordered
  <2>1. CASE j \in 1 .. k
    BY <1>1, <2>1 DEF Ordered
  <2>2. CASE j = k + 1
    <3>1. i \in 1 .. k /\ G[i] = F[i] /\ G[j] = f
      BY <1>1, <2>2
    <3>2. /\ F[i].life <= f.life
          /\ F[i].life = f.life => Place(F[i]) + 1 + k = n + i
          /\ F[i].life < f.life => i + n <= k
      BY <1>1, <3>1 DEF SentUpTo, k
    <3>3. F[i].life \in Nat /\ Place(F[i]) \in Nat
      BY <1>2, <3>1
    <3>. QED
      BY <1>1, <1>3, <2>2, <3>1, <3>2, <3>3, PlaceArith, SMTT(30)
  <2>. QED
    BY <1>1, <2>1, <2>2
<1>5. SentUpTo(G, f.life, n + 1)
  <2>. SUFFICES ASSUME NEW i \in 1 .. k + 1
                PROVE  /\ G[i].life <= f.life
                       /\ G[i].life = f.life => Place(G[i]) + 1 + (k + 1) = (n + 1) + i
                       /\ G[i].life < f.life => i + (n + 1) <= k + 1
    BY <1>1 DEF SentUpTo
  <2>1. CASE i \in 1 .. k
    <3>1. /\ F[i].life <= f.life
          /\ F[i].life = f.life => Place(F[i]) + 1 + k = n + i
          /\ F[i].life < f.life => i + n <= k
      BY <1>1, <2>1 DEF SentUpTo, k
    <3>2. F[i].life \in Nat /\ Place(F[i]) \in Nat /\ G[i] = F[i]
      BY <1>1, <1>2, <2>1
    <3>3. i \in Nat
      BY <1>1
    <3>4. /\ F[i].life = f.life => Place(F[i]) + 1 + (k + 1) = (n + 1) + i
          /\ F[i].life < f.life => i + (n + 1) <= k + 1
      BY <1>1, <1>3, <3>1, <3>2, <3>3, PlaceArith
    <3>. QED
      BY <3>1, <3>2, <3>4
  <2>2. CASE i = k + 1
    BY <1>1, <1>3, <2>2
  <2>. QED
    BY <1>1, <2>1, <2>2
<1>6. ASSUME NEW l \in Nat, NEW r \in Nat, ReadUpTo(F, l, r), Balanced(F, f.life, n, l, r)
      PROVE  ReadUpTo(G, l, r) /\ Balanced(G, f.life, n + 1, l, r)
  <2>1. l <= f.life /\ (l = f.life => k + r = n) /\ (l < f.life => n <= k)
    BY <1>6 DEF Balanced, k
  <2>2. ASSUME NEW i \in 1 .. k + 1
        PROVE  /\ l <= G[i].life
               /\ G[i].life = l => Place(G[i]) + 1 = r + i
               /\ l < G[i].life => Place(G[i]) < i
    <3>1. CASE i \in 1 .. k
      BY <1>1, <1>6, <3>1 DEF ReadUpTo
    <3>2. CASE i = k + 1
      BY <1>1, <1>3, <2>1, <3>2
    <3>. QED
      BY <1>1, <3>1, <3>2
  <2>3. ReadUpTo(G, l, r)
    BY <1>1, <2>2 DEF ReadUpTo
  <2>4. Balanced(G, f.life, n + 1, l, r)
    BY <1>1, <1>3, <2>1 DEF Balanced
  <2>. QED
    BY <2>3, <2>4
<1>. QED
  BY <1>4, <1>5, <1>6 DEF G

\* F without its first frame.
LEMMA StreamTail ==
  ASSUME NEW F \in Seq(FrameSet), F # <<>>, NEW n \in Nat, NEW life \in Nat,
         Ordered(F), SentUpTo(F, life, n)
  PROVE  /\ Ordered(Tail(F))
         /\ SentUpTo(Tail(F), life, n)
         /\ \A r \in Nat :
              ReadUpTo(F, F[1].life, r) /\ Balanced(F, life, n, F[1].life, r) =>
                /\ ReadUpTo(Tail(F), F[1].life, r + 1)
                /\ Balanced(Tail(F), life, n, F[1].life, r + 1)
         /\ F[1].kind = "HELLO" =>
              /\ ReadUpTo(Tail(F), F[1].life, 1)
              /\ Balanced(Tail(F), life, n, F[1].life, 1)
<1>. DEFINE G == Tail(F)
            k == Len(F)
            l == F[1].life
<1>1. /\ k \in Nat /\ k > 0 /\ DOMAIN F = 1 .. k /\ DOMAIN G = 1 .. k - 1 /\ Len(G) = k - 1
      /\ \A i \in 1 .. k - 1 : G[i] = F[i + 1]
  BY HeadTailProperties, LenProperties, EmptySeq
<1>2. \A i \in 1 .. k : F[i] \in FrameSet /\ F[i].life \in Nat /\ Place(F[i]) \in Nat
  BY <1>1, ElementOfSeq, FrameFacts
<1>3. 1 \in 1 .. k /\ l \in Nat
  BY <1>1, <1>2
<1>4. \A i, j \in 1 .. k : i < j =>
        /\ F[i].life <= F[j].life
        /\ F[i].life = F[j].life => Place(F[j]) = Place(F[i]) + (j - i)
        /\ F[i].life < F[j].life => Place(F[j]) < j - i
  BY <1>1 DEF Ordered
<1>5. \A i \in 1 .. k :
        /\ F[i].life <= life
        /\ F[i].life = life => Place(F[i]) + 1 + k = n + i
        /\ F[i].life < life => i + n <= k
  BY <1>1 DEF SentUpTo
<1>6. \A i \in 1 .. k - 1 : i + 1 \in 1 .. k /\ 1 < i + 1 /\ G[i] = F[i + 1]
  BY <1>1
<1>. HIDE DEF G, k, l
<1>7. Ordered(G)
  <2>. SUFFICES ASSUME NEW i \in 1 .. k - 1, NEW j \in 1 .. k - 1, i < j
                PROVE  /\ G[i].life <= G[j].life
                       /\ G[i].life = G[j].life => Place(G[j]) = Place(G[i]) + (j - i)
                       /\ G[i].life < G[j].life => Place(G[j]) < j - i
    BY <1>1 DEF Ordered
  <2>1. i + 1 < j + 1 /\ (j + 1) - (i + 1) = j - i
    BY <1>1
  <2>. QED
    BY <1>4, <1>6, <2>1
<1>8. SentUpTo(G, life, n)
  <2>. SUFFICES ASSUME NEW i \in 1 .. k - 1
                PROVE  /\ G[i].life <= life
                       /\ G[i].life = life => Place(G[i]) + 1 + (k - 1) = n + i
                       /\ G[i].life < life => i + n <= k - 1
    BY <1>1 DEF SentUpTo
  <2>1. /\ F[i + 1].life <= life
        /\ F[i + 1].life = life => Place(F[i + 1]) + 1 + k = n + (i + 1)
        /\ F[i + 1].life < life => (i + 1) + n <= k
    BY <1>5, <1>6
  <2>2. F[i + 1].life \in Nat /\ Place(F[i + 1]) \in Nat /\ i \in Nat /\ G[i] = F[i + 1]
    BY <1>1, <1>2, <1>6
  <2>3. ASSUME NEW v \in Nat, NEW q \in Nat, v = life => q + 1 + k = n + (i + 1),
               v < life => (i + 1) + n <= k
        PROVE  /\ v = life => q + 1 + (k - 1) = n + i
               /\ v < life => i + n <= k - 1
    BY <1>1, <2>2, <2>3
  <2>. QED
    BY <2>1, <2>2, <2>3
<1>9. ASSUME NEW r \in Nat, ReadUpTo(F, l, r), Balanced(F, life, n, l, r)
      PROVE  ReadUpTo(G, l, r + 1) /\ Balanced(G, life, n, l, r + 1)
  <2>1. ASSUME NEW i \in 1 .. k - 1
        PROVE  /\ l <= G[i].life
               /\ G[i].life = l => Place(G[i]) + 1 = (r + 1) + i
               /\ l < G[i].life => Place(G[i]) < i
    <3>1. /\ l <= F[i + 1].life
          /\ F[i + 1].life = l => Place(F[i + 1]) + 1 = r + (i + 1)
      BY <1>1, <1>6, <1>9 DEF ReadUpTo
    <3>2. l < F[i + 1].life => Place(F[i + 1]) < (i + 1) - 1
      BY <1>3, <1>4, <1>6 DEF l
    <3>3. F[i + 1].life \in Nat /\ Place(F[i + 1]) \in Nat /\ i \in Nat /\ G[i] = F[i + 1]
      BY <1>1, <1>2, <1>6
    <3>. QED
      BY <1>3, <3>1, <3>2, <3>3, SMTT(30)
  <2>2. l <= life /\ (l = life => k + r = n)
    BY <1>9 DEF Balanced, k
  <2>3. l < life => 1 + n <= k
    BY <1>3, <1>5 DEF l
  <2>. QED
    BY <1>1, <1>3, <2>1, <2>2, <2>3 DEF ReadUpTo, Balanced
<1>10. ASSUME F[1].kind = "HELLO"
       PROVE  ReadUpTo(G, l, 1) /\ Balanced(G, life, n, l, 1)
  <2>1. Place(F[1]) = 0
    BY <1>2, <1>3, <1>10, FrameFacts
  <2>2. ASSUME NEW i \in 1 .. k - 1
        PROVE  /\ l <= G[i].life
               /\ G[i].life = l => Place(G[i]) + 1 = 1 + i
               /\ l < G[i].life => Place(G[i]) < i
    <3>1. /\ l <= F[i + 1].life
          /\ F[i + 1].life = l => Place(F[i + 1]) = 0 + ((i + 1) - 1)
          /\ l < F[i + 1].life => Place(F[i + 1]) < (i + 1) - 1
      BY <1>3, <1>4, <1>6, <2>1 DEF l
    <3>. QED
      BY <1>2, <1>3, <1>6, <3>1
  <2>3. /\ l <= life
        /\ l = life => 0 + 1 + k = n + 1
        /\ l < life => 1 + n <= k
    BY <1>3, <1>5, <2>1 DEF l
  <2>. QED
    BY <1>1, <1>3, <2>2, <2>3 DEF ReadUpTo, Balanced
<1>. QED
  BY <1>7, <1>8, <1>9, <1>10 DEF G, l

\* What remains of a stream when its sender starts a new life: a prefix.
LEMMA StreamCut ==
  ASSUME NEW w \in Seq(FrameSet), NEW o \in Seq(FrameSet), NEW n \in Nat,
         NEW life \in Nat, Ordered(w \o o), SentUpTo(w \o o, life, n)
  PROVE  /\ Ordered(w)
         /\ SentUpTo(w, life + 1, 0)
         /\ \A l, r \in Nat :
              ReadUpTo(w \o o, l, r) /\ Balanced(w \o o, life, n, l, r) =>
                ReadUpTo(w, l, r) /\ Balanced(w, life + 1, 0, l, r)
<1>. DEFINE F == w \o o
<1>1. /\ Len(w) \in Nat /\ Len(o) \in Nat /\ DOMAIN w = 1 .. Len(w)
      /\ F \in Seq(FrameSet) /\ Len(F) = Len(w) + Len(o) /\ DOMAIN F = 1 .. Len(F)
      /\ \A i \in 1 .. Len(w) : i \in DOMAIN F /\ F[i] = w[i]
  BY ConcatProperties, LenProperties
<1>2. \A i \in 1 .. Len(w) : w[i].life \in Nat
  BY <1>1, ElementOfSeq, FrameFacts
<1>. HIDE DEF F
<1>3. Ordered(F) /\ SentUpTo(F, life, n)
  BY DEF F
<1>4. Ordered(w)
  BY <1>1, <1>3 DEF Ordered
<1>5. \A i \in 1 .. Len(w) : w[i].life <= life
  BY <1>1, <1>3 DEF SentUpTo
<1>6. SentUpTo(w, life + 1, 0)
  BY <1>1, <1>2, <1>5 DEF SentUpTo
<1>7. ASSUME NEW l \in Nat, NEW r \in Nat, ReadUpTo(F, l, r), Balanced(F, life, n, l, r)
      PROVE  ReadUpTo(w, l, r) /\ Balanced(w, life + 1, 0, l, r)
  BY <1>1, <1>7 DEF ReadUpTo, Balanced
<1>. QED
  BY <1>4, <1>6, <1>7 DEF F

----------------------------------------------------------------------------
(* Streams: one step of one direction *)

LEMMA CountTypes ==
  ASSUME TypeCtx, NEW e \in Ends
  PROVE  /\ SentCount(e) \in Nat /\ ReadCount(e) \in Nat
         /\ PeerLife(e) \in Nat /\ OwnLife(e) \in Nat /\ ctx[e].life \in Nat
<1>1. ctx[e] \in CtxSet
  BY DEF TypeCtx
<1>2. /\ ctx[e].push \in Nat /\ ctx[e].pull \in Nat /\ ctx[e].life \in Nat
      /\ ctx[e].t_hello.c \in Nat /\ ctx[e].t_hello.s \in Nat
  BY <1>1, HandshakeAssumption DEF CtxSet, Transcript, None, Lives
<1>. QED
  BY <1>2 DEF SentCount, ReadCount, PeerLife, OwnLife

\* What is said about q depends on its context only.
LEMMA SameCtx ==
  ASSUME NEW q \in Ends, ctx'[q] = ctx[q]
  PROVE  /\ InSession(q)' <=> InSession(q)
         /\ PeerLife(q)' = PeerLife(q) /\ OwnLife(q)' = OwnLife(q)
         /\ ReadCount(q)' = ReadCount(q) /\ SentCount(q)' = SentCount(q)
BY DEF InSession, Running, PeerLife, OwnLife, ReadCount, SentCount

LEMMA StreamParts ==
  ASSUME TypeOK, NEW e \in Ends, StreamOK(e)
  PROVE  /\ Frames(e) \in Seq(FrameSet)
         /\ Ordered(Frames(e)) /\ SentUpTo(Frames(e), ctx[e].life, SentCount(e))
         /\ InSession(Peer(e)) =>
              /\ ReadUpTo(Frames(e), PeerLife(Peer(e)), ReadCount(Peer(e)))
              /\ Balanced(Frames(e), ctx[e].life, SentCount(e),
                          PeerLife(Peer(e)), ReadCount(Peer(e)))
         /\ SentCount(e) \in Nat /\ ctx[e].life \in Nat
         /\ PeerLife(Peer(e)) \in Nat /\ ReadCount(Peer(e)) \in Nat
BY TypeParts, FramesType, CountTypes, EndFacts DEF StreamOK

\* No life changes, so neither does Interrupted.
LEMMA SameLives ==
  ASSUME NEW e \in Ends, ctx'[e].life = ctx[e].life, ctx'[Peer(e)].life = ctx[Peer(e)].life
  PROVE  Interrupted' <=> Interrupted
BY EndFacts DEF Interrupted

LEMMA SenderStep ==
  ASSUME TypeOK, NEW e \in Ends, StreamOK(e), NEW f, Sends(e, f),
         f.life = ctx[e].life, Place(f) = SentCount(e), SentCount(e)' = SentCount(e) + 1,
         ctx'[e].life = ctx[e].life, ctx'[Peer(e)] = ctx[Peer(e)]
  PROVE  StreamOK(e)'
<1>. DEFINE F == Frames(e)
            q == Peer(e)
            n == SentCount(e)
<1>1. f \in FrameSet /\ Frames(e)' = Append(F, f)
  BY DEF Sends
<1>2. /\ q \in Ends
      /\ InSession(q)' <=> InSession(q)
      /\ PeerLife(q)' = PeerLife(q) /\ ReadCount(q)' = ReadCount(q)
      /\ Interrupted' <=> Interrupted
  BY EndFacts, SameCtx, SameLives
<1>3. /\ Ordered(Append(F, f)) /\ SentUpTo(Append(F, f), f.life, n + 1)
      /\ \A l, r \in Nat :
           ReadUpTo(F, l, r) /\ Balanced(F, f.life, n, l, r) =>
             ReadUpTo(Append(F, f), l, r) /\ Balanced(Append(F, f), f.life, n + 1, l, r)
  BY <1>1, StreamParts, StreamAppend
<1>4. InSession(q) =>
        /\ ReadUpTo(Append(F, f), PeerLife(q), ReadCount(q))
        /\ Balanced(Append(F, f), f.life, n + 1, PeerLife(q), ReadCount(q))
  BY <1>3, StreamParts
<1>5. Len(Append(F, f)) = Len(F) + 1
  BY <1>1, StreamParts, AppendProperties
<1>6. ctx[q].state = "HELLO" /\ ~Interrupted => Len(F) = n
  BY DEF StreamOK
<1>. HIDE DEF F, q, n
<1>7. /\ Ordered(Frames(e)') /\ SentUpTo(Frames(e)', ctx'[e].life, SentCount(e)')
      /\ InSession(q)' =>
           /\ ReadUpTo(Frames(e)', PeerLife(q)', ReadCount(q)')
           /\ Balanced(Frames(e)', ctx'[e].life, SentCount(e)', PeerLife(q)', ReadCount(q)')
      /\ ctx'[q].state = "HELLO" /\ ~Interrupted' => Len(Frames(e)') = SentCount(e)'
  BY <1>1, <1>2, <1>3, <1>4, <1>5, <1>6 DEF n, q
<1>. QED
  BY <1>7 DEF StreamOK, q

LEMMA SteadyStep ==
  ASSUME NEW e \in Ends, StreamOK(e), Still(e),
         ctx'[e].life = ctx[e].life, SentCount(e)' = SentCount(e),
         ctx'[Peer(e)].life = ctx[Peer(e)].life,
         ctx'[Peer(e)].state = "HELLO" => ctx[Peer(e)].state = "HELLO",
         InSession(Peer(e))' =>
           /\ InSession(Peer(e)) /\ PeerLife(Peer(e))' = PeerLife(Peer(e))
           /\ ReadCount(Peer(e))' = ReadCount(Peer(e))
  PROVE  StreamOK(e)'
<1>. DEFINE q == Peer(e)
<1>1. Interrupted' <=> Interrupted
  BY SameLives
<1>2. /\ Ordered(Frames(e)') /\ SentUpTo(Frames(e)', ctx'[e].life, SentCount(e)')
      /\ InSession(q)' =>
           /\ ReadUpTo(Frames(e)', PeerLife(q)', ReadCount(q)')
           /\ Balanced(Frames(e)', ctx'[e].life, SentCount(e)', PeerLife(q)', ReadCount(q)')
      /\ ctx'[q].state = "HELLO" /\ ~Interrupted' => Len(Frames(e)') = SentCount(e)'
  BY <1>1 DEF Still, StreamOK
<1>. QED
  BY <1>2 DEF StreamOK

LEMMA ReaderStep ==
  ASSUME TypeOK, NEW e \in Ends, StreamOK(Peer(e)), Reads(e),
         ctx'[Peer(e)] = ctx[Peer(e)], ctx'[e].state # "HELLO",
         InSession(e)' =>
           /\ PeerLife(e)' = Frame(e).life
           /\ \/ /\ InSession(e) /\ PeerLife(e) = Frame(e).life
                 /\ ReadCount(e)' = ReadCount(e) + 1
              \/ Frame(e).kind = "HELLO" /\ ReadCount(e)' = 1
  PROVE  StreamOK(Peer(e))'
<1>. DEFINE q == Peer(e)
            F == Frames(q)
            n == SentCount(q)
<1>1. q \in Ends /\ Peer(q) = e
  BY EndFacts
<1>2. F # <<>> /\ Frame(e) = F[1] /\ Frames(q)' = Tail(F)
  BY DEF Reads
<1>3. SentCount(q)' = n /\ ctx'[q].life = ctx[q].life
  BY <1>1, SameCtx
<1>4. /\ F \in Seq(FrameSet) /\ n \in Nat /\ ctx[q].life \in Nat /\ ReadCount(e) \in Nat
      /\ Ordered(F) /\ SentUpTo(F, ctx[q].life, n)
      /\ InSession(e) =>
           /\ ReadUpTo(F, PeerLife(e), ReadCount(e))
           /\ Balanced(F, ctx[q].life, n, PeerLife(e), ReadCount(e))
  BY <1>1, StreamParts
<1>5. /\ Ordered(Tail(F)) /\ SentUpTo(Tail(F), ctx[q].life, n)
      /\ \A r \in Nat :
           ReadUpTo(F, F[1].life, r) /\ Balanced(F, ctx[q].life, n, F[1].life, r) =>
             /\ ReadUpTo(Tail(F), F[1].life, r + 1)
             /\ Balanced(Tail(F), ctx[q].life, n, F[1].life, r + 1)
      /\ F[1].kind = "HELLO" =>
           ReadUpTo(Tail(F), F[1].life, 1) /\ Balanced(Tail(F), ctx[q].life, n, F[1].life, 1)
  BY <1>2, <1>4, StreamTail
<1>. HIDE DEF q, F, n
<1>6. InSession(e)' =>
        /\ ReadUpTo(Tail(F), PeerLife(e)', ReadCount(e)')
        /\ Balanced(Tail(F), ctx[q].life, n, PeerLife(e)', ReadCount(e)')
  BY <1>2, <1>4, <1>5
<1>7. /\ Ordered(Frames(q)') /\ SentUpTo(Frames(q)', ctx'[q].life, SentCount(q)')
      /\ InSession(e)' =>
           /\ ReadUpTo(Frames(q)', PeerLife(e)', ReadCount(e)')
           /\ Balanced(Frames(q)', ctx'[q].life, SentCount(q)', PeerLife(e)', ReadCount(e)')
  BY <1>2, <1>3, <1>5, <1>6
<1>. QED
  BY <1>1, <1>7 DEF StreamOK, q

\* In SS_HEADER, a header can only be that of the life in the transcript.
LEMMA HeaderIsPeers ==
  ASSUME TypeOK, NEW e \in Ends, StreamOK(Peer(e)), Reads(e), ctx[e].state = "SS_HEADER",
         Frame(e).kind = "HEADER"
  PROVE  Frame(e).life = PeerLife(e)
<1>. DEFINE F == Frames(Peer(e))
<1>1. /\ F \in Seq(FrameSet) /\ F # <<>> /\ Frame(e) = F[1]
      /\ ReadUpTo(F, PeerLife(e), ReadCount(e)) /\ PeerLife(e) \in Nat
  BY EndFacts, StreamParts DEF Reads, InSession
<1>2. 1 \in DOMAIN F /\ F[1] \in FrameSet
  BY <1>1, EmptySeq, LenProperties, ElementOfSeq
<1>3. Place(F[1]) = 1 /\ F[1].life \in Nat
  BY <1>1, <1>2, FrameFacts
<1>4. PeerLife(e) <= F[1].life /\ (PeerLife(e) < F[1].life => Place(F[1]) < 1)
  BY <1>1, <1>2 DEF ReadUpTo
<1>. QED
  BY <1>1, <1>3, <1>4

----------------------------------------------------------------------------
(* Phases and streams: one step *)

SessionInv == TypeOK /\ PhaseInv /\ StreamInv

\* The end that a step leaves alone keeps its phase.
LEMMA OtherPhase ==
  ASSUME TypeOK, TypeOK', NEW e \in Ends, PhaseOK(e), ctx'[e] = ctx[e],
         ctx'[Peer(e)].life >= ctx[Peer(e)].life
  PROVE  PhaseOK(e)'
<1>1. /\ Peer(e) \in Ends /\ ctx[Peer(e)].life \in Nat /\ ctx'[Peer(e)].life \in Nat
      /\ PeerLife(e) \in Nat
  <2>1. TypeCtx /\ TypeCtx'
    BY TypeParts
  <2>2. ctx'[Peer(e)].life \in Nat
    BY <2>1, EndFacts, HandshakeAssumption DEF TypeCtx, CtxSet, Lives
  <2>. QED
    BY <2>1, <2>2, EndFacts, CountTypes
<1>2. PeerLife(e) <= ctx[Peer(e)].life => PeerLife(e) <= ctx'[Peer(e)].life
  BY <1>1
<1>. QED
  BY <1>2, SameCtx DEF PhaseOK, Running

LEMMA StopsFacts ==
  ASSUME TypeCtx, NEW e \in Ends, Stops(e)
  PROVE  /\ ctx'[Peer(e)] = ctx[Peer(e)]
         /\ ctx'[e].state \in {"ERROR", "CLOSED"}
         /\ ctx'[e].life = ctx[e].life /\ ctx'[e].t_hello = ctx[e].t_hello
         /\ ctx'[e].push_ready = ctx[e].push_ready /\ ctx'[e].push = ctx[e].push
         /\ ctx'[e].auth_awaiting_decide = ctx[e].auth_awaiting_decide
         /\ ctx'[e].auth_decided = ctx[e].auth_decided
         /\ ctx'[e].auth_complete = ctx[e].auth_complete
         /\ ctx[e].pull \in Nat /\ ctx'[e].pull \in {ctx[e].pull, ctx[e].pull + 1}
<1>1. ctx[e] \in CtxSet /\ ctx[e].pull \in Nat
  BY DEF TypeCtx, CtxSet
<1>2. PICK st \in {"ERROR", "CLOSED"} :
        \/ Moves(e, [ctx[e] EXCEPT !.state = st])
        \/ Moves(e, [ctx[e] EXCEPT !.pull = @ + 1, !.state = st])
  BY DEF Stops
<1>3. /\ ctx'[Peer(e)] = ctx[Peer(e)]
      /\ \/ ctx'[e] = [ctx[e] EXCEPT !.state = st]
         \/ ctx'[e] = [ctx[e] EXCEPT !.pull = @ + 1, !.state = st]
  BY <1>2, MovesFacts
<1>. QED
  BY <1>1, <1>3 DEF CtxSet

\* e stops, having read a frame or not.
LEMMA StopKeeps ==
  ASSUME SessionInv, TypeOK', NEW e \in Ends, Stops(e), Still(e), Reads(e) \/ Still(Peer(e))
  PROVE  SessionInv'
<1>1. /\ ctx'[Peer(e)] = ctx[Peer(e)]
      /\ ctx'[e].state \in {"ERROR", "CLOSED"}
      /\ ctx'[e].life = ctx[e].life /\ ctx'[e].t_hello = ctx[e].t_hello
      /\ ctx'[e].push_ready = ctx[e].push_ready /\ ctx'[e].push = ctx[e].push
      /\ ctx'[e].auth_awaiting_decide = ctx[e].auth_awaiting_decide
      /\ ctx'[e].auth_complete = ctx[e].auth_complete
      /\ ctx[e].pull \in Nat /\ ctx'[e].pull \in {ctx[e].pull, ctx[e].pull + 1}
  BY TypeParts, StopsFacts DEF SessionInv
<1>2. /\ Peer(e) \in Ends /\ Peer(Peer(e)) = e /\ TypeOK /\ ctx[e].life \in Nat
      /\ PhaseOK(e) /\ PhaseOK(Peer(e)) /\ StreamOK(e) /\ StreamOK(Peer(e))
  BY EndFacts, CountTypes, TypeParts DEF SessionInv, PhaseInv, StreamInv
<1>3. SentCount(e)' = SentCount(e) /\ PeerLife(e)' = PeerLife(e) /\ OwnLife(e)' = OwnLife(e)
  BY <1>1 DEF SentCount, PeerLife, OwnLife
<1>4. ~InSession(e)' /\ ~Running(e)'
  BY <1>1 DEF InSession, Running
<1>5. PhaseOK(e)'
  BY <1>1, <1>2, <1>3, <1>4 DEF PhaseOK, Early
<1>6. PhaseOK(Peer(e))'
  BY <1>1, <1>2, OtherPhase
<1>7. StreamOK(e)'
  BY <1>1, <1>2, <1>3, SteadyStep, SameCtx
<1>8. StreamOK(Peer(e))'
  <2>1. SentCount(Peer(e))' = SentCount(Peer(e)) /\ ctx'[e].state # "HELLO"
    BY <1>1, <1>2, SameCtx
  <2>2. CASE Reads(e)
    BY <1>1, <1>2, <1>4, <2>1, <2>2, ReaderStep
  <2>3. CASE Still(Peer(e))
    BY <1>1, <1>2, <1>4, <2>1, <2>3, SteadyStep
  <2>. QED
    BY <2>2, <2>3
<1>. QED
  BY <1>5, <1>6, <1>7, <1>8, EndFacts DEF SessionInv, PhaseInv, StreamInv

\* A step of e that goes on in the same life, from its two directions.
LEMMA StepKeeps ==
  ASSUME SessionInv, TypeOK', NEW e \in Ends, NEW r, Moves(e, r), r.life = ctx[e].life,
         PhaseOK(e)', StreamOK(e)', StreamOK(Peer(e))'
  PROVE  SessionInv'
<1>1. ctx'[e] = r /\ ctx'[Peer(e)] = ctx[Peer(e)] /\ TypeOK /\ ctx[e].life \in Nat
  BY TypeParts, MovesFacts, CountTypes DEF SessionInv
<1>2. Peer(e) \in Ends /\ Peer(Peer(e)) = e /\ PhaseOK(Peer(e))
  BY EndFacts DEF SessionInv, PhaseInv
<1>3. PhaseOK(Peer(e))'
  BY <1>1, <1>2, OtherPhase
<1>. QED
  BY <1>3, EndFacts DEF SessionInv, PhaseInv, StreamInv

LEMMA FreshFacts ==
  ASSUME NEW life \in Nat
  PROVE  /\ Fresh(life).state = "HELLO" /\ Fresh(life).life = life
         /\ Fresh(life).t_hello = None /\ Fresh(life).push = 0 /\ Fresh(life).pull = 0
         /\ Fresh(life).push_ready = FALSE /\ Fresh(life).header = 0
         /\ Fresh(life).auth_awaiting_decide = FALSE
         /\ Fresh(life).auth_decided = FALSE /\ Fresh(life).auth_complete = FALSE
BY DEF Fresh

\* A context that waits for the peer's HELLO.
LEMMA HelloFacts ==
  ASSUME TypeOK, NEW e \in Ends, PhaseOK(e), ctx[e].state = "HELLO"
  PROVE  /\ ctx[e] \in CtxSet /\ ctx[e].life \in Nat
         /\ ctx[e].t_hello = None /\ ctx[e].push = 0 /\ ctx[e].pull = 0
         /\ ctx[e].push_ready = FALSE
         /\ ctx[e].auth_awaiting_decide = FALSE
         /\ ctx[e].auth_decided = FALSE /\ ctx[e].auth_complete = FALSE
         /\ SentCount(e) = IF e = Client THEN 1 ELSE 0
<1>1. ctx[e] \in CtxSet /\ ctx[e].life \in Nat
  BY TypeParts, CountTypes DEF TypeCtx
<1>2. PICK life \in Nat : ctx[e] = Fresh(life)
  BY <1>1 DEF PhaseOK
<1>3. /\ ctx[e].t_hello = None /\ ctx[e].push = 0 /\ ctx[e].pull = 0
      /\ ctx[e].push_ready = FALSE
      /\ ctx[e].auth_awaiting_decide = FALSE
      /\ ctx[e].auth_decided = FALSE /\ ctx[e].auth_complete = FALSE
  BY <1>2, FreshFacts
<1>. QED
  BY <1>1, <1>3 DEF SentCount

LEMMA RecvServerHelloKeeps == SessionInv /\ RecvServerHello => SessionInv'
<1>. SUFFICES ASSUME SessionInv, RecvServerHello
              PROVE  SessionInv'
  OBVIOUS
<1>. USE EndFacts
<1>. DEFINE f == Frame(Client)
            t == [c |-> ctx[Client].life, s |-> f.life]
            r == [ctx[Client] EXCEPT !.state = "SS_HEADER", !.t_hello = t, !.push_ready = TRUE]
            h == Header(ctx[Client].life, t)
<1>1. TypeOK /\ PhaseOK(Client) /\ StreamOK(Client) /\ StreamOK(Server)
  BY DEF SessionInv, PhaseInv, StreamInv
<1>2. /\ TypeOK' /\ f \in FrameSet /\ t \in Transcript
      /\ \/ Halts(Client)
         \/ /\ ServerHelloVerdict(f, t) = "none"
            /\ Reads(Client) /\ Sends(Client, h) /\ Moves(Client, r)
  BY <1>1, RecvServerHelloEffect
<1>3. CASE Halts(Client)
  BY <1>2, <1>3, StopKeeps DEF Halts
<1>4. CASE /\ ServerHelloVerdict(f, t) = "none"
           /\ Reads(Client) /\ Sends(Client, h) /\ Moves(Client, r)
  <2>1. /\ ctx[Client] \in CtxSet /\ ctx[Client].life \in Nat
        /\ ctx[Client].t_hello = None /\ ctx[Client].push = 0 /\ ctx[Client].pull = 0
        /\ ctx[Client].push_ready = FALSE
        /\ ctx[Client].auth_awaiting_decide = FALSE
        /\ ctx[Client].auth_decided = FALSE /\ ctx[Client].auth_complete = FALSE
        /\ SentCount(Client) = 1
    BY <1>1, HelloFacts DEF RecvServerHello
  <2>2. /\ ctx'[Client] = r /\ ctx'[Server] = ctx[Server]
    BY <1>1, <1>4, TypeParts, MovesFacts
  <2>3. /\ ctx'[Client].state = "SS_HEADER" /\ ctx'[Client].t_hello = t
        /\ ctx'[Client].push_ready = TRUE /\ ctx'[Client].push = 0 /\ ctx'[Client].pull = 0
        /\ ctx'[Client].life = ctx[Client].life
        /\ ctx'[Client].auth_awaiting_decide = FALSE /\ ctx'[Client].auth_decided = FALSE
        /\ ctx'[Client].auth_complete = FALSE
    <3>. HIDE DEF t
    <3>. QED
      BY <2>1, <2>2 DEF CtxSet
  <2>4. f.kind = "HELLO"
    BY <1>4 DEF ServerHelloVerdict
  <2>5. t # None /\ t.c = ctx[Client].life /\ t.s = f.life
    BY <1>2, HandshakeAssumption DEF Transcript, None, Lives
  <2>6. SentCount(Client) = 1 /\ SentCount(Client)' = 2
    BY <2>1, <2>3 DEF SentCount
  <2>7. /\ PeerLife(Client)' = f.life /\ OwnLife(Client)' = ctx[Client].life
        /\ ReadCount(Client)' = 1
    BY <2>3, <2>5 DEF PeerLife, OwnLife, ReadCount
  <2>8. h.life = ctx[Client].life /\ Place(h) = 1
    BY DEF Header, Place
  <2>9. StreamOK(Client)'
    <3>. HIDE DEF h, r
    <3>. QED
      BY <1>1, <1>4, <2>2, <2>3, <2>6, <2>8, SenderStep
  <2>10. StreamOK(Server)'
    BY <1>1, <1>4, <2>2, <2>3, <2>4, <2>7, ReaderStep
  <2>11. f.life <= ctx[Server].life
    <3>1. Frames(Server) \in Seq(FrameSet) /\ Frames(Server) # <<>> /\ f = Frames(Server)[1]
          /\ SentUpTo(Frames(Server), ctx[Server].life, SentCount(Server))
      BY <1>1, <1>4, StreamParts DEF Reads
    <3>2. 1 \in DOMAIN Frames(Server)
      BY <3>1, EmptySeq, LenProperties
    <3>. QED
      BY <3>1, <3>2 DEF SentUpTo
  <2>12. PhaseOK(Client)'
    BY <2>2, <2>3, <2>5, <2>7, <2>11 DEF PhaseOK, InSession, Running, Early
  <2>. QED
    BY <1>2, <1>4, <2>2, <2>3, <2>9, <2>10, <2>12, StepKeeps
<1>. QED
  BY <1>2, <1>3, <1>4

LEMMA RecvClientHelloKeeps == SessionInv /\ RecvClientHello => SessionInv'
<1>. SUFFICES ASSUME SessionInv, RecvClientHello
              PROVE  SessionInv'
  OBVIOUS
<1>. USE EndFacts
<1>. DEFINE f   == Frame(Server)
            t   == [c |-> f.life, s |-> ctx[Server].life]
            sig == [sk |-> cfg.serverSk, msg |-> t]
            r   == [ctx[Server] EXCEPT !.state = "SS_HEADER", !.t_hello = t]
            h   == Hello(ctx[Server].life, sig)
<1>1. TypeOK /\ PhaseOK(Server) /\ StreamOK(Client) /\ StreamOK(Server)
  BY DEF SessionInv, PhaseInv, StreamInv
<1>2. /\ TypeOK' /\ f \in FrameSet /\ t \in Transcript
      /\ \/ Halts(Server)
         \/ f.kind = "HELLO" /\ Reads(Server) /\ Sends(Server, h) /\ Moves(Server, r)
  BY <1>1, RecvClientHelloEffect
<1>3. CASE Halts(Server)
  BY <1>2, <1>3, StopKeeps DEF Halts
<1>4. CASE f.kind = "HELLO" /\ Reads(Server) /\ Sends(Server, h) /\ Moves(Server, r)
  <2>1. /\ ctx[Server] \in CtxSet /\ ctx[Server].life \in Nat
        /\ ctx[Server].push = 0 /\ ctx[Server].pull = 0
        /\ ctx[Server].push_ready = FALSE
        /\ ctx[Server].auth_awaiting_decide = FALSE
        /\ ctx[Server].auth_decided = FALSE /\ ctx[Server].auth_complete = FALSE
        /\ SentCount(Server) = 0
    BY <1>1, HelloFacts DEF RecvClientHello
  <2>2. /\ ctx'[Server] = r /\ ctx'[Client] = ctx[Client]
    BY <1>1, <1>4, TypeParts, MovesFacts
  <2>3. /\ ctx'[Server].state = "SS_HEADER" /\ ctx'[Server].t_hello = t
        /\ ctx'[Server].push_ready = FALSE /\ ctx'[Server].push = 0 /\ ctx'[Server].pull = 0
        /\ ctx'[Server].life = ctx[Server].life
        /\ ctx'[Server].auth_awaiting_decide = FALSE /\ ctx'[Server].auth_decided = FALSE
        /\ ctx'[Server].auth_complete = FALSE
    <3>. HIDE DEF t
    <3>. QED
      BY <2>1, <2>2 DEF CtxSet
  <2>4. t # None /\ t.s = ctx[Server].life /\ t.c = f.life
    BY <1>2, HandshakeAssumption DEF Transcript, None, Lives
  <2>5. SentCount(Server)' = 1
    BY <2>3, <2>4 DEF SentCount
  <2>6. /\ PeerLife(Server)' = f.life /\ OwnLife(Server)' = ctx[Server].life
        /\ ReadCount(Server)' = 1
    BY <2>3, <2>4 DEF PeerLife, OwnLife, ReadCount
  <2>7. h.life = ctx[Server].life /\ Place(h) = 0
    BY DEF Hello, Place
  <2>8. StreamOK(Server)'
    <3>. HIDE DEF h, r
    <3>. QED
      BY <1>1, <1>4, <2>1, <2>2, <2>3, <2>5, <2>7, SenderStep
  <2>9. StreamOK(Client)'
    BY <1>1, <1>4, <2>2, <2>3, <2>6, ReaderStep
  <2>10. f.life <= ctx[Client].life
    <3>1. Frames(Client) \in Seq(FrameSet) /\ Frames(Client) # <<>> /\ f = Frames(Client)[1]
          /\ SentUpTo(Frames(Client), ctx[Client].life, SentCount(Client))
      BY <1>1, <1>4, StreamParts DEF Reads
    <3>2. 1 \in DOMAIN Frames(Client)
      BY <3>1, EmptySeq, LenProperties
    <3>. QED
      BY <3>1, <3>2 DEF SentUpTo
  <2>11. PhaseOK(Server)'
    BY <2>2, <2>3, <2>4, <2>6, <2>10 DEF PhaseOK, InSession, Running, Early
  <2>12. r.life = ctx[Server].life
    BY <2>2, <2>3
  <2>. HIDE DEF r, h
  <2>. QED
    BY <1>2, <1>4, <2>8, <2>9, <2>11, <2>12, StepKeeps
<1>. QED
  BY <1>2, <1>3, <1>4

\* A context that waits for the stream header.
LEMMA HeaderPhaseFacts ==
  ASSUME TypeOK, NEW e \in Ends, PhaseOK(e), ctx[e].state = "SS_HEADER"
  PROVE  /\ ctx[e] \in CtxSet /\ ctx[e].life \in Nat /\ ctx[e].t_hello # None
         /\ InSession(e) /\ ReadCount(e) = 1
         /\ OwnLife(e) = ctx[e].life /\ PeerLife(e) <= ctx[Peer(e)].life
         /\ ctx[e].push = 0 /\ ctx[e].pull = 0 /\ (ctx[e].push_ready <=> e = Client)
         /\ ~ctx[e].auth_awaiting_decide /\ ~ctx[e].auth_decided /\ ~ctx[e].auth_complete
         /\ SentCount(e) = IF e = Client THEN 2 ELSE 1
<1>1. ctx[e] \in CtxSet /\ ctx[e].life \in Nat
  BY TypeParts, CountTypes DEF TypeCtx
<1>2. InSession(e) /\ ReadCount(e) = 1
  BY DEF InSession, ReadCount
<1>3. /\ ctx[e].t_hello # None /\ OwnLife(e) = ctx[e].life /\ PeerLife(e) <= ctx[Peer(e)].life
      /\ ctx[e].push = 0 /\ ctx[e].pull = 0 /\ (ctx[e].push_ready <=> e = Client)
      /\ ~ctx[e].auth_awaiting_decide /\ ~ctx[e].auth_decided /\ ~ctx[e].auth_complete
  BY <1>2 DEF PhaseOK, Early
<1>4. SentCount(e) = IF e = Client THEN 2 ELSE 1
  <2>1. CASE e = Client
    BY <1>3, <2>1 DEF SentCount
  <2>2. CASE e # Client
    BY <1>3, <2>2 DEF SentCount
  <2>. QED
    BY <2>1, <2>2
<1>. QED
  BY <1>1, <1>2, <1>3, <1>4

LEMMA RecvServerHeaderKeeps == SessionInv /\ RecvServerHeader => SessionInv'
<1>. SUFFICES ASSUME SessionInv, RecvServerHeader
              PROVE  SessionInv'
  OBVIOUS
<1>. USE EndFacts
<1>. DEFINE f   == Frame(Client)
            sig == [sk |-> cfg.deviceSk, msg |-> ctx[Client].t_hello]
            d   == Sealed(Client, "AUTH_DEVICE", sig)
            r   == [ctx[Client] EXCEPT !.state = "AUTH", !.pull_ready = TRUE,
                                       !.header = f.life]
            rs  == [ctx[Client] EXCEPT !.state = "AUTH", !.pull_ready = TRUE,
                                       !.header = f.life, !.push = @ + 1]
<1>1. TypeOK /\ PhaseOK(Client) /\ StreamOK(Client) /\ StreamOK(Server)
  BY DEF SessionInv, PhaseInv, StreamInv
<1>2. /\ TypeOK' /\ f \in FrameSet
      /\ \/ Halts(Client)
         \/ f.kind = "HEADER" /\ Reads(Client) /\ Still(Client) /\ Moves(Client, r)
         \/ f.kind = "HEADER" /\ Reads(Client) /\ Sends(Client, d) /\ Moves(Client, rs)
  BY <1>1, RecvServerHeaderEffect
<1>3. /\ ctx[Client].state = "SS_HEADER"
      /\ ctx[Client] \in CtxSet /\ ctx[Client].life \in Nat /\ ctx[Client].t_hello # None
      /\ InSession(Client) /\ ReadCount(Client) = 1
      /\ OwnLife(Client) = ctx[Client].life /\ PeerLife(Client) <= ctx[Server].life
      /\ ctx[Client].push = 0 /\ ctx[Client].pull = 0 /\ ctx[Client].push_ready
      /\ ~ctx[Client].auth_awaiting_decide /\ ~ctx[Client].auth_decided
      /\ ~ctx[Client].auth_complete
      /\ SentCount(Client) = 2
  BY <1>1, HeaderPhaseFacts DEF RecvServerHeader
<1>4. CASE Halts(Client)
  BY <1>2, <1>4, StopKeeps DEF Halts
<1>5. /\ r.push = 0 /\ rs.push = 1
      /\ \A x \in {r, rs} :
           /\ x.life = ctx[Client].life
           /\ x.state = "AUTH" /\ x.t_hello = ctx[Client].t_hello
           /\ x.push_ready = ctx[Client].push_ready /\ x.pull = ctx[Client].pull
           /\ x.header = f.life
           /\ x.auth_awaiting_decide = ctx[Client].auth_awaiting_decide
           /\ x.auth_decided = ctx[Client].auth_decided
           /\ x.auth_complete = ctx[Client].auth_complete
  <2>1. /\ r.push = 0
        /\ r.life = ctx[Client].life
        /\ r.state = "AUTH" /\ r.t_hello = ctx[Client].t_hello
        /\ r.push_ready = ctx[Client].push_ready /\ r.pull = ctx[Client].pull
        /\ r.header = f.life
        /\ r.auth_awaiting_decide = ctx[Client].auth_awaiting_decide
        /\ r.auth_decided = ctx[Client].auth_decided
        /\ r.auth_complete = ctx[Client].auth_complete
    BY <1>3 DEF CtxSet
  <2>3. rs.push = 1
    <3>1. rs.push = ctx[Client].push + 1
      BY <1>3 DEF CtxSet
    <3>. QED
      BY <1>3, <3>1
  <2>2. /\ rs.life = ctx[Client].life
        /\ rs.state = "AUTH" /\ rs.t_hello = ctx[Client].t_hello
        /\ rs.push_ready = ctx[Client].push_ready /\ rs.pull = ctx[Client].pull
        /\ rs.header = f.life
        /\ rs.auth_awaiting_decide = ctx[Client].auth_awaiting_decide
        /\ rs.auth_decided = ctx[Client].auth_decided
        /\ rs.auth_complete = ctx[Client].auth_complete
    BY <1>3 DEF CtxSet
  <2>. HIDE DEF r, rs
  <2>. QED
    BY <2>1, <2>2, <2>3
<1>6. d.life = ctx[Client].life /\ Place(d) = 2
  BY <1>3 DEF Sealed, Cipher, Place
<1>. HIDE DEF r, rs, d
<1>7. ASSUME f.kind = "HEADER", Reads(Client), NEW x \in {r, rs}, Moves(Client, x)
      PROVE  /\ ctx'[Server] = ctx[Server] /\ ctx'[Client].life = ctx[Client].life
             /\ SentCount(Client)' = 2 + x.push
             /\ StreamOK(Server)' /\ PhaseOK(Client)'
  <2>1. /\ ctx'[Client] = x /\ ctx'[Server] = ctx[Server]
    BY <1>1, <1>7, TypeParts, MovesFacts
  <2>2. SentCount(Client)' = 2 + x.push
    <3>1. x.push \in Nat /\ ctx'[Client].push = x.push
      BY <1>5, <1>7, <2>1
    <3>2. ctx'[Client].push_ready
      BY <1>3, <1>5, <1>7, <2>1, Zenon
    <3>. QED
      BY <3>1, <3>2 DEF SentCount
  <2>3. /\ PeerLife(Client)' = PeerLife(Client) /\ OwnLife(Client)' = OwnLife(Client)
        /\ ReadCount(Client)' = 2
    BY <1>3, <1>5, <2>1 DEF PeerLife, OwnLife, ReadCount
  <2>4. f.life = PeerLife(Client)
    BY <1>1, <1>3, <1>7, HeaderIsPeers
  <2>5. ctx'[Client].state # "HELLO" /\ 2 = 1 + 1
    BY <1>5, <2>1
  <2>6. StreamOK(Server)'
    BY <1>1, <1>3, <1>7, <2>1, <2>3, <2>4, <2>5, ReaderStep
  <2>7. PhaseOK(Client)'
    BY <1>3, <1>5, <2>1, <2>3, <2>4 DEF PhaseOK, InSession, Running, Early
  <2>. QED
    BY <1>5, <2>1, <2>2, <2>6, <2>7
<1>8. CASE f.kind = "HEADER" /\ Reads(Client) /\ Still(Client) /\ Moves(Client, r)
  <2>1. /\ ctx'[Server] = ctx[Server] /\ ctx'[Client].life = ctx[Client].life
        /\ SentCount(Client)' = SentCount(Client)
    BY <1>3, <1>5, <1>7, <1>8
  <2>2. StreamOK(Client)'
    BY <1>1, <1>8, <2>1, SteadyStep, SameCtx
  <2>. QED
    BY <1>2, <1>5, <1>7, <1>8, <2>2, StepKeeps
<1>9. CASE f.kind = "HEADER" /\ Reads(Client) /\ Sends(Client, d) /\ Moves(Client, rs)
  <2>1. /\ ctx'[Server] = ctx[Server] /\ ctx'[Client].life = ctx[Client].life
        /\ SentCount(Client)' = SentCount(Client) + 1
    BY <1>3, <1>5, <1>7, <1>9
  <2>2. StreamOK(Client)'
    BY <1>1, <1>3, <1>6, <1>9, <2>1, SenderStep
  <2>. QED
    BY <1>2, <1>5, <1>7, <1>9, <2>2, StepKeeps
<1>. QED
  BY <1>2, <1>4, <1>8, <1>9

LEMMA RecvClientHeaderKeeps == SessionInv /\ RecvClientHeader => SessionInv'
<1>. SUFFICES ASSUME SessionInv, RecvClientHeader
              PROVE  SessionInv'
  OBVIOUS
<1>. USE EndFacts
<1>. DEFINE f == Frame(Server)
            h == Header(ctx[Server].life, ctx[Server].t_hello)
            r == [ctx[Server] EXCEPT !.state = "AUTH", !.pull_ready = TRUE,
                                     !.header = f.life, !.push_ready = TRUE]
<1>1. TypeOK /\ PhaseOK(Server) /\ StreamOK(Client) /\ StreamOK(Server)
  BY DEF SessionInv, PhaseInv, StreamInv
<1>2. /\ TypeOK' /\ f \in FrameSet
      /\ \/ Halts(Server)
         \/ f.kind = "HEADER" /\ Reads(Server) /\ Sends(Server, h) /\ Moves(Server, r)
  BY <1>1, RecvClientHeaderEffect
<1>3. CASE Halts(Server)
  BY <1>2, <1>3, StopKeeps DEF Halts
<1>4. CASE f.kind = "HEADER" /\ Reads(Server) /\ Sends(Server, h) /\ Moves(Server, r)
  <2>1. /\ ctx[Server].state = "SS_HEADER"
        /\ ctx[Server] \in CtxSet /\ ctx[Server].life \in Nat /\ ctx[Server].t_hello # None
        /\ InSession(Server) /\ ReadCount(Server) = 1
        /\ OwnLife(Server) = ctx[Server].life /\ PeerLife(Server) <= ctx[Client].life
        /\ ctx[Server].push = 0 /\ ctx[Server].pull = 0 /\ ~ctx[Server].push_ready
        /\ ~ctx[Server].auth_awaiting_decide /\ ~ctx[Server].auth_decided
        /\ ~ctx[Server].auth_complete
        /\ SentCount(Server) = 1
    BY <1>1, HeaderPhaseFacts DEF RecvClientHeader
  <2>2. /\ ctx'[Server] = r /\ ctx'[Client] = ctx[Client]
    BY <1>1, <1>4, TypeParts, MovesFacts
  <2>3. /\ r.life = ctx[Server].life /\ r.push = 0 /\ r.pull = 0
        /\ r.state = "AUTH" /\ r.t_hello = ctx[Server].t_hello
        /\ r.push_ready = TRUE /\ r.header = f.life
        /\ r.auth_awaiting_decide = ctx[Server].auth_awaiting_decide
        /\ r.auth_decided = ctx[Server].auth_decided
        /\ r.auth_complete = ctx[Server].auth_complete
    BY <2>1 DEF CtxSet
  <2>4. h.life = ctx[Server].life /\ Place(h) = 1
    BY DEF Header, Place
  <2>. HIDE DEF r, h
  <2>5. SentCount(Server)' = 2
    BY <2>1, <2>2, <2>3 DEF SentCount
  <2>6. /\ PeerLife(Server)' = PeerLife(Server) /\ OwnLife(Server)' = OwnLife(Server)
        /\ ReadCount(Server)' = 2
    BY <2>2, <2>3 DEF PeerLife, OwnLife, ReadCount
  <2>7. f.life = PeerLife(Server)
    BY <1>1, <1>4, <2>1, HeaderIsPeers
  <2>8. StreamOK(Server)'
    BY <1>1, <1>4, <2>1, <2>2, <2>3, <2>4, <2>5, SenderStep
  <2>9. StreamOK(Client)'
    BY <1>1, <1>4, <2>1, <2>2, <2>3, <2>6, <2>7, ReaderStep
  <2>10. PhaseOK(Server)'
    BY <2>1, <2>2, <2>3, <2>6, <2>7 DEF PhaseOK, InSession, Running, Early
  <2>. QED
    BY <1>2, <1>4, <2>3, <2>8, <2>9, <2>10, StepKeeps
<1>. QED
  BY <1>2, <1>3, <1>4

\* A context with both streams.
LEMMA RunningFacts ==
  ASSUME TypeOK, NEW e \in Ends, PhaseOK(e), Running(e)
  PROVE  /\ ctx[e] \in CtxSet /\ ctx[e].life \in Nat /\ ctx[e].t_hello # None
         /\ InSession(e) /\ ctx[e].push_ready /\ ctx[e].header = PeerLife(e)
         /\ OwnLife(e) = ctx[e].life /\ PeerLife(e) <= ctx[Peer(e)].life
         /\ ctx[e].push \in Nat /\ ctx[e].pull \in Nat
         /\ ReadCount(e) = ctx[e].pull + 2 /\ SentCount(e) = ctx[e].push + 2
         /\ \A pdu, sig : /\ Sealed(e, pdu, sig).life = ctx[e].life
                          /\ Place(Sealed(e, pdu, sig)) = SentCount(e)
         /\ \A f : Opens(e, f) => f.life = PeerLife(e)
<1>1. ctx[e] \in CtxSet /\ ctx[e].life \in Nat
  BY TypeParts, CountTypes DEF TypeCtx
<1>2. ctx[e].push \in Nat /\ ctx[e].pull \in Nat
  BY <1>1 DEF CtxSet
<1>3. InSession(e) /\ ctx[e].state # "SS_HEADER"
  BY DEF InSession, Running
<1>4. /\ ctx[e].t_hello # None /\ ctx[e].push_ready /\ ctx[e].header = PeerLife(e)
      /\ OwnLife(e) = ctx[e].life /\ PeerLife(e) <= ctx[Peer(e)].life
  BY <1>3 DEF PhaseOK
<1>5. ReadCount(e) = ctx[e].pull + 2 /\ SentCount(e) = ctx[e].push + 2
  BY <1>2, <1>3, <1>4 DEF ReadCount, SentCount
<1>6. \A pdu, sig : /\ Sealed(e, pdu, sig).life = ctx[e].life
                   /\ Place(Sealed(e, pdu, sig)) = ctx[e].push + 2
  BY DEF Sealed, Cipher, Place
<1>7. \A f : Opens(e, f) => f.life = PeerLife(e)
  BY <1>4 DEF Opens
<1>. QED
  BY <1>1, <1>2, <1>3, <1>4, <1>5, <1>6, <1>7

\* A step of a running end: a message is opened or not, one is sealed or not.
LEMMA RunningKeeps ==
  ASSUME SessionInv, TypeOK', NEW e \in Ends, Running(e), NEW r, Moves(e, r),
         r.life = ctx[e].life, r.t_hello = ctx[e].t_hello, r.header = ctx[e].header,
         r.push_ready = ctx[e].push_ready,
         \/ Reads(e) /\ Opens(e, Frame(e)) /\ r.pull = ctx[e].pull + 1
         \/ Still(Peer(e)) /\ r.pull = ctx[e].pull,
         \/ (\E pdu, sig : Sends(e, Sealed(e, pdu, sig))) /\ r.push = ctx[e].push + 1
         \/ Still(e) /\ r.push = ctx[e].push,
         r.state \notin {"HELLO", "SS_HEADER"},
         r.state = "AUTH" => ~r.auth_complete /\ ~r.auth_decided,
         r.state = "AUTH" /\ e = Server => r.push = 0,
         r.state = "DRAINING" => r.push > 0,
         r.auth_awaiting_decide \/ r.auth_complete => r.pull > 0
  PROVE  SessionInv'
<1>1. /\ TypeOK /\ Peer(e) \in Ends /\ Peer(Peer(e)) = e
      /\ PhaseOK(e) /\ StreamOK(e) /\ StreamOK(Peer(e))
  BY EndFacts DEF SessionInv, PhaseInv, StreamInv
<1>2. /\ ctx[e].t_hello # None
      /\ InSession(e) /\ ctx[e].push_ready /\ ctx[e].header = PeerLife(e)
      /\ OwnLife(e) = ctx[e].life /\ PeerLife(e) <= ctx[Peer(e)].life
      /\ ctx[e].push \in Nat /\ ctx[e].pull \in Nat
      /\ ReadCount(e) = ctx[e].pull + 2 /\ SentCount(e) = ctx[e].push + 2
      /\ \A pdu, sig : /\ Sealed(e, pdu, sig).life = ctx[e].life
                       /\ Place(Sealed(e, pdu, sig)) = SentCount(e)
      /\ \A f : Opens(e, f) => f.life = PeerLife(e)
  BY <1>1, RunningFacts
<1>3. ctx'[e] = r /\ ctx'[Peer(e)] = ctx[Peer(e)]
  BY <1>1, TypeParts, MovesFacts
<1>4. r.push_ready
  BY <1>2, Zenon
<1>5. /\ PeerLife(e)' = PeerLife(e) /\ OwnLife(e)' = OwnLife(e)
      /\ ReadCount(e)' = r.pull + 2
  BY <1>3 DEF PeerLife, OwnLife, ReadCount
<1>6. SentCount(e)' = r.push + 2
  <2>1. r.push \in Nat /\ ctx'[e].push_ready /\ ctx'[e].t_hello # None
    BY <1>2, <1>3, <1>4
  <2>. QED
    BY <1>3, <2>1 DEF SentCount
<1>7. StreamOK(e)'
  <2>1. CASE Still(e) /\ r.push = ctx[e].push
    BY <1>1, <1>2, <1>3, <1>6, <2>1, SteadyStep, SameCtx
  <2>2. CASE (\E pdu, sig : Sends(e, Sealed(e, pdu, sig))) /\ r.push = ctx[e].push + 1
    <3>1. PICK pdu, sig : Sends(e, Sealed(e, pdu, sig))
      BY <2>2
    <3>2. SentCount(e)' = SentCount(e) + 1
      BY <1>2, <1>6, <2>2
    <3>. QED
      BY <1>1, <1>2, <1>3, <3>1, <3>2, SenderStep
  <2>. QED
    BY <2>1, <2>2
<1>8. StreamOK(Peer(e))'
  <2>1. SentCount(Peer(e))' = SentCount(Peer(e)) /\ ctx'[e].state # "HELLO"
    BY <1>1, <1>3, SameCtx
  <2>2. CASE Reads(e) /\ Opens(e, Frame(e)) /\ r.pull = ctx[e].pull + 1
    <3>1. ReadCount(e)' = ReadCount(e) + 1 /\ PeerLife(e) = Frame(e).life
      BY <1>2, <1>5, <2>2
    <3>. QED
      BY <1>1, <1>2, <1>3, <1>5, <2>1, <2>2, <3>1, ReaderStep
  <2>3. CASE Still(Peer(e)) /\ r.pull = ctx[e].pull
    <3>1. ReadCount(e)' = ReadCount(e)
      BY <1>2, <1>5, <2>3
    <3>. QED
      BY <1>1, <1>2, <1>3, <1>5, <2>1, <2>3, <3>1, SteadyStep
  <2>. QED
    BY <2>2, <2>3
<1>9. PhaseOK(e)'
  BY <1>2, <1>3, <1>4, <1>5 DEF PhaseOK, InSession, Running, Early
<1>. QED
  BY <1>7, <1>8, <1>9, StepKeeps

LEMMA RecvAuthDeviceKeeps == SessionInv /\ RecvAuthDevice => SessionInv'
<1>. SUFFICES ASSUME SessionInv, RecvAuthDevice
              PROVE  SessionInv'
  OBVIOUS
<1>. USE EndFacts
<1>. DEFINE ra == [ctx[Server] EXCEPT !.pull = @ + 1, !.auth_awaiting_decide = TRUE]
            rf == [ctx[Server] EXCEPT !.pull = @ + 1, !.push = @ + 1, !.state = "ERROR"]
            a  == Sealed(Server, "AUTH_FAIL", NoSig)
<1>1. /\ TypeOK /\ PhaseOK(Server) /\ ctx[Server].state = "AUTH" /\ Running(Server)
      /\ Opens(Server, Frame(Server))
  BY DEF SessionInv, PhaseInv, RecvAuthDevice, Unsealed, Running
<1>2. /\ TypeOK' /\ Reads(Server)
      /\ \/ Still(Server) /\ Moves(Server, ra)
         \/ Sends(Server, a) /\ Moves(Server, rf)
  BY <1>1, RecvAuthDeviceEffect
<1>3. /\ ctx[Server] \in CtxSet /\ ctx[Server].pull \in Nat /\ ctx[Server].push = 0
      /\ ~ctx[Server].auth_complete /\ ~ctx[Server].auth_decided
  BY <1>1, RunningFacts DEF PhaseOK, Early
<1>4. CASE Still(Server) /\ Moves(Server, ra)
  <2>1. /\ ra.life = ctx[Server].life /\ ra.t_hello = ctx[Server].t_hello
        /\ ra.header = ctx[Server].header /\ ra.push_ready = ctx[Server].push_ready
        /\ ra.pull = ctx[Server].pull + 1 /\ ra.push = ctx[Server].push
        /\ ra.state = ctx[Server].state /\ ra.auth_complete = ctx[Server].auth_complete
        /\ ra.auth_decided = ctx[Server].auth_decided
    BY <1>3 DEF CtxSet
  <2>2. ra.pull > 0
    BY <1>3, <2>1
  <2>. HIDE DEF ra
  <2>. QED
    BY <1>1, <1>2, <1>3, <1>4, <2>1, <2>2, RunningKeeps
<1>5. CASE Sends(Server, a) /\ Moves(Server, rf)
  <2>1. /\ rf.life = ctx[Server].life /\ rf.t_hello = ctx[Server].t_hello
        /\ rf.header = ctx[Server].header /\ rf.push_ready = ctx[Server].push_ready
        /\ rf.pull = ctx[Server].pull + 1 /\ rf.push = ctx[Server].push + 1
        /\ rf.state = "ERROR"
    BY <1>3 DEF CtxSet
  <2>2. rf.pull > 0
    BY <1>3, <2>1
  <2>. HIDE DEF rf
  <2>. QED
    BY <1>1, <1>2, <1>5, <2>1, <2>2, RunningKeeps
<1>. QED
  BY <1>2, <1>4, <1>5

LEMMA RecvAuthOkKeeps == SessionInv /\ RecvAuthOk => SessionInv'
<1>. SUFFICES ASSUME SessionInv, RecvAuthOk
              PROVE  SessionInv'
  OBVIOUS
<1>. USE EndFacts
<1>. DEFINE r == [ctx[Client] EXCEPT !.pull = @ + 1, !.state = "READY", !.auth_complete = TRUE]
<1>1. /\ TypeOK /\ PhaseOK(Client) /\ Running(Client) /\ Opens(Client, Frame(Client))
  BY DEF SessionInv, PhaseInv, RecvAuthOk, Unsealed, Running
<1>2. TypeOK' /\ Reads(Client) /\ Still(Client) /\ Moves(Client, r)
  BY <1>1, RecvAuthOkEffect
<1>3. ctx[Client] \in CtxSet /\ ctx[Client].pull \in Nat
  BY <1>1, RunningFacts
<1>4. /\ r.life = ctx[Client].life /\ r.t_hello = ctx[Client].t_hello
      /\ r.header = ctx[Client].header /\ r.push_ready = ctx[Client].push_ready
      /\ r.pull = ctx[Client].pull + 1 /\ r.push = ctx[Client].push
      /\ r.state = "READY"
  BY <1>3 DEF CtxSet
<1>5. r.pull > 0
  BY <1>3, <1>4
<1>. HIDE DEF r
<1>. QED
  BY <1>1, <1>2, <1>4, <1>5, RunningKeeps

LEMMA DecideKeeps == SessionInv /\ Decide => SessionInv'
<1>. SUFFICES ASSUME SessionInv, Decide
              PROVE  SessionInv'
  OBVIOUS
<1>. USE EndFacts
<1>. DEFINE ra == [ctx[Server] EXCEPT !.auth_awaiting_decide = FALSE,
                             !.auth_decided = TRUE, !.auth_complete = TRUE,
                             !.push = @ + 1, !.state = "READY"]
            rr == [ctx[Server] EXCEPT !.auth_awaiting_decide = FALSE,
                             !.auth_decided = TRUE,
                             !.push = @ + 1, !.state = "ERROR"]
<1>1. /\ TypeOK /\ PhaseInv /\ PhaseOK(Server) /\ Running(Server)
      /\ ctx[Server].state = "AUTH" /\ ctx[Server].auth_awaiting_decide
  BY DEF SessionInv, PhaseInv, Decide, AuthAccept, AuthReject, Running
<1>2. ctx[Server] \in CtxSet /\ ctx[Server].pull \in Nat /\ ctx[Server].pull > 0
  BY <1>1, RunningFacts DEF PhaseOK
<1>3. CASE AuthAccept
  <2>1. TypeOK' /\ Sends(Server, Sealed(Server, "AUTH_OK", NoSig)) /\ Still(Client)
        /\ Moves(Server, ra)
    BY <1>1, <1>3, AuthAcceptEffect
  <2>2. /\ ra.life = ctx[Server].life /\ ra.t_hello = ctx[Server].t_hello
        /\ ra.header = ctx[Server].header /\ ra.push_ready = ctx[Server].push_ready
        /\ ra.pull = ctx[Server].pull /\ ra.push = ctx[Server].push + 1
        /\ ra.state = "READY"
    BY <1>2 DEF CtxSet
  <2>. HIDE DEF ra
  <2>. QED
    BY <1>1, <1>2, <2>1, <2>2, RunningKeeps
<1>4. CASE AuthReject
  <2>1. TypeOK' /\ Sends(Server, Sealed(Server, "AUTH_FAIL", NoSig)) /\ Still(Client)
        /\ Moves(Server, rr)
    BY <1>1, <1>4, AuthRejectEffect
  <2>2. /\ rr.life = ctx[Server].life /\ rr.t_hello = ctx[Server].t_hello
        /\ rr.header = ctx[Server].header /\ rr.push_ready = ctx[Server].push_ready
        /\ rr.pull = ctx[Server].pull /\ rr.push = ctx[Server].push + 1
        /\ rr.state = "ERROR"
    BY <1>2 DEF CtxSet
  <2>. HIDE DEF rr
  <2>. QED
    BY <1>1, <1>2, <2>1, <2>2, RunningKeeps
<1>. QED
  BY <1>3, <1>4 DEF Decide

LEMMA DisconnectKeeps == ASSUME NEW e \in Ends PROVE SessionInv /\ Disconnect(e) => SessionInv'
<1>. SUFFICES ASSUME SessionInv, Disconnect(e)
              PROVE  SessionInv'
  OBVIOUS
<1>. DEFINE r == [ctx[e] EXCEPT !.push = @ + 1, !.state = "DRAINING"]
<1>1. TypeOK /\ PhaseOK(e)
  BY DEF SessionInv, PhaseInv
<1>2. /\ TypeOK'
      /\ \/ Still(e) /\ Still(Peer(e)) /\ Stops(e)
         \/ /\ ctx[e].state \in {"AUTH", "READY"}
            /\ Sends(e, Sealed(e, "DISCONNECT", NoSig)) /\ Still(Peer(e)) /\ Moves(e, r)
  BY <1>1, DisconnectEffect
<1>3. CASE Still(e) /\ Still(Peer(e)) /\ Stops(e)
  BY <1>2, <1>3, StopKeeps
<1>4. CASE /\ ctx[e].state \in {"AUTH", "READY"}
           /\ Sends(e, Sealed(e, "DISCONNECT", NoSig)) /\ Still(Peer(e)) /\ Moves(e, r)
  <2>1. Running(e)
    BY <1>4 DEF Running
  <2>2. /\ ctx[e] \in CtxSet /\ ctx[e].push \in Nat
        /\ ctx[e].auth_awaiting_decide \/ ctx[e].auth_complete => ctx[e].pull > 0
    BY <1>1, <2>1, RunningFacts DEF PhaseOK
  <2>3. /\ r.life = ctx[e].life /\ r.t_hello = ctx[e].t_hello
        /\ r.header = ctx[e].header /\ r.push_ready = ctx[e].push_ready
        /\ r.pull = ctx[e].pull /\ r.push = ctx[e].push + 1
        /\ r.state = "DRAINING" /\ r.auth_complete = ctx[e].auth_complete
        /\ r.auth_awaiting_decide = ctx[e].auth_awaiting_decide
    BY <2>2 DEF CtxSet
  <2>4. r.push > 0
    BY <2>2, <2>3
  <2>5. r.auth_awaiting_decide \/ r.auth_complete => r.pull > 0
    BY <2>2, <2>3
  <2>. HIDE DEF r
  <2>. QED
    BY <1>2, <1>4, <2>1, <2>3, <2>4, <2>5, RunningKeeps
<1>. QED
  BY <1>2, <1>3, <1>4

----------------------------------------------------------------------------
(* New lives *)

LEMMA FirstOutputType ==
  ASSUME NEW e \in Ends, NEW life \in Lives
  PROVE  Hello(life, NoSig) \in FrameSet /\ FirstOutput(e, life) \in Seq(FrameSet)
<1>1. Hello(life, NoSig) \in FrameSet
  BY DEF Hello, NoSig, SigSet, FrameSet
<1>. QED
  BY <1>1 DEF FirstOutput

\* handshake_start puts the client's HELLO behind what is still on the wire.
LEMMA StreamRestart ==
  ASSUME NEW w \in Seq(FrameSet), NEW e \in Ends, NEW life \in Lives, NEW n \in Nat,
         n = (IF e = Client THEN 1 ELSE 0), Ordered(w), SentUpTo(w, life, 0)
  PROVE  /\ Ordered(w \o FirstOutput(e, life))
         /\ SentUpTo(w \o FirstOutput(e, life), life, n)
         /\ Len(w \o FirstOutput(e, life)) = Len(w) + n
         /\ \A l, r \in Nat :
              ReadUpTo(w, l, r) /\ Balanced(w, life, 0, l, r) =>
                /\ ReadUpTo(w \o FirstOutput(e, life), l, r)
                /\ Balanced(w \o FirstOutput(e, life), life, n, l, r)
<1>1. CASE e = Client
  <2>. DEFINE f == Hello(life, NoSig)
  <2>1. f \in FrameSet /\ FirstOutput(e, life) = <<f>>
    BY <1>1, FirstOutputType DEF FirstOutput
  <2>2. f.life = life /\ Place(f) = 0
    BY DEF Hello, Place
  <2>. HIDE DEF f
  <2>3. w \o <<f>> = Append(w, f) /\ Len(Append(w, f)) = Len(w) + 1
    BY <2>1, AppendIsConcat, AppendProperties
  <2>4. /\ Ordered(Append(w, f)) /\ SentUpTo(Append(w, f), f.life, 0 + 1)
        /\ \A l, r \in Nat :
             ReadUpTo(w, l, r) /\ Balanced(w, f.life, 0, l, r) =>
               ReadUpTo(Append(w, f), l, r) /\ Balanced(Append(w, f), f.life, 0 + 1, l, r)
    BY <2>1, <2>2, StreamAppend
  <2>5. n = 1 /\ 0 + 1 = 1
    BY <1>1
  <2>. QED
    BY <2>1, <2>2, <2>3, <2>4, <2>5
<1>2. CASE e # Client
  <2>1. FirstOutput(e, life) = <<>> /\ n = 0 /\ Len(w) \in Nat
    BY <1>2, LenProperties DEF FirstOutput
  <2>2. w \o <<>> = w
    BY ConcatEmptySeq
  <2>. QED
    BY <2>1, <2>2
<1>. QED
  BY <1>1, <1>2

LEMMA FreshPhase ==
  ASSUME NEW e \in Ends, NEW life \in Lives, ctx'[e] = Fresh(life)
  PROVE  /\ PhaseOK(e)' /\ ~InSession(e)' /\ ctx'[e].life = life
         /\ SentCount(e)' = IF e = Client THEN 1 ELSE 0
<1>1. life \in Nat
  BY HandshakeAssumption DEF Lives
<1>2. /\ ctx'[e].state = "HELLO" /\ ctx'[e].life = life
      /\ ctx'[e].t_hello = None /\ ctx'[e].push = 0 /\ ctx'[e].pull = 0
      /\ ctx'[e].push_ready = FALSE
      /\ ctx'[e].auth_awaiting_decide = FALSE
      /\ ctx'[e].auth_decided = FALSE /\ ctx'[e].auth_complete = FALSE
  BY <1>1, FreshFacts
<1>3. ~InSession(e)' /\ ~Running(e)'
  BY <1>2 DEF InSession, Running
<1>. QED
  BY <1>2, <1>3 DEF PhaseOK, SentCount, Early

\* sodchan_reset: the stream is cut at what is on the wire, the peer's session is
\* left as it is.
LEMMA ResetKeeps == ASSUME NEW e \in Ends PROVE SessionInv /\ Reset(e) => SessionInv'
<1>. SUFFICES ASSUME SessionInv, Reset(e)
              PROVE  SessionInv'
  OBVIOUS
<1>. DEFINE life == ctx[e].life + 1
            q == Peer(e)
            n == IF e = Client THEN 1 ELSE 0
            G == wire[e] \o FirstOutput(e, life)
<1>1. /\ TypeOK /\ q \in Ends /\ Peer(q) = e /\ PhaseOK(q) /\ StreamOK(e) /\ StreamOK(q)
      /\ ctx[e].life \in Nat /\ ctx[e].life > 0
      /\ wire[e] \in Seq(FrameSet) /\ out[e] \in Seq(FrameSet)
  BY EndFacts, TypeParts, HandshakeAssumption
     DEF SessionInv, PhaseInv, StreamInv, TypeCtx, TypeIO, CtxSet, Lives
<1>2. /\ TypeOK' /\ life \in Lives /\ Moves(e, Fresh(life)) /\ Still(q)
      /\ Frames(e)' = G
  BY <1>1, ResetEffect
<1>3. ctx'[e] = Fresh(life) /\ ctx'[q] = ctx[q]
  BY <1>1, <1>2, TypeParts, MovesFacts
<1>4. PhaseOK(e)' /\ ~InSession(e)' /\ ctx'[e].life = life /\ SentCount(e)' = n
  BY <1>2, <1>3, FreshPhase
<1>5. PhaseOK(q)'
  BY <1>1, <1>2, <1>3, <1>4, OtherPhase
<1>6. Interrupted'
  BY <1>1, <1>4 DEF Interrupted
<1>7. StreamOK(q)'
  BY <1>1, <1>2, <1>3, <1>4, <1>6, SameCtx DEF StreamOK, Still
<1>8. StreamOK(e)'
  <2>. DEFINE w == wire[e]  o == out[e]  m == SentCount(e)
  <2>1. /\ w \in Seq(FrameSet) /\ o \in Seq(FrameSet) /\ Frames(e) = w \o o
        /\ m \in Nat /\ n \in Nat /\ ctx[e].life \in Nat
    BY <1>1, StreamParts DEF Frames
  <2>2. /\ Ordered(w \o o) /\ SentUpTo(w \o o, ctx[e].life, m)
        /\ InSession(q) =>
             /\ ReadUpTo(w \o o, PeerLife(q), ReadCount(q))
             /\ Balanced(w \o o, ctx[e].life, m, PeerLife(q), ReadCount(q))
        /\ PeerLife(q) \in Nat /\ ReadCount(q) \in Nat
    BY <1>1, <2>1, StreamParts
  <2>. HIDE DEF w, o, m
  <2>3. /\ Ordered(w) /\ SentUpTo(w, life, 0)
        /\ InSession(q) => /\ ReadUpTo(w, PeerLife(q), ReadCount(q))
                           /\ Balanced(w, life, 0, PeerLife(q), ReadCount(q))
    BY <2>1, <2>2, StreamCut
  <2>4. G = w \o FirstOutput(e, life)
    BY DEF w
  <2>. HIDE DEF G, n, life
  <2>5. /\ Ordered(G) /\ SentUpTo(G, life, n)
        /\ InSession(q) => /\ ReadUpTo(G, PeerLife(q), ReadCount(q))
                           /\ Balanced(G, life, n, PeerLife(q), ReadCount(q))
    BY <1>2, <2>1, <2>2, <2>3, <2>4, StreamRestart DEF n
  <2>6. /\ InSession(q)' <=> InSession(q)
        /\ PeerLife(q)' = PeerLife(q) /\ ReadCount(q)' = ReadCount(q)
    BY <1>1, <1>3, SameCtx
  <2>7. /\ Ordered(Frames(e)') /\ SentUpTo(Frames(e)', ctx'[e].life, SentCount(e)')
        /\ InSession(q)' =>
             /\ ReadUpTo(Frames(e)', PeerLife(q)', ReadCount(q)')
             /\ Balanced(Frames(e)', ctx'[e].life, SentCount(e)', PeerLife(q)', ReadCount(q)')
    BY <1>2, <1>4, <2>5, <2>6
  <2>. QED
    BY <1>6, <2>7 DEF StreamOK
<1>. QED
  BY <1>2, <1>4, <1>5, <1>7, <1>8, EndFacts DEF SessionInv, PhaseInv, StreamInv

LEMMA FirstStream ==
  ASSUME NEW e \in Ends, NEW life \in Lives
  PROVE  /\ Ordered(FirstOutput(e, life))
         /\ SentUpTo(FirstOutput(e, life), life, IF e = Client THEN 1 ELSE 0)
         /\ Len(FirstOutput(e, life)) = IF e = Client THEN 1 ELSE 0
<1>1. CASE e = Client
  <2>. DEFINE f == Hello(life, NoSig)
  <2>1. FirstOutput(e, life) = <<f>> /\ f.life = life /\ Place(f) = 0
    BY <1>1 DEF FirstOutput, Hello, Place
  <2>. HIDE DEF f
  <2>2. Len(<<f>>) = 1 /\ DOMAIN <<f>> = {1} /\ <<f>>[1] = f
    OBVIOUS
  <2>3. Ordered(<<f>>)
    BY <2>2 DEF Ordered
  <2>4. life \in Nat
    BY HandshakeAssumption DEF Lives
  <2>5. SentUpTo(<<f>>, life, 1)
    BY <2>1, <2>2, <2>4 DEF SentUpTo
  <2>. QED
    BY <1>1, <2>1, <2>2, <2>3, <2>5
<1>2. CASE e # Client
  <2>1. FirstOutput(e, life) = <<>> /\ Len(<<>>) = 0 /\ DOMAIN <<>> = {}
    BY <1>2 DEF FirstOutput
  <2>2. Ordered(<<>>) /\ SentUpTo(<<>>, life, 0)
    BY <2>1 DEF Ordered, SentUpTo
  <2>. QED
    BY <1>2, <2>1, <2>2
<1>. QED
  BY <1>1, <1>2

\* A pair of new contexts with nothing on the wire.
LEMMA FreshPair ==
  ASSUME TypeOK',
         \A e \in Ends : \E life \in Lives :
           ctx'[e] = Fresh(life) /\ Frames(e)' = FirstOutput(e, life)
  PROVE  SessionInv'
<1>1. ASSUME NEW e \in Ends
      PROVE  PhaseOK(e)' /\ StreamOK(e)'
  <2>. DEFINE n == IF e = Client THEN 1 ELSE 0
  <2>1. PICK life \in Lives : ctx'[e] = Fresh(life) /\ Frames(e)' = FirstOutput(e, life)
    BY <1>1
  <2>2. ~InSession(Peer(e))'
    BY <1>1, EndFacts, FreshPhase
  <2>3. PhaseOK(e)' /\ ctx'[e].life = life /\ SentCount(e)' = n
    BY <2>1, FreshPhase
  <2>6. /\ Ordered(FirstOutput(e, life)) /\ SentUpTo(FirstOutput(e, life), life, n)
        /\ Len(FirstOutput(e, life)) = n
    BY FirstStream
  <2>7. /\ Ordered(Frames(e)') /\ SentUpTo(Frames(e)', ctx'[e].life, SentCount(e)')
        /\ Len(Frames(e)') = SentCount(e)'
    BY <2>1, <2>3, <2>6
  <2>. QED
    BY <2>2, <2>3, <2>7 DEF StreamOK
<1>. QED
  BY <1>1 DEF SessionInv, PhaseInv, StreamInv

LEMMA ReconnectKeeps == SessionInv /\ Reconnect => SessionInv'
BY ReconnectEffect, FreshPair DEF SessionInv

----------------------------------------------------------------------------
(* The invariant and what it gives *)

LEMMA InitType == Init => TypeOK
<1>. SUFFICES ASSUME Init
              PROVE  TypeOK
  OBVIOUS
<1>1. 1 \in Lives /\ 0 <= EventCap
  BY HandshakeAssumption DEF Lives
<1>2. Fresh(1) \in CtxSet /\ <<>> \in Seq(FrameSet) /\ <<>> \in Seq(EventTypes)
      /\ Len(<<>>) = 0
  BY <1>1, EmptySeq DEF Fresh, CtxSet, States
<1>3. \A e \in Ends : FirstOutput(e, 1) \in Seq(FrameSet)
  BY <1>1, FirstOutputType
<1>4. TypeCtx /\ TypeIO
  BY <1>2, <1>3 DEF Init, TypeCtx, TypeIO
<1>5. TypeHost
  BY <1>1, <1>2 DEF Init, TypeHost
<1>6. TypePast /\ TypeRest
  BY DEF Init, TypePast, TypeRest, Causes
<1>. QED
  BY <1>4, <1>5, <1>6, TypeParts

LEMMA InitFrames ==
  ASSUME Init, NEW e \in Ends
  PROVE  /\ 1 \in Lives /\ ctx[e] = Fresh(1)
         /\ Frames(e) = FirstOutput(e, 1)
<1>1. 1 \in Lives
  BY HandshakeAssumption DEF Lives
<1>2. FirstOutput(e, 1) \in Seq(FrameSet)
  BY <1>1, FirstOutputType
<1>3. Frames(e) = <<>> \o FirstOutput(e, 1)
  BY DEF Init, Frames
<1>. QED
  BY <1>1, <1>2, <1>3, ConcatEmptySeq DEF Init

LEMMA InitSession == Init => SessionInv
<1>. SUFFICES ASSUME Init
              PROVE  SessionInv
  OBVIOUS
<1>1. ASSUME NEW e \in Ends
      PROVE  PhaseOK(e) /\ StreamOK(e)
  <2>1. /\ 1 \in Lives /\ Frames(e) = FirstOutput(e, 1)
        /\ ctx[e] = Fresh(1) /\ ctx[Peer(e)] = Fresh(1) /\ 1 \in Nat
    BY EndFacts, InitFrames
  <2>2. \A x \in {e, Peer(e)} :
          /\ ctx[x].state = "HELLO" /\ ctx[x].life = 1
          /\ ctx[x].t_hello = None /\ ctx[x].push = 0 /\ ctx[x].pull = 0
          /\ ctx[x].push_ready = FALSE
          /\ ctx[x].auth_awaiting_decide = FALSE
          /\ ctx[x].auth_decided = FALSE /\ ctx[x].auth_complete = FALSE
    <3>1. \A x \in {e, Peer(e)} : ctx[x] = Fresh(1)
      BY <2>1
    <3>. QED
      BY <3>1 DEF Fresh
  <2>3. \A x \in {e, Peer(e)} : ~InSession(x) /\ ~Running(x)
    BY <2>2 DEF InSession, Running
  <2>4. SentCount(e) = IF e = Client THEN 1 ELSE 0
    BY <2>2 DEF SentCount
  <2>5. PhaseOK(e)
    BY <2>1, <2>2, <2>3 DEF PhaseOK, Early
  <2>6. /\ Ordered(Frames(e)) /\ SentUpTo(Frames(e), ctx[e].life, SentCount(e))
        /\ Len(Frames(e)) = SentCount(e)
    BY <2>1, <2>2, <2>4, FirstStream
  <2>. QED
    BY <2>3, <2>5, <2>6 DEF StreamOK
<1>. QED
  BY <1>1, InitType DEF SessionInv, PhaseInv, StreamInv

\* Nothing but the queues changes.
LEMMA QuietKeeps ==
  ASSUME SessionInv, TypeOK', ctx' = ctx, \A e \in Ends : Still(e)
  PROVE  SessionInv'
<1>1. ASSUME NEW e \in Ends
      PROVE  PhaseOK(e)' /\ StreamOK(e)'
  <2>1. /\ TypeOK /\ Peer(e) \in Ends /\ PhaseOK(e) /\ StreamOK(e)
        /\ ctx[Peer(e)].life \in Nat
    BY EndFacts, TypeParts, CountTypes DEF SessionInv, PhaseInv, StreamInv
  <2>2. PhaseOK(e)'
    BY <2>1, OtherPhase
  <2>3. StreamOK(e)'
    BY <2>1, SameCtx, SteadyStep
  <2>. QED
    BY <2>2, <2>3
<1>. QED
  BY <1>1 DEF SessionInv, PhaseInv, StreamInv

LEMMA StutterType == TypeOK /\ UNCHANGED vars => TypeOK' /\ \A e \in Ends : Still(e)
BY DEF vars, host, past, TypeOK, Still, Frames

LEMMA SessionStep == SessionInv /\ [Next]_vars => SessionInv'
<1>. SUFFICES ASSUME SessionInv, [Next]_vars
              PROVE  SessionInv'
  OBVIOUS
<1>1. TypeOK
  BY DEF SessionInv
<1>2. ASSUME NEW e \in Ends, Recv(e)
      PROVE  SessionInv'
  <2>1. CASE RecvServerHello \/ RecvServerHeader \/ RecvAuthOk
    BY <2>1, RecvServerHelloKeeps, RecvServerHeaderKeeps, RecvAuthOkKeeps
  <2>2. CASE RecvClientHello \/ RecvClientHeader \/ RecvAuthDevice
    BY <2>2, RecvClientHelloKeeps, RecvClientHeaderKeeps, RecvAuthDeviceKeeps
  <2>3. CASE RecvAuthFail
    BY <1>1, <2>3, EndFacts, RecvAuthFailEffect, StopKeeps DEF Halts
  <2>4. CASE RecvUnsealable(e) \/ RecvDisconnect(e) \/ RecvLateAuth(e)
    BY <1>1, <1>2, <2>4, RecvUnsealableEffect, RecvDisconnectEffect, RecvLateAuthEffect,
       StopKeeps DEF Halts
  <2>. QED
    BY <1>2, <2>1, <2>2, <2>3, <2>4 DEF Recv
<1>3. ASSUME NEW e \in Ends, NextEvent(e) \/ GetOutput(e)
      PROVE  SessionInv'
  BY <1>1, <1>3, TransportEffect, QuietKeeps
<1>4. ASSUME NEW e \in Ends, Disconnect(e) \/ Reset(e)
      PROVE  SessionInv'
  BY <1>4, DisconnectKeeps, ResetKeeps
<1>5. CASE UNCHANGED vars
  BY <1>1, <1>5, StutterType, QuietKeeps DEF vars
<1>. QED
  BY <1>2, <1>3, <1>4, <1>5, DecideKeeps, ReconnectKeeps DEF Next

LEMMA SessionInvariant == Spec => []SessionInv
<1>. QED
  BY InitSession, SessionStep, PTL DEF Spec

\* Every variable of the handshake stays in its type: states, counters and keys,
\* the frames of queue_local_hello, queue_ss_header and ss_push_and_frame, and an
\* event ring that never exceeds its size, whatever the hosts do.
THEOREM HandshakeTypeCorrect == Spec => []TypeOK
<1>1. SessionInv => TypeOK
  BY DEF SessionInv
<1>. QED
  BY <1>1, SessionInvariant, PTL

\* What is in flight towards a running end, from the peer's life it is in a
\* session with.
LEMMA InFlight ==
  ASSUME SessionInv, NEW e \in Ends, Running(Peer(e)), ctx[Peer(e)].header = ctx[e].life
  PROVE  /\ Len(Frames(e)) = ctx[e].push - ctx[Peer(e)].pull
         /\ \A i \in DOMAIN Frames(e) : Frames(e)[i].seq = ctx[Peer(e)].pull + i - 1
<1>. DEFINE q == Peer(e)
            F == Frames(e)
<1>1. TypeOK /\ q \in Ends /\ PhaseOK(e) /\ PhaseOK(q) /\ StreamOK(e) /\ Peer(q) = e
  BY EndFacts DEF SessionInv, PhaseInv, StreamInv
<1>2. /\ InSession(q) /\ ctx[q].header = PeerLife(q) /\ ctx[q].pull \in Nat
      /\ ReadCount(q) = ctx[q].pull + 2
  BY <1>1, RunningFacts
<1>3. /\ F \in Seq(FrameSet) /\ SentUpTo(F, ctx[e].life, SentCount(e))
      /\ ReadUpTo(F, ctx[e].life, ctx[q].pull + 2)
      /\ Balanced(F, ctx[e].life, SentCount(e), ctx[e].life, ctx[q].pull + 2)
      /\ SentCount(e) \in Nat /\ ctx[e].life \in Nat
  BY <1>1, <1>2, StreamParts
<1>4. ctx[e].push \in Nat /\ SentCount(e) = ctx[e].push + 2
  <2>1. ctx[e].push \in Nat
    BY <1>1, TypeParts DEF TypeCtx, CtxSet
  <2>2. Len(F) + (ctx[q].pull + 2) = SentCount(e) /\ Len(F) \in Nat
    BY <1>3, LenProperties DEF Balanced
  <2>3. SentCount(e) >= 2
    BY <1>2, <1>3, <2>2
  <2>4. ctx[e].push_ready
    BY <1>1, <2>1, <2>3 DEF SentCount, PhaseOK
  <2>5. ctx[e].t_hello # None
    BY <1>1, <2>4 DEF PhaseOK
  <2>. QED
    BY <2>1, <2>4, <2>5 DEF SentCount
<1>5. Len(F) = ctx[e].push - ctx[q].pull
  <2>1. Len(F) + (ctx[q].pull + 2) = ctx[e].push + 2 /\ Len(F) \in Nat
    BY <1>3, <1>4, LenProperties DEF Balanced
  <2>2. \A a, b, c \in Nat : a + (b + 2) = c + 2 => a = c - b
    OBVIOUS
  <2>. QED
    BY <1>2, <1>4, <2>1, <2>2
<1>6. ASSUME NEW i \in DOMAIN F
      PROVE  F[i].seq = ctx[q].pull + i - 1
  <2>1. F[i] \in FrameSet /\ i \in Nat /\ i >= 1
    BY <1>3, ElementOfSeq, LenProperties
  <2>2. F[i].life \in Nat /\ Place(F[i]) \in Nat
    BY <2>1, FrameFacts
  <2>3. F[i].life = ctx[e].life
    BY <1>3, <2>2 DEF SentUpTo, ReadUpTo
  <2>4. Place(F[i]) + 1 = ctx[q].pull + 2 + i
    BY <1>3, <2>3 DEF ReadUpTo
  <2>5. Place(F[i]) >= 2
    BY <1>2, <2>1, <2>2, <2>4
  <2>6. F[i].kind = "CIPHER"
    BY <2>1, <2>5, FrameFacts DEF FrameSet
  <2>7. F[i].seq \in Nat /\ Place(F[i]) = F[i].seq + 2
    BY <2>1, <2>6, FrameFacts
  <2>. QED
    BY <1>2, <2>1, <2>4, <2>7
<1>. QED
  BY <1>5, <1>6

\* The secretstreams never get out of step: between the pull counter of a running
\* end and the push counter of its peer lie exactly the frames in flight, in order
\* and without a gap, for any number of resets and reconnections of either end.
THEOREM StreamsInSync == Spec => []StreamSync
<1>1. SessionInv => StreamSync
  BY InFlight DEF StreamSync
<1>. QED
  BY <1>1, SessionInvariant, PTL

----------------------------------------------------------------------------
(* Frames in transit *)

LEMMA TransitFacts ==
  ASSUME SessionInv, NEW e \in Ends, NEW f \in InTransit(e)
  PROVE  /\ f \in FrameSet /\ f.life \in Nat /\ ctx[e].life \in Nat
         /\ f.life <= ctx[e].life
<1>1. /\ TypeOK /\ StreamOK(e)
  BY DEF SessionInv, StreamInv
<1>2. PICK i \in DOMAIN Frames(e) : f = Frames(e)[i]
  BY DEF InTransit
<1>3. /\ Frames(e) \in Seq(FrameSet) /\ SentUpTo(Frames(e), ctx[e].life, SentCount(e))
      /\ ctx[e].life \in Nat
  BY <1>1, StreamParts
<1>4. f \in FrameSet
  BY <1>2, <1>3, ElementOfSeq, LenProperties
<1>. QED
  BY <1>2, <1>3, <1>4, FrameFacts DEF SentUpTo

LEMMA ReadTransit ==
  ASSUME TypeOK, NEW e \in Ends, Reads(e)
  PROVE  /\ Frame(e) \in InTransit(Peer(e))
         /\ InTransit(Peer(e))' \subseteq InTransit(Peer(e))
<1>. DEFINE F == Frames(Peer(e))
<1>1. F \in Seq(FrameSet) /\ F # <<>> /\ Frame(e) = F[1] /\ Frames(Peer(e))' = Tail(F)
  BY TypeParts, EndFacts, FramesType DEF Reads
<1>2. /\ Len(F) \in Nat /\ Len(F) >= 1 /\ DOMAIN F = 1 .. Len(F)
      /\ Len(Tail(F)) = Len(F) - 1 /\ Tail(F) \in Seq(FrameSet)
      /\ \A i \in 1 .. Len(F) - 1 : Tail(F)[i] = F[i + 1]
  BY <1>1, HeadTailProperties, LenProperties, EmptySeq
<1>3. DOMAIN Tail(F) = 1 .. Len(F) - 1
  BY <1>2, LenProperties
<1>4. Frame(e) \in InTransit(Peer(e))
  BY <1>1, <1>2 DEF InTransit
<1>5. \A i \in DOMAIN Tail(F) : i + 1 \in DOMAIN F /\ Tail(F)[i] = F[i + 1]
  BY <1>2, <1>3
<1>6. InTransit(Peer(e))' = {Tail(F)[i] : i \in DOMAIN Tail(F)}
  BY <1>1 DEF InTransit
<1>7. InTransit(Peer(e)) = {F[i] : i \in DOMAIN F}
  BY DEF InTransit
<1>. HIDE DEF F
<1>8. {Tail(F)[i] : i \in DOMAIN Tail(F)} \subseteq {F[i] : i \in DOMAIN F}
  BY <1>5
<1>. QED
  BY <1>4, <1>6, <1>7, <1>8

LEMMA SendTransit ==
  ASSUME TypeOK, NEW e \in Ends, NEW g, Sends(e, g)
  PROVE  InTransit(e)' \subseteq InTransit(e) \cup {g}
<1>. DEFINE F == Frames(e)
<1>1. F \in Seq(FrameSet) /\ g \in FrameSet /\ Frames(e)' = Append(F, g)
  BY TypeParts, FramesType DEF Sends
<1>2. InTransit(e)' = {Append(F, g)[i] : i \in DOMAIN Append(F, g)}
  BY <1>1 DEF InTransit
<1>3. InTransit(e) = {F[i] : i \in DOMAIN F}
  BY DEF InTransit
<1>. HIDE DEF F
<1>4. /\ Len(F) \in Nat /\ DOMAIN F = 1 .. Len(F)
      /\ DOMAIN Append(F, g) = 1 .. Len(F) + 1
      /\ \A i \in 1 .. Len(F) : Append(F, g)[i] = F[i]
      /\ Append(F, g)[Len(F) + 1] = g
  BY <1>1, AppendProperties, LenProperties
<1>5. \A i \in 1 .. Len(F) + 1 : i \in 1 .. Len(F) \/ i = Len(F) + 1
  BY <1>4
<1>. QED
  BY <1>2, <1>3, <1>4, <1>5

LEMMA StillTransit ==
  ASSUME NEW e \in Ends, Still(e)
  PROVE  InTransit(e)' = InTransit(e)
BY DEF Still, InTransit

\* A new life of e: only its HELLO is new.
LEMMA RestartTransit ==
  ASSUME TypeOK, NEW e \in Ends, NEW life \in Lives,
         \/ Frames(e)' = wire[e] \o FirstOutput(e, life)
         \/ Frames(e)' = FirstOutput(e, life)
  PROVE  InTransit(e)' \subseteq
           InTransit(e) \cup (IF e = Client THEN {Hello(life, NoSig)} ELSE {})
<1>. DEFINE w == wire[e]
            o == out[e]
            u == FirstOutput(e, life)
            N == IF e = Client THEN {Hello(life, NoSig)} ELSE {}
<1>1. w \in Seq(FrameSet) /\ o \in Seq(FrameSet) /\ u \in Seq(FrameSet)
  BY TypeParts, FirstOutputType DEF TypeIO
<1>2. \A i \in DOMAIN u : u[i] \in N
  BY DEF FirstOutput
<1>3. InTransit(e) = {(w \o o)[i] : i \in DOMAIN (w \o o)}
  BY DEF InTransit, Frames
<1>4. \/ InTransit(e)' = {(w \o u)[i] : i \in DOMAIN (w \o u)}
      \/ InTransit(e)' = {u[i] : i \in DOMAIN u}
  BY DEF InTransit
<1>. HIDE DEF w, o, u, N
<1>5. /\ Len(w) \in Nat /\ Len(u) \in Nat /\ Len(o) \in Nat /\ DOMAIN u = 1 .. Len(u)
      /\ DOMAIN (w \o u) = 1 .. Len(w) + Len(u)
      /\ DOMAIN (w \o o) = 1 .. Len(w) + Len(o)
      /\ \A i \in 1 .. Len(w) : (w \o u)[i] = w[i] /\ (w \o o)[i] = w[i]
      /\ \A i \in 1 .. Len(w) + Len(u) : i > Len(w) => (w \o u)[i] = u[i - Len(w)]
  BY <1>1, ConcatProperties, LenProperties
<1>6. ASSUME NEW i \in DOMAIN (w \o u)
      PROVE  (w \o u)[i] \in InTransit(e) \cup N
  <2>1. CASE i <= Len(w)
    <3>1. i \in DOMAIN (w \o o) /\ (w \o u)[i] = (w \o o)[i]
      BY <1>5, <1>6, <2>1
    <3>. QED
      BY <1>3, <3>1
  <2>2. CASE i > Len(w)
    <3>1. i - Len(w) \in DOMAIN u /\ (w \o u)[i] = u[i - Len(w)]
      BY <1>5, <1>6, <2>2
    <3>. QED
      BY <1>2, <3>1
  <2>. QED
    BY <1>5, <1>6, <2>1, <2>2
<1>7. InTransit(e)' \subseteq InTransit(e) \cup N
  BY <1>2, <1>4, <1>6
<1>. QED
  BY <1>7 DEF N

----------------------------------------------------------------------------
(* What a step leaves alone *)

\* Contexts go on in their life, never back from Gone nor to HELLO, or start a
\* later one.
Ages ==
  \A e \in Ends :
    \/ /\ ctx'[e].life = ctx[e].life
       /\ ctx[e].state \in Gone => ctx'[e].state \in Gone
       /\ ctx'[e].state = "HELLO" => ctx[e].state = "HELLO"
    \/ ctx'[e].life > ctx[e].life

\* The histories grow.
Grows ==
  /\ cfg' = cfg
  /\ signed \subseteq signed' /\ proofs \subseteq proofs'
  /\ accepted \subseteq accepted' /\ rejected \subseteq rejected'

LEMMA ReachedKeeps ==
  ASSUME TypeOK, TypeOK', Ages, NEW t \in Transcript \cup {None}, Reached(t)
  PROVE  Reached(t)'
<1>1. t.c \in Nat /\ t.s \in Nat
  BY HandshakeAssumption DEF Transcript, None, Lives
<1>2. \A e \in Ends : ctx[e].life \in Nat /\ ctx'[e].life \in Nat /\ ctx'[e].life >= ctx[e].life
  <2>1. \A e \in Ends : ctx[e].life \in Nat /\ ctx'[e].life \in Nat
    BY TypeParts, HandshakeAssumption DEF TypeCtx, CtxSet, Lives
  <2>. QED
    BY <2>1 DEF Ages
<1>. QED
  BY <1>1, <1>2, EndFacts DEF Reached

LEMMA HonestKeeps ==
  ASSUME SessionInv, SessionInv', HonestInv, Ages, Grows, accepted \cap rejected' = {},
         \A e \in Ends : \A f \in InTransit(e)' : f \in InTransit(e) \/ HonestFrame(e, f)'
  PROVE  HonestInv'
<1>1. ASSUME NEW e \in Ends, NEW f \in InTransit(e)
      PROVE  HonestFrame(e, f)'
  <2>1. HonestFrame(e, f)
    BY DEF HonestInv
  <2>2. /\ f \in FrameSet /\ f.life \in Nat /\ ctx[e].life \in Nat /\ f.life <= ctx[e].life
    BY TransitFacts
  <2>3. f.key \in Transcript \cup {None} /\ (Reached(f.key) => Reached(f.key)')
    BY <2>2, ReachedKeeps DEF FrameSet, SessionInv
  <2>4. ctx'[e].life \in Nat
    BY TypeParts, HandshakeAssumption DEF SessionInv, TypeCtx, CtxSet, Lives
  <2>5. f.life = ctx'[e].life /\ (f.life = ctx[e].life => ctx[e].state \in Gone)
          => ctx'[e].state \in Gone
    BY <2>2, <2>4 DEF Ages
  <2>. QED
    BY <2>1, <2>3, <2>5 DEF HonestFrame, Grows
<1>. QED
  BY <1>1 DEF HonestInv

LEMMA SignedKeeps ==
  ASSUME SessionInv, SessionInv', SignedInv, Ages, cfg' = cfg, signed' = signed,
         \A f \in InTransit(Client)' :
           f.kind = "HELLO" => f \in InTransit(Client) \/ f.life > ctx[Client].life,
         \/ ctx'[Client].t_hello \in {None, ctx[Client].t_hello}
         \/ [sk |-> "own", msg |-> ctx'[Client].t_hello] \in signed /\ cfg.pin # "other",
         ctx'[Server].t_hello \in {None, ctx[Server].t_hello}
  PROVE  SignedInv'
<1>1. ASSUME NEW g \in signed
      PROVE  /\ g.msg # None /\ Reached(g.msg)'
             /\ g.msg.s = ctx'[Server].life => ctx'[Server].state # "HELLO"
             /\ \A f \in InTransit(Client)' : f.kind = "HELLO" => g.msg.c < f.life
  <2>1. /\ g.msg # None /\ Reached(g.msg)
        /\ g.msg.s = ctx[Server].life => ctx[Server].state # "HELLO"
        /\ \A f \in InTransit(Client) : f.kind = "HELLO" => g.msg.c < f.life
    BY DEF SignedInv
  <2>2. g.msg \in Transcript \cup {None} /\ g.msg.c \in Nat /\ g.msg.s \in Nat
    <3>1. g.msg \in Transcript \cup {None}
      BY TypeParts DEF SessionInv, TypePast, SigSet
    <3>. QED
      BY <3>1, HandshakeAssumption DEF Transcript, None, Lives
  <2>3. Reached(g.msg)'
    BY <2>1, <2>2, ReachedKeeps DEF SessionInv
  <2>4. \A e \in Ends : ctx[e].life \in Nat /\ ctx'[e].life \in Nat
    BY TypeParts, HandshakeAssumption DEF SessionInv, TypeCtx, CtxSet, Lives
  <2>5. g.msg.s = ctx'[Server].life => ctx'[Server].state # "HELLO"
    BY <2>1, <2>2, <2>4, EndFacts DEF Reached, Ages
  <2>6. ASSUME NEW f \in InTransit(Client)', f.kind = "HELLO"
        PROVE  g.msg.c < f.life
    <3>1. CASE f \in InTransit(Client)
      BY <2>1, <2>6, <3>1
    <3>2. CASE f.life > ctx[Client].life
      <4>1. f.life \in Nat
        <5>1. TypeIO'
          BY TypeParts DEF SessionInv
        <5>2. Frames(Client)' \in Seq(FrameSet)
          BY <5>1, EndFacts, ConcatProperties DEF TypeIO, Frames
        <5>3. PICK i \in DOMAIN (Frames(Client)') : f = Frames(Client)'[i]
          BY DEF InTransit
        <5>. QED
          BY <5>2, <5>3, ElementOfSeq, LenProperties, FrameFacts
      <4>. QED
        BY <2>1, <2>2, <2>4, <3>2, <4>1, EndFacts DEF Reached
    <3>. QED
      BY <2>6, <3>1, <3>2
  <2>. QED
    BY <2>1, <2>3, <2>5, <2>6
<1>2. \A g, h \in signed' :
        /\ g.msg.s = h.msg.s => g.msg.c = h.msg.c
        /\ g.msg.s < h.msg.s => g.msg.c < h.msg.c
  BY DEF SignedInv
<1>3. ctx'[Client].t_hello # None =>
        [sk |-> "own", msg |-> ctx'[Client].t_hello] \in signed' /\ cfg'.pin # "other"
  BY DEF SignedInv
<1>4. ctx'[Server].t_hello # None =>
        [sk |-> cfg'.serverSk, msg |-> ctx'[Server].t_hello] \in signed'
  BY DEF SignedInv
<1>. QED
  BY <1>1, <1>2, <1>3, <1>4 DEF SignedInv

LEMMA DecidedKeeps ==
  ASSUME SessionInv, SessionInv', DecidedInv, Ages, UNCHANGED <<accepted, rejected>>,
         ctx'[Server].life = ctx[Server].life /\ ctx[Server].auth_decided
           => ctx'[Server].auth_decided,
         DeviceProven', ClientReadyIsAccepted'
  PROVE  DecidedInv'
<1>1. ASSUME NEW t \in accepted \cup rejected
      PROVE  /\ t.s <= ctx'[Server].life
             /\ t.s = ctx'[Server].life => ctx'[Server].auth_decided
  <2>1. /\ t.s <= ctx[Server].life
        /\ t.s = ctx[Server].life => ctx[Server].auth_decided
    BY DEF DecidedInv
  <2>2. t.s \in Nat
    BY TypeParts, HandshakeAssumption DEF SessionInv, TypePast, Transcript, Lives
  <2>3. \A e \in Ends : ctx[e].life \in Nat /\ ctx'[e].life \in Nat
    BY TypeParts, HandshakeAssumption DEF SessionInv, TypeCtx, CtxSet, Lives
  <2>4. \/ ctx'[Server].life = ctx[Server].life
        \/ ctx'[Server].life > ctx[Server].life
    BY EndFacts DEF Ages
  <2>. QED
    BY <2>1, <2>2, <2>3, <2>4, EndFacts
<1>. QED
  BY <1>1 DEF DecidedInv

----------------------------------------------------------------------------
(* Steps that decide nothing *)

AuthInv == HonestInv /\ SignedInv /\ DecidedInv

\* What e knows of the session and of its authentication is kept or forgotten.
SameAuth(e) ==
  \/ /\ ctx'[e].t_hello = ctx[e].t_hello
     /\ ctx'[e].auth_awaiting_decide = ctx[e].auth_awaiting_decide
     /\ ctx'[e].auth_decided = ctx[e].auth_decided
     /\ ctx'[e].auth_complete = ctx[e].auth_complete
  \/ /\ ctx'[e].t_hello = None /\ ctx'[e].life # ctx[e].life
     /\ ~ctx'[e].auth_awaiting_decide /\ ~ctx'[e].auth_decided /\ ~ctx'[e].auth_complete

LEMMA SameProven ==
  ASSUME DecidedInv, proofs \subseteq proofs', UNCHANGED <<accepted, rejected>>
  PROVE  /\ SameAuth(Server) => DeviceProven'
         /\ SameAuth(Client) => ClientReadyIsAccepted'
<1>1. DeviceProven /\ ClientReadyIsAccepted
  BY DEF DecidedInv
<1>2. SameAuth(Server) => DeviceProven'
  BY <1>1, Zenon DEF SameAuth, DeviceProven
<1>3. SameAuth(Client) => ClientReadyIsAccepted'
  BY <1>1, Zenon DEF SameAuth, ClientReadyIsAccepted
<1>. QED
  BY <1>2, <1>3

LEMMA AuthKeeps ==
  ASSUME SessionInv, SessionInv', AuthInv, Ages, Grows,
         UNCHANGED <<signed, accepted, rejected>>,
         SameAuth(Client), SameAuth(Server),
         \A e \in Ends : \A f \in InTransit(e)' :
           \/ f \in InTransit(e)
           \/ /\ HonestFrame(e, f)'
              /\ e = Client /\ f.kind = "HELLO" => f.life > ctx[e].life
  PROVE  AuthInv'
<1>1. accepted \cap rejected' = {}
  BY DEF AuthInv, DecidedInv
<1>2. HonestInv'
  BY <1>1, HonestKeeps DEF AuthInv
<1>3. \A e \in Ends : ctx'[e].t_hello \in {None, ctx[e].t_hello}
  BY EndFacts DEF SameAuth
<1>4. SignedInv'
  BY <1>3, EndFacts, SignedKeeps DEF AuthInv, Grows
<1>5. ctx'[Server].life = ctx[Server].life /\ ctx[Server].auth_decided
        => ctx'[Server].auth_decided
  BY Zenon DEF SameAuth
<1>6. DecidedInv'
  BY <1>5, SameProven, DecidedKeeps DEF AuthInv, Grows
<1>. QED
  BY <1>2, <1>4, <1>6 DEF AuthInv

\* What ss_push_and_frame makes of a PDU is honest.
LEMMA SealedHonest ==
  ASSUME SessionInv, SessionInv', Ages, cfg' = cfg, NEW e \in Ends, InSession(e),
         NEW pdu, NEW sig, NEW f, f = Sealed(e, pdu, sig),
         pdu \in (IF e = Client THEN ClientPdus ELSE ServerPdus),
         pdu = "AUTH_DEVICE" =>
           /\ ctx[e].push = 0 /\ sig \in proofs' /\ cfg.deviceSk # "absent"
           /\ sig = [sk |-> cfg.deviceSk, msg |-> ctx[e].t_hello],
         pdu \in {"AUTH_OK", "AUTH_FAIL"} => ctx[e].push = 0,
         pdu = "AUTH_OK" => ctx[e].t_hello \in accepted' \ rejected',
         pdu = "AUTH_FAIL" => rejected' # {} \/ cfg.deviceSk = "other",
         pdu = "DISCONNECT" => ctx'[e].state \in Gone
  PROVE  HonestFrame(e, f)' /\ f.kind # "HELLO"
<1>1. /\ f.kind = "CIPHER" /\ f.key = ctx[e].t_hello /\ f.pdu = pdu /\ f.sig = sig
      /\ f.seq = ctx[e].push
  BY DEF Sealed, Cipher
<1>2. /\ TypeOK /\ ctx[e].t_hello # None
      /\ OwnLife(e) = ctx[e].life /\ PeerLife(e) <= ctx[Peer(e)].life
  BY DEF SessionInv, PhaseInv, PhaseOK
<1>3. Reached(ctx[e].t_hello)
  <2>1. ctx[e].life \in Nat
    BY <1>2, TypeParts, CountTypes
  <2>. QED
    BY <1>2, <2>1, EndFacts DEF Reached, OwnLife, PeerLife
<1>4. f.key \in Transcript \cup {None}
  BY <1>1, <1>2, TypeParts DEF TypeCtx, CtxSet
<1>5. Reached(f.key)'
  BY <1>1, <1>3, <1>4, ReachedKeeps DEF SessionInv
<1>. QED
  BY <1>1, <1>2, <1>5 DEF HonestFrame

\* HELLOs of the client and stream headers carry no promise.
LEMMA PlainHonest ==
  ASSUME NEW e \in Ends, NEW f,
         f.kind = "HEADER" \/ (f.kind = "HELLO" /\ e = Client)
  PROVE  HonestFrame(e, f)'
BY EndFacts DEF HonestFrame

----------------------------------------------------------------------------
(* One step of one end *)

LEMMA MoveAges ==
  ASSUME TypeOK, NEW e \in Ends, NEW r, Moves(e, r), r.life = ctx[e].life,
         ctx[e].state \in Gone => r.state \in Gone, r.state # "HELLO"
  PROVE  Ages
<1>1. ctx'[e] = r /\ ctx'[Peer(e)] = ctx[Peer(e)]
  BY TypeParts, MovesFacts
<1>2. \A x \in Ends : x = e \/ x = Peer(e)
  BY EndFacts
<1>. QED
  BY <1>1, <1>2 DEF Ages

LEMMA StepTransit ==
  ASSUME TypeOK, NEW e \in Ends, NEW g, Reads(e) \/ Still(Peer(e)), Still(e) \/ Sends(e, g)
  PROVE  \A x \in Ends : \A f \in InTransit(x)' :
           f \in InTransit(x) \/ (x = e /\ Sends(e, g) /\ f = g)
<1>1. InTransit(Peer(e))' \subseteq InTransit(Peer(e))
  BY EndFacts, ReadTransit, StillTransit
<1>2. \A f \in InTransit(e)' : f \in InTransit(e) \/ (Sends(e, g) /\ f = g)
  BY SendTransit, StillTransit
<1>3. \A x \in Ends : x = e \/ x = Peer(e)
  BY EndFacts
<1>. QED
  BY <1>1, <1>2, <1>3

\* A step of e in a session that touches neither transcript nor authentication.
LEMMA SessionAuth ==
  ASSUME SessionInv, SessionInv', AuthInv, NEW e \in Ends, NEW r, NEW g, Moves(e, r),
         r.life = ctx[e].life, r.t_hello = ctx[e].t_hello,
         r.auth_awaiting_decide = ctx[e].auth_awaiting_decide,
         r.auth_decided = ctx[e].auth_decided, r.auth_complete = ctx[e].auth_complete,
         ctx[e].state \in Gone => r.state \in Gone, r.state # "HELLO",
         Grows, UNCHANGED <<signed, accepted, rejected>>,
         Reads(e) \/ Still(Peer(e)),
         Still(e) \/ (Sends(e, g) /\ HonestFrame(e, g)' /\ g.kind # "HELLO")
  PROVE  AuthInv'
<1>1. TypeOK /\ ctx'[e] = r /\ ctx'[Peer(e)] = ctx[Peer(e)]
  BY TypeParts, MovesFacts DEF SessionInv
<1>2. Ages
  BY <1>1, MoveAges
<1>3. SameAuth(e) /\ SameAuth(Peer(e))
  BY <1>1, Zenon DEF SameAuth
<1>4. SameAuth(Client) /\ SameAuth(Server)
  BY <1>3, EndFacts
<1>5. CASE Still(e)
  <2>1. \A x \in Ends : InTransit(x)' \subseteq InTransit(x)
    <3>1. InTransit(Peer(e))' \subseteq InTransit(Peer(e))
      BY <1>1, EndFacts, ReadTransit, StillTransit
    <3>2. InTransit(e)' \subseteq InTransit(e)
      BY <1>5, StillTransit
    <3>. QED
      BY <3>1, <3>2, EndFacts
  <2>. QED
    BY <1>2, <1>4, <2>1, AuthKeeps
<1>6. CASE Sends(e, g) /\ HonestFrame(e, g)' /\ g.kind # "HELLO"
  <2>1. \A x \in Ends : \A f \in InTransit(x)' : f \in InTransit(x) \/ (x = e /\ f = g)
    BY <1>1, <1>6, StepTransit
  <2>2. \A x \in Ends : \A f \in InTransit(x)' :
          \/ f \in InTransit(x)
          \/ /\ HonestFrame(x, f)'
             /\ x = Client /\ f.kind = "HELLO" => f.life > ctx[x].life
    BY <1>6, <2>1
  <2>. QED
    BY <1>2, <1>4, <2>2, AuthKeeps
<1>. QED
  BY <1>5, <1>6

\* e stops, having read a frame or not.
LEMMA StopAuth ==
  ASSUME SessionInv, SessionInv', AuthInv, NEW e \in Ends, Stops(e), Still(e),
         Reads(e) \/ Still(Peer(e)), UNCHANGED <<cfg, past>>
  PROVE  AuthInv'
<1>1. /\ TypeOK /\ ctx'[Peer(e)] = ctx[Peer(e)]
      /\ ctx'[e].state \in {"ERROR", "CLOSED"}
      /\ ctx'[e].life = ctx[e].life /\ ctx'[e].t_hello = ctx[e].t_hello
      /\ ctx'[e].auth_awaiting_decide = ctx[e].auth_awaiting_decide
      /\ ctx'[e].auth_decided = ctx[e].auth_decided
      /\ ctx'[e].auth_complete = ctx[e].auth_complete
  BY TypeParts, StopsFacts DEF SessionInv
<1>2. PICK r : Moves(e, r)
  BY DEF Stops
<1>3. ctx'[e] = r
  BY <1>1, <1>2, TypeParts, MovesFacts
<1>4. Grows /\ UNCHANGED <<signed, accepted, rejected>>
  BY DEF Grows, past
<1>. QED
  BY <1>1, <1>2, <1>3, <1>4, SessionAuth DEF Gone

LEMMA HaltAuth ==
  ASSUME SessionInv, SessionInv', AuthInv, NEW e \in Ends, Halts(e), UNCHANGED <<cfg, past>>
  PROVE  AuthInv'
BY StopAuth DEF Halts

----------------------------------------------------------------------------
(* HELLO: the server's signature *)

\* The client takes a transcript only with a signature the server has made on it.
LEMMA RecvServerHelloAuth ==
  ASSUME SessionInv, SessionInv', AuthInv, RecvServerHello
  PROVE  AuthInv'
<1>. USE EndFacts
<1>. DEFINE f == Frame(Client)
            t == [c |-> ctx[Client].life, s |-> f.life]
            h == Header(ctx[Client].life, t)
            r == [ctx[Client] EXCEPT !.state = "SS_HEADER", !.t_hello = t,
                                     !.push_ready = TRUE]
<1>1. TypeOK /\ PhaseOK(Client) /\ UNCHANGED <<cfg, past>> /\ ctx[Client].state = "HELLO"
  BY DEF SessionInv, PhaseInv, RecvServerHello
<1>2. /\ f \in FrameSet /\ t \in Transcript
      /\ \/ Halts(Client)
         \/ /\ ServerHelloVerdict(f, t) = "none"
            /\ Reads(Client) /\ Sends(Client, h) /\ Moves(Client, r)
  BY <1>1, RecvServerHelloEffect
<1>3. CASE Halts(Client)
  BY <1>1, <1>3, HaltAuth
<1>4. CASE /\ ServerHelloVerdict(f, t) = "none"
           /\ Reads(Client) /\ Sends(Client, h) /\ Moves(Client, r)
  <2>1. f.kind = "HELLO" /\ cfg.pin # "other" /\ Verify(f.sig, t)
    BY <1>4 DEF ServerHelloVerdict
  <2>2. f \in InTransit(Server)
    BY <1>1, <1>4, ReadTransit
  <2>3. f.sig \in signed /\ f.sig \in SigSet
    BY <1>2, <2>1, <2>2 DEF AuthInv, HonestInv, HonestFrame, FrameSet
  <2>4. f.sig = [sk |-> "own", msg |-> t]
    BY <2>1, <2>3 DEF Verify, SigSet
  <2>5. /\ ctx[Client] \in CtxSet /\ ctx[Client].auth_complete = FALSE
    BY <1>1, HelloFacts
  <2>6. /\ r.t_hello = t /\ r.life = ctx[Client].life /\ r.state = "SS_HEADER"
        /\ r.auth_complete = ctx[Client].auth_complete
    BY <2>5 DEF CtxSet
  <2>7. h.kind = "HEADER"
    BY DEF Header
  <2>. HIDE DEF r, h, t, f
  <2>8. ctx'[Client] = r /\ ctx'[Server] = ctx[Server]
    BY <1>1, <1>4, TypeParts, MovesFacts
  <2>9. Ages
    BY <1>1, <1>4, <2>6, MoveAges DEF Gone
  <2>10. \A x \in Ends : \A g \in InTransit(x)' :
           g \in InTransit(x) \/ (x = Client /\ g = h)
    BY <1>1, <1>4, StepTransit
  <2>11. HonestInv'
    <3>1. \A x \in Ends : \A g \in InTransit(x)' : g \in InTransit(x) \/ HonestFrame(x, g)'
      BY <2>7, <2>10, PlainHonest
    <3>2. Grows /\ accepted \cap rejected' = {}
      BY <1>1 DEF Grows, past, AuthInv, DecidedInv
    <3>. QED
      BY <2>9, <3>1, <3>2, HonestKeeps DEF AuthInv
  <2>12. SignedInv'
    <3>1. \A g \in InTransit(Client)' : g.kind = "HELLO" => g \in InTransit(Client)
      BY <2>7, <2>10
    <3>2. [sk |-> "own", msg |-> ctx'[Client].t_hello] \in signed /\ cfg.pin # "other"
      BY <2>1, <2>3, <2>4, <2>6, <2>8
    <3>3. cfg' = cfg /\ signed' = signed /\ ctx'[Server].t_hello = ctx[Server].t_hello
      BY <1>1, <2>8 DEF past
    <3>. QED
      BY <2>9, <3>1, <3>2, <3>3, SignedKeeps DEF AuthInv
  <2>13. DecidedInv'
    <3>1. SameAuth(Server)
      BY <2>8 DEF SameAuth
    <3>2. ClientReadyIsAccepted'
      BY <2>5, <2>6, <2>8 DEF ClientReadyIsAccepted
    <3>3. proofs \subseteq proofs' /\ UNCHANGED <<accepted, rejected>>
      BY <1>1 DEF past
    <3>4. DeviceProven'
      BY <3>1, <3>3, SameProven DEF AuthInv
    <3>. QED
      BY <2>8, <2>9, <3>2, <3>3, <3>4, DecidedKeeps DEF AuthInv
  <2>. QED
    BY <2>11, <2>12, <2>13 DEF AuthInv
<1>. QED
  BY <1>2, <1>3, <1>4

\* Behind a HELLO in transit, every other one is of a later life.
LEMMA LaterHello ==
  ASSUME SessionInv, NEW e \in Ends, Reads(e), Frame(e).kind = "HELLO",
         NEW f \in InTransit(Peer(e))', f.kind = "HELLO"
  PROVE  Frame(e).life < f.life
<1>. DEFINE q == Peer(e)
            F == Frames(q)
<1>1. /\ TypeOK /\ q \in Ends /\ StreamOK(q)
      /\ F # <<>> /\ Frame(e) = F[1] /\ Frames(q)' = Tail(F)
  BY EndFacts DEF SessionInv, StreamInv, Reads
<1>2. F \in Seq(FrameSet) /\ Ordered(F)
  BY <1>1, StreamParts
<1>3. PICK i \in DOMAIN Tail(F) : f = Tail(F)[i]
  BY <1>1 DEF InTransit
<1>. HIDE DEF q, F
<1>4. /\ Len(F) \in Nat /\ Len(F) >= 1 /\ DOMAIN F = 1 .. Len(F)
      /\ Len(Tail(F)) = Len(F) - 1 /\ Tail(F) \in Seq(FrameSet)
      /\ \A j \in 1 .. Len(F) - 1 : Tail(F)[j] = F[j + 1]
  BY <1>1, <1>2, HeadTailProperties, LenProperties, EmptySeq
<1>5. i \in 1 .. Len(F) - 1
  BY <1>3, <1>4, LenProperties
<1>6. f = F[i + 1] /\ i + 1 \in DOMAIN F /\ 1 \in DOMAIN F /\ 1 < i + 1
  BY <1>3, <1>4, <1>5
<1>7. F[1] \in FrameSet /\ f \in FrameSet
  BY <1>2, <1>4, <1>6, ElementOfSeq
<1>8. /\ F[1].life \in Nat /\ f.life \in Nat
      /\ Place(F[1]) = 0 /\ Place(f) = 0
  BY <1>1, <1>7, FrameFacts
<1>9. /\ F[1].life <= f.life
      /\ F[1].life = f.life => Place(f) = Place(F[1]) + ((i + 1) - 1)
  BY <1>2, <1>6 DEF Ordered
<1>. QED
  BY <1>1, <1>5, <1>8, <1>9

\* The server signs the transcript of a HELLO it has not answered before.
LEMMA RecvClientHelloAuth ==
  ASSUME SessionInv, SessionInv', AuthInv, RecvClientHello
  PROVE  AuthInv'
<1>. USE EndFacts
<1>. DEFINE f   == Frame(Server)
            t   == [c |-> f.life, s |-> ctx[Server].life]
            sig == [sk |-> cfg.serverSk, msg |-> t]
            h   == Hello(ctx[Server].life, sig)
            r   == [ctx[Server] EXCEPT !.state = "SS_HEADER", !.t_hello = t]
<1>1. /\ TypeOK /\ PhaseOK(Server) /\ UNCHANGED <<cfg, proofs, accepted, rejected>>
      /\ ctx[Server].state = "HELLO"
  BY DEF SessionInv, PhaseInv, RecvClientHello
<1>2. /\ f \in FrameSet /\ t \in Transcript
      /\ \/ Halts(Server) /\ UNCHANGED signed
         \/ /\ f.kind = "HELLO" /\ signed' = signed \cup {sig}
            /\ Reads(Server) /\ Sends(Server, h) /\ Moves(Server, r)
  BY <1>1, RecvClientHelloEffect
<1>3. CASE Halts(Server) /\ UNCHANGED signed
  BY <1>1, <1>3, HaltAuth DEF past
<1>4. CASE /\ f.kind = "HELLO" /\ signed' = signed \cup {sig}
           /\ Reads(Server) /\ Sends(Server, h) /\ Moves(Server, r)
  <2>1. f \in InTransit(Client) /\ InTransit(Client)' \subseteq InTransit(Client)
    BY <1>1, <1>4, ReadTransit
  <2>2. /\ f.life \in Nat /\ f.life <= ctx[Client].life
        /\ ctx[Client].life \in Nat /\ ctx[Server].life \in Nat
    BY <1>1, <2>1, TransitFacts, TypeParts, CountTypes
  <2>3. /\ ctx[Server] \in CtxSet /\ ctx[Server].auth_complete = FALSE
        /\ ctx[Server].auth_decided = FALSE /\ ctx[Server].auth_awaiting_decide = FALSE
    BY <1>1, HelloFacts
  <2>4. /\ r.t_hello = t /\ r.life = ctx[Server].life /\ r.state = "SS_HEADER"
        /\ r.auth_complete = ctx[Server].auth_complete
        /\ r.auth_decided = ctx[Server].auth_decided
        /\ r.auth_awaiting_decide = ctx[Server].auth_awaiting_decide
    BY <2>3 DEF CtxSet
  <2>5. h.kind = "HELLO" /\ h.sig = sig
    BY DEF Hello
  <2>6. /\ sig.msg = t /\ sig.sk = cfg.serverSk /\ t.c = f.life /\ t.s = ctx[Server].life
    OBVIOUS
  <2>7. t # None
    BY <1>2, HandshakeAssumption DEF Transcript, None, Lives
  <2>. HIDE DEF r, h, sig, t, f
  <2>8. ctx'[Server] = r /\ ctx'[Client] = ctx[Client]
    BY <1>1, <1>4, TypeParts, MovesFacts
  <2>9. Ages
    BY <1>1, <1>4, <2>4, MoveAges DEF Gone
  <2>10. \A x \in Ends : \A g \in InTransit(x)' :
           g \in InTransit(x) \/ (x = Server /\ g = h)
    BY <1>1, <1>4, StepTransit
  <2>11. HonestInv'
    <3>1. ASSUME NEW g, g = h
          PROVE  HonestFrame(Server, g)'
      BY <1>1, <1>4, <2>5, <2>6, <3>1 DEF HonestFrame
    <3>2. \A x \in Ends : \A g \in InTransit(x)' : g \in InTransit(x) \/ HonestFrame(x, g)'
      BY <2>10, <3>1
    <3>3. Grows /\ accepted \cap rejected' = {}
      BY <1>1, <1>4 DEF Grows, AuthInv, DecidedInv
    <3>. QED
      BY <2>9, <3>2, <3>3, HonestKeeps DEF AuthInv
  <2>12. SignedInv'
    <3>1. \A g \in signed :
            /\ g.msg # None /\ Reached(g.msg)
            /\ g.msg.s # ctx[Server].life
            /\ g.msg.c < f.life
            /\ \A x \in InTransit(Client) : x.kind = "HELLO" => g.msg.c < x.life
      BY <1>1, <1>4, <2>1 DEF AuthInv, SignedInv
    <3>2. \A g \in signed : /\ g.msg \in Transcript \cup {None}
                            /\ g.msg.c \in Nat /\ g.msg.s \in Nat
      <4>1. \A g \in signed : g.msg \in Transcript \cup {None}
        BY <1>1, TypeParts DEF TypePast, SigSet
      <4>. QED
        BY <4>1, HandshakeAssumption DEF Transcript, None, Lives
    <3>3. \A g \in signed : Reached(g.msg)'
      BY <1>1, <2>9, <3>1, <3>2, ReachedKeeps DEF SessionInv
    <3>4. \A g \in signed : g.msg.s < ctx[Server].life
      BY <2>2, <3>1, <3>2 DEF Reached
    <3>5. ctx'[Server].state = "SS_HEADER" /\ ctx'[Server].t_hello = t
      BY <2>4, <2>8
    <3>6. Reached(t)
      BY <2>2, <2>6 DEF Reached
    <3>7. \A x \in InTransit(Client)' : x.kind = "HELLO" => f.life < x.life
      BY <1>4, LaterHello DEF f
    <3>8. \A g \in signed' : g \in signed \/ g = sig
      BY <1>4
    <3>9. ASSUME NEW g \in signed'
          PROVE  /\ g.msg # None /\ Reached(g.msg)'
                 /\ g.msg.s = ctx'[Server].life => ctx'[Server].state # "HELLO"
                 /\ \A x \in InTransit(Client)' : x.kind = "HELLO" => g.msg.c < x.life
      <4>1. CASE g \in signed
        BY <2>1, <3>1, <3>3, <3>5, <4>1
      <4>2. CASE g = sig
        <5>1. g.msg = t /\ g.msg.c = f.life
          BY <2>6, <4>2
        <5>2. Reached(g.msg)'
          <6>1. Reached(g.msg) /\ g.msg \in Transcript \cup {None}
            BY <1>2, <3>6, <5>1
          <6>. QED
            BY <1>1, <2>9, <6>1, ReachedKeeps DEF SessionInv
        <5>. QED
          BY <2>7, <3>5, <3>7, <5>1, <5>2
      <4>. QED
        BY <3>8, <4>1, <4>2
    <3>10. ASSUME NEW g \in signed', NEW k \in signed'
           PROVE  /\ g.msg.s = k.msg.s => g.msg.c = k.msg.c
                  /\ g.msg.s < k.msg.s => g.msg.c < k.msg.c
      <4>1. CASE g \in signed /\ k \in signed
        BY <4>1 DEF AuthInv, SignedInv
      <4>2. CASE g \in signed /\ k = sig
        BY <2>2, <2>6, <3>1, <3>2, <3>4, <4>2
      <4>3. CASE g = sig /\ k \in signed
        BY <2>2, <2>6, <3>1, <3>2, <3>4, <4>3
      <4>4. CASE g = sig /\ k = sig
        BY <2>2, <2>6, <4>4
      <4>. QED
        BY <3>8, <4>1, <4>2, <4>3, <4>4
    <3>11. ctx'[Client].t_hello # None =>
             [sk |-> "own", msg |-> ctx'[Client].t_hello] \in signed' /\ cfg'.pin # "other"
      BY <1>1, <1>4, <2>8 DEF AuthInv, SignedInv
    <3>12. [sk |-> cfg'.serverSk, msg |-> ctx'[Server].t_hello] \in signed'
      BY <1>1, <1>4, <3>5 DEF sig
    <3>. QED
      BY <3>9, <3>10, <3>11, <3>12 DEF SignedInv
  <2>13. DecidedInv'
    <3>1. SameAuth(Client)
      BY <2>8 DEF SameAuth
    <3>2. /\ ~ctx'[Server].auth_awaiting_decide /\ ~ctx'[Server].auth_decided
          /\ ~ctx'[Server].auth_complete
      BY <2>3, <2>4, <2>8
    <3>3. DeviceProven'
      BY <3>2 DEF DeviceProven
    <3>4. ClientReadyIsAccepted'
      BY <1>1, <3>1, SameProven DEF AuthInv
    <3>. QED
      BY <1>1, <2>3, <2>9, <3>3, <3>4, DecidedKeeps DEF AuthInv
  <2>. QED
    BY <2>11, <2>12, <2>13 DEF AuthInv
<1>. QED
  BY <1>2, <1>3, <1>4

----------------------------------------------------------------------------
(* Stream headers and the device's signature *)

LEMMA RecvServerHeaderAuth ==
  ASSUME SessionInv, SessionInv', AuthInv, RecvServerHeader
  PROVE  AuthInv'
<1>. USE EndFacts
<1>. DEFINE f   == Frame(Client)
            sig == [sk |-> cfg.deviceSk, msg |-> ctx[Client].t_hello]
            d   == Sealed(Client, "AUTH_DEVICE", sig)
            r   == [ctx[Client] EXCEPT !.state = "AUTH", !.pull_ready = TRUE,
                                       !.header = f.life]
            rs  == [ctx[Client] EXCEPT !.state = "AUTH", !.pull_ready = TRUE,
                                       !.header = f.life, !.push = @ + 1]
<1>1. /\ TypeOK /\ PhaseOK(Client) /\ UNCHANGED <<cfg, signed, accepted, rejected>>
      /\ ctx[Client].state = "SS_HEADER" /\ InSession(Client)
  BY DEF SessionInv, PhaseInv, RecvServerHeader, InSession
<1>2. /\ f \in FrameSet
      /\ \/ Halts(Client) /\ UNCHANGED proofs
         \/ Reads(Client) /\ Still(Client) /\ Moves(Client, r) /\ UNCHANGED proofs
         \/ /\ Reads(Client) /\ cfg.deviceSk # "absent" /\ proofs' = proofs \cup {sig}
            /\ Sends(Client, d) /\ Moves(Client, rs)
  BY <1>1, RecvServerHeaderEffect
<1>3. ctx[Client] \in CtxSet /\ ctx[Client].push = 0
  BY <1>1, HeaderPhaseFacts
<1>4. /\ r.t_hello = ctx[Client].t_hello /\ r.life = ctx[Client].life /\ r.state = "AUTH"
      /\ r.auth_complete = ctx[Client].auth_complete
      /\ r.auth_decided = ctx[Client].auth_decided
      /\ r.auth_awaiting_decide = ctx[Client].auth_awaiting_decide
  BY <1>3 DEF CtxSet
<1>5. /\ rs.t_hello = ctx[Client].t_hello /\ rs.life = ctx[Client].life /\ rs.state = "AUTH"
      /\ rs.auth_complete = ctx[Client].auth_complete
      /\ rs.auth_decided = ctx[Client].auth_decided
      /\ rs.auth_awaiting_decide = ctx[Client].auth_awaiting_decide
  BY <1>3 DEF CtxSet
<1>. HIDE DEF r, rs
<1>6. CASE Halts(Client) /\ UNCHANGED proofs
  BY <1>1, <1>6, HaltAuth DEF past
<1>7. CASE Reads(Client) /\ Still(Client) /\ Moves(Client, r) /\ UNCHANGED proofs
  <2>1. Grows
    BY <1>1, <1>7 DEF Grows
  <2>. QED
    BY <1>1, <1>4, <1>7, <2>1, SessionAuth DEF Gone
<1>8. CASE /\ Reads(Client) /\ cfg.deviceSk # "absent" /\ proofs' = proofs \cup {sig}
           /\ Sends(Client, d) /\ Moves(Client, rs)
  <2>1. Grows /\ sig \in proofs'
    BY <1>1, <1>8 DEF Grows
  <2>2. Ages
    BY <1>1, <1>5, <1>8, MoveAges DEF Gone
  <2>3. PICK g : g = d
    OBVIOUS
  <2>4. HonestFrame(Client, g)' /\ g.kind # "HELLO"
    BY <1>1, <1>3, <1>8, <2>1, <2>2, <2>3, SealedHonest DEF ClientPdus
  <2>. HIDE DEF d
  <2>. QED
    BY <1>1, <1>5, <1>8, <2>1, <2>3, <2>4, SessionAuth DEF Gone
<1>. QED
  BY <1>2, <1>6, <1>7, <1>8

LEMMA RecvClientHeaderAuth ==
  ASSUME SessionInv, SessionInv', AuthInv, RecvClientHeader
  PROVE  AuthInv'
<1>. USE EndFacts
<1>. DEFINE f == Frame(Server)
            h == Header(ctx[Server].life, ctx[Server].t_hello)
            r == [ctx[Server] EXCEPT !.state = "AUTH", !.pull_ready = TRUE,
                                     !.header = f.life, !.push_ready = TRUE]
<1>1. /\ TypeOK /\ PhaseOK(Server) /\ UNCHANGED <<cfg, past>>
      /\ ctx[Server].state = "SS_HEADER"
  BY DEF SessionInv, PhaseInv, RecvClientHeader
<1>2. \/ Halts(Server)
      \/ Reads(Server) /\ Sends(Server, h) /\ Moves(Server, r)
  BY <1>1, RecvClientHeaderEffect
<1>3. CASE Halts(Server)
  BY <1>1, <1>3, HaltAuth
<1>4. CASE Reads(Server) /\ Sends(Server, h) /\ Moves(Server, r)
  <2>1. ctx[Server] \in CtxSet
    BY <1>1, HeaderPhaseFacts
  <2>2. /\ r.t_hello = ctx[Server].t_hello /\ r.life = ctx[Server].life /\ r.state = "AUTH"
        /\ r.auth_complete = ctx[Server].auth_complete
        /\ r.auth_decided = ctx[Server].auth_decided
        /\ r.auth_awaiting_decide = ctx[Server].auth_awaiting_decide
    BY <2>1 DEF CtxSet
  <2>3. h.kind = "HEADER"
    BY DEF Header
  <2>4. PICK g : g = h
    OBVIOUS
  <2>. HIDE DEF r, h
  <2>5. HonestFrame(Server, g)' /\ g.kind # "HELLO"
    BY <2>3, <2>4, PlainHonest
  <2>6. Grows /\ UNCHANGED <<signed, accepted, rejected>>
    BY <1>1 DEF Grows, past
  <2>. QED
    BY <1>1, <1>4, <2>2, <2>4, <2>5, <2>6, SessionAuth DEF Gone
<1>. QED
  BY <1>2, <1>3, <1>4

\* A frame the server's peer has sealed for it is signed for this transcript.
LEMMA DeviceFrame ==
  ASSUME SessionInv, AuthInv, Reads(Server), Opens(Server, Frame(Server)),
         Frame(Server).pdu = "AUTH_DEVICE"
  PROVE  LET f == Frame(Server) IN
         /\ f.sig \in proofs /\ cfg.deviceSk \in {"own", "other"}
         /\ f.sig = [sk |-> cfg.deviceSk, msg |-> ctx[Server].t_hello]
<1>. USE EndFacts
<1>1. TypeOK
  BY DEF SessionInv
<1>2. Frame(Server) \in InTransit(Client)
  BY <1>1, ReadTransit
<1>3. HonestFrame(Client, Frame(Server))
  BY <1>2 DEF AuthInv, HonestInv
<1>4. Frame(Server).kind = "CIPHER" /\ Frame(Server).key = ctx[Server].t_hello
  BY DEF Opens
<1>5. cfg.deviceSk \in {"own", "other", "absent"}
  BY <1>1, HandshakeAssumption DEF TypeOK, ConfigSet
<1>. QED
  BY <1>3, <1>4, <1>5 DEF HonestFrame

\* The host is asked about a device that has signed; another one is told AUTH_FAIL.
LEMMA RecvAuthDeviceAuth ==
  ASSUME SessionInv, SessionInv', AuthInv, RecvAuthDevice
  PROVE  AuthInv'
<1>. USE EndFacts
<1>. DEFINE f  == Frame(Server)
            ra == [ctx[Server] EXCEPT !.pull = @ + 1, !.auth_awaiting_decide = TRUE]
            rf == [ctx[Server] EXCEPT !.pull = @ + 1, !.push = @ + 1, !.state = "ERROR"]
            a  == Sealed(Server, "AUTH_FAIL", NoSig)
<1>1. /\ TypeOK /\ PhaseOK(Server) /\ ctx[Server].state = "AUTH" /\ Running(Server)
      /\ InSession(Server) /\ Opens(Server, f) /\ f.pdu = "AUTH_DEVICE"
      /\ UNCHANGED <<cfg, past>>
  BY DEF SessionInv, PhaseInv, RecvAuthDevice, Unsealed, Running, InSession
<1>2. /\ Reads(Server)
      /\ \/ Verify(f.sig, ctx[Server].t_hello) /\ Still(Server) /\ Moves(Server, ra)
         \/ ~Verify(f.sig, ctx[Server].t_hello) /\ Sends(Server, a) /\ Moves(Server, rf)
  BY <1>1, RecvAuthDeviceEffect
<1>3. /\ ctx[Server] \in CtxSet /\ ctx[Server].push = 0
      /\ ~ctx[Server].auth_complete /\ ~ctx[Server].auth_decided
  BY <1>1, RunningFacts DEF PhaseOK, Early
<1>4. /\ f.sig \in proofs /\ cfg.deviceSk \in {"own", "other"}
      /\ f.sig = [sk |-> cfg.deviceSk, msg |-> ctx[Server].t_hello]
  BY <1>1, <1>2, DeviceFrame
<1>5. Grows /\ UNCHANGED <<signed, accepted, rejected>>
  BY <1>1 DEF Grows, past
<1>6. CASE Verify(f.sig, ctx[Server].t_hello) /\ Still(Server) /\ Moves(Server, ra)
  <2>1. /\ ra.t_hello = ctx[Server].t_hello /\ ra.life = ctx[Server].life
        /\ ra.state = ctx[Server].state
        /\ ra.auth_complete = ctx[Server].auth_complete
        /\ ra.auth_decided = ctx[Server].auth_decided
    BY <1>3 DEF CtxSet
  <2>. HIDE DEF ra
  <2>2. ctx'[Server] = ra /\ ctx'[Client] = ctx[Client]
    BY <1>1, <1>6, TypeParts, MovesFacts
  <2>3. Ages
    BY <1>1, <1>6, <2>1, MoveAges
  <2>4. \A x \in Ends : InTransit(x)' \subseteq InTransit(x)
    BY <1>1, <1>2, <1>6, ReadTransit, StillTransit
  <2>5. HonestInv'
    <3>1. accepted \cap rejected' = {}
      BY <1>5 DEF AuthInv, DecidedInv
    <3>. QED
      BY <1>5, <2>3, <2>4, <3>1, HonestKeeps DEF AuthInv
  <2>6. SignedInv'
    BY <1>1, <1>5, <2>1, <2>2, <2>3, <2>4, SignedKeeps DEF AuthInv
  <2>7. [sk |-> "own", msg |-> ctx[Server].t_hello] \in proofs
    BY <1>4, <1>6 DEF Verify
  <2>8. ctx'[Server].t_hello = ctx[Server].t_hello /\ proofs' = proofs
    BY <1>1, <2>1, <2>2 DEF past
  <2>9. ~ctx'[Server].auth_complete
    BY <1>3, <2>1, <2>2, Zenon
  <2>10. DeviceProven'
    BY <2>7, <2>8, <2>9 DEF DeviceProven
  <2>11. SameAuth(Client)
    BY <2>2 DEF SameAuth
  <2>12. ClientReadyIsAccepted'
    BY <1>5, <2>8, <2>11, SameProven DEF AuthInv
  <2>13. DecidedInv'
    BY <1>3, <1>5, <2>3, <2>10, <2>12, DecidedKeeps DEF AuthInv
  <2>. QED
    BY <2>5, <2>6, <2>13 DEF AuthInv
<1>7. CASE ~Verify(f.sig, ctx[Server].t_hello) /\ Sends(Server, a) /\ Moves(Server, rf)
  <2>1. /\ rf.t_hello = ctx[Server].t_hello /\ rf.life = ctx[Server].life
        /\ rf.state = "ERROR"
        /\ rf.auth_complete = ctx[Server].auth_complete
        /\ rf.auth_decided = ctx[Server].auth_decided
        /\ rf.auth_awaiting_decide = ctx[Server].auth_awaiting_decide
    BY <1>3 DEF CtxSet
  <2>2. cfg.deviceSk = "other"
    BY <1>4, <1>7 DEF Verify
  <2>. HIDE DEF rf
  <2>3. Ages
    BY <1>1, <1>7, <2>1, MoveAges DEF Gone
  <2>4. PICK g : g = a
    OBVIOUS
  <2>5. HonestFrame(Server, g)' /\ g.kind # "HELLO"
    BY <1>1, <1>3, <2>2, <2>3, <2>4, SealedHonest DEF ServerPdus
  <2>. HIDE DEF a
  <2>. QED
    BY <1>2, <1>5, <1>7, <2>1, <2>4, <2>5, SessionAuth DEF Gone
<1>. QED
  BY <1>2, <1>6, <1>7

----------------------------------------------------------------------------
(* The host's decision *)

\* AUTH_OK opens only for the transcript that the host has accepted.
LEMMA RecvAuthOkAuth ==
  ASSUME SessionInv, SessionInv', AuthInv, RecvAuthOk
  PROVE  AuthInv'
<1>. USE EndFacts
<1>. DEFINE f == Frame(Client)
            r == [ctx[Client] EXCEPT !.pull = @ + 1, !.state = "READY", !.auth_complete = TRUE]
<1>1. /\ TypeOK /\ PhaseOK(Client) /\ ctx[Client].state = "AUTH" /\ Running(Client)
      /\ Opens(Client, f) /\ f.pdu = "AUTH_OK" /\ UNCHANGED <<cfg, past>>
  BY DEF SessionInv, PhaseInv, RecvAuthOk, Unsealed, Running
<1>2. Reads(Client) /\ Still(Client) /\ Moves(Client, r)
  BY <1>1, RecvAuthOkEffect
<1>3. ctx[Client] \in CtxSet
  BY <1>1, RunningFacts
<1>4. ctx[Client].t_hello \in accepted \ rejected
  <2>1. f \in InTransit(Server)
    BY <1>1, <1>2, ReadTransit
  <2>2. HonestFrame(Server, f)
    BY <2>1 DEF AuthInv, HonestInv
  <2>. QED
    BY <1>1, <2>2 DEF HonestFrame, Opens
<1>5. Grows /\ UNCHANGED <<signed, accepted, rejected>>
  BY <1>1 DEF Grows, past
<1>6. r.t_hello = ctx[Client].t_hello /\ r.life = ctx[Client].life /\ r.state = "READY"
  BY <1>3 DEF CtxSet
<1>. HIDE DEF r
<1>7. ctx'[Client] = r /\ ctx'[Server] = ctx[Server]
  BY <1>1, <1>2, TypeParts, MovesFacts
<1>8. Ages
  BY <1>1, <1>2, <1>6, MoveAges DEF Gone
<1>9. \A x \in Ends : InTransit(x)' \subseteq InTransit(x)
  BY <1>1, <1>2, ReadTransit, StillTransit
<1>10. HonestInv'
  <2>1. accepted \cap rejected' = {}
    BY <1>5 DEF AuthInv, DecidedInv
  <2>. QED
    BY <1>5, <1>8, <1>9, <2>1, HonestKeeps DEF AuthInv
<1>11. SignedInv'
  BY <1>1, <1>5, <1>6, <1>7, <1>8, <1>9, SignedKeeps DEF AuthInv
<1>12. DecidedInv'
  <2>1. SameAuth(Server)
    BY <1>7 DEF SameAuth
  <2>2. DeviceProven'
    BY <1>5, <2>1, SameProven DEF AuthInv, Grows
  <2>3. ClientReadyIsAccepted'
    BY <1>4, <1>5, <1>6, <1>7 DEF ClientReadyIsAccepted
  <2>. QED
    BY <1>5, <1>7, <1>8, <2>2, <2>3, DecidedKeeps DEF AuthInv
<1>. QED
  BY <1>10, <1>11, <1>12 DEF AuthInv

\* The transcript the host is about to decide on has not been decided before.
LEMMA Undecided ==
  ASSUME SessionInv, AuthInv, ctx[Server].state = "AUTH"
  PROVE  LET t == ctx[Server].t_hello IN
         /\ t \in Transcript /\ t \notin accepted \cup rejected
         /\ t.s = ctx[Server].life /\ ctx[Server].life \in Nat
<1>. USE EndFacts
<1>1. TypeOK /\ PhaseOK(Server) /\ InSession(Server)
  BY DEF SessionInv, PhaseInv, InSession, Running
<1>2. /\ ctx[Server] \in CtxSet /\ ctx[Server].t_hello # None
      /\ OwnLife(Server) = ctx[Server].life /\ ~ctx[Server].auth_decided
      /\ ctx[Server].life \in Nat
  BY <1>1, TypeParts, CountTypes DEF PhaseOK, Early, TypeCtx
<1>3. ctx[Server].t_hello \in Transcript /\ ctx[Server].t_hello.s = ctx[Server].life
  BY <1>2 DEF CtxSet, OwnLife
<1>4. ctx[Server].t_hello \notin accepted \cup rejected
  BY <1>2, <1>3 DEF AuthInv, DecidedInv
<1>. QED
  BY <1>2, <1>3, <1>4

\* One decision A or R on the server's transcript, told to the client by f.
LEMMA DecideAuth ==
  ASSUME SessionInv, SessionInv', AuthInv, ctx[Server].state = "AUTH",
         ctx[Server].auth_awaiting_decide,
         NEW r, Moves(Server, r), r.life = ctx[Server].life,
         r.t_hello = ctx[Server].t_hello, r.state \in {"READY", "ERROR"},
         r.auth_decided = TRUE,
         UNCHANGED <<cfg, signed, proofs>>, Still(Client),
         \/ /\ accepted' = accepted \cup {ctx[Server].t_hello} /\ rejected' = rejected
            /\ Sends(Server, Sealed(Server, "AUTH_OK", NoSig))
         \/ /\ rejected' = rejected \cup {ctx[Server].t_hello} /\ accepted' = accepted
            /\ r.auth_complete = ctx[Server].auth_complete
            /\ Sends(Server, Sealed(Server, "AUTH_FAIL", NoSig))
  PROVE  AuthInv'
<1>. USE EndFacts
<1>. DEFINE t == ctx[Server].t_hello
<1>1. TypeOK /\ PhaseOK(Server) /\ Running(Server) /\ InSession(Server)
  BY DEF SessionInv, PhaseInv, InSession, Running
<1>2. /\ ctx[Server].push = 0 /\ ~ctx[Server].auth_complete
  BY <1>1 DEF PhaseOK, Early
<1>3. /\ t \in Transcript /\ t \notin accepted \cup rejected
      /\ t.s = ctx[Server].life /\ ctx[Server].life \in Nat
  BY Undecided
<1>4. ctx'[Server] = r /\ ctx'[Client] = ctx[Client]
  BY <1>1, TypeParts, MovesFacts
<1>5. Ages
  BY <1>1, MoveAges DEF Gone
<1>6. /\ Grows /\ accepted' \cap rejected' = {} /\ accepted \cap rejected' = {}
      /\ accepted' \cup rejected' = (accepted \cup rejected) \cup {t}
  BY <1>3 DEF Grows, AuthInv, DecidedInv
<1>7. PICK g : \/ /\ g = Sealed(Server, "AUTH_OK", NoSig) /\ Sends(Server, g)
                  /\ t \in accepted' \ rejected'
               \/ /\ g = Sealed(Server, "AUTH_FAIL", NoSig) /\ Sends(Server, g)
                  /\ rejected' # {}
  BY <1>3
<1>8. HonestFrame(Server, g)' /\ g.kind # "HELLO"
  BY <1>1, <1>2, <1>5, <1>7, SealedHonest DEF ServerPdus
<1>9. \A x \in Ends : \A f \in InTransit(x)' : f \in InTransit(x) \/ (x = Server /\ f = g)
  BY <1>1, <1>7, StepTransit
<1>10. HonestInv'
  <2>1. \A x \in Ends : \A f \in InTransit(x)' : f \in InTransit(x) \/ HonestFrame(x, f)'
    BY <1>8, <1>9
  <2>. QED
    BY <1>5, <1>6, <2>1, HonestKeeps DEF AuthInv
<1>11. SignedInv'
  <2>1. \A f \in InTransit(Client)' : f \in InTransit(Client)
    BY <1>9
  <2>2. \A e \in Ends : ctx'[e].t_hello = ctx[e].t_hello
    BY <1>4
  <2>. QED
    BY <1>5, <2>1, <2>2, SignedKeeps DEF AuthInv
<1>12. DecidedInv'
  <2>1. ASSUME NEW u \in accepted' \cup rejected'
        PROVE  /\ u.s <= ctx'[Server].life
               /\ u.s = ctx'[Server].life => ctx'[Server].auth_decided
    <3>1. ctx'[Server].life = ctx[Server].life /\ ctx'[Server].auth_decided
      BY <1>4
    <3>2. u.s <= ctx[Server].life
      BY <1>3, <1>6, <2>1 DEF AuthInv, DecidedInv
    <3>. QED
      BY <3>1, <3>2
  <2>2. [sk |-> "own", msg |-> t] \in proofs
    BY DEF AuthInv, DecidedInv, DeviceProven
  <2>3. ctx'[Server].auth_complete => t \in accepted' \ rejected'
    <3>1. CASE accepted' = accepted \cup {t} /\ rejected' = rejected
      BY <1>3, <3>1
    <3>2. CASE r.auth_complete = ctx[Server].auth_complete
      <4>1. ~ctx'[Server].auth_complete
        BY <1>2, <1>4, <3>2, Zenon
      <4>. QED
        BY <4>1
    <3>. QED
      BY <3>1, <3>2
  <2>4. DeviceProven'
    BY <1>4, <2>2, <2>3 DEF DeviceProven
  <2>5. ClientReadyIsAccepted'
    BY <1>3, <1>4 DEF AuthInv, DecidedInv, ClientReadyIsAccepted
  <2>. QED
    BY <1>6, <2>1, <2>4, <2>5 DEF DecidedInv
<1>. QED
  BY <1>10, <1>11, <1>12 DEF AuthInv

LEMMA HostDecideAuth ==
  ASSUME SessionInv, SessionInv', AuthInv, Decide
  PROVE  AuthInv'
<1>. USE EndFacts
<1>. DEFINE ra == [ctx[Server] EXCEPT !.auth_awaiting_decide = FALSE,
                             !.auth_decided = TRUE, !.auth_complete = TRUE,
                             !.push = @ + 1, !.state = "READY"]
            rr == [ctx[Server] EXCEPT !.auth_awaiting_decide = FALSE,
                             !.auth_decided = TRUE,
                             !.push = @ + 1, !.state = "ERROR"]
<1>1. /\ TypeOK /\ PhaseInv /\ ctx[Server].state = "AUTH"
      /\ ctx[Server].auth_awaiting_decide /\ ctx[Server] \in CtxSet
      /\ UNCHANGED <<cfg, signed, proofs>>
  BY DEF SessionInv, Decide, AuthAccept, AuthReject, TypeOK
<1>2. CASE AuthAccept
  <2>1. Sends(Server, Sealed(Server, "AUTH_OK", NoSig)) /\ Still(Client) /\ Moves(Server, ra)
    BY <1>1, <1>2, AuthAcceptEffect
  <2>2. /\ ra.life = ctx[Server].life /\ ra.t_hello = ctx[Server].t_hello
        /\ ra.state = "READY" /\ ra.auth_decided = TRUE
    BY <1>1 DEF CtxSet
  <2>3. accepted' = accepted \cup {ctx[Server].t_hello} /\ rejected' = rejected
    BY <1>2 DEF AuthAccept
  <2>. HIDE DEF ra
  <2>. QED
    BY <1>1, <2>1, <2>2, <2>3, DecideAuth
<1>3. CASE AuthReject
  <2>1. Sends(Server, Sealed(Server, "AUTH_FAIL", NoSig)) /\ Still(Client) /\ Moves(Server, rr)
    BY <1>1, <1>3, AuthRejectEffect
  <2>2. /\ rr.life = ctx[Server].life /\ rr.t_hello = ctx[Server].t_hello
        /\ rr.state = "ERROR" /\ rr.auth_decided = TRUE
        /\ rr.auth_complete = ctx[Server].auth_complete
    BY <1>1 DEF CtxSet
  <2>3. rejected' = rejected \cup {ctx[Server].t_hello} /\ accepted' = accepted
    BY <1>3 DEF AuthReject
  <2>. HIDE DEF rr
  <2>. QED
    BY <1>1, <2>1, <2>2, <2>3, DecideAuth
<1>. QED
  BY <1>2, <1>3 DEF Decide

----------------------------------------------------------------------------
(* Disconnects, new lives and the transport *)

LEMMA DisconnectAuth ==
  ASSUME SessionInv, SessionInv', AuthInv, NEW e \in Ends, Disconnect(e)
  PROVE  AuthInv'
<1>. DEFINE r == [ctx[e] EXCEPT !.push = @ + 1, !.state = "DRAINING"]
            d == Sealed(e, "DISCONNECT", NoSig)
<1>1. TypeOK /\ UNCHANGED <<cfg, past>>
  BY DEF SessionInv, Disconnect
<1>2. \/ Still(e) /\ Still(Peer(e)) /\ Stops(e)
      \/ /\ ctx[e].state \in {"AUTH", "READY"}
         /\ Sends(e, d) /\ Still(Peer(e)) /\ Moves(e, r)
  BY <1>1, DisconnectEffect
<1>3. CASE Still(e) /\ Still(Peer(e)) /\ Stops(e)
  BY <1>1, <1>3, StopAuth
<1>4. CASE /\ ctx[e].state \in {"AUTH", "READY"}
           /\ Sends(e, d) /\ Still(Peer(e)) /\ Moves(e, r)
  <2>1. ctx[e] \in CtxSet /\ InSession(e)
    BY <1>1, <1>4 DEF TypeOK, InSession, Running
  <2>2. /\ r.t_hello = ctx[e].t_hello /\ r.life = ctx[e].life /\ r.state = "DRAINING"
        /\ r.auth_complete = ctx[e].auth_complete
        /\ r.auth_decided = ctx[e].auth_decided
        /\ r.auth_awaiting_decide = ctx[e].auth_awaiting_decide
    BY <2>1 DEF CtxSet
  <2>. HIDE DEF r
  <2>3. ctx'[e].state \in Gone
    BY <1>1, <1>4, <2>2, TypeParts, MovesFacts DEF Gone
  <2>4. Ages
    BY <1>1, <1>4, <2>2, MoveAges DEF Gone
  <2>5. PICK g : g = d
    OBVIOUS
  <2>6. HonestFrame(e, g)' /\ g.kind # "HELLO"
    BY <1>1, <2>1, <2>3, <2>4, <2>5, SealedHonest DEF ClientPdus, ServerPdus
  <2>7. Grows /\ UNCHANGED <<signed, accepted, rejected>>
    BY <1>1 DEF Grows, past
  <2>. HIDE DEF d
  <2>. QED
    BY <1>4, <2>2, <2>5, <2>6, <2>7, SessionAuth DEF Gone
<1>. QED
  BY <1>2, <1>3, <1>4

\* Ends that start a new life forget, the other one is left alone.
LEMMA RestartAuth ==
  ASSUME SessionInv, SessionInv', AuthInv, UNCHANGED <<cfg, past>>,
         \A e \in Ends :
           \/ ctx'[e] = ctx[e] /\ Still(e)
           \/ /\ ctx[e].life + 1 \in Lives /\ ctx'[e] = Fresh(ctx[e].life + 1)
              /\ InTransit(e)' \subseteq InTransit(e) \cup
                   (IF e = Client THEN {Hello(ctx[e].life + 1, NoSig)} ELSE {})
  PROVE  AuthInv'
<1>1. ASSUME NEW e \in Ends
      PROVE  /\ SameAuth(e)
             /\ \/ ctx'[e] = ctx[e]
                \/ ctx'[e].life > ctx[e].life
             /\ \A f \in InTransit(e)' :
                  \/ f \in InTransit(e)
                  \/ /\ HonestFrame(e, f)'
                     /\ e = Client /\ f.kind = "HELLO" => f.life > ctx[e].life
  <2>1. CASE ctx'[e] = ctx[e] /\ Still(e)
    BY <2>1, StillTransit DEF SameAuth
  <2>2. CASE /\ ctx[e].life + 1 \in Lives /\ ctx'[e] = Fresh(ctx[e].life + 1)
             /\ InTransit(e)' \subseteq InTransit(e) \cup
                  (IF e = Client THEN {Hello(ctx[e].life + 1, NoSig)} ELSE {})
    <3>1. ctx[e].life \in Nat /\ ctx[e].life + 1 \in Nat
      BY TypeParts, CountTypes DEF SessionInv
    <3>2. PICK life \in Nat : life = ctx[e].life + 1
      BY <3>1
    <3>3. /\ ctx'[e].life = life /\ ctx'[e].t_hello = None
          /\ ctx'[e].auth_awaiting_decide = FALSE
          /\ ctx'[e].auth_decided = FALSE /\ ctx'[e].auth_complete = FALSE
      BY <2>2, <3>2, FreshFacts, ZenonT(30)
    <3>4. life > ctx[e].life /\ life # ctx[e].life
      BY <3>1, <3>2
    <3>5. SameAuth(e)
      BY <3>3, <3>4 DEF SameAuth
    <3>6. ASSUME NEW f \in InTransit(e)', f \notin InTransit(e)
          PROVE  HonestFrame(e, f)' /\ f.life > ctx[e].life
      <4>1. e = Client /\ f = Hello(life, NoSig)
        BY <2>2, <3>2, <3>6
      <4>2. f.kind = "HELLO" /\ f.life = life
        BY <4>1 DEF Hello
      <4>. QED
        BY <3>4, <4>1, <4>2, PlainHonest
    <3>. QED
      BY <3>3, <3>4, <3>5, <3>6
  <2>. QED
    BY <2>1, <2>2
<1>2. Ages
  BY <1>1 DEF Ages
<1>3. Grows /\ UNCHANGED <<signed, accepted, rejected>>
  BY DEF Grows, past
<1>. QED
  BY <1>1, <1>2, <1>3, EndFacts, AuthKeeps

LEMMA ResetAuth ==
  ASSUME SessionInv, SessionInv', AuthInv, NEW e \in Ends, Reset(e)
  PROVE  AuthInv'
<1>1. TypeOK /\ UNCHANGED <<cfg, past>>
  BY DEF SessionInv, Reset
<1>2. /\ ctx[e].life + 1 \in Lives /\ Moves(e, Fresh(ctx[e].life + 1)) /\ Still(Peer(e))
      /\ Frames(e)' = wire[e] \o FirstOutput(e, ctx[e].life + 1)
  BY <1>1, ResetEffect
<1>3. ctx'[e] = Fresh(ctx[e].life + 1) /\ ctx'[Peer(e)] = ctx[Peer(e)]
  BY <1>1, <1>2, TypeParts, MovesFacts
<1>4. InTransit(e)' \subseteq
        InTransit(e) \cup (IF e = Client THEN {Hello(ctx[e].life + 1, NoSig)} ELSE {})
  BY <1>1, <1>2, RestartTransit
<1>5. \A x \in Ends : x = e \/ x = Peer(e)
  BY EndFacts
<1>. QED
  BY <1>1, <1>2, <1>3, <1>4, <1>5, RestartAuth

LEMMA ReconnectAuth ==
  ASSUME SessionInv, SessionInv', AuthInv, Reconnect
  PROVE  AuthInv'
<1>1. TypeOK /\ UNCHANGED <<cfg, past>>
  BY DEF SessionInv, Reconnect
<1>2. \A e \in Ends : /\ ctx[e].life + 1 \in Lives
                      /\ ctx'[e] = Fresh(ctx[e].life + 1)
                      /\ Frames(e)' = FirstOutput(e, ctx[e].life + 1)
  BY <1>1, ReconnectEffect
<1>3. \A e \in Ends :
        InTransit(e)' \subseteq
          InTransit(e) \cup (IF e = Client THEN {Hello(ctx[e].life + 1, NoSig)} ELSE {})
  BY <1>1, <1>2, RestartTransit
<1>. QED
  BY <1>1, <1>2, <1>3, RestartAuth

LEMMA QuietAuth ==
  ASSUME SessionInv, SessionInv', AuthInv, UNCHANGED <<cfg, ctx, past>>,
         \A e \in Ends : Still(e)
  PROVE  AuthInv'
BY RestartAuth

----------------------------------------------------------------------------
(* The invariant, and agreement *)

LEMMA InitAuth == Init => AuthInv
<1>. SUFFICES ASSUME Init
              PROVE  AuthInv
  OBVIOUS
<1>1. /\ signed = {} /\ proofs = {} /\ accepted = {} /\ rejected = {}
  BY DEF Init
<1>2. \A e \in Ends : /\ ctx[e] = Fresh(1) /\ Frames(e) = FirstOutput(e, 1)
  BY InitFrames
<1>3. \A e \in Ends : /\ ctx[e].t_hello = None /\ ctx[e].auth_complete = FALSE
                      /\ ctx[e].auth_awaiting_decide = FALSE
                      /\ ctx[e].auth_decided = FALSE
  BY <1>2 DEF Fresh
<1>4. ASSUME NEW e \in Ends, NEW f \in InTransit(e)
      PROVE  HonestFrame(e, f)
  <2>1. e = Client /\ f = Hello(1, NoSig)
    BY <1>2, <1>4 DEF InTransit, FirstOutput
  <2>2. f.kind = "HELLO"
    BY <2>1 DEF Hello
  <2>. QED
    BY <2>1, <2>2, EndFacts DEF HonestFrame
<1>5. SignedInv
  BY <1>1, <1>3, EndFacts DEF SignedInv
<1>6. DecidedInv
  BY <1>1, <1>3, EndFacts DEF DecidedInv, DeviceProven, ClientReadyIsAccepted
<1>. QED
  BY <1>4, <1>5, <1>6 DEF AuthInv, HonestInv

LEMMA AuthStep == SessionInv /\ AuthInv /\ [Next]_vars => AuthInv'
<1>. SUFFICES ASSUME SessionInv, AuthInv, [Next]_vars
              PROVE  AuthInv'
  OBVIOUS
<1>1. TypeOK /\ SessionInv'
  BY SessionStep DEF SessionInv
<1>2. ASSUME NEW e \in Ends, Recv(e)
      PROVE  AuthInv'
  <2>1. CASE RecvServerHello \/ RecvServerHeader \/ RecvAuthOk
    BY <1>1, <2>1, RecvServerHelloAuth, RecvServerHeaderAuth, RecvAuthOkAuth
  <2>2. CASE RecvClientHello \/ RecvClientHeader \/ RecvAuthDevice
    BY <1>1, <2>2, RecvClientHelloAuth, RecvClientHeaderAuth, RecvAuthDeviceAuth
  <2>3. CASE RecvAuthFail
    <3>1. Halts(Client) /\ UNCHANGED <<cfg, past>>
      BY <1>1, <2>3, RecvAuthFailEffect DEF RecvAuthFail
    <3>. QED
      BY <1>1, <3>1, EndFacts, HaltAuth
  <2>4. CASE RecvUnsealable(e) \/ RecvDisconnect(e) \/ RecvLateAuth(e)
    <3>1. Halts(e)
      BY <1>1, <1>2, <2>4, RecvUnsealableEffect, RecvDisconnectEffect, RecvLateAuthEffect
    <3>2. UNCHANGED <<cfg, past>>
      BY <2>4 DEF RecvUnsealable, RecvDisconnect, RecvLateAuth
    <3>. QED
      BY <1>1, <1>2, <3>1, <3>2, HaltAuth
  <2>. QED
    BY <1>2, <2>1, <2>2, <2>3, <2>4 DEF Recv
<1>3. ASSUME NEW e \in Ends, NextEvent(e) \/ GetOutput(e)
      PROVE  AuthInv'
  <2>1. UNCHANGED <<cfg, ctx, past>> /\ \A x \in Ends : Still(x)
    BY <1>1, <1>3, TransportEffect
  <2>. QED
    BY <1>1, <2>1, QuietAuth
<1>4. ASSUME NEW e \in Ends, Disconnect(e) \/ Reset(e)
      PROVE  AuthInv'
  BY <1>1, <1>4, DisconnectAuth, ResetAuth
<1>5. CASE Decide \/ Reconnect
  BY <1>1, <1>5, HostDecideAuth, ReconnectAuth
<1>6. CASE UNCHANGED vars
  <2>1. UNCHANGED <<cfg, ctx, past>> /\ \A x \in Ends : Still(x)
    BY <1>1, <1>6, StutterType DEF vars
  <2>. QED
    BY <1>1, <2>1, QuietAuth
<1>. QED
  BY <1>2, <1>3, <1>4, <1>5, <1>6 DEF Next

LEMMA AuthInvariant == Spec => [](SessionInv /\ AuthInv)
<1>1. SessionInv /\ AuthInv /\ [Next]_vars => SessionInv' /\ AuthInv'
  BY SessionStep, AuthStep
<1>. QED
  BY <1>1, InitSession, InitAuth, PTL DEF Spec

\* handle_peer_hello on the client: it leaves HELLO only with the server's signature
\* on the transcript of this very life, made with the key it has pinned; a HELLO
\* recorded for an earlier life, or made without the key, never gets it to derive
\* keys, whatever resets and reconnections happened.
THEOREM ServerIsProven == Spec => []ServerProven
<1>1. ASSUME SessionInv, AuthInv
      PROVE  ServerProven
  <2>. SUFFICES ASSUME InSession(Client)
                PROVE  /\ ctx[Client].t_hello.c = ctx[Client].life
                       /\ [sk |-> "own", msg |-> ctx[Client].t_hello] \in signed
                       /\ cfg.pin # "other"
    BY DEF ServerProven, InSession
  <2>1. ctx[Client].t_hello # None /\ OwnLife(Client) = ctx[Client].life
    BY <1>1, EndFacts DEF SessionInv, PhaseInv, PhaseOK
  <2>. QED
    BY <1>1, <2>1 DEF OwnLife, AuthInv, SignedInv
<1>. QED
  BY <1>1, AuthInvariant, PTL

\* Both signatures on the transcripts of two ends in session are the server's, and
\* the server signs once in a life and only ever for later lives of the client.
LEMMA SameTranscript ==
  ASSUME SessionInv, AuthInv, InSession(Client), InSession(Server)
  PROVE  /\ ctx[Client].t_hello = ctx[Server].t_hello
         /\ \A e \in Ends : PeerLife(e) = ctx[Peer(e)].life
<1>. USE EndFacts
<1>. DEFINE t == ctx[Client].t_hello
            u == ctx[Server].t_hello
<1>1. TypeOK /\ PhaseOK(Client) /\ PhaseOK(Server)
  BY DEF SessionInv, PhaseInv
<1>2. /\ t # None /\ u # None
      /\ t.c = ctx[Client].life /\ t.s <= ctx[Server].life
      /\ u.s = ctx[Server].life /\ u.c <= ctx[Client].life
  BY <1>1 DEF PhaseOK, OwnLife, PeerLife
<1>3. /\ t \in Transcript /\ u \in Transcript
  BY <1>1, <1>2 DEF TypeOK, CtxSet
<1>4. /\ t.c \in Nat /\ t.s \in Nat /\ u.c \in Nat /\ u.s \in Nat
  BY <1>3, HandshakeAssumption DEF Transcript, Lives
<1>5. \E g, h \in signed : g.msg = t /\ h.msg = u
  BY <1>2 DEF AuthInv, SignedInv
<1>6. /\ t.s = u.s => t.c = u.c
      /\ t.s < u.s => t.c < u.c
  BY <1>5 DEF AuthInv, SignedInv
<1>7. t.s = u.s /\ t.c = u.c
  BY <1>2, <1>4, <1>6
<1>8. t = u
  BY <1>3, <1>7 DEF Transcript
<1>. QED
  BY <1>2, <1>7, <1>8, ZenonT(30) DEF PeerLife

\* derive_kx and handle_peer_ss_header: two running ends are in the same session,
\* with the same transcript, hence the same keys, and each pulls the stream that
\* the other one pushes in this life, whatever resets and reconnections happened.
THEOREM SessionsAgree == Spec => []SessionAgreement
<1>1. ASSUME SessionInv, AuthInv
      PROVE  SessionAgreement
  <2>. SUFFICES ASSUME Running(Client), Running(Server)
                PROVE  /\ ctx[Client].t_hello = ctx[Server].t_hello
                       /\ \A e \in Ends : ctx[e].header = ctx[Peer(e)].life
    BY DEF SessionAgreement
  <2>1. \A e \in Ends : InSession(e) /\ ctx[e].header = PeerLife(e)
    BY <1>1, EndFacts DEF InSession, SessionInv, PhaseInv, PhaseOK
  <2>. QED
    BY <1>1, <2>1, EndFacts, SameTranscript
<1>. QED
  BY <1>1, AuthInvariant, PTL

\* handle_auth_device_pdu and sodchan_auth_decide: the server host is asked about,
\* and the server becomes READY for, only a device that signed this session's
\* transcript with its own key, and READY means a yes and no no to this transcript.
THEOREM DeviceIsProven == Spec => []DeviceProven
<1>1. AuthInv => DeviceProven
  BY DEF AuthInv, DecidedInv
<1>. QED
  BY <1>1, AuthInvariant, PTL

\* handle_auth_ok_pdu: a READY client has been accepted by the server host for
\* exactly this session, although AUTH_OK carries nothing but its type.
THEOREM ReadyClientIsAccepted == Spec => []ClientReadyIsAccepted
<1>1. AuthInv => ClientReadyIsAccepted
  BY DEF AuthInv, DecidedInv
<1>. QED
  BY <1>1, AuthInvariant, PTL

----------------------------------------------------------------------------
(* Errors *)

\* What an honest run without a reset allows e to fail with.
Explained(e, c) ==
  /\ c = "server pin mismatch"            => cfg.pin = "other"
  /\ c = "server HELLO signature invalid" => cfg.serverSk = "other"
  /\ c = "AUTH_DEVICE bad signature"      => cfg.deviceSk = "other"
  /\ c = "authentication rejected"        => rejected # {}
  /\ c = "authentication failed"          => rejected # {} \/ cfg.deviceSk = "other"
  /\ c = "unexpected pdu in AUTH"         => ctx[Peer(e)].state \in Gone
  /\ c = "unknown mux pdu"                => ctx[e].push > 0 /\ ~ctx[e].auth_complete
  /\ c \notin {"hello decode failed", "bad ss header length", "ss decrypt failed"}

LEMMA ExplainedAll ==
  /\ TypeOK => (FailureExplained <=> (~Interrupted => \A e \in Ends : Explained(e, err[e])))
  /\ TypeOK' =>
       (FailureExplained' <=> (~Interrupted' => \A e \in Ends : Explained(e, err[e])'))
<1>1. ASSUME TypeOK
      PROVE  FailureExplained <=> (~Interrupted => \A e \in Ends : Explained(e, err[e]))
  <2>1. \A e \in Ends : err[e] \in Causes
    BY <1>1 DEF TypeOK
  <2>. QED
    BY <2>1 DEF FailureExplained, Explained, Causes, Gone
<1>2. ASSUME TypeOK'
      PROVE  FailureExplained' <=> (~Interrupted' => \A e \in Ends : Explained(e, err[e])')
  <2>1. \A e \in Ends : err'[e] \in Causes
    BY <1>2 DEF TypeOK
  <2>. QED
    BY <2>1 DEF FailureExplained, Explained, Causes, Gone
<1>. QED
  BY <1>1, <1>2

Stopped == {"ERROR", "CLOSED"}

\* A context that has stopped is left as it is or starts over.
StaysPut(e) ==
  ctx[e].state \in Stopped =>
    \/ /\ ctx'[e].state \in Stopped /\ ctx'[e].life = ctx[e].life
       /\ ctx'[e].push = ctx[e].push /\ ctx'[e].auth_complete = ctx[e].auth_complete
    \/ ctx'[e].life > ctx[e].life

LEMMA ErrorKeeps ==
  ASSUME SessionInv, SessionInv', ErrorInv, Ages, Grows, \A e \in Ends : StaysPut(e),
         \A e \in Ends :
           \/ err'[e] = "none"
           \/ err'[e] = err[e]
           \/ ctx'[e].state = "ERROR" /\ (~Interrupted' => Explained(e, err[e])'),
         \A e \in Ends : ctx'[e].life > ctx[e].life => err'[e] = "none"
  PROVE  ErrorInv'
<1>1. \A e \in Ends : ctx[e].life \in Nat /\ ctx'[e].life \in Nat /\ ctx[e].life > 0
  BY TypeParts, HandshakeAssumption DEF SessionInv, TypeCtx, CtxSet, Lives
<1>2. \A e \in Ends : err'[e] # "none" => ctx'[e].state \in Stopped
  <2>1. \A e \in Ends : err[e] # "none" => ctx[e].state \in Stopped
    BY DEF ErrorInv, Stopped
  <2>. QED
    BY <2>1 DEF StaysPut, Stopped
<1>3. ~Interrupted' => ~Interrupted /\ \A e \in Ends : ctx'[e].life = ctx[e].life
  BY <1>1 DEF Interrupted, Ages
<1>4. ASSUME ~Interrupted', NEW e \in Ends
      PROVE  Explained(e, err[e])'
  <2>1. /\ ~Interrupted /\ ctx'[e].life = ctx[e].life /\ ctx'[Peer(e)].life = ctx[Peer(e)].life
    BY <1>3, <1>4, EndFacts
  <2>2. CASE err'[e] = "none"
    BY <2>2 DEF Explained
  <2>3. CASE ctx'[e].state = "ERROR" /\ (~Interrupted' => Explained(e, err[e])')
    BY <1>4, <2>3
  <2>4. CASE err'[e] = err[e] /\ err[e] # "none"
    <3>1. Explained(e, err[e])
      BY <2>1, ExplainedAll DEF SessionInv, ErrorInv
    <3>2. ctx[e].state \in Stopped
      BY <2>4 DEF ErrorInv, Stopped
    <3>3. ctx'[e].push = ctx[e].push /\ ctx'[e].auth_complete = ctx[e].auth_complete
      BY <1>1, <2>1, <3>2 DEF StaysPut
    <3>4. ctx[Peer(e)].state \in Gone => ctx'[Peer(e)].state \in Gone
      BY <1>1, <2>1, EndFacts DEF Ages
    <3>5. ctx[e].push > 0 /\ ~ctx[e].auth_complete
            => ctx'[e].push > 0 /\ ~ctx'[e].auth_complete
      BY <3>3, Zenon
    <3>6. cfg' = cfg /\ (rejected # {} => rejected' # {})
      BY DEF Grows
    <3>. QED
      BY <2>4, <3>1, <3>4, <3>5, <3>6 DEF Explained
  <2>. QED
    BY <2>2, <2>3, <2>4
<1>5. FailureExplained'
  BY <1>4, ExplainedAll DEF SessionInv
<1>. QED
  BY <1>2, <1>5 DEF ErrorInv, Stopped

\* Histories, lives and stopped contexts, for every step.
LEMMA StepGrows == ASSUME [Next]_vars PROVE Grows
<1>1. ASSUME NEW e \in Ends, Recv(e)
      PROVE  Grows
  BY <1>1 DEF Recv, RecvServerHello, RecvServerHeader, RecvAuthOk, RecvAuthFail,
     RecvClientHello, RecvClientHeader, RecvAuthDevice, RecvUnsealable, RecvDisconnect,
     RecvLateAuth, Grows, past
<1>2. ASSUME NEW e \in Ends, NextEvent(e) \/ GetOutput(e) \/ Disconnect(e) \/ Reset(e)
      PROVE  Grows
  BY <1>2 DEF NextEvent, GetOutput, Disconnect, Reset, Grows, past
<1>3. CASE Decide \/ Reconnect
  BY <1>3 DEF Decide, AuthAccept, AuthReject, Reconnect, Grows, past
<1>4. CASE UNCHANGED vars
  BY <1>4 DEF vars, Grows, past
<1>. QED
  BY <1>1, <1>2, <1>3, <1>4 DEF Next

LEMMA MovePut ==
  ASSUME TypeOK, NEW e \in Ends, NEW r, Moves(e, r), r.life = ctx[e].life,
         ctx[e].state \in Gone => r.state \in Gone, r.state # "HELLO",
         ctx[e].state \notin Stopped
  PROVE  Ages /\ (\A x \in Ends : StaysPut(x)) /\ \A x \in Ends : ctx'[x].life = ctx[x].life
<1>1. ctx'[e] = r /\ ctx'[Peer(e)] = ctx[Peer(e)]
  BY TypeParts, MovesFacts
<1>2. \A x \in Ends : x = e \/ x = Peer(e)
  BY EndFacts
<1>3. Ages
  BY MoveAges
<1>. QED
  BY <1>1, <1>2, <1>3 DEF StaysPut

LEMMA StopPut ==
  ASSUME TypeOK, NEW e \in Ends, Stops(e)
  PROVE  Ages /\ (\A x \in Ends : StaysPut(x)) /\ \A x \in Ends : ctx'[x].life = ctx[x].life
<1>1. /\ ctx'[Peer(e)] = ctx[Peer(e)]
      /\ ctx'[e].state \in Stopped /\ ctx'[e].life = ctx[e].life /\ ctx'[e].push = ctx[e].push
      /\ ctx'[e].auth_complete = ctx[e].auth_complete
  BY TypeParts, StopsFacts DEF Stopped
<1>2. \A x \in Ends : x = e \/ x = Peer(e)
  BY EndFacts
<1>. QED
  BY <1>1, <1>2 DEF Ages, StaysPut, Stopped, Gone

\* No step of the protocol touches a stopped context or takes one back.
LEMMA RecvPut ==
  ASSUME SessionInv, NEW e \in Ends, Recv(e)
  PROVE  Ages /\ (\A x \in Ends : StaysPut(x)) /\ \A x \in Ends : ctx'[x].life = ctx[x].life
<1>. USE EndFacts
<1>1. TypeOK /\ \A x \in Ends : ctx[x] \in CtxSet
  BY DEF SessionInv, TypeOK
<1>2. CASE RecvServerHello
  <2>1. PICK t \in Transcript :
          \/ Halts(Client)
          \/ Moves(Client, [ctx[Client] EXCEPT !.state = "SS_HEADER", !.t_hello = t,
                                               !.push_ready = TRUE])
    BY <1>1, <1>2, RecvServerHelloEffect
  <2>2. PICK r : r = [ctx[Client] EXCEPT !.state = "SS_HEADER", !.t_hello = t,
                                         !.push_ready = TRUE]
    OBVIOUS
  <2>3. r.life = ctx[Client].life /\ r.state = "SS_HEADER"
    BY <1>1, <2>2 DEF CtxSet
  <2>4. ctx[Client].state = "HELLO"
    BY <1>2 DEF RecvServerHello
  <2>. QED
    BY <1>1, <2>1, <2>2, <2>3, <2>4, MovePut, StopPut DEF Halts, Gone, Stopped
<1>3. CASE RecvClientHello
  <2>1. PICK t \in Transcript :
          \/ Halts(Server)
          \/ Moves(Server, [ctx[Server] EXCEPT !.state = "SS_HEADER", !.t_hello = t])
    BY <1>1, <1>3, RecvClientHelloEffect
  <2>2. PICK r : r = [ctx[Server] EXCEPT !.state = "SS_HEADER", !.t_hello = t]
    OBVIOUS
  <2>3. r.life = ctx[Server].life /\ r.state = "SS_HEADER"
    BY <1>1, <2>2 DEF CtxSet
  <2>4. ctx[Server].state = "HELLO"
    BY <1>3 DEF RecvClientHello
  <2>. QED
    BY <1>1, <2>1, <2>2, <2>3, <2>4, MovePut, StopPut DEF Halts, Gone, Stopped
<1>4. CASE RecvServerHeader
  <2>. DEFINE f == Frame(Client)
  <2>1. PICK r, s :
          /\ r = [ctx[Client] EXCEPT !.state = "AUTH", !.pull_ready = TRUE,
                                     !.header = f.life]
          /\ s = [ctx[Client] EXCEPT !.state = "AUTH", !.pull_ready = TRUE,
                                     !.header = f.life, !.push = @ + 1]
    OBVIOUS
  <2>2. Halts(Client) \/ Moves(Client, r) \/ Moves(Client, s)
    BY <1>1, <1>4, <2>1, RecvServerHeaderEffect
  <2>3. /\ r.life = ctx[Client].life /\ r.state = "AUTH"
        /\ s.life = ctx[Client].life /\ s.state = "AUTH"
    BY <1>1, <2>1 DEF CtxSet
  <2>4. ctx[Client].state = "SS_HEADER"
    BY <1>4 DEF RecvServerHeader
  <2>. QED
    BY <1>1, <2>2, <2>3, <2>4, MovePut, StopPut DEF Halts, Gone, Stopped
<1>5. CASE RecvClientHeader
  <2>1. PICK r :
          r = [ctx[Server] EXCEPT !.state = "AUTH", !.pull_ready = TRUE,
                                  !.header = Frame(Server).life, !.push_ready = TRUE]
    OBVIOUS
  <2>2. Halts(Server) \/ Moves(Server, r)
    BY <1>1, <1>5, <2>1, RecvClientHeaderEffect
  <2>3. r.life = ctx[Server].life /\ r.state = "AUTH"
    BY <1>1, <2>1 DEF CtxSet
  <2>4. ctx[Server].state = "SS_HEADER"
    BY <1>5 DEF RecvClientHeader
  <2>. QED
    BY <1>1, <2>2, <2>3, <2>4, MovePut, StopPut DEF Halts, Gone, Stopped
<1>6. CASE RecvAuthDevice
  <2>1. PICK r, s :
          /\ r = [ctx[Server] EXCEPT !.pull = @ + 1, !.auth_awaiting_decide = TRUE]
          /\ s = [ctx[Server] EXCEPT !.pull = @ + 1, !.push = @ + 1, !.state = "ERROR"]
    OBVIOUS
  <2>2. Moves(Server, r) \/ Moves(Server, s)
    BY <1>1, <1>6, <2>1, RecvAuthDeviceEffect
  <2>3. /\ r.life = ctx[Server].life /\ r.state = ctx[Server].state
        /\ s.life = ctx[Server].life /\ s.state = "ERROR"
    BY <1>1, <2>1 DEF CtxSet
  <2>4. ctx[Server].state = "AUTH"
    BY <1>6 DEF RecvAuthDevice
  <2>. QED
    BY <1>1, <2>2, <2>3, <2>4, MovePut DEF Gone, Stopped
<1>7. CASE RecvAuthOk
  <2>1. PICK r : r = [ctx[Client] EXCEPT !.pull = @ + 1, !.state = "READY",
                                         !.auth_complete = TRUE]
    OBVIOUS
  <2>2. Moves(Client, r)
    BY <1>1, <1>7, <2>1, RecvAuthOkEffect
  <2>3. r.life = ctx[Client].life /\ r.state = "READY"
    BY <1>1, <2>1 DEF CtxSet
  <2>4. ctx[Client].state = "AUTH"
    BY <1>7 DEF RecvAuthOk
  <2>. QED
    BY <1>1, <2>2, <2>3, <2>4, MovePut DEF Gone, Stopped
<1>8. CASE RecvAuthFail \/ RecvUnsealable(e) \/ RecvDisconnect(e) \/ RecvLateAuth(e)
  <2>1. Halts(Client) \/ Halts(e)
    BY <1>1, <1>8, RecvAuthFailEffect, RecvUnsealableEffect, RecvDisconnectEffect,
       RecvLateAuthEffect
  <2>. QED
    BY <1>1, <2>1, StopPut DEF Halts
<1>. QED
  BY <1>2, <1>3, <1>4, <1>5, <1>6, <1>7, <1>8 DEF Recv

\* The other steps.
LEMMA HostPut ==
  ASSUME SessionInv, Next, ~(\E e \in Ends : Recv(e))
  PROVE  /\ Ages /\ \A x \in Ends : StaysPut(x)
         /\ \A x \in Ends : ctx'[x].life > ctx[x].life => err'[x] = "none"
<1>. USE EndFacts
<1>1. TypeOK /\ \A x \in Ends : ctx[x] \in CtxSet /\ ctx[x].life \in Nat
  BY TypeParts, CountTypes DEF SessionInv, TypeOK
<1>2. ASSUME \A x \in Ends : ctx'[x].life = ctx[x].life
      PROVE  \A x \in Ends : ctx'[x].life > ctx[x].life => err'[x] = "none"
  BY <1>1, <1>2
<1>3. ASSUME NEW e \in Ends, NextEvent(e) \/ GetOutput(e)
      PROVE  /\ Ages /\ (\A x \in Ends : StaysPut(x))
             /\ \A x \in Ends : ctx'[x].life = ctx[x].life
  BY <1>3 DEF NextEvent, GetOutput, Ages, StaysPut
<1>4. ASSUME NEW e \in Ends, Disconnect(e)
      PROVE  /\ Ages /\ (\A x \in Ends : StaysPut(x))
             /\ \A x \in Ends : ctx'[x].life = ctx[x].life
  <2>1. PICK r : r = [ctx[e] EXCEPT !.push = @ + 1, !.state = "DRAINING"]
    OBVIOUS
  <2>2. Stops(e) \/ (ctx[e].state \in {"AUTH", "READY"} /\ Moves(e, r))
    BY <1>1, <1>4, <2>1, DisconnectEffect
  <2>3. r.life = ctx[e].life /\ r.state = "DRAINING"
    BY <1>1, <2>1 DEF CtxSet
  <2>. QED
    BY <1>1, <2>2, <2>3, MovePut, StopPut DEF Gone, Stopped
<1>5. CASE Decide
  <2>1. PICK r, s :
          /\ r = [ctx[Server] EXCEPT !.auth_awaiting_decide = FALSE,
                             !.auth_decided = TRUE, !.auth_complete = TRUE,
                             !.push = @ + 1, !.state = "READY"]
          /\ s = [ctx[Server] EXCEPT !.auth_awaiting_decide = FALSE,
                             !.auth_decided = TRUE,
                             !.push = @ + 1, !.state = "ERROR"]
    OBVIOUS
  <2>2. (Moves(Server, r) \/ Moves(Server, s)) /\ ctx[Server].state = "AUTH"
    BY <1>1, <1>5, <2>1, AuthAcceptEffect, AuthRejectEffect
       DEF Decide, SessionInv, AuthAccept, AuthReject
  <2>3. /\ r.life = ctx[Server].life /\ r.state = "READY"
        /\ s.life = ctx[Server].life /\ s.state = "ERROR"
    BY <1>1, <2>1 DEF CtxSet
  <2>4. /\ Ages /\ (\A x \in Ends : StaysPut(x))
        /\ \A x \in Ends : ctx'[x].life = ctx[x].life
    BY <1>1, <2>2, <2>3, MovePut DEF Gone, Stopped
  <2>. QED
    BY <1>2, <2>4
<1>6. ASSUME \A x \in Ends :
               \/ ctx'[x] = ctx[x]
               \/ ctx'[x] = Fresh(ctx[x].life + 1) /\ err'[x] = "none"
      PROVE  /\ Ages /\ \A x \in Ends : StaysPut(x)
             /\ \A x \in Ends : ctx'[x].life > ctx[x].life => err'[x] = "none"
  <2>1. \A x \in Ends : \/ ctx'[x] = ctx[x]
                        \/ ctx'[x].life = ctx[x].life + 1 /\ err'[x] = "none"
    BY <1>6 DEF Fresh
  <2>2. \A x \in Ends : \/ ctx'[x] = ctx[x]
                        \/ ctx'[x].life > ctx[x].life /\ err'[x] = "none"
    BY <1>1, <2>1
  <2>3. \A x \in Ends : ctx'[x] = ctx[x] => ~(ctx'[x].life > ctx[x].life)
    BY <1>1
  <2>. QED
    BY <2>2, <2>3 DEF Ages, StaysPut
<1>7. ASSUME NEW e \in Ends, Reset(e)
      PROVE  \A x \in Ends :
               \/ ctx'[x] = ctx[x]
               \/ ctx'[x] = Fresh(ctx[x].life + 1) /\ err'[x] = "none"
  BY <1>1, <1>7 DEF Reset, TypeOK
<1>8. CASE Reconnect
  <2>1. \A x \in Ends : ctx'[x] = Fresh(ctx[x].life + 1) /\ err'[x] = "none"
    BY <1>8 DEF Reconnect
  <2>. QED
    BY <1>6, <2>1
<1>. QED
  BY <1>2, <1>3, <1>4, <1>5, <1>6, <1>7, <1>8 DEF Next

----------------------------------------------------------------------------
(* Why an end fails in an honest run without a reset *)

LEMMA OneLife ==
  ASSUME SessionInv, ~Interrupted
  PROVE  /\ \A e \in Ends : ctx[e].life = 1
         /\ \A t \in Transcript : Reached(t) => t = [c |-> 1, s |-> 1]
         /\ \A e \in Ends : \A f \in InTransit(e) : f.life = 1
<1>. USE EndFacts
<1>1. \A e \in Ends : ctx[e].life \in Nat /\ ctx[e].life >= 1
  BY TypeParts, HandshakeAssumption DEF SessionInv, TypeCtx, CtxSet, Lives
<1>2. \A e \in Ends : ctx[e].life = 1
  BY <1>1 DEF Interrupted
<1>3. ASSUME NEW t \in Transcript, Reached(t)
      PROVE  t = [c |-> 1, s |-> 1]
  <2>1. t.c \in Nat /\ t.s \in Nat /\ t.c >= 1 /\ t.s >= 1
    BY HandshakeAssumption DEF Transcript, Lives
  <2>2. t.c = 1 /\ t.s = 1
    BY <1>2, <1>3, <2>1 DEF Reached
  <2>. QED
    BY <2>2 DEF Transcript
<1>4. ASSUME NEW e \in Ends, NEW f \in InTransit(e)
      PROVE  f.life = 1
  <2>1. f \in FrameSet /\ f.life <= 1
    BY <1>2, TransitFacts
  <2>2. f.life \in Nat /\ f.life >= 1
    BY <2>1, HandshakeAssumption DEF FrameSet, Lives
  <2>. QED
    BY <2>1, <2>2
<1>. QED
  BY <1>2, <1>3, <1>4

\* The transcripts of ends in session, and of what they sealed, are all the same.
LEMMA OneTranscript ==
  ASSUME SessionInv, AuthInv, ~Interrupted
  PROVE  /\ \A e \in Ends : InSession(e) => ctx[e].t_hello = [c |-> 1, s |-> 1]
         /\ \A e \in Ends : \A f \in InTransit(e) :
              f.kind = "CIPHER" => f.key = [c |-> 1, s |-> 1]
         /\ \A g \in signed : g.msg = [c |-> 1, s |-> 1]
<1>. USE EndFacts
<1>1. TypeOK
  BY DEF SessionInv
<1>2. ASSUME NEW e \in Ends, InSession(e)
      PROVE  ctx[e].t_hello = [c |-> 1, s |-> 1]
  <2>1. /\ ctx[e].t_hello # None /\ ctx[e] \in CtxSet
        /\ OwnLife(e) = ctx[e].life /\ PeerLife(e) <= ctx[Peer(e)].life
    BY <1>1, <1>2 DEF SessionInv, PhaseInv, PhaseOK, TypeOK
  <2>2. ctx[e].t_hello \in Transcript
    BY <2>1 DEF CtxSet
  <2>3. ctx[e].life \in Nat
    BY <1>1, TypeParts, CountTypes
  <2>4. Reached(ctx[e].t_hello)
    BY <2>1, <2>3 DEF Reached, OwnLife, PeerLife
  <2>. QED
    BY <2>2, <2>4, OneLife
<1>3. ASSUME NEW e \in Ends, NEW f \in InTransit(e), f.kind = "CIPHER"
      PROVE  f.key = [c |-> 1, s |-> 1]
  <2>1. f.key # None /\ Reached(f.key)
    BY <1>3 DEF AuthInv, HonestInv, HonestFrame
  <2>2. f.key \in Transcript
    BY <2>1, TransitFacts DEF FrameSet
  <2>. QED
    BY <2>1, <2>2, OneLife
<1>4. ASSUME NEW g \in signed
      PROVE  g.msg = [c |-> 1, s |-> 1]
  <2>1. g.msg # None /\ Reached(g.msg)
    BY DEF AuthInv, SignedInv
  <2>2. g.msg \in Transcript
    BY <1>1, <2>1 DEF TypeOK, SigSet
  <2>. QED
    BY <2>1, <2>2, OneLife
<1>. QED
  BY <1>2, <1>3, <1>4

\* Without a reset, the frame that arrives is of the kind the state expects, and
\* opens.
LEMMA ExpectedFrame ==
  ASSUME SessionInv, AuthInv, ~Interrupted, NEW e \in Ends, Reads(e)
  PROVE  /\ ctx[e].state = "HELLO" => Frame(e).kind = "HELLO"
         /\ ctx[e].state = "SS_HEADER" => Frame(e).kind = "HEADER"
         /\ Running(e) => Opens(e, Frame(e))
<1>. DEFINE q == Peer(e)
            F == Frames(q)
<1>1. /\ TypeOK /\ q \in Ends /\ Peer(q) = e /\ StreamOK(q) /\ PhaseOK(e)
      /\ F # <<>> /\ Frame(e) = F[1]
  BY EndFacts DEF SessionInv, StreamInv, PhaseInv, Reads
<1>2. /\ F \in Seq(FrameSet)
      /\ SentUpTo(F, ctx[q].life, SentCount(q))
      /\ InSession(e) => ReadUpTo(F, PeerLife(e), ReadCount(e))
      /\ SentCount(q) \in Nat /\ ReadCount(e) \in Nat
  BY <1>1, StreamParts
<1>3. 1 \in DOMAIN F /\ F[1] \in FrameSet /\ Len(F) \in Nat
  BY <1>1, <1>2, EmptySeq, LenProperties, ElementOfSeq
<1>4. /\ F[1].life = 1 /\ ctx[q].life = 1 /\ Place(F[1]) \in Nat
      /\ Frame(e) \in InTransit(q)
  <2>1. Frame(e) \in InTransit(q)
    BY <1>1, ReadTransit
  <2>. QED
    BY <1>1, <1>3, <2>1, OneLife, FrameFacts
<1>5. ASSUME ctx[e].state = "HELLO"
      PROVE  Frame(e).kind = "HELLO"
  <2>1. Len(F) = SentCount(q)
    BY <1>1, <1>5 DEF StreamOK
  <2>2. Place(F[1]) + 1 + Len(F) = SentCount(q) + 1
    BY <1>2, <1>3, <1>4 DEF SentUpTo
  <2>3. Place(F[1]) = 0
    BY <1>2, <1>3, <1>4, <2>1, <2>2
  <2>. QED
    BY <1>1, <1>3, <2>3, FrameFacts
<1>6. InSession(e) => PeerLife(e) = 1 /\ ctx[e].t_hello = [c |-> 1, s |-> 1]
  BY OneTranscript DEF PeerLife
<1>7. InSession(e) => Place(F[1]) + 1 = ReadCount(e) + 1
  BY <1>2, <1>3, <1>4, <1>6 DEF ReadUpTo
<1>8. ASSUME ctx[e].state = "SS_HEADER"
      PROVE  Frame(e).kind = "HEADER"
  <2>1. InSession(e) /\ ReadCount(e) = 1
    BY <1>8 DEF InSession, ReadCount
  <2>2. Place(F[1]) = 1
    BY <1>4, <1>7, <2>1
  <2>. QED
    BY <1>1, <1>3, <2>2, FrameFacts
<1>9. ASSUME Running(e)
      PROVE  Opens(e, Frame(e))
  <2>1. /\ InSession(e) /\ ReadCount(e) = ctx[e].pull + 2 /\ ctx[e].pull \in Nat
        /\ ctx[e].header = PeerLife(e)
    BY <1>1, <1>9, RunningFacts
  <2>2. Place(F[1]) = ctx[e].pull + 2
    BY <1>2, <1>4, <1>7, <2>1
  <2>3. Place(F[1]) # 0 /\ Place(F[1]) # 1
    BY <2>1, <2>2
  <2>4. F[1].kind = "CIPHER"
    BY <1>3, <2>3, FrameFacts DEF FrameSet
  <2>5. F[1].seq = ctx[e].pull
    BY <1>3, <2>1, <2>2, <2>4, FrameFacts
  <2>6. F[1].key = [c |-> 1, s |-> 1]
    BY <1>1, <1>4, <2>4, OneTranscript
  <2>. QED
    BY <1>1, <1>4, <1>6, <2>1, <2>4, <2>5, <2>6 DEF Opens
<1>. QED
  BY <1>5, <1>8, <1>9

\* e fails with cause c.
LEMMA FailKeeps ==
  ASSUME SessionInv, SessionInv', ErrorInv, Ages, Grows, \A x \in Ends : StaysPut(x),
         \A x \in Ends : ctx'[x].life = ctx[x].life,
         NEW e \in Ends, NEW c, err' = [err EXCEPT ![e] = c], ctx'[e].state = "ERROR",
         ~Interrupted => Explained(e, c)'
  PROVE  ErrorInv'
<1>1. err'[e] = c /\ \A x \in Ends : x # e => err'[x] = err[x]
  BY DEF SessionInv, TypeOK
<1>2. Interrupted' <=> Interrupted
  BY DEF Interrupted
<1>3. ~Interrupted' => Explained(e, err[e])'
  BY <1>1, <1>2 DEF Explained
<1>4. \A x \in Ends : ~(ctx'[x].life > ctx[x].life)
  BY TypeParts, CountTypes DEF SessionInv
<1>. QED
  BY <1>1, <1>3, <1>4, ErrorKeeps

LEMMA NoFailKeeps ==
  ASSUME SessionInv, SessionInv', ErrorInv, Ages, Grows, \A x \in Ends : StaysPut(x),
         \A x \in Ends : ctx'[x].life = ctx[x].life, err' = err
  PROVE  ErrorInv'
<1>1. \A x \in Ends : ~(ctx'[x].life > ctx[x].life)
  BY TypeParts, CountTypes DEF SessionInv
<1>. QED
  BY <1>1, ErrorKeeps

LEMMA FailState ==
  ASSUME TypeOK, NEW e \in Ends, NEW c, NEW before, Fail(e, c, before)
  PROVE  /\ ctx'[e].state = "ERROR" /\ err' = [err EXCEPT ![e] = c]
         /\ ctx'[Peer(e)] = ctx[Peer(e)]
         /\ ctx'[e].push = ctx[e].push /\ ctx'[e].auth_complete = ctx[e].auth_complete
<1>1. ctx[e] \in CtxSet /\ ctx'[e] = [ctx[e] EXCEPT !.state = "ERROR"]
      /\ ctx'[Peer(e)] = ctx[Peer(e)]
  BY EndFacts DEF Fail, TypeOK
<1>. QED
  BY <1>1 DEF CtxSet, Fail

\* In HELLO and SS_HEADER.
LEMMA HelloFails ==
  ASSUME SessionInv, AuthInv, SessionInv', ErrorInv, Grows, Ages, \A x \in Ends : StaysPut(x),
         \A x \in Ends : ctx'[x].life = ctx[x].life,
         \/ RecvServerHello \/ RecvClientHello \/ RecvServerHeader \/ RecvClientHeader
  PROVE  ErrorInv'
<1>. USE EndFacts
<1>1. TypeOK /\ cfg' = cfg /\ cfg \in ConfigSet
  BY HandshakeAssumption DEF SessionInv, Grows, TypeOK
<1>2. CASE err' = err
  BY <1>2, NoFailKeeps
<1>3. CASE RecvServerHello /\ err' # err
  <2>. DEFINE f == Frame(Client)
              t == [c |-> ctx[Client].life, s |-> f.life]
              c == ServerHelloVerdict(f, t)
  <2>1. ctx[Client].state = "HELLO" /\ c # "none" /\ Fail(Client, c, <<>>)
    BY <1>3 DEF RecvServerHello
  <2>2. Reads(Client)
    BY <1>1, <1>3, RecvServerHelloEffect DEF Halts
  <2>3. PICK k : k = c
    OBVIOUS
  <2>4. ASSUME ~Interrupted
        PROVE  Explained(Client, k)'
    <3>1. f.kind = "HELLO" /\ f \in InTransit(Server)
      BY <1>1, <2>1, <2>2, <2>4, ExpectedFrame, ReadTransit
    <3>2. f.sig \in signed /\ f.sig.sk = cfg.serverSk
      BY <3>1 DEF AuthInv, HonestInv, HonestFrame
    <3>3. f.sig.msg = t
      <4>1. f.sig.msg = [c |-> 1, s |-> 1]
        BY <2>4, <3>2, OneTranscript
      <4>2. f.life = 1 /\ ctx[Client].life = 1
        BY <2>4, <3>1, OneLife
      <4>. QED
        BY <4>1, <4>2
    <3>4. cfg.serverSk \in {"own", "other"}
      BY <1>1 DEF ConfigSet
    <3>5. \/ k = "server pin mismatch" /\ cfg.pin = "other"
          \/ k = "server HELLO signature invalid" /\ cfg.serverSk = "other"
      BY <2>1, <2>3, <3>1, <3>2, <3>3, <3>4 DEF ServerHelloVerdict, Verify
    <3>. QED
      BY <1>1, <3>5 DEF Explained
  <2>5. ctx'[Client].state = "ERROR" /\ err' = [err EXCEPT ![Client] = k]
    BY <1>1, <2>1, <2>3, FailState
  <2>. QED
    BY <2>4, <2>5, FailKeeps
<1>4. CASE RecvClientHello /\ err' # err
  <2>1. /\ ctx[Server].state = "HELLO" /\ Frame(Server).kind # "HELLO"
        /\ Fail(Server, "hello decode failed", <<>>)
    BY <1>4 DEF RecvClientHello
  <2>2. Reads(Server)
    BY <1>1, <1>4, RecvClientHelloEffect DEF Halts
  <2>3. Interrupted
    BY <2>1, <2>2, ExpectedFrame
  <2>4. ctx'[Server].state = "ERROR" /\ err' = [err EXCEPT ![Server] = "hello decode failed"]
    BY <1>1, <2>1, FailState
  <2>. QED
    BY <2>3, <2>4, FailKeeps
<1>5. CASE RecvServerHeader /\ err' # err
  <2>1. /\ ctx[Client].state = "SS_HEADER" /\ Frame(Client).kind # "HEADER"
        /\ Fail(Client, "bad ss header length", <<>>)
    BY <1>5 DEF RecvServerHeader
  <2>2. Reads(Client)
    BY <1>1, <1>5, RecvServerHeaderEffect DEF Halts
  <2>3. Interrupted
    BY <2>1, <2>2, ExpectedFrame
  <2>4. ctx'[Client].state = "ERROR" /\ err' = [err EXCEPT ![Client] = "bad ss header length"]
    BY <1>1, <2>1, FailState
  <2>. QED
    BY <2>3, <2>4, FailKeeps
<1>6. CASE RecvClientHeader /\ err' # err
  <2>1. /\ ctx[Server].state = "SS_HEADER" /\ Frame(Server).kind # "HEADER"
        /\ Fail(Server, "bad ss header length", <<>>)
    BY <1>6 DEF RecvClientHeader
  <2>2. Reads(Server)
    BY <1>1, <1>6, RecvClientHeaderEffect DEF Halts
  <2>3. Interrupted
    BY <2>1, <2>2, ExpectedFrame
  <2>4. ctx'[Server].state = "ERROR" /\ err' = [err EXCEPT ![Server] = "bad ss header length"]
    BY <1>1, <2>1, FailState
  <2>. QED
    BY <2>3, <2>4, FailKeeps
<1>. QED
  BY <1>2, <1>3, <1>4, <1>5, <1>6

\* From AUTH on.
LEMMA SessionFails ==
  ASSUME SessionInv, AuthInv, SessionInv', ErrorInv, Grows, Ages, \A x \in Ends : StaysPut(x),
         \A x \in Ends : ctx'[x].life = ctx[x].life, NEW e \in Ends,
         \/ RecvUnsealable(e) \/ RecvDisconnect(e) \/ RecvLateAuth(e)
         \/ RecvAuthFail \/ RecvAuthDevice \/ RecvAuthOk
  PROVE  ErrorInv'
<1>. USE EndFacts
<1>1. TypeOK /\ cfg' = cfg /\ (rejected # {} => rejected' # {})
  BY DEF SessionInv, Grows
<1>2. CASE err' = err
  BY <1>2, NoFailKeeps
<1>3. CASE RecvUnsealable(e)
  <2>1. Running(e) /\ ~Opens(e, Frame(e)) /\ Fail(e, "ss decrypt failed", <<>>)
    BY <1>3 DEF RecvUnsealable, Running
  <2>2. Reads(e)
    BY <1>1, <1>3, RecvUnsealableEffect DEF Halts
  <2>3. Interrupted
    BY <2>1, <2>2, ExpectedFrame
  <2>4. ctx'[e].state = "ERROR" /\ err' = [err EXCEPT ![e] = "ss decrypt failed"]
    BY <1>1, <2>1, FailState
  <2>. QED
    BY <2>3, <2>4, FailKeeps
<1>4. CASE RecvDisconnect(e) /\ err' # err
  <2>1. /\ Opens(e, Frame(e)) /\ Frame(e).pdu = "DISCONNECT"
        /\ Fail(e, "unexpected pdu in AUTH", <<>>)
    BY <1>4 DEF RecvDisconnect, Unsealed
  <2>2. Reads(e)
    BY <1>1, <1>4, RecvDisconnectEffect DEF Halts
  <2>3. /\ ctx'[e].state = "ERROR" /\ err' = [err EXCEPT ![e] = "unexpected pdu in AUTH"]
        /\ ctx'[Peer(e)] = ctx[Peer(e)]
    <3>1. Fail(e, "unexpected pdu in AUTH", <<>>)
      BY <2>1
    <3>. HIDE EndFacts
    <3>. QED
      BY <1>1, <3>1, FailState, Zenon
  <2>4. ASSUME ~Interrupted
        PROVE  ctx[Peer(e)].state \in Gone
    <3>1. Frame(e) \in InTransit(Peer(e)) /\ HonestFrame(Peer(e), Frame(e))
      BY <1>1, <2>2, ReadTransit DEF AuthInv, HonestInv
    <3>2. Frame(e).life = ctx[Peer(e)].life
      BY <2>4, <3>1, OneLife
    <3>. QED
      BY <2>1, <3>1, <3>2 DEF HonestFrame, Opens
  <2>5. ~Interrupted => Explained(e, "unexpected pdu in AUTH")'
    BY <2>3, <2>4 DEF Explained
  <2>. QED
    BY <2>3, <2>5, FailKeeps
<1>5. CASE RecvLateAuth(e)
  <2>1. /\ ctx[e].state = "DRAINING" /\ Opens(e, Frame(e))
        /\ Frame(e).pdu \in {"AUTH_DEVICE", "AUTH_OK", "AUTH_FAIL"}
        /\ Fail(e, "unknown mux pdu", <<>>)
    BY <1>5 DEF RecvLateAuth, Unsealed
  <2>2. Reads(e)
    BY <1>1, <1>5, RecvLateAuthEffect DEF Halts
  <2>3. /\ ctx'[e].state = "ERROR" /\ err' = [err EXCEPT ![e] = "unknown mux pdu"]
        /\ ctx'[e].push = ctx[e].push /\ ctx'[e].auth_complete = ctx[e].auth_complete
    <3>1. Fail(e, "unknown mux pdu", <<>>)
      BY <2>1
    <3>. HIDE EndFacts
    <3>. QED
      BY <1>1, <3>1, FailState, Zenon
  <2>4. HonestFrame(Peer(e), Frame(e))
    BY <1>1, <2>2, ReadTransit DEF AuthInv, HonestInv
  <2>5. ctx[e].pull = 0
    BY <2>1, <2>4 DEF HonestFrame, Opens
  <2>6. ctx[e].push > 0 /\ ~ctx[e].auth_complete
    <3>1. PhaseOK(e)
      BY DEF SessionInv, PhaseInv
    <3>2. ctx[e].push > 0
      BY <2>1, <3>1 DEF PhaseOK
    <3>3. ctx[e].auth_complete => ctx[e].pull > 0
      BY <3>1, Zenon DEF PhaseOK
    <3>4. ~(ctx[e].pull > 0)
      BY <2>5
    <3>. QED
      BY <3>2, <3>3, <3>4, Zenon
  <2>7. ctx'[e].push > 0 /\ ~ctx'[e].auth_complete
    BY <2>3, <2>6, Zenon
  <2>8. Explained(e, "unknown mux pdu")'
    BY <2>7 DEF Explained
  <2>. QED
    BY <2>3, <2>8, FailKeeps
<1>6. CASE RecvAuthFail
  <2>1. /\ Opens(Client, Frame(Client)) /\ Frame(Client).pdu = "AUTH_FAIL"
        /\ Fail(Client, "authentication failed", <<"AUTH_FAILED">>)
    BY <1>6 DEF RecvAuthFail, Unsealed
  <2>2. Reads(Client)
    BY <1>1, <1>6, RecvAuthFailEffect DEF Halts
  <2>3. /\ ctx'[Client].state = "ERROR"
        /\ err' = [err EXCEPT ![Client] = "authentication failed"]
    BY <1>1, <2>1, FailState
  <2>4. HonestFrame(Server, Frame(Client))
    BY <1>1, <2>2, ReadTransit DEF AuthInv, HonestInv
  <2>5. rejected # {} \/ cfg.deviceSk = "other"
    BY <2>1, <2>4 DEF HonestFrame, Opens
  <2>6. Explained(Client, "authentication failed")'
    BY <1>1, <2>5 DEF Explained
  <2>. QED
    BY <2>3, <2>6, FailKeeps
<1>7. CASE RecvAuthDevice /\ err' # err
  <2>1. /\ Opens(Server, Frame(Server)) /\ Frame(Server).pdu = "AUTH_DEVICE"
        /\ ~Verify(Frame(Server).sig, ctx[Server].t_hello)
        /\ err' = [err EXCEPT ![Server] = "AUTH_DEVICE bad signature"]
        /\ ctx' = [ctx EXCEPT ![Server].pull = @ + 1, ![Server].push = @ + 1,
                              ![Server].state = "ERROR"]
    BY <1>7 DEF RecvAuthDevice, Unsealed
  <2>2. Reads(Server)
    BY <1>1, <1>7, RecvAuthDeviceEffect
  <2>3. ctx'[Server].state = "ERROR"
    <3>1. ctx[Server] \in CtxSet
      BY <1>1 DEF TypeOK
    <3>2. ctx'[Server] = [ctx[Server] EXCEPT !.pull = @ + 1, !.push = @ + 1, !.state = "ERROR"]
      BY <1>1, <2>1 DEF TypeOK
    <3>. QED
      BY <3>1, <3>2 DEF CtxSet
  <2>4. cfg.deviceSk = "other"
    <3>1. /\ cfg.deviceSk \in {"own", "other"}
          /\ Frame(Server).sig = [sk |-> cfg.deviceSk, msg |-> ctx[Server].t_hello]
      BY <2>1, <2>2, DeviceFrame
    <3>2. ~(Frame(Server).sig.sk = "own" /\ Frame(Server).sig.msg = ctx[Server].t_hello)
      BY <2>1, Zenon DEF Verify
    <3>. QED
      BY <3>1, <3>2
  <2>5. Explained(Server, "AUTH_DEVICE bad signature")'
    BY <1>1, <2>4 DEF Explained
  <2>. QED
    BY <2>1, <2>3, <2>5, FailKeeps
<1>8. CASE RecvAuthOk
  BY <1>2, <1>8 DEF RecvAuthOk
<1>. QED
  BY <1>2, <1>3, <1>4, <1>5, <1>6, <1>7, <1>8

LEMMA ErrorStep == SessionInv /\ AuthInv /\ ErrorInv /\ [Next]_vars => ErrorInv'
<1>. SUFFICES ASSUME SessionInv, AuthInv, ErrorInv, [Next]_vars
              PROVE  ErrorInv'
  OBVIOUS
<1>1. TypeOK /\ SessionInv' /\ Grows
  BY SessionStep, StepGrows DEF SessionInv
<1>2. ASSUME NEW e \in Ends, Recv(e)
      PROVE  ErrorInv'
  <2>1. Ages /\ (\A x \in Ends : StaysPut(x)) /\ \A x \in Ends : ctx'[x].life = ctx[x].life
    BY <1>2, RecvPut
  <2>2. CASE RecvServerHello \/ RecvServerHeader \/ RecvClientHello \/ RecvClientHeader
    BY <1>1, <2>1, <2>2, HelloFails
  <2>3. CASE \/ RecvUnsealable(e) \/ RecvDisconnect(e) \/ RecvLateAuth(e)
             \/ RecvAuthFail \/ RecvAuthDevice \/ RecvAuthOk
    BY <1>1, <1>2, <2>1, <2>3, SessionFails
  <2>. QED
    BY <1>2, <2>2, <2>3 DEF Recv
<1>3. CASE Next /\ ~(\E e \in Ends : Recv(e))
  <2>1. /\ Ages /\ \A x \in Ends : StaysPut(x)
        /\ \A x \in Ends : ctx'[x].life > ctx[x].life => err'[x] = "none"
    BY <1>3, HostPut
  <2>2. \A x \in Ends :
          \/ err'[x] = "none"
          \/ err'[x] = err[x]
          \/ ctx'[x].state = "ERROR" /\ (~Interrupted' => Explained(x, err[x])')
    <3>1. ASSUME NEW e \in Ends, NextEvent(e) \/ GetOutput(e) \/ Disconnect(e) \/ Reset(e)
          PROVE  \A x \in Ends : err'[x] = "none" \/ err'[x] = err[x]
      BY <1>1, <3>1 DEF NextEvent, GetOutput, Disconnect, Reset, TypeOK
    <3>2. CASE AuthAccept \/ Reconnect
      BY <3>2 DEF AuthAccept, Reconnect
    <3>3. CASE AuthReject
      <4>1. /\ ctx'[Server].state = "ERROR" /\ err'[Server] = "authentication rejected"
            /\ \A x \in Ends : x # Server => err'[x] = err[x]
            /\ rejected' # {}
        BY <1>1, <3>3, EndFacts, ZenonT(30) DEF AuthReject, TypeOK, CtxSet
      <4>2. Explained(Server, err[Server])'
        BY <4>1 DEF Explained
      <4>. QED
        BY <4>1, <4>2
    <3>. QED
      BY <1>3, <3>1, <3>2, <3>3 DEF Next, Decide
  <2>. QED
    BY <1>1, <2>1, <2>2, ErrorKeeps
<1>4. CASE UNCHANGED vars
  <2>1. /\ Ages /\ (\A x \in Ends : StaysPut(x))
        /\ \A x \in Ends : ctx'[x].life = ctx[x].life
        /\ err' = err
    BY <1>4 DEF vars, Ages, StaysPut
  <2>. QED
    BY <1>1, <2>1, NoFailKeeps
<1>. QED
  BY <1>2, <1>3, <1>4

LEMMA InitError == Init => ErrorInv
<1>. SUFFICES ASSUME Init
              PROVE  ErrorInv
  OBVIOUS
<1>1. TypeOK /\ \A e \in Ends : err[e] = "none"
  BY InitType DEF Init
<1>2. \A e \in Ends : Explained(e, err[e])
  BY <1>1 DEF Explained
<1>. QED
  BY <1>1, <1>2, ExplainedAll DEF ErrorInv

\* The invariant of SodchanHandshakeInv.
LEMMA HandshakeInvariant == Spec => []HandshakeInv
<1>1. SessionInv /\ AuthInv /\ ErrorInv /\ [Next]_vars => SessionInv' /\ AuthInv' /\ ErrorInv'
  BY SessionStep, AuthStep, ErrorStep
<1>2. SessionInv /\ AuthInv /\ ErrorInv <=> HandshakeInv
  BY DEF HandshakeInv, SessionInv, AuthInv
<1>3. Spec => [](SessionInv /\ AuthInv /\ ErrorInv)
  BY <1>1, InitSession, InitAuth, InitError, PTL DEF Spec
<1>. QED
  BY <1>2, <1>3, PTL

\* The error paths of process_input and sodchan_auth_decide: without a reset, two
\* honest ends fail only for a reason outside the protocol, and never because a
\* frame has the wrong kind or does not open.
THEOREM FailuresExplained == Spec => []FailureExplained
<1>1. HandshakeInv => FailureExplained
  BY DEF HandshakeInv, ErrorInv
<1>. QED
  BY <1>1, HandshakeInvariant, PTL

============================================================================
