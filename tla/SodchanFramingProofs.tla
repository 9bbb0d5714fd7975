------------------------ MODULE SodchanFramingProofs ------------------------
(***************************************************************************)
(* Proofs about SodchanFraming: however the byte stream is cut, and        *)
(* whatever has been compacted or consumed meanwhile, the bytes between    *)
(* the two contexts are the frames sent and not yet handled.               *)
(***************************************************************************)
EXTENDS SodchanFraming, SodchanWireLemmas

Messages == {Clear(Header)} \cup {Record(p) : p \in Plains}

\* What has been sent: the header, then records within the sender's limits.
Sendable(k, m) ==
  /\ k = 1 => m = Clear(Header)
  /\ k > 1 => \E p \in Plains : /\ m = Record(p)
                                /\ Len(p) <= rec.tx
                                /\ Len(p) + Abytes <= FrameMaxBody(rec.tx)

SentInv ==
  /\ sent \in Seq(Messages)
  /\ pushed = Len(sent)
  /\ \A k \in 1 .. Len(sent) : Sendable(k, sent[k])

\* The body of the k-th frame of s, and the frame.
Body(s, k)  == IF s[k].kind = "clear" THEN s[k].bytes ELSE Seal(s[k].bytes, k - 1)
Coded(s, k) == PutU32(Len(Body(s, k))) \o Body(s, k)

\* at cuts the bytes into the frames of s after the first g: the k-th frame ends
\* at at[k].
Cuts(s, g, bytes, at) ==
  /\ at \in [g .. Len(s) -> 0 .. Len(bytes)]
  /\ at[g] = 0
  /\ at[Len(s)] = Len(bytes)
  /\ \A k \in (g + 1) .. Len(s) :
       /\ at[k] = at[k - 1] + Len(Coded(s, k))
       /\ \A i \in 1 .. Len(Coded(s, k)) : bytes[at[k - 1] + i] = Coded(s, k)[i]

Aligned(s, g, bytes) == \E at : Cuts(s, g, bytes, at)

\* A receiver r (context and history) in the middle of process_input, with rest
\* the bytes it has not been fed.
Final(m) == \E p \in Plains : m = Record(p) /\ p[1] = FinalByte

Refused(r) ==
  /\ rec.rx < rec.tx
  /\ Len(r.got) < Len(sent)
  /\ Len(sent[Len(r.got) + 1].bytes) > rec.rx
  /\ r.ctx.err = "frame parse error"

Receiver == [ctx : RxSet, got : Seq(Messages)]

RxInv(r, rest) ==
  /\ r \in Receiver
  /\ Len(r.ctx.buf) <= InCap
  /\ Len(r.got) <= Len(sent)
  /\ \A i \in 1 .. Len(r.got) : r.got[i] = sent[i]
  /\ r.ctx.pulled = Len(r.got)
  /\ \A i \in 1 .. Len(r.got) :
       Final(r.got[i]) => i = Len(r.got) /\ r.ctx.state = "CLOSED"
  /\ r.ctx.state = "ERROR" => Refused(r)
  /\ r.ctx.state = "UP" => Aligned(sent, Len(r.got), r.ctx.buf \o rest)

----------------------------------------------------------------------------
(* Constants and frames *)

LEMMA FramingFacts ==
  /\ InCap \in Nat /\ InCap <= U32Max /\ OutCap = InCap
  /\ ClearMax \in Nat /\ W32 + ClearMax <= InCap /\ W32 \in Nat /\ W32 > 0
  /\ Header \in Seq(Byte) /\ Len(Header) >= 1 /\ Len(Header) <= ClearMax
  /\ PlainBuf \in Nat
  /\ \A p \in Plains : p \in Seq(Byte) /\ Len(p) >= 1 /\ Len(p) <= PlainBuf
  /\ \A n \in RecordSizes : n \in Nat
  /\ \A k \in Chunks : k \in Nat /\ k > 0
BY FramingAssumption, BaseFacts

LEMMA U32MaxNat == U32Max \in Nat
BY PowDef, PowMonotone, BaseFacts DEF U32Max

\* What ss_frame_max_body lies between.
LEMMA FrameMaxFacts ==
  ASSUME NEW n \in Nat
  PROVE  /\ FrameMaxBody(n) \in Int
         /\ FrameMaxBody(n) <= InCap - W32
         /\ FrameMaxBody(n) <= n + 1
         /\ n + 1 + W32 <= InCap => FrameMaxBody(n) = n + 1
         /\ n + 1 + W32 > InCap => FrameMaxBody(n) = InCap - W32
BY FramingFacts DEF FrameMaxBody, Abytes

LEMMA SealFacts ==
  ASSUME NEW p \in Seq(Byte), NEW n \in Nat
  PROVE  /\ Seal(p, n) \in Seq(Byte)
         /\ Len(Seal(p, n)) = Len(p) + 1
         /\ Plain(Seal(p, n)) = p
         /\ Opens(Seal(p, n), n)
<1>1. Tag(n) \in Seq(Byte) /\ Len(Tag(n)) = 1
  BY DivMod DEF Tag
<1>2. /\ Seal(p, n) \in Seq(Byte) /\ Len(Seal(p, n)) = Len(p) + 1
      /\ \A i \in 1 .. Len(p) : Seal(p, n)[i] = p[i]
  BY <1>1, ConcatFacts, SMTT(30) DEF Seal
<1>3. Plain(Seal(p, n)) = p
  <2> DEFINE c == Seal(p, n)
             q == SubSeq(c, 1, Len(p))
  <2>1. q \in Seq(Byte) /\ Len(q) = Len(p) /\ \A i \in 1 .. Len(p) : q[i] = p[i]
    <3> HIDE DEF c
    <3>1. c \in Seq(Byte) /\ Len(c) = Len(p) + 1 /\ \A i \in 1 .. Len(p) : c[i] = p[i]
      BY <1>2 DEF c
    <3> QED BY <3>1
  <2>2. Plain(c) = q
    <3>1. Len(c) - 1 = Len(p)
      BY <1>2
    <3> QED BY <3>1 DEF Plain, Abytes
  <2> HIDE DEF q, c
  <2> QED BY <2>1, <2>2, SeqsEqual DEF c
<1> QED BY <1>2, <1>3 DEF Opens

\* A frame is its length and its body.
LEMMA FrameOf ==
  ASSUME NEW b \in Seq(Byte), NEW f, f = PutU32(Len(b)) \o b
  PROVE  /\ f \in Seq(Byte)
         /\ Len(f) = W32 + Len(b)
         /\ \A i \in 1 .. W32 : f[i] = PutU32(Len(b))[i]
         /\ \A i \in 1 .. Len(b) : f[W32 + i] = b[i]
<1> DEFINE u == PutU32(Len(b))
<1>0. u \in Seq(Byte)
  BY PutU32Type
<1>1. Len(u) = W32
  BY PutU32Type
<1>2. f = u \o b
  OBVIOUS
<1> HIDE DEF u
<1>3. /\ u \o b \in Seq(Byte)
      /\ Len(u \o b) = Len(u) + Len(b)
      /\ \A i \in 1 .. Len(u) : (u \o b)[i] = u[i]
      /\ \A i \in 1 .. Len(b) : (u \o b)[Len(u) + i] = b[i]
  BY <1>0, ConcatFacts
<1>4. /\ f \in Seq(Byte)
      /\ Len(f) = W32 + Len(b)
      /\ \A i \in 1 .. W32 : f[i] = u[i]
      /\ \A i \in 1 .. Len(b) : f[W32 + i] = b[i]
  BY <1>1, <1>2, <1>3
<1> QED BY <1>4 DEF u

\* What the k-th frame carries.
LEMMA BodyFacts ==
  ASSUME rec \in [tx : RecordSizes, rx : RecordSizes],
         NEW s \in Seq(Messages), NEW k \in 1 .. Len(s), Sendable(k, s[k])
  PROVE  /\ Body(s, k) \in Seq(Byte)
         /\ Len(Body(s, k)) >= 1
         /\ Len(Body(s, k)) <= U32Max
         /\ k = 1 => s[k] = Clear(Header) /\ Body(s, k) = Header
         /\ k > 1 => \E p \in Plains : /\ s[k] = Record(p) /\ Body(s, k) = Seal(p, k - 1)
                                       /\ Len(p) <= rec.tx
                                       /\ Len(Body(s, k)) = Len(p) + 1
                                       /\ Len(Body(s, k)) <= FrameMaxBody(rec.tx)
<1>1. CASE k = 1
  <2>1. s[k] = Clear(Header)
    BY <1>1 DEF Sendable
  <2>2. Body(s, k) = Header
    BY <2>1 DEF Body, Clear
  <2>3. Header \in Seq(Byte) /\ Len(Header) >= 1
    BY FramingFacts
  <2>4. Len(Header) <= U32Max
    BY <2>3, FramingFacts, U32MaxNat
  <2>5. ~(k > 1)
    BY <1>1
  <2> QED BY <2>1, <2>2, <2>3, <2>4, <2>5
<1>2. CASE k > 1
  <2>1. PICK p \in Plains : /\ s[k] = Record(p)
                            /\ Len(p) <= rec.tx
                            /\ Len(p) + 1 <= FrameMaxBody(rec.tx)
    BY <1>2 DEF Sendable, Abytes
  <2>2. p \in Seq(Byte) /\ k - 1 \in Nat
    BY FramingFacts
  <2>3. Body(s, k) = Seal(p, k - 1)
    BY <2>1 DEF Body, Record
  <2>4. Seal(p, k - 1) \in Seq(Byte) /\ Len(Seal(p, k - 1)) = Len(p) + 1
    BY <2>2, SealFacts
  <2>5. Len(p) + 1 <= U32Max
    <3>1. rec.tx \in Nat
      BY FramingFacts
    <3>2. FrameMaxBody(rec.tx) \in Int /\ FrameMaxBody(rec.tx) <= InCap - W32
      BY <3>1, FrameMaxFacts
    <3>3. Len(p) \in Nat
      BY <2>2
    <3> QED BY <2>1, <3>2, <3>3, FramingFacts, U32MaxNat
  <2>6. Len(p) + 1 >= 1
    BY <2>2
  <2>7. k # 1
    BY <1>2
  <2> QED BY <2>1, <2>3, <2>4, <2>5, <2>6, <2>7
<1> QED BY <1>1, <1>2

LEMMA CodedFacts ==
  ASSUME rec \in [tx : RecordSizes, rx : RecordSizes],
         NEW s \in Seq(Messages), NEW k \in 1 .. Len(s), Sendable(k, s[k])
  PROVE  /\ Coded(s, k) \in Seq(Byte)
         /\ Len(Coded(s, k)) = W32 + Len(Body(s, k))
         /\ \A i \in 1 .. W32 : Coded(s, k)[i] = PutU32(Len(Body(s, k)))[i]
         /\ \A i \in 1 .. Len(Body(s, k)) : Coded(s, k)[W32 + i] = Body(s, k)[i]
<1>1. Body(s, k) \in Seq(Byte)
  BY BodyFacts
<1> QED BY <1>1, FrameOf DEF Coded

----------------------------------------------------------------------------
(* Alignment *)

\* One more frame at the end.
LEMMA AlignedSend ==
  ASSUME NEW s \in Seq(Messages), NEW m \in Messages, NEW g \in 0 .. Len(s),
         NEW bytes \in Seq(Byte), Aligned(s, g, bytes),
         NEW t, t = Append(s, m), \A k \in 1 .. Len(t) : Coded(t, k) \in Seq(Byte)
  PROVE  Aligned(t, g, bytes \o Coded(t, Len(t)))
<1> DEFINE n == Len(s)
           f == Coded(t, n + 1)
           all == bytes \o f
<1>1. PICK at : Cuts(s, g, bytes, at)
  BY DEF Aligned
<1>2. n \in Nat /\ Len(t) = n + 1 /\ g \in Nat /\ g <= n
  OBVIOUS
<1>3. ASSUME NEW k \in 1 .. n PROVE Coded(t, k) = Coded(s, k)
  <2>1. t[k] = s[k]
    OBVIOUS
  <2> QED BY <2>1 DEF Coded, Body
<1>4. f \in Seq(Byte)
  <2>1. n + 1 \in 1 .. Len(t)
    BY <1>2
  <2> QED BY <2>1
<1> HIDE DEF f
<1>5. /\ all \in Seq(Byte) /\ Len(all) = Len(bytes) + Len(f) /\ Len(bytes) \in Nat /\ Len(f) \in Nat
      /\ \A i \in 1 .. Len(bytes) : all[i] = bytes[i]
      /\ \A i \in 1 .. Len(f) : all[Len(bytes) + i] = f[i]
  BY <1>4, ConcatFacts
<1> HIDE DEF all, n
<1> DEFINE to == [k \in g .. (n + 1) |-> IF k = n + 1 THEN Len(all) ELSE at[k]]
<1>6. \A k \in g .. n : at[k] \in 0 .. Len(bytes)
  BY <1>1, <1>2 DEF Cuts, n
<1>7. /\ to \in [g .. (n + 1) -> 0 .. Len(all)]
      /\ to[n + 1] = Len(all)
      /\ \A k \in g .. n : to[k] = at[k]
  BY <1>2, <1>5, <1>6
<1> HIDE DEF to
<1>8. to[g] = 0
  BY <1>1, <1>2, <1>7 DEF Cuts
<1>9. ASSUME NEW k \in (g + 1) .. (n + 1)
      PROVE  /\ to[k] = to[k - 1] + Len(Coded(t, k))
             /\ \A i \in 1 .. Len(Coded(t, k)) : all[to[k - 1] + i] = Coded(t, k)[i]
  <2>1. CASE k = n + 1
    <3>1. k - 1 = n /\ n \in g .. n
      BY <1>2, <2>1
    <3>2. to[k - 1] = Len(bytes)
      BY <1>1, <1>7, <3>1 DEF Cuts, n
    <3>3. Coded(t, k) = f
      BY <2>1 DEF f
    <3> QED BY <1>5, <1>7, <2>1, <3>2, <3>3
  <2>2. CASE k <= n
    <3>1. k \in (g + 1) .. n /\ k \in g .. n /\ k - 1 \in g .. n /\ k \in 1 .. n
      BY <1>2, <2>2
    <3>2. /\ at[k] = at[k - 1] + Len(Coded(s, k))
          /\ \A i \in 1 .. Len(Coded(s, k)) : bytes[at[k - 1] + i] = Coded(s, k)[i]
      BY <1>1, <3>1 DEF Cuts, n
    <3>3. to[k] = at[k] /\ to[k - 1] = at[k - 1]
      BY <1>7, <3>1
    <3>4. at[k] \in 0 .. Len(bytes) /\ at[k - 1] \in 0 .. Len(bytes)
      BY <1>6, <3>1
    <3> DEFINE c == Coded(s, k)
               a == at[k - 1]
    <3>5. \A i \in 1 .. Len(c) : all[a + i] = bytes[a + i]
      <4>1. Len(c) \in Int /\ a + Len(c) <= Len(bytes) /\ a >= 0 /\ a \in Int
        <5>1. Len(c) \in Nat
          BY <1>2, <1>3, <3>1
        <5> QED BY <3>2, <3>4, <5>1, <1>5
      <4> HIDE DEF c, a
      <4>2. \A i \in 1 .. Len(c) : a + i \in 1 .. Len(bytes)
        BY <4>1, <1>5
      <4> QED BY <4>2, <1>5
    <3>6. Coded(t, k) = Coded(s, k)
      BY <1>3, <3>1
    <3> QED BY <3>2, <3>3, <3>5, <3>6
  <2> QED BY <1>2, <2>1, <2>2
<1>10. Cuts(t, g, all, to)
  BY <1>2, <1>7, <1>8, <1>9 DEF Cuts, n
<1>11. bytes \o Coded(t, Len(t)) = all
  BY <1>2 DEF all, f, n
<1> QED BY <1>10, <1>11 DEF Aligned

\* The first frame leaves.
LEMMA AlignedConsume ==
  ASSUME NEW s \in Seq(Messages), NEW g \in Nat, g < Len(s),
         NEW bytes \in Seq(Byte), Aligned(s, g, bytes),
         \A k \in 1 .. Len(s) : Coded(s, k) \in Seq(Byte),
         NEW n, n = Len(Coded(s, g + 1))
  PROVE  /\ n \in 0 .. Len(bytes)
         /\ \A i \in 1 .. n : bytes[i] = Coded(s, g + 1)[i]
         /\ Aligned(s, g + 1, SubSeq(bytes, n + 1, Len(bytes)))
<1> DEFINE left == SubSeq(bytes, n + 1, Len(bytes))
<1>1. PICK at : Cuts(s, g, bytes, at)
  BY DEF Aligned
<1>2. /\ g + 1 \in (g + 1) .. Len(s) /\ g + 1 \in 1 .. Len(s) /\ (g + 1) - 1 = g
      /\ g + 1 \in g .. Len(s) /\ Len(s) \in Nat
  OBVIOUS
<1>3. n \in Nat
  BY <1>2
<1>4. /\ at[g] = 0 /\ at[Len(s)] = Len(bytes)
      /\ at[g + 1] = at[g] + n
      /\ \A i \in 1 .. n : bytes[at[g] + i] = Coded(s, g + 1)[i]
      /\ \A k \in g .. Len(s) : at[k] \in 0 .. Len(bytes)
  BY <1>1, <1>2, ZenonT(30) DEF Cuts
<1>5. at[g + 1] = n /\ n \in 0 .. Len(bytes)
  BY <1>2, <1>3, <1>4
<1>6. \A i \in 1 .. n : bytes[i] = Coded(s, g + 1)[i]
  BY <1>3, <1>4
<1>7. /\ left \in Seq(Byte) /\ Len(left) = Len(bytes) - n
      /\ \A i \in 1 .. (Len(bytes) - n) : left[i] = bytes[n + i]
  <2>1. ASSUME NEW m \in 0 .. Len(bytes), NEW l, l = SubSeq(bytes, m + 1, Len(bytes))
        PROVE  /\ l \in Seq(Byte) /\ Len(l) = Len(bytes) - m
               /\ \A i \in 1 .. (Len(bytes) - m) : l[i] = bytes[m + i]
    BY ONLY <2>1, bytes \in Seq(Byte), SubSeqFacts
  <2> QED BY <1>5, <2>1
<1> HIDE DEF left
<1> DEFINE Behind(k) == at[k] >= n
           S == {j \in 0 .. (Len(s) - (g + 1)) : Behind(g + 1 + j)}
<1>8. \A k \in (g + 1) .. Len(s) : at[k] >= n
  <2>1. 0 \in S
    <3>1. g + 1 + 0 = g + 1 /\ 0 \in 0 .. (Len(s) - (g + 1))
      BY <1>2
    <3> QED BY <1>3, <1>5, <3>1
  <2>2. ASSUME NEW j \in 0 .. ((Len(s) - (g + 1)) - 1), j \in S PROVE j + 1 \in S
    <3> DEFINE k == g + 1 + (j + 1)
    <3>1. /\ k \in (g + 1) .. Len(s) /\ k - 1 = g + 1 + j /\ k \in 1 .. Len(s)
          /\ k \in g .. Len(s) /\ k - 1 \in g .. Len(s)
          /\ j + 1 \in 0 .. (Len(s) - (g + 1))
      BY <1>2
    <3> HIDE DEF k
    <3>2. at[k] = at[k - 1] + Len(Coded(s, k))
      BY <1>1, <3>1 DEF Cuts
    <3>3. at[k - 1] >= n
      BY <2>2, <3>1
    <3>4. Len(Coded(s, k)) \in Nat
      BY <3>1
    <3>5. at[k - 1] \in Nat
      BY <1>4, <3>1
    <3>6. at[k] >= n
      BY <1>3, <3>2, <3>3, <3>4, <3>5
    <3> QED BY <3>1, <3>6 DEF k
  <2>3. Len(s) - (g + 1) \in Nat
    BY <1>2
  <2> HIDE DEF S, Behind
  <2>4. 0 .. (Len(s) - (g + 1)) \subseteq S
    BY <2>1, <2>2, <2>3, IntervalInduction
  <2>5. ASSUME NEW k \in (g + 1) .. Len(s) PROVE at[k] >= n
    <3>1. k - (g + 1) \in 0 .. (Len(s) - (g + 1)) /\ g + 1 + (k - (g + 1)) = k
      BY <1>2
    <3>2. k - (g + 1) \in S
      BY <2>4, <3>1
    <3> QED BY <3>1, <3>2 DEF S, Behind
  <2> QED BY <2>5
<1> DEFINE to == [k \in (g + 1) .. Len(s) |-> at[k] - n]
<1>9. ASSUME NEW k \in (g + 1) .. Len(s)
      PROVE  at[k] - n \in 0 .. Len(left) /\ at[k] \in Nat
  <2>1. at[k] >= n /\ at[k] \in 0 .. Len(bytes)
    BY <1>4, <1>8, <1>2
  <2> QED BY <1>3, <1>7, <2>1
<1>10. /\ to \in [(g + 1) .. Len(s) -> 0 .. Len(left)]
       /\ \A k \in (g + 1) .. Len(s) : to[k] = at[k] - n
  BY <1>9
<1> HIDE DEF to
<1>11. to[g + 1] = 0 /\ to[Len(s)] = Len(left)
  <2>1. to[g + 1] = at[g + 1] - n /\ to[Len(s)] = at[Len(s)] - n
    BY <1>2, <1>10
  <2> QED BY <1>3, <1>4, <1>5, <1>7, <2>1
<1>12. ASSUME NEW k \in (g + 1 + 1) .. Len(s)
       PROVE  /\ to[k] = to[k - 1] + Len(Coded(s, k))
              /\ \A i \in 1 .. Len(Coded(s, k)) : left[to[k - 1] + i] = Coded(s, k)[i]
  <2>1. k \in (g + 1) .. Len(s) /\ k - 1 \in (g + 1) .. Len(s) /\ k \in 1 .. Len(s)
    BY <1>2
  <2>2. /\ at[k] = at[k - 1] + Len(Coded(s, k))
        /\ \A i \in 1 .. Len(Coded(s, k)) : bytes[at[k - 1] + i] = Coded(s, k)[i]
    BY <1>1, <2>1 DEF Cuts
  <2>3. Len(Coded(s, k)) \in Nat
    BY <2>1
  <2>4. to[k] = at[k] - n /\ to[k - 1] = at[k - 1] - n
    BY <1>10, <2>1
  <2>5. /\ at[k] \in Nat /\ at[k - 1] \in Nat
        /\ at[k] - n \in 0 .. Len(left) /\ at[k - 1] - n \in 0 .. Len(left)
    BY <1>9, <2>1
  <2>6. ASSUME NEW i \in 1 .. Len(Coded(s, k))
        PROVE  left[to[k - 1] + i] = Coded(s, k)[i]
    <3>1. to[k - 1] + i \in 1 .. Len(left) /\ n + (to[k - 1] + i) = at[k - 1] + i
      <4> DEFINE x == at[k - 1]
                 y == at[k]
                 c == Len(Coded(s, k))
      <4>1. x \in Nat /\ y \in Nat /\ c \in Nat /\ y = x + c /\ i \in 1 .. c
            /\ y - n <= Len(left) /\ x - n >= 0 /\ to[k - 1] = x - n /\ Len(left) \in Nat
        BY <1>7, <2>2, <2>3, <2>4, <2>5
      <4> HIDE DEF x, y, c
      <4>2. (x - n) + i \in 1 .. Len(left) /\ n + ((x - n) + i) = x + i
        BY <1>3, <4>1
      <4> QED BY <4>1, <4>2 DEF x
    <3>2. left[to[k - 1] + i] = bytes[n + (to[k - 1] + i)]
      BY <1>7, <3>1
    <3> QED BY <2>2, <3>1, <3>2
  <2>7. to[k] = to[k - 1] + Len(Coded(s, k))
    <3>1. \A x, y, c, m \in Nat : y = x + c => y - m = (x - m) + c
      OBVIOUS
    <3> QED BY ONLY <1>3, <2>2, <2>3, <2>4, <2>5, <3>1
  <2> QED BY ONLY <2>6, <2>7, Zenon
<1>13. Cuts(s, g + 1, left, to)
  BY <1>10, <1>11, <1>12 DEF Cuts
<1> QED BY <1>5, <1>6, <1>13 DEF Aligned, left

\* No bytes without a frame.
LEMMA AlignedNone ==
  ASSUME NEW s \in Seq(Messages), NEW bytes \in Seq(Byte), Aligned(s, Len(s), bytes)
  PROVE  Len(bytes) = 0
BY DEF Aligned, Cuts

----------------------------------------------------------------------------
(* The frame at the head of in_buf *)

\* What sodchan_wire_frame_parse_max answers.
LEMMA ParseFacts ==
  ASSUME NEW b \in Seq(Byte), NEW max \in Int, NEW v, v = FrameParse(b, max)
  PROVE  /\ v \in {"FULL", "PROTOCOL", "OK"}
         /\ Len(b) < W32 => v = "FULL"
         /\ Len(b) >= W32 => GetU32(b, 0) \in Nat
         /\ v = "FULL" /\ Len(b) >= W32 =>
              GetU32(b, 0) <= max /\ Len(b) < W32 + GetU32(b, 0)
         /\ v = "PROTOCOL" => Len(b) >= W32 /\ (GetU32(b, 0) = 0 \/ GetU32(b, 0) > max)
         /\ v = "OK" => /\ Len(b) >= W32 + GetU32(b, 0) /\ Len(b) >= W32
                        /\ GetU32(b, 0) >= 1 /\ GetU32(b, 0) <= max
<1> DEFINE L == GetU32(b, 0)
<1>1. Len(b) \in Nat /\ W32 \in Nat
  BY BaseFacts
<1>2. CASE Len(b) < W32
  BY <1>1, <1>2 DEF FrameParse
<1>3. CASE Len(b) >= W32
  <2>1. L \in Nat
    <3>1. \A k \in 1 .. W32 : b[k] \in Byte
      BY <1>1, <1>3
    <3> QED BY <3>1, GetU32Type
  <2>2. v = IF L = 0 \/ L > max THEN "PROTOCOL"
            ELSE IF Len(b) < W32 + L THEN "FULL" ELSE "OK"
    <3> HIDE DEF L
    <3>1. v = CASE Len(b) < W32 -> "FULL"
                [] Len(b) >= W32 /\ (L = 0 \/ L > max)      -> "PROTOCOL"
                [] Len(b) >= W32 /\ L \in 1 .. max /\ Len(b) < W32 + L -> "FULL"
                [] OTHER                                           -> "OK"
      BY DEF FrameParse, L
    <3>2. ~(Len(b) < W32)
      BY <1>1, <1>3
    <3>3. CASE L = 0 \/ L > max
      <4>1. ~(L \in 1 .. max /\ Len(b) < W32 + L)
        BY <2>1, <3>3
      <4> QED BY <3>1, <3>2, <3>3, <4>1, <1>3
    <3>4. CASE ~(L = 0 \/ L > max) /\ Len(b) < W32 + L
      <4>1. L \in 1 .. max
        BY <2>1, <3>4
      <4> QED BY <3>1, <3>2, <3>4, <4>1, <1>3
    <3>5. CASE ~(L = 0 \/ L > max) /\ ~(Len(b) < W32 + L)
      BY <3>1, <3>2, <3>5
    <3> QED BY <3>3, <3>4, <3>5
  <2> HIDE DEF L
  <2>3. ~(Len(b) < W32)
    BY <1>1, <1>3
  <2>4. /\ v \in {"FULL", "PROTOCOL", "OK"}
        /\ v = "FULL" => L <= max /\ Len(b) < W32 + L
        /\ v = "PROTOCOL" => (L = 0 \/ L > max)
        /\ v = "OK" => Len(b) >= W32 + L /\ L >= 1 /\ L <= max
    BY <1>1, <2>1, <2>2
  <2> QED BY <1>3, <2>1, <2>3, <2>4 DEF L
<1> QED BY <1>1, <1>2, <1>3

\* Bytes that are aligned begin with the next frame sent, as far as they go.
LEMMA HeadFrame ==
  ASSUME rec \in [tx : RecordSizes, rx : RecordSizes], SentInv,
         NEW g \in 0 .. Len(sent), NEW b \in Seq(Byte), NEW rest \in Seq(Byte),
         Aligned(sent, g, b \o rest), Len(b) >= W32
  PROVE  /\ g < Len(sent)
         /\ GetU32(b, 0) = Len(Body(sent, g + 1))
         /\ Len(b) >= W32 + GetU32(b, 0) =>
              /\ FrameBody(b) = Body(sent, g + 1)
              /\ Aligned(sent, g + 1, SubSeq(b, FrameConsumed(b) + 1, Len(b)) \o rest)
<1> DEFINE all == b \o rest
           B == Body(sent, g + 1)
           C == Coded(sent, g + 1)
           n == Len(C)
<1>1. /\ all \in Seq(Byte) /\ Len(all) = Len(b) + Len(rest)
      /\ \A i \in 1 .. Len(b) : all[i] = b[i]
  BY ConcatFacts
<1>2. sent \in Seq(Messages) /\ \A k \in 1 .. Len(sent) : Sendable(k, sent[k])
  BY DEF SentInv
<1>3. \A k \in 1 .. Len(sent) : Coded(sent, k) \in Seq(Byte)
  BY <1>2, CodedFacts
<1>4. g < Len(sent)
  <2>1. ASSUME g = Len(sent) PROVE FALSE
    <3>1. Len(all) = 0
      BY <1>1, <1>2, <2>1, AlignedNone
    <3> QED BY <1>1, <3>1, BaseFacts
  <2> QED BY <1>2, <2>1
<1>5. g \in Nat /\ g + 1 \in 1 .. Len(sent)
  BY <1>2, <1>4
<1>6. /\ n \in 0 .. Len(all)
      /\ \A i \in 1 .. n : all[i] = C[i]
      /\ Aligned(sent, g + 1, SubSeq(all, n + 1, Len(all)))
  BY <1>1, <1>2, <1>3, <1>4, <1>5, AlignedConsume
<1>7. /\ B \in Seq(Byte) /\ Len(B) >= 1 /\ Len(B) <= U32Max
      /\ n = W32 + Len(B)
      /\ \A i \in 1 .. W32 : C[i] = PutU32(Len(B))[i]
      /\ \A i \in 1 .. Len(B) : C[W32 + i] = B[i]
  BY <1>2, <1>5, CodedFacts, BodyFacts
<1> HIDE DEF all, B, C, n
<1>8. W32 \in Nat /\ Len(B) \in Nat /\ Len(b) \in Nat
  BY <1>7, BaseFacts
<1>9. GetU32(b, 0) = Len(B)
  <2>1. ASSUME NEW k \in 1 .. W32 PROVE b[k] = PutU32(Len(B))[k]
    <3>1. k \in 1 .. Len(b) /\ k \in 1 .. n
      BY <1>7, <1>8
    <3> QED BY <1>1, <1>6, <1>7, <3>1
  <2>2. Len(B) \in 0 .. U32Max
    BY <1>7, <1>8, U32MaxNat
  <2> QED BY <2>1, <2>2, GetPutU32
<1>10. ASSUME Len(b) >= W32 + Len(B)
       PROVE  /\ FrameBody(b) = B
              /\ Aligned(sent, g + 1, SubSeq(b, FrameConsumed(b) + 1, Len(b)) \o rest)
  <2>0. n = W32 + Len(B)
    BY <1>7
  <2>1. n \in 0 .. Len(b) /\ FrameConsumed(b) = n
    <3>1. W32 + Len(B) \in 0 .. Len(b)
      BY <1>8, <1>10
    <3>2. FrameConsumed(b) = W32 + Len(B)
      BY <1>9 DEF FrameConsumed
    <3> QED BY <2>0, <3>1, <3>2
  <2>2. SubSeq(b, n + 1, Len(b)) \o rest = SubSeq(all, n + 1, Len(all))
    BY <2>1, DropConcat DEF all
  <2>3. FrameBody(b) = B
    <3> DEFINE c == SubSeq(b, W32 + 1, W32 + Len(B))
    <3>1. FrameBody(b) = c
      BY <1>9 DEF FrameBody, Slice
    <3>2. /\ c \in Seq(Byte) /\ Len(c) = Len(B)
          /\ \A i \in 1 .. Len(B) : c[i] = b[W32 + i]
      <4>1. W32 + Len(B) \in W32 .. Len(b) /\ (W32 + Len(B)) - W32 = Len(B)
        BY <1>8, <1>10
      <4> QED BY <1>8, <4>1, SubSeqFacts
    <3> HIDE DEF c
    <3>3. ASSUME NEW i \in 1 .. Len(B) PROVE b[W32 + i] = B[i]
      <4>1. W32 + i \in 1 .. Len(b) /\ W32 + i \in 1 .. n
        BY <1>7, <1>8, <1>10
      <4> QED BY <1>1, <1>6, <1>7, <4>1
    <3>4. c = B
      BY <1>7, <3>2, <3>3, SeqsEqual
    <3> QED BY <3>1, <3>4
  <2> QED BY <1>6, <2>1, <2>2, <2>3
<1> QED BY <1>4, <1>9, <1>10 DEF B

----------------------------------------------------------------------------
(* One turn of process_input *)

\* The loop leaves r alone.
Idle(r) ==
  \/ r.ctx.state # "UP"
  \/ FrameParse(r.ctx.buf, IF r.ctx.pulled = 0 THEN ClearMax ELSE FrameMaxBody(rec.rx))
       = "FULL"

LEMMA ReceiverFacts ==
  ASSUME NEW r \in Receiver
  PROVE  /\ r = [ctx |-> r.ctx, got |-> r.got]
         /\ r.ctx \in RxSet /\ r.got \in Seq(Messages)
         /\ r.ctx = [state |-> r.ctx.state, buf |-> r.ctx.buf, pulled |-> r.ctx.pulled,
                     err |-> r.ctx.err]
         /\ r.ctx.state \in {"UP", "ERROR", "CLOSED"}
         /\ r.ctx.buf \in Seq(Byte)
         /\ r.ctx.pulled \in Nat
BY DEF Receiver, RxSet

LEMMA IdleTurn == ASSUME NEW r \in Receiver, Idle(r) PROVE Turn(r) = r
BY DEF Turn, Idle

\* A live receiver that waits has room.
LEMMA IdleRoom ==
  ASSUME rec \in [tx : RecordSizes, rx : RecordSizes],
         NEW r \in Receiver, Idle(r), r.ctx.state = "UP"
  PROVE  Len(r.ctx.buf) < InCap
<1> DEFINE max == IF r.ctx.pulled = 0 THEN ClearMax ELSE FrameMaxBody(rec.rx)
           b == r.ctx.buf
<1>1. rec.rx \in Nat
  BY FramingFacts
<1>2. max \in Int /\ max + W32 <= InCap
  <2>1. FrameMaxBody(rec.rx) \in Int /\ FrameMaxBody(rec.rx) <= InCap - W32
    BY <1>1, FrameMaxFacts
  <2>2. FrameMaxBody(rec.rx) + W32 <= InCap
    BY <2>1, FramingFacts
  <2>3. ClearMax \in Int /\ ClearMax + W32 <= InCap
    BY FramingFacts
  <2> QED BY <2>1, <2>2, <2>3
<1>3. b \in Seq(Byte) /\ FrameParse(b, max) = "FULL"
  BY ReceiverFacts DEF Idle
<1> HIDE DEF max, b
<1>4. Len(b) < W32 \/ (GetU32(b, 0) <= max /\ Len(b) < W32 + GetU32(b, 0) /\ GetU32(b, 0) \in Nat)
  <2>1. Len(b) \in Nat /\ W32 \in Nat
    BY <1>3, FramingFacts
  <2> QED BY <1>2, <1>3, <2>1, ParseFacts
<1>5. Len(b) < InCap
  <2>1. Len(b) \in Nat /\ W32 \in Nat /\ InCap \in Nat /\ W32 <= InCap
    BY <1>3, FramingFacts
  <2> QED BY <1>2, <1>4, <2>1
<1> QED BY <1>5 DEF b

\* An empty in_buf is waiting.
LEMMA EmptyIdle ==
  ASSUME rec \in [tx : RecordSizes, rx : RecordSizes],
         NEW r \in Receiver, Len(r.ctx.buf) = 0
  PROVE  Idle(r)
<1> DEFINE max == IF r.ctx.pulled = 0 THEN ClearMax ELSE FrameMaxBody(rec.rx)
<1>1. max \in Int /\ 0 < W32
  BY FramingFacts, FrameMaxFacts, SMTT(30)
<1>2. r.ctx.buf \in Seq(Byte)
  BY ReceiverFacts
<1>3. FrameParse(r.ctx.buf, max) = "FULL"
  BY <1>1, <1>2, ParseFacts
<1> QED BY <1>3 DEF Idle

\* What a turn hands to the handlers: the body is that of the next frame sent.
Outcome(r, g, b, rest) ==
  /\ r.ctx.state = "UP" /\ g < Len(sent)
  /\ GetU32(b, 0) = Len(Body(sent, g + 1))
  /\ \/ /\ g = 0
        /\ Turn(r) = HandleHeader(r, Header)
     \/ /\ g > 0
        /\ GetU32(b, 0) > FrameMaxBody(rec.rx)
        /\ Turn(r) = Failed(r, "frame parse error")
     \/ /\ g > 0
        /\ GetU32(b, 0) <= FrameMaxBody(rec.rx)
        /\ Turn(r) = HandleRecord(r, Body(sent, g + 1))
  /\ Turn(r) # Failed(r, "frame parse error") =>
       /\ FrameConsumed(b) \in 1 .. Len(b)
       /\ Aligned(sent, g + 1, SubSeq(b, FrameConsumed(b) + 1, Len(b)) \o rest)

LEMMA TurnCases ==
  ASSUME rec \in [tx : RecordSizes, rx : RecordSizes], SentInv,
         NEW rest \in Seq(Byte), NEW r, RxInv(r, rest), ~Idle(r),
         NEW g, g = Len(r.got), NEW b, b = r.ctx.buf
  PROVE  Outcome(r, g, b, rest)
<1> DEFINE max == IF r.ctx.pulled = 0 THEN ClearMax ELSE FrameMaxBody(rec.rx)
           v == FrameParse(b, max)
           L == GetU32(b, 0)
<1>1. /\ r \in Receiver /\ r.ctx.state = "UP" /\ b \in Seq(Byte) /\ Len(b) \in Nat
      /\ g \in 0 .. Len(sent) /\ g \in Nat /\ r.ctx.pulled = g
      /\ Aligned(sent, g, b \o rest)
  <2>1. r \in Receiver /\ r.ctx.state = "UP"
    BY DEF RxInv, Idle
  <2>2. b \in Seq(Byte) /\ r.got \in Seq(Messages)
    BY <2>1, ReceiverFacts
  <2>3. Len(r.got) \in Nat /\ Len(sent) \in Nat /\ Len(r.got) <= Len(sent)
    BY <2>2 DEF SentInv, RxInv
  <2>4. r.ctx.pulled = Len(r.got) /\ Aligned(sent, Len(r.got), r.ctx.buf \o rest)
    BY <2>1 DEF RxInv
  <2> QED BY <2>1, <2>2, <2>3, <2>4
<1>2. max \in Int /\ rec.rx \in Nat /\ W32 \in Nat /\ W32 > 0
  <2>1. rec.rx \in Nat /\ W32 \in Nat /\ W32 > 0 /\ ClearMax \in Int
    BY FramingFacts
  <2>2. FrameMaxBody(rec.rx) \in Int
    BY <2>1, FrameMaxFacts
  <2> QED BY <2>1, <2>2
<1>3. v # "FULL"
  BY DEF Idle
<1>4. /\ v \in {"PROTOCOL", "OK"} /\ Len(b) >= W32 /\ L \in Nat
      /\ v = "PROTOCOL" => (L = 0 \/ L > max)
      /\ v = "OK" => Len(b) >= W32 + L /\ L <= max
  <2>1. Len(b) >= W32
    BY <1>1, <1>2, <1>3, ParseFacts
  <2> QED BY <1>1, <1>2, <1>3, <2>1, ParseFacts
<1>5. /\ g < Len(sent) /\ L = Len(Body(sent, g + 1))
      /\ v = "OK" => /\ FrameBody(b) = Body(sent, g + 1)
                     /\ Aligned(sent, g + 1, SubSeq(b, FrameConsumed(b) + 1, Len(b)) \o rest)
  BY <1>1, <1>4, HeadFrame
<1>6. /\ sent \in Seq(Messages) /\ g + 1 \in 1 .. Len(sent) /\ Sendable(g + 1, sent[g + 1])
  BY <1>1, <1>5 DEF SentInv
<1>7. L >= 1 /\ (g = 0 => Body(sent, g + 1) = Header)
  BY <1>5, <1>6, BodyFacts
<1>8. v = "OK" => FrameConsumed(b) \in 1 .. Len(b)
  <2>1. FrameConsumed(b) = W32 + L
    BY DEF FrameConsumed
  <2> QED BY <1>1, <1>2, <1>4, <2>1
<1>9. Turn(r) = CASE r.ctx.state # "UP" \/ v = "FULL" -> r
        [] r.ctx.state = "UP" /\ v = "PROTOCOL" -> Failed(r, "frame parse error")
        [] OTHER -> IF r.ctx.pulled = 0 THEN HandleHeader(r, FrameBody(b))
                                        ELSE HandleRecord(r, FrameBody(b))
  BY DEF Turn
<1>10. ASSUME v = "PROTOCOL" PROVE Turn(r) = Failed(r, "frame parse error") /\ L > max
  <2> HIDE DEF v, L, max
  <2>1. L > max
    BY <1>2, <1>4, <1>7, <1>10
  <2>2. Turn(r) = Failed(r, "frame parse error")
    BY <1>1, <1>3, <1>9, <1>10
  <2> QED BY <2>1, <2>2
<1>11. ASSUME v = "OK"
       PROVE  Turn(r) = IF g = 0 THEN HandleHeader(r, FrameBody(b))
                                 ELSE HandleRecord(r, FrameBody(b))
  <2> HIDE DEF v
  <2> QED BY <1>1, <1>3, <1>9, <1>11
<1>12. g = 0 => v = "OK"
  <2>1. ASSUME g = 0 PROVE L <= max
    <3>1. max = ClearMax
      BY <1>1, <2>1
    <3>2. L = Len(Header)
      BY <1>5, <1>7, <2>1
    <3> QED BY <3>1, <3>2, FramingFacts
  <2>2. ASSUME L <= max PROVE ~(L > max)
    BY <1>2, <1>4, <2>2
  <2> HIDE DEF v, L, max
  <2> QED BY <1>4, <1>10, <2>1, <2>2
<1>13. g > 0 => max = FrameMaxBody(rec.rx)
  BY <1>1
<1>14. g = 0 \/ g > 0
  BY <1>1
<1> HIDE DEF v, L, max
<1>15. CASE v = "PROTOCOL"
  <2>1. g > 0
    BY <1>12, <1>14, <1>15
  <2> QED BY <1>1, <1>5, <1>10, <1>13, <1>15, <2>1 DEF L, Outcome
<1>16. CASE v = "OK"
  <2>1. CASE g = 0
    <3>1. FrameBody(b) = Header /\ Turn(r) = HandleHeader(r, Header)
      BY <1>5, <1>7, <1>11, <1>16, <2>1
    <3> QED BY <1>1, <1>5, <1>8, <1>16, <2>1, <3>1 DEF L, Outcome
  <2>2. CASE g > 0
    <3>1. g # 0
      BY <2>2
    <3>2. FrameBody(b) = Body(sent, g + 1) /\ Turn(r) = HandleRecord(r, Body(sent, g + 1))
      BY <1>5, <1>11, <1>16, <3>1
    <3>3. L <= FrameMaxBody(rec.rx)
      BY <1>4, <1>13, <1>16, <2>2
    <3> QED BY <1>1, <1>5, <1>8, <1>16, <2>2, <3>2, <3>3 DEF L, Outcome
  <2> QED BY <1>14, <2>1, <2>2
<1> QED BY <1>4, <1>15, <1>16

\* A receiver by its parts.
States == {"UP", "ERROR", "CLOSED"}
Errors == {"none", "frame parse error", "ss ciphertext size",
           "ss plaintext too large", "ss decrypt failed"}

Rx(st, b, g, e, h) ==
  [ctx |-> [state |-> st, buf |-> b, pulled |-> g, err |-> e], got |-> h]

Good(st, b, g, e, h, rest) ==
  /\ Len(b) <= InCap
  /\ Len(h) = g
  /\ g <= Len(sent)
  /\ \A i \in 1 .. g : h[i] = sent[i]
  /\ \A i \in 1 .. g : Final(h[i]) => i = g /\ st = "CLOSED"
  /\ st = "ERROR" => /\ rec.rx < rec.tx
                     /\ g < Len(sent)
                     /\ Len(sent[g + 1].bytes) > rec.rx
                     /\ e = "frame parse error"
  /\ st = "UP" => Aligned(sent, g, b \o rest)

LEMMA RxJoin ==
  ASSUME NEW st \in States, NEW b \in Seq(Byte), NEW g \in Nat, NEW e \in Errors,
         NEW h \in Seq(Messages), NEW r, r = Rx(st, b, g, e, h), NEW rest,
         Good(st, b, g, e, h, rest)
  PROVE  RxInv(r, rest)
<1>1. /\ r \in Receiver /\ r.got = h /\ r.ctx.state = st /\ r.ctx.buf = b
      /\ r.ctx.pulled = g /\ r.ctx.err = e
  BY DEF Rx, Receiver, RxSet, States, Errors
<1>2. Len(r.got) = g
  BY <1>1 DEF Good
<1>3. /\ Len(r.ctx.buf) <= InCap
      /\ Len(r.got) <= Len(sent)
      /\ r.ctx.pulled = Len(r.got)
  BY <1>1, <1>2 DEF Good
<1>4. \A i \in 1 .. Len(r.got) : r.got[i] = sent[i]
  BY <1>1, <1>2 DEF Good
<1>5. \A i \in 1 .. Len(r.got) :
        Final(r.got[i]) => i = Len(r.got) /\ r.ctx.state = "CLOSED"
  BY <1>1, <1>2 DEF Good
<1>6. r.ctx.state = "ERROR" => Refused(r)
  BY <1>1, <1>2 DEF Good, Refused
<1>7. r.ctx.state = "UP" => Aligned(sent, Len(r.got), r.ctx.buf \o rest)
  BY <1>1, <1>2 DEF Good
<1> QED BY <1>1, <1>3, <1>4, <1>5, <1>6, <1>7 DEF RxInv

\* left is b without its first n bytes; hh is h and the message m.
Taken(b, n, left) == n \in 1 .. Len(b) /\ left = SubSeq(b, n + 1, Len(b))
Longer(h, m, hh)  == hh = Append(h, m)
Running == {"UP", "CLOSED"}

\* The receiver after the next frame has been handled.
LEMMA HandledKeeps ==
  ASSUME SentInv, NEW rest \in Seq(Byte),
         NEW b \in Seq(Byte), NEW g \in Nat, NEW e \in Errors, NEW h \in Seq(Messages),
         Good("UP", b, g, e, h, rest), g < Len(sent),
         NEW n, NEW left, Taken(b, n, left),
         Aligned(sent, g + 1, left \o rest),
         NEW st \in Running, Final(sent[g + 1]) => st = "CLOSED",
         NEW hh, Longer(h, sent[g + 1], hh)
  PROVE  /\ Good(st, left, g + 1, e, hh, rest)
         /\ Len(left) < Len(b) /\ left \in Seq(Byte) /\ hh \in Seq(Messages)
<1>1. left \in Seq(Byte) /\ Len(left) < Len(b)
  BY ONLY b \in Seq(Byte), Taken(b, n, left) DEF Taken
<1>2. sent \in Seq(Messages) /\ Len(sent) \in Nat /\ sent[g + 1] \in Messages
  BY DEF SentInv
<1>3. Len(h) = g /\ Len(b) <= InCap /\ InCap \in Nat /\ Len(b) \in Nat
  BY FramingFacts DEF Good
<1>4. /\ hh \in Seq(Messages) /\ Len(hh) = g + 1 /\ hh[g + 1] = sent[g + 1]
      /\ \A i \in 1 .. g : hh[i] = h[i]
  BY ONLY <1>2, <1>3, g \in Nat, h \in Seq(Messages), Longer(h, sent[g + 1], hh) DEF Longer
<1>5. \A i \in 1 .. g : h[i] = sent[i] /\ ~Final(h[i])
  BY DEF Good
<1>6. ASSUME NEW i \in 1 .. (g + 1)
      PROVE  hh[i] = sent[i] /\ (Final(hh[i]) => i = g + 1 /\ st = "CLOSED")
  <2>1. CASE i = g + 1
    BY <1>4, <2>1
  <2>2. CASE i \in 1 .. g
    BY <1>4, <1>5, <2>2
  <2>3. i = g + 1 \/ i \in 1 .. g
    OBVIOUS
  <2> QED BY <2>1, <2>2, <2>3
<1>7. Len(left) <= InCap /\ g + 1 <= Len(sent)
  BY <1>1, <1>2, <1>3
<1> QED BY <1>1, <1>4, <1>6, <1>7 DEF Good, Running

Ctx(st, b, g, e) == [state |-> st, buf |-> b, pulled |-> g, err |-> e]

\* A record that the sender's limit lets pass and the receiver's does not.
LEMMA LongerThan ==
  ASSUME NEW a \in Nat, NEW c \in Nat, NEW m \in Nat,
         m + 1 > FrameMaxBody(a), m + 1 <= FrameMaxBody(c)
  PROVE  a < c /\ m > a
<1>1. InCap \in Nat /\ W32 \in Nat
  BY FramingFacts
<1> QED BY <1>1 DEF FrameMaxBody, Abytes

LEMMA Finality ==
  /\ ~Final(Clear(Header))
  /\ \A p \in Plains : Final(Record(p)) <=> p[1] = FinalByte
BY DEF Final, Clear, Record

\* The next turn: a frame is handled, or refused over the record limits.
Turned(r, b, g, rest) ==
  \E st \in States, left \in Seq(Byte), k \in Nat, x \in Errors, hh \in Seq(Messages) :
    /\ Turn(r) = Rx(st, left, k, x, hh)
    /\ Good(st, left, k, x, hh, rest)
    /\ st # "UP" \/ Len(left) < Len(b)
    /\ k >= g

LEMMA TurnKeeps ==
  ASSUME rec \in [tx : RecordSizes, rx : RecordSizes], SentInv,
         NEW rest \in Seq(Byte),
         NEW b \in Seq(Byte), NEW g \in Nat, NEW e \in Errors, NEW h \in Seq(Messages),
         Good("UP", b, g, e, h, rest), NEW r, r = Rx("UP", b, g, e, h), ~Idle(r)
  PROVE  Turned(r, b, g, rest)
<1> DEFINE L == GetU32(b, 0)
<1>1. /\ r.got = h /\ r.ctx.buf = b /\ r.ctx.pulled = g
      /\ r.ctx = [state |-> "UP", buf |-> b, pulled |-> g, err |-> e]
  BY DEF Rx
<1>2. Len(h) = g
  BY DEF Good
<1>3. Outcome(r, g, b, rest)
  <2>1. RxInv(r, rest)
    BY RxJoin DEF States
  <2>2. g = Len(r.got) /\ b = r.ctx.buf
    BY <1>1, <1>2
  <2> QED BY <2>1, <2>2, TurnCases, Zenon
<1>4. /\ sent \in Seq(Messages) /\ g + 1 \in 1 .. Len(sent) /\ Sendable(g + 1, sent[g + 1])
      /\ rec.rx \in Nat /\ rec.tx \in Nat /\ L = Len(Body(sent, g + 1)) /\ g < Len(sent)
      /\ sent[g + 1] \in Messages
  <2>1. g < Len(sent) /\ L = Len(Body(sent, g + 1))
    BY <1>3, Zenon DEF Outcome
  <2>2. sent \in Seq(Messages) /\ rec.rx \in Nat /\ rec.tx \in Nat
    BY FramingFacts DEF SentInv
  <2>3. g + 1 \in 1 .. Len(sent)
    BY <2>1, <2>2
  <2>4. sent[g + 1] \in Messages
    BY <2>2, <2>3
  <2>5. Sendable(g + 1, sent[g + 1])
    BY <2>3 DEF SentInv
  <2> QED BY <2>1, <2>2, <2>3, <2>4, <2>5, Zenon
<1> DEFINE n == FrameConsumed(b)
           left == SubSeq(b, n + 1, Len(b))
           hh == Append(h, sent[g + 1])
<1>5. ASSUME NEW st \in Running, Final(sent[g + 1]) => st = "CLOSED",
             Turn(r) = Rx(st, left, g + 1, e, hh)
      PROVE  /\ Good(st, left, g + 1, e, hh, rest)
             /\ Len(left) < Len(b) /\ left \in Seq(Byte) /\ hh \in Seq(Messages)
  <2>1. Turn(r) # Failed(r, "frame parse error")
    <3> USE DEF Running
    <3>1. Failed(r, "frame parse error").ctx.state = "ERROR"
      BY DEF Failed, Rx
    <3>2. Rx(st, left, g + 1, e, hh).ctx.state = st
      BY DEF Rx
    <3> QED BY <1>5, <3>1, <3>2
  <2>2. n \in 1 .. Len(b) /\ Aligned(sent, g + 1, left \o rest)
    BY <1>3, <2>1, Zenon DEF Outcome
  <2>3. Taken(b, n, left) /\ Longer(h, sent[g + 1], hh)
    BY <2>2 DEF Taken, Longer
  <2> HIDE DEF n, left, hh
  <2>4. e \in Errors /\ h \in Seq(Messages) /\ b \in Seq(Byte) /\ rest \in Seq(Byte) /\ g \in Nat
        /\ Good("UP", b, g, e, h, rest) /\ g < Len(sent) /\ SentInv
    BY <1>4, Zenon
  <2>5. Good(st, left, g + 1, e, hh, rest)
    BY <1>5, <2>2, <2>3, <2>4, HandledKeeps, Zenon
  <2>6. Len(left) < Len(b) /\ left \in Seq(Byte)
    BY ONLY <2>3, <2>4 DEF Taken
  <2>7. hh \in Seq(Messages)
    BY ONLY <2>3, <2>4, <1>4 DEF Longer
  <2> QED BY <2>5, <2>6, <2>7
<1>10. r.got = h /\ "UP" \in Running /\ "CLOSED" \in Running
  BY <1>1 DEF Running
<1>11. ASSUME NEW st
       PROVE  Handled(r, Ctx(st, b, g + 1, e), sent[g + 1]) = Rx(st, left, g + 1, e, hh)
  <2> DEFINE c == Ctx(st, b, g + 1, e)
  <2>1. c.buf = b
    BY DEF Ctx
  <2>2. Handled(r, c, sent[g + 1]) = [ctx |-> [c EXCEPT !.buf = left], got |-> hh]
    BY <1>10, <2>1 DEF Handled
  <2> HIDE DEF left, hh
  <2>3. [c EXCEPT !.buf = left] = [state |-> st, buf |-> left, pulled |-> g + 1, err |-> e]
    BY DEF Ctx
  <2> QED BY <2>2, <2>3, Zenon DEF Rx
<1> HIDE DEF L
<1>6. CASE g = 0 /\ Turn(r) = HandleHeader(r, Header)
  <2>0. g = 0 /\ g + 1 = 1
    <3>1. g = 0
      BY <1>6, Zenon
    <3> QED BY <3>1
  <2>1. sent[g + 1] = Clear(Header)
    BY <1>4, <2>0, Zenon DEF Sendable
  <2>2. Turn(r) = Rx("UP", left, g + 1, e, hh)
    <3>1. [r.ctx EXCEPT !.pulled = 1] = Ctx("UP", b, g + 1, e)
      BY <2>0 DEF Rx, Ctx
    <3>2. Handled(r, Ctx("UP", b, g + 1, e), Clear(Header))
            = Rx("UP", left, g + 1, e, hh)
      <4>1. sent[g + 1] = Clear(Header)
        BY <2>1, Zenon
      <4>2. Handled(r, Ctx("UP", b, g + 1, e), sent[g + 1]) = Rx("UP", left, g + 1, e, hh)
        BY <1>11, Zenon
      <4> QED BY <4>1, <4>2
    <3>3. Turn(r) = Handled(r, [r.ctx EXCEPT !.pulled = 1], Clear(Header))
      BY <1>6, Zenon DEF HandleHeader
    <3> QED BY <3>1, <3>2, <3>3, Zenon
  <2>3. ~Final(sent[g + 1])
    BY <2>1, Finality, Zenon
  <2>4. /\ Good("UP", left, g + 1, e, hh, rest)
        /\ Len(left) < Len(b) /\ left \in Seq(Byte) /\ hh \in Seq(Messages)
    <3> HIDE DEF left, hh
    <3> QED BY <1>5, <1>10, <2>2, <2>3, Zenon
  <2> HIDE DEF left, hh
  <2>5. "UP" \in States /\ g + 1 \in Nat /\ g + 1 >= g
    BY DEF States
  <2> QED BY <2>2, <2>4, <2>5, Zenon DEF Turned
<1>7. CASE g > 0 /\ L > FrameMaxBody(rec.rx) /\ Turn(r) = Failed(r, "frame parse error")
  <2>0. g > 0 /\ L > FrameMaxBody(rec.rx) /\ g + 1 > 1
    <3>1. g > 0 /\ L > FrameMaxBody(rec.rx)
      BY <1>7, Zenon
    <3>2. g + 1 > 1
      BY <3>1
    <3> QED BY <3>1, <3>2, Zenon
  <2>1. PICK p \in Plains : /\ sent[g + 1] = Record(p)
                            /\ Len(p) <= rec.tx
                            /\ Len(Body(sent, g + 1)) = Len(p) + 1
                            /\ Len(Body(sent, g + 1)) <= FrameMaxBody(rec.tx)
    BY <1>4, <2>0, BodyFacts
  <2>2. Len(p) \in Nat /\ Len(sent[g + 1].bytes) = Len(p)
    BY <2>1, FramingFacts DEF Record
  <2>3. rec.rx < rec.tx /\ Len(p) > rec.rx
    <3>2. Len(p) + 1 > FrameMaxBody(rec.rx) /\ Len(p) + 1 <= FrameMaxBody(rec.tx)
      BY <1>4, <2>0, <2>1, Zenon
    <3> QED BY <1>4, <2>2, <3>2, LongerThan, Zenon
  <2>4. Turn(r) = Rx("ERROR", b, g, "frame parse error", h)
    BY <1>7 DEF Failed, Rx
  <2>5. Good("ERROR", b, g, "frame parse error", h, rest)
    <3>1. /\ Len(b) <= InCap /\ Len(h) = g /\ g <= Len(sent)
          /\ \A i \in 1 .. g : h[i] = sent[i] /\ ~Final(h[i])
      BY DEF Good
    <3> QED BY <1>4, <2>2, <2>3, <3>1 DEF Good
  <2>6. "ERROR" \in States /\ "frame parse error" \in Errors /\ "ERROR" # "UP"
    BY Zenon DEF States, Errors
  <2>7. g >= g
    OBVIOUS
  <2> QED BY <2>4, <2>5, <2>6, <2>7, Zenon DEF Turned
<1>8. CASE g > 0 /\ L <= FrameMaxBody(rec.rx) /\ Turn(r) = HandleRecord(r, Body(sent, g + 1))
  <2>1. PICK p \in Plains : /\ sent[g + 1] = Record(p)
                            /\ Body(sent, g + 1) = Seal(p, (g + 1) - 1)
                            /\ Len(Body(sent, g + 1)) = Len(p) + 1
    <3>1. g + 1 > 1
      <4>1. g > 0
        BY <1>8, Zenon
      <4> QED BY <4>1
    <3> QED BY <1>4, <3>1, BodyFacts
  <2> DEFINE ct == Seal(p, g)
  <2>2. /\ p \in Seq(Byte) /\ Len(p) \in Nat /\ Len(p) >= 1 /\ Len(p) <= PlainBuf
        /\ Body(sent, g + 1) = ct
    <3>1. (g + 1) - 1 = g
      OBVIOUS
    <3> QED BY <2>1, <3>1, FramingFacts
  <2>3. Plain(ct) = p /\ Opens(ct, g) /\ Len(ct) = Len(p) + 1
    BY <2>2, SealFacts
  <2>4. Len(p) <= rec.rx
    <3>1. FrameMaxBody(rec.rx) \in Int /\ FrameMaxBody(rec.rx) <= rec.rx + 1
      BY <1>4, FrameMaxFacts
    <3>2. Len(p) + 1 <= FrameMaxBody(rec.rx)
      BY <1>4, <1>8, <2>1, Zenon
    <3> QED BY <1>4, <2>2, <3>1, <3>2
  <2> HIDE DEF ct
  <2>5. /\ ~(Len(ct) < Abytes) /\ ~(Len(p) > PlainBuf) /\ ~(Len(p) > rec.rx) /\ p # <<>>
    BY <1>4, <2>2, <2>3, <2>4, FramingFacts, SMTT(30) DEF Abytes
  <2> DEFINE next == [r.ctx EXCEPT !.pulled = @ + 1]
  <2>6. HandleRecord(r, ct) = IF p[1] = FinalByte
                              THEN Handled(r, [next EXCEPT !.state = "CLOSED"], Record(p))
                              ELSE Handled(r, next, Record(p))
    <3>2. Opens(ct, r.ctx.pulled)
      BY <1>1, <2>3
    <3> HIDE DEF next
    <3>3. HandleRecord(r, ct) =
            CASE Len(ct) < Abytes -> Failed(r, "ss ciphertext size")
              [] Len(ct) >= Abytes /\ (Len(p) > PlainBuf \/ Len(p) > rec.rx)
                                  -> Failed(r, "ss plaintext too large")
              [] Len(ct) >= Abytes /\ Len(p) <= PlainBuf /\ Len(p) <= rec.rx
                   /\ ~Opens(ct, r.ctx.pulled) -> Failed(r, "ss decrypt failed")
              [] OTHER -> IF p # <<>> /\ p[1] = FinalByte
                          THEN Handled(r, [next EXCEPT !.state = "CLOSED"], Record(p))
                          ELSE Handled(r, next, Record(p))
      BY <2>3 DEF HandleRecord, next
    <3> QED BY <2>5, <3>2, <3>3
  <2>7. /\ next = Ctx("UP", b, g + 1, e)
        /\ [next EXCEPT !.state = "CLOSED"] = Ctx("CLOSED", b, g + 1, e)
    <3>1. next = [r.ctx EXCEPT !.pulled = g + 1]
      BY <1>1
    <3>2. next = [state |-> "UP", buf |-> b, pulled |-> g + 1, err |-> e]
      BY <1>1, <3>1, SMTT(30)
    <3> HIDE DEF next
    <3>3. next = Ctx("UP", b, g + 1, e)
      BY <3>2 DEF Ctx
    <3>4. [next EXCEPT !.state = "CLOSED"] = Ctx("CLOSED", b, g + 1, e)
      BY <3>2 DEF Ctx
    <3> QED BY <3>3, <3>4
  <2> HIDE DEF next
  <2>8. CASE p[1] = FinalByte
    <3>1. Turn(r) = Rx("CLOSED", left, g + 1, e, hh)
      <4>1. Handled(r, Ctx("CLOSED", b, g + 1, e), Record(p))
              = Rx("CLOSED", left, g + 1, e, hh)
        <5>1. sent[g + 1] = Record(p)
          BY <2>1, Zenon
        <5>2. Handled(r, Ctx("CLOSED", b, g + 1, e), sent[g + 1]) = Rx("CLOSED", left, g + 1, e, hh)
          BY <1>11, Zenon
        <5> QED BY <5>1, <5>2
      <4>2. Turn(r) = HandleRecord(r, ct)
        BY <1>8, <2>2, Zenon
      <4> QED BY <2>6, <2>7, <2>8, <4>1, <4>2
    <3>2. "CLOSED" \in States /\ g + 1 \in Nat /\ g + 1 >= g
      BY DEF States
    <3> HIDE DEF left, hh
    <3>3. /\ Good("CLOSED", left, g + 1, e, hh, rest)
          /\ left \in Seq(Byte) /\ hh \in Seq(Messages) /\ Len(left) < Len(b)
      BY <1>5, <1>10, <3>1, Zenon
    <3> QED BY <3>1, <3>2, <3>3, Zenon DEF Turned
  <2>9. CASE p[1] # FinalByte
    <3>1. Turn(r) = Rx("UP", left, g + 1, e, hh)
      <4>1. Handled(r, Ctx("UP", b, g + 1, e), Record(p))
              = Rx("UP", left, g + 1, e, hh)
        <5>1. sent[g + 1] = Record(p)
          BY <2>1, Zenon
        <5>2. Handled(r, Ctx("UP", b, g + 1, e), sent[g + 1]) = Rx("UP", left, g + 1, e, hh)
          BY <1>11, Zenon
        <5> QED BY <5>1, <5>2
      <4>2. Turn(r) = HandleRecord(r, ct)
        BY <1>8, <2>2, Zenon
      <4> QED BY <2>6, <2>7, <2>9, <4>1, <4>2
    <3>2. ~Final(sent[g + 1])
      BY <2>1, <2>9, Finality, Zenon
    <3>3. "UP" \in States /\ g + 1 \in Nat /\ g + 1 >= g
      BY DEF States
    <3> HIDE DEF left, hh
    <3>4. /\ Good("UP", left, g + 1, e, hh, rest)
          /\ left \in Seq(Byte) /\ hh \in Seq(Messages) /\ Len(left) < Len(b)
      BY <1>5, <1>10, <3>1, <3>2, Zenon
    <3> QED BY <3>1, <3>3, <3>4, Zenon DEF Turned
  <2> QED BY <2>8, <2>9
<1>9. \/ g = 0 /\ Turn(r) = HandleHeader(r, Header)
      \/ g > 0 /\ L > FrameMaxBody(rec.rx) /\ Turn(r) = Failed(r, "frame parse error")
      \/ g > 0 /\ L <= FrameMaxBody(rec.rx) /\ Turn(r) = HandleRecord(r, Body(sent, g + 1))
  BY <1>3 DEF Outcome, L
<1> QED BY <1>6, <1>7, <1>8, <1>9

----------------------------------------------------------------------------
(* The loop of process_input *)

\* At least g0 frames are handled, and at most n bytes left, or none to handle.
Progress(g0, n, r, rest) ==
  \E st \in States, b \in Seq(Byte), k \in Nat, e \in Errors, h \in Seq(Messages) :
    /\ r = Rx(st, b, k, e, h)
    /\ Good(st, b, k, e, h, rest)
    /\ k >= g0
    /\ Idle(r) \/ Len(b) <= n

LEMMA TurnProgress ==
  ASSUME rec \in [tx : RecordSizes, rx : RecordSizes], SentInv,
         NEW rest \in Seq(Byte), NEW r, NEW g0 \in Nat, NEW n \in Int,
         Progress(g0, n, r, rest)
  PROVE  Progress(g0, n - 1, Turn(r), rest)
<1>1. PICK st \in States, b \in Seq(Byte), k \in Nat, e \in Errors, h \in Seq(Messages) :
        /\ r = Rx(st, b, k, e, h)
        /\ Good(st, b, k, e, h, rest)
        /\ k >= g0
        /\ Idle(r) \/ Len(b) <= n
  BY Zenon DEF Progress
<1>2. r \in Receiver /\ r.ctx.state = st
  BY <1>1 DEF Rx, Receiver, RxSet, States, Errors
<1>3. CASE Idle(r)
  <2>1. Turn(r) = r
    BY <1>2, <1>3, IdleTurn
  <2> QED BY <1>1, <1>3, <2>1, Zenon DEF Progress
<1>4. CASE ~Idle(r)
  <2>1. st = "UP"
    BY <1>2, <1>4, Zenon DEF Idle
  <2>2. Good("UP", b, k, e, h, rest) /\ r = Rx("UP", b, k, e, h)
    BY <1>1, <2>1
  <2>0. Turned(r, b, k, rest)
    BY <1>4, <2>2, TurnKeeps, Zenon
  <2>3. PICK x \in States, left \in Seq(Byte), j \in Nat, y \in Errors, hh \in Seq(Messages) :
          /\ Turn(r) = Rx(x, left, j, y, hh)
          /\ Good(x, left, j, y, hh, rest)
          /\ x # "UP" \/ Len(left) < Len(b)
          /\ j >= k
    BY <2>0, Zenon DEF Turned
  <2>4. j >= g0
    BY <1>1, <2>3
  <2>5. Idle(Turn(r)) \/ Len(left) <= n - 1
    <3>1. CASE x # "UP"
      <4>1. Turn(r).ctx.state = x
        BY <2>3 DEF Rx
      <4> QED BY <3>1, <4>1, Zenon DEF Idle
    <3>2. CASE Len(left) < Len(b)
      <4>1. Len(b) <= n
        BY <1>1, <1>4
      <4>2. Len(left) \in Nat /\ Len(b) \in Nat
        OBVIOUS
      <4> QED BY <3>2, <4>1, <4>2
    <3> QED BY <2>3, <3>1, <3>2
  <2> QED BY <2>3, <2>4, <2>5, Zenon DEF Progress
<1> QED BY <1>3, <1>4

\* What the recursive definition in ProcessInput says.
IsLoop(r, m, f) ==
  f = [n \in 0 .. m |->
         IF n = 0 THEN r ELSE CHOOSE s \in {Turn(q) : q \in {f[n - 1]}} : TRUE]

LEMMA ChooseTurn == ASSUME NEW x PROVE (CHOOSE s \in {Turn(q) : q \in {x}} : TRUE) = Turn(x)
<1>1. Turn(x) \in {Turn(q) : q \in {x}}
  OBVIOUS
<1>2. (CHOOSE s \in {Turn(q) : q \in {x}} : TRUE) \in {Turn(q) : q \in {x}}
  BY <1>1
<1> QED BY <1>2

LEMMA LoopExists == ASSUME NEW r PROVE \A m \in Nat : \E f : IsLoop(r, m, f)
<1> DEFINE S == {m \in Nat : \E f : IsLoop(r, m, f)}
           T(x) == CHOOSE s \in {Turn(q) : q \in {x}} : TRUE
<1>1. 0 \in S
  <2>1. IsLoop(r, 0, [n \in 0 .. 0 |-> r])
    BY DEF IsLoop
  <2> QED BY <2>1
<1>2. ASSUME NEW m \in Nat, m \in S PROVE m + 1 \in S
  <2>1. PICK f : IsLoop(r, m, f)
    BY <1>2
  <2>2. f = [n \in 0 .. m |-> IF n = 0 THEN r ELSE T(f[n - 1])]
    BY <2>1 DEF IsLoop
  <2> HIDE DEF T
  <2> DEFINE g == [n \in 0 .. (m + 1) |-> IF n = m + 1 THEN T(f[m]) ELSE f[n]]
  <2>3. ASSUME NEW n \in 0 .. (m + 1)
        PROVE  g[n] = IF n = 0 THEN r ELSE T(g[n - 1])
    <3>1. CASE n = m + 1
      BY <3>1
    <3>2. CASE n \in 0 .. m
      <4>1. f[n] = IF n = 0 THEN r ELSE T(f[n - 1])
        BY <2>2, <3>2
      <4>2. g[n] = f[n]
        BY <3>2
      <4>3. n # 0 => g[n - 1] = f[n - 1]
        BY <3>2
      <4> QED BY <4>1, <4>2, <4>3
    <3>3. n = m + 1 \/ n \in 0 .. m
      OBVIOUS
    <3> QED BY <3>1, <3>2, <3>3
  <2>4. g = [n \in 0 .. (m + 1) |-> IF n = 0 THEN r ELSE T(g[n - 1])]
    <3>1. g = [n \in 0 .. (m + 1) |-> g[n]]
      OBVIOUS
    <3> HIDE DEF g
    <3> QED BY <2>3, <3>1
  <2>5. IsLoop(r, m + 1, g)
    BY <2>4 DEF IsLoop, T
  <2> QED BY <2>5
<1>3. Nat \subseteq S
  <2> HIDE DEF S
  <2> QED BY <1>1, <1>2, NatSetInduction
<1> QED BY <1>3

LEMMA LoopTurns ==
  ASSUME NEW r
  PROVE  \E f : /\ f[0] = r
                /\ \A n \in 1 .. InCap : f[n] = Turn(f[n - 1])
                /\ ProcessInput(r) = f[InCap]
<1> DEFINE f == CHOOSE f : IsLoop(r, InCap, f)
<1>1. InCap \in Nat
  BY FramingFacts
<1>2. IsLoop(r, InCap, f)
  BY <1>1, LoopExists
<1>3. ProcessInput(r) = f[InCap]
  BY DEF ProcessInput, IsLoop
<1> HIDE DEF f
<1> DEFINE T(x) == CHOOSE s \in {Turn(q) : q \in {x}} : TRUE
<1>4. f = [n \in 0 .. InCap |-> IF n = 0 THEN r ELSE T(f[n - 1])]
  BY <1>2 DEF IsLoop
<1>5. \A x : T(x) = Turn(x)
  BY ChooseTurn
<1> HIDE DEF T
<1>6. f[0] = r /\ \A n \in 1 .. InCap : f[n] = T(f[n - 1])
  BY <1>1, <1>4
<1>7. \A n \in 1 .. InCap : f[n] = Turn(f[n - 1])
  BY <1>5, <1>6
<1> QED BY <1>3, <1>6, <1>7

\* process_input keeps the receiver's invariant and handles every complete frame.
LEMMA ProcessKeeps ==
  ASSUME rec \in [tx : RecordSizes, rx : RecordSizes], SentInv,
         NEW rest \in Seq(Byte), NEW g \in Nat, NEW r, Progress(g, InCap, r, rest)
  PROVE  Progress(g, 0, ProcessInput(r), rest)
<1>1. PICK f : /\ f[0] = r
               /\ \A n \in 1 .. InCap : f[n] = Turn(f[n - 1])
               /\ ProcessInput(r) = f[InCap]
  BY LoopTurns
<1>2. InCap \in Nat
  BY FramingFacts
<1> DEFINE S == {n \in 0 .. InCap : Progress(g, InCap - n, f[n], rest)}
<1>3. 0 \in S
  <2>1. InCap - 0 = InCap /\ 0 \in 0 .. InCap
    BY <1>2
  <2> QED BY <1>1, <2>1
<1>4. ASSUME NEW n \in 0 .. (InCap - 1), n \in S PROVE n + 1 \in S
  <2>1. /\ n + 1 \in 1 .. InCap /\ (n + 1) - 1 = n /\ InCap - n \in Int
        /\ n + 1 \in 0 .. InCap /\ InCap - (n + 1) = (InCap - n) - 1
    BY <1>2
  <2>2. f[n + 1] = Turn(f[n])
    BY <1>1, <2>1
  <2>3. Progress(g, InCap - n, f[n], rest)
    BY <1>4
  <2>4. Progress(g, (InCap - n) - 1, Turn(f[n]), rest)
    BY <2>1, <2>3, TurnProgress, Zenon
  <2> QED BY <2>1, <2>2, <2>4
<1>5. InCap \in S
  <2> HIDE DEF S
  <2>1. 0 .. InCap \subseteq S
    BY <1>2, <1>3, <1>4, IntervalInduction
  <2> QED BY <1>2, <2>1
<1>6. InCap - InCap = 0
  BY <1>2
<1> QED BY <1>1, <1>5, <1>6

----------------------------------------------------------------------------
(* The invariant *)

\* What the receiver has not been fed.
Unsent == SubSeq(out, off + 1, Len(out))
Coming == wire \o Unsent

ReceiverInv ==
  /\ got \in Seq(Messages)
  /\ rx.pulled = Len(got)
  /\ Good(rx.state, rx.buf, Len(got), rx.err, got, Coming)

FrameInv ==
  /\ TypeOK
  /\ SentInv
  /\ ReceiverInv
  /\ InputNeverStuck

LEMMA UnsentFacts ==
  ASSUME TypeOK
  PROVE  /\ Unsent \in Seq(Byte) /\ Len(Unsent) = Len(out) - off /\ Coming \in Seq(Byte)
         /\ rx.buf \in Seq(Byte) /\ Unsent = Compacted.bytes
<1>1. out \in Seq(Byte) /\ off \in 0 .. Len(out) /\ wire \in Seq(Byte)
  BY DEF TypeOK
<1>2. Unsent \in Seq(Byte) /\ Len(Unsent) = Len(out) - off
  BY ONLY <1>1 DEF Unsent
<1> HIDE DEF Unsent
<1>3. Coming \in Seq(Byte)
  BY <1>1, <1>2, ConcatFacts DEF Coming
<1>4. rx.buf \in Seq(Byte)
  BY DEF TypeOK, RxSet
<1> QED BY <1>2, <1>3, <1>4 DEF Compacted, Unsent

LEMMA FrameInit == Init => FrameInv
<1> SUFFICES ASSUME Init PROVE FrameInv
  OBVIOUS
<1> USE DEF Init
<1>1. TypeOK
  <2>1. rx \in RxSet /\ Len(rx.buf) <= InCap
    BY FramingFacts DEF RxSet
  <2>2. Len(out) <= OutCap /\ off \in 0 .. Len(out)
    BY FramingFacts
  <2> QED BY <2>1, <2>2 DEF TypeOK
<1>2. SentInv
  BY DEF SentInv
<1>3. rx.buf \o Coming = <<>>
  <2>1. Unsent = <<>>
    BY DEF Unsent
  <2> QED BY <2>1 DEF Coming
<1>4. Aligned(sent, Len(got), rx.buf \o Coming)
  <2>1. Cuts(<<>>, 0, <<>>, [k \in 0 .. 0 |-> 0])
    BY DEF Cuts
  <2> QED BY <1>3, <2>1 DEF Aligned
<1>5. ReceiverInv
  <2>1. Len(got) = 0 /\ Len(rx.buf) <= InCap /\ Len(sent) = 0 /\ rx.state = "UP"
    BY FramingFacts
  <2> QED BY <1>4, <2>1 DEF ReceiverInv, Good
<1>6. InputNeverStuck
  <2>1. InCap \in Nat /\ InCap > 0 /\ Len(rx.buf) = 0
    BY FramingFacts
  <2> QED BY <2>1 DEF InputNeverStuck
<1> QED BY <1>1, <1>2, <1>5, <1>6 DEF FrameInv

LEMMA BytesAssoc == \A a, b, c \in Seq(Byte) : (a \o b) \o c = a \o (b \o c)
BY ConcatAssoc

\* A frame goes out: after compaction, at the end of out_buf.
LEMMA SendKeeps ==
  ASSUME FrameInv, NEW m \in Messages, Sendable(Len(sent) + 1, m),
         NEW t, t = Append(sent, m), sent' = t, pushed' = pushed + 1, NEW f,
         f = Coded(t, Len(t)), OutAppend(f), UNCHANGED <<rec, wire, rx, got>>
  PROVE  FrameInv'
<1> USE DEF FrameInv
<1> DEFINE n == Len(sent)
<1>1. sent \in Seq(Messages) /\ n \in Nat /\ Len(t) = n + 1 /\ t \in Seq(Messages)
      /\ t[n + 1] = m /\ \A k \in 1 .. n : t[k] = sent[k]
  BY DEF SentInv
<1>2. \A k \in 1 .. Len(t) : Sendable(k, t[k])
  <2> SUFFICES ASSUME NEW k \in 1 .. (n + 1) PROVE Sendable(k, t[k])
    BY <1>1
  <2>1. CASE k = n + 1
    BY <1>1, <2>1
  <2>2. CASE k \in 1 .. n
    BY <1>1, <2>2 DEF SentInv
  <2>3. k = n + 1 \/ k \in 1 .. n
    BY <1>1
  <2> QED BY <2>1, <2>2, <2>3
<1>3. rec \in [tx : RecordSizes, rx : RecordSizes]
  BY DEF TypeOK
<1>4. SentInv'
  <2>1. ASSUME NEW k \in 1 .. Len(t) PROVE Sendable(k, sent[k])'
    <3>1. Sendable(k, t[k])
      BY <1>2
    <3> QED BY <3>1 DEF Sendable
  <2>2. pushed' = Len(t)
    BY <1>1 DEF SentInv
  <2>3. sent' \in Seq(Messages) /\ pushed' = Len(sent')
    BY <1>1, <2>2
  <2>4. \A k \in 1 .. Len(sent') : Sendable(k, sent[k])'
    BY <2>1
  <2> QED BY <2>3, <2>4 DEF SentInv
<1>5. \A k \in 1 .. Len(t) : Coded(t, k) \in Seq(Byte)
  BY <1>1, <1>2, <1>3, CodedFacts
<1>6. f \in Seq(Byte)
  <2>1. Len(t) \in 1 .. Len(t)
    BY <1>1
  <2> QED BY <1>5, <2>1
<1>7. /\ Unsent \in Seq(Byte) /\ Coming \in Seq(Byte) /\ rx.buf \in Seq(Byte)
      /\ Unsent = Compacted.bytes
  BY UnsentFacts
<1>8. /\ out' = Unsent \o f /\ off' = 0 /\ Len(f) <= OutCap - Len(Unsent)
  BY <1>7 DEF OutAppend, Compacted
<1>9. out' \in Seq(Byte) /\ Len(out') <= OutCap /\ off' \in 0 .. Len(out')
  <2>1. Unsent \o f \in Seq(Byte) /\ Len(Unsent \o f) = Len(Unsent) + Len(f)
    BY <1>6, <1>7, ConcatFacts
  <2>2. Len(Unsent) \in Nat /\ Len(f) \in Nat /\ OutCap \in Nat
    BY <1>6, <1>7, FramingFacts
  <2>3. Len(out') = Len(Unsent) + Len(f)
    BY <1>8, <2>1
  <2>4. out' \in Seq(Byte)
    BY <1>8, <2>1
  <2> QED BY <1>8, <2>2, <2>3, <2>4
<1>10. TypeOK'
  BY <1>4, <1>9 DEF TypeOK, SentInv
<1>11. Coming' = Coming \o f
  <2>1. Unsent' = out'
    <3>1. \A s \in Seq(Byte) : SubSeq(s, 1, Len(s)) = s
      OBVIOUS
    <3>2. Unsent' = SubSeq(out', 1, Len(out'))
      BY <1>8 DEF Unsent
    <3> QED BY <1>9, <3>1, <3>2
  <2>2. Coming' = wire \o (Unsent \o f)
    BY <1>8, <2>1 DEF Coming
  <2>3. wire \in Seq(Byte)
    BY DEF TypeOK
  <2>4. (wire \o Unsent) \o f = wire \o (Unsent \o f)
    <3> HIDE DEF Unsent
    <3> QED BY ONLY <1>6, <1>7, <2>3, BytesAssoc
  <2> QED BY <2>2, <2>4 DEF Coming
<1>12. Len(got) \in 0 .. n
  <2>1. got \in Seq(Messages) /\ Len(got) <= n
    BY Zenon DEF ReceiverInv, Good
  <2>2. Len(got) \in Nat
    BY <2>1
  <2> QED BY <1>1, <2>1, <2>2
<1>13. rx.state = "UP" => Aligned(t, Len(got), rx.buf \o Coming')
  <2> SUFFICES ASSUME rx.state = "UP" PROVE Aligned(t, Len(got), rx.buf \o Coming')
    OBVIOUS
  <2> DEFINE bytes == rx.buf \o Coming
  <2>1. bytes \in Seq(Byte) /\ Aligned(sent, Len(got), bytes)
    BY <1>7, ConcatFacts DEF ReceiverInv, Good
  <2>2. bytes \o f = rx.buf \o Coming'
    <3>1. (rx.buf \o Coming) \o f = rx.buf \o (Coming \o f)
      BY ONLY <1>6, <1>7, BytesAssoc, ZenonT(30)
    <3> QED BY <1>11, <3>1
  <2> HIDE DEF bytes
  <2>3. Aligned(t, Len(got), bytes \o Coded(t, Len(t)))
    BY <1>1, <1>5, <1>12, <2>1, AlignedSend
  <2> QED BY <2>2, <2>3
<1>14. rx.state = "ERROR" => Len(got) < n /\ t[Len(got) + 1] = sent[Len(got) + 1]
  <2>1. rx.state = "ERROR" => Len(got) < n
    BY DEF ReceiverInv, Good
  <2> QED BY <1>1, <1>12, <2>1
<1>15. Good(rx.state, rx.buf, Len(got), rx.err, got, Coming)'
  <2>1. /\ Len(rx.buf) <= InCap
        /\ \A i \in 1 .. Len(got) : got[i] = sent[i]
        /\ \A i \in 1 .. Len(got) : Final(got[i]) => i = Len(got) /\ rx.state = "CLOSED"
        /\ rx.state = "ERROR" => /\ rec.rx < rec.tx
                                 /\ Len(sent[Len(got) + 1].bytes) > rec.rx
                                 /\ rx.err = "frame parse error"
    BY DEF ReceiverInv, Good
  <2>2. \A i \in 1 .. Len(got) : got[i] = t[i]
    <3>1. \A i \in 1 .. Len(got) : i \in 1 .. n
      BY <1>1, <1>12
    <3> QED BY <1>1, <2>1, <3>1
  <2>3. Len(got) <= Len(t) /\ (Len(got) < n => Len(got) < Len(t))
    BY <1>1, <1>12
  <2> QED BY <1>13, <1>14, <2>1, <2>2, <2>3 DEF Good
<1>16. ReceiverInv'
  BY <1>15 DEF ReceiverInv
<1>17. InputNeverStuck'
  BY DEF InputNeverStuck
<1> QED BY <1>4, <1>10, <1>16, <1>17

LEMMA SendHeaderKeeps == ASSUME FrameInv, SendHeader PROVE FrameInv'
<1> DEFINE m == Clear(Header)
           t == Append(sent, m)
<1>1. sent \in Seq(Messages) /\ Len(sent) = 0
  BY DEF FrameInv, SentInv, SendHeader
<1>2. m \in Messages /\ Sendable(Len(sent) + 1, m)
  BY <1>1 DEF Messages, Sendable
<1>3. Len(t) = 1 /\ t[1] = m
  BY <1>1, <1>2
<1>4. FrameEncode(Header, ClearMax) = Coded(t, Len(t))
  <2>1. FrameEncode(Header, ClearMax) = PutU32(Len(Header)) \o Header
    <3>1. ~(Header = <<>>) /\ ~(Len(Header) > ClearMax)
      BY FramingFacts
    <3> QED BY <3>1 DEF FrameEncode
  <2> HIDE DEF t
  <2>2. Body(t, 1) = Header
    BY <1>3 DEF Body, Clear
  <2> QED BY <1>3, <2>1, <2>2 DEF Coded
<1>5. /\ sent' = t /\ pushed' = pushed + 1
      /\ OutAppend(Coded(t, Len(t))) /\ UNCHANGED <<rec, wire, rx, got>>
  <2>1. pushed' = pushed + 1
    BY DEF SendHeader
  <2>2. sent' = t /\ OutAppend(FrameEncode(Header, ClearMax)) /\ UNCHANGED <<rec, wire, rx, got>>
    BY DEF SendHeader
  <2> HIDE DEF t
  <2> QED BY <1>4, <2>1, <2>2
<1> HIDE DEF m
<1> QED BY <1>2, <1>5, SendKeeps

LEMMA SendPduKeeps == ASSUME FrameInv, NEW p \in Plains, SendPdu(p) PROVE FrameInv'
<1> DEFINE m == Record(p)
           n == Len(sent)
           t == Append(sent, m)
<1>1. sent \in Seq(Messages) /\ n = pushed /\ n \in Nat /\ n > 0
  BY DEF FrameInv, SentInv, SendPdu
<1>2. m \in Messages /\ Sendable(n + 1, m)
  <2>1. n + 1 # 1
    BY <1>1
  <2>2. Len(p) <= rec.tx /\ Len(p) + Abytes <= FrameMaxBody(rec.tx)
    BY DEF SendPdu
  <2>3. m \in Messages
    BY DEF Messages
  <2> QED BY <2>1, <2>2, <2>3, Zenon DEF Sendable
<1>3. Len(t) = n + 1 /\ t[n + 1] = m
  BY <1>1, <1>2
<1>4. PutU32(Len(p) + Abytes) \o Seal(p, pushed) = Coded(t, Len(t))
  <2> HIDE DEF t
  <2>1. (n + 1) - 1 = pushed
    BY <1>1
  <2>2. Body(t, n + 1) = Seal(p, pushed)
    BY <1>3, <2>1 DEF Body, Record
  <2>3. Len(Seal(p, pushed)) = Len(p) + 1
    <3>1. p \in Seq(Byte)
      BY FramingFacts
    <3> QED BY <1>1, <3>1, SealFacts
  <2> QED BY <1>3, <2>2, <2>3 DEF Coded, Abytes
<1>5. /\ sent' = t /\ pushed' = pushed + 1
      /\ OutAppend(Coded(t, Len(t))) /\ UNCHANGED <<rec, wire, rx, got>>
  <2>1. /\ sent' = t /\ OutAppend(PutU32(Len(p) + Abytes) \o Seal(p, pushed))
        /\ pushed' = pushed + 1 /\ UNCHANGED <<rec, wire, rx, got>>
    BY DEF SendPdu
  <2> HIDE DEF t
  <2> QED BY <1>4, <2>1
<1> HIDE DEF m
<1> QED BY <1>2, <1>5, SendKeeps

\* The invariant sees only what has been sent, what is on its way and the receiver.
LEMMA SameBytes ==
  ASSUME FrameInv, UNCHANGED <<rec, pushed, sent, rx, got>>, Coming' = Coming,
         out' \in Seq(Byte), Len(out') <= OutCap, off' \in 0 .. Len(out'), wire' \in Seq(Byte)
  PROVE  FrameInv'
<1>1. TypeOK'
  BY DEF FrameInv, TypeOK
<1>2. SentInv'
  BY DEF FrameInv, SentInv, Sendable
<1>3. ReceiverInv'
  <2>1. ReceiverInv
    BY DEF FrameInv
  <2> QED BY <2>1 DEF ReceiverInv, Good
<1>4. InputNeverStuck'
  BY DEF FrameInv, InputNeverStuck
<1> QED BY <1>1, <1>2, <1>3, <1>4 DEF FrameInv

LEMMA SendPduFullKeeps == ASSUME FrameInv, NEW p \in Plains, SendPduFull(p) PROVE FrameInv'
<1>1. TypeOK
  BY DEF FrameInv
<1>2. /\ Unsent \in Seq(Byte) /\ Len(Unsent) = Len(out) - off /\ Unsent = Compacted.bytes
  BY <1>1, UnsentFacts
<1>3. out' = Unsent /\ off' = 0 /\ UNCHANGED <<rec, pushed, sent, wire, rx, got>>
  BY <1>2 DEF SendPduFull, Compacted
<1>4. Len(out') <= OutCap /\ off' \in 0 .. Len(out')
  <2>1. Len(out) \in Nat /\ Len(out) <= OutCap /\ off \in Nat /\ OutCap \in Nat
    BY <1>1, FramingFacts DEF TypeOK
  <2>2. Len(Unsent) \in Nat
    BY <1>2
  <2>3. Len(out') = Len(Unsent)
    BY <1>3
  <2> QED BY <1>2, <1>3, <2>1, <2>2, <2>3
<1>5. Coming' = Coming
  <2>1. \A s \in Seq(Byte) : SubSeq(s, 1, Len(s)) = s
    OBVIOUS
  <2>2. Unsent' = SubSeq(out', 1, Len(out'))
    BY <1>3 DEF Unsent
  <2>3. SubSeq(Unsent, 1, Len(Unsent)) = Unsent
    BY ONLY <1>2, <2>1
  <2>4. Unsent' = Unsent
    BY <1>3, <2>2, <2>3
  <2> QED BY <1>3, <2>4 DEF Coming
<1>6. wire' \in Seq(Byte) /\ out' \in Seq(Byte)
  BY <1>1, <1>2, <1>3 DEF TypeOK
<1> QED BY <1>3, <1>4, <1>5, <1>6, SameBytes

\* A middle piece of a sequence and what is behind it.
LEMMA CutMiddle ==
  ASSUME NEW s \in Seq(Byte), NEW m \in 0 .. Len(s), NEW n \in 0 .. (Len(s) - m)
  PROVE  SubSeq(s, m + 1, m + n) \o SubSeq(s, (m + n) + 1, Len(s)) = SubSeq(s, m + 1, Len(s))
<1> DEFINE a == SubSeq(s, m + 1, m + n)
           b == SubSeq(s, (m + n) + 1, Len(s))
           c == SubSeq(s, m + 1, Len(s))
<1>1. a \in Seq(Byte) /\ Len(a) = n /\ \A i \in 1 .. n : a[i] = s[m + i]
  OBVIOUS
<1>2. /\ b \in Seq(Byte) /\ Len(b) = Len(s) - (m + n)
      /\ \A i \in 1 .. (Len(s) - (m + n)) : b[i] = s[(m + n) + i]
  OBVIOUS
<1>3. /\ c \in Seq(Byte) /\ Len(c) = Len(s) - m
      /\ \A i \in 1 .. (Len(s) - m) : c[i] = s[m + i]
  OBVIOUS
<1> HIDE DEF a, b, c
<1>4. a \o b \in Seq(Byte) /\ Len(a \o b) = Len(s) - m
  <2>1. a \o b \in Seq(Byte) /\ Len(a \o b) = Len(a) + Len(b)
    BY <1>1, <1>2, ConcatFacts
  <2> QED BY <1>1, <1>2, <2>1
<1>5. ASSUME NEW i \in 1 .. (Len(s) - m) PROVE (a \o b)[i] = c[i]
  <2>1. CASE i <= n
    <3>1. i \in 1 .. Len(a)
      BY <1>1, <2>1
    <3>2. (a \o b)[i] = a[i]
      BY <1>1, <1>2, <3>1, ConcatFacts
    <3> QED BY <1>1, <1>3, <2>1, <3>2, SMTT(30)
  <2>2. CASE i > n
    <3> DEFINE j == i - n
    <3>1. j \in 1 .. Len(b) /\ i = Len(a) + j /\ (m + n) + j = m + i
      BY <1>1, <1>2, <2>2
    <3> HIDE DEF j
    <3>2. (a \o b)[Len(a) + j] = b[j]
      BY <1>1, <1>2, <3>1, ConcatFacts
    <3>3. b[j] = s[(m + n) + j]
      BY <1>2, <3>1
    <3> QED BY <1>3, <3>1, <3>2, <3>3
  <2>3. i <= n \/ i > n
    OBVIOUS
  <2> QED BY <2>1, <2>2, <2>3
<1>6. Len(c) \in Nat /\ Len(a \o b) = Len(c)
  BY <1>3, <1>4
<1>7. \A i \in 1 .. Len(c) : (a \o b)[i] = c[i]
  BY <1>3, <1>5
<1>8. a \o b = c
  BY <1>3, <1>4, <1>6, <1>7, SeqsEqual
<1> QED BY <1>8 DEF a, b, c

LEMMA GetOutputKeeps == ASSUME FrameInv, NEW k \in Chunks, GetOutput(k) PROVE FrameInv'
<1> DEFINE n == IF k < Len(out) - off THEN k ELSE Len(out) - off
           piece == SubSeq(out, off + 1, off + n)
           left == SubSeq(out, (off + n) + 1, Len(out))
<1>1. /\ out \in Seq(Byte) /\ Len(out) \in Nat /\ off \in 0 .. Len(out) /\ Len(out) <= OutCap
      /\ wire \in Seq(Byte) /\ OutCap \in Nat
  BY FramingFacts DEF FrameInv, TypeOK
<1>2. k \in Nat
  BY FramingFacts
<1>3. n \in 0 .. (Len(out) - off) /\ off + n \in 0 .. Len(out)
  BY <1>1, <1>2
<1>4. /\ wire' = wire \o piece
      /\ out' = IF off + n >= Len(out) THEN <<>> ELSE out
      /\ off' = IF off + n >= Len(out) THEN 0 ELSE off + n
      /\ UNCHANGED <<rec, pushed, sent, rx, got>>
  BY DEF GetOutput
<1> HIDE DEF n
<1>5. piece \in Seq(Byte) /\ left \in Seq(Byte)
  BY ONLY <1>1, <1>3
<1>6. piece \o left = Unsent
  <2>1. piece \o left = SubSeq(out, off + 1, Len(out))
    BY <1>1, <1>3, CutMiddle
  <2> QED BY <2>1 DEF Unsent
<1>7. Unsent' = left
  <2>1. Unsent' = SubSeq(out', off' + 1, Len(out'))
    BY DEF Unsent
  <2>2. CASE off + n >= Len(out)
    <3>1. off + n = Len(out)
      BY <1>1, <1>3, <2>2
    <3>2. out' = <<>> /\ off' = 0
      BY <1>4, <2>2
    <3>3. left = <<>>
      BY ONLY <1>1, <3>1
    <3>4. SubSeq(<<>>, 0 + 1, Len(<<>>)) = <<>>
      OBVIOUS
    <3> HIDE DEF left
    <3> QED BY <2>1, <3>2, <3>3, <3>4
  <2>3. CASE ~(off + n >= Len(out))
    <3>1. out' = out /\ off' = off + n
      BY <1>4, <2>3
    <3> QED BY <2>1, <3>1
  <2> QED BY <2>2, <2>3
<1>8. out' \in Seq(Byte) /\ Len(out') <= OutCap /\ off' \in 0 .. Len(out')
  <2>1. CASE off + n >= Len(out)
    BY <1>1, <1>4, <2>1
  <2>2. CASE ~(off + n >= Len(out))
    BY <1>1, <1>3, <1>4, <2>2
  <2> QED BY <2>1, <2>2
<1> HIDE DEF piece, left
<1>9. wire' \in Seq(Byte)
  BY <1>1, <1>4, <1>5, ConcatFacts
<1>10. Coming' = Coming
  <2>1. (wire \o piece) \o left = wire \o (piece \o left)
    BY ONLY <1>1, <1>5, BytesAssoc
  <2> QED BY <1>4, <1>6, <1>7, <2>1 DEF Coming
<1> QED BY <1>4, <1>8, <1>9, <1>10, SameBytes

\* The receiver with what sodchan_feed_input has appended.
LEMMA FedProgress ==
  ASSUME FrameInv, rx.state = "UP", NEW take \in 0 .. Len(wire), Len(rx.buf) + take <= InCap,
         NEW r, r = [ctx |-> [rx EXCEPT !.buf = @ \o SubSeq(wire, 1, take)], got |-> got],
         NEW rest, rest = SubSeq(wire, take + 1, Len(wire)) \o Unsent
  PROVE  rest \in Seq(Byte) /\ Progress(Len(got), InCap, r, rest)
<1> DEFINE piece == SubSeq(wire, 1, take)
           left == SubSeq(wire, take + 1, Len(wire))
           b == rx.buf \o piece
<1>1. /\ wire \in Seq(Byte) /\ rx \in RxSet /\ rx.buf \in Seq(Byte)
      /\ got \in Seq(Messages) /\ rx.pulled = Len(got) /\ rx.err \in Errors
  BY DEF FrameInv, TypeOK, RxSet, ReceiverInv, Errors
<1>2. Unsent \in Seq(Byte)
  BY UnsentFacts DEF FrameInv
<1>3. piece \in Seq(Byte) /\ Len(piece) = take /\ left \in Seq(Byte)
  BY ONLY <1>1, take \in 0 .. Len(wire)
<1>4. piece \o left = wire
  BY <1>1, Cut
<1> HIDE DEF piece, left
<1>5. rest = left \o Unsent
  BY DEF left
<1>6. rest \in Seq(Byte)
  BY <1>2, <1>3, <1>5, ConcatFacts
<1>7. b \in Seq(Byte) /\ Len(b) <= InCap
  <2>1. b \in Seq(Byte) /\ Len(b) = Len(rx.buf) + Len(piece)
    BY <1>1, <1>3, ConcatFacts
  <2> QED BY <1>3, <2>1
<1>8. b \o rest = rx.buf \o Coming
  <2>1. b \o (left \o Unsent) = (b \o left) \o Unsent
    BY ONLY <1>2, <1>3, <1>7, BytesAssoc, ZenonT(30)
  <2>2. (rx.buf \o piece) \o left = rx.buf \o (piece \o left)
    BY ONLY <1>1, <1>3, BytesAssoc
  <2>3. (rx.buf \o wire) \o Unsent = rx.buf \o (wire \o Unsent)
    BY ONLY <1>1, <1>2, BytesAssoc
  <2>4. b \o left = rx.buf \o wire
    BY <1>4, <2>2
  <2> HIDE DEF b
  <2> QED BY <1>5, <2>1, <2>3, <2>4 DEF Coming
<1>9. r = Rx("UP", b, Len(got), rx.err, got)
  <2>1. r = [ctx |-> [rx EXCEPT !.buf = b], got |-> got]
    BY DEF piece
  <2> HIDE DEF b
  <2>2. [rx EXCEPT !.buf = b]
          = [state |-> "UP", buf |-> b, pulled |-> Len(got), err |-> rx.err]
    <3>1. PICK st, x, y, z : rx = [state |-> st, buf |-> x, pulled |-> y, err |-> z]
      BY <1>1 DEF RxSet
    <3>2. st = "UP" /\ y = Len(got) /\ z = rx.err
      BY <1>1, <3>1
    <3>3. [rx EXCEPT !.buf = b] = [state |-> st, buf |-> b, pulled |-> y, err |-> z]
      BY ONLY <3>1
    <3> QED BY <3>2, <3>3
  <2> QED BY <2>1, <2>2, Zenon DEF Rx
<1> HIDE DEF b
<1>10. Good("UP", b, Len(got), rx.err, got, rest)
  <2>1. Good("UP", rx.buf, Len(got), rx.err, got, Coming)
    BY DEF FrameInv, ReceiverInv
  <2> QED BY <1>7, <1>8, <2>1, Zenon DEF Good
<1>11. Len(got) \in Nat /\ Len(got) >= Len(got) /\ "UP" \in States
  <2>1. Len(got) \in Nat
    BY <1>1
  <2> QED BY <2>1 DEF States
<1> QED BY <1>1, <1>6, <1>7, <1>9, <1>10, <1>11, Zenon DEF Progress

LEMMA FeedInputKeeps ==
  ASSUME FrameInv, NEW k \in Chunks, FeedInput(k)
  PROVE  FrameInv' /\ Len(got') >= Len(got)
<1> DEFINE room == InCap - Len(rx.buf)
           len == IF k < Len(wire) THEN k ELSE Len(wire)
           take == IF len < room THEN len ELSE room
           r == [ctx |-> [rx EXCEPT !.buf = @ \o SubSeq(wire, 1, take)], got |-> got]
           rest == SubSeq(wire, take + 1, Len(wire)) \o Unsent
           res == ProcessInput(r)
<1>1. /\ wire \in Seq(Byte) /\ rx.buf \in Seq(Byte) /\ Len(rx.buf) <= InCap
      /\ got \in Seq(Messages) /\ InCap \in Nat /\ k \in Nat /\ k > 0
      /\ rec \in [tx : RecordSizes, rx : RecordSizes] /\ SentInv /\ TypeOK
  BY FramingFacts DEF FrameInv, TypeOK, RxSet, ReceiverInv
<1>2. /\ rx.state = "UP" /\ take > 0
      /\ rx' = res.ctx /\ got' = res.got
      /\ wire' = SubSeq(wire, take + 1, Len(wire))
      /\ UNCHANGED <<rec, tx>>
  BY DEF FeedInput
<1>3. take \in 0 .. Len(wire) /\ Len(rx.buf) + take <= InCap
  <2>1. Len(rx.buf) \in Nat /\ Len(wire) \in Nat
    BY <1>1
  <2>2. ASSUME NEW x \in Nat, NEW y \in Nat, NEW z \in Nat, x <= z,
               NEW a, a = IF k < y THEN k ELSE y, NEW c, c = IF a < z - x THEN a ELSE z - x
        PROVE  c \in 0 .. y /\ x + c <= z
    BY ONLY <2>2, <1>1
  <2> QED BY <1>1, <2>1, <2>2
<1>4. Coming' = rest
  <2>1. out' = out /\ off' = off
    BY <1>2 DEF tx
  <2>2. Unsent' = Unsent
    BY <2>1 DEF Unsent
  <2> HIDE DEF take
  <2> QED BY <1>2, <2>2 DEF Coming
<1> HIDE DEF take
<1>5. rest \in Seq(Byte) /\ Progress(Len(got), InCap, r, rest)
  BY <1>2, <1>3, FedProgress
<1> HIDE DEF r, rest
<1>6. Len(got) \in Nat
  BY <1>1
<1>7. Progress(Len(got), 0, res, rest)
  BY <1>1, <1>5, <1>6, ProcessKeeps, Zenon
<1> HIDE DEF res
<1>8. PICK st \in States, b \in Seq(Byte), g \in Nat, e \in Errors, h \in Seq(Messages) :
        /\ res = Rx(st, b, g, e, h)
        /\ Good(st, b, g, e, h, rest)
        /\ g >= Len(got)
        /\ Idle(res) \/ Len(b) <= 0
  BY <1>7, Zenon DEF Progress
<1>9. /\ rx' = [state |-> st, buf |-> b, pulled |-> g, err |-> e] /\ got' = h
      /\ res \in Receiver /\ res.ctx.state = st /\ res.ctx.buf = b
  BY <1>2, <1>8 DEF Rx, Receiver, RxSet, States, Errors
<1>10. /\ rx'.state = st /\ rx'.buf = b /\ rx'.pulled = g /\ rx'.err = e /\ rx' \in RxSet
  BY <1>9 DEF RxSet, States, Errors
<1>11. Len(h) = g /\ Len(b) <= InCap
  BY <1>8, Zenon DEF Good
<1>12. /\ rec' = rec /\ out' = out /\ off' = off /\ pushed' = pushed /\ sent' = sent
  BY <1>2 DEF tx
<1>13. wire' \in Seq(Byte)
  <2>1. SubSeq(wire, take + 1, Len(wire)) \in Seq(Byte)
    BY ONLY <1>1, <1>3
  <2> QED BY <1>2, <2>1
<1>14. TypeOK'
  BY <1>1, <1>10, <1>11, <1>12, <1>13 DEF TypeOK
<1>15. SentInv'
  BY <1>1, <1>12 DEF SentInv, Sendable
<1>16. ReceiverInv'
  BY <1>4, <1>8, <1>9, <1>10, <1>11, <1>12 DEF ReceiverInv, Good
<1>17. InputNeverStuck'
  <2>1. Len(b) <= 0 => Len(res.ctx.buf) = 0
    BY <1>9
  <2>2. Idle(res)
    BY <1>1, <1>8, <1>9, <2>1, EmptyIdle
  <2>3. st = "UP" => Len(b) < InCap
    BY <1>1, <1>9, <2>2, IdleRoom
  <2> QED BY <1>10, <2>3 DEF InputNeverStuck
<1>18. Len(got') >= Len(got)
  BY <1>8, <1>9, <1>11
<1> QED BY <1>14, <1>15, <1>16, <1>17, <1>18 DEF FrameInv

LEMMA StutterKeeps == ASSUME FrameInv, UNCHANGED vars PROVE FrameInv'
<1>1. /\ UNCHANGED <<rec, pushed, sent, rx, got>> /\ out' = out /\ off' = off /\ wire' = wire
  BY DEF vars, tx
<1>2. Coming' = Coming
  BY <1>1 DEF Coming, Unsent
<1>3. out' \in Seq(Byte) /\ Len(out') <= OutCap /\ off' \in 0 .. Len(out') /\ wire' \in Seq(Byte)
  BY <1>1 DEF FrameInv, TypeOK
<1> QED BY <1>1, <1>2, <1>3, SameBytes

LEMMA FrameNext == FrameInv /\ [Next]_vars => FrameInv'
<1> SUFFICES ASSUME FrameInv, [Next]_vars PROVE FrameInv'
  OBVIOUS
<1>1. CASE SendHeader
  BY <1>1, SendHeaderKeeps
<1>2. ASSUME NEW p \in Plains, SendPdu(p) PROVE FrameInv'
  BY <1>2, SendPduKeeps
<1>3. ASSUME NEW p \in Plains, SendPduFull(p) PROVE FrameInv'
  BY <1>3, SendPduFullKeeps
<1>4. ASSUME NEW k \in Chunks, GetOutput(k) PROVE FrameInv'
  BY <1>4, GetOutputKeeps
<1>5. ASSUME NEW k \in Chunks, FeedInput(k) PROVE FrameInv'
  BY <1>5, FeedInputKeeps
<1>6. CASE UNCHANGED vars
  BY <1>6, StutterKeeps
<1> QED BY <1>1, <1>2, <1>3, <1>4, <1>5, <1>6 DEF Next

\* The invariant holds throughout.
LEMMA FrameInvariant == Spec => []FrameInv
BY FrameInit, FrameNext, PTL DEF Spec

\* out_buf and in_buf never exceed their sizes, and every variable keeps its type.
THEOREM FramingTypeOK == Spec => []TypeOK
<1>1. FrameInv => TypeOK
  BY DEF FrameInv
<1> QED BY <1>1, FrameInvariant, PTL

\* However the bytes arrive, feed_input of a live receiver has room for more.
THEOREM FramingNeverStuck == Spec => []InputNeverStuck
<1>1. FrameInv => InputNeverStuck
  BY DEF FrameInv
<1> QED BY <1>1, FrameInvariant, PTL

\* A receiver refuses only a record that is longer than its own limit.
THEOREM FramingRefusal == Spec => []RefusalExplained
<1>1. FrameInv => RefusalExplained
  BY DEF FrameInv, ReceiverInv, Good, RefusalExplained
<1> QED BY <1>1, FrameInvariant, PTL

----------------------------------------------------------------------------
(* The refinement *)

LEMMA StreamInit == Init => Stream!Init
BY DEF Init, Stream!Init

LEMMA FinalsAre == \A m : m \in {Record(p) : p \in {x \in Plains : x[1] = FinalByte}} <=> Final(m)
BY DEF Final

LEMMA FeedInputStream ==
  ASSUME FrameInv, FrameInv', NEW k \in Chunks, FeedInput(k)
  PROVE  [Stream!Next]_(Stream!stream)
<1> DEFINE n == Len(got')
<1>1. /\ sent \in Seq(Messages) /\ got \in Seq(Messages)
      /\ Len(got) <= Len(sent) /\ \A i \in 1 .. Len(got) : got[i] = sent[i]
  BY DEF FrameInv, SentInv, ReceiverInv, Good
<1>2. rx.state = "UP" /\ sent' = sent
  BY DEF FeedInput, tx
<1>3. /\ got' \in Seq(Messages) /\ n <= Len(sent)
      /\ \A i \in 1 .. n : got'[i] = sent[i]
      /\ \A i \in 1 .. n : Final(got'[i]) => i = n /\ rx'.state = "CLOSED"
  BY <1>2 DEF FrameInv, ReceiverInv, Good
<1>4. n \in Nat /\ Len(got) \in Nat /\ Len(sent) \in Nat /\ n >= Len(got)
  BY <1>1, <1>3, FeedInputKeeps
<1>5. CASE n > Len(got)
  <2>1. n \in (Len(got) + 1) .. Len(sent) /\ n \in 1 .. n
    BY <1>3, <1>4, <1>5
  <2>2. got' = SubSeq(sent, 1, n)
    <3> DEFINE s == SubSeq(sent, 1, n)
    <3>1. s \in Seq(Messages) /\ Len(s) = n /\ \A i \in 1 .. n : s[i] = sent[i]
      <4>1. ASSUME NEW m \in Nat, m <= Len(sent), NEW l, l = SubSeq(sent, 1, m)
            PROVE  l \in Seq(Messages) /\ Len(l) = m /\ \A i \in 1 .. m : l[i] = sent[i]
        BY ONLY <1>1, <4>1
      <4> QED BY <1>3, <1>4, <4>1
    <3> HIDE DEF s
    <3>2. \A i \in 1 .. n : got'[i] = s[i]
      BY <1>3, <3>1
    <3>3. got' = s
      BY <1>3, <1>4, <3>1, <3>2, SeqsEqual
    <3> QED BY <3>3 DEF s
  <2>3. \A i \in 1 .. (n - 1) : ~Final(sent[i])
    <3>1. \A i \in 1 .. (n - 1) : i \in 1 .. n /\ i # n
      BY <1>4
    <3> QED BY <1>3, <3>1
  <2>4. Final(sent[n]) => rx'.state # "UP"
    <3>1. Final(got'[n]) => rx'.state = "CLOSED"
      BY <1>3, <2>1
    <3>2. got'[n] = sent[n]
      BY <1>3, <2>1
    <3> QED BY <3>1, <3>2
  <2> HIDE DEF n
  <2>5. Stream!Receive(n)
    BY <1>2, <2>2, <2>3, <2>4, FinalsAre, Zenon DEF Stream!Receive
  <2> QED BY <2>1, <2>5 DEF Stream!Next
<1>6. CASE n = Len(got)
  <2>1. got' = got
    <3>1. \A i \in 1 .. n : got'[i] = got[i]
      BY <1>1, <1>3, <1>6
    <3> QED BY <1>1, <1>3, <1>4, <1>6, <3>1, SeqsEqual
  <2>2. CASE rx'.state = "UP"
    BY <1>2, <2>1, <2>2 DEF Stream!stream
  <2>3. CASE rx'.state # "UP"
    <3>1. Stream!Stop
      BY <1>2, <2>1, <2>3 DEF Stream!Stop
    <3> QED BY <3>1 DEF Stream!Next
  <2> QED BY <2>2, <2>3
<1>7. n > Len(got) \/ n = Len(got)
  BY <1>4
<1> QED BY <1>5, <1>6, <1>7

LEMMA StreamStep == FrameInv /\ FrameInv' /\ [Next]_vars => [Stream!Next]_(Stream!stream)
<1> SUFFICES ASSUME FrameInv, FrameInv', [Next]_vars PROVE [Stream!Next]_(Stream!stream)
  OBVIOUS
<1>1. ASSUME NEW m \in Messages, sent' = Append(sent, m), UNCHANGED <<rx, got>>
      PROVE  Stream!Next
  <2>1. Stream!Send(m)
    BY <1>1 DEF Stream!Send
  <2> QED BY <2>1 DEF Stream!Next, Messages
<1>2. CASE SendHeader
  <2>1. Clear(Header) \in Messages
    BY DEF Messages
  <2> QED BY <1>1, <1>2, <2>1 DEF SendHeader
<1>3. ASSUME NEW p \in Plains, SendPdu(p) PROVE Stream!Next
  <2>1. Record(p) \in Messages
    BY DEF Messages
  <2> QED BY <1>1, <1>3, <2>1 DEF SendPdu
<1>4. ASSUME NEW p \in Plains, SendPduFull(p) PROVE UNCHANGED Stream!stream
  BY <1>4 DEF SendPduFull, Stream!stream
<1>5. ASSUME NEW k \in Chunks, GetOutput(k) PROVE UNCHANGED Stream!stream
  BY <1>5 DEF GetOutput, Stream!stream
<1>6. ASSUME NEW k \in Chunks, FeedInput(k) PROVE [Stream!Next]_(Stream!stream)
  BY <1>6, FeedInputStream
<1>7. CASE UNCHANGED vars
  BY <1>7 DEF vars, tx, Stream!stream
<1> QED BY <1>2, <1>3, <1>4, <1>5, <1>6, <1>7 DEF Next

\* Whatever the pieces the hosts move and whenever out_buf is compacted: the receiver
\* handles the frames that were sent, each once and in order, up to the one at which
\* it stops.
THEOREM FramingImplementsStream == Spec => ImplementsStream
<1>1. Init => Stream!Init
  BY StreamInit
<1>2. FrameInv /\ FrameInv' /\ [Next]_vars => [Stream!Next]_(Stream!stream)
  BY StreamStep
<1> QED BY <1>1, <1>2, FrameInvariant, PTL DEF Spec, ImplementsStream, Stream!Spec

============================================================================
