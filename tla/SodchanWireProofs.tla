-------------------------- MODULE SodchanWireProofs --------------------------
(***************************************************************************)
(* The codec, for every size of its fields: what is written is read back,  *)
(* what is read is what would be written, frames are recognised exactly,   *)
(* what is signed names one identity, and the allowlist admits its entries. *)
(*                                                                         *)
(* A PDU is a sequence of fields.  Holds says that a field is found at an  *)
(* offset of a byte string, and the Parts lemmas find every field of what  *)
(* an encoder joins; from them come the Trip lemmas, one per PDU.  In the  *)
(* other direction Part cuts a byte string at the offsets a decoder uses,  *)
(* the Write lemmas say that each field, read and written again, is its    *)
(* part, and the Rejoin lemmas put the parts together: the Back lemmas.    *)
(***************************************************************************)
EXTENDS MCSodchanWire, SodchanWireLemmas

----------------------------------------------------------------------------
(* Integers *)

\* The bytes an integer was read from are the bytes it is written as.
LEMMA PutGetUint ==
  ASSUME NEW w \in Nat, NEW off \in Nat, NEW s, \A k \in 1 .. w : s[off + k] \in Byte
  PROVE  /\ GetUint(w, s, off) \in Nat
         /\ PutUint(w, GetUint(w, s, off)) = [k \in 1 .. w |-> s[off + k]]
<1>1. PICK val : Values(w, s, off, val)
  BY GetUintDef
<1>2. /\ val \in [0 .. w -> Nat]
      /\ val[0] = 0
      /\ \A k \in 1 .. w : val[k] = val[k - 1] * Base + s[off + k]
      /\ GetUint(w, s, off) = val[w]
  BY <1>1 DEF Values
<1>3. PICK v \in Nat : v = GetUint(w, s, off) /\ v = val[w]
  <2>1. val[w] \in Nat
    BY <1>2
  <2> QED BY <1>2, <2>1
<1>4. PICK shr : Shifts(w, v, shr)
  BY PutUintDef
<1>5. /\ shr \in [0 .. w -> Nat]
      /\ shr[0] = v
      /\ \A k \in 1 .. w : shr[k] = shr[k - 1] \div Base
      /\ PutUint(w, v) = [i \in 1 .. w |-> shr[w - i] % Base]
  BY <1>4 DEF Shifts
<1>6. ASSUME NEW k \in 1 .. w
      PROVE  val[k] \div Base = val[k - 1] /\ val[k] % Base = s[off + k]
  <2>1. val[k - 1] \in Nat /\ s[off + k] \in Byte /\ val[k] = val[k - 1] * Base + s[off + k]
    BY <1>2
  <2> QED BY <2>1, DivModUnique
<1> DEFINE S == {k \in 0 .. w : shr[k] = val[w - k]}
<1>7. 0 \in S
  BY <1>3, <1>5
<1>8. ASSUME NEW k \in 0 .. (w - 1), k \in S PROVE k + 1 \in S
  <2>1. /\ k + 1 \in 1 .. w /\ (k + 1) - 1 = k
        /\ w - k \in 1 .. w /\ (w - k) - 1 = w - (k + 1)
    OBVIOUS
  <2>2. shr[k + 1] = shr[k] \div Base
    BY <1>5, <2>1
  <2>3. val[w - k] \div Base = val[w - (k + 1)]
    BY <1>6, <2>1
  <2> QED BY <1>8, <2>1, <2>2, <2>3
<1>9. 0 .. w \subseteq S
  <2> HIDE DEF S
  <2> QED BY <1>7, <1>8, IntervalInduction
<1>10. ASSUME NEW i \in 1 .. w PROVE shr[w - i] % Base = s[off + i]
  <2>1. w - i \in 0 .. w /\ w - (w - i) = i
    OBVIOUS
  <2>2. shr[w - i] = val[i]
    BY <1>9, <2>1
  <2> QED BY <1>6, <2>2
<1>11. PutUint(w, v) = [k \in 1 .. w |-> s[off + k]]
  BY <1>5, <1>10
<1> QED BY <1>3, <1>11

LEMMA PowBig == ASSUME W32 > 1 PROVE Pow[W32] > Base /\ Base > 1
<1> DEFINE S == {n \in Nat : Pow[n + 2] > Base}
<1>1. ASSUME NEW x \in Nat, x > Base PROVE Base * x \in Nat /\ Base * x > Base
  BY <1>1, BaseFacts
<1>2. 0 \in S
  <2>1. Pow[1] = Base
    <3>1. Pow[0 + 1] = Base * Pow[0] /\ Pow[0] = 1
      BY PowDef
    <3> QED BY <3>1, BaseFacts
  <2>2. Pow[1 + 1] = Base * Pow[1]
    BY PowDef
  <2>3. Base * Base > Base
    BY BaseFacts
  <2> QED BY <2>1, <2>2, <2>3
<1>3. ASSUME NEW n \in Nat, n \in S PROVE n + 1 \in S
  <2>1. Pow[n + 2] \in Nat /\ Pow[(n + 2) + 1] = Base * Pow[n + 2]
    BY PowDef
  <2>2. (n + 2) + 1 = (n + 1) + 2
    OBVIOUS
  <2> QED BY <1>1, <1>3, <2>1, <2>2
<1>4. Nat \subseteq S
  <2> HIDE DEF S
  <2> QED BY <1>2, <1>3, NatSetInduction
<1>5. W32 - 2 \in Nat /\ (W32 - 2) + 2 = W32
  BY BaseFacts
<1> QED BY <1>4, <1>5, BaseFacts

----------------------------------------------------------------------------
(* Fields *)

\* s holds t at offset off.
Holds(s, off, t) ==
  off + Len(t) <= Len(s) /\ \A k \in 1 .. Len(t) : s[off + k] = t[k]

LEMMA HoldsLast ==
  ASSUME NEW S, NEW a \in Seq(S), NEW b \in Seq(S)
  PROVE  a \o b \in Seq(S) /\ Len(a \o b) = Len(a) + Len(b) /\ Holds(a \o b, Len(a), b)
BY ConcatFacts DEF Holds

LEMMA HoldsStill ==
  ASSUME NEW S, NEW a \in Seq(S), NEW b \in Seq(S), NEW off \in Nat, NEW t \in Seq(S),
         Holds(a, off, t)
  PROVE  Holds(a \o b, off, t)
<1>1. /\ Len(a \o b) = Len(a) + Len(b) /\ Len(a) \in Nat /\ Len(b) \in Nat /\ Len(t) \in Nat
      /\ \A i \in 1 .. Len(a) : (a \o b)[i] = a[i]
  BY ConcatFacts
<1>2. off + Len(t) <= Len(a) /\ \A k \in 1 .. Len(t) : a[off + k] = t[k]
  BY DEF Holds
<1>3. ASSUME NEW k \in 1 .. Len(t) PROVE (a \o b)[off + k] = t[k]
  <2>1. off + k \in 1 .. Len(a)
    BY <1>1, <1>2
  <2> QED BY <1>1, <1>2, <2>1
<1>4. off + Len(t) <= Len(a \o b)
  BY <1>1, <1>2
<1> QED BY <1>3, <1>4 DEF Holds

\* The parts of a concatenation are where the lengths before them say.
Joined2(S, s, a, b) ==
  /\ s \in Seq(S) /\ Len(s) = Len(a) + Len(b)
  /\ Holds(s, 0, a)
  /\ Holds(s, Len(a), b)

Joined3(S, s, a, b, c) ==
  /\ s \in Seq(S) /\ Len(s) = Len(a) + Len(b) + Len(c)
  /\ Holds(s, 0, a)
  /\ Holds(s, Len(a), b)
  /\ Holds(s, Len(a) + Len(b), c)

Joined4(S, s, a, b, c, d) ==
  /\ s \in Seq(S) /\ Len(s) = Len(a) + Len(b) + Len(c) + Len(d)
  /\ Holds(s, 0, a)
  /\ Holds(s, Len(a), b)
  /\ Holds(s, Len(a) + Len(b), c)
  /\ Holds(s, Len(a) + Len(b) + Len(c), d)

Joined5(S, s, a, b, c, d, e) ==
  /\ s \in Seq(S) /\ Len(s) = Len(a) + Len(b) + Len(c) + Len(d) + Len(e)
  /\ Holds(s, 0, a)
  /\ Holds(s, Len(a), b)
  /\ Holds(s, Len(a) + Len(b), c)
  /\ Holds(s, Len(a) + Len(b) + Len(c), d)
  /\ Holds(s, Len(a) + Len(b) + Len(c) + Len(d), e)

LEMMA Parts2 ==
  ASSUME NEW S, NEW a \in Seq(S), NEW b \in Seq(S)
  PROVE  Joined2(S, a \o b, a, b)
<1>1. 0 + Len(a) <= Len(a) /\ \A k \in 1 .. Len(a) : a[0 + k] = a[k]
  OBVIOUS
<1>2. Holds(a, 0, a)
  BY <1>1 DEF Holds
<1> QED BY <1>2, HoldsLast, HoldsStill DEF Joined2

LEMMA Parts3 ==
  ASSUME NEW S, NEW a \in Seq(S), NEW b \in Seq(S), NEW c \in Seq(S)
  PROVE  Joined3(S, a \o b \o c, a, b, c)
<1>1. PICK p : p = a \o b
  OBVIOUS
<1>2. Joined2(S, p, a, b)
  BY <1>1, Parts2, Zenon
<1>3. p \in Seq(S) /\ Len(p) = Len(a) + Len(b)
  BY <1>2, Zenon DEF Joined2
<1>4. p \o c \in Seq(S) /\ Len(p \o c) = Len(p) + Len(c) /\ Holds(p \o c, Len(p), c)
  BY <1>3, HoldsLast
<1>5. Holds(p \o c, 0, a)
  <2>1. Holds(p, 0, a) /\ 0 \in Nat
    BY <1>2 DEF Joined2
  <2> QED BY <1>3, <2>1, HoldsStill
<1>6. Holds(p \o c, Len(a), b)
  <2>1. Holds(p, Len(a), b) /\ Len(a) \in Nat
    BY <1>2 DEF Joined2
  <2> QED BY <1>3, <2>1, HoldsStill
<1> QED BY <1>1, <1>3, <1>4, <1>5, <1>6 DEF Joined3

LEMMA Parts4 ==
  ASSUME NEW S, NEW a \in Seq(S), NEW b \in Seq(S), NEW c \in Seq(S), NEW d \in Seq(S)
  PROVE  Joined4(S, a \o b \o c \o d, a, b, c, d)
<1>1. PICK p : p = a \o b \o c
  OBVIOUS
<1>2. Joined3(S, p, a, b, c)
  BY <1>1, Parts3, Zenon
<1>3. p \in Seq(S) /\ Len(p) = Len(a) + Len(b) + Len(c)
  BY <1>2, Zenon DEF Joined3
<1>4. p \o d \in Seq(S) /\ Len(p \o d) = Len(p) + Len(d) /\ Holds(p \o d, Len(p), d)
  BY <1>3, HoldsLast
<1>5. Holds(p \o d, 0, a)
  <2>1. Holds(p, 0, a) /\ 0 \in Nat
    BY <1>2 DEF Joined3
  <2> QED BY <1>3, <2>1, HoldsStill
<1>6. Holds(p \o d, Len(a), b)
  <2>1. Holds(p, Len(a), b) /\ Len(a) \in Nat
    BY <1>2 DEF Joined3
  <2> QED BY <1>3, <2>1, HoldsStill
<1>7. Holds(p \o d, Len(a) + Len(b), c)
  <2>1. Holds(p, Len(a) + Len(b), c) /\ (Len(a) + Len(b)) \in Nat
    BY <1>2 DEF Joined3
  <2> QED BY <1>3, <2>1, HoldsStill
<1> QED BY <1>1, <1>3, <1>4, <1>5, <1>6, <1>7 DEF Joined4

LEMMA Parts5 ==
  ASSUME NEW S, NEW a \in Seq(S), NEW b \in Seq(S), NEW c \in Seq(S),
         NEW d \in Seq(S), NEW e \in Seq(S)
  PROVE  Joined5(S, a \o b \o c \o d \o e, a, b, c, d, e)
<1>1. PICK p : p = a \o b \o c \o d
  OBVIOUS
<1>2. Joined4(S, p, a, b, c, d)
  BY <1>1, Parts4, Zenon
<1>3. p \in Seq(S) /\ Len(p) = Len(a) + Len(b) + Len(c) + Len(d)
  BY <1>2, Zenon DEF Joined4
<1>4. p \o e \in Seq(S) /\ Len(p \o e) = Len(p) + Len(e) /\ Holds(p \o e, Len(p), e)
  BY <1>3, HoldsLast
<1>5. Holds(p \o e, 0, a)
  <2>1. Holds(p, 0, a) /\ 0 \in Nat
    BY <1>2 DEF Joined4
  <2> QED BY <1>3, <2>1, HoldsStill
<1>6. Holds(p \o e, Len(a), b)
  <2>1. Holds(p, Len(a), b) /\ Len(a) \in Nat
    BY <1>2 DEF Joined4
  <2> QED BY <1>3, <2>1, HoldsStill
<1>7. Holds(p \o e, Len(a) + Len(b), c)
  <2>1. Holds(p, Len(a) + Len(b), c) /\ (Len(a) + Len(b)) \in Nat
    BY <1>2 DEF Joined4
  <2> QED BY <1>3, <2>1, HoldsStill
<1>8. Holds(p \o e, Len(a) + Len(b) + Len(c), d)
  <2>1. Holds(p, Len(a) + Len(b) + Len(c), d) /\ (Len(a) + Len(b) + Len(c)) \in Nat
    BY <1>2 DEF Joined4
  <2> QED BY <1>3, <2>1, HoldsStill
<1> QED BY <1>1, <1>3, <1>4, <1>5, <1>6, <1>7, <1>8 DEF Joined5

\* Reading a part back.
LEMMA ReadByte ==
  ASSUME NEW s, NEW off \in Nat, NEW b, Holds(s, off, <<b>>)
  PROVE  At(s, off) = b
BY DEF Holds, At

LEMMA ReadU32 ==
  ASSUME NEW s, NEW off \in Nat, NEW v \in 0 .. U32Max, Holds(s, off, PutU32(v))
  PROVE  GetU32(s, off) = v
<1>1. W32 \in Nat /\ v \in Nat /\ v < Pow[W32]
  BY BaseFacts, PowDef DEF U32Max
<1>2. Len(PutU32(v)) = W32
  BY <1>1, PutU32Type
<1>3. \A k \in 1 .. W32 : s[off + k] = PutUint(W32, v)[k]
  BY <1>2 DEF Holds, PutU32
<1>4. GetUint(W32, s, off) = v
  BY <1>1, <1>3, GetPutUint
<1> QED BY <1>4 DEF GetU32

LEMMA ReadU16 ==
  ASSUME NEW s, NEW off \in Nat, NEW v \in 0 .. (Pow[W16] - 1), Holds(s, off, PutU16(v))
  PROVE  GetU16(s, off) = v
<1>1. W16 \in Nat /\ v \in Nat /\ v < Pow[W16]
  BY BaseFacts, PowDef
<1>2. Len(PutUint(W16, v)) = W16
  BY <1>1, PutUintType
<1>3. \A k \in 1 .. W16 : s[off + k] = PutUint(W16, v)[k]
  BY <1>2 DEF Holds, PutU16
<1>4. GetUint(W16, s, off) = v
  BY <1>1, <1>3, GetPutUint
<1> QED BY <1>4 DEF GetU16

LEMMA ReadBytes ==
  ASSUME NEW S, NEW s \in Seq(S), NEW t \in Seq(S), NEW off \in Nat, Holds(s, off, t)
  PROVE  Slice(s, off, Len(t)) = t
<1>1. Len(t) \in Nat /\ off + Len(t) \in off .. Len(s) /\ (off + Len(t)) - off = Len(t)
      /\ \A k \in 1 .. Len(t) : s[off + k] = t[k]
  BY DEF Holds
<1>2. PICK u : u = SubSeq(s, off + 1, off + Len(t))
  OBVIOUS
<1>3. u \in Seq(S) /\ Len(u) = Len(t) /\ \A i \in 1 .. Len(t) : u[i] = s[off + i]
  BY <1>1, <1>2, SubSeqFacts
<1>4. u = t
  BY <1>1, <1>3, SeqsEqual
<1> QED BY <1>2, <1>4 DEF Slice

\* A string with its length in front.
LEMMA ReadStr8 ==
  ASSUME NEW s \in Seq(Byte), NEW t \in Seq(Byte), Len(t) < Base, NEW off \in Nat,
         Holds(s, off, Str8(t))
  PROVE  /\ Str8(t) \in Seq(Byte) /\ Len(Str8(t)) = 1 + Len(t)
         /\ At(s, off) = Len(t) /\ Slice(s, off + 1, Len(t)) = t
<1>1. Len(t) \in Nat /\ Len(t) % Base = Len(t)
  BY BaseFacts
<1>2. PICK h : h = <<Len(t)>>
  OBVIOUS
<1>3. h \in Seq(Byte) /\ Len(h) = 1 /\ h[1] = Len(t)
  BY <1>1, <1>2, BaseFacts DEF Byte
<1>4. Str8(t) = h \o t
  BY <1>1, <1>2 DEF Str8
<1>5. /\ h \o t \in Seq(Byte) /\ Len(h \o t) = 1 + Len(t)
      /\ \A i \in 1 .. 1 : (h \o t)[i] = h[i]
      /\ \A i \in 1 .. Len(t) : (h \o t)[1 + i] = t[i]
  <2>1. /\ h \o t \in Seq(Byte) /\ Len(h \o t) = Len(h) + Len(t)
        /\ \A i \in 1 .. Len(h) : (h \o t)[i] = h[i]
        /\ \A i \in 1 .. Len(t) : (h \o t)[Len(h) + i] = t[i]
    <3>1. h \in Seq(Byte)
      BY <1>3
    <3> QED BY ONLY <3>1, t \in Seq(Byte), ConcatFacts
  <2>2. Len(h) = 1
    BY <1>3
  <2> QED BY <2>1, <2>2, Zenon
<1>6. /\ off + (1 + Len(t)) <= Len(s)
      /\ \A k \in 1 .. (1 + Len(t)) : s[off + k] = (h \o t)[k]
  BY <1>4, <1>5 DEF Holds
<1>7. s[off + 1] = Len(t)
  <2>1. 1 \in 1 .. (1 + Len(t)) /\ 1 \in 1 .. 1
    BY <1>1
  <2> QED BY <1>3, <1>5, <1>6, <2>1
<1>8. ASSUME NEW i \in 1 .. Len(t) PROVE s[(off + 1) + i] = t[i]
  <2>1. 1 + i \in 1 .. (1 + Len(t)) /\ off + (1 + i) = (off + 1) + i
    BY <1>1
  <2> QED BY <1>5, <1>6, <2>1
<1>9. Holds(s, off + 1, t)
  <2>1. (off + 1) + Len(t) <= Len(s)
    BY <1>1, <1>6
  <2> QED BY <1>8, <2>1 DEF Holds
<1>10. off + 1 \in Nat
  OBVIOUS
<1> QED BY <1>4, <1>5, <1>7, <1>9, <1>10, ReadBytes DEF At

LEMMA Str8Type ==
  ASSUME NEW t \in Seq(Byte) PROVE Str8(t) \in Seq(Byte) /\ Len(Str8(t)) = 1 + Len(t)
<1>1. Len(t) \in Nat /\ Len(t) % Base \in Byte
  BY DivMod
<1>2. <<Len(t) % Base>> \in Seq(Byte) /\ Len(<<Len(t) % Base>>) = 1
  BY <1>1
<1> QED BY <1>2, ConcatFacts DEF Str8

----------------------------------------------------------------------------
(* What is written is read back *)

\* A byte has room for every PDU type and a u32 is longer than a byte: 256 and 4.
CodeSizes == Base > 22 /\ W32 > 1

LEMMA TypeByte ==
  ASSUME CodeSizes, NEW t \in DOMAIN Code
  PROVE  Code[t] \in Byte /\ <<Code[t]>> \in Seq(Byte) /\ Len(<<Code[t]>>) = 1
<1>1. Code[t] \in Byte
  BY BaseFacts DEF CodeSizes, Code, Byte
<1> QED BY <1>1

LEMMA WordsFit == ASSUME CodeSizes PROVE Words \subseteq 0 .. U32Max
<1>1. Pow[W32] \in Nat /\ Pow[W32] > Base /\ Base > 1 /\ Base \in Nat
  BY PowBig, PowDef, BaseFacts DEF CodeSizes
<1> QED BY <1>1 DEF Words, U32Max

LEMMA StringFacts ==
  ASSUME NEW n \in Nat, NEW t \in Strings(n)
  PROVE  t \in Seq(Byte) /\ Len(t) \in Nat /\ Len(t) <= n
<1>1. PICK k \in 0 .. n : t \in [1 .. k -> Byte]
  BY DEF Strings
<1> QED BY <1>1

LEMMA SizeFacts ==
  /\ KeyLen \in Nat /\ SigLen \in Nat /\ KeyLen > 0 /\ SigLen > 0
  /\ NameMax \in Nat /\ NameMax < Base /\ UserMax \in Nat /\ UserMax < Base
  /\ DeviceMax \in Nat /\ DeviceMax < Base
  /\ ClaimsMax \in Nat /\ ClaimsMax <= Pow[W16] - 1 /\ Pow[W16] \in Nat
  /\ CfgStore \in Nat /\ U32Max \in Nat
<1>1. Pow[W16] \in Nat /\ Pow[W32] \in Nat /\ Pow[W32] > 0
  BY PowDef, PowMonotone, BaseFacts
<1> QED BY <1>1, WireAssumption, BaseFacts DEF U32Max

\* The decoder of a PDU is chosen by its type.
LEMMA DecodeChosen ==
  ASSUME NEW s, s # <<>>
  PROVE  /\ Has(s, "OPEN") => Decode(s) = OpenDecode(s)
         /\ Has(s, "CONFIRM") => Decode(s) = ConfirmDecode(s)
         /\ Has(s, "OPEN_FAIL") => Decode(s) = OpenFailDecode(s)
         /\ Has(s, "DATA") => Decode(s) = DataDecode(s)
         /\ Has(s, "WINDOW") => Decode(s) = WindowDecode(s)
         /\ Has(s, "DISCONNECT") => Decode(s) = DisconnectDecode(s)
         /\ Has(s, "AUTH_DEVICE") => Decode(s) = AuthDeviceDecode(s)
         /\ Has(s, "AUTH_OK") => Decode(s) = AuthOkDecode(s)
         /\ Has(s, "AUTH_FAIL") => Decode(s) = AuthFailDecode(s)
         /\ \A t \in WordTypes : Has(s, t) => Decode(s) = WordDecode(t, s)
<1>1. ASSUME NEW t \in DOMAIN Code, NEW u \in DOMAIN Code, Has(s, t), Has(s, u) PROVE t = u
  BY <1>1 DEF Has, Code
<1>2. DOMAIN Code = {"OPEN", "CONFIRM", "OPEN_FAIL", "WINDOW", "DATA", "EOF", "CLOSE", "PING",
                     "PONG", "DISCONNECT", "AUTH_DEVICE", "AUTH_OK", "AUTH_FAIL"}
  BY DEF Code
<1> QED BY <1>1, <1>2 DEF Decode, WordTypes

\* The bytes s are a PDU of type t, and m is what d, the decoder of t, makes of them.
Tripped(s, t, d, m) == s \in Seq(Byte) /\ s # <<>> /\ Has(s, t) /\ d = m

LEMMA OpenTrip ==
  ASSUME CodeSizes, NEW f \in 0 .. U32Max, NEW w \in 0 .. U32Max, NEW x \in 0 .. U32Max,
         NEW n \in Seq(Byte), Len(n) <= NameMax, NEW s,
         s = <<Code.OPEN>> \o PutU32(f) \o PutU32(w) \o PutU32(x) \o Str8(n)
  PROVE  Tripped(s, "OPEN", OpenDecode(s),
                 [type |-> "OPEN", from |-> f, window |-> w, max |-> x, name |-> n])
<1>1. PICK h, b, c, d, e : /\ h = <<Code.OPEN>> /\ b = PutU32(f) /\ c = PutU32(w)
                           /\ d = PutU32(x) /\ e = Str8(n)
  OBVIOUS
<1>2. /\ h \in Seq(Byte) /\ b \in Seq(Byte) /\ c \in Seq(Byte) /\ d \in Seq(Byte)
      /\ e \in Seq(Byte)
      /\ Len(h) = 1 /\ Len(b) = W32 /\ Len(c) = W32 /\ Len(d) = W32 /\ Len(e) = 1 + Len(n)
  <2>1. h \in Seq(Byte) /\ Len(h) = 1
    <3>1. "OPEN" \in DOMAIN Code
      BY DEF Code
    <3> QED BY <1>1, <3>1, TypeByte
  <2>2. e \in Seq(Byte) /\ Len(e) = 1 + Len(n)
    BY <1>1, Str8Type
  <2>3. f \in Nat /\ w \in Nat /\ x \in Nat
    OBVIOUS
  <2> QED BY <1>1, <2>1, <2>2, <2>3, PutU32Type
<1>3. PICK q1 \in Nat, q2 \in Nat, q3 \in Nat, q4 \in Nat :
        /\ q1 = 1 /\ q2 = 1 + W32 /\ q3 = 1 + 2 * W32 /\ q4 = 1 + 3 * W32
        /\ q1 = Len(h) /\ q2 = q1 + Len(b) /\ q3 = q2 + Len(c) /\ q4 = q3 + Len(d)
  BY <1>2, BaseFacts
<1>4. /\ s \in Seq(Byte) /\ Len(s) = q4 + Len(e)
      /\ Holds(s, 0, h) /\ Holds(s, q1, b) /\ Holds(s, q2, c) /\ Holds(s, q3, d)
      /\ Holds(s, q4, e)
  <2>1. s = h \o b \o c \o d \o e
    BY <1>1, Zenon
  <2>2. Joined5(Byte, s, h, b, c, d, e)
    BY <1>2, <2>1, Parts5, ZenonT(30)
  <2> QED BY ONLY <1>3, <2>2 DEF Joined5
<1>5. At(s, 0) = Code.OPEN /\ GetU32(s, q1) = f /\ GetU32(s, q2) = w /\ GetU32(s, q3) = x
  BY <1>1, <1>4, ReadByte, ReadU32
<1>6. At(s, q4) = Len(n) /\ Slice(s, q4 + 1, Len(n)) = n
  <2>1. Len(n) < Base
    BY SizeFacts, BaseFacts
  <2>2. s \in Seq(Byte) /\ Holds(s, q4, Str8(n))
    BY <1>1, <1>4
  <2> QED BY <2>1, <2>2, ReadStr8, ZenonT(30)
<1>7. s # <<>> /\ Len(s) = q4 + 1 + Len(n) /\ Len(s) >= q4 + 1
  <2>1. Len(n) \in Nat /\ Len(e) = 1 + Len(n) /\ Len(s) = q4 + Len(e)
    BY <1>2, <1>4
  <2>2. Len(s) = q4 + 1 + Len(n) /\ Len(s) >= q4 + 1 /\ Len(s) # 0
    BY ONLY <2>1, q4 \in Nat
  <2> QED BY <2>2
<1>8. OpenDecode(s) = [type |-> "OPEN", from |-> GetU32(s, q1), window |-> GetU32(s, q2),
                       max |-> GetU32(s, q3), name |-> Slice(s, q4 + 1, At(s, q4))]
  <2>1. /\ Len(s) >= q4 + 1 /\ Has(s, "OPEN") /\ At(s, q4) <= NameMax
        /\ Len(s) = q4 + 1 + At(s, q4)
    BY <1>5, <1>6, <1>7 DEF Has
  <2> QED BY ONLY <1>3, <2>1 DEF OpenDecode
<1> QED BY <1>4, <1>5, <1>6, <1>7, <1>8 DEF Has, Tripped

LEMMA ConfirmTrip ==
  ASSUME CodeSizes, NEW f \in 0 .. U32Max, NEW t \in 0 .. U32Max, NEW w \in 0 .. U32Max,
         NEW x \in 0 .. U32Max, NEW s,
         s = <<Code.CONFIRM>> \o PutU32(f) \o PutU32(t) \o PutU32(w) \o PutU32(x)
  PROVE  Tripped(s, "CONFIRM", ConfirmDecode(s),
                 [type |-> "CONFIRM", from |-> f, to |-> t, window |-> w, max |-> x])
<1>1. PICK h, b, c, d, e : h = <<Code.CONFIRM>> /\ b = PutU32(f) /\ c = PutU32(t)
         /\ d = PutU32(w) /\ e = PutU32(x)
  OBVIOUS
<1>2. /\ h \in Seq(Byte) /\ b \in Seq(Byte) /\ c \in Seq(Byte) /\ d \in Seq(Byte)
      /\ e \in Seq(Byte)
      /\ Len(h) = 1 /\ Len(b) = W32 /\ Len(c) = W32 /\ Len(d) = W32 /\ Len(e) = W32
  <2>1. h \in Seq(Byte) /\ Len(h) = 1
    <3>1. "CONFIRM" \in DOMAIN Code
      BY DEF Code
    <3> QED BY <1>1, <3>1, TypeByte
  <2>2. b \in Seq(Byte) /\ Len(b) = W32
    BY <1>1, PutU32Type
  <2>3. c \in Seq(Byte) /\ Len(c) = W32
    BY <1>1, PutU32Type
  <2>4. d \in Seq(Byte) /\ Len(d) = W32
    BY <1>1, PutU32Type
  <2>5. e \in Seq(Byte) /\ Len(e) = W32
    BY <1>1, PutU32Type
  <2> QED BY <2>1, <2>2, <2>3, <2>4, <2>5
<1>3. PICK q1 \in Nat, q2 \in Nat, q3 \in Nat, q4 \in Nat :
        /\ q1 = 1 /\ q2 = 1 + W32 /\ q3 = 1 + 2 * W32 /\ q4 = 1 + 3 * W32
        /\ q1 = Len(h) /\ q2 = q1 + Len(b) /\ q3 = q2 + Len(c) /\ q4 = q3 + Len(d)
  BY <1>2, BaseFacts, SizeFacts
<1>4. /\ s \in Seq(Byte) /\ Len(s) = q4 + Len(e)
      /\ Holds(s, 0, h) /\ Holds(s, q1, b) /\ Holds(s, q2, c) /\ Holds(s, q3, d)
      /\ Holds(s, q4, e)
  <2>1. s = h \o b \o c \o d \o e
    BY <1>1, Zenon
  <2>2. h \in Seq(Byte) /\ b \in Seq(Byte) /\ c \in Seq(Byte) /\ d \in Seq(Byte)
           /\ e \in Seq(Byte)
    BY <1>2
  <2>3. Joined5(Byte, s, h, b, c, d, e)
    BY ONLY <2>1, <2>2, Parts5, Zenon
  <2> QED BY ONLY <1>3, <2>3 DEF Joined5
<1>5. /\ At(s, 0) = Code.CONFIRM /\ GetU32(s, q1) = f /\ GetU32(s, q2) = t
      /\ GetU32(s, q3) = w /\ GetU32(s, q4) = x
  BY <1>1, <1>4, ReadByte, ReadU32
<1>6. s # <<>> /\ Len(s) = 1 + 4 * W32
  <2>1. Len(s) = 1 + 4 * W32 /\ Len(s) # 0
    BY <1>2, <1>3, <1>4, BaseFacts
  <2> QED BY <2>1
<1>7. ConfirmDecode(s) = [type |-> "CONFIRM", from |-> GetU32(s, q1), to |-> GetU32(s, q2),
                          window |-> GetU32(s, q3), max |-> GetU32(s, q4)]
  <2>1. Len(s) = 1 + 4 * W32 /\ Has(s, "CONFIRM")
    BY <1>5, <1>6 DEF Has
  <2> QED BY ONLY <1>3, <2>1 DEF ConfirmDecode
<1> QED BY <1>4, <1>5, <1>6, <1>7 DEF Has, Tripped

LEMMA OpenFailTrip ==
  ASSUME CodeSizes, NEW t \in 0 .. U32Max, NEW r \in 0 .. U32Max,
         NEW n \in Seq(Byte), Len(n) <= Base - 1, NEW s,
         s = <<Code.OPEN_FAIL>> \o PutU32(t) \o PutU32(r) \o Str8(n)
  PROVE  Tripped(s, "OPEN_FAIL", OpenFailDecode(s),
                 [type |-> "OPEN_FAIL", to |-> t, reason |-> r, msg |-> n])
<1>1. PICK h, b, c, d : h = <<Code.OPEN_FAIL>> /\ b = PutU32(t) /\ c = PutU32(r) /\ d = Str8(n)
  OBVIOUS
<1>2. /\ h \in Seq(Byte) /\ b \in Seq(Byte) /\ c \in Seq(Byte) /\ d \in Seq(Byte)
      /\ Len(h) = 1 /\ Len(b) = W32 /\ Len(c) = W32 /\ Len(d) = 1 + Len(n)
  <2>1. h \in Seq(Byte) /\ Len(h) = 1
    <3>1. "OPEN_FAIL" \in DOMAIN Code
      BY DEF Code
    <3> QED BY <1>1, <3>1, TypeByte
  <2>2. b \in Seq(Byte) /\ Len(b) = W32
    BY <1>1, PutU32Type
  <2>3. c \in Seq(Byte) /\ Len(c) = W32
    BY <1>1, PutU32Type
  <2>4. d \in Seq(Byte) /\ Len(d) = 1 + Len(n)
    BY <1>1, Str8Type
  <2> QED BY <2>1, <2>2, <2>3, <2>4
<1>3. PICK q1 \in Nat, q2 \in Nat, q3 \in Nat :
        /\ q1 = 1 /\ q2 = 1 + W32 /\ q3 = 1 + 2 * W32
        /\ q1 = Len(h) /\ q2 = q1 + Len(b) /\ q3 = q2 + Len(c)
  BY <1>2, BaseFacts, SizeFacts
<1>4. /\ s \in Seq(Byte) /\ Len(s) = q3 + Len(d)
      /\ Holds(s, 0, h) /\ Holds(s, q1, b) /\ Holds(s, q2, c) /\ Holds(s, q3, d)
  <2>1. s = h \o b \o c \o d
    BY <1>1, Zenon
  <2>2. h \in Seq(Byte) /\ b \in Seq(Byte) /\ c \in Seq(Byte) /\ d \in Seq(Byte)
    BY <1>2
  <2>3. Joined4(Byte, s, h, b, c, d)
    BY ONLY <2>1, <2>2, Parts4, Zenon
  <2> QED BY ONLY <1>3, <2>3 DEF Joined4
<1>5. At(s, 0) = Code.OPEN_FAIL /\ GetU32(s, q1) = t /\ GetU32(s, q2) = r
  BY <1>1, <1>4, ReadByte, ReadU32
<1>6. At(s, q3) = Len(n) /\ Slice(s, q3 + 1, Len(n)) = n
  <2>1. Len(n) < Base
    BY SizeFacts, BaseFacts
  <2>2. s \in Seq(Byte) /\ Holds(s, q3, Str8(n))
    BY <1>1, <1>4
  <2> QED BY ONLY <2>1, <2>2, n \in Seq(Byte), q3 \in Nat, ReadStr8, Zenon
<1>7. s # <<>> /\ Len(s) = q3 + 1 + Len(n) /\ Len(s) >= q3 + 1
  <2>1. Len(n) \in Nat /\ Len(d) = 1 + Len(n) /\ Len(s) = q3 + Len(d)
    BY <1>2, <1>4
  <2>2. Len(s) = q3 + 1 + Len(n) /\ Len(s) >= q3 + 1 /\ Len(s) # 0
    BY ONLY <2>1, q3 \in Nat
  <2> QED BY <2>2
<1>8. OpenFailDecode(s) = [type |-> "OPEN_FAIL", to |-> GetU32(s, q1), reason |-> GetU32(s, q2),
                           msg |-> Slice(s, q3 + 1, At(s, q3))]
  <2>1. Len(s) >= q3 + 1 /\ Has(s, "OPEN_FAIL") /\ Len(s) = q3 + 1 + At(s, q3)
    BY <1>5, <1>6, <1>7 DEF Has
  <2> QED BY ONLY <1>3, <2>1 DEF OpenFailDecode
<1> QED BY <1>4, <1>5, <1>6, <1>7, <1>8 DEF Has, Tripped

LEMMA DisconnectTrip ==
  ASSUME CodeSizes, NEW r \in 0 .. U32Max, NEW n \in Seq(Byte), Len(n) <= Base - 1, NEW s,
         s = <<Code.DISCONNECT>> \o PutU32(r) \o Str8(n)
  PROVE  Tripped(s, "DISCONNECT", DisconnectDecode(s),
                 [type |-> "DISCONNECT", reason |-> r, msg |-> n])
<1>1. PICK h, b, c : h = <<Code.DISCONNECT>> /\ b = PutU32(r) /\ c = Str8(n)
  OBVIOUS
<1>2. /\ h \in Seq(Byte) /\ b \in Seq(Byte) /\ c \in Seq(Byte)
      /\ Len(h) = 1 /\ Len(b) = W32 /\ Len(c) = 1 + Len(n)
  <2>1. h \in Seq(Byte) /\ Len(h) = 1
    <3>1. "DISCONNECT" \in DOMAIN Code
      BY DEF Code
    <3> QED BY <1>1, <3>1, TypeByte
  <2>2. b \in Seq(Byte) /\ Len(b) = W32
    BY <1>1, PutU32Type
  <2>3. c \in Seq(Byte) /\ Len(c) = 1 + Len(n)
    BY <1>1, Str8Type
  <2> QED BY <2>1, <2>2, <2>3
<1>3. PICK q1 \in Nat, q2 \in Nat :
        /\ q1 = 1 /\ q2 = 1 + W32
        /\ q1 = Len(h) /\ q2 = q1 + Len(b)
  BY <1>2, BaseFacts, SizeFacts
<1>4. /\ s \in Seq(Byte) /\ Len(s) = q2 + Len(c)
      /\ Holds(s, 0, h) /\ Holds(s, q1, b) /\ Holds(s, q2, c)
  <2>1. s = h \o b \o c
    BY <1>1, Zenon
  <2>2. h \in Seq(Byte) /\ b \in Seq(Byte) /\ c \in Seq(Byte)
    BY <1>2
  <2>3. Joined3(Byte, s, h, b, c)
    BY ONLY <2>1, <2>2, Parts3, Zenon
  <2> QED BY ONLY <1>3, <2>3 DEF Joined3
<1>5. At(s, 0) = Code.DISCONNECT /\ GetU32(s, q1) = r
  BY <1>1, <1>4, ReadByte, ReadU32
<1>6. At(s, q2) = Len(n) /\ Slice(s, q2 + 1, Len(n)) = n
  <2>1. Len(n) < Base
    BY SizeFacts, BaseFacts
  <2>2. s \in Seq(Byte) /\ Holds(s, q2, Str8(n))
    BY <1>1, <1>4
  <2> QED BY ONLY <2>1, <2>2, n \in Seq(Byte), q2 \in Nat, ReadStr8, Zenon
<1>7. s # <<>> /\ Len(s) = q2 + 1 + Len(n) /\ Len(s) >= q2 + 1
  <2>1. Len(n) \in Nat /\ Len(c) = 1 + Len(n) /\ Len(s) = q2 + Len(c)
    BY <1>2, <1>4
  <2>2. Len(s) = q2 + 1 + Len(n) /\ Len(s) >= q2 + 1 /\ Len(s) # 0
    BY ONLY <2>1, q2 \in Nat
  <2> QED BY <2>2
<1>8. DisconnectDecode(s) = [type |-> "DISCONNECT", reason |-> GetU32(s, q1),
                             msg |-> Slice(s, q2 + 1, At(s, q2))]
  <2>1. Len(s) >= q2 + 1 /\ Has(s, "DISCONNECT") /\ Len(s) = q2 + 1 + At(s, q2)
    BY <1>5, <1>6, <1>7 DEF Has
  <2> QED BY ONLY <1>3, <2>1 DEF DisconnectDecode
<1> QED BY <1>4, <1>5, <1>6, <1>7, <1>8 DEF Has, Tripped

LEMMA DataTrip ==
  ASSUME CodeSizes, NEW t \in 0 .. U32Max, NEW n \in Seq(Byte), Len(n) <= U32Max, NEW s,
         s = <<Code.DATA>> \o PutU32(t) \o PutU32(Len(n)) \o n
  PROVE  Tripped(s, "DATA", DataDecode(s),
                 [type |-> "DATA", to |-> t, data |-> n])
<1>1. PICK h, b, c, d : h = <<Code.DATA>> /\ b = PutU32(t) /\ c = PutU32(Len(n)) /\ d = n
  OBVIOUS
<1>2. /\ h \in Seq(Byte) /\ b \in Seq(Byte) /\ c \in Seq(Byte) /\ d \in Seq(Byte)
      /\ Len(h) = 1 /\ Len(b) = W32 /\ Len(c) = W32 /\ Len(d) = Len(n)
  <2>1. h \in Seq(Byte) /\ Len(h) = 1
    <3>1. "DATA" \in DOMAIN Code
      BY DEF Code
    <3> QED BY <1>1, <3>1, TypeByte
  <2>2. b \in Seq(Byte) /\ Len(b) = W32
    BY <1>1, PutU32Type
  <2>3. c \in Seq(Byte) /\ Len(c) = W32
    BY <1>1, PutU32Type
  <2>4. d \in Seq(Byte) /\ Len(d) = Len(n)
    BY <1>1
  <2> QED BY <2>1, <2>2, <2>3, <2>4
<1>3. PICK q1 \in Nat, q2 \in Nat, q3 \in Nat :
        /\ q1 = 1 /\ q2 = 1 + W32 /\ q3 = 1 + 2 * W32
        /\ q1 = Len(h) /\ q2 = q1 + Len(b) /\ q3 = q2 + Len(c)
  BY <1>2, BaseFacts, SizeFacts
<1>4. /\ s \in Seq(Byte) /\ Len(s) = q3 + Len(d)
      /\ Holds(s, 0, h) /\ Holds(s, q1, b) /\ Holds(s, q2, c) /\ Holds(s, q3, d)
  <2>1. s = h \o b \o c \o d
    BY <1>1, Zenon
  <2>2. h \in Seq(Byte) /\ b \in Seq(Byte) /\ c \in Seq(Byte) /\ d \in Seq(Byte)
    BY <1>2
  <2>3. Joined4(Byte, s, h, b, c, d)
    BY ONLY <2>1, <2>2, Parts4, Zenon
  <2> QED BY ONLY <1>3, <2>3 DEF Joined4
<1>5. At(s, 0) = Code.DATA /\ GetU32(s, q1) = t /\ GetU32(s, q2) = Len(n)
  <2>1. Len(n) \in 0 .. U32Max
    BY SizeFacts
  <2> QED BY <1>1, <1>4, <2>1, ReadByte, ReadU32
<1>6. Slice(s, q3, Len(n)) = n
  BY <1>1, <1>4, ReadBytes
<1>7. s # <<>> /\ Len(s) = q3 + Len(n) /\ Len(s) >= q3
  <2>1. Len(n) \in Nat /\ Len(s) = q3 + Len(n)
    BY <1>1, <1>4
  <2>2. Len(s) >= q3 /\ q3 # 0
    BY <1>3, <2>1, BaseFacts
  <2>3. Len(s) # 0
    BY ONLY <2>1, <2>2, q3 \in Nat
  <2> QED BY <2>1, <2>2, <2>3
<1>8. DataDecode(s) = [type |-> "DATA", to |-> GetU32(s, q1),
                       data |-> Slice(s, q3, GetU32(s, q2))]
  <2>1. Len(s) >= q3 /\ Has(s, "DATA") /\ Len(s) = q3 + GetU32(s, q2)
    BY <1>5, <1>7 DEF Has
  <2> QED BY ONLY <1>3, <2>1 DEF DataDecode
<1> QED BY <1>4, <1>5, <1>6, <1>7, <1>8 DEF Has, Tripped

LEMMA WindowTrip ==
  ASSUME CodeSizes, NEW t \in 0 .. U32Max, NEW a \in 0 .. U32Max, NEW s,
         s = <<Code.WINDOW>> \o PutU32(t) \o PutU32(a)
  PROVE  Tripped(s, "WINDOW", WindowDecode(s),
                 [type |-> "WINDOW", to |-> t, add |-> a])
<1>1. PICK h, b, c : h = <<Code.WINDOW>> /\ b = PutU32(t) /\ c = PutU32(a)
  OBVIOUS
<1>2. /\ h \in Seq(Byte) /\ b \in Seq(Byte) /\ c \in Seq(Byte)
      /\ Len(h) = 1 /\ Len(b) = W32 /\ Len(c) = W32
  <2>1. h \in Seq(Byte) /\ Len(h) = 1
    <3>1. "WINDOW" \in DOMAIN Code
      BY DEF Code
    <3> QED BY <1>1, <3>1, TypeByte
  <2>2. b \in Seq(Byte) /\ Len(b) = W32
    BY <1>1, PutU32Type
  <2>3. c \in Seq(Byte) /\ Len(c) = W32
    BY <1>1, PutU32Type
  <2> QED BY <2>1, <2>2, <2>3
<1>3. PICK q1 \in Nat, q2 \in Nat :
        /\ q1 = 1 /\ q2 = 1 + W32
        /\ q1 = Len(h) /\ q2 = q1 + Len(b)
  BY <1>2, BaseFacts, SizeFacts
<1>4. /\ s \in Seq(Byte) /\ Len(s) = q2 + Len(c)
      /\ Holds(s, 0, h) /\ Holds(s, q1, b) /\ Holds(s, q2, c)
  <2>1. s = h \o b \o c
    BY <1>1, Zenon
  <2>2. h \in Seq(Byte) /\ b \in Seq(Byte) /\ c \in Seq(Byte)
    BY <1>2
  <2>3. Joined3(Byte, s, h, b, c)
    BY ONLY <2>1, <2>2, Parts3, Zenon
  <2> QED BY ONLY <1>3, <2>3 DEF Joined3
<1>5. At(s, 0) = Code.WINDOW /\ GetU32(s, q1) = t /\ GetU32(s, q2) = a
  BY <1>1, <1>4, ReadByte, ReadU32
<1>6. s # <<>> /\ Len(s) = 1 + 2 * W32
  <2>1. Len(s) = 1 + 2 * W32 /\ Len(s) # 0
    BY <1>2, <1>3, <1>4, BaseFacts
  <2> QED BY <2>1
<1>7. WindowDecode(s) = [type |-> "WINDOW", to |-> GetU32(s, q1), add |-> GetU32(s, q2)]
  <2>1. Len(s) = 1 + 2 * W32 /\ Has(s, "WINDOW")
    BY <1>5, <1>6 DEF Has
  <2> QED BY ONLY <1>3, <2>1 DEF WindowDecode
<1> QED BY <1>4, <1>5, <1>6, <1>7 DEF Has, Tripped

LEMMA WordTrip ==
  ASSUME CodeSizes, NEW t \in WordTypes, NEW w \in 0 .. U32Max, NEW s,
         s = <<Code[t]>> \o PutU32(w)
  PROVE  Tripped(s, t, WordDecode(t, s),
                 [type |-> t, word |-> w])
<1>1. PICK h, b : h = <<Code[t]>> /\ b = PutU32(w)
  OBVIOUS
<1>2. /\ h \in Seq(Byte) /\ b \in Seq(Byte)
      /\ Len(h) = 1 /\ Len(b) = W32
  <2>1. h \in Seq(Byte) /\ Len(h) = 1
    <3>1. t \in DOMAIN Code
      BY DEF Code, WordTypes
    <3> QED BY <1>1, <3>1, TypeByte
  <2>2. b \in Seq(Byte) /\ Len(b) = W32
    BY <1>1, PutU32Type
  <2> QED BY <2>1, <2>2
<1>3. PICK q1 \in Nat :
        /\ q1 = 1
        /\ q1 = Len(h)
  BY <1>2, BaseFacts, SizeFacts
<1>4. /\ s \in Seq(Byte) /\ Len(s) = q1 + Len(b)
      /\ Holds(s, 0, h) /\ Holds(s, q1, b)
  <2>1. s = h \o b
    BY <1>1, Zenon
  <2>2. h \in Seq(Byte) /\ b \in Seq(Byte)
    BY <1>2
  <2>3. Joined2(Byte, s, h, b)
    BY ONLY <2>1, <2>2, Parts2, Zenon
  <2> QED BY ONLY <1>3, <2>3 DEF Joined2
<1>5. At(s, 0) = Code[t] /\ GetU32(s, q1) = w
  BY <1>1, <1>4, ReadByte, ReadU32
<1>6. s # <<>> /\ Len(s) = 1 + W32
  <2>1. Len(s) = 1 + W32 /\ Len(s) # 0
    BY <1>2, <1>3, <1>4, BaseFacts
  <2> QED BY <2>1
<1>7. WordDecode(t, s) = [type |-> t, word |-> GetU32(s, q1)]
  <2>1. Len(s) = 1 + W32 /\ Has(s, t)
    BY <1>5, <1>6 DEF Has
  <2> QED BY ONLY <1>3, <2>1 DEF WordDecode
<1> QED BY <1>4, <1>5, <1>6, <1>7 DEF Has, Tripped

LEMMA AuthOkTrip ==
  ASSUME CodeSizes, NEW n \in Seq(Byte), Len(n) <= ClaimsMax, NEW s,
         s = <<Code.AUTH_OK>> \o PutU16(Len(n)) \o n
  PROVE  Tripped(s, "AUTH_OK", AuthOkDecode(s),
                 [type |-> "AUTH_OK", claims |-> n])
<1>1. PICK h, b, c : h = <<Code.AUTH_OK>> /\ b = PutU16(Len(n)) /\ c = n
  OBVIOUS
<1>2. /\ h \in Seq(Byte) /\ b \in Seq(Byte) /\ c \in Seq(Byte)
      /\ Len(h) = 1 /\ Len(b) = W16 /\ Len(c) = Len(n)
  <2>1. h \in Seq(Byte) /\ Len(h) = 1
    <3>1. "AUTH_OK" \in DOMAIN Code
      BY DEF Code
    <3> QED BY <1>1, <3>1, TypeByte
  <2>2. b \in Seq(Byte) /\ Len(b) = W16
    BY <1>1, PutUintType, BaseFacts DEF PutU16
  <2>3. c \in Seq(Byte) /\ Len(c) = Len(n)
    BY <1>1
  <2> QED BY <2>1, <2>2, <2>3
<1>3. PICK q1 \in Nat, q2 \in Nat :
        /\ q1 = 1 /\ q2 = 1 + W16
        /\ q1 = Len(h) /\ q2 = q1 + Len(b)
  BY <1>2, BaseFacts, SizeFacts
<1>4. /\ s \in Seq(Byte) /\ Len(s) = q2 + Len(c)
      /\ Holds(s, 0, h) /\ Holds(s, q1, b) /\ Holds(s, q2, c)
  <2>1. s = h \o b \o c
    BY <1>1, Zenon
  <2>2. h \in Seq(Byte) /\ b \in Seq(Byte) /\ c \in Seq(Byte)
    BY <1>2
  <2>3. Joined3(Byte, s, h, b, c)
    BY ONLY <2>1, <2>2, Parts3, Zenon
  <2> QED BY ONLY <1>3, <2>3 DEF Joined3
<1>5. At(s, 0) = Code.AUTH_OK /\ GetU16(s, q1) = Len(n)
  <2>1. Len(n) \in 0 .. (Pow[W16] - 1)
    BY SizeFacts
  <2> QED BY <1>1, <1>4, <2>1, ReadByte, ReadU16
<1>6. Slice(s, q2, Len(n)) = n
  BY <1>1, <1>4, ReadBytes
<1>7. s # <<>> /\ Len(s) = q2 + Len(n) /\ Len(s) >= q2
  <2>1. Len(n) \in Nat /\ Len(s) = q2 + Len(n)
    BY <1>1, <1>4
  <2>2. Len(s) >= q2 /\ q2 # 0
    BY <1>3, <2>1, BaseFacts
  <2>3. Len(s) # 0
    BY ONLY <2>1, <2>2, q2 \in Nat
  <2> QED BY <2>1, <2>2, <2>3
<1>8. AuthOkDecode(s) = [type |-> "AUTH_OK", claims |-> Slice(s, q2, GetU16(s, q1))]
  <2>1. Len(s) >= q2 /\ Has(s, "AUTH_OK") /\ GetU16(s, q1) <= ClaimsMax
        /\ Len(s) = q2 + GetU16(s, q1)
    BY <1>5, <1>7 DEF Has
  <2> QED BY ONLY <1>3, <2>1 DEF AuthOkDecode
<1> QED BY <1>4, <1>5, <1>6, <1>7, <1>8 DEF Has, Tripped

LEMMA AuthDeviceTrip ==
  ASSUME CodeSizes, NEW k \in Seq(Byte), Len(k) = KeyLen, NEW g \in Seq(Byte), Len(g) = SigLen,
         NEW u \in Seq(Byte), Len(u) <= UserMax, NEW n \in Seq(Byte), Len(n) <= DeviceMax,
            NEW s,
         s = <<Code.AUTH_DEVICE>> \o k \o g \o Str8(u) \o Str8(n)
  PROVE  Tripped(s, "AUTH_DEVICE", AuthDeviceDecode(s),
                 [type |-> "AUTH_DEVICE", pk |-> k, sig |-> g, user |-> u, device |-> n])
<1>1. PICK h, b, c, d, e : h = <<Code.AUTH_DEVICE>> /\ b = k /\ c = g /\ d = Str8(u)
         /\ e = Str8(n)
  OBVIOUS
<1>2. /\ h \in Seq(Byte) /\ b \in Seq(Byte) /\ c \in Seq(Byte) /\ d \in Seq(Byte)
      /\ e \in Seq(Byte)
      /\ Len(h) = 1 /\ Len(b) = KeyLen /\ Len(c) = SigLen /\ Len(d) = 1 + Len(u)
      /\ Len(e) = 1 + Len(n)
  <2>1. h \in Seq(Byte) /\ Len(h) = 1
    <3>1. "AUTH_DEVICE" \in DOMAIN Code
      BY DEF Code
    <3> QED BY <1>1, <3>1, TypeByte
  <2>2. b \in Seq(Byte) /\ Len(b) = KeyLen
    BY <1>1
  <2>3. c \in Seq(Byte) /\ Len(c) = SigLen
    BY <1>1
  <2>4. d \in Seq(Byte) /\ Len(d) = 1 + Len(u)
    BY <1>1, Str8Type
  <2>5. e \in Seq(Byte) /\ Len(e) = 1 + Len(n)
    BY <1>1, Str8Type
  <2> QED BY <2>1, <2>2, <2>3, <2>4, <2>5
<1>3. PICK q1 \in Nat, q2 \in Nat, q3 \in Nat, q4 \in Nat :
        /\ q1 = 1 /\ q2 = 1 + KeyLen /\ q3 = 1 + KeyLen + SigLen /\ q4 = q3 + 1 + Len(u)
        /\ q1 = Len(h) /\ q2 = q1 + Len(b) /\ q3 = q2 + Len(c) /\ q4 = q3 + Len(d)
  <2>1. Len(u) \in Nat
    OBVIOUS
  <2>2. PICK q3 \in Nat : q3 = 1 + KeyLen + SigLen
    BY SizeFacts
  <2>3. PICK q4 \in Nat : q4 = q3 + 1 + Len(u)
    BY ONLY <2>1, q3 \in Nat
  <2>4. PICK q2 \in Nat : q2 = 1 + KeyLen
    BY SizeFacts
  <2>5. 1 = Len(h) /\ q2 = 1 + Len(b) /\ q3 = q2 + Len(c)
    BY <1>2, <2>2, <2>4, SizeFacts
  <2>6. q4 = q3 + Len(d)
    <3>1. Len(d) = 1 + Len(u)
      BY <1>2
    <3> QED BY ONLY <2>1, <2>3, <3>1, q3 \in Nat, q4 \in Nat
  <2> QED BY ONLY <2>2, <2>3, <2>4, <2>5, <2>6, q2 \in Nat, q3 \in Nat, q4 \in Nat
<1>4. /\ s \in Seq(Byte) /\ Len(s) = q4 + Len(e)
      /\ Holds(s, 0, h) /\ Holds(s, q1, b) /\ Holds(s, q2, c) /\ Holds(s, q3, d)
      /\ Holds(s, q4, e)
  <2>1. s = h \o b \o c \o d \o e
    BY <1>1, Zenon
  <2>2. h \in Seq(Byte) /\ b \in Seq(Byte) /\ c \in Seq(Byte) /\ d \in Seq(Byte)
           /\ e \in Seq(Byte)
    BY <1>2
  <2>3. Joined5(Byte, s, h, b, c, d, e)
    BY ONLY <2>1, <2>2, Parts5, Zenon
  <2> QED BY ONLY <1>3, <2>3 DEF Joined5
<1>5. At(s, 0) = Code.AUTH_DEVICE /\ Slice(s, q1, KeyLen) = k /\ Slice(s, q2, SigLen) = g
  BY <1>1, <1>4, ReadByte, ReadBytes
<1>6. At(s, q3) = Len(u) /\ Slice(s, q3 + 1, Len(u)) = u
  <2>1. Len(u) < Base
    BY SizeFacts, BaseFacts
  <2>2. s \in Seq(Byte) /\ Holds(s, q3, Str8(u))
    BY <1>1, <1>4
  <2> QED BY ONLY <2>1, <2>2, u \in Seq(Byte), q3 \in Nat, ReadStr8, ZenonT(30)
<1>7. At(s, q4) = Len(n) /\ Slice(s, q4 + 1, Len(n)) = n
  <2>1. Len(n) < Base
    BY SizeFacts, BaseFacts
  <2>2. s \in Seq(Byte) /\ Holds(s, q4, Str8(n))
    BY <1>1, <1>4
  <2> QED BY ONLY <2>1, <2>2, n \in Seq(Byte), q4 \in Nat, ReadStr8, ZenonT(30)
<1>8. s # <<>> /\ Len(s) = q4 + 1 + Len(n) /\ Len(s) >= q4 + 1
  <2>1. Len(n) \in Nat /\ Len(e) = 1 + Len(n) /\ Len(s) = q4 + Len(e)
    BY <1>2, <1>4
  <2>2. Len(s) = q4 + 1 + Len(n) /\ Len(s) >= q4 + 1 /\ Len(s) # 0
    BY ONLY <2>1, q4 \in Nat
  <2> QED BY <2>2
<1>9. AuthDeviceDecode(s) = [type |-> "AUTH_DEVICE", pk |-> Slice(s, q1, KeyLen),
                             sig |-> Slice(s, q2, SigLen),
                             user |-> Slice(s, q3 + 1, At(s, q3)),
                             device |-> Slice(s, q4 + 1, At(s, q4))]
  <2>1. /\ Has(s, "AUTH_DEVICE") /\ At(s, q3) <= UserMax /\ q4 + 1 <= Len(s)
        /\ At(s, q4) <= DeviceMax /\ q4 + 1 + At(s, q4) = Len(s)
    BY <1>5, <1>6, <1>7, <1>8 DEF Has
  <2>2. q4 = q3 + 1 + At(s, q3)
    BY <1>3, <1>6
  <2>3. Len(s) >= q3 + 2
    <3>1. Len(u) \in Nat /\ Len(s) \in Nat
      BY <1>4
    <3>2. q4 = q3 + 1 + Len(u) /\ Len(s) >= q4 + 1
      BY <1>3, <1>8
    <3> QED BY ONLY <3>1, <3>2, q3 \in Nat, q4 \in Nat
  <2> QED BY ONLY <1>3, <2>1, <2>2, <2>3 DEF AuthDeviceDecode
<1> QED BY <1>4, <1>5, <1>6, <1>7, <1>8, <1>9 DEF Has, Tripped

LEMMA AuthFailTrip ==
  ASSUME CodeSizes, NEW s, s = <<Code.AUTH_FAIL, 0, 0>>
  PROVE  Tripped(s, "AUTH_FAIL", AuthFailDecode(s), [type |-> "AUTH_FAIL", reason |-> 0])
<1>1. Code.AUTH_FAIL \in Byte /\ 0 \in Byte
  <2>1. "AUTH_FAIL" \in DOMAIN Code
    BY DEF Code
  <2> QED BY <2>1, TypeByte, BaseFacts DEF Byte
<1>2. s \in Seq(Byte) /\ Len(s) = 3 /\ s # <<>> /\ s[1] = Code.AUTH_FAIL /\ s[2] = 0 /\ s[3] = 0
  BY <1>1
<1> QED BY <1>2 DEF AuthFailDecode, Has, At, Tripped

\* Every record an encoder may be given: any u32, any text, any key and signature.
U32s     == 0 .. U32Max
Text     == Seq(Byte)
Bytes(n) == [1 .. n -> Byte]

AnyPdu ==
  [type : {"OPEN"}, from : U32s, window : U32s, max : U32s, name : Text]
  \cup [type : {"CONFIRM"}, from : U32s, to : U32s, window : U32s, max : U32s]
  \cup [type : {"OPEN_FAIL"}, to : U32s, reason : U32s, msg : Text]
  \cup [type : {"DATA"}, to : U32s, data : Text]
  \cup [type : {"WINDOW"}, to : U32s, add : U32s]
  \cup [type : WordTypes, word : U32s]
  \cup [type : {"DISCONNECT"}, reason : U32s, msg : Text]
  \cup [type : {"AUTH_DEVICE"}, pk : Bytes(KeyLen), sig : Bytes(SigLen), user : Text,
        device : Text]
  \cup [type : {"AUTH_OK"}, claims : Text]
  \cup [type : {"AUTH_FAIL"}, reason : {0}]

\* What the encoder writes of m is bytes, and is read back as m unless it is nothing.
Sound(m) == Encode(m) \in Seq(Byte) /\ (Encode(m) # NoBytes => Decode(Encode(m)) = m)

LEMMA Refused == ASSUME NEW m, Encode(m) = NoBytes PROVE Sound(m)
<1>1. <<>> \in Seq(Byte)
  OBVIOUS
<1> QED BY <1>1 DEF Sound, NoBytes

LEMMA OpenSound ==
  ASSUME CodeSizes, NEW m \in [type : {"OPEN"}, from : U32s, window : U32s, max : U32s,
                            name : Text]
  PROVE  Sound(m)
<1>1. PICK f \in 0 .. U32Max, w \in 0 .. U32Max, x \in 0 .. U32Max,
           n \in Text :
        m = [type |-> "OPEN", from |-> f, window |-> w, max |-> x, name |-> n]
  BY DEF U32s
<1>2. n \in Seq(Byte) /\ Len(n) \in Nat
  BY DEF Text
<1>3. PICK s : s = <<Code.OPEN>> \o PutU32(f) \o PutU32(w) \o PutU32(x) \o Str8(n)
  OBVIOUS
<1>4. Encode(m) = IF Len(n) > NameMax THEN NoBytes ELSE s
  BY <1>1, <1>3 DEF Encode, OpenEncode, WordTypes
<1>5. CASE Len(n) > NameMax
  BY <1>4, <1>5, Refused
<1>6. CASE ~(Len(n) > NameMax)
  <2>1. Tripped(s, "OPEN", OpenDecode(s), m)
    <3>1. Len(n) <= NameMax
      BY <1>2, <1>6, SizeFacts
    <3>2. Tripped(s, "OPEN", OpenDecode(s), [type |-> "OPEN", from |-> f, window |-> w,
             max |-> x, name |-> n])
      BY ONLY CodeSizes, f \in 0 .. U32Max, w \in 0 .. U32Max, x \in 0 .. U32Max, n \in Text,
              <1>1, <1>2, <1>3, <3>1, OpenTrip, Zenon
    <3> QED BY <1>1, <3>2, Zenon
  <2>2. Decode(s) = m
    BY <2>1, DecodeChosen DEF Tripped
  <2> QED BY <1>4, <1>6, <2>1, <2>2 DEF Sound, Tripped
<1> QED BY <1>5, <1>6

LEMMA ConfirmSound ==
  ASSUME CodeSizes, NEW m \in [type : {"CONFIRM"}, from : U32s, to : U32s, window : U32s,
                            max : U32s]
  PROVE  Sound(m)
<1>1. PICK f \in 0 .. U32Max, t \in 0 .. U32Max, w \in 0 .. U32Max,
           x \in 0 .. U32Max :
        m = [type |-> "CONFIRM", from |-> f, to |-> t, window |-> w, max |-> x]
  BY DEF U32s
<1>2. PICK s : s = <<Code.CONFIRM>> \o PutU32(f) \o PutU32(t) \o PutU32(w) \o PutU32(x)
  OBVIOUS
<1>3. Encode(m) = s
  BY <1>1, <1>2 DEF Encode, ConfirmEncode, WordTypes
<1>4. Tripped(s, "CONFIRM", ConfirmDecode(s), m)
  <2>1. Tripped(s, "CONFIRM", ConfirmDecode(s), [type |-> "CONFIRM", from |-> f, to |-> t,
           window |-> w, max |-> x])
    BY ONLY CodeSizes, f \in 0 .. U32Max, t \in 0 .. U32Max, w \in 0 .. U32Max,
            x \in 0 .. U32Max, <1>2, ConfirmTrip, Zenon
  <2> QED BY <1>1, <2>1, Zenon
<1>5. Decode(s) = m
  BY <1>1, <1>4, DecodeChosen DEF Tripped
<1> QED BY <1>3, <1>4, <1>5 DEF Sound, Tripped

LEMMA OpenFailSound ==
  ASSUME CodeSizes, NEW m \in [type : {"OPEN_FAIL"}, to : U32s, reason : U32s, msg : Text]
  PROVE  Sound(m)
<1>1. PICK t \in 0 .. U32Max, r \in 0 .. U32Max, n \in Text :
        m = [type |-> "OPEN_FAIL", to |-> t, reason |-> r, msg |-> n]
  BY DEF U32s
<1>2. n \in Seq(Byte) /\ Len(n) \in Nat
  BY DEF Text
<1>3. PICK s : s = <<Code.OPEN_FAIL>> \o PutU32(t) \o PutU32(r) \o Str8(n)
  OBVIOUS
<1>4. Encode(m) = IF Len(n) > Base - 1 THEN NoBytes ELSE s
  BY <1>1, <1>3 DEF Encode, OpenFailEncode, WordTypes
<1>5. CASE Len(n) > Base - 1
  BY <1>4, <1>5, Refused
<1>6. CASE ~(Len(n) > Base - 1)
  <2>1. Tripped(s, "OPEN_FAIL", OpenFailDecode(s), m)
    <3>1. Len(n) <= Base - 1
      BY <1>2, <1>6, BaseFacts
    <3>2. Tripped(s, "OPEN_FAIL", OpenFailDecode(s), [type |-> "OPEN_FAIL", to |-> t,
             reason |-> r, msg |-> n])
      BY ONLY CodeSizes, t \in 0 .. U32Max, r \in 0 .. U32Max, n \in Text, <1>1, <1>2, <1>3,
              <3>1, OpenFailTrip, Zenon
    <3> QED BY <1>1, <3>2, Zenon
  <2>2. Decode(s) = m
    BY <2>1, DecodeChosen DEF Tripped
  <2> QED BY <1>4, <1>6, <2>1, <2>2 DEF Sound, Tripped
<1> QED BY <1>5, <1>6

LEMMA DataSound ==
  ASSUME CodeSizes, NEW m \in [type : {"DATA"}, to : U32s,
                            data : Text]
  PROVE  Sound(m)
<1>1. PICK t \in 0 .. U32Max, n \in Text :
        m = [type |-> "DATA", to |-> t, data |-> n]
  BY DEF U32s
<1>2. n \in Seq(Byte) /\ Len(n) \in Nat
  BY DEF Text
<1>3. PICK s : s = <<Code.DATA>> \o PutU32(t) \o PutU32(Len(n)) \o n
  OBVIOUS
<1>4. Encode(m) = IF Len(n) > U32Max - (1 + 2 * W32) THEN NoBytes ELSE s
  BY <1>1, <1>3 DEF Encode, DataEncode, WordTypes
<1>5. CASE Len(n) > U32Max - (1 + 2 * W32)
  BY <1>4, <1>5, Refused
<1>6. CASE ~(Len(n) > U32Max - (1 + 2 * W32))
  <2>1. Tripped(s, "DATA", DataDecode(s), m)
    <3>1. Len(n) <= U32Max
      BY <1>2, <1>6, BaseFacts, SizeFacts
    <3>2. Tripped(s, "DATA", DataDecode(s), [type |-> "DATA", to |-> t, data |-> n])
      BY ONLY CodeSizes, t \in 0 .. U32Max, n \in Text, <1>1, <1>2, <1>3, <3>1, DataTrip, Zenon
    <3> QED BY <1>1, <3>2, Zenon
  <2>2. Decode(s) = m
    BY <2>1, DecodeChosen DEF Tripped
  <2> QED BY <1>4, <1>6, <2>1, <2>2 DEF Sound, Tripped
<1> QED BY <1>5, <1>6

LEMMA WindowSound ==
  ASSUME CodeSizes, NEW m \in [type : {"WINDOW"}, to : U32s, add : U32s]
  PROVE  Sound(m)
<1>1. PICK t \in 0 .. U32Max, a \in 0 .. U32Max :
        m = [type |-> "WINDOW", to |-> t, add |-> a]
  BY DEF U32s
<1>2. PICK s : s = <<Code.WINDOW>> \o PutU32(t) \o PutU32(a)
  OBVIOUS
<1>3. Encode(m) = s
  BY <1>1, <1>2 DEF Encode, WindowEncode, WordTypes
<1>4. Tripped(s, "WINDOW", WindowDecode(s), m)
  <2>1. Tripped(s, "WINDOW", WindowDecode(s), [type |-> "WINDOW", to |-> t, add |-> a])
    BY ONLY CodeSizes, t \in 0 .. U32Max, a \in 0 .. U32Max, <1>2, WindowTrip, Zenon
  <2> QED BY <1>1, <2>1, Zenon
<1>5. Decode(s) = m
  BY <1>1, <1>4, DecodeChosen DEF Tripped
<1> QED BY <1>3, <1>4, <1>5 DEF Sound, Tripped

LEMMA WordSound ==
  ASSUME CodeSizes, NEW m \in [type : WordTypes, word : U32s]
  PROVE  Sound(m)
<1>1. PICK t \in WordTypes, w \in 0 .. U32Max :
        m = [type |-> t, word |-> w]
  BY DEF U32s
<1>2. PICK s : s = <<Code[t]>> \o PutU32(w)
  OBVIOUS
<1>3. Encode(m) = s
  BY <1>1, <1>2 DEF Encode, WordEncode, WordTypes
<1>4. Tripped(s, t, WordDecode(t, s), m)
  <2>1. Tripped(s, t, WordDecode(t, s), [type |-> t, word |-> w])
    BY ONLY CodeSizes, t \in WordTypes, w \in 0 .. U32Max, <1>2, WordTrip, Zenon
  <2> QED BY <1>1, <2>1, Zenon
<1>5. Decode(s) = m
  BY <1>1, <1>4, DecodeChosen DEF Tripped
<1> QED BY <1>3, <1>4, <1>5 DEF Sound, Tripped

LEMMA DisconnectSound ==
  ASSUME CodeSizes, NEW m \in [type : {"DISCONNECT"}, reason : U32s, msg : Text]
  PROVE  Sound(m)
<1>1. PICK r \in 0 .. U32Max, n \in Text :
        m = [type |-> "DISCONNECT", reason |-> r, msg |-> n]
  BY DEF U32s
<1>2. n \in Seq(Byte) /\ Len(n) \in Nat
  BY DEF Text
<1>3. PICK s : s = <<Code.DISCONNECT>> \o PutU32(r) \o Str8(n)
  OBVIOUS
<1>4. Encode(m) = IF Len(n) > Base - 1 THEN NoBytes ELSE s
  BY <1>1, <1>3 DEF Encode, DisconnectEncode, WordTypes
<1>5. CASE Len(n) > Base - 1
  BY <1>4, <1>5, Refused
<1>6. CASE ~(Len(n) > Base - 1)
  <2>1. Tripped(s, "DISCONNECT", DisconnectDecode(s), m)
    <3>1. Len(n) <= Base - 1
      BY <1>2, <1>6, BaseFacts
    <3>2. Tripped(s, "DISCONNECT", DisconnectDecode(s), [type |-> "DISCONNECT", reason |-> r,
             msg |-> n])
      BY ONLY CodeSizes, r \in 0 .. U32Max, n \in Text, <1>1, <1>2, <1>3, <3>1,
              DisconnectTrip, Zenon
    <3> QED BY <1>1, <3>2, Zenon
  <2>2. Decode(s) = m
    BY <2>1, DecodeChosen DEF Tripped
  <2> QED BY <1>4, <1>6, <2>1, <2>2 DEF Sound, Tripped
<1> QED BY <1>5, <1>6

LEMMA AuthDeviceSound ==
  ASSUME CodeSizes, NEW m \in [type : {"AUTH_DEVICE"}, pk : Bytes(KeyLen), sig : Bytes(SigLen),
                            user : Text, device : Text]
  PROVE  Sound(m)
<1>1. PICK k \in Bytes(KeyLen), g \in Bytes(SigLen), u \in Text, n \in Text :
        m = [type |-> "AUTH_DEVICE", pk |-> k, sig |-> g, user |-> u, device |-> n]
  BY DEF U32s
<1>2. /\ k \in Seq(Byte) /\ Len(k) = KeyLen /\ g \in Seq(Byte) /\ Len(g) = SigLen
      /\ u \in Seq(Byte) /\ Len(u) \in Nat /\ n \in Seq(Byte) /\ Len(n) \in Nat
  <2>1. k \in Seq(Byte) /\ Len(k) = KeyLen
    BY SizeFacts DEF Bytes
  <2>2. g \in Seq(Byte) /\ Len(g) = SigLen
    BY SizeFacts DEF Bytes
  <2> QED BY <2>1, <2>2 DEF Text
<1>3. PICK s : s = <<Code.AUTH_DEVICE>> \o k \o g \o Str8(u) \o Str8(n)
  OBVIOUS
<1>4. Encode(m) = IF Len(u) > UserMax \/ Len(n) > DeviceMax THEN NoBytes ELSE s
  BY <1>1, <1>3 DEF Encode, AuthDeviceEncode, WordTypes
<1>5. CASE Len(u) > UserMax \/ Len(n) > DeviceMax
  BY <1>4, <1>5, Refused
<1>6. CASE ~(Len(u) > UserMax \/ Len(n) > DeviceMax)
  <2>1. Tripped(s, "AUTH_DEVICE", AuthDeviceDecode(s), m)
    <3>1. Len(u) <= UserMax /\ Len(n) <= DeviceMax
      BY <1>2, <1>6, SizeFacts
    <3>2. Tripped(s, "AUTH_DEVICE", AuthDeviceDecode(s), [type |-> "AUTH_DEVICE", pk |-> k,
             sig |-> g, user |-> u, device |-> n])
      BY ONLY CodeSizes, k \in Bytes(KeyLen), g \in Bytes(SigLen), u \in Text, n \in Text,
              <1>1, <1>2, <1>3, <3>1, AuthDeviceTrip, Zenon
    <3> QED BY <1>1, <3>2, Zenon
  <2>2. Decode(s) = m
    BY <2>1, DecodeChosen DEF Tripped
  <2> QED BY <1>4, <1>6, <2>1, <2>2 DEF Sound, Tripped
<1> QED BY <1>5, <1>6

LEMMA AuthOkSound ==
  ASSUME CodeSizes, NEW m \in [type : {"AUTH_OK"}, claims : Text]
  PROVE  Sound(m)
<1>1. PICK n \in Text :
        m = [type |-> "AUTH_OK", claims |-> n]
  BY DEF U32s
<1>2. n \in Seq(Byte) /\ Len(n) \in Nat
  BY DEF Text
<1>3. PICK s : s = <<Code.AUTH_OK>> \o PutU16(Len(n)) \o n
  OBVIOUS
<1>4. Encode(m) = IF Len(n) > ClaimsMax THEN NoBytes ELSE s
  BY <1>1, <1>3 DEF Encode, AuthOkEncode, WordTypes
<1>5. CASE Len(n) > ClaimsMax
  BY <1>4, <1>5, Refused
<1>6. CASE ~(Len(n) > ClaimsMax)
  <2>1. Tripped(s, "AUTH_OK", AuthOkDecode(s), m)
    <3>1. Len(n) <= ClaimsMax
      BY <1>2, <1>6, SizeFacts
    <3>2. Tripped(s, "AUTH_OK", AuthOkDecode(s), [type |-> "AUTH_OK", claims |-> n])
      BY ONLY CodeSizes, n \in Text, <1>1, <1>2, <1>3, <3>1, AuthOkTrip, Zenon
    <3> QED BY <1>1, <3>2, Zenon
  <2>2. Decode(s) = m
    BY <2>1, DecodeChosen DEF Tripped
  <2> QED BY <1>4, <1>6, <2>1, <2>2 DEF Sound, Tripped
<1> QED BY <1>5, <1>6

LEMMA AuthFailSound ==
  ASSUME CodeSizes, NEW m \in [type : {"AUTH_FAIL"}, reason : {0}]
  PROVE  Sound(m)
<1>1. m = [type |-> "AUTH_FAIL", reason |-> 0]
  OBVIOUS
<1>2. PICK s : s = <<Code.AUTH_FAIL, 0, 0>>
  OBVIOUS
<1>3. Encode(m) = s
  BY <1>1, <1>2 DEF Encode, AuthFailEncode, WordTypes
<1>4. Tripped(s, "AUTH_FAIL", AuthFailDecode(s), m)
  BY <1>1, <1>2, AuthFailTrip
<1>5. Decode(s) = m
  BY <1>4, DecodeChosen DEF Tripped
<1> QED BY <1>3, <1>4, <1>5 DEF Sound, Tripped

\* Every encoder of sodchan_wire.c, given any record at all, refuses it or writes bytes its
\* decoder reads back unchanged: every u32, every text, of whatever length.
THEOREM EncodersSound == ASSUME CodeSizes, NEW m \in AnyPdu PROVE Sound(m)
<1> USE CodeSizes
<1>1. CASE m \in [type : {"OPEN"}, from : U32s, window : U32s, max : U32s, name : Text]
  BY <1>1, OpenSound, Zenon
<1>2. CASE m \in [type : {"CONFIRM"}, from : U32s, to : U32s, window : U32s, max : U32s]
  BY <1>2, ConfirmSound, Zenon
<1>3. CASE m \in [type : {"OPEN_FAIL"}, to : U32s, reason : U32s, msg : Text]
  BY <1>3, OpenFailSound, Zenon
<1>4. CASE m \in [type : {"DATA"}, to : U32s, data : Text]
  BY <1>4, DataSound, Zenon
<1>5. CASE m \in [type : {"WINDOW"}, to : U32s, add : U32s]
  BY <1>5, WindowSound, Zenon
<1>6. CASE m \in [type : WordTypes, word : U32s]
  BY <1>6, WordSound, Zenon
<1>7. CASE m \in [type : {"DISCONNECT"}, reason : U32s, msg : Text]
  BY <1>7, DisconnectSound, Zenon
<1>8. CASE m \in [type : {"AUTH_DEVICE"}, pk : Bytes(KeyLen), sig : Bytes(SigLen), user : Text,
                  device : Text]
  BY <1>8, AuthDeviceSound, Zenon
<1>9. CASE m \in [type : {"AUTH_OK"}, claims : Text]
  BY <1>9, AuthOkSound, Zenon
<1>10. CASE m \in [type : {"AUTH_FAIL"}, reason : {0}]
  BY <1>10, AuthFailSound, Zenon
<1> QED BY <1>1, <1>2, <1>3, <1>4, <1>5, <1>6, <1>7, <1>8, <1>9, <1>10, Zenon DEF AnyPdu

\* The PDUs of the model are among them.
LEMMA PdusAreAny == ASSUME CodeSizes PROVE Pdus \subseteq AnyPdu
<1>1. Words \subseteq U32s
  BY WordsFit DEF U32s
<1>2. ASSUME NEW n \in Nat PROVE Strings(n) \subseteq Text
  BY <1>2, StringFacts DEF Text
<1>3. /\ Strings(NameMax + 1) \subseteq Text /\ Strings(UserMax + 1) \subseteq Text
      /\ Strings(DeviceMax + 1) \subseteq Text /\ Strings(ClaimsMax + 1) \subseteq Text
      /\ Strings(Base) \subseteq Text /\ Strings(2) \subseteq Text
  <2>1. /\ NameMax + 1 \in Nat /\ UserMax + 1 \in Nat /\ DeviceMax + 1 \in Nat
        /\ ClaimsMax + 1 \in Nat /\ Base \in Nat /\ 2 \in Nat
    BY SizeFacts, BaseFacts
  <2> QED BY ONLY <1>2, <2>1, Zenon
<1>4. [i \in 1 .. U32Max |-> 1] \in Text
  <2>1. 1 \in Byte /\ U32Max \in Nat
    BY BaseFacts, SizeFacts DEF Byte
  <2> QED BY <2>1 DEF Text
<1>5. Keys \subseteq Bytes(KeyLen) /\ Sigs \subseteq Bytes(SigLen)
  BY CodecAssumption DEF Keys, Sigs, Bytes
<1>6. Strings(2) \cup {[i \in 1 .. U32Max |-> 1]} \subseteq Text
  BY <1>3, <1>4
<1>7. ASSUME NEW m \in Pdus PROVE m \in AnyPdu
  <2>1. CASE m \in [type : {"OPEN"}, from : Words, window : Words, max : Words,
                    name : Strings(NameMax + 1)]
    BY ONLY <1>1, <1>3, <2>1 DEF AnyPdu
  <2>2. CASE m \in [type : {"CONFIRM"}, from : Words, to : Words, window : Words, max : Words]
    BY ONLY <1>1, <2>2 DEF AnyPdu
  <2>3. CASE m \in [type : {"OPEN_FAIL"}, to : Words, reason : Words, msg : Strings(Base)]
    BY ONLY <1>1, <1>3, <2>3 DEF AnyPdu
  <2>4. CASE m \in [type : {"DATA"}, to : Words,
                    data : Strings(2) \cup {[i \in 1 .. U32Max |-> 1]}]
    BY ONLY <1>1, <1>6, <2>4 DEF AnyPdu
  <2>5. CASE m \in [type : {"WINDOW"}, to : Words, add : Words]
    BY ONLY <1>1, <2>5 DEF AnyPdu
  <2>6. CASE m \in [type : WordTypes, word : Words]
    BY ONLY <1>1, <2>6 DEF AnyPdu
  <2>7. CASE m \in [type : {"DISCONNECT"}, reason : Words, msg : Strings(Base)]
    BY ONLY <1>1, <1>3, <2>7 DEF AnyPdu
  <2>8. CASE m \in [type : {"AUTH_DEVICE"}, pk : Keys, sig : Sigs, user : Strings(UserMax + 1),
                    device : Strings(DeviceMax + 1)]
    BY ONLY <1>3, <1>5, <2>8 DEF AnyPdu
  <2>9. CASE m \in [type : {"AUTH_OK"}, claims : Strings(ClaimsMax + 1)]
    BY ONLY <1>3, <2>9 DEF AnyPdu
  <2>10. CASE m \in [type : {"AUTH_FAIL"}, reason : {0}]
    BY ONLY <2>10 DEF AnyPdu
  <2> QED BY <2>1, <2>2, <2>3, <2>4, <2>5, <2>6, <2>7, <2>8, <2>9, <2>10, Zenon DEF Pdus
<1> QED BY <1>7

LEMMA AllSound == ASSUME CodeSizes, NEW m \in Pdus PROVE Sound(m)
BY PdusAreAny, EncodersSound, Zenon

----------------------------------------------------------------------------
(* What the codec is given *)

\* buf is bytes; those of an encoder are what it writes of its PDU.
CodecInv == /\ buf \in Seq(Byte)
            /\ pdu = Bad => Len(buf) <= MaxLen
            /\ pdu # Bad => pdu \in Pdus /\ buf = Encode(pdu)

LEMMA CodecInvariant == ASSUME CodeSizes PROVE Spec => []CodecInv
<1>1. Init => CodecInv
  BY CodecAssumption DEF Init, CodecInv
<1>2. ASSUME CodecInv, [Next]_vars PROVE CodecInv'
  <2>1. CASE Extend
    <3>1. PICK b : /\ b \in InputBytes \cup {Code[t] : t \in {u \in DOMAIN Code : buf = <<>>}}
                   /\ buf' = Append(buf, b)
      BY <2>1 DEF Extend
    <3>2. b \in Byte
      BY <3>1, TypeByte, CodecAssumption
    <3>3. pdu' = Bad /\ Len(buf) < MaxLen /\ MaxLen \in Nat
      BY <2>1, CodecAssumption DEF Extend
    <3>4. buf' \in Seq(Byte) /\ Len(buf') <= MaxLen
      BY <1>2, <3>1, <3>2, <3>3 DEF CodecInv
    <3> QED BY <3>3, <3>4 DEF CodecInv
  <2>2. CASE Write
    <3>1. PICK m \in Pdus : pdu' = m /\ buf' = Encode(m)
      BY <2>2 DEF Write
    <3>2. Encode(m) \in Seq(Byte)
      BY AllSound DEF Sound
    <3>3. m # Bad
      BY DEF Pdus, Bad, WordTypes
    <3> QED BY <3>1, <3>2, <3>3 DEF CodecInv
  <2>3. CASE UNCHANGED vars
    BY <1>2, <2>3 DEF vars, CodecInv
  <2> QED BY <1>2, <2>1, <2>2, <2>3 DEF Next
<1> QED BY <1>1, <1>2, PTL DEF Spec

\* What an encoder of sodchan_wire.c writes, its decoder reads back unchanged, for every
\* size of the fields and of the limits: no length wraps in its field.
THEOREM CodecRoundTrip == ASSUME CodeSizes PROVE Spec => []RoundTrip
<1>1. CodecInv => RoundTrip
  BY AllSound DEF CodecInv, RoundTrip, Sound
<1> QED BY <1>1, CodecInvariant, PTL

----------------------------------------------------------------------------
(* What is read is what was written *)

\* The bytes of s from offset a up to offset z.
Part(s, a, z) == SubSeq(s, a + 1, z)

LEMMA Grow ==
  ASSUME NEW s \in Seq(Byte), NEW a \in Nat, NEW z \in Nat, a <= z, z <= Len(s)
  PROVE  Part(s, 0, a) \o Part(s, a, z) = Part(s, 0, z)
<1>1. PICK p, r, w : p = Part(s, 0, a) /\ r = Part(s, a, z) /\ w = Part(s, 0, z)
  OBVIOUS
<1>2. /\ a \in 0 .. Len(s) /\ z \in 0 .. Len(s) /\ z \in a .. Len(s)
      /\ a - 0 = a /\ z - 0 = z /\ 0 \in Nat
  OBVIOUS
<1>3. p \in Seq(Byte) /\ Len(p) = a /\ \A i \in 1 .. a : p[i] = s[i]
  <2>1. p \in Seq(Byte) /\ Len(p) = a - 0 /\ \A i \in 1 .. (a - 0) : p[i] = s[0 + i]
    BY <1>1, <1>2, SubSeqFacts DEF Part
  <2> QED BY <1>2, <2>1
<1>4. w \in Seq(Byte) /\ Len(w) = z /\ \A i \in 1 .. z : w[i] = s[i]
  <2>1. w \in Seq(Byte) /\ Len(w) = z - 0 /\ \A i \in 1 .. (z - 0) : w[i] = s[0 + i]
    BY <1>1, <1>2, SubSeqFacts DEF Part
  <2> QED BY <1>2, <2>1
<1>5. r \in Seq(Byte) /\ Len(r) = z - a /\ \A i \in 1 .. (z - a) : r[i] = s[a + i]
  BY <1>1, <1>2, SubSeqFacts DEF Part
<1>6. PICK u : u = p \o r
  OBVIOUS
<1>7. /\ u \in Seq(Byte) /\ Len(u) = Len(p) + Len(r)
      /\ \A i \in 1 .. Len(p) : u[i] = p[i]
      /\ \A i \in 1 .. Len(r) : u[Len(p) + i] = r[i]
  BY <1>3, <1>5, <1>6, ConcatFacts
<1>8. Len(u) = z
  BY <1>3, <1>5, <1>7
<1>9. ASSUME NEW i \in 1 .. z PROVE u[i] = w[i]
  <2>1. CASE i <= a
    BY <1>3, <1>4, <1>7, <2>1
  <2>2. CASE i > a
    <3>1. i - a \in 1 .. (z - a) /\ a + (i - a) = i
      BY <2>2
    <3>2. u[a + (i - a)] = r[i - a]
      BY <1>3, <1>5, <1>7, <3>1
    <3>3. r[i - a] = s[a + (i - a)]
      BY <1>5, <3>1
    <3> QED BY <1>4, <3>1, <3>2, <3>3
  <2>3. i <= a \/ i > a
    OBVIOUS
  <2> QED BY <2>1, <2>2, <2>3
<1>10. u = w
  BY <1>4, <1>7, <1>8, <1>9, SeqsEqual
<1> QED BY <1>1, <1>6, <1>10

LEMMA Whole == ASSUME NEW s \in Seq(Byte), NEW z, z = Len(s) PROVE Part(s, 0, z) = s
<1>1. SubSeq(s, 1, Len(s)) = s
  OBVIOUS
<1> QED BY <1>1 DEF Part

\* s is put together from what is up to, between and after the offsets.
LEMMA Rejoin2 ==
  ASSUME NEW s \in Seq(Byte), NEW a \in Nat, NEW z \in Nat, a <= z, z = Len(s)
  PROVE  Part(s, 0, a) \o Part(s, a, z) = s
<1>1. z <= Len(s)
  OBVIOUS
<1> QED BY <1>1, Grow, Whole

LEMMA Rejoin3 ==
  ASSUME NEW s \in Seq(Byte), NEW a \in Nat, NEW b \in Nat, NEW z \in Nat,
         a <= b, b <= z, z = Len(s)
  PROVE  Part(s, 0, a) \o Part(s, a, b) \o Part(s, b, z) = s
<1>1. Part(s, 0, a) \o Part(s, a, b) = Part(s, 0, b)
  BY Grow
<1>2. Part(s, 0, b) \o Part(s, b, z) = s
  BY Rejoin2
<1> QED BY <1>1, <1>2

Cut4(s, a, b, c, z) == Part(s, 0, a) \o Part(s, a, b) \o Part(s, b, c) \o Part(s, c, z) = s

Cut5(s, a, b, c, d, z) ==
  Part(s, 0, a) \o Part(s, a, b) \o Part(s, b, c) \o Part(s, c, d) \o Part(s, d, z) = s

LEMMA Rejoin4 ==
  ASSUME NEW s \in Seq(Byte), NEW a \in Nat, NEW b \in Nat, NEW c \in Nat, NEW z \in Nat,
         a <= b, b <= c, c <= z, z = Len(s)
  PROVE  Cut4(s, a, b, c, z)
<1>1. Part(s, 0, a) \o Part(s, a, b) = Part(s, 0, b)
  <2>1. b <= Len(s)
    OBVIOUS
  <2> QED BY <2>1, Grow
<1>2. Part(s, 0, b) \o Part(s, b, c) \o Part(s, c, z) = s
  BY Rejoin3, ZenonT(30)
<1> QED BY <1>1, <1>2 DEF Cut4

LEMMA Rejoin5 ==
  ASSUME NEW s \in Seq(Byte), NEW a \in Nat, NEW b \in Nat, NEW c \in Nat, NEW d \in Nat,
         NEW z \in Nat, a <= b, b <= c, c <= d, d <= z, z = Len(s)
  PROVE  Cut5(s, a, b, c, d, z)
<1>1. Part(s, 0, a) \o Part(s, a, b) = Part(s, 0, b)
  <2>1. b <= Len(s)
    OBVIOUS
  <2> QED BY <2>1, Grow
<1>2. Part(s, 0, b) \o Part(s, b, c) = Part(s, 0, c)
  <2>1. c <= Len(s)
    OBVIOUS
  <2> QED BY <2>1, Grow
<1>3. Part(s, 0, c) \o Part(s, c, d) \o Part(s, d, z) = s
  BY Rejoin3, ZenonT(30)
<1> QED BY <1>1, <1>2, <1>3 DEF Cut5

\* Writing a part again.
LEMMA PartFacts ==
  ASSUME NEW s \in Seq(Byte), NEW a \in Nat, NEW z \in Nat, a <= z, z <= Len(s)
  PROVE  /\ Part(s, a, z) \in Seq(Byte) /\ Len(Part(s, a, z)) = z - a
         /\ \A i \in 1 .. (z - a) : Part(s, a, z)[i] = s[a + i]
<1>1. z \in a .. Len(s)
  OBVIOUS
<1> QED BY <1>1, SubSeqFacts DEF Part

\* p are the n bytes of s at offset a.
IsPart(p, s, a, n) == p \in Seq(Byte) /\ Len(p) = n /\ \A i \in 1 .. n : p[i] = s[a + i]

LEMMA PartOfLen ==
  ASSUME NEW s \in Seq(Byte), NEW a \in Nat, NEW n \in Nat, NEW z \in Nat, z = a + n,
         z <= Len(s)
  PROVE  IsPart(Part(s, a, z), s, a, n)
<1>1. a <= z /\ z - a = n
  OBVIOUS
<1>2. /\ Part(s, a, z) \in Seq(Byte) /\ Len(Part(s, a, z)) = z - a
      /\ \A i \in 1 .. (z - a) : Part(s, a, z)[i] = s[a + i]
  BY <1>1, PartFacts, Zenon
<1> QED BY ONLY <1>1, <1>2, Zenon DEF IsPart

LEMMA SliceIsPart ==
  ASSUME NEW s \in Seq(Byte), NEW a \in Nat, NEW n \in Nat, NEW z \in Nat, z = a + n,
     z <= Len(s)
  PROVE  Slice(s, a, n) = Part(s, a, z) /\ Slice(s, a, n) \in Seq(Byte)
     /\ Len(Slice(s, a, n)) = n
<1>1. Slice(s, a, n) = Part(s, a, z)
  BY DEF Slice, Part
<1>2. a <= z /\ z - a = n
  OBVIOUS
<1> QED BY <1>1, <1>2, PartFacts

LEMMA WriteByte ==
  ASSUME NEW s \in Seq(Byte), Len(s) > 0
  PROVE  <<At(s, 0)>> = Part(s, 0, 1)
<1>1. PICK p : p = Part(s, 0, 1)
  OBVIOUS
<1>2. p \in Seq(Byte) /\ Len(p) = 1 /\ p[1] = s[1]
  <2>1. 0 \in Nat /\ 1 \in Nat /\ 0 <= 1 /\ 1 <= Len(s) /\ 1 - 0 = 1 /\ 0 + 1 = 1
           /\ 1 \in 1 .. 1
    OBVIOUS
  <2>2. p \in Seq(Byte) /\ Len(p) = 1 - 0 /\ \A i \in 1 .. (1 - 0) : p[i] = s[0 + i]
    BY <1>1, <2>1, PartFacts
  <2> QED BY <2>1, <2>2
<1>3. p = <<s[1]>>
  BY <1>2
<1> QED BY <1>1, <1>3 DEF At

LEMMA WriteUint ==
  ASSUME NEW w \in Nat, NEW s \in Seq(Byte), NEW a \in Nat, NEW z \in Nat, z = a + w,
     z <= Len(s)
  PROVE  GetUint(w, s, a) \in Nat /\ PutUint(w, GetUint(w, s, a)) = Part(s, a, z)
<1>1. PICK p : p = Part(s, a, z)
  OBVIOUS
<1>2. a <= z /\ z - a = w
  OBVIOUS
<1>3. p \in Seq(Byte) /\ Len(p) = w /\ \A i \in 1 .. w : p[i] = s[a + i]
  <2>1. IsPart(p, s, a, w)
    BY <1>1, PartOfLen, Zenon
  <2> QED BY <2>1, Zenon DEF IsPart
<1>4. ASSUME NEW i \in 1 .. w PROVE s[a + i] \in Byte
  BY <1>3
<1>5. PICK v, u : v = GetUint(w, s, a) /\ u = PutUint(w, v)
  OBVIOUS
<1>6. v \in Nat /\ u = [k \in 1 .. w |-> s[a + k]]
  BY <1>4, <1>5, PutGetUint
<1>7. u \in Seq(Byte) /\ Len(u) = w
  BY <1>5, <1>6, PutUintType
<1>8. u = p
  <2>1. \A i \in 1 .. w : u[i] = p[i]
    BY <1>3, <1>6
  <2> QED BY <1>3, <1>7, <2>1, SeqsEqual
<1> QED BY <1>1, <1>5, <1>6, <1>8

LEMMA WriteU32 ==
  ASSUME NEW s \in Seq(Byte), NEW a \in Nat, NEW z \in Nat, z = a + W32, z <= Len(s)
  PROVE  GetU32(s, a) \in Nat /\ PutU32(GetU32(s, a)) = Part(s, a, z)
BY WriteUint, BaseFacts DEF GetU32, PutU32

LEMMA WriteU16 ==
  ASSUME NEW s \in Seq(Byte), NEW a \in Nat, NEW z \in Nat, z = a + W16, z <= Len(s)
  PROVE  GetU16(s, a) \in Nat /\ PutU16(GetU16(s, a)) = Part(s, a, z)
BY WriteUint, BaseFacts DEF GetU16, PutU16

LEMMA WriteStr8 ==
  ASSUME NEW s \in Seq(Byte), NEW a \in Nat, NEW n \in Nat, n = At(s, a),
         NEW z \in Nat, z = a + 1 + n, z <= Len(s)
  PROVE  /\ Str8(Slice(s, a + 1, n)) = Part(s, a, z) /\ Len(Slice(s, a + 1, n)) = n
         /\ n < Base
<1>1. /\ a <= z /\ z - a = 1 + n /\ a + 1 \in Nat /\ a + 1 <= z /\ z = (a + 1) + n
      /\ a + 1 \in 1 .. Len(s)
  OBVIOUS
<1>2. PICK p : p = Part(s, a, z)
  OBVIOUS
<1>3. p \in Seq(Byte) /\ Len(p) = 1 + n /\ \A i \in 1 .. (1 + n) : p[i] = s[a + i]
  <2>1. 1 + n \in Nat /\ z = a + (1 + n)
    OBVIOUS
  <2>2. IsPart(p, s, a, 1 + n)
    BY <1>2, <2>1, PartOfLen, Zenon
  <2> QED BY <2>2, Zenon DEF IsPart
<1>4. PICK t : t = Slice(s, a + 1, n)
  OBVIOUS
<1>5. IsPart(t, s, a + 1, n) /\ t \in Seq(Byte) /\ Len(t) = n
  <2>1. t = Part(s, a + 1, z)
    BY <1>1, <1>4 DEF Slice, Part
  <2>2. IsPart(t, s, a + 1, n)
    BY <1>1, <2>1, PartOfLen, Zenon
  <2> QED BY <2>2, Zenon DEF IsPart
<1>6. ASSUME NEW i \in 1 .. n PROVE t[i] = s[a + (1 + i)]
  <2>1. \A j \in 1 .. n : t[j] = s[(a + 1) + j]
    BY <1>5, Zenon DEF IsPart
  <2>2. t[i] = s[(a + 1) + i]
    BY <2>1
  <2>3. (a + 1) + i = a + (1 + i)
    OBVIOUS
  <2> QED BY <2>2, <2>3
<1>7. n \in Byte /\ n % Base = n /\ n < Base
  <2>1. n \in Byte
    BY <1>1 DEF At
  <2>2. n \in 0 .. (Base - 1)
    BY <2>1 DEF Byte
  <2> QED BY ONLY <2>1, <2>2, n \in Nat, BaseFacts
<1>8. PICK h : h = <<n>>
  OBVIOUS
<1>9. h \in Seq(Byte) /\ Len(h) = 1 /\ h[1] = n
  BY <1>7, <1>8
<1>10. PICK u : u = h \o t
  OBVIOUS
<1>11. /\ u \in Seq(Byte) /\ Len(u) = Len(h) + Len(t)
       /\ \A i \in 1 .. Len(h) : u[i] = h[i] /\ \A j \in 1 .. Len(t) : u[Len(h) + j] = t[j]
  <2>1. h \in Seq(Byte) /\ t \in Seq(Byte)
    BY <1>5, <1>9
  <2>2. /\ u \in Seq(Byte) /\ Len(u) = Len(h) + Len(t)
        /\ \A i \in 1 .. Len(h) : u[i] = h[i]
        /\ \A j \in 1 .. Len(t) : u[Len(h) + j] = t[j]
    BY ONLY <1>10, <2>1, ConcatFacts
  <2> QED BY <2>2
<1>12. ASSUME NEW i \in 1 .. (1 + n) PROVE u[i] = p[i]
  <2>1. CASE i = 1
    <3>1. u[1] = n
      BY <1>9, <1>11
    <3>2. p[1] = s[a + 1]
      BY <1>3, <2>1
    <3> QED BY <2>1, <3>1, <3>2 DEF At
  <2>2. CASE i # 1
    <3>1. i - 1 \in 1 .. n /\ 1 + (i - 1) = i
      BY <2>2
    <3>2. u[1 + (i - 1)] = t[i - 1]
      BY <1>5, <1>9, <1>11, <3>1
    <3>3. t[i - 1] = s[a + (1 + (i - 1))]
      BY <1>6, <3>1
    <3> QED BY <1>3, <3>1, <3>2, <3>3
  <2> QED BY <2>1, <2>2
<1>13. u = p
  <2>1. Len(u) = Len(p)
    BY <1>3, <1>5, <1>9, <1>11
  <2> QED BY <1>3, <1>11, <1>12, <2>1, SeqsEqual
<1>14. Str8(t) = u
  BY <1>5, <1>7, <1>8, <1>10 DEF Str8
<1> QED BY <1>2, <1>4, <1>5, <1>7, <1>13, <1>14

LEMMA OpenBack ==
  ASSUME NEW s \in Seq(Byte), NEW m, m = OpenDecode(s), m # Bad
  PROVE  m.type = "OPEN" /\ Encode(m) = s
<1>1. PICK q1 \in Nat, q2 \in Nat, q3 \in Nat, q4 \in Nat :
        /\ q1 = 1 /\ q2 = q1 + W32 /\ q3 = q2 + W32 /\ q4 = q3 + W32
        /\ q1 = 1 /\ q2 = 1 + W32 /\ q3 = 1 + 2 * W32 /\ q4 = 1 + 3 * W32
  BY BaseFacts, SizeFacts
<1>2. /\ Len(s) >= q4 + 1 /\ Has(s, "OPEN") /\ At(s, q4) <= NameMax
      /\ Len(s) = q4 + 1 + At(s, q4)
  BY ONLY <1>1, m = OpenDecode(s), m # Bad DEF OpenDecode
<1>3. PICK n \in Nat, z \in Nat :
        /\ n = At(s, q4) /\ n <= NameMax /\ z = q4 + 1 + n /\ z = Len(s)
        /\ z <= Len(s)
  <2>1. At(s, q4) \in Byte
    <3>1. q4 + 1 \in 1 .. Len(s)
      BY <1>2
    <3> QED BY <3>1 DEF At
  <2> QED BY <1>2, <2>1, BaseFacts, SizeFacts DEF Byte
<1>4. PICK f, w, x, t :
        /\ f = GetU32(s, q1) /\ w = GetU32(s, q2) /\ x = GetU32(s, q3)
        /\ t = Slice(s, q4 + 1, n)
        /\ m = [type |-> "OPEN", from |-> f, window |-> w, max |-> x, name |-> t]
  BY ONLY <1>1, <1>2, <1>3, m = OpenDecode(s) DEF OpenDecode
<1>5. /\ <<Code.OPEN>> = Part(s, 0, q1)
      /\ PutU32(f) = Part(s, q1, q2)
      /\ PutU32(w) = Part(s, q2, q3)
      /\ PutU32(x) = Part(s, q3, q4)
      /\ Str8(t) = Part(s, q4, z)
  <2>1. <<Code.OPEN>> = Part(s, 0, q1)
    <3>1. Len(s) > 0
      BY <1>1, <1>2, <1>3, BaseFacts
    <3> QED BY <1>1, <1>2, <3>1, WriteByte DEF Has
  <2>2. PutU32(f) = Part(s, q1, q2)
    <3>1. q2 <= Len(s) /\ q2 = q1 + W32
      BY <1>1, <1>3, BaseFacts, SizeFacts
    <3> QED BY ONLY <1>4, <3>1, s \in Seq(Byte), q1 \in Nat, q2 \in Nat, WriteU32
  <2>3. PutU32(w) = Part(s, q2, q3)
    <3>1. q3 <= Len(s) /\ q3 = q2 + W32
      BY <1>1, <1>3, BaseFacts, SizeFacts
    <3> QED BY ONLY <1>4, <3>1, s \in Seq(Byte), q2 \in Nat, q3 \in Nat, WriteU32
  <2>4. PutU32(x) = Part(s, q3, q4)
    <3>1. q4 <= Len(s) /\ q4 = q3 + W32
      BY <1>1, <1>3, BaseFacts, SizeFacts
    <3> QED BY ONLY <1>4, <3>1, s \in Seq(Byte), q3 \in Nat, q4 \in Nat, WriteU32
  <2>5. Str8(t) = Part(s, q4, z)
    BY ONLY <1>3, <1>4, s \in Seq(Byte), q4 \in Nat, n \in Nat, z \in Nat, WriteStr8
  <2> QED BY <2>1, <2>2, <2>3, <2>4, <2>5
<1>6. Part(s, 0, q1) \o Part(s, q1, q2) \o Part(s, q2, q3) \o Part(s, q3, q4)
         \o Part(s, q4, z) = s
  <2>1. q1 <= q2 /\ q2 <= q3 /\ q3 <= q4 /\ q4 <= z
    BY <1>1, <1>3, BaseFacts, SizeFacts
  <2>2. z = Len(s)
    BY <1>3
  <2>3. Cut5(s, q1, q2, q3, q4, z)
    BY ONLY <2>1, <2>2, s \in Seq(Byte), q1 \in Nat, q2 \in Nat, q3 \in Nat, q4 \in Nat,
            z \in Nat, Rejoin5, Zenon
  <2> QED BY ONLY <2>3 DEF Cut5
<1>7. Encode(m) = <<Code.OPEN>> \o PutU32(f) \o PutU32(w) \o PutU32(x) \o Str8(t)
  <2>1. Len(t) = n
    BY ONLY <1>3, <1>4, s \in Seq(Byte), q4 \in Nat, n \in Nat, z \in Nat, WriteStr8
  <2>2. ~(Len(t) > NameMax)
    BY <1>3, <2>1, SizeFacts, BaseFacts
  <2> QED BY ONLY <1>4, <2>2 DEF Encode, OpenEncode, WordTypes
<1>8. <<Code.OPEN>> \o PutU32(f) \o PutU32(w) \o PutU32(x) \o Str8(t) = s
  BY ONLY <1>5, <1>6
<1>9. m.type = "OPEN"
  BY ONLY <1>4
<1> QED BY ONLY <1>7, <1>8, <1>9

LEMMA ConfirmBack ==
  ASSUME NEW s \in Seq(Byte), NEW m, m = ConfirmDecode(s), m # Bad
  PROVE  m.type = "CONFIRM" /\ Encode(m) = s
<1>1. PICK q1 \in Nat, q2 \in Nat, q3 \in Nat, q4 \in Nat :
        /\ q1 = 1 /\ q2 = q1 + W32 /\ q3 = q2 + W32 /\ q4 = q3 + W32
        /\ q1 = 1 /\ q2 = 1 + W32 /\ q3 = 1 + 2 * W32 /\ q4 = 1 + 3 * W32
  BY BaseFacts, SizeFacts
<1>2. /\ Len(s) = 1 + 4 * W32 /\ Has(s, "CONFIRM")
  BY ONLY <1>1, m = ConfirmDecode(s), m # Bad DEF ConfirmDecode
<1>3. PICK z \in Nat : z = Len(s) /\ z = q4 + W32
  BY <1>1, <1>2, BaseFacts
<1>4. PICK f, t, w, x :
        /\ f = GetU32(s, q1) /\ t = GetU32(s, q2) /\ w = GetU32(s, q3) /\ x = GetU32(s, q4)
        /\ m = [type |-> "CONFIRM", from |-> f, to |-> t, window |-> w, max |-> x]
  BY ONLY <1>1, <1>2, <1>3, m = ConfirmDecode(s) DEF ConfirmDecode
<1>5. /\ <<Code.CONFIRM>> = Part(s, 0, q1)
      /\ PutU32(f) = Part(s, q1, q2)
      /\ PutU32(t) = Part(s, q2, q3)
      /\ PutU32(w) = Part(s, q3, q4)
      /\ PutU32(x) = Part(s, q4, z)
  <2>1. <<Code.CONFIRM>> = Part(s, 0, q1)
    <3>1. Len(s) > 0
      BY <1>1, <1>2, <1>3, BaseFacts
    <3> QED BY <1>1, <1>2, <3>1, WriteByte DEF Has
  <2>2. PutU32(f) = Part(s, q1, q2)
    <3>1. q2 <= Len(s) /\ q2 = q1 + W32
      BY <1>1, <1>3, BaseFacts, SizeFacts
    <3> QED BY ONLY <1>4, <3>1, s \in Seq(Byte), q1 \in Nat, q2 \in Nat, WriteU32
  <2>3. PutU32(t) = Part(s, q2, q3)
    <3>1. q3 <= Len(s) /\ q3 = q2 + W32
      BY <1>1, <1>3, BaseFacts, SizeFacts
    <3> QED BY ONLY <1>4, <3>1, s \in Seq(Byte), q2 \in Nat, q3 \in Nat, WriteU32
  <2>4. PutU32(w) = Part(s, q3, q4)
    <3>1. q4 <= Len(s) /\ q4 = q3 + W32
      BY <1>1, <1>3, BaseFacts, SizeFacts
    <3> QED BY ONLY <1>4, <3>1, s \in Seq(Byte), q3 \in Nat, q4 \in Nat, WriteU32
  <2>5. PutU32(x) = Part(s, q4, z)
    <3>1. z <= Len(s) /\ z = q4 + W32
      BY <1>1, <1>3, BaseFacts, SizeFacts
    <3> QED BY ONLY <1>4, <3>1, s \in Seq(Byte), q4 \in Nat, z \in Nat, WriteU32
  <2> QED BY <2>1, <2>2, <2>3, <2>4, <2>5
<1>6. Part(s, 0, q1) \o Part(s, q1, q2) \o Part(s, q2, q3) \o Part(s, q3, q4)
         \o Part(s, q4, z) = s
  <2>1. q1 <= q2 /\ q2 <= q3 /\ q3 <= q4 /\ q4 <= z
    BY <1>1, <1>3, BaseFacts, SizeFacts
  <2>2. z = Len(s)
    BY <1>3
  <2>3. Cut5(s, q1, q2, q3, q4, z)
    BY ONLY <2>1, <2>2, s \in Seq(Byte), q1 \in Nat, q2 \in Nat, q3 \in Nat, q4 \in Nat,
            z \in Nat, Rejoin5, Zenon
  <2> QED BY ONLY <2>3 DEF Cut5
<1>7. Encode(m) = <<Code.CONFIRM>> \o PutU32(f) \o PutU32(t) \o PutU32(w) \o PutU32(x)
  BY ONLY <1>4 DEF Encode, ConfirmEncode, WordTypes
<1>8. <<Code.CONFIRM>> \o PutU32(f) \o PutU32(t) \o PutU32(w) \o PutU32(x) = s
  BY ONLY <1>5, <1>6
<1>9. m.type = "CONFIRM"
  BY ONLY <1>4
<1> QED BY ONLY <1>7, <1>8, <1>9

LEMMA OpenFailBack ==
  ASSUME NEW s \in Seq(Byte), NEW m, m = OpenFailDecode(s), m # Bad
  PROVE  m.type = "OPEN_FAIL" /\ Encode(m) = s
<1>1. PICK q1 \in Nat, q2 \in Nat, q3 \in Nat :
        /\ q1 = 1 /\ q2 = q1 + W32 /\ q3 = q2 + W32
        /\ q1 = 1 /\ q2 = 1 + W32 /\ q3 = 1 + 2 * W32
  BY BaseFacts, SizeFacts
<1>2. /\ Len(s) >= q3 + 1 /\ Has(s, "OPEN_FAIL") /\ Len(s) = q3 + 1 + At(s, q3)
  BY ONLY <1>1, m = OpenFailDecode(s), m # Bad DEF OpenFailDecode
<1>3. PICK n \in Nat, z \in Nat :
        /\ n = At(s, q3) /\ n <= Base - 1 /\ z = q3 + 1 + n /\ z = Len(s)
        /\ z <= Len(s)
  <2>1. At(s, q3) \in Byte
    <3>1. q3 + 1 \in 1 .. Len(s)
      BY <1>2
    <3> QED BY <3>1 DEF At
  <2> QED BY <1>2, <2>1, BaseFacts, SizeFacts DEF Byte
<1>4. PICK r, w, t :
        /\ r = GetU32(s, q1) /\ w = GetU32(s, q2) /\ t = Slice(s, q3 + 1, n)
        /\ m = [type |-> "OPEN_FAIL", to |-> r, reason |-> w, msg |-> t]
  BY ONLY <1>1, <1>2, <1>3, m = OpenFailDecode(s) DEF OpenFailDecode
<1>5. /\ <<Code.OPEN_FAIL>> = Part(s, 0, q1)
      /\ PutU32(r) = Part(s, q1, q2)
      /\ PutU32(w) = Part(s, q2, q3)
      /\ Str8(t) = Part(s, q3, z)
  <2>1. <<Code.OPEN_FAIL>> = Part(s, 0, q1)
    <3>1. Len(s) > 0
      BY <1>1, <1>2, <1>3, BaseFacts
    <3> QED BY <1>1, <1>2, <3>1, WriteByte DEF Has
  <2>2. PutU32(r) = Part(s, q1, q2)
    <3>1. q2 <= Len(s) /\ q2 = q1 + W32
      BY <1>1, <1>3, BaseFacts, SizeFacts
    <3> QED BY ONLY <1>4, <3>1, s \in Seq(Byte), q1 \in Nat, q2 \in Nat, WriteU32
  <2>3. PutU32(w) = Part(s, q2, q3)
    <3>1. q3 <= Len(s) /\ q3 = q2 + W32
      BY <1>1, <1>3, BaseFacts, SizeFacts
    <3> QED BY ONLY <1>4, <3>1, s \in Seq(Byte), q2 \in Nat, q3 \in Nat, WriteU32
  <2>4. Str8(t) = Part(s, q3, z)
    BY ONLY <1>3, <1>4, s \in Seq(Byte), q3 \in Nat, n \in Nat, z \in Nat, WriteStr8
  <2> QED BY <2>1, <2>2, <2>3, <2>4
<1>6. Part(s, 0, q1) \o Part(s, q1, q2) \o Part(s, q2, q3) \o Part(s, q3, z) = s
  <2>1. q1 <= q2 /\ q2 <= q3 /\ q3 <= z
    BY <1>1, <1>3, BaseFacts, SizeFacts
  <2>2. z = Len(s)
    BY <1>3
  <2>3. Cut4(s, q1, q2, q3, z)
    BY ONLY <2>1, <2>2, s \in Seq(Byte), q1 \in Nat, q2 \in Nat, q3 \in Nat, z \in Nat,
            Rejoin4, Zenon
  <2> QED BY ONLY <2>3 DEF Cut4
<1>7. Encode(m) = <<Code.OPEN_FAIL>> \o PutU32(r) \o PutU32(w) \o Str8(t)
  <2>1. Len(t) = n
    BY ONLY <1>3, <1>4, s \in Seq(Byte), q3 \in Nat, n \in Nat, z \in Nat, WriteStr8
  <2>2. ~(Len(t) > Base - 1)
    BY <1>3, <2>1, SizeFacts, BaseFacts
  <2> QED BY ONLY <1>4, <2>2 DEF Encode, OpenFailEncode, WordTypes
<1>8. <<Code.OPEN_FAIL>> \o PutU32(r) \o PutU32(w) \o Str8(t) = s
  BY ONLY <1>5, <1>6
<1>9. m.type = "OPEN_FAIL"
  BY ONLY <1>4
<1> QED BY ONLY <1>7, <1>8, <1>9

LEMMA DisconnectBack ==
  ASSUME NEW s \in Seq(Byte), NEW m, m = DisconnectDecode(s), m # Bad
  PROVE  m.type = "DISCONNECT" /\ Encode(m) = s
<1>1. PICK q1 \in Nat, q2 \in Nat :
        /\ q1 = 1 /\ q2 = q1 + W32
        /\ q1 = 1 /\ q2 = 1 + W32
  BY BaseFacts, SizeFacts
<1>2. /\ Len(s) >= q2 + 1 /\ Has(s, "DISCONNECT") /\ Len(s) = q2 + 1 + At(s, q2)
  BY ONLY <1>1, m = DisconnectDecode(s), m # Bad DEF DisconnectDecode
<1>3. PICK n \in Nat, z \in Nat :
        /\ n = At(s, q2) /\ n <= Base - 1 /\ z = q2 + 1 + n /\ z = Len(s)
        /\ z <= Len(s)
  <2>1. At(s, q2) \in Byte
    <3>1. q2 + 1 \in 1 .. Len(s)
      BY <1>2
    <3> QED BY <3>1 DEF At
  <2> QED BY <1>2, <2>1, BaseFacts, SizeFacts DEF Byte
<1>4. PICK r, t :
        /\ r = GetU32(s, q1) /\ t = Slice(s, q2 + 1, n)
        /\ m = [type |-> "DISCONNECT", reason |-> r, msg |-> t]
  BY ONLY <1>1, <1>2, <1>3, m = DisconnectDecode(s) DEF DisconnectDecode
<1>5. /\ <<Code.DISCONNECT>> = Part(s, 0, q1)
      /\ PutU32(r) = Part(s, q1, q2)
      /\ Str8(t) = Part(s, q2, z)
  <2>1. <<Code.DISCONNECT>> = Part(s, 0, q1)
    <3>1. Len(s) > 0
      BY <1>1, <1>2, <1>3, BaseFacts
    <3> QED BY <1>1, <1>2, <3>1, WriteByte DEF Has
  <2>2. PutU32(r) = Part(s, q1, q2)
    <3>1. q2 <= Len(s) /\ q2 = q1 + W32
      BY <1>1, <1>3, BaseFacts, SizeFacts
    <3> QED BY ONLY <1>4, <3>1, s \in Seq(Byte), q1 \in Nat, q2 \in Nat, WriteU32
  <2>3. Str8(t) = Part(s, q2, z)
    BY ONLY <1>3, <1>4, s \in Seq(Byte), q2 \in Nat, n \in Nat, z \in Nat, WriteStr8
  <2> QED BY <2>1, <2>2, <2>3
<1>6. Part(s, 0, q1) \o Part(s, q1, q2) \o Part(s, q2, z) = s
  <2>1. q1 <= q2 /\ q2 <= z
    BY <1>1, <1>3, BaseFacts, SizeFacts
  <2>2. z = Len(s)
    BY <1>3
  <2> QED BY ONLY <2>1, <2>2, s \in Seq(Byte), q1 \in Nat, q2 \in Nat, z \in Nat, Rejoin3, ZenonT(30)
<1>7. Encode(m) = <<Code.DISCONNECT>> \o PutU32(r) \o Str8(t)
  <2>1. Len(t) = n
    BY ONLY <1>3, <1>4, s \in Seq(Byte), q2 \in Nat, n \in Nat, z \in Nat, WriteStr8
  <2>2. ~(Len(t) > Base - 1)
    BY <1>3, <2>1, SizeFacts, BaseFacts
  <2> QED BY ONLY <1>4, <2>2 DEF Encode, DisconnectEncode, WordTypes
<1>8. <<Code.DISCONNECT>> \o PutU32(r) \o Str8(t) = s
  BY ONLY <1>5, <1>6
<1>9. m.type = "DISCONNECT"
  BY ONLY <1>4
<1> QED BY ONLY <1>7, <1>8, <1>9

LEMMA WindowBack ==
  ASSUME NEW s \in Seq(Byte), NEW m, m = WindowDecode(s), m # Bad
  PROVE  m.type = "WINDOW" /\ Encode(m) = s
<1>1. PICK q1 \in Nat, q2 \in Nat :
        /\ q1 = 1 /\ q2 = q1 + W32
        /\ q1 = 1 /\ q2 = 1 + W32
  BY BaseFacts, SizeFacts
<1>2. /\ Len(s) = 1 + 2 * W32 /\ Has(s, "WINDOW")
  BY ONLY <1>1, m = WindowDecode(s), m # Bad DEF WindowDecode
<1>3. PICK z \in Nat : z = Len(s) /\ z = q2 + W32
  BY <1>1, <1>2, BaseFacts
<1>4. PICK t, a :
        /\ t = GetU32(s, q1) /\ a = GetU32(s, q2)
        /\ m = [type |-> "WINDOW", to |-> t, add |-> a]
  BY ONLY <1>1, <1>2, <1>3, m = WindowDecode(s) DEF WindowDecode
<1>5. /\ <<Code.WINDOW>> = Part(s, 0, q1)
      /\ PutU32(t) = Part(s, q1, q2)
      /\ PutU32(a) = Part(s, q2, z)
  <2>1. <<Code.WINDOW>> = Part(s, 0, q1)
    <3>1. Len(s) > 0
      BY <1>1, <1>2, <1>3, BaseFacts
    <3> QED BY <1>1, <1>2, <3>1, WriteByte DEF Has
  <2>2. PutU32(t) = Part(s, q1, q2)
    <3>1. q2 <= Len(s) /\ q2 = q1 + W32
      BY <1>1, <1>3, BaseFacts, SizeFacts
    <3> QED BY ONLY <1>4, <3>1, s \in Seq(Byte), q1 \in Nat, q2 \in Nat, WriteU32
  <2>3. PutU32(a) = Part(s, q2, z)
    <3>1. z <= Len(s) /\ z = q2 + W32
      BY <1>1, <1>3, BaseFacts, SizeFacts
    <3> QED BY ONLY <1>4, <3>1, s \in Seq(Byte), q2 \in Nat, z \in Nat, WriteU32
  <2> QED BY <2>1, <2>2, <2>3
<1>6. Part(s, 0, q1) \o Part(s, q1, q2) \o Part(s, q2, z) = s
  <2>1. q1 <= q2 /\ q2 <= z
    BY <1>1, <1>3, BaseFacts, SizeFacts
  <2>2. z = Len(s)
    BY <1>3
  <2> QED BY ONLY <2>1, <2>2, s \in Seq(Byte), q1 \in Nat, q2 \in Nat, z \in Nat, Rejoin3
<1>7. Encode(m) = <<Code.WINDOW>> \o PutU32(t) \o PutU32(a)
  BY ONLY <1>4 DEF Encode, WindowEncode, WordTypes
<1>8. <<Code.WINDOW>> \o PutU32(t) \o PutU32(a) = s
  BY ONLY <1>5, <1>6
<1>9. m.type = "WINDOW"
  BY ONLY <1>4
<1> QED BY ONLY <1>7, <1>8, <1>9

LEMMA WordBack ==
  ASSUME NEW t \in WordTypes, NEW s \in Seq(Byte), NEW m, m = WordDecode(t, s), m # Bad
  PROVE  m.type = t /\ Encode(m) = s
<1>1. PICK q1 \in Nat :
        /\ q1 = 1
        /\ q1 = 1
  BY BaseFacts, SizeFacts
<1>2. /\ Len(s) = 1 + W32 /\ Has(s, t)
  BY ONLY <1>1, m = WordDecode(t, s), m # Bad DEF WordDecode
<1>3. PICK z \in Nat : z = Len(s) /\ z = q1 + W32
  BY <1>1, <1>2, BaseFacts
<1>4. PICK w :
        /\ w = GetU32(s, q1)
        /\ m = [type |-> t, word |-> w]
  BY ONLY <1>1, <1>2, <1>3, m = WordDecode(t, s) DEF WordDecode
<1>5. /\ <<Code[t]>> = Part(s, 0, q1)
      /\ PutU32(w) = Part(s, q1, z)
  <2>1. <<Code[t]>> = Part(s, 0, q1)
    <3>1. Len(s) > 0
      BY <1>1, <1>2, <1>3, BaseFacts
    <3> QED BY <1>1, <1>2, <3>1, WriteByte DEF Has
  <2>2. PutU32(w) = Part(s, q1, z)
    <3>1. z <= Len(s) /\ z = q1 + W32
      BY <1>1, <1>3, BaseFacts, SizeFacts
    <3> QED BY ONLY <1>4, <3>1, s \in Seq(Byte), q1 \in Nat, z \in Nat, WriteU32
  <2> QED BY <2>1, <2>2
<1>6. Part(s, 0, q1) \o Part(s, q1, z) = s
  <2>1. q1 <= z
    BY <1>1, <1>3, BaseFacts, SizeFacts
  <2>2. z = Len(s)
    BY <1>3
  <2> QED BY ONLY <2>1, <2>2, s \in Seq(Byte), q1 \in Nat, z \in Nat, Rejoin2
<1>7. Encode(m) = <<Code[t]>> \o PutU32(w)
  BY ONLY <1>4, t \in WordTypes DEF Encode, WordEncode, WordTypes
<1>8. <<Code[t]>> \o PutU32(w) = s
  BY ONLY <1>5, <1>6
<1>9. m.type = t
  BY ONLY <1>4
<1> QED BY ONLY <1>7, <1>8, <1>9

LEMMA DataBack ==
  ASSUME NEW s \in Seq(Byte), NEW m, m = DataDecode(s), m # Bad,
         Len(s) <= U32Max
  PROVE  m.type = "DATA" /\ Encode(m) = s
<1>1. PICK q1 \in Nat, q2 \in Nat, q3 \in Nat :
        /\ q1 = 1 /\ q2 = q1 + W32 /\ q3 = q2 + W32
        /\ q1 = 1 /\ q2 = 1 + W32 /\ q3 = 1 + 2 * W32
  BY BaseFacts, SizeFacts
<1>2. /\ Len(s) >= q3 /\ Has(s, "DATA") /\ Len(s) = q3 + GetU32(s, q2)
  BY ONLY <1>1, m = DataDecode(s), m # Bad DEF DataDecode
<1>3. PICK n \in Nat, z \in Nat :
        /\ n = GetU32(s, q2) /\ z = q3 + n /\ z = Len(s) /\ z <= Len(s)
        /\ n <= U32Max - (1 + 2 * W32)
  <2>1. q3 <= Len(s) /\ q3 = q2 + W32
    BY <1>1, <1>2
  <2>2. GetU32(s, q2) \in Nat
    BY ONLY <2>1, s \in Seq(Byte), q2 \in Nat, q3 \in Nat, WriteU32
  <2>3. PICK n \in Nat : n = GetU32(s, q2)
    BY <2>2
  <2>4. U32Max \in Nat /\ W32 \in Nat
    BY SizeFacts, BaseFacts
  <2> QED BY ONLY <1>1, <1>2, <2>3, <2>4, Len(s) <= U32Max, q3 \in Nat
<1>4. PICK t, x :
        /\ t = GetU32(s, q1) /\ x = Slice(s, q3, n)
        /\ m = [type |-> "DATA", to |-> t, data |-> x]
  BY ONLY <1>1, <1>2, <1>3, m = DataDecode(s) DEF DataDecode
<1>5. /\ <<Code.DATA>> = Part(s, 0, q1)
      /\ PutU32(t) = Part(s, q1, q2)
      /\ PutU32(n) = Part(s, q2, q3)
      /\ x = Part(s, q3, z)
  <2>1. <<Code.DATA>> = Part(s, 0, q1)
    <3>1. Len(s) > 0
      BY <1>1, <1>2, <1>3, BaseFacts
    <3> QED BY <1>1, <1>2, <3>1, WriteByte DEF Has
  <2>2. PutU32(t) = Part(s, q1, q2)
    <3>1. q2 <= Len(s) /\ q2 = q1 + W32
      BY <1>1, <1>3, BaseFacts, SizeFacts
    <3> QED BY ONLY <1>4, <3>1, s \in Seq(Byte), q1 \in Nat, q2 \in Nat, WriteU32
  <2>3. PutU32(n) = Part(s, q2, q3)
    <3>1. q3 <= Len(s) /\ q3 = q2 + W32 /\ n = GetU32(s, q2)
      BY <1>1, <1>3, BaseFacts, SizeFacts
    <3> QED BY ONLY <3>1, s \in Seq(Byte), q2 \in Nat, q3 \in Nat, WriteU32
  <2>4. x = Part(s, q3, z)
    BY ONLY <1>3, <1>4, s \in Seq(Byte), q3 \in Nat, n \in Nat, z \in Nat, SliceIsPart
  <2> QED BY <2>1, <2>2, <2>3, <2>4
<1>6. Part(s, 0, q1) \o Part(s, q1, q2) \o Part(s, q2, q3) \o Part(s, q3, z) = s
  <2>1. q1 <= q2 /\ q2 <= q3 /\ q3 <= z
    BY <1>1, <1>3, BaseFacts, SizeFacts
  <2>2. z = Len(s)
    BY <1>3
  <2>3. Cut4(s, q1, q2, q3, z)
    BY ONLY <2>1, <2>2, s \in Seq(Byte), q1 \in Nat, q2 \in Nat, q3 \in Nat, z \in Nat,
            Rejoin4, Zenon
  <2> QED BY ONLY <2>3 DEF Cut4
<1>7. Encode(m) = <<Code.DATA>> \o PutU32(t) \o PutU32(n) \o x
  <2>1. Len(x) = n
    BY ONLY <1>3, <1>4, s \in Seq(Byte), q3 \in Nat, n \in Nat, z \in Nat, SliceIsPart
  <2>2. ~(Len(x) > U32Max - (1 + 2 * W32))
    BY <1>3, <2>1, SizeFacts, BaseFacts
  <2> QED BY ONLY <1>4, <2>1, <2>2 DEF Encode, DataEncode, WordTypes
<1>8. <<Code.DATA>> \o PutU32(t) \o PutU32(n) \o x = s
  BY ONLY <1>5, <1>6
<1>9. m.type = "DATA"
  BY ONLY <1>4
<1> QED BY ONLY <1>7, <1>8, <1>9

LEMMA AuthOkBack ==
  ASSUME NEW s \in Seq(Byte), NEW m, m = AuthOkDecode(s), m # Bad
  PROVE  m.type = "AUTH_OK" /\ Encode(m) = s
<1>1. PICK q1 \in Nat, q2 \in Nat :
        /\ q1 = 1 /\ q2 = q1 + W16
        /\ q1 = 1 /\ q2 = 1 + W16
  BY BaseFacts, SizeFacts
<1>2. /\ Len(s) >= q2 /\ Has(s, "AUTH_OK") /\ GetU16(s, q1) <= ClaimsMax
      /\ Len(s) = q2 + GetU16(s, q1)
  BY ONLY <1>1, m = AuthOkDecode(s), m # Bad DEF AuthOkDecode
<1>3. PICK n \in Nat, z \in Nat :
        /\ n = GetU16(s, q1) /\ z = q2 + n /\ z = Len(s) /\ z <= Len(s)
        /\ n <= ClaimsMax
  <2>1. q2 <= Len(s) /\ q2 = q1 + W16
    BY <1>1, <1>2
  <2>2. GetU16(s, q1) \in Nat
    BY ONLY <2>1, s \in Seq(Byte), q1 \in Nat, q2 \in Nat, WriteU16
  <2>3. PICK n \in Nat : n = GetU16(s, q1)
    BY <2>2
  <2>4. ClaimsMax \in Nat
    BY SizeFacts
  <2> QED BY ONLY <1>1, <1>2, <2>3, <2>4, q2 \in Nat
<1>4. PICK x :
        /\ x = Slice(s, q2, n)
        /\ m = [type |-> "AUTH_OK", claims |-> x]
  BY ONLY <1>1, <1>2, <1>3, m = AuthOkDecode(s) DEF AuthOkDecode
<1>5. /\ <<Code.AUTH_OK>> = Part(s, 0, q1)
      /\ PutU16(n) = Part(s, q1, q2)
      /\ x = Part(s, q2, z)
  <2>1. <<Code.AUTH_OK>> = Part(s, 0, q1)
    <3>1. Len(s) > 0
      BY <1>1, <1>2, <1>3, BaseFacts
    <3> QED BY <1>1, <1>2, <3>1, WriteByte DEF Has
  <2>2. PutU16(n) = Part(s, q1, q2)
    <3>1. q2 <= Len(s) /\ q2 = q1 + W16 /\ n = GetU16(s, q1)
      BY <1>1, <1>3, BaseFacts, SizeFacts
    <3> QED BY ONLY <3>1, s \in Seq(Byte), q1 \in Nat, q2 \in Nat, WriteU16
  <2>3. x = Part(s, q2, z)
    BY ONLY <1>3, <1>4, s \in Seq(Byte), q2 \in Nat, n \in Nat, z \in Nat, SliceIsPart
  <2> QED BY <2>1, <2>2, <2>3
<1>6. Part(s, 0, q1) \o Part(s, q1, q2) \o Part(s, q2, z) = s
  <2>1. q1 <= q2 /\ q2 <= z
    BY <1>1, <1>3, BaseFacts, SizeFacts
  <2>2. z = Len(s)
    BY <1>3
  <2> QED BY ONLY <2>1, <2>2, s \in Seq(Byte), q1 \in Nat, q2 \in Nat, z \in Nat, Rejoin3, ZenonT(30)
<1>7. Encode(m) = <<Code.AUTH_OK>> \o PutU16(n) \o x
  <2>1. Len(x) = n
    BY ONLY <1>3, <1>4, s \in Seq(Byte), q2 \in Nat, n \in Nat, z \in Nat, SliceIsPart
  <2>2. ~(Len(x) > ClaimsMax)
    BY <1>3, <2>1, SizeFacts, BaseFacts
  <2> QED BY ONLY <1>4, <2>1, <2>2 DEF Encode, AuthOkEncode, WordTypes
<1>8. <<Code.AUTH_OK>> \o PutU16(n) \o x = s
  BY ONLY <1>5, <1>6
<1>9. m.type = "AUTH_OK"
  BY ONLY <1>4
<1> QED BY ONLY <1>7, <1>8, <1>9

LEMMA AuthDeviceBack ==
  ASSUME NEW s \in Seq(Byte), NEW m, m = AuthDeviceDecode(s), m # Bad
  PROVE  m.type = "AUTH_DEVICE" /\ Encode(m) = s
<1>1. PICK q1 \in Nat, q2 \in Nat, q3 \in Nat :
        /\ q1 = 1 /\ q2 = q1 + KeyLen /\ q3 = q2 + SigLen
        /\ q1 = 1 /\ q2 = 1 + KeyLen /\ q3 = 1 + KeyLen + SigLen
  BY BaseFacts, SizeFacts
<1>2. /\ Len(s) >= q3 + 2 /\ Has(s, "AUTH_DEVICE")
      /\ At(s, q3) <= UserMax /\ (q3 + 1 + At(s, q3)) + 1 <= Len(s)
      /\ At(s, q3 + 1 + At(s, q3)) <= DeviceMax
      /\ (q3 + 1 + At(s, q3)) + 1 + At(s, q3 + 1 + At(s, q3)) = Len(s)
  BY ONLY <1>1, m = AuthDeviceDecode(s), m # Bad DEF AuthDeviceDecode
<1>3. PICK n \in Nat, q4 \in Nat, k \in Nat, z \in Nat :
        /\ n = At(s, q3) /\ n <= UserMax /\ q4 = q3 + 1 + n /\ q4 <= Len(s)
        /\ k = At(s, q4) /\ k <= DeviceMax /\ z = q4 + 1 + k /\ z = Len(s) /\ z <= Len(s)
        /\ q3 + 1 <= Len(s)
  <2>1. At(s, q3) \in Byte
    <3>1. q3 + 1 \in 1 .. Len(s)
      BY <1>2
    <3> QED BY <3>1 DEF At
  <2>2. PICK n \in Nat, q4 \in Nat : n = At(s, q3) /\ q4 = q3 + 1 + n
    BY <2>1, BaseFacts DEF Byte
  <2>3. At(s, q4) \in Byte
    <3>1. q4 + 1 \in 1 .. Len(s)
      BY <1>2, <2>2
    <3> QED BY <3>1 DEF At
  <2>4. PICK k \in Nat : k = At(s, q4)
    BY <2>3, BaseFacts DEF Byte
  <2>5. n <= UserMax /\ q4 + 1 <= Len(s) /\ k <= DeviceMax /\ q4 + 1 + k = Len(s)
    BY ONLY <1>2, <2>2, <2>4
  <2>6. PICK z \in Nat : z = q4 + 1 + k
    OBVIOUS
  <2>7. /\ n = At(s, q3) /\ n <= UserMax /\ q4 = q3 + 1 + n /\ q4 <= Len(s)
        /\ k = At(s, q4) /\ k <= DeviceMax /\ z = q4 + 1 + k /\ z = Len(s) /\ z <= Len(s)
        /\ q3 + 1 <= Len(s)
    <3>1. z = Len(s)
      BY ONLY <2>5, <2>6
    <3>2. q4 <= Len(s) /\ q3 + 1 <= Len(s) /\ z <= Len(s)
      BY ONLY <2>2, <2>6, <3>1, q3 \in Nat, n \in Nat, q4 \in Nat, k \in Nat, z \in Nat, SMTT(30)
    <3> QED BY ONLY <2>2, <2>4, <2>5, <2>6, <3>1, <3>2
  <2> QED BY ONLY <2>7, n \in Nat, q4 \in Nat, k \in Nat, z \in Nat
<1>4. PICK p, g, u, d :
        /\ p = Slice(s, q1, KeyLen) /\ g = Slice(s, q2, SigLen) /\ u = Slice(s, q3 + 1, n)
        /\ d = Slice(s, q4 + 1, k)
        /\ m = [type |-> "AUTH_DEVICE", pk |-> p, sig |-> g, user |-> u, device |-> d]
  BY ONLY <1>1, <1>2, <1>3, m = AuthDeviceDecode(s) DEF AuthDeviceDecode
<1>5. /\ <<Code.AUTH_DEVICE>> = Part(s, 0, q1)
      /\ p = Part(s, q1, q2)
      /\ g = Part(s, q2, q3)
      /\ Str8(u) = Part(s, q3, q4)
      /\ Str8(d) = Part(s, q4, z)
  <2>1. <<Code.AUTH_DEVICE>> = Part(s, 0, q1)
    <3>1. Len(s) > 0
      BY <1>1, <1>2, <1>3, BaseFacts
    <3> QED BY <1>1, <1>2, <3>1, WriteByte DEF Has
  <2>2. p = Part(s, q1, q2)
    <3>1. q2 <= Len(s) /\ q2 = q1 + KeyLen /\ KeyLen \in Nat
      BY <1>1, <1>3, BaseFacts, SizeFacts
    <3> QED BY ONLY <1>4, <3>1, s \in Seq(Byte), q1 \in Nat, q2 \in Nat, SliceIsPart
  <2>3. g = Part(s, q2, q3)
    <3>1. q3 <= Len(s) /\ q3 = q2 + SigLen /\ SigLen \in Nat
      BY <1>1, <1>3, BaseFacts, SizeFacts
    <3> QED BY ONLY <1>4, <3>1, s \in Seq(Byte), q2 \in Nat, q3 \in Nat, SliceIsPart
  <2>4. Str8(u) = Part(s, q3, q4)
    <3>1. q4 <= Len(s) /\ q4 = q3 + 1 + n /\ n = At(s, q3)
      BY <1>3
    <3> QED BY ONLY <1>4, <3>1, s \in Seq(Byte), q3 \in Nat, q4 \in Nat, n \in Nat, WriteStr8
  <2>5. Str8(d) = Part(s, q4, z)
    <3>1. z <= Len(s) /\ z = q4 + 1 + k /\ k = At(s, q4)
      BY <1>3
    <3> QED BY ONLY <1>4, <3>1, s \in Seq(Byte), q4 \in Nat, z \in Nat, k \in Nat, WriteStr8
  <2> QED BY <2>1, <2>2, <2>3, <2>4, <2>5
<1>6. Part(s, 0, q1) \o Part(s, q1, q2) \o Part(s, q2, q3) \o Part(s, q3, q4)
         \o Part(s, q4, z) = s
  <2>1. q1 <= q2 /\ q2 <= q3 /\ q3 <= q4 /\ q4 <= z
    BY <1>1, <1>3, BaseFacts, SizeFacts, SMTT(30)
  <2>2. z = Len(s)
    BY <1>3
  <2>3. Cut5(s, q1, q2, q3, q4, z)
    BY ONLY <2>1, <2>2, s \in Seq(Byte), q1 \in Nat, q2 \in Nat, q3 \in Nat, q4 \in Nat,
            z \in Nat,
             Rejoin5, Zenon
  <2> QED BY ONLY <2>3 DEF Cut5
<1>7. Encode(m) = <<Code.AUTH_DEVICE>> \o p \o g \o Str8(u) \o Str8(d)
  <2>1. Len(u) = n
    <3>1. q4 <= Len(s) /\ q4 = q3 + 1 + n /\ n = At(s, q3)
      BY <1>3
    <3> QED BY ONLY <1>4, <3>1, s \in Seq(Byte), q3 \in Nat, n \in Nat, q4 \in Nat, WriteStr8
  <2>2. Len(d) = k
    <3>1. z <= Len(s) /\ z = q4 + 1 + k /\ k = At(s, q4)
      BY <1>3
    <3> QED BY ONLY <1>4, <3>1, s \in Seq(Byte), q4 \in Nat, k \in Nat, z \in Nat, WriteStr8
  <2>3. ~(Len(u) > UserMax \/ Len(d) > DeviceMax)
    <3>1. n <= UserMax /\ k <= DeviceMax
      BY <1>3
    <3> QED BY ONLY <2>1, <2>2, <3>1, n \in Nat, k \in Nat, SizeFacts
  <2> QED BY ONLY <1>4, <2>3 DEF Encode, AuthDeviceEncode, WordTypes
<1>8. <<Code.AUTH_DEVICE>> \o p \o g \o Str8(u) \o Str8(d) = s
  BY ONLY <1>5, <1>6
<1>9. m.type = "AUTH_DEVICE"
  BY ONLY <1>4
<1> QED BY ONLY <1>7, <1>8, <1>9

LEMMA SeedBack ==
  ASSUME NEW s \in Seq(Byte), SeedDecode(s) # Bad
  PROVE  SeedEncode(SeedDecode(s).seed) = s
<1>1. Len(s) = Len(SeedMagic) + KeyLen /\ Slice(s, 0, Len(SeedMagic)) = SeedMagic
  BY DEF SeedDecode
<1>2. SeedDecode(s).seed = Slice(s, Len(SeedMagic), KeyLen)
  BY ONLY <1>1 DEF SeedDecode
<1>3. Len(SeedMagic) = 2
  BY DEF SeedMagic
<1>4. PICK z \in Nat : z = 2 + KeyLen /\ z = Len(s) /\ z <= Len(s)
  BY <1>1, <1>3, SizeFacts
<1>5. SeedMagic = Part(s, 0, 2)
  <2>1. 2 \in Nat /\ 0 \in Nat /\ 2 = 0 + 2 /\ 2 <= Len(s)
    BY <1>4, SizeFacts
  <2>2. Slice(s, 0, 2) = Part(s, 0, 2)
    BY ONLY <2>1, s \in Seq(Byte), SliceIsPart
  <2> QED BY <1>1, <1>3, <2>2
<1>6. Slice(s, 2, KeyLen) = Part(s, 2, z)
  <2>1. 2 \in Nat /\ KeyLen \in Nat
    BY SizeFacts
  <2> QED BY ONLY <1>4, <2>1, s \in Seq(Byte), SliceIsPart
<1>7. Part(s, 0, 2) \o Part(s, 2, z) = s
  <2>1. 2 \in Nat /\ 2 <= z /\ z = Len(s)
    BY <1>4, SizeFacts
  <2> QED BY ONLY <2>1, s \in Seq(Byte), z \in Nat, Rejoin2
<1> QED BY <1>2, <1>3, <1>5, <1>6, <1>7 DEF SeedEncode

LEMMA HelloBack ==
  ASSUME NEW s \in Seq(Byte), NEW h, h = HelloDecode(s), h # Bad
  PROVE  HelloEncode(h) = s
<1>1. PICK a \in Nat, b \in Nat, c \in Nat, d \in Nat, e \in Nat, f \in Nat, g \in Nat,
         z \in Nat :
        /\ a = W16 /\ b = a + W16 /\ c = b + W16 /\ d = c + W16 /\ e = d + W32
        /\ f = e + KeyLen /\ g = f + KeyLen /\ z = g + SigLen
        /\ b = 2 * W16 /\ c = 3 * W16 /\ d = 4 * W16 /\ e = 4 * W16 + W32
        /\ f = 4 * W16 + W32 + KeyLen /\ g = 4 * W16 + W32 + 2 * KeyLen /\ z = HelloLen
        /\ 0 + W16 = a
  <2>1. W16 \in Nat /\ W32 \in Nat /\ KeyLen \in Nat /\ SigLen \in Nat
    BY BaseFacts, SizeFacts
  <2> QED BY <2>1 DEF HelloLen
<1>2. /\ Len(s) = z /\ GetU16(s, 0) = Magic
      /\ h = [type |-> "HELLO", version |-> GetU16(s, a), suite |-> GetU16(s, b),
              role |-> GetU16(s, c), flags |-> GetU32(s, d), eph |-> Slice(s, e, KeyLen),
              id |-> Slice(s, f, KeyLen), sig |-> Slice(s, g, SigLen)]
  BY ONLY <1>1, h = HelloDecode(s), h # Bad DEF HelloDecode
<1>3. /\ a <= b /\ b <= c /\ c <= d /\ d <= e /\ e <= f /\ f <= g /\ g <= z
      /\ a <= Len(s) /\ b <= Len(s) /\ c <= Len(s) /\ d <= Len(s) /\ e <= Len(s)
      /\ f <= Len(s) /\ g <= Len(s) /\ z <= Len(s) /\ 0 \in Nat
  <2>1. W16 \in Nat /\ W32 \in Nat /\ KeyLen \in Nat /\ SigLen \in Nat
    BY BaseFacts, SizeFacts
  <2>2. /\ a <= b /\ b <= c /\ c <= d /\ d <= e /\ e <= f /\ f <= g /\ g <= z
    BY <1>1, <2>1
  <2> QED BY <1>2, <2>2
<1>4. /\ PutU16(Magic) = Part(s, 0, a)
      /\ PutU16(GetU16(s, a)) = Part(s, a, b)
      /\ PutU16(GetU16(s, b)) = Part(s, b, c)
      /\ PutU16(GetU16(s, c)) = Part(s, c, d)
      /\ PutU32(GetU32(s, d)) = Part(s, d, e)
  <2>1. PutU16(GetU16(s, 0)) = Part(s, 0, a)
    BY <1>1, <1>3, WriteU16
  <2>2. PutU16(GetU16(s, a)) = Part(s, a, b)
    BY <1>1, <1>3, WriteU16
  <2>3. PutU16(GetU16(s, b)) = Part(s, b, c)
    BY <1>1, <1>3, WriteU16
  <2>4. PutU16(GetU16(s, c)) = Part(s, c, d)
    BY <1>1, <1>3, WriteU16
  <2>5. PutU32(GetU32(s, d)) = Part(s, d, e)
    BY <1>1, <1>3, WriteU32
  <2> QED BY <1>2, <2>1, <2>2, <2>3, <2>4, <2>5
<1>5. /\ Slice(s, e, KeyLen) = Part(s, e, f) /\ Slice(s, f, KeyLen) = Part(s, f, g)
      /\ Slice(s, g, SigLen) = Part(s, g, z)
  <2>1. KeyLen \in Nat /\ SigLen \in Nat
    BY SizeFacts
  <2>2. Slice(s, e, KeyLen) = Part(s, e, f)
    <3>1. f = e + KeyLen /\ f <= Len(s)
      BY <1>1, <1>3
    <3> QED BY ONLY <2>1, <3>1, s \in Seq(Byte), e \in Nat, f \in Nat, SliceIsPart
  <2>3. Slice(s, f, KeyLen) = Part(s, f, g)
    <3>1. g = f + KeyLen /\ g <= Len(s)
      BY <1>1, <1>3
    <3> QED BY ONLY <2>1, <3>1, s \in Seq(Byte), f \in Nat, g \in Nat, SliceIsPart
  <2>4. Slice(s, g, SigLen) = Part(s, g, z)
    <3>1. z = g + SigLen /\ z <= Len(s)
      BY <1>1, <1>3
    <3> QED BY ONLY <2>1, <3>1, s \in Seq(Byte), g \in Nat, z \in Nat, SliceIsPart
  <2> QED BY <2>2, <2>3, <2>4
<1>6. HelloEncode(h) = Part(s, 0, a) \o Part(s, a, b) \o Part(s, b, c) \o Part(s, c, d)
                         \o Part(s, d, e) \o Part(s, e, f) \o Part(s, f, g) \o Part(s, g, z)
  <2>1. HelloEncode(h) = PutU16(Magic) \o PutU16(GetU16(s, a)) \o PutU16(GetU16(s, b))
                           \o PutU16(GetU16(s, c)) \o PutU32(GetU32(s, d))
                           \o Slice(s, e, KeyLen) \o Slice(s, f, KeyLen) \o Slice(s, g, SigLen)
    BY ONLY <1>2 DEF HelloEncode
  <2> QED BY ONLY <1>4, <1>5, <2>1
<1>7. /\ Part(s, 0, a) \o Part(s, a, b) = Part(s, 0, b)
      /\ Part(s, 0, b) \o Part(s, b, c) = Part(s, 0, c)
      /\ Part(s, 0, c) \o Part(s, c, d) = Part(s, 0, d)
      /\ Part(s, 0, d) \o Part(s, d, e) = Part(s, 0, e)
  BY ONLY <1>3, s \in Seq(Byte), a \in Nat, b \in Nat, c \in Nat, d \in Nat, e \in Nat, Grow
<1>8. /\ Part(s, 0, e) \o Part(s, e, f) = Part(s, 0, f)
      /\ Part(s, 0, f) \o Part(s, f, g) = Part(s, 0, g)
      /\ Part(s, 0, g) \o Part(s, g, z) = Part(s, 0, z)
  BY ONLY <1>3, s \in Seq(Byte), e \in Nat, f \in Nat, g \in Nat, z \in Nat, Grow
<1>9. Part(s, 0, z) = s
  BY <1>2, Whole
<1> QED BY ONLY <1>6, <1>7, <1>8, <1>9

\* Every byte string a decoder accepts, up to the longest PDU a frame can carry, is what the
\* encoder writes of the record it was decoded to.
THEOREM DecodersCanonical ==
  ASSUME CodeSizes, NEW s \in Seq(Byte), Len(s) <= U32Max,
         Decode(s) # Bad, Decode(s).type # "AUTH_FAIL"
  PROVE  Encode(Decode(s)) = s
<1>1. s # <<>>
  BY DEF Decode
<1>2. \/ Has(s, "OPEN") \/ Has(s, "CONFIRM") \/ Has(s, "OPEN_FAIL") \/ Has(s, "DATA")
      \/ Has(s, "WINDOW") \/ Has(s, "DISCONNECT") \/ Has(s, "AUTH_DEVICE")
      \/ Has(s, "AUTH_OK") \/ Has(s, "AUTH_FAIL")
      \/ Has(s, "EOF") \/ Has(s, "CLOSE") \/ Has(s, "PING") \/ Has(s, "PONG")
  BY DEF Decode
<1>3. CASE Has(s, "OPEN")
  BY <1>1, <1>3, DecodeChosen, OpenBack
<1>4. CASE Has(s, "CONFIRM")
  BY <1>1, <1>4, DecodeChosen, ConfirmBack
<1>5. CASE Has(s, "OPEN_FAIL")
  BY <1>1, <1>5, DecodeChosen, OpenFailBack
<1>6. CASE Has(s, "DATA")
  BY <1>1, <1>6, DecodeChosen, DataBack
<1>7. CASE Has(s, "WINDOW")
  BY <1>1, <1>7, DecodeChosen, WindowBack
<1>8. CASE Has(s, "DISCONNECT")
  BY <1>1, <1>8, DecodeChosen, DisconnectBack
<1>9. CASE Has(s, "AUTH_DEVICE")
  BY <1>1, <1>9, DecodeChosen, AuthDeviceBack
<1>10. CASE Has(s, "AUTH_OK")
  BY <1>1, <1>10, DecodeChosen, AuthOkBack
<1>11. CASE Has(s, "AUTH_FAIL")
  <2>1. Decode(s) = AuthFailDecode(s)
    BY <1>1, <1>11, DecodeChosen
  <2>2. AuthFailDecode(s) # Bad => AuthFailDecode(s).type = "AUTH_FAIL"
    BY ONLY TRUE DEF AuthFailDecode
  <2> QED BY <2>1, <2>2
<1>12. ASSUME NEW t \in WordTypes, Has(s, t) PROVE Encode(Decode(s)) = s
  BY <1>1, <1>12, DecodeChosen, WordBack
<1>13. "EOF" \in WordTypes /\ "CLOSE" \in WordTypes /\ "PING" \in WordTypes
          /\ "PONG" \in WordTypes
  BY DEF WordTypes
<1> QED BY <1>2, <1>3, <1>4, <1>5, <1>6, <1>7, <1>8, <1>9, <1>10, <1>11, <1>12, <1>13

\* The decoders accept nothing but what the encoders write: no trailing bytes, no second
\* spelling.  MaxLen bounds the input by the largest frame length: a longer CHANNEL_DATA
\* would be decoded, and channel_data_encode refuses to write one.
THEOREM CodecCanonical == ASSUME CodeSizes, MaxLen <= U32Max PROVE Spec => []Canonical
<1>1. ASSUME CodecInv PROVE Canonical
  <2>1. buf \in Seq(Byte)
    BY <1>1 DEF CodecInv
  <2>2. ASSUME Decode(buf) # Bad, Decode(buf).type # "AUTH_FAIL" PROVE Encode(Decode(buf)) = buf
    <3>1. CASE pdu = Bad
      <4>1. Len(buf) <= U32Max
        <5>1. Len(buf) \in Nat /\ Len(buf) <= MaxLen
          BY <1>1, <3>1 DEF CodecInv
        <5> QED BY <5>1, CodecAssumption, SizeFacts
      <4> QED BY <2>1, <2>2, <4>1, DecodersCanonical
    <3>2. CASE pdu # Bad
      <4>1. pdu \in Pdus /\ buf = Encode(pdu)
        BY <1>1, <3>2 DEF CodecInv
      <4>2. buf # NoBytes
        BY <2>2 DEF Decode, NoBytes
      <4>3. Decode(buf) = pdu
        BY <4>1, <4>2, AllSound DEF Sound
      <4> QED BY <4>1, <4>3
    <3> QED BY <3>1, <3>2
  <2>3. HelloDecode(buf) # Bad => HelloEncode(HelloDecode(buf)) = buf
    BY <2>1, HelloBack
  <2>4. SeedDecode(buf) # Bad => SeedEncode(SeedDecode(buf).seed) = buf
    BY <2>1, SeedBack
  <2> QED BY <2>2, <2>3, <2>4 DEF Canonical
<1> QED BY <1>1, CodecInvariant, PTL

----------------------------------------------------------------------------
(* Frames *)

\* A legal length is in front of s exactly if it is what GetU32 reads there.
LEMMA LengthInFront ==
  ASSUME NEW s \in Seq(Byte), NEW n \in 0 .. U32Max
  PROVE  IsPrefix(PutU32(n), s) <=> W32 <= Len(s) /\ GetU32(s, 0) = n
<1>1. PICK p : p = PutU32(n)
  OBVIOUS
<1>2. p \in Seq(Byte) /\ Len(p) = W32 /\ W32 \in Nat /\ SubSeq(p, 1, Len(p)) = p
  <2>1. n \in Nat
    BY SizeFacts
  <2>2. p \in Seq(Byte) /\ Len(p) = W32
    BY <1>1, <2>1, PutU32Type
  <2> QED BY <2>2, BaseFacts
<1>3. IsPrefix(p, s) <=> W32 <= Len(s) /\ p = SubSeq(s, 1, W32)
  BY ONLY <1>2 DEF IsPrefix
<1>4. ASSUME W32 <= Len(s), p = SubSeq(s, 1, W32) PROVE GetU32(s, 0) = n
  <2>1. \A k \in 1 .. W32 : s[k] = p[k]
    BY ONLY <1>2, <1>4, s \in Seq(Byte)
  <2> QED BY <1>1, <2>1, GetPutU32
<1>5. ASSUME W32 <= Len(s), GetU32(s, 0) = n PROVE p = SubSeq(s, 1, W32)
  <2>1. 0 \in Nat /\ W32 = 0 + W32 /\ W32 \in Nat /\ 0 + 1 = 1
    BY BaseFacts
  <2>2. PutU32(GetU32(s, 0)) = Part(s, 0, W32)
    BY ONLY <1>5, <2>1, s \in Seq(Byte), WriteU32
  <2> QED BY ONLY <1>1, <1>5, <2>1, <2>2 DEF Part
<1> QED BY ONLY <1>1, <1>3, <1>4, <1>5

\* A whole frame of length L in front of s is what the encoder writes of its body.
LEMMA FrameInFront ==
  ASSUME NEW s \in Seq(Byte), W32 <= Len(s), NEW L \in 1 .. MaxBody, L = GetU32(s, 0),
         W32 + L <= Len(s)
  PROVE  FrameEncode(FrameBody(s), MaxBody) = Slice(s, 0, FrameConsumed(s))
<1>1. L \in Nat /\ L > 0 /\ L <= MaxBody /\ MaxBody \in Nat /\ W32 \in Nat
  BY CodecAssumption, BaseFacts, SizeFacts
<1>2. PICK z \in Nat : z = W32 + L /\ z <= Len(s) /\ W32 <= z
  BY <1>1
<1>3. PICK b : b = Slice(s, W32, L)
  OBVIOUS
<1>4. b = Part(s, W32, z) /\ Len(b) = L
  BY ONLY <1>1, <1>2, <1>3, s \in Seq(Byte), SliceIsPart
<1>5. PutU32(L) = Part(s, 0, W32)
  <2>1. 0 \in Nat /\ W32 = 0 + W32
    BY <1>1
  <2> QED BY ONLY <1>1, <2>1, s \in Seq(Byte), W32 <= Len(s), L = GetU32(s, 0), WriteU32
<1>6. FrameEncode(b, MaxBody) = PutU32(L) \o b
  <2>1. b # <<>> /\ ~(Len(b) > MaxBody)
    BY ONLY <1>1, <1>4
  <2> QED BY ONLY <1>4, <2>1 DEF FrameEncode
<1>7. Part(s, 0, W32) \o Part(s, W32, z) = Part(s, 0, z)
  BY ONLY <1>1, <1>2, s \in Seq(Byte), Grow
<1>8. FrameBody(s) = b /\ FrameConsumed(s) = z
  BY ONLY <1>2, <1>3, L = GetU32(s, 0) DEF FrameBody, FrameConsumed
<1>9. Slice(s, 0, z) = Part(s, 0, z)
  <2>1. 0 + z = z
    OBVIOUS
  <2> QED BY ONLY <2>1 DEF Slice, Part
<1> QED BY ONLY <1>4, <1>5, <1>6, <1>7, <1>8, <1>9

LEMMA FrameVerdicts == ASSUME buf \in Seq(Byte) PROVE FrameExact
<1> DEFINE verdict == FrameParse(buf, MaxBody)
           whole == {n \in 1 .. MaxBody : Len(buf) >= W32 + n /\ IsPrefix(PutU32(n), buf)}
           begun == {n \in 1 .. MaxBody :
                       Len(buf) < W32 + n /\ (IsPrefix(PutU32(n), buf) \/ Len(buf) < W32)}
<1>1. PICK N \in Nat : N = Len(buf)
  OBVIOUS
<1>2. MaxBody \in Nat /\ MaxBody > 0 /\ MaxBody <= U32Max /\ W32 \in Nat /\ U32Max \in Nat
  BY CodecAssumption, BaseFacts, SizeFacts
<1>3. /\ verdict = "OK" <=> whole # {}
      /\ verdict = "FULL" <=> begun # {}
      /\ verdict = "OK" => /\ FrameEncode(FrameBody(buf), MaxBody)
                                = Slice(buf, 0, FrameConsumed(buf))
                           /\ {FrameConsumed(buf)} = {W32 + n : n \in whole}
  <2>1. CASE N < W32
    <3>1. verdict = "FULL"
      BY ONLY <1>1, <1>2, <2>1 DEF FrameParse
    <3>2. whole = {}
      BY ONLY <1>1, <1>2, <2>1
    <3>3. 1 \in begun
      BY ONLY <1>1, <1>2, <2>1
    <3> QED BY ONLY <3>1, <3>2, <3>3
  <2>2. ASSUME N >= W32 PROVE \E L \in Nat : L = GetU32(buf, 0)
    <3>1. 0 \in Nat /\ W32 = 0 + W32 /\ W32 <= Len(buf)
      BY <1>1, <1>2, <2>2
    <3>2. GetU32(buf, 0) \in Nat
      BY ONLY <1>2, <3>1, buf \in Seq(Byte), WriteU32
    <3> QED BY <3>2
  <2>3. ASSUME N >= W32, NEW L \in Nat, L = GetU32(buf, 0), NEW n \in 1 .. MaxBody
        PROVE  IsPrefix(PutU32(n), buf) <=> n = L
    <3>1. n \in 0 .. U32Max
      BY <1>2
    <3>2. W32 <= Len(buf)
      BY <1>1, <1>2, <2>3
    <3> QED BY ONLY <2>3, <3>1, <3>2, buf \in Seq(Byte), LengthInFront
  <2>4. ASSUME N >= W32, NEW L \in Nat, L = GetU32(buf, 0), L = 0 \/ L > MaxBody
        PROVE  verdict = "PROTOCOL" /\ whole = {} /\ begun = {}
    <3>1. verdict = "PROTOCOL"
      BY ONLY <1>1, <1>2, <2>4 DEF FrameParse
    <3>2. \A n \in 1 .. MaxBody : ~IsPrefix(PutU32(n), buf)
      BY ONLY <1>2, <2>3, <2>4
    <3> QED BY ONLY <1>1, <1>2, <2>4, <3>1, <3>2
  <2>5. ASSUME N >= W32, NEW L \in Nat, L = GetU32(buf, 0), L \in 1 .. MaxBody, N < W32 + L
        PROVE  verdict = "FULL" /\ whole = {} /\ L \in begun
    <3>1. verdict = "FULL"
      BY ONLY <1>1, <1>2, <2>5 DEF FrameParse
    <3>2. \A n \in 1 .. MaxBody : IsPrefix(PutU32(n), buf) <=> n = L
      BY ONLY <2>3, <2>5
    <3> QED BY ONLY <1>1, <1>2, <2>5, <3>1, <3>2
  <2>6. ASSUME N >= W32, NEW L \in Nat, L = GetU32(buf, 0), L \in 1 .. MaxBody, N >= W32 + L
        PROVE  /\ verdict = "OK" /\ whole = {L} /\ begun = {}
               /\ FrameEncode(FrameBody(buf), MaxBody) = Slice(buf, 0, FrameConsumed(buf))
               /\ FrameConsumed(buf) = W32 + L
    <3>1. verdict = "OK"
      BY ONLY <1>1, <1>2, <2>6 DEF FrameParse
    <3>2. \A n \in 1 .. MaxBody : IsPrefix(PutU32(n), buf) <=> n = L
      BY ONLY <2>3, <2>6
    <3>3. W32 <= Len(buf) /\ W32 + L <= Len(buf)
      BY ONLY <1>1, <1>2, <2>6
    <3>4. FrameEncode(FrameBody(buf), MaxBody) = Slice(buf, 0, FrameConsumed(buf))
      BY ONLY <2>6, <3>3, buf \in Seq(Byte), FrameInFront
    <3>5. whole = {L}
      BY ONLY <1>1, <1>2, <2>6, <3>2
    <3>6. begun = {}
      BY ONLY <1>1, <1>2, <2>6, <3>2
    <3>7. FrameConsumed(buf) = W32 + L
      BY ONLY <2>6 DEF FrameConsumed
    <3> QED BY ONLY <3>1, <3>4, <3>5, <3>6, <3>7
  <2>7. CASE N >= W32
    <3>1. PICK L \in Nat : L = GetU32(buf, 0)
      BY <2>2, <2>7
    <3>2. \/ L = 0 \/ L > MaxBody
          \/ L \in 1 .. MaxBody /\ N < W32 + L
          \/ L \in 1 .. MaxBody /\ N >= W32 + L
      BY ONLY <1>2, L \in Nat, N \in Nat
    <3> HIDE DEF verdict, whole, begun
    <3>3. CASE L = 0 \/ L > MaxBody
      <4>1. verdict = "PROTOCOL" /\ whole = {} /\ begun = {}
        BY ONLY <2>4, <2>7, <3>1, <3>3
      <4> QED BY ONLY <4>1
    <3>4. CASE L \in 1 .. MaxBody /\ N < W32 + L
      <4>1. verdict = "FULL" /\ whole = {} /\ L \in begun
        BY ONLY <2>5, <2>7, <3>1, <3>4
      <4> QED BY ONLY <4>1
    <3>5. CASE L \in 1 .. MaxBody /\ N >= W32 + L
      <4>1. /\ verdict = "OK" /\ whole = {L} /\ begun = {}
            /\ FrameEncode(FrameBody(buf), MaxBody) = Slice(buf, 0, FrameConsumed(buf))
            /\ FrameConsumed(buf) = W32 + L
        BY ONLY <2>6, <2>7, <3>1, <3>5
      <4>2. {FrameConsumed(buf)} = {W32 + n : n \in whole}
        BY ONLY <4>1
      <4> QED BY ONLY <4>1, <4>2
    <3> QED BY <3>2, <3>3, <3>4, <3>5
  <2>8. N < W32 \/ N >= W32
    BY ONLY <1>2, N \in Nat
  <2> QED BY <2>1, <2>7, <2>8
<1> QED BY ONLY <1>3 DEF FrameExact

\* frame_parse_max is right for every input: OK exactly if a legal frame is in front,
\* "need more" exactly if one can still become complete, and an error otherwise.
THEOREM FrameParserExact == ASSUME CodeSizes PROVE Spec => []FrameExact
<1>1. CodecInv => FrameExact
  BY FrameVerdicts DEF CodecInv
<1> QED BY <1>1, CodecInvariant, PTL

----------------------------------------------------------------------------
(* What is signed *)

\* A server's transcript is bytes of a fixed length, begins with the server's domain, and
\* has the three keys of the session at fixed places.
Transcript(t, c, e, i) ==
  /\ t \in Seq(Byte) /\ Len(t) = 1 + 2 * W16 + 3 * KeyLen
  /\ At(t, 0) = 0
  /\ Slice(t, 1 + 2 * W16, KeyLen) = c
  /\ Slice(t, 1 + 2 * W16 + KeyLen, KeyLen) = e
  /\ Slice(t, 1 + 2 * W16 + 2 * KeyLen, KeyLen) = i

LEMMA THelloFacts ==
  ASSUME CodeSizes, NEW c \in Keys, NEW e \in Keys, NEW i \in Keys, NEW t,
         t = THello(c, e, i)
  PROVE  Transcript(t, c, e, i)
<1>1. PICK h, v, x, p : /\ h = <<0>> /\ v = PutU16(Version) /\ x = PutU16(Suite)
                        /\ p = h \o v \o x \o c \o e
  OBVIOUS
<1>2. 0 \in Byte /\ Version \in Nat /\ Suite \in Nat /\ W16 \in Nat /\ KeyLen \in Nat
  BY BaseFacts, SizeFacts DEF Byte, Version, Suite
<1>3. h \in Seq(Byte) /\ Len(h) = 1
  BY <1>1, <1>2
<1>4. v \in Seq(Byte) /\ x \in Seq(Byte) /\ Len(v) = W16 /\ Len(x) = W16
  BY <1>1, <1>2, PutUintType DEF PutU16
<1>5. /\ c \in Seq(Byte) /\ Len(c) = KeyLen /\ e \in Seq(Byte) /\ Len(e) = KeyLen
      /\ i \in Seq(Byte) /\ Len(i) = KeyLen
  BY <1>2 DEF Keys
<1>6. Joined5(Byte, p, h, v, x, c, e)
  BY <1>1, <1>3, <1>4, <1>5, Parts5, ZenonT(30)
<1>7. PICK y \in Nat, z \in Nat, w \in Nat : /\ y = 1 + 2 * W16
                                             /\ z = 1 + 2 * W16 + KeyLen
                                             /\ w = 1 + 2 * W16 + 2 * KeyLen
  BY <1>2
<1>8. /\ p \in Seq(Byte) /\ Len(p) = w
      /\ Holds(p, 0, h) /\ Holds(p, y, c) /\ Holds(p, z, e)
  <2>1. /\ w = Len(h) + Len(v) + Len(x) + Len(c) + Len(e)
        /\ y = Len(h) + Len(v) + Len(x)
        /\ z = Len(h) + Len(v) + Len(x) + Len(c)
    BY ONLY <1>2, <1>3, <1>4, <1>5, <1>7
  <2> QED BY ONLY <1>6, <2>1 DEF Joined5
<1>9. t = p \o i
  BY <1>1 DEF THello, DomServerHello
<1>10. t \in Seq(Byte) /\ Len(t) = Len(p) + Len(i) /\ Holds(t, w, i)
  BY ONLY <1>5, <1>8, <1>9, HoldsLast
<1>11. Holds(t, 0, h) /\ Holds(t, y, c) /\ Holds(t, z, e)
  <2>1. 0 \in Nat
    OBVIOUS
  <2>2. Holds(t, 0, h)
    BY ONLY <1>3, <1>5, <1>8, <1>9, <2>1, HoldsStill
  <2>3. Holds(t, y, c)
    BY ONLY <1>5, <1>8, <1>9, y \in Nat, HoldsStill
  <2>4. Holds(t, z, e)
    BY ONLY <1>5, <1>8, <1>9, z \in Nat, HoldsStill
  <2> QED BY ONLY <2>2, <2>3, <2>4
<1>12. At(t, 0) = 0
  BY <1>1, <1>11, ReadByte
<1>13. Slice(t, y, Len(c)) = c /\ Slice(t, z, Len(e)) = e /\ Slice(t, w, Len(i)) = i
  BY ONLY <1>5, <1>10, <1>11, y \in Nat, z \in Nat, w \in Nat, ReadBytes
<1>14. Len(t) = 1 + 2 * W16 + 3 * KeyLen
  BY ONLY <1>2, <1>5, <1>7, <1>8, <1>10
<1> QED BY ONLY <1>5, <1>7, <1>10, <1>12, <1>13, <1>14 DEF Transcript

\* Transcript, key, username and device id can be read back from s: the transcript follows
\* the domain, the key is at a, the two strings with their lengths at b.
Names(s, a, b, t, k, u, d) ==
  /\ At(s, 0) = 1
  /\ Slice(s, 1, a - 1) = t
  /\ Slice(s, a, KeyLen) = k
  /\ At(s, b) = Len(u) /\ Slice(s, b + 1, Len(u)) = u
  /\ At(s, b + 1 + Len(u)) = Len(d) /\ Slice(s, b + 1 + Len(u) + 1, Len(d)) = d

LEMMA SignedNames ==
  ASSUME CodeSizes, NEW t \in Seq(Byte), NEW k \in Keys, NEW u \in Seq(Byte),
         NEW d \in Seq(Byte), Len(u) <= UserMax, Len(d) <= DeviceMax,
         NEW s, s = TAuth(t, k, u, d),
         NEW a \in Nat, a = 1 + Len(t), NEW b \in Nat, b = a + KeyLen
  PROVE  Names(s, a, b, t, k, u, d)
<1>1. PICK h, v, x : h = <<1>> /\ v = Str8(u) /\ x = Str8(d)
  OBVIOUS
<1>2. KeyLen \in Nat /\ Len(u) \in Nat /\ Len(d) \in Nat /\ Len(t) \in Nat
      /\ Len(u) < Base /\ Len(d) < Base /\ 1 \in Byte
  BY SizeFacts, BaseFacts DEF Byte
<1>3. h \in Seq(Byte) /\ Len(h) = 1 /\ k \in Seq(Byte) /\ Len(k) = KeyLen
  BY <1>1, <1>2 DEF Keys
<1>4. v \in Seq(Byte) /\ x \in Seq(Byte) /\ Len(v) = 1 + Len(u) /\ Len(x) = 1 + Len(d)
  BY <1>1, Str8Type
<1>5. s = h \o t \o k \o v \o x
  <2>1. ~(Len(u) > UserMax \/ Len(d) > DeviceMax)
    BY <1>2, SizeFacts
  <2> QED BY <1>1, <2>1 DEF TAuth, DomClientAuth
<1>6. Joined5(Byte, s, h, t, k, v, x)
  BY <1>3, <1>4, <1>5, Parts5, ZenonT(30)
<1>7. PICK c \in Nat : c = b + 1 + Len(u)
  BY <1>2
<1>8. /\ s \in Seq(Byte) /\ Holds(s, 0, h) /\ Holds(s, 1, t) /\ Holds(s, a, k)
      /\ Holds(s, b, v) /\ Holds(s, c, x)
  <2>1. /\ 1 = Len(h) /\ a = Len(h) + Len(t) /\ b = Len(h) + Len(t) + Len(k)
        /\ c = Len(h) + Len(t) + Len(k) + Len(v)
    BY ONLY <1>2, <1>3, <1>4, <1>7, a = 1 + Len(t), b = a + KeyLen
  <2> QED BY ONLY <1>6, <2>1 DEF Joined5
<1>9. At(s, 0) = 1
  BY <1>1, <1>8, ReadByte
<1>10. Slice(s, a, KeyLen) = k /\ Slice(s, 1, a - 1) = t
  <2>1. Slice(s, a, Len(k)) = k
    BY ONLY <1>3, <1>8, a \in Nat, ReadBytes
  <2>2. 1 \in Nat
    OBVIOUS
  <2>3. Slice(s, 1, Len(t)) = t
    BY ONLY <1>8, <2>2, t \in Seq(Byte), ReadBytes
  <2>4. Len(t) = a - 1
    BY ONLY <1>2, a = 1 + Len(t)
  <2> QED BY <1>3, <2>1, <2>3, <2>4
<1>11. At(s, b) = Len(u) /\ Slice(s, b + 1, Len(u)) = u
  BY <1>1, <1>2, <1>8, ReadStr8
<1>12. At(s, c) = Len(d) /\ Slice(s, c + 1, Len(d)) = d
  BY <1>1, <1>2, <1>8, ReadStr8
<1> QED BY ONLY <1>7, <1>9, <1>10, <1>11, <1>12 DEF Names

LEMMA SignedOnce ==
  ASSUME NEW s, NEW a, NEW b, NEW t, NEW k, NEW u, NEW d, NEW tt, NEW kk, NEW uu, NEW dd,
         Names(s, a, b, t, k, u, d), Names(s, a, b, tt, kk, uu, dd)
  PROVE  t = tt /\ k = kk /\ u = uu /\ d = dd
<1>1. t = tt /\ k = kk
  BY DEF Names
<1>2. Len(u) = Len(uu) /\ u = uu
  BY DEF Names
<1>3. Len(d) = Len(dd) /\ d = dd
  BY <1>2 DEF Names
<1> QED BY <1>1, <1>2, <1>3

\* An identity in a session: the keys c, e, i of the session, the key k, the username u and
\* the device id d of the device, within the limits of the code.
Identities ==
  {z \in [c : Keys, e : Keys, i : Keys, k : Keys, u : Text, d : Text] :
     Len(z.u) <= UserMax /\ Len(z.d) <= DeviceMax}

ToSign(z) == TAuth(THello(z.c, z.e, z.i), z.k, z.u, z.d)

LEMMA IdentityNamed ==
  ASSUME CodeSizes, NEW z \in Identities, NEW a \in Nat, a = 2 + 2 * W16 + 3 * KeyLen,
         NEW b \in Nat, b = a + KeyLen
  PROVE  /\ Transcript(THello(z.c, z.e, z.i), z.c, z.e, z.i)
         /\ Names(ToSign(z), a, b, THello(z.c, z.e, z.i), z.k, z.u, z.d)
<1>1. PICK c \in Keys, e \in Keys, i \in Keys, k \in Keys, u \in Seq(Byte), d \in Seq(Byte) :
        /\ c = z.c /\ e = z.e /\ i = z.i /\ k = z.k /\ u = z.u /\ d = z.d
        /\ Len(u) <= UserMax /\ Len(d) <= DeviceMax
  BY DEF Identities, Text
<1>2. PICK t : t = THello(c, e, i)
  OBVIOUS
<1>3. Transcript(t, c, e, i)
  BY <1>2, THelloFacts
<1>4. t \in Seq(Byte) /\ Len(t) = 1 + 2 * W16 + 3 * KeyLen
  BY <1>3 DEF Transcript
<1>5. a = 1 + Len(t)
  BY <1>4, BaseFacts, SizeFacts
<1>6. Names(TAuth(t, k, u, d), a, b, t, k, u, d)
  BY <1>1, <1>4, <1>5, SignedNames
<1> QED BY ONLY <1>1, <1>2, <1>3, <1>6 DEF ToSign

LEMMA SameTranscript ==
  ASSUME NEW t, NEW c, NEW e, NEW i, NEW cc, NEW ee, NEW ii,
         Transcript(t, c, e, i), Transcript(t, cc, ee, ii)
  PROVE  c = cc /\ e = ee /\ i = ii
BY DEF Transcript

\* The bytes a device signs (build_t_auth over build_t_hello) determine both ephemeral keys
\* and the server's key of the session, and the key, the username and the device id of the
\* device, each independently of the others.
THEOREM SignedBytes ==
  ASSUME CodeSizes, NEW z \in Identities, NEW y \in Identities, ToSign(z) = ToSign(y)
  PROVE  z = y
<1>1. PICK a \in Nat, b \in Nat : a = 2 + 2 * W16 + 3 * KeyLen /\ b = a + KeyLen
  BY SizeFacts, BaseFacts
<1>2. /\ Transcript(THello(z.c, z.e, z.i), z.c, z.e, z.i)
      /\ Names(ToSign(z), a, b, THello(z.c, z.e, z.i), z.k, z.u, z.d)
  BY <1>1, IdentityNamed
<1>3. /\ Transcript(THello(y.c, y.e, y.i), y.c, y.e, y.i)
      /\ Names(ToSign(z), a, b, THello(y.c, y.e, y.i), y.k, y.u, y.d)
  BY <1>1, IdentityNamed
<1>4. /\ THello(z.c, z.e, z.i) = THello(y.c, y.e, y.i)
      /\ z.k = y.k /\ z.u = y.u /\ z.d = y.d
  BY ONLY <1>2, <1>3, SignedOnce
<1>5. z.c = y.c /\ z.e = y.e /\ z.i = y.i
  BY ONLY <1>2, <1>3, <1>4, SameTranscript
<1>6. /\ z = [c |-> z.c, e |-> z.e, i |-> z.i, k |-> z.k, u |-> z.u, d |-> z.d]
      /\ y = [c |-> y.c, e |-> y.e, i |-> y.i, k |-> y.k, u |-> y.u, d |-> y.d]
  BY DEF Identities
<1> QED BY ONLY <1>4, <1>5, <1>6

\* They never are the bytes a server signs, in whatever session: the domains differ.
LEMMA NotTheServers ==
  ASSUME CodeSizes, NEW z \in Identities, NEW c \in Keys, NEW e \in Keys, NEW i \in Keys
  PROVE  ToSign(z) # THello(c, e, i)
<1>1. PICK a \in Nat, b \in Nat : a = 2 + 2 * W16 + 3 * KeyLen /\ b = a + KeyLen
  BY SizeFacts, BaseFacts
<1>2. At(ToSign(z), 0) = 1
  BY <1>1, IdentityNamed DEF Names
<1>3. At(THello(c, e, i), 0) = 0
  BY THelloFacts DEF Transcript
<1> QED BY <1>2, <1>3

LEMMA SessionFacts ==
  ASSUME NEW x \in Sessions
  PROVE  /\ x[1] \in Keys /\ x[2] \in Keys /\ x[3] \in Keys
         /\ x = <<x[1], x[2], x[3]>> /\ Hello(x) = THello(x[1], x[2], x[3])
<1>1. SessionKeys \subseteq Keys
  BY CodecAssumption DEF SessionKeys, Keys
<1> QED BY <1>1 DEF Sessions, Hello

\* The identity whose bytes the property compares.
Identity(x, k, u, d) == [c |-> x[1], e |-> x[2], i |-> x[3], k |-> k, u |-> u, d |-> d]

LEMMA IdentityFacts ==
  ASSUME NEW x \in Sessions, NEW k \in Keys, NEW u \in Seq(Byte), NEW d \in Seq(Byte),
         Len(u) <= UserMax, Len(d) <= DeviceMax
  PROVE  /\ Identity(x, k, u, d) \in Identities
         /\ ToSign(Identity(x, k, u, d)) = TAuth(Hello(x), k, u, d)
<1>1. x[1] \in Keys /\ x[2] \in Keys /\ x[3] \in Keys /\ Hello(x) = THello(x[1], x[2], x[3])
  BY SessionFacts
<1>2. PICK z : z = Identity(x, k, u, d)
  OBVIOUS
<1>3. z.c = x[1] /\ z.e = x[2] /\ z.i = x[3] /\ z.k = k /\ z.u = u /\ z.d = d
  BY <1>2 DEF Identity
<1>4. z \in [c : Keys, e : Keys, i : Keys, k : Keys, u : Text, d : Text]
  BY <1>1, <1>2 DEF Identity, Text
<1>5. z \in Identities
  BY <1>3, <1>4 DEF Identities
<1>6. ToSign(z) = TAuth(Hello(x), k, u, d)
  BY ONLY <1>1, <1>3 DEF ToSign
<1> QED BY <1>2, <1>5, <1>6

\* The bytes a device signs (build_t_auth) determine the session, the device's key, its
\* username and its device id, and are never the bytes a server signs.
THEOREM SignedIdentity == ASSUME CodeSizes PROVE Spec => []TAuthUnambiguous
<1>1. ASSUME CodecInv, pdu.type = "AUTH_DEVICE" PROVE TAuthUnambiguous
  <2>1. pdu # Bad
    BY <1>1 DEF Bad
  <2>2. pdu \in [type : {"AUTH_DEVICE"}, pk : Keys, sig : Sigs, user : Strings(UserMax + 1),
                 device : Strings(DeviceMax + 1)]
    BY <1>1, <2>1 DEF CodecInv, Pdus, WordTypes
  <2>3. PICK k \in Keys, u \in Strings(UserMax + 1), d \in Strings(DeviceMax + 1) :
          k = pdu.pk /\ u = pdu.user /\ d = pdu.device
    BY <2>2
  <2>4. u \in Seq(Byte) /\ d \in Seq(Byte)
    <3>1. UserMax + 1 \in Nat /\ DeviceMax + 1 \in Nat
      BY SizeFacts
    <3> QED BY <3>1, StringFacts
  <2>5. ASSUME NEW x \in Sessions, NEW s, s = TAuth(Hello(x), k, u, d), s # NoBytes
        PROVE  /\ \A c, e, i \in Keys : s # THello(c, e, i)
               /\ \A z \in Signings : z[1] = s => z = <<s, x, k, u, d>>
    <3>1. Len(u) <= UserMax /\ Len(d) <= DeviceMax
      <4>1. ~(Len(u) > UserMax \/ Len(d) > DeviceMax)
        BY <2>5 DEF TAuth
      <4> QED BY <2>4, <4>1, SizeFacts
    <3>2. PICK me : me = Identity(x, k, u, d)
      OBVIOUS
    <3>3. me \in Identities /\ ToSign(me) = s
      BY <2>4, <2>5, <3>1, <3>2, IdentityFacts
    <3>4. \A c, e, i \in Keys : s # THello(c, e, i)
      BY <3>3, NotTheServers
    <3>5. ASSUME NEW y \in Sessions, NEW kk \in Keys, NEW uu \in Strings(UserMax),
                 NEW dd \in Strings(DeviceMax), TAuth(Hello(y), kk, uu, dd) = s
          PROVE  y = x /\ kk = k /\ uu = u /\ dd = d
      <4>1. /\ uu \in Seq(Byte) /\ Len(uu) <= UserMax /\ dd \in Seq(Byte)
            /\ Len(dd) <= DeviceMax
        BY SizeFacts, StringFacts
      <4>2. PICK you : you = Identity(y, kk, uu, dd)
        OBVIOUS
      <4>3. you \in Identities /\ ToSign(you) = s
        BY <3>5, <4>1, <4>2, IdentityFacts
      <4>4. you = me
        BY <3>3, <4>3, SignedBytes
      <4>5. Identity(x, k, u, d) = Identity(y, kk, uu, dd)
        BY ONLY <3>2, <4>2, <4>4
      <4>6. /\ x[1] = y[1] /\ x[2] = y[2] /\ x[3] = y[3]
            /\ k = kk /\ u = uu /\ d = dd
        BY ONLY <4>5 DEF Identity
      <4>7. x = y
        BY ONLY <4>6, x \in Sessions, y \in Sessions, SessionFacts
      <4> QED BY ONLY <4>6, <4>7
    <3>6. ASSUME NEW z \in Signings, z[1] = s PROVE z = <<s, x, k, u, d>>
      <4>1. PICK y \in Sessions, kk \in Keys, uu \in Strings(UserMax), dd \in Strings(DeviceMax) :
              z = <<TAuth(Hello(y), kk, uu, dd), y, kk, uu, dd>>
        BY ONLY <3>6 DEF Signings
      <4>2. TAuth(Hello(y), kk, uu, dd) = s
        BY ONLY <3>6, <4>1
      <4>3. y = x /\ kk = k /\ uu = u /\ dd = d
        BY <3>5, <4>2
      <4> QED BY ONLY <4>1, <4>2, <4>3
    <3> QED BY ONLY <3>4, <3>6
  <2> QED BY ONLY <2>3, <2>5 DEF TAuthUnambiguous
<1>2. ASSUME pdu.type # "AUTH_DEVICE" PROVE TAuthUnambiguous
  BY <1>2 DEF TAuthUnambiguous
<1>3. CodecInv => TAuthUnambiguous
  BY <1>1, <1>2
<1> QED BY <1>3, CodecInvariant, PTL

----------------------------------------------------------------------------
(* The allowlist *)

\* A set of numbers that is not empty has a least one.
LEMMA LeastOne ==
  ASSUME NEW T \in SUBSET Nat, T # {} PROVE \E m \in T : \A j \in T : m <= j
<1> DEFINE S == {n \in Nat : (\E x \in T : x <= n) => \E m \in T : \A j \in T : m <= j}
<1>1. 0 \in S
  <2>1. ASSUME NEW x \in T, x <= 0 PROVE \A j \in T : x <= j
    BY <2>1
  <2> QED BY <2>1
<1>2. ASSUME NEW n \in Nat, n \in S PROVE n + 1 \in S
  <2>1. ASSUME NEW x \in T, x <= n + 1, ~\E y \in T : y <= n PROVE \A j \in T : x <= j
    BY <2>1
  <2> QED BY <1>2, <2>1
<1>3. Nat \subseteq S
  <2> HIDE DEF S
  <2>1. S \subseteq Nat
    BY DEF S
  <2> QED BY <1>1, <1>2, NatSetInduction
<1>4. PICK x \in T : TRUE
  OBVIOUS
<1>5. x \in Nat /\ x <= x
  OBVIOUS
<1>6. x \in S
  BY <1>3, <1>5
<1> QED BY <1>5, <1>6

\* A segment ends at the first comma, or with the list.
Segment(list, p, z) ==
  /\ z \in p .. Len(list)
  /\ \A j \in p .. (z - 1) : At(list, j) # Comma
  /\ z < Len(list) => At(list, z) = Comma

LEMMA SegmentEndFacts ==
  ASSUME NEW list \in Seq(Nat), NEW p \in 0 .. Len(list)
  PROVE  Segment(list, p, SegmentEnd(list, p))
<1>0. PICK N \in Nat : N = Len(list)
  OBVIOUS
<1>1. PICK z, T : /\ N = Len(list) /\ z = SegmentEnd(list, p)
                  /\ T = {i \in p .. (Len(list) - 1) : At(list, i) = Comma}
  BY <1>0
<1>2. T \in SUBSET Nat
  BY <1>1
<1>3. CASE T = {}
  <2>1. z = N
    BY <1>1, <1>3 DEF SegmentEnd
  <2>2. \A j \in p .. (N - 1) : At(list, j) # Comma
    BY <1>1, <1>3
  <2> QED BY <1>1, <2>1, <2>2 DEF Segment
<1>4. CASE T # {}
  <2>1. \E m \in T : \A j \in T : m <= j
    BY <1>2, <1>4, LeastOne
  <2>2. z = CHOOSE i \in T : \A j \in T : i <= j
    BY <1>1, <1>4 DEF SegmentEnd
  <2>3. z \in T /\ \A j \in T : z <= j
    BY ONLY <2>1, <2>2
  <2>4. z \in p .. (N - 1) /\ At(list, z) = Comma
    BY <1>1, <2>3
  <2>5. ASSUME NEW j \in p .. (z - 1) PROVE At(list, j) # Comma
    <3>1. j \in p .. (N - 1) /\ ~(z <= j)
      BY <2>4
    <3> QED BY <1>1, <2>3, <3>1
  <2> QED BY <1>1, <2>4, <2>5 DEF Segment
<1> QED BY <1>3, <1>4

\* A segment has one end.
LEMMA SegmentUnique ==
  ASSUME NEW list \in Seq(Nat), NEW p \in 0 .. Len(list), NEW x, NEW y,
         Segment(list, p, x), Segment(list, p, y)
  PROVE  x = y
<1>1. PICK N \in Nat : N = Len(list)
  OBVIOUS
<1>2. x \in p .. N /\ y \in p .. N
  BY <1>1 DEF Segment
<1>3. ~(x < y)
  <2> SUFFICES ASSUME x < y PROVE FALSE
    OBVIOUS
  <2>1. x < N /\ x \in p .. (y - 1)
    BY <1>2
  <2> QED BY <1>1, <2>1 DEF Segment
<1>4. ~(y < x)
  <2> SUFFICES ASSUME y < x PROVE FALSE
    OBVIOUS
  <2>1. y < N /\ y \in p .. (x - 1)
    BY <1>2
  <2> QED BY <1>1, <2>1 DEF Segment
<1> QED BY ONLY <1>2, <1>3, <1>4, p \in 0 .. Len(list), <1>1

\* The segment that starts at p is the name.
Matches(list, name, p) ==
  SegmentEnd(list, p) - p = Len(name) /\ Slice(list, p, Len(name)) = name

\* A segment that starts at i is met on the way from p.
OnTheWay(list, p, i) == i = p \/ (i > p /\ At(list, i - 1) = Comma)

\* Some segment from p on is the name.
Listed(list, name, p) ==
  \E i \in p .. (Len(list) - 1) : OnTheWay(list, p, i) /\ Matches(list, name, i)

LEMMA ListedStep ==
  ASSUME NEW list \in Seq(Nat), NEW name, NEW p \in 0 .. Len(list), NEW z,
         z = SegmentEnd(list, p)
  PROVE  Listed(list, name, p)
           <=> /\ p < Len(list)
               /\ Matches(list, name, p) \/ (z < Len(list) /\ Listed(list, name, z + 1))
<1>1. PICK N \in Nat : N = Len(list)
  OBVIOUS
<1>2. Segment(list, p, z)
  BY SegmentEndFacts
<1>3. z \in p .. N /\ (z < N => At(list, z) = Comma)
  BY <1>1, <1>2 DEF Segment
<1>4. ASSUME Listed(list, name, p)
      PROVE  p < N /\ (Matches(list, name, p) \/ (z < N /\ Listed(list, name, z + 1)))
  <2>1. PICK i \in p .. (N - 1) : OnTheWay(list, p, i) /\ Matches(list, name, i)
    BY <1>1, <1>4 DEF Listed
  <2>2. CASE i = p
    BY <2>1, <2>2
  <2>3. CASE i > p /\ At(list, i - 1) = Comma
    <3>1. z <= i - 1
      <4>1. i - 1 \in p .. (N - 1)
        BY <2>3
      <4>2. ~(i - 1 \in p .. (z - 1))
        BY <1>2, <2>3 DEF Segment
      <4> QED BY ONLY <1>3, <4>1, <4>2, p \in 0 .. Len(list), <1>1
    <3>2. z < N /\ i \in (z + 1) .. (N - 1) /\ p < N
      BY <1>3, <2>3, <3>1
    <3>3. OnTheWay(list, z + 1, i)
      BY <1>3, <2>3, <3>1 DEF OnTheWay
    <3>4. Listed(list, name, z + 1)
      BY <1>1, <2>1, <3>2, <3>3 DEF Listed
    <3> QED BY <3>2, <3>4
  <2> QED BY <2>1, <2>2, <2>3 DEF OnTheWay
<1>5. ASSUME p < N, Matches(list, name, p) PROVE Listed(list, name, p)
  <2>1. p \in p .. (N - 1) /\ OnTheWay(list, p, p)
    BY <1>1, <1>5 DEF OnTheWay
  <2> QED BY <1>1, <1>5, <2>1 DEF Listed
<1>6. ASSUME z < N, Listed(list, name, z + 1) PROVE Listed(list, name, p)
  <2>1. PICK i \in (z + 1) .. (N - 1) : OnTheWay(list, z + 1, i) /\ Matches(list, name, i)
    BY <1>1, <1>6 DEF Listed
  <2>2. i \in p .. (N - 1) /\ i > p
    BY <1>3, <2>1
  <2>3. At(list, i - 1) = Comma
    <3>1. CASE i = z + 1
      <4>1. i - 1 = z
        BY <1>3, <3>1
      <4> QED BY <1>3, <1>6, <4>1
    <3> QED BY <2>1, <3>1 DEF OnTheWay
  <2>4. OnTheWay(list, p, i)
    BY <2>2, <2>3 DEF OnTheWay
  <2> QED BY <1>1, <2>1, <2>2, <2>4 DEF Listed
<1> QED BY <1>1, <1>4, <1>5, <1>6

\* f is the scan of channel_name_allowed.
Scan(list, name, f) ==
  f = [p \in 0 .. Len(list) |->
         /\ p < Len(list)
         /\ LET end == SegmentEnd(list, p) IN
            \/ end - p = Len(name) /\ Slice(list, p, Len(name)) = name
            \/ end < Len(list) /\ f[end + 1]]

LEMMA ScanExists ==
  ASSUME NEW list \in Seq(Nat), NEW name PROVE \E f : Scan(list, name, f)
<1>1. PICK g : g = [p \in 0 .. Len(list) |-> Listed(list, name, p)]
  OBVIOUS
<1>2. ASSUME NEW p \in 0 .. Len(list)
      PROVE  Listed(list, name, p)
               <=> /\ p < Len(list)
                   /\ \/ Matches(list, name, p)
                      \/ SegmentEnd(list, p) < Len(list) /\ g[SegmentEnd(list, p) + 1]
  <2>1. PICK z : z = SegmentEnd(list, p)
    OBVIOUS
  <2>2. z \in p .. Len(list)
    BY <2>1, SegmentEndFacts DEF Segment
  <2>3. Listed(list, name, p)
           <=> /\ p < Len(list)
               /\ Matches(list, name, p) \/ (z < Len(list) /\ Listed(list, name, z + 1))
    BY <2>1, ListedStep
  <2>4. ASSUME z < Len(list) PROVE g[z + 1] = Listed(list, name, z + 1)
    <3>1. z + 1 \in 0 .. Len(list)
      BY <2>2, <2>4
    <3> QED BY ONLY <1>1, <3>1, Zenon
  <2> QED BY ONLY <2>1, <2>3, <2>4, Zenon
<1>3. g = [p \in 0 .. Len(list) |->
             /\ p < Len(list)
             /\ \/ Matches(list, name, p)
                \/ SegmentEnd(list, p) < Len(list) /\ g[SegmentEnd(list, p) + 1]]
  <2> DEFINE body(p) == /\ p < Len(list)
                        /\ \/ Matches(list, name, p)
                           \/ SegmentEnd(list, p) < Len(list) /\ g[SegmentEnd(list, p) + 1]
  <2>1. ASSUME NEW p \in 0 .. Len(list) PROVE Listed(list, name, p) = body(p)
    <3>1. Listed(list, name, p) \in BOOLEAN /\ body(p) \in BOOLEAN
      BY DEF Listed
    <3>2. Listed(list, name, p) <=> body(p)
      BY ONLY <1>2, <2>1, Zenon
    <3> QED BY ONLY <3>1, <3>2
  <2> HIDE DEF body
  <2>2. g = [p \in 0 .. Len(list) |-> body(p)]
    BY ONLY <1>1, <2>1
  <2> QED BY ONLY <2>2, Zenon DEF body
<1> QED BY ONLY <1>3, Zenon DEF Scan, Matches

LEMMA ScanListed ==
  ASSUME NEW list \in Seq(Nat), NEW name, NEW f, Scan(list, name, f)
  PROVE  f[0] <=> Listed(list, name, 0)
<1>1. PICK N \in Nat : N = Len(list)
  OBVIOUS
<1>2. ASSUME NEW p \in 0 .. N
      PROVE  f[p] <=> /\ p < N
                      /\ \/ Matches(list, name, p)
                         \/ SegmentEnd(list, p) < N /\ f[SegmentEnd(list, p) + 1]
  BY ONLY <1>1, Scan(list, name, f), Zenon DEF Scan, Matches
<1> DEFINE S == {n \in Nat : \A p \in 0 .. N : N - p <= n => (f[p] <=> Listed(list, name, p))}
<1>3. 0 \in S
  <2>1. ASSUME NEW p \in 0 .. N, N - p <= 0 PROVE f[p] <=> Listed(list, name, p)
    <3>1. ~(p < N) /\ p \in 0 .. Len(list)
      BY <1>1, <2>1
    <3>2. ~f[p]
      BY ONLY <1>2, <2>1, <3>1, Zenon
    <3>3. ~Listed(list, name, p)
      BY <1>1, <3>1, ListedStep
    <3> QED BY ONLY <3>2, <3>3, Zenon
  <2> QED BY ONLY <2>1, 0 \in Nat, Zenon
<1>4. ASSUME NEW n \in Nat, n \in S PROVE n + 1 \in S
  <2>1. ASSUME NEW p \in 0 .. N, N - p <= n + 1 PROVE f[p] <=> Listed(list, name, p)
    <3>1. PICK z : z = SegmentEnd(list, p)
      OBVIOUS
    <3>2. z \in p .. N /\ p \in 0 .. Len(list)
      BY <1>1, <3>1, SegmentEndFacts DEF Segment
    <3>3. Listed(list, name, p)
             <=> /\ p < N
                 /\ Matches(list, name, p) \/ (z < N /\ Listed(list, name, z + 1))
      BY <1>1, <3>1, <3>2, ListedStep
    <3>4. ASSUME z < N PROVE f[z + 1] <=> Listed(list, name, z + 1)
      <4>1. z + 1 \in 0 .. N /\ N - (z + 1) <= n
        BY <2>1, <3>2, <3>4
      <4>2. \A q \in 0 .. N : N - q <= n => (f[q] <=> Listed(list, name, q))
        BY ONLY <1>4, Zenon
      <4> QED BY ONLY <4>1, <4>2, Zenon
    <3> QED BY ONLY <1>2, <3>1, <3>3, <3>4, Zenon
  <2>2. n + 1 \in Nat
    OBVIOUS
  <2> QED BY ONLY <2>1, <2>2, Zenon
<1>5. Nat \subseteq S
  <2> HIDE DEF S
  <2>1. S \subseteq Nat
    BY DEF S
  <2> QED BY <1>3, <1>4, NatSetInduction
<1>6. N \in S
  BY <1>5
<1>7. 0 \in 0 .. N /\ N - 0 <= N
  OBVIOUS
<1> QED BY ONLY <1>6, <1>7, Zenon

LEMMA AllowedListed ==
  ASSUME NEW list \in Seq(Nat), NEW name
  PROVE  ChannelNameAllowed(list, name) <=> name # <<>> /\ Listed(list, name, 0)
<1>1. PICK f : f = CHOOSE g : Scan(list, name, g)
  OBVIOUS
<1>2. Scan(list, name, f)
  BY ONLY <1>1, ScanExists, list \in Seq(Nat), Zenon
<1>3. f[0] <=> Listed(list, name, 0)
  BY ONLY <1>2, ScanListed, list \in Seq(Nat), Zenon
<1>4. ChannelNameAllowed(list, name) <=> name # <<>> /\ f[0]
  BY ONLY <1>1, Zenon DEF ChannelNameAllowed, Scan
<1> QED BY ONLY <1>3, <1>4, Zenon

\* The name stands at offset i of the list, between commas or the list's ends.
EntryAt(list, name, i) ==
  /\ Slice(list, i, Len(name)) = name
  /\ i = 0 \/ At(list, i - 1) = Comma
  /\ i + Len(name) = Len(list) \/ At(list, i + Len(name)) = Comma

LEMMA ListedEntry ==
  ASSUME NEW list \in Seq(Nat), NEW name \in Seq(Nat), Len(name) > 0,
         \A j \in 1 .. Len(name) : name[j] # Comma
  PROVE  Listed(list, name, 0) <=> \E i \in 0 .. (Len(list) - Len(name)) : EntryAt(list, name,
     i)
<1>1. PICK N \in Nat : N = Len(list)
  OBVIOUS
<1>2. PICK K \in Nat : K = Len(name) /\ K > 0
  OBVIOUS
<1>3. ASSUME Listed(list, name, 0)
      PROVE  \E i \in 0 .. (N - K) : EntryAt(list, name, i)
  <2>1. PICK i \in 0 .. (N - 1) : OnTheWay(list, 0, i) /\ Matches(list, name, i)
    BY <1>1, <1>3 DEF Listed
  <2>2. PICK z : z = SegmentEnd(list, i)
    OBVIOUS
  <2>3. i \in 0 .. Len(list)
    BY <1>1
  <2>4. z \in i .. N /\ (z < N => At(list, z) = Comma)
    BY <1>1, <2>2, <2>3, SegmentEndFacts DEF Segment
  <2>5. z - i = K /\ Slice(list, i, Len(name)) = name
    BY <1>2, <2>1, <2>2 DEF Matches
  <2>6. z = i + K /\ i \in 0 .. (N - K)
    BY ONLY <2>4, <2>5, i \in 0 .. (N - 1), K \in Nat, N \in Nat
  <2>7. i + K = N \/ At(list, i + K) = Comma
    BY ONLY <2>4, <2>6, i \in 0 .. (N - 1), K \in Nat, N \in Nat
  <2>8. i = 0 \/ At(list, i - 1) = Comma
    BY <2>1 DEF OnTheWay
  <2>9. EntryAt(list, name, i)
    BY <1>1, <1>2, <2>5, <2>7, <2>8 DEF EntryAt
  <2> QED BY <2>6, <2>9
<1>4. ASSUME NEW i \in 0 .. (N - K), EntryAt(list, name, i) PROVE Listed(list, name, 0)
  <2>1. PICK z \in Nat : z = i + K /\ z <= N
    OBVIOUS
  <2>2. PICK t : t = SubSeq(list, i + 1, z)
    OBVIOUS
  <2>3. t = name
    BY ONLY <1>2, <1>4, <2>1, <2>2 DEF EntryAt, Slice
  <2>4. \A k \in 1 .. (z - i) : t[k] = list[i + k]
    <3>1. i \in Nat /\ z \in i .. Len(list)
      BY <1>1, <2>1
    <3> QED BY ONLY <2>2, <3>1, list \in Seq(Nat), SubSeqFacts
  <2>5. ASSUME NEW j \in i .. (z - 1) PROVE At(list, j) # Comma
    <3>1. (j - i) + 1 \in 1 .. K /\ z - i = K /\ i + ((j - i) + 1) = j + 1
      BY <1>2, <2>1
    <3>2. name[(j - i) + 1] = list[i + ((j - i) + 1)]
      BY ONLY <2>3, <2>4, <3>1
    <3> QED BY <1>2, <3>1, <3>2 DEF At
  <2>6. z < N => At(list, z) = Comma
    BY <1>1, <1>2, <1>4, <2>1 DEF EntryAt
  <2>7. Segment(list, i, z)
    BY <1>1, <2>1, <2>5, <2>6 DEF Segment
  <2>8. SegmentEnd(list, i) = z
    <3>1. i \in 0 .. Len(list)
      BY <1>1, <1>2
    <3> QED BY <2>7, <3>1, SegmentEndFacts, SegmentUnique
  <2>9. Matches(list, name, i)
    <3>1. z - i = K
      BY <2>1
    <3> QED BY <1>2, <1>4, <2>8, <3>1 DEF Matches, EntryAt
  <2>10. i \in 0 .. (N - 1) /\ OnTheWay(list, 0, i)
    BY <1>2, <1>4 DEF OnTheWay, EntryAt
  <2> QED BY <1>1, <2>9, <2>10 DEF Listed
<1> QED BY <1>1, <1>2, <1>3, <1>4

LEMMA AllowedEntry ==
  ASSUME NEW list \in Seq(Nat), NEW n \in Nat, NEW name \in NamesUpTo(n)
  PROVE  ChannelNameAllowed(list, name) <=> Entry(list, name)
<1>1. PICK k \in 1 .. n : name \in [1 .. k -> Byte \ {Comma}]
  BY DEF NamesUpTo
<1>2. k \in Nat /\ k > 0 /\ Byte \subseteq Nat
  BY BaseFacts DEF Byte
<1>3. name \in Seq(Nat) /\ Len(name) = k /\ \A j \in 1 .. k : name[j] # Comma
  <2>1. name \in [1 .. k -> Nat] /\ \A j \in 1 .. k : name[j] # Comma
    BY ONLY <1>1, <1>2
  <2> QED BY ONLY <1>2, <2>1
<1>4. Len(name) > 0 /\ name # <<>>
  BY ONLY <1>2, <1>3
<1>5. Listed(list, name, 0)
        <=> \E i \in 0 .. (Len(list) - Len(name)) : EntryAt(list, name, i)
  BY <1>3, <1>4, ListedEntry
<1>6. Entry(list, name) <=> \E i \in 0 .. (Len(list) - Len(name)) : EntryAt(list, name, i)
  BY ONLY TRUE, Zenon DEF Entry, EntryAt
<1> QED BY <1>4, <1>5, <1>6, AllowedListed

\* channel_name_allowed admits exactly the entries of a configured list that fits cfg_store,
\* however long list and name are: its scan, a recursive function, is shown to be Listed by
\* induction.
THEOREM AllowlistAdmits == ASSUME CodeSizes PROVE Spec => []AllowlistExact
<1>1. ASSUME CodecInv, Len(buf) < CfgStore PROVE AllowlistExact
  <2>1. buf \in Seq(Nat) /\ Len(buf) \in Nat
    <3>1. buf \in Seq(Byte) /\ Byte \subseteq Nat
      BY <1>1, BaseFacts DEF CodecInv, Byte
    <3>2. PICK L \in Nat : L = Len(buf)
      BY ONLY <3>1
    <3>3. buf \in [1 .. L -> Byte]
      BY ONLY <3>1, <3>2
    <3>4. buf \in [1 .. L -> Nat]
      BY ONLY <3>1, <3>3
    <3> QED BY ONLY <3>2, <3>4
  <2>2. ListInForce(buf) = buf
    <3>1. ~(Len(buf) + 1 > CfgStore)
      BY <1>1, <2>1, SizeFacts
    <3> QED BY <3>1 DEF ListInForce
  <2>3. NameMax + 1 \in Nat
    BY SizeFacts
  <2>4. \A name \in NamesUpTo(NameMax + 1) : ChannelNameAllowed(buf, name) <=> Entry(buf, name)
    BY <2>1, <2>3, AllowedEntry, Zenon
  <2>5. ~ChannelNameAllowed(buf, <<>>)
    BY ONLY TRUE DEF ChannelNameAllowed
  <2> QED BY ONLY <2>2, <2>4, <2>5, Zenon DEF AllowlistExact
<1>2. ASSUME ~(Len(buf) < CfgStore) PROVE AllowlistExact
  BY ONLY <1>2, Zenon DEF AllowlistExact
<1>3. CodecInv => AllowlistExact
  BY <1>1, <1>2
<1> QED BY <1>3, CodecInvariant, PTL

============================================================================
