-------------------------- MODULE SodchanWireLemmas --------------------------
(***************************************************************************)
(* Facts about the operators of SodchanWire that the proofs about frames   *)
(* and PDUs need: what the recursive functions of the codec compute, that  *)
(* integers survive their encoding, and how sequences are cut and joined.  *)
(***************************************************************************)
EXTENDS SodchanWire, SodchanInduction

----------------------------------------------------------------------------
(* Integers *)

LEMMA BaseFacts == Base \in Nat /\ Base > 1 /\ W32 \in Nat /\ W32 > 0 /\ W16 \in Nat /\ W16 > 0
BY WireAssumption

\* Division with remainder by Base.
LEMMA DivMod ==
  ASSUME NEW v \in Nat
  PROVE  /\ v \div Base \in Nat
         /\ v % Base \in Byte
         /\ v = (v \div Base) * Base + (v % Base)
BY BaseFacts DEF Byte

\* The quotient and the remainder are unique.
LEMMA DivModUnique ==
  ASSUME NEW q \in Nat, NEW r \in Byte
  PROVE  (q * Base + r) \div Base = q /\ (q * Base + r) % Base = r
BY BaseFacts DEF Byte

\* Two facts that are not linear.
LEMMA TimesBase == ASSUME NEW x \in Nat, NEW r \in Byte
                   PROVE  x * Base + r \in Nat /\ Base * x >= x
BY BaseFacts DEF Byte

LEMMA DivBound == ASSUME NEW x \in Nat, NEW p \in Nat, x < Base * p
                  PROVE  x \div Base < p
BY BaseFacts

\* Pow is what its definition says.
LEMMA PowDef ==
  /\ Pow[0] = 1
  /\ \A n \in Nat : Pow[n] \in Nat /\ Pow[n + 1] = Base * Pow[n]
<1> DEFINE Sol(n, f) == /\ f[0] = 1 
                        /\ \A k \in 1 .. n : f[k] = Base * f[k - 1]
           app(n) == CHOOSE f \in [0 .. n -> Nat] : Sol(n, f)
           pow == [n \in Nat |-> app(n)[n]]
<1>1. ASSUME NEW n \in Nat PROVE app(n) \in [0 .. n -> Nat] /\ Sol(n, app(n))
  <2> DEFINE step == [k \in 1 .. n |-> [x \in Nat |-> Base * x]]
  <2>1. step \in [1 .. n -> [Nat -> Nat]]
    BY BaseFacts
  <2> HIDE DEF step
  <2>2. PICK f \in [0 .. n -> Nat] : f[0] = 1 /\ \A k \in 1 .. n : f[k] = step[k][f[k - 1]]
    <3>1. step \in Steps(n, Nat) /\ 1 \in Nat
      BY <2>1 DEF Steps
    <3>2. \E f : Solves(n, Nat, 1, step, f)
      BY <3>1, Recursion, Zenon
    <3> QED BY <3>2 DEF Solves
  <2>3. \A k \in 1 .. n : step[k][f[k - 1]] = Base * f[k - 1]
    BY DEF step
  <2>4. Sol(n, f)
    BY <2>2, <2>3
  <2> QED BY <2>4
<1> HIDE DEF app
<1>2. ASSUME NEW n \in Nat PROVE \A k \in 0 .. n : app(n + 1)[k] = app(n)[k]
  <2> DEFINE S == {k \in 0 .. n : app(n + 1)[k] = app(n)[k]}
  <2>1. Sol(n, app(n)) /\ Sol(n + 1, app(n + 1))
    BY <1>1
  <2>2. 0 \in S
    BY <2>1
  <2>3. ASSUME NEW k \in 0 .. (n - 1), k \in S PROVE k + 1 \in S
    <3>1. k + 1 \in 1 .. n /\ k + 1 \in 1 .. (n + 1) /\ (k + 1) - 1 = k
      OBVIOUS
    <3>2. app(n)[k + 1] = Base * app(n)[k] /\ app(n + 1)[k + 1] = Base * app(n + 1)[k]
      BY <2>1, <3>1
    <3> QED BY <2>3, <3>1, <3>2
  <2> HIDE DEF S
  <2>4. 0 .. n \subseteq S
    BY <2>2, <2>3, IntervalInduction
  <2> QED BY <2>4 DEF S
<1>3. pow[0] = 1
  BY <1>1
<1>4. ASSUME NEW n \in Nat PROVE pow[n] \in Nat /\ pow[n + 1] = Base * pow[n]
  <2>1. Sol(n + 1, app(n + 1))
    BY <1>1
  <2>2. app(n + 1)[n + 1] = Base * app(n + 1)[n]
    <3>1. n + 1 \in 1 .. (n + 1) /\ (n + 1) - 1 = n
      OBVIOUS
    <3> QED BY <2>1, <3>1
  <2>3. app(n + 1)[n] = app(n)[n]
    BY <1>2
  <2>4. app(n) \in [0 .. n -> Nat] /\ n \in 0 .. n
    BY <1>1
  <2>5. pow[n] = app(n)[n] /\ pow[n + 1] = app(n + 1)[n + 1]
    OBVIOUS
  <2> HIDE DEF pow
  <2> QED BY <2>2, <2>3, <2>4, <2>5
<1>5. pow = [n \in Nat |-> IF n = 0 THEN 1 ELSE Base * pow[n - 1]]
  <2> SUFFICES ASSUME NEW n \in Nat
               PROVE  pow[n] = IF n = 0 THEN 1 ELSE Base * pow[n - 1]
    OBVIOUS
  <2> HIDE DEF pow
  <2>1. n # 0 => n - 1 \in Nat /\ (n - 1) + 1 = n
    OBVIOUS
  <2> QED BY <1>3, <1>4, <2>1
<1> HIDE DEF pow
<1>6. Pow = [n \in Nat |-> IF n = 0 THEN 1 ELSE Base * Pow[n - 1]]
  BY <1>5 DEF Pow
<1>7. Pow[0] = 1
  BY <1>6
<1>8. ASSUME NEW n \in Nat PROVE Pow[n + 1] = Base * Pow[n]
  BY <1>6
<1> DEFINE S == {n \in Nat : Pow[n] \in Nat}
<1>9. 0 \in S
  BY <1>7
<1>10. ASSUME NEW n \in Nat, n \in S PROVE n + 1 \in S
  BY <1>8, <1>10, BaseFacts
<1> HIDE DEF S
<1>11. Nat \subseteq S
  BY <1>9, <1>10, NatSetInduction
<1> QED BY <1>7, <1>8, <1>11 DEF S

LEMMA PowMonotone == \A n \in Nat : Pow[n] > 0 /\ Pow[n] <= Pow[n + 1]
<1> DEFINE S == {n \in Nat : Pow[n] > 0 /\ Pow[n] <= Pow[n + 1]}
<1>1. ASSUME NEW n \in Nat, Pow[n] > 0 PROVE Pow[n] <= Pow[n + 1] /\ Pow[n + 1] > 0
  <2>1. Pow[n] \in Nat /\ Pow[n + 1] = Base * Pow[n]
    BY PowDef
  <2>2. Base * Pow[n] >= Pow[n] /\ Base * Pow[n] \in Nat
    <3>1. 0 \in Byte
      BY BaseFacts DEF Byte
    <3> QED BY <2>1, <3>1, TimesBase, BaseFacts
  <2> QED BY <1>1, <2>1, <2>2
<1>2. 0 \in S
  BY <1>1, PowDef
<1>3. ASSUME NEW n \in Nat, n \in S PROVE n + 1 \in S
  BY <1>1, <1>3
<1> HIDE DEF S
<1>4. Nat \subseteq S
  BY <1>2, <1>3, NatSetInduction
<1> QED BY <1>4 DEF S

\* What PutUint computes: the k-th shift of v, byte by byte.
Shifts(w, v, shr) ==
  /\ shr \in [0 .. w -> Nat]
  /\ shr[0] = v
  /\ \A k \in 1 .. w : shr[k] = shr[k - 1] \div Base
  /\ PutUint(w, v) = [i \in 1 .. w |-> shr[w - i] % Base]

LEMMA PutUintDef == ASSUME NEW w \in Nat, NEW v \in Nat PROVE \E shr : Shifts(w, v, shr)
<1> DEFINE IsShr(f) == f = [k \in 0 .. w |-> IF k = 0 THEN v ELSE f[k - 1] \div Base]
           step == [k \in 1 .. w |-> [x \in Nat |-> x \div Base]]
<1>1. \E f : IsShr(f)
  <2>1. step \in Steps(w, Nat)
    BY DivMod DEF Steps
  <2>3. \A k \in 1 .. w : \A x \in Nat : step[k][x] = x \div Base
    OBVIOUS
  <2> HIDE DEF step
  <2>2. PICK f : Solves(w, Nat, v, step, f)
    BY <2>1, Recursion, Zenon
  <2>4. IsShr(f)
    BY <2>2, <2>3 DEF Solves
  <2> QED BY <2>4
<1> DEFINE shr == CHOOSE f : IsShr(f)
<1>2. IsShr(shr)
  BY <1>1
<1>3. PutUint(w, v) = [i \in 1 .. w |-> shr[w - i] % Base]
  BY DEF PutUint
<1> HIDE DEF shr
<1>4. shr[0] = v /\ \A k \in 1 .. w : shr[k] = shr[k - 1] \div Base
  <2> HIDE DEF IsShr
  <2>1. \A k \in 0 .. w : shr[k] = IF k = 0 THEN v ELSE shr[k - 1] \div Base
    BY <1>2 DEF IsShr
  <2> QED BY <2>1
<1> DEFINE S == {k \in 0 .. w : shr[k] \in Nat}
<1>5. 0 \in S
  BY <1>4
<1>6. ASSUME NEW k \in 0 .. (w - 1), k \in S PROVE k + 1 \in S
  <2>1. k + 1 \in 1 .. w /\ (k + 1) - 1 = k
    OBVIOUS
  <2>2. shr[k + 1] = shr[k] \div Base
    BY <1>4, <2>1
  <2>3. shr[k] \div Base \in Nat
    BY <1>6, DivMod
  <2> QED BY <2>1, <2>2, <2>3
<1> HIDE DEF S
<1>7. 0 .. w \subseteq S
  BY <1>5, <1>6, IntervalInduction
<1>8. shr \in [0 .. w -> Nat]
  <2>1. \A k \in 0 .. w : shr[k] \in Nat
    BY <1>7 DEF S
  <2>2. shr = [k \in 0 .. w |-> shr[k]]
    BY <1>2
  <2> QED BY <2>1, <2>2
<1> QED BY <1>3, <1>4, <1>8 DEF Shifts

LEMMA PutUintType ==
  ASSUME NEW w \in Nat, NEW v \in Nat
  PROVE  PutUint(w, v) \in Seq(Byte) /\ Len(PutUint(w, v)) = w
<1>1. PICK shr \in [0 .. w -> Nat] : PutUint(w, v) = [i \in 1 .. w |-> shr[w - i] % Base]
  BY PutUintDef, ZenonT(30) DEF Shifts
<1>2. \A i \in 1 .. w : shr[w - i] % Base \in Byte
  BY DivMod
<1> QED BY <1>1, <1>2

\* What GetUint computes, from bytes that are there.
Values(w, s, off, val) ==
  /\ val \in [0 .. w -> Nat]
  /\ val[0] = 0
  /\ \A k \in 1 .. w : val[k] = val[k - 1] * Base + s[off + k]
  /\ GetUint(w, s, off) = val[w]

LEMMA GetUintDef ==
  ASSUME NEW w \in Nat, NEW off \in Nat, NEW s, \A k \in 1 .. w : s[off + k] \in Byte
  PROVE  \E val : Values(w, s, off, val)
<1> DEFINE IsVal(f) == f = [k \in 0 .. w |-> IF k = 0 THEN 0 ELSE f[k - 1] * Base + s[off + k]]
           step == [k \in 1 .. w |-> [x \in Nat |-> x * Base + s[off + k]]]
<1>0. ASSUME NEW x \in Nat, NEW k \in 1 .. w PROVE x * Base + s[off + k] \in Nat
  BY TimesBase
<1>1. \E f : IsVal(f)
  <2>1. step \in Steps(w, Nat)
    BY <1>0 DEF Steps
  <2>2. \A k \in 1 .. w : \A x \in Nat : step[k][x] = x * Base + s[off + k]
    OBVIOUS
  <2> HIDE DEF step
  <2>3. PICK f : Solves(w, Nat, 0, step, f)
    <3>1. 0 \in Nat
      OBVIOUS
    <3> QED BY <2>1, <3>1, Recursion, Zenon
  <2>4. IsVal(f)
    BY <2>2, <2>3 DEF Solves
  <2> QED BY <2>4
<1> DEFINE val == CHOOSE f : IsVal(f)
<1>2. IsVal(val)
  BY <1>1
<1>3. GetUint(w, s, off) = val[w]
  BY DEF GetUint
<1> HIDE DEF val
<1>4. val[0] = 0 /\ \A k \in 1 .. w : val[k] = val[k - 1] * Base + s[off + k]
  <2> HIDE DEF IsVal
  <2>1. \A k \in 0 .. w : val[k] = IF k = 0 THEN 0 ELSE val[k - 1] * Base + s[off + k]
    BY <1>2 DEF IsVal
  <2> QED BY <2>1
<1> DEFINE S == {k \in 0 .. w : val[k] \in Nat}
<1>5. 0 \in S
  BY <1>4
<1>6. ASSUME NEW k \in 0 .. (w - 1), k \in S PROVE k + 1 \in S
  <2>1. k + 1 \in 1 .. w /\ (k + 1) - 1 = k
    OBVIOUS
  <2>2. val[k + 1] = val[k] * Base + s[off + (k + 1)]
    BY <1>4, <2>1
  <2> QED BY <1>0, <1>6, <2>1, <2>2
<1> HIDE DEF S
<1>7. 0 .. w \subseteq S
  BY <1>5, <1>6, IntervalInduction
<1>8. val \in [0 .. w -> Nat]
  <2>1. \A k \in 0 .. w : val[k] \in Nat
    BY <1>7 DEF S
  <2>2. val = [k \in 0 .. w |-> val[k]]
    BY <1>2
  <2> QED BY <2>1, <2>2
<1> QED BY <1>3, <1>4, <1>8 DEF Values

\* An integer that fits into w bytes is read back from what was written.
LEMMA GetPutUint ==
  ASSUME NEW w \in Nat, NEW v \in Nat, v < Pow[w], NEW off \in Nat, NEW s,
         \A k \in 1 .. w : s[off + k] = PutUint(w, v)[k]
  PROVE  GetUint(w, s, off) = v
<1>0. PICK shr : Shifts(w, v, shr)
  BY PutUintDef
<1>1. /\ shr \in [0 .. w -> Nat]
      /\ shr[0] = v
      /\ \A k \in 1 .. w : shr[k] = shr[k - 1] \div Base
      /\ PutUint(w, v) = [i \in 1 .. w |-> shr[w - i] % Base]
  BY <1>0 DEF Shifts
<1>2. \A k \in 1 .. w : s[off + k] = shr[w - k] % Base /\ shr[w - k] \in Nat
  BY <1>1
<1>3. \A k \in 1 .. w : s[off + k] \in Byte
  BY <1>2, DivMod
<1>3a. PICK val : Values(w, s, off, val)
  BY <1>3, GetUintDef
<1>4. /\ val \in [0 .. w -> Nat]
      /\ val[0] = 0
      /\ \A k \in 1 .. w : val[k] = val[k - 1] * Base + s[off + k]
      /\ GetUint(w, s, off) = val[w]
  BY <1>3a DEF Values
<1>5. shr[w] = 0
  <2> DEFINE S == {k \in 0 .. w : shr[k] < Pow[w - k]}
  <2>1. 0 \in S
    BY <1>1
  <2>2. ASSUME NEW k \in 0 .. (w - 1), k \in S PROVE k + 1 \in S
    <3>1. k + 1 \in 1 .. w /\ (k + 1) - 1 = k /\ w - (k + 1) \in Nat /\ (w - (k + 1)) + 1 = w - k
      OBVIOUS
    <3>2. shr[k + 1] = shr[k] \div Base
      BY <1>1, <3>1
    <3>3. PICK p \in Nat : p = Pow[w - (k + 1)] /\ Pow[w - k] = Base * p
      BY <3>1, PowDef
    <3>4. PICK x \in Nat : x = shr[k] /\ x < Base * p
      BY <1>1, <2>2, <3>3
    <3>5. x \div Base < p
      BY <3>4, DivBound
    <3> QED BY <3>1, <3>2, <3>3, <3>4, <3>5
  <2> HIDE DEF S
  <2>3. 0 .. w \subseteq S
    BY <2>1, <2>2, IntervalInduction
  <2>4. w \in S /\ w - w = 0 /\ w \in 0 .. w
    BY <2>3
  <2>5. shr[w] < Pow[w - w] /\ shr[w] \in Nat
    BY <1>1, <2>4 DEF S
  <2>6. shr[w] < 1
    BY <2>4, <2>5, PowDef
  <2> QED BY <2>5, <2>6
<1> DEFINE S == {k \in 0 .. w : val[k] = shr[w - k]}
<1>6. 0 \in S
  BY <1>4, <1>5
<1>7. ASSUME NEW k \in 0 .. (w - 1), k \in S PROVE k + 1 \in S
  <2>1. /\ k + 1 \in 1 .. w /\ (k + 1) - 1 = k
        /\ w - k \in 1 .. w /\ (w - k) - 1 = w - (k + 1) /\ w - (k + 1) \in 0 .. w
    OBVIOUS
  <2>2. val[k + 1] = val[k] * Base + s[off + (k + 1)]
    BY <1>4, <2>1
  <2>3. s[off + (k + 1)] = shr[w - (k + 1)] % Base
    BY <1>2, <2>1
  <2>4. val[k] = shr[w - (k + 1)] \div Base
    BY <1>1, <1>7, <2>1
  <2>5. PICK x \in Nat : x = shr[w - (k + 1)]
    BY <1>1, <2>1
  <2>6. val[k + 1] = (x \div Base) * Base + (x % Base)
    BY <2>2, <2>3, <2>4, <2>5
  <2>7. val[k + 1] = x
    BY <2>6, DivMod
  <2> QED BY <2>1, <2>5, <2>7
<1> HIDE DEF S
<1>8. 0 .. w \subseteq S
  BY <1>6, <1>7, IntervalInduction
<1>9. w \in S /\ w - w = 0
  BY <1>8
<1> QED BY <1>1, <1>4, <1>9 DEF S

LEMMA GetPutU32 ==
  ASSUME NEW v \in 0 .. U32Max, NEW s, \A k \in 1 .. W32 : s[k] = PutU32(v)[k]
  PROVE  GetU32(s, 0) = v
<1>1. W32 \in Nat /\ v \in Nat /\ v < Pow[W32]
  BY BaseFacts, PowDef DEF U32Max
<1>2. \A k \in 1 .. W32 : s[0 + k] = PutUint(W32, v)[k]
  BY <1>1 DEF PutU32
<1>3. GetUint(W32, s, 0) = v
  BY <1>1, <1>2, GetPutUint
<1> QED BY <1>3 DEF GetU32

LEMMA PutU32Type ==
  ASSUME NEW v \in Nat PROVE PutU32(v) \in Seq(Byte) /\ Len(PutU32(v)) = W32
BY PutUintType, BaseFacts DEF PutU32

LEMMA GetU32Type ==
  ASSUME NEW s, \A k \in 1 .. W32 : s[k] \in Byte
  PROVE  GetU32(s, 0) \in Nat
<1>1. W32 \in Nat /\ \A k \in 1 .. W32 : s[0 + k] \in Byte
  BY BaseFacts
<1>2. PICK val : Values(W32, s, 0, val)
  BY <1>1, GetUintDef
<1>3. W32 \in 0 .. W32
  BY BaseFacts
<1> QED BY <1>2, <1>3 DEF Values, GetU32

----------------------------------------------------------------------------
(* Sequences *)

LEMMA SeqsEqual ==
  ASSUME NEW S, NEW s \in Seq(S), NEW t \in Seq(S), Len(s) = Len(t),
         \A i \in 1 .. Len(s) : s[i] = t[i]
  PROVE  s = t
OBVIOUS

LEMMA ConcatFacts ==
  ASSUME NEW S, NEW s \in Seq(S), NEW t \in Seq(S)
  PROVE  /\ s \o t \in Seq(S)
         /\ Len(s \o t) = Len(s) + Len(t)
         /\ \A i \in 1 .. Len(s) : (s \o t)[i] = s[i]
         /\ \A i \in 1 .. Len(t) : (s \o t)[Len(s) + i] = t[i]
OBVIOUS

LEMMA ConcatAssoc ==
  ASSUME NEW S, NEW s \in Seq(S), NEW t \in Seq(S), NEW u \in Seq(S)
  PROVE  (s \o t) \o u = s \o (t \o u)
OBVIOUS

LEMMA SubSeqFacts ==
  ASSUME NEW S, NEW s \in Seq(S), NEW m \in Nat, NEW n \in m .. Len(s)
  PROVE  /\ SubSeq(s, m + 1, n) \in Seq(S)
         /\ Len(SubSeq(s, m + 1, n)) = n - m
         /\ \A i \in 1 .. (n - m) : SubSeq(s, m + 1, n)[i] = s[m + i]
OBVIOUS

\* A sequence is its first m elements and the rest.
LEMMA Cut ==
  ASSUME NEW S, NEW s \in Seq(S), NEW m \in 0 .. Len(s)
  PROVE  SubSeq(s, 1, m) \o SubSeq(s, m + 1, Len(s)) = s
<1> DEFINE a == SubSeq(s, 1, m)
           b == SubSeq(s, m + 1, Len(s))
<1>1. a \in Seq(S) /\ Len(a) = m /\ \A i \in 1 .. m : a[i] = s[i]
  OBVIOUS
<1>2. b \in Seq(S) /\ Len(b) = Len(s) - m /\ \A i \in 1 .. (Len(s) - m) : b[i] = s[m + i]
  BY SubSeqFacts
<1> HIDE DEF a, b
<1>3. a \o b \in Seq(S) /\ Len(a \o b) = Len(s)
  <2>1. a \o b \in Seq(S) /\ Len(a \o b) = Len(a) + Len(b)
    BY <1>1, <1>2, ConcatFacts
  <2>2. Len(a) + Len(b) = Len(s)
    BY <1>1, <1>2
  <2> QED BY <2>1, <2>2
<1>4. ASSUME NEW i \in 1 .. Len(s) PROVE (a \o b)[i] = s[i]
  <2>1. CASE i <= m
    <3>1. i \in 1 .. Len(a)
      BY <1>1, <2>1
    <3>2. (a \o b)[i] = a[i]
      BY <1>1, <1>2, <3>1, ConcatFacts
    <3> QED BY <1>1, <3>1, <3>2
  <2>2. CASE i > m
    <3>1. i - m \in 1 .. (Len(s) - m) /\ m + (i - m) = i
      BY <2>2
    <3>2. (a \o b)[Len(a) + (i - m)] = b[i - m]
      BY <1>1, <1>2, <3>1, ConcatFacts
    <3> QED BY <1>1, <1>2, <3>1, <3>2
  <2>3. i <= m \/ i > m
    OBVIOUS
  <2> QED BY <2>1, <2>2, <2>3
<1>5. a \o b = s
  BY <1>3, <1>4, SeqsEqual
<1> QED BY <1>5 DEF a, b

\* Dropping m elements of s drops them from s \o t.
LEMMA DropConcat ==
  ASSUME NEW S, NEW s \in Seq(S), NEW t \in Seq(S), NEW m \in 0 .. Len(s)
  PROVE  SubSeq(s, m + 1, Len(s)) \o t = SubSeq(s \o t, m + 1, Len(s \o t))
<1> DEFINE a == SubSeq(s, m + 1, Len(s))
           u == s \o t
           b == SubSeq(u, m + 1, Len(u))
<1>1. a \in Seq(S) /\ Len(a) = Len(s) - m /\ \A i \in 1 .. (Len(s) - m) : a[i] = s[m + i]
  BY SubSeqFacts
<1>2. /\ u \in Seq(S) /\ Len(u) = Len(s) + Len(t)
      /\ \A i \in 1 .. Len(s) : u[i] = s[i]
      /\ \A i \in 1 .. Len(t) : u[Len(s) + i] = t[i]
  BY ConcatFacts
<1> HIDE DEF u
<1>3. b \in Seq(S) /\ Len(b) = Len(u) - m /\ \A i \in 1 .. (Len(u) - m) : b[i] = u[m + i]
  BY <1>2, SubSeqFacts
<1> HIDE DEF a, b
<1>4. a \o t \in Seq(S) /\ Len(a \o t) = Len(b)
  BY <1>1, <1>2, <1>3
<1>5. ASSUME NEW i \in 1 .. Len(b) PROVE (a \o t)[i] = b[i]
  <2>1. CASE i <= Len(a)
    BY <1>1, <1>2, <1>3, <2>1, ConcatFacts
  <2>2. CASE i > Len(a)
    <3>1. i - Len(a) \in 1 .. Len(t) /\ Len(a) + (i - Len(a)) = i
          /\ Len(s) + (i - Len(a)) = m + i
      BY <1>1, <1>2, <1>3, <2>2, SMTT(30)
    <3>2. (a \o t)[Len(a) + (i - Len(a))] = t[i - Len(a)]
      BY <1>1, <3>1, ConcatFacts, SMTT(30)
    <3>3. u[Len(s) + (i - Len(a))] = t[i - Len(a)]
      BY <1>2, <3>1
    <3> QED BY <1>1, <1>2, <1>3, <3>1, <3>2, <3>3
  <2> QED BY <1>1, <1>2, <1>3, <2>1, <2>2, SMTT(30)
<1>6. a \o t = b
  BY <1>3, <1>4, <1>5, SeqsEqual
<1> QED BY <1>6 DEF a, b, u

============================================================================
