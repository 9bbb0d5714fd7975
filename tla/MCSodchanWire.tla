---------------------------- MODULE MCSodchanWire ----------------------------
(***************************************************************************)
(* Every parser of the library on every short byte string, and on          *)
(* everything the encoders write.                                          *)
(***************************************************************************)
EXTENDS SodchanWire, SequencesExt

CONSTANTS
  MaxLen,      \* byte strings up to this length
  InputBytes,  \* over these bytes
  MaxBody,     \* the body limit the frame parser is given
  SessionBytes \* bytes of the keys in the transcript of a session

ASSUME CodecAssumption ==
  MaxLen \in Nat /\ InputBytes \subseteq Byte /\ MaxBody \in 1 .. U32Max
    /\ SessionBytes \subseteq Byte

VARIABLES
  buf,         \* the bytes a parser is given
  pdu          \* the record an encoder wrote them from, or Bad for any other bytes

vars == <<buf, pdu>>

\* Field values of the PDUs to be encoded.
Words == {0, 1, Base, U32Max - 1}
Keys  == [1 .. KeyLen -> Byte]
Sigs  == [1 .. SigLen -> InputBytes]

Pdus ==
  [type : {"OPEN"}, from : Words, window : Words, max : Words, name : Strings(NameMax + 1)]
  \cup [type : {"CONFIRM"}, from : Words, to : Words, window : Words, max : Words]
  \cup [type : {"OPEN_FAIL"}, to : Words, reason : Words, msg : Strings(Base)]
  \cup [type : {"DATA"}, to : Words, data : Strings(2) \cup {[i \in 1 .. U32Max |-> 1]}]
  \cup [type : {"WINDOW"}, to : Words, add : Words]
  \cup [type : WordTypes, word : Words]
  \cup [type : {"DISCONNECT"}, reason : Words, msg : Strings(Base)]
  \cup [type : {"AUTH_DEVICE"}, pk : Keys, sig : Sigs, user : Strings(UserMax + 1),
        device : Strings(DeviceMax + 1)]
  \cup [type : {"AUTH_OK"}, claims : Strings(ClaimsMax + 1)]
  \cup [type : {"AUTH_FAIL"}, reason : {0}]

Init == buf = <<>> /\ pdu = Bad

\* One more byte.  The first may be a PDU type.
Extend ==
  /\ pdu = Bad
  /\ Len(buf) < MaxLen
  /\ \E b \in InputBytes \cup {Code[t] : t \in {u \in DOMAIN Code : buf = <<>>}} :
       buf' = Append(buf, b)
  /\ UNCHANGED pdu

\* An encoder runs.
Write ==
  /\ buf = <<>> /\ pdu = Bad
  /\ \E m \in Pdus : pdu' = m /\ buf' = Encode(m)

Next == Extend \/ Write

Spec == Init /\ [][Next]_vars

----------------------------------------------------------------------------

\* What an encoder writes, its decoder reads back unchanged: no length wraps in
\* its u8, u16 or u32 field, no field overlaps another, and what the decoder would
\* refuse the encoder refuses too.
RoundTrip == pdu # Bad /\ buf # NoBytes => Decode(buf) = pdu

\* The decoders accept nothing but what the encoders write: no trailing bytes, no
\* second spelling of a PDU, of a HELLO or of a seed, and no read past the end of
\* a truncated one.  AUTH_FAIL is the exception: the encoder hides the reason.
Canonical ==
  /\ LET m == Decode(buf) IN
     m # Bad /\ m.type # "AUTH_FAIL" => Encode(m) = buf
  /\ LET h == HelloDecode(buf) IN h # Bad => HelloEncode(h) = buf
  /\ LET d == SeedDecode(buf) IN d # Bad => SeedEncode(d.seed) = buf

\* The frame parser's three answers are right for every input: OK exactly when the
\* input begins with a legal frame (then body and length are that frame's),
\* "need more" exactly when more bytes can still complete one, an error otherwise,
\* as soon as the length is known.
FrameExact ==
  LET verdict == FrameParse(buf, MaxBody)
      whole == {n \in 1 .. MaxBody : /\ Len(buf) >= W32 + n
                                      /\ IsPrefix(PutU32(n), buf)}
      begun == {n \in 1 .. MaxBody : /\ Len(buf) < W32 + n
                                      /\ \/ IsPrefix(PutU32(n), buf)
                                         \/ Len(buf) < W32}
  IN  /\ verdict = "OK" <=> whole # {}
      /\ verdict = "FULL" <=> begun # {}
      /\ verdict = "OK" =>
           /\ FrameEncode(FrameBody(buf), MaxBody) = Slice(buf, 0, FrameConsumed(buf))
           /\ {FrameConsumed(buf)} = {W32 + n : n \in whole}

\* A session is its two ephemeral keys and the server's key, apart from the device's.
SessionKeys == [1 .. KeyLen -> SessionBytes]
Sessions    == SessionKeys \X SessionKeys \X SessionKeys
Hello(x)    == THello(x[1], x[2], x[3])

\* What every device may sign in every session, with the bytes it signs.
Signings ==
  {<<TAuth(Hello(x), k, u, d), x, k, u, d>> :
     x \in Sessions, k \in Keys, u \in Strings(UserMax), d \in Strings(DeviceMax)}

\* A device's signature is good for one session, one key, one username and one device
\* id: whenever one of them differs, the bytes to sign (build_t_auth) differ.  They
\* never are bytes a server signs (build_t_hello), in whatever session.
TAuthUnambiguous ==
  pdu.type = "AUTH_DEVICE" =>
    \A x \in Sessions :
      LET signed == TAuth(Hello(x), pdu.pk, pdu.user, pdu.device)
      IN  signed # NoBytes =>
            /\ \A c, s, i \in Keys : signed # THello(c, s, i)
            /\ \A z \in Signings :
                 z[1] = signed => z = <<signed, x, pdu.pk, pdu.user, pdu.device>>

\* name is one of the comma separated entries of the list.
Entry(list, name) ==
  \E i \in 0 .. (Len(list) - Len(name)) :
    /\ Slice(list, i, Len(name)) = name
    /\ i = 0 \/ At(list, i - 1) = Comma
    /\ i + Len(name) = Len(list) \/ At(list, i + Len(name)) = Comma

NamesUpTo(n) == UNION {[1 .. k -> Byte \ {Comma}] : k \in 1 .. n}

\* For every list that fits cfg_store, the last byte included, a name is allowed
\* exactly if it is an entry of the configured list; empty entries, a leading or a
\* trailing comma admit nothing, and neither does an empty name.
AllowlistExact ==
  Len(buf) < CfgStore =>
    /\ \A name \in NamesUpTo(NameMax + 1) :
         ChannelNameAllowed(ListInForce(buf), name) <=> Entry(buf, name)
    /\ ~ChannelNameAllowed(ListInForce(buf), <<>>)

\* sodchan.h and ADR 015: the default list applies when allowed_channels is NULL.  A
\* host that configures a list, here buf, thus admits no name that is not on it.
ConfiguredListBinds ==
  pdu = Bad =>
    \A name \in NamesUpTo(NameMax) :
      ChannelNameAllowed(ListInForce(buf), name) => Entry(buf, name)

============================================================================
