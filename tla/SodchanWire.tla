----------------------------- MODULE SodchanWire -----------------------------
(***************************************************************************)
(* The byte formats of libsodchan: integers, frames, HELLO, the PDUs, the  *)
(* signed transcripts (src/src/sodchan_wire.c), the seed blob              *)
(* (sodchan_crypto.c) and the comma separated allowlist (sodchan.c).       *)
(*                                                                         *)
(* A byte string is a sequence over Byte.  An encoder returns what it      *)
(* writes, or NoBytes when it refuses; a decoder returns the record it     *)
(* fills in, or Bad.  A decoder looks at a byte only after the length      *)
(* check that makes it exist, as in the code: TLC stops on an index        *)
(* outside the string.                                                     *)
(***************************************************************************)
EXTENDS Integers, Sequences

CONSTANTS
  Base,        \* 256: the values of a byte
  W16, W32,    \* bytes of a u16 and of a u32
  KeyLen,      \* bytes of a public key
  SigLen,      \* bytes of a signature
  NameMax,     \* SODCHAN_CHANNEL_NAME_MAX
  UserMax,     \* SODCHAN_USER_MAX
  DeviceMax,   \* SODCHAN_DEVICE_ID_MAX
  ClaimsMax,   \* SODCHAN_CLAIMS_MAX
  CfgStore     \* SODCHAN_CFG_STORE_SIZE

\* Base ^ n.
Pow[n \in Nat] == IF n = 0 THEN 1 ELSE Base * Pow[n - 1]

ASSUME WireAssumption ==
  /\ Base \in Nat \ {0, 1}
  /\ {W16, W32, KeyLen, SigLen, CfgStore} \subseteq Nat \ {0}
  /\ {NameMax, UserMax, DeviceMax} \subseteq 0 .. (Base - 1)
  /\ ClaimsMax \in 0 .. (Pow[W16] - 1)

Byte == 0 .. (Base - 1)

\* Byte strings of at most n bytes.
Strings(n) == UNION {[1 .. k -> Byte] : k \in 0 .. n}

NoBytes == <<>>
Bad     == [type |-> "none"]

----------------------------------------------------------------------------
(* Integers, big-endian *)

\* sodchan_wire_put_u16, sodchan_wire_put_u32: v shifted right byte by byte.
PutUint(w, v) ==
  LET shr[k \in 0 .. w] == IF k = 0 THEN v ELSE shr[k - 1] \div Base
  IN  [i \in 1 .. w |-> shr[w - i] % Base]

\* sodchan_wire_get_u16, sodchan_wire_get_u32 at offset off of s
GetUint(w, s, off) ==
  LET val[k \in 0 .. w] == IF k = 0 THEN 0 ELSE val[k - 1] * Base + s[off + k]
  IN  val[w]

PutU16(v) == PutUint(W16, v)
PutU32(v) == PutUint(W32, v)
GetU16(s, off) == GetUint(W16, s, off)
GetU32(s, off) == GetUint(W32, s, off)
U32Max == Pow[W32] - 1

\* s[off], s[off .. off + n - 1] with the offsets of the code
At(s, off) == s[off + 1]
Slice(s, off, n) == SubSeq(s, off + 1, off + n)

\* A u8 length and the bytes: the length is cast to uint8_t.
Str8(t) == <<Len(t) % Base>> \o t

----------------------------------------------------------------------------
(* Frames *)

\* sodchan_wire_frame_encode_max
FrameEncode(body, maxBody) ==
  IF body = <<>> \/ Len(body) > maxBody
  THEN NoBytes
  ELSE PutU32(Len(body)) \o body

\* Seeded defect: an oversized frame is waited for, not refused.
FrameParseWaits(data, maxBody) ==
  LET L == GetU32(data, 0) IN
  CASE Len(data) < W32                  -> "FULL"
    [] Len(data) >= W32 /\ L = 0        -> "PROTOCOL"
    [] Len(data) >= W32 /\ L > 0 /\ Len(data) < W32 + L -> "FULL"
    [] OTHER -> IF L > maxBody THEN "PROTOCOL" ELSE "OK"

\* Seeded defect: a frame that is just complete is waited for.
FrameParseOffByOne(data, maxBody) ==
  LET L == GetU32(data, 0) IN
  CASE Len(data) < W32                                 -> "FULL"
    [] Len(data) >= W32 /\ (L = 0 \/ L > maxBody)      -> "PROTOCOL"
    [] Len(data) >= W32 /\ L \in 1 .. maxBody /\ Len(data) <= W32 + L -> "FULL"
    [] OTHER                                           -> "OK"

\* sodchan_wire_frame_parse_max: FULL is "need more".
FrameParse(data, maxBody) ==
  LET L == GetU32(data, 0) IN
  CASE Len(data) < W32                                 -> "FULL"
    [] Len(data) >= W32 /\ (L = 0 \/ L > maxBody)      -> "PROTOCOL"
    [] Len(data) >= W32 /\ L \in 1 .. maxBody /\ Len(data) < W32 + L -> "FULL"
    [] OTHER                                           -> "OK"

\* What frame_parse_max reports beside OK: the body, and how much it consumed.
FrameBody(data)     == Slice(data, W32, GetU32(data, 0))
FrameConsumed(data) == W32 + GetU32(data, 0)

----------------------------------------------------------------------------
(* HELLO, a fixed-size body without a type byte *)

Magic   == 3     \* SODCHAN_MAGIC, SODCHAN_PROTO_VERSION, SODCHAN_SUITE_V1
Version == 1
Suite   == 1
Roles   == {0, 1}

HelloLen == 4 * W16 + W32 + 2 * KeyLen + SigLen

\* sodchan_wire_hello_encode
HelloEncode(h) ==
  PutU16(Magic) \o PutU16(h.version) \o PutU16(h.suite) \o PutU16(h.role)
    \o PutU32(h.flags) \o h.eph \o h.id \o h.sig

\* sodchan_wire_hello_decode
HelloDecode(s) ==
  LET keys == 4 * W16 + W32
      h == [type    |-> "HELLO",
            version |-> GetU16(s, W16),
            suite   |-> GetU16(s, 2 * W16),
            role    |-> GetU16(s, 3 * W16),
            flags   |-> GetU32(s, 4 * W16),
            eph     |-> Slice(s, keys, KeyLen),
            id      |-> Slice(s, keys + KeyLen, KeyLen),
            sig     |-> Slice(s, keys + 2 * KeyLen, SigLen)]
  IN  IF /\ Len(s) = HelloLen
         /\ GetU16(s, 0) = Magic
         /\ h.version = Version /\ h.suite = Suite /\ h.role \in Roles
      THEN h ELSE Bad

----------------------------------------------------------------------------
(* The PDUs: a type byte, then the fields.  m is the record of the fields. *)

\* SODCHAN_PDU_*
Code == [OPEN |-> 1, CONFIRM |-> 2, OPEN_FAIL |-> 3, WINDOW |-> 4, DATA |-> 5,
         EOF |-> 6, CLOSE |-> 7, PING |-> 8, PONG |-> 9, DISCONNECT |-> 10,
         AUTH_DEVICE |-> 20, AUTH_OK |-> 21, AUTH_FAIL |-> 22]

Has(s, t) == At(s, 0) = Code[t]

\* Seeded defect: bytes after the device id are accepted.
AuthDeviceDecodeLoose(s) ==
  LET lens == 1 + KeyLen + SigLen
      ulen == At(s, lens)
      dev  == lens + 1 + ulen
      dlen == At(s, dev)
  IN  IF /\ Len(s) >= lens + 2
         /\ Has(s, "AUTH_DEVICE")
         /\ ulen <= UserMax /\ dev + 1 <= Len(s)
         /\ dlen <= DeviceMax /\ dev + 1 + dlen <= Len(s)
      THEN [type |-> "AUTH_DEVICE",
            pk |-> Slice(s, 1, KeyLen), sig |-> Slice(s, 1 + KeyLen, SigLen),
            user |-> Slice(s, lens + 1, ulen), device |-> Slice(s, dev + 1, dlen)]
      ELSE Bad

\* sodchan_wire_auth_device_encode
AuthDeviceEncode(m) ==
  IF Len(m.user) > UserMax \/ Len(m.device) > DeviceMax
  THEN NoBytes
  ELSE <<Code.AUTH_DEVICE>> \o m.pk \o m.sig \o Str8(m.user) \o Str8(m.device)

\* sodchan_wire_auth_device_decode: two strings, then nothing.
AuthDeviceDecode(s) ==
  LET lens == 1 + KeyLen + SigLen
      ulen == At(s, lens)
      dev  == lens + 1 + ulen
      dlen == At(s, dev)
  IN  IF /\ Len(s) >= lens + 2
         /\ Has(s, "AUTH_DEVICE")
         /\ ulen <= UserMax /\ dev + 1 <= Len(s)
         /\ dlen <= DeviceMax /\ dev + 1 + dlen = Len(s)
      THEN [type |-> "AUTH_DEVICE",
            pk |-> Slice(s, 1, KeyLen), sig |-> Slice(s, 1 + KeyLen, SigLen),
            user |-> Slice(s, lens + 1, ulen), device |-> Slice(s, dev + 1, dlen)]
      ELSE Bad

\* sodchan_wire_auth_ok_encode, _decode
AuthOkEncode(m) ==
  IF Len(m.claims) > ClaimsMax
  THEN NoBytes
  ELSE <<Code.AUTH_OK>> \o PutU16(Len(m.claims)) \o m.claims

AuthOkDecode(s) ==
  LET C == GetU16(s, 1) IN
  IF Len(s) >= 1 + W16 /\ Has(s, "AUTH_OK") /\ C <= ClaimsMax /\ Len(s) = 1 + W16 + C
  THEN [type |-> "AUTH_OK", claims |-> Slice(s, 1 + W16, C)]
  ELSE Bad

\* sodchan_wire_auth_fail_encode always writes reason UNSPEC and no message;
\* _decode takes any reason and skips any message.
AuthFailEncode(m) == <<Code.AUTH_FAIL, 0, 0>>

AuthFailDecode(s) ==
  IF Len(s) >= 3 /\ Has(s, "AUTH_FAIL") /\ Len(s) = 3 + At(s, 2)
  THEN [type |-> "AUTH_FAIL", reason |-> At(s, 1)]
  ELSE Bad

\* sodchan_wire_channel_open_encode, _decode
OpenEncode(m) ==
  IF Len(m.name) > NameMax
  THEN NoBytes
  ELSE <<Code.OPEN>> \o PutU32(m.from) \o PutU32(m.window) \o PutU32(m.max)
         \o Str8(m.name)

OpenDecode(s) ==
  LET lens == 1 + 3 * W32
      nlen == At(s, lens)
  IN  IF /\ Len(s) >= lens + 1
         /\ Has(s, "OPEN")
         /\ nlen <= NameMax /\ Len(s) = lens + 1 + nlen
      THEN [type |-> "OPEN", from |-> GetU32(s, 1), window |-> GetU32(s, 1 + W32),
            max |-> GetU32(s, 1 + 2 * W32), name |-> Slice(s, lens + 1, nlen)]
      ELSE Bad

\* sodchan_wire_channel_open_confirm_encode, _decode
ConfirmEncode(m) ==
  <<Code.CONFIRM>> \o PutU32(m.from) \o PutU32(m.to) \o PutU32(m.window)
    \o PutU32(m.max)

ConfirmDecode(s) ==
  IF Len(s) = 1 + 4 * W32 /\ Has(s, "CONFIRM")
  THEN [type |-> "CONFIRM", from |-> GetU32(s, 1), to |-> GetU32(s, 1 + W32),
        window |-> GetU32(s, 1 + 2 * W32), max |-> GetU32(s, 1 + 3 * W32)]
  ELSE Bad

\* Seeded defect: a message of 256 bytes and more is not refused.
OpenFailEncodeUnchecked(m) ==
  <<Code.OPEN_FAIL>> \o PutU32(m.to) \o PutU32(m.reason) \o Str8(m.msg)

\* sodchan_wire_channel_open_fail_encode, _decode
OpenFailEncode(m) ==
  IF Len(m.msg) > Base - 1
  THEN NoBytes
  ELSE <<Code.OPEN_FAIL>> \o PutU32(m.to) \o PutU32(m.reason) \o Str8(m.msg)

OpenFailDecode(s) ==
  LET lens == 1 + 2 * W32
      mlen == At(s, lens)
  IN  IF Len(s) >= lens + 1 /\ Has(s, "OPEN_FAIL") /\ Len(s) = lens + 1 + mlen
      THEN [type |-> "OPEN_FAIL", to |-> GetU32(s, 1), reason |-> GetU32(s, 1 + W32),
            msg |-> Slice(s, lens + 1, mlen)]
      ELSE Bad

\* sodchan_wire_channel_data_encode, _decode
DataEncode(m) ==
  IF Len(m.data) > U32Max - (1 + 2 * W32)
  THEN NoBytes
  ELSE <<Code.DATA>> \o PutU32(m.to) \o PutU32(Len(m.data)) \o m.data

DataDecode(s) ==
  LET body == 1 + 2 * W32
      dlen == GetU32(s, 1 + W32)
  IN  IF Len(s) >= body /\ Has(s, "DATA") /\ Len(s) = body + dlen
      THEN [type |-> "DATA", to |-> GetU32(s, 1), data |-> Slice(s, body, dlen)]
      ELSE Bad

\* sodchan_wire_channel_window_encode, _decode
WindowEncode(m) == <<Code.WINDOW>> \o PutU32(m.to) \o PutU32(m.add)

WindowDecode(s) ==
  IF Len(s) = 1 + 2 * W32 /\ Has(s, "WINDOW")
  THEN [type |-> "WINDOW", to |-> GetU32(s, 1), add |-> GetU32(s, 1 + W32)]
  ELSE Bad

\* sodchan_wire_channel_eof_*, _channel_close_*, _ping_*, _pong_*: one u32, the
\* recipient's channel or the opaque value to be echoed.
WordTypes == {"EOF", "CLOSE", "PING", "PONG"}

WordEncode(m) == <<Code[m.type]>> \o PutU32(m.word)

WordDecode(t, s) ==
  IF Len(s) = 1 + W32 /\ Has(s, t)
  THEN [type |-> t, word |-> GetU32(s, 1)]
  ELSE Bad

\* sodchan_wire_disconnect_encode, _decode
DisconnectEncode(m) ==
  IF Len(m.msg) > Base - 1
  THEN NoBytes
  ELSE <<Code.DISCONNECT>> \o PutU32(m.reason) \o Str8(m.msg)

DisconnectDecode(s) ==
  LET lens == 1 + W32
      mlen == At(s, lens)
  IN  IF Len(s) >= lens + 1 /\ Has(s, "DISCONNECT") /\ Len(s) = lens + 1 + mlen
      THEN [type |-> "DISCONNECT", reason |-> GetU32(s, 1),
            msg |-> Slice(s, lens + 1, mlen)]
      ELSE Bad

\* The encoder of a PDU.
Encode(m) ==
  CASE m.type = "OPEN"        -> OpenEncode(m)
    [] m.type = "CONFIRM"     -> ConfirmEncode(m)
    [] m.type = "OPEN_FAIL"   -> OpenFailEncode(m)
    [] m.type = "DATA"        -> DataEncode(m)
    [] m.type = "WINDOW"      -> WindowEncode(m)
    [] m.type \in WordTypes   -> WordEncode(m)
    [] m.type = "DISCONNECT"  -> DisconnectEncode(m)
    [] m.type = "AUTH_DEVICE" -> AuthDeviceEncode(m)
    [] m.type = "AUTH_OK"     -> AuthOkEncode(m)
    [] m.type = "AUTH_FAIL"   -> AuthFailEncode(m)

\* sodchan_wire_pdu_type chooses the decoder: the switch of handle_encrypted_pdu
\* and handle_mux_pdu.
Decode(s) ==
  LET is(t) == s # <<>> /\ Has(s, t) IN
  CASE is("OPEN")        -> OpenDecode(s)
    [] is("CONFIRM")     -> ConfirmDecode(s)
    [] is("OPEN_FAIL")   -> OpenFailDecode(s)
    [] is("DATA")        -> DataDecode(s)
    [] is("WINDOW")      -> WindowDecode(s)
    [] is("EOF")         -> WordDecode("EOF", s)
    [] is("CLOSE")       -> WordDecode("CLOSE", s)
    [] is("PING")        -> WordDecode("PING", s)
    [] is("PONG")        -> WordDecode("PONG", s)
    [] is("DISCONNECT")  -> DisconnectDecode(s)
    [] is("AUTH_DEVICE") -> AuthDeviceDecode(s)
    [] is("AUTH_OK")     -> AuthOkDecode(s)
    [] is("AUTH_FAIL")   -> AuthFailDecode(s)
    [] OTHER             -> Bad

----------------------------------------------------------------------------
(* What is signed.  The two domain strings are one byte each. *)

DomServerHello == <<0>>
DomClientAuth  == <<1>>

\* sodchan_wire_build_t_hello: all parts have a fixed size.
THello(clientEph, serverEph, serverId) ==
  DomServerHello \o PutU16(Version) \o PutU16(Suite) \o clientEph \o serverEph
    \o serverId

\* Seeded defect: the two strings follow each other without their lengths.
TAuthUndelimited(tHello, pk, user, device) ==
  DomClientAuth \o tHello \o pk \o user \o device

\* Seeded defect: the device's key is not signed.
TAuthKeyless(tHello, pk, user, device) ==
  IF Len(user) > UserMax \/ Len(device) > DeviceMax
  THEN NoBytes
  ELSE DomClientAuth \o tHello \o Str8(user) \o Str8(device)

\* Seeded defect: the session is not signed.
TAuthSessionless(tHello, pk, user, device) ==
  IF Len(user) > UserMax \/ Len(device) > DeviceMax
  THEN NoBytes
  ELSE DomClientAuth \o pk \o Str8(user) \o Str8(device)

\* sodchan_wire_build_t_auth: the two strings carry their lengths.
TAuth(tHello, pk, user, device) ==
  IF Len(user) > UserMax \/ Len(device) > DeviceMax
  THEN NoBytes
  ELSE DomClientAuth \o tHello \o pk \o Str8(user) \o Str8(device)

----------------------------------------------------------------------------
(* The seed blob: five magic bytes (here two) and the seed *)

SeedMagic == <<3, 1>>

\* sodchan_seed_encode, sodchan_seed_decode
SeedEncode(seed) == SeedMagic \o seed

SeedDecode(s) ==
  IF Len(s) = Len(SeedMagic) + KeyLen /\ Slice(s, 0, Len(SeedMagic)) = SeedMagic
  THEN [type |-> "SEED", seed |-> Slice(s, Len(SeedMagic), KeyLen)]
  ELSE Bad

----------------------------------------------------------------------------
(* The allowlist *)

Comma == 0

\* SODCHAN_DEFAULT_ALLOWED_CHANNELS
DefaultAllowed == <<1, 2, Comma, 2, 1>>

\* Seeded defect: a list that fits exactly, with its NUL, is dropped.
ListInForceTight(list) == IF Len(list) + 1 >= CfgStore THEN DefaultAllowed ELSE list

\* cfg_dup, first of the strings apply_config_defaults copies: a list that does
\* not fit into cfg_store with its NUL is dropped, and allowed_channels is NULL,
\* which stands for the default list.
ListInForce(list) == IF Len(list) + 1 > CfgStore THEN DefaultAllowed ELSE list

\* strchr(p, ','): the next comma at or after offset p, or the end.
SegmentEnd(list, p) ==
  LET after == {i \in p .. (Len(list) - 1) : At(list, i) = Comma}
  IN  IF after = {} THEN Len(list) ELSE CHOOSE i \in after : \A j \in after : i <= j

\* Seeded defect: memcmp over the name's length only.
ChannelNameAllowedPrefix(list, name) ==
  LET scan[p \in 0 .. Len(list)] ==
        /\ p < Len(list)
        /\ LET end == SegmentEnd(list, p) IN
           \/ end - p >= Len(name) /\ Slice(list, p, Len(name)) = name
           \/ end < Len(list) /\ scan[end + 1]
  IN  name # <<>> /\ scan[0]

\* channel_name_allowed: segment by segment.
ChannelNameAllowed(list, name) ==
  LET scan[p \in 0 .. Len(list)] ==
        /\ p < Len(list)
        /\ LET end == SegmentEnd(list, p) IN
           \/ end - p = Len(name) /\ Slice(list, p, Len(name)) = name
           \/ end < Len(list) /\ scan[end + 1]
  IN  name # <<>> /\ scan[0]

============================================================================
