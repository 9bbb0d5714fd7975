--------------------------- MODULE SodchanFraming ---------------------------
(***************************************************************************)
(* The byte layer of one direction (src/src/sodchan.c): the sender's       *)
(* out_buf with its offset and compaction, a byte stream that delivers     *)
(* pieces of any size, the receiver's in_buf and the loop of process_input *)
(* that cuts it into frames, and the record limits of the two ends.        *)
(*                                                                         *)
(* A sealed record is its plaintext and one byte of authentication tag     *)
(* (ABYTES), which is good only for its place in the secretstream.         *)
(***************************************************************************)
EXTENDS SodchanWire

CONSTANTS
  OutCap,      \* SODCHAN_OUT_BUF_SIZE
  InCap,       \* SODCHAN_IN_BUF_SIZE
  ClearMax,    \* SODCHAN_MAX_CLEAR_FRAME
  PlainBuf,    \* sizeof(plain) in handle_encrypted_pdu
  Header,      \* the clear frame before the records: the secretstream header
  Plains,      \* the PDUs a sender seals
  FinalByte,   \* the type byte of the PDU that closes the receiver
  RecordSizes, \* the values of max_record_size the two hosts configure
  SendLimit,   \* frames sent in one run
  WireCap,     \* bytes on the socket
  Chunks       \* sizes hosts pass to get_output and feed_input

Abytes == 1

\* The buffers are equal in the code, and their size is a uint32_t.  Every PDU fits
\* into plain[], which has room for a maximal DATA; the header is short.
ASSUME FramingAssumption ==
  /\ InCap \in 0 .. U32Max /\ OutCap = InCap
  /\ ClearMax \in Nat /\ W32 + ClearMax <= InCap
  /\ Header \in Seq(Byte) /\ Len(Header) \in 1 .. ClearMax
  /\ PlainBuf \in Nat
  /\ \A p \in Plains : p \in Seq(Byte) /\ Len(p) \in 1 .. PlainBuf
  /\ RecordSizes \subseteq Nat \ {0}
  /\ Chunks \subseteq Nat \ {0}

VARIABLES
  rec,     \* [tx, rx]: max_record_size of the two ends
  out,     \* out_buf up to out_len
  off,     \* out_off
  pushed,  \* place of the sender in its secretstream, 0 before the header
  wire,    \* bytes taken from out_buf and not yet fed
  rx       \* the receiver's context

\* History.
VARIABLES
  sent,    \* header and records accepted for sending
  got      \* header and records handed to a handler that consumed them

tx   == <<out, off, pushed, sent>>
vars == <<rec, tx, wire, rx, got>>

\* buf is in_buf up to in_len; pulled is the place in the secretstream, 0 while
\* the header is still expected (hs is not DONE).
RxSet == [state : {"UP", "ERROR", "CLOSED"}, buf : Seq(Byte), pulled : Nat,
          err : {"none", "frame parse error", "ss ciphertext size",
                 "ss plaintext too large", "ss decrypt failed"}]

----------------------------------------------------------------------------
(* Sending *)

\* ss_frame_max_body: what the record limit allows, but no more than in_buf holds.
FrameMaxBody(maxRecord) ==
  IF maxRecord + Abytes + W32 > InCap THEN InCap - W32 ELSE maxRecord + Abytes

\* The two kinds of frame, in the histories.
Clear(b)  == [kind |-> "clear", bytes |-> b]
Record(p) == [kind |-> "record", bytes |-> p]

\* crypto_secretstream push and pull, external: the tag fits one place only.
Tag(place)         == <<place % Base>>
Seal(plain, place) == plain \o Tag(place)
Plain(ct)          == SubSeq(ct, 1, Len(ct) - Abytes)
Opens(ct, place)   == ct = Seal(Plain(ct), place)

\* Seeded defect: the bytes move to the front, out_off is forgotten.
CompactKeepsOffset == [bytes |-> SubSeq(out, off + 1, Len(out)), off |-> off]

\* out_compact
Compacted == [bytes |-> SubSeq(out, off + 1, Len(out)), off |-> 0]

\* out_append after out_compact
OutAppend(frame) ==
  /\ Len(frame) <= OutCap - Len(Compacted.bytes)
  /\ out' = Compacted.bytes \o frame
  /\ off' = Compacted.off

\* The secretstream header: out_append_frame.
SendHeader ==
  /\ pushed = 0
  /\ OutAppend(FrameEncode(Header, ClearMax))
  /\ pushed' = 1
  /\ sent' = Append(sent, Clear(Header))
  /\ UNCHANGED <<rec, wire, rx, got>>

\* Seeded defect: the record limit of ss_send_pdu is not checked.
SendPduUnlimited(p) ==
  /\ pushed > 0
  /\ Len(sent) < SendLimit
  /\ Len(p) + Abytes <= FrameMaxBody(InCap)
  /\ OutAppend(PutU32(Len(p) + Abytes) \o Seal(p, pushed))
  /\ pushed' = pushed + 1
  /\ sent' = Append(sent, Record(p))
  /\ UNCHANGED <<rec, wire, rx, got>>

\* ss_send_pdu
SendPdu(p) ==
  /\ pushed > 0
  /\ Len(sent) < SendLimit
  /\ Len(p) <= rec.tx
  /\ Len(p) + Abytes <= FrameMaxBody(rec.tx)
  /\ OutAppend(PutU32(Len(p) + Abytes) \o Seal(p, pushed))
  /\ pushed' = pushed + 1
  /\ sent' = Append(sent, Record(p))
  /\ UNCHANGED <<rec, wire, rx, got>>

\* ss_send_pdu returns SODCHAN_ERR_FULL: out_buf has been compacted.
SendPduFull(p) ==
  /\ pushed > 0
  /\ Len(sent) < SendLimit
  /\ Len(p) <= rec.tx
  /\ W32 + Len(p) + Abytes > OutCap - Len(Compacted.bytes)
  /\ out' = Compacted.bytes
  /\ off' = Compacted.off
  /\ UNCHANGED <<rec, pushed, sent, wire, rx, got>>

\* sodchan_get_output(buf, k)
GetOutput(k) ==
  LET n == IF k < Len(out) - off THEN k ELSE Len(out) - off IN
  /\ off < Len(out)
  /\ Len(wire) + n <= WireCap
  /\ wire' = wire \o SubSeq(out, off + 1, off + n)
  /\ out' = IF off + n >= Len(out) THEN <<>> ELSE out
  /\ off' = IF off + n >= Len(out) THEN 0 ELSE off + n
  /\ UNCHANGED <<rec, pushed, sent, rx, got>>

----------------------------------------------------------------------------
(* Receiving.  r is the receiver while process_input runs: its context and what
   it has handled. *)

Failed(r, cause) == [r EXCEPT !.ctx.state = "ERROR", !.ctx.err = cause]

\* The handler returned 0: the frame leaves in_buf.
Handled(r, ctx, m) ==
  [ctx |-> [ctx EXCEPT !.buf = SubSeq(@, FrameConsumed(@) + 1, Len(@))],
   got |-> Append(r.got, m)]

\* handle_peer_ss_header: from now on frames are records.
HandleHeader(r, body) == Handled(r, [r.ctx EXCEPT !.pulled = 1], Clear(body))

\* handle_encrypted_pdu up to the handler of the PDU, which consumes it; a
\* DISCONNECT closes the context.
HandleRecord(r, ct) ==
  LET p == Plain(ct)
      next == [r.ctx EXCEPT !.pulled = @ + 1]
  IN  CASE Len(ct) < Abytes -> Failed(r, "ss ciphertext size")
        [] Len(ct) >= Abytes /\ (Len(p) > PlainBuf \/ Len(p) > rec.rx)
                            -> Failed(r, "ss plaintext too large")
        [] Len(ct) >= Abytes /\ Len(p) <= PlainBuf /\ Len(p) <= rec.rx
             /\ ~Opens(ct, r.ctx.pulled) -> Failed(r, "ss decrypt failed")
        [] OTHER -> IF p # <<>> /\ p[1] = FinalByte
                    THEN Handled(r, [next EXCEPT !.state = "CLOSED"], Record(p))
                    ELSE Handled(r, next, Record(p))

\* One turn of the loop of process_input.
Turn(r) ==
  LET clear   == r.ctx.pulled = 0
      verdict == FrameParse(r.ctx.buf, IF clear THEN ClearMax
                                                ELSE FrameMaxBody(rec.rx))
      body    == FrameBody(r.ctx.buf)
  IN  CASE r.ctx.state # "UP" \/ verdict = "FULL" -> r
        [] r.ctx.state = "UP" /\ verdict = "PROTOCOL" -> Failed(r, "frame parse error")
        [] OTHER -> IF clear THEN HandleHeader(r, body) ELSE HandleRecord(r, body)

\* Seeded defect: process_input handles one frame per call.
ProcessOneFrame(r) == Turn(r)

\* process_input: no frame is shorter than a length and one byte, so InCap turns
\* are more than in_buf has frames.  (The singleton sets have TLC evaluate each
\* turn once.)
ProcessInput(r) ==
  LET loop[n \in 0 .. InCap] ==
        IF n = 0 THEN r ELSE CHOOSE s \in {Turn(q) : q \in {loop[n - 1]}} : TRUE
  IN  loop[InCap]

\* sodchan_feed_input: the host read up to k bytes, the context takes what fits.
FeedInput(k) ==
  LET room == InCap - Len(rx.buf)
      len  == IF k < Len(wire) THEN k ELSE Len(wire)
      take == IF len < room THEN len ELSE room
      fed  == [rx EXCEPT !.buf = @ \o SubSeq(wire, 1, take)]
  IN  /\ rx.state = "UP"
      /\ take > 0
      /\ \E r \in {ProcessInput([ctx |-> fed, got |-> got])} :
           rx' = r.ctx /\ got' = r.got
      /\ wire' = SubSeq(wire, take + 1, Len(wire))
      /\ UNCHANGED <<rec, tx>>

----------------------------------------------------------------------------

Init ==
  /\ rec \in [tx : RecordSizes, rx : RecordSizes]
  /\ out = <<>> /\ off = 0 /\ pushed = 0
  /\ wire = <<>>
  /\ rx = [state |-> "UP", buf |-> <<>>, pulled |-> 0, err |-> "none"]
  /\ sent = <<>> /\ got = <<>>

Next ==
  \/ SendHeader
  \/ \E p \in Plains : SendPdu(p) \/ SendPduFull(p)
  \/ \E k \in Chunks : GetOutput(k) \/ FeedInput(k)

Spec == Init /\ [][Next]_vars

\* The hosts keep moving bytes.
FairSpec ==
  /\ Spec
  /\ WF_vars(\E k \in Chunks : GetOutput(k))
  /\ WF_vars(\E k \in Chunks : FeedInput(k))

----------------------------------------------------------------------------
(* Properties *)

\* Every variable stays in its type, and no buffer exceeds its size.
TypeOK ==
  /\ rec \in [tx : RecordSizes, rx : RecordSizes]
  /\ out \in Seq(Byte) /\ Len(out) <= OutCap
  /\ off \in 0 .. Len(out)
  /\ pushed \in Nat
  /\ wire \in Seq(Byte)
  /\ rx \in RxSet /\ Len(rx.buf) <= InCap

\* However the bytes are cut into pieces, and however often out_buf is compacted
\* meanwhile, the receiver handles exactly the frames sent, in order, up to the
\* one that stops it: the byte layer implements SodchanStream.
Stream == INSTANCE SodchanStream WITH
  Messages <- {Clear(Header)} \cup {Record(p) : p \in Plains},
  Finals   <- {Record(p) : p \in {x \in Plains : x[1] = FinalByte}},
  stopped  <- rx.state # "UP"

ImplementsStream == Stream!Spec

\* feed_input always makes progress: a live receiver never sits on a full in_buf.
\* If it did, feed_input would take nothing for ever.
InputNeverStuck == rx.state = "UP" => Len(rx.buf) < InCap

\* Two ends fail each other only over their record limits: the receiver's is the
\* smaller one, the record at the head is longer than it, and it is refused by
\* its length, before it is complete.  With equal limits nothing is refused.
RefusalExplained ==
  rx.state = "ERROR" =>
    /\ rec.rx < rec.tx
    /\ Len(sent[Len(got) + 1].bytes) > rec.rx
    /\ rx.err = "frame parse error"

\* Every frame accepted for sending is handled, or the receiver has stopped: no
\* tail of a frame stays behind in out_buf or in_buf.
FramesDelivered ==
  \A n \in 1 .. SendLimit :
    Len(sent) >= n ~> (Len(got) >= n \/ rx.state # "UP")

============================================================================
