# libsodchan in TLA+

This directory holds a TLA+ verification project for libsodchan, the secure
channel library in `src/src/` (mainly `sodchan.c`). It models two library contexts
that talk to each other, model-checks them with TLC on small instances, and proves
the invariants that matter most with TLAPS.

## The system

libsodchan is a library without threads and without I/O. A host creates a context
(`sodchan_create`), feeds it received bytes (`sodchan_feed_input`), takes bytes to
send (`sodchan_get_output`), takes events (`sodchan_next_event`) and makes calls.
What is concurrent is the *pair*: two hosts, each calling at its own pace, joined by
a byte stream in each direction. Everything hard about the code comes from there: a
call on one side crosses a PDU from the other, a buffer is full when an answer has
to be queued, a context is reset while frames of its former life are in flight.

| Component | State | Operations | Talks to |
|---|---|---|---|
| Session state machine | `state`, `error` | create, reset, disconnect, `set_error` | all |
| Handshake, key exchange | `hs`, ephemerals, `t_hello`, the two secretstreams | `handle_peer_hello`, `handle_peer_ss_header` | peer's handshake |
| Device authentication | `auth_sent`, `auth_awaiting_decide`, `auth_decided`, `auth_complete` | AUTH_DEVICE, AUTH_OK, AUTH_FAIL, `auth_decide` | peer, server host |
| Channel multiplexer | `channels[16]`, `next_local_channel_id`, `active_channels` | open, accept, send, eof, close, window_adjust, `handle_mux_pdu` | peer, host |
| Flow control | `send_window`, `recv_window` per channel | send, DATA, window_adjust, WINDOW | peer's flow control |
| Event queue | ring of `event_queue_size` events | `queue_event`, `next_event` | handlers, host |
| Buffers and framing | `out_buf`, `in_buf` | `ss_send_pdu`, `process_input` | socket |
| Wire codec | none | encode and decode of each PDU | all |
| Channel allowlist | `allowed_channels` | `channel_name_allowed` | OPEN |
| Crypto helpers | none | keygen, seed blob, fingerprint, key derivation | handshake |

What makes each correct:

- *Multiplexer.* `active_channels` is the number of slots in use; the two ends agree
  on which channels belong together; an id is never reused, so a late PDU cannot be
  taken for another channel's; a request is always answered or the reason why not is
  known; two conforming ends do not drive each other into ERROR.
- *Flow control.* A sender never exceeds the receiver's window; credit is neither
  minted nor lost while DATA and WINDOW cross.
- *Events.* Data reach the host in order and without gaps; EOF is last. The ring
  shows every event it took, once and in order.
- *Buffers and framing.* However the stream is cut, the peer handles the frames sent,
  in order; a legal frame always fits; nothing stays behind.
- *Codec, allowlist.* Encoders and decoders agree, a PDU has one spelling, what is
  signed is unambiguous; exactly the listed names are admitted.
- *Handshake.* Whoever derives keys has seen a proof for this very session; the two
  streams stay in step; a reset does not let old frames complete a new handshake.
- *Authentication.* The host is asked about, and admits, only a device that signed this
  session's transcript; a client that is READY was admitted; a rejection gets through.

The hazards behind these (`hazards` in `PROJECT.json`, each with its line) are
mostly interleavings of calls with PDUs in flight, drops on a full buffer
(`(void)ss_send_pdu`, `(void)sodchan_i_queue_event`), and unsigned windows, lengths and
indices.

## Modules

| Module | What it is |
|---|---|
| `SodchanMux` | Multiplexer, flow control, events, disconnect: from the server's `auth_decide(1)` on |
| `SodchanMuxInv` | The inductive invariants `TableInv` and `FlowInv`; the refinement of `SodchanChannel` |
| `SodchanMuxProps` | Further properties that relate the two ends, the PDUs in flight and the events; liveness |
| `SodchanChannel` | Abstract: what the multiplexer promises the two hosts about channels |
| `MCSodchanMux` | Values of the function-valued constants for the runs |
| `SodchanMuxProofs` | `TableInv` is inductive: types and slot accounting; `FlowInv` is: pairing and flow control; `SodchanMux` implements `SodchanChannel` |
| `SodchanMuxTraffic` | The inductive invariant `TrafficInv` behind the safety properties of `SodchanMuxProps` |
| `SodchanMuxTrafficProofs` | `TrafficInv` is inductive: late traffic, errors, half-open channels, order of PDUs and events; credit is conserved |
| `SodchanHandshake` | HELLO to READY, with resets; its properties are at its end |
| `SodchanHandshakeInv` | The inductive invariant `HandshakeInv` behind them |
| `SodchanHandshakeProofs` | It is inductive: types, phases, the order of frames across resets; signatures, decisions, errors |
| `MCSodchanHandshake` | The set of configurations for the run |
| `SodchanFraming` | One direction in bytes: `out_buf`, stream, `in_buf`, `process_input`, record limits |
| `SodchanStream` | Abstract: the frames sent are handled in order, up to the one that stops the receiver |
| `MCSodchanFraming` | The frames for the run |
| `SodchanFramingProofs` | No byte is lost between the two buffers; `SodchanFraming` implements `SodchanStream` |
| `SodchanEventRing` | The event ring with `event_head` and `event_count` |
| `SodchanEventQueue` | Abstract: a bounded FIFO that refuses when full |
| `SodchanEventRingProofs` | `SodchanEventRing` implements `SodchanEventQueue` |
| `SodchanWire` | Operators: every encoder and decoder, frames, transcripts, seed blob, allowlist |
| `MCSodchanWire` | Their properties over all short byte strings and all small PDUs |
| `SodchanWireLemmas` | What the recursive functions of the codec compute: integers survive their encoding |
| `SodchanWireProofs` | The properties of `MCSodchanWire` for every byte string and every field |
| `SodchanInduction` | Induction over numbers and recursive functions, over sets instead of operators |

How they fit together: `SodchanFraming` uses the codec's frame functions; its abstract
result, `SodchanStream`, is what `SodchanMux` (`link`) and `SodchanHandshake` (`wire`)
take the connection for: a FIFO of whole frames. `SodchanEventQueue` is what both take
the event ring for. The set `Allowed` of `SodchanMux` is the result of the allowlist
operator in `SodchanWire`.

### SodchanMux

Each variable is a function of the end (`CLIENT`, `SERVER`). `state`, `nextId` and
`active` are the context fields. `ch[e][id]` is the slot whose `local_id` is `id`:
slots are keyed by id and not by array index, which is what `ch_by_local` does with
them. `link[e]` holds the PDUs that `e` has sent and its peer has not handled, oldest
first; the newest `outn[e]` of them still are in `e`'s `out_buf`, the others are on
the socket or in the peer's `in_buf`. `evq[e]` is the event ring. `known[e]` is what
the host knows: a host can only name a channel it opened or was told of.

The history variables (`err`, `closed`, `evLost`, `pduLost`, `acc`, `tally`) record
what happened; no guard that stands for code reads them. `acc[e][a]` is the channel
that `e` allocated for the peer's request `a`; it defines which two channels are a
pair. `tally` has the byte counts of a channel's whole life.

There is one action per call and one per case of `handle_mux_pdu` (two for OPEN).
Where the code ignores the result of `ss_send_pdu` the action uses `TrySend`, which
drops the PDU when `out_buf` is full; where it returns the error to the host, a full
`out_buf` disables the action, because the call then changes nothing. The exception is
`sodchan_channel_open`, which has taken an id by then: `ChannelOpenFull`. A handler that
calls `set_error` does not consume its frame; nothing reads it any more.

Data are abstracted: a PDU is a record of the fields its encoder writes, a payload is
an interval of the sender's byte stream, names are model strings and the allowlist a
set. `out_buf` has room for `OutCap` PDUs: in the code the room is in bytes, so a
small PDU may fit where a larger one does not. Windows are `uint32_t`, hence `% WinMod`.

### SodchanHandshake

Cryptography is symbolic. An ephemeral key is the number of the life (create or
reset) that made it, a signature is a key and the transcript it signs, the
secretstream keys are the transcript they are derived from, and a ciphertext opens
only with the right key, stream header and position. `cfg` ranges over the pin (matching, other,
any), the server's secret key (its own or not) and the device key (its own, another,
absent). `Reset(e)` is `sodchan_reset` on a transport that stays, with whatever is in
flight; `Reconnect` is both hosts resetting for a new transport.

The two modules meet at `auth_decide(1)`: the initial state of `SodchanMux` is what
`AuthAccept` produces (server READY with AUTH_OK in its `out_buf`, client in AUTH). It
takes the handshake's events as drained; in the code up to two of them may still be
in the client's ring, which only makes it full earlier.

### SodchanFraming and SodchanStream

One direction, from the secretstream header on. `out` and `off` are `out_buf` up to
`out_len` and `out_off`; `wire` is what the hosts carry; `rx` is the receiver with its
`in_buf`. A host takes and feeds pieces of any size in `Chunks`. `FeedInput` is the whole
of `sodchan_feed_input`: it takes what fits and runs `process_input` until a frame is
missing or the state is final. A record is the plaintext and a tag that is good for one
place in the stream only, so a lost, repeated or shifted byte shows as a decryption
failure. `rec` holds the `max_record_size` of the two ends, which nothing in the protocol
negotiates. The frame lengths are encoded and parsed with the operators of
`SodchanWire`; the PDU itself is opaque, except that one of them is a DISCONNECT.

### SodchanEventRing and SodchanEventQueue

The array, the head and the count, with `sodchan_create`'s default for size 0, the drop
on a full ring, and the reset. The refinement mapping reads the cells from `head` on,
modulo `cap`.

### SodchanChannel

A channel id is new, live, shut (EOF sent), over, in this order. An answered request
makes a pair, once and for good. `Put` sends within what the partner has granted,
`Get` receives of what the partner has sent. There are no PDUs, windows or buffers in
it: that nothing is lost or minted between two ends whose counters are updated at
different times is exactly what `SodchanMux` has to show. The mapping takes the counters
of `tally` and the life from the table, and `acc` for the pairs.

### SodchanWire

A byte string is a sequence over `Byte`. An encoder returns the bytes or refuses, a
decoder returns the record of the fields or `Bad`. Every decoder is written with the
code's checks in the code's order, so that an index outside the string stops TLC: the
run also shows that no decoder reads past the end of its input. Names, messages and
list entries are without NUL bytes.

## Runs

Every run but `EventRing` has `CHECK_DEADLOCK FALSE`: hosts may stop calling, an endpoint
in ERROR or CLOSED reads nothing, and the bounds on the environment end every run.

| Run | Shows |
|---|---|
| `MuxFlow` | One channel, data and credit both ways, credits up to the width of a window: `TypeOK`, `NoOverWindow`, `FlowConservation`, `ImplementsChannels` |
| `MuxTable` | Both ends open, accept, reject and close, a refused name, a server with one slot: `SlotAccounting`, `PairingAgreement`, `OpeningAccounted`, `LateTraffic`, `ImplementsChannels` |
| `MuxEvents` | EOF, CLOSE, PING, DISCONNECT and a slow host, the opener's close racing CONFIRM: `StreamGrammar`, `EventStream`, `EofIsFinal`, `ErrorHasLocalCause`, `CounterpartAccounted` |
| `MuxLive` | Under fairness, the server's close and the disconnect of both hosts racing DATA and AUTH_OK: `OpenResolves`, `DataReceived`, `DisconnectReaches`, `ErrorHasLocalCause`, `CounterpartAccounted` |
| `Handshake` | All configurations, two lives per end, under fairness: `TypeOK`, `ServerProven`, `SessionAgreement`, `StreamSync`, `DeviceProven`, `ClientReadyIsAccepted`, `FailureExplained`, `HandshakeCompletes`, `RejectionReachesClient` |
| `Framing` | All pairs of record limits, all cuts of the stream, under fairness: `TypeOK`, `InputNeverStuck`, `RefusalExplained`, `ImplementsStream`, `FramesDelivered` |
| `EventRing` | Rings of one to four cells: `TypeOK`, `ImplementsQueue`; it never deadlocks |
| `WireCodec` | All byte strings up to `MaxLen` and all PDUs over small fields: `RoundTrip`, `Canonical`, `FrameExact`; all sessions, device keys and names, each on its own: `TAuthUnambiguous`; all lists that fit `cfg_store`: `AllowlistExact` |

Four runs check what a document or a test says and find it violated (`findings` in
`PROJECT.json` quotes the lines):

| Run | The document says | The code does |
|---|---|---|
| `MuxDraining` | DRAINING, then CLOSED | Stays in DRAINING unless the peer ends the session |
| `MuxEventDropped` | Input is held back when buffers are full | The DATA frame is consumed, the window debited, the payload dropped |
| `MuxWindowWrap` | `window_avail` is at least the credit just added | Credit past 2^32 wraps the window |
| `WireAllowlist` | The default allowlist applies when none is configured | It also replaces a configured list that does not fit `cfg_store` |

Other behaviours worth knowing that the passing runs state as exceptions of their
properties: closing a channel while DATA or CONFIRM for it is in flight fails the
*session* of the closing end (`ErrorHasLocalCause`); closing a PENDING channel tells
the opener nothing, and the automatic OPEN_FAIL of a refused OPEN is dropped on a full
`out_buf` (`OpeningAccounted`, `OpenResolves`); a DISCONNECT may be dropped the same way
(`DisconnectReaches`); a client that disconnects before AUTH_OK arrives ends in ERROR
(`ErrorHasLocalCause`, `FailureExplained`); a dropped AUTH_DEVICE event stalls the
handshake (`HandshakeCompletes`); a server that rejected a device stays in ERROR until
its host acts (`RejectionReachesClient` is about the client only); two ends with
different `max_record_size` fail the session at the first record between the two limits
(`RefusalExplained`).

### Bounds

Buffers of one or two PDUs and one to two events make "full" reachable at every
point, which is where the code drops things. Windows of 1 and 2 with `WinMod` 4 put
exhaustion, exact fit and the wrap within a few steps; different values on the two
sides tell the directions apart, and `MaxPacket` above the smaller window and below
`DataMax` makes each limit of `channel_send` the binding one. One channel is enough
for flow control, whose state is per channel; `MuxTable` has three ids, both ends
opening, and a table smaller than the number of requests. `OpenLimit`, `SendLimit`,
`GrantLimit`, `WireCap` and `RecvCap` bound the hosts and the socket. `RecvCap` stays
below `WinMod` in the passing runs (a host that never outgrows its own window
counter) and exceeds it in `MuxWindowWrap`. Two lives per end allow every mix of old
and new frames, and an event ring of one makes every event of the handshake one that can
be dropped. No symmetry is used. `ErrorHasLocalCause` and
`CounterpartAccounted` are in two runs because each has its own races: CONFIRM against the
opener's close in `MuxEvents`, DATA against the server's close and AUTH_OK against the
client's disconnect in `MuxLive`; a CLOSE is dropped on a full `out_buf` in both.

`Framing` has buffers of exactly one maximal frame (`InCap` 7: two length bytes, four of
plaintext, one tag), so that every longer backlog meets a full buffer; a record limit
below, at and above what the buffers hold (2, 4, 9), where the last one makes
`ss_frame_max_body` use the buffer's bound; pieces of 1, 3 and 7 bytes, which cut
lengths, bodies and frame boundaries; and bytes in the PDUs that would be legal lengths
if the parser were out of step. `EventRing` has sizes 1 to 3 and the default 4.
`WireCodec` takes bytes of base 4, a `u32` of two bytes and a `u16` of one: the longest
length plus one is then a small number, and every string of up to nine bytes over three
byte values after any PDU type is decoded. Nine bytes are a whole HELLO or CONFIRM, and
more than a whole PDU of every other type. In `TAuthUnambiguous` each of the three keys of
a session takes the two values of `SessionBytes`, independently of the device's key, which
takes all: two values are enough for two sessions to differ in any one of their keys.
With `MaxLen` above `CfgStore` the inputs include lists that fit exactly and lists one byte
too long. `WireAllowlist` has the same `CfgStore`, and names of two bytes, the length of the
entries of the default list.

### Fairness

`FairSpec` assumes weak fairness of the loop every host has to run (`GetOutput`,
`NextEvent`, and `Recv`: a fed frame is handled inside `feed_input`) and of answering
requests the host was shown (`Answer`, `Decide`). In `SodchanFraming` it is the
fairness of `GetOutput` and `FeedInput`: both hosts keep moving bytes. Nothing is assumed of the calls a
host chooses to make: sending, closing, disconnecting.

## Proofs

`SodchanMuxProofs` proves, for every value of the constants that satisfies
`ConfigAssumption`, `WidthAssumption` and `BoundAssumption`:

- `TypeCorrect`: `Spec => []TypeOK`. It includes that no window is debited below
  zero, that neither `out_buf` nor the event ring exceeds its size, and that a PDU
  about a channel always carries a channel id.
- `SlotsAccounted`: `Spec => []SlotAccounting`.

Neither is inductive alone. A freed or allocated slot changes the *number* of slots
in use by exactly one only if the slot that `ch_alloc` hands out was unused, so the
invariant is `TableInv`: `TypeOK`, `SlotAccounting`, and `UnusedAhead` (an id at or
above the counter has never been used). The lemmas follow the model's helpers: what
`Send`, `TrySend`, `Consume` and `QueueEvent` do to their part of `TypeOK`
(`SendIO`, `TrySendIO`, `ConsumeIO`, `ConsumeAndTrySendIO`, `QueueEventHost`), and what
allocating, freeing or editing a slot does to the table (`AllocTable`, `FreeTable`,
`EditTable`, with the cardinality of the set of live slots). `CallTable` and
`RecvTable` then have one step per action.

Its second part proves, under the further assumption `RecvCap < WinMod`:

- `WindowsRespected`: `Spec => []NoOverWindow`. No DATA PDU between two sodchan ends
  exceeds the receive window or `SODCHAN_DATA_MAX` or meets a PENDING channel.
- `PairsAgree`: `Spec => []PairingAgreement`.

The assumption says that no host raises a receive window to 2^32 or beyond. It is
needed: `sodchan_channel_window_adjust` does not check it, and `MuxWindowWrap` shows a
window that wraps. `FlowInv` is far stronger than the two properties, because a DATA
PDU meets a window that has changed since it was sent. Its parts:

- *Pairing* (`PairInv`). `acc` binds two ids for the rest of the session: both have
  been allocated, no id is bound twice, an OPEN in flight is for an id not yet bound,
  and every slot and PDU names its partner. Ids are never reused, so pairs only grow.
- *Counting* (`WindowsCount`). `recv_window` is the initial window plus what was
  granted minus what was received, `send_window` the peer's initial window plus what
  was credited minus what was sent, and nothing outstanding exceeds a `uint32_t`.
- *Balance* (`PairBalance`, `LinkBalance`, `LinkOrdered`). On a pair, received <=
  sent <= initial + credited and credited <= granted; the DATA and WINDOW PDUs in
  flight are disjoint intervals between these counts, in order.
- *Quiet*. A PENDING channel has sent no CONFIRM, so no DATA is on its way to it.

The length of DATA that arrives is then at most sent - received <= initial + granted -
received, which is the receive window (`DataFits`). Eight actions matter (open, accept,
send, window_adjust, and the handlers of OPEN, CONFIRM, DATA and WINDOW), each with a
lemma of its own; `TameStep` covers all others, which only free slots, set EOF flags
and move PDUs that say nothing about windows.

Its third part proves, under the same assumption:

- `MuxImplementsChannels`: `Spec => ImplementsChannels`, the multiplexer implements
  `SodchanChannel`.

The proof rests on `[]FlowInv`. Each action of `SodchanMux`
changes the promise of at most one channel, so there is one lemma per kind of step: an
id is taken (`Request`), a slot is freed (`End`), a request is taken up (`Answer`), and
the four counters. `PairInv` gives the guards of `Answer` (neither id is in a pair yet) and
that DATA and its channel are partners; `PairBalance` and `LinkBalance` give the bounds of
`Put` and `Get`: the sender's own count is below what it was credited, which is at most
what its partner granted, and DATA in flight ends at or below what was sent. All other
actions leave the promise as it is.

`SodchanEventRingProofs` proves, for every queue size:

- `RingTypeOK`: `Spec => []TypeOK`: the indices stay inside the array.
- `RingImplementsQueue`: `Spec => ImplementsQueue`.

`TypeOK` is inductive here. The refinement needs the arithmetic of the wrap: the cell
written at `(head + count) % cap` is not among the `count` cells in use, and the cells
seen from `(head + 1) % cap` are the tail of those seen from `head`.

`SodchanMuxTrafficProofs` proves, again under `RecvCap < WinMod`, what `SodchanMuxProps` says
about the two ends and the PDUs between them:

- `LateTrafficHarmless`: `Spec => []LateTraffic`,
- `ErrorsAreLocal`: `Spec => []ErrorHasLocalCause`,
- `CounterpartsAccounted`: `Spec => []CounterpartAccounted`,
- `OpeningsAccounted`: `Spec => []OpeningAccounted`,
- `StreamsWellFormed`: `Spec => []StreamGrammar`,
- `EofFinal`: `Spec => []EofIsFinal`,
- `EventsInStreamOrder`: `Spec => []EventStream`,
- `CreditConserved`: `Spec => []FlowConservation`.

None of them is inductive, and each needs several of the others, so the first seven are
proved together, as `TrafficInv`, on top of `FlowInv`. What it adds:

- *Sessions* (`AuthOkFirst`, `DrainTold`). AUTH_OK is the first PDU of the server and the
  client is not READY while it is in flight; the DISCONNECT of an end in DRAINING is in
  flight, was dropped or has arrived. This is what an early disconnect leads to.
- *Channels* (`LinkSent`, `LinkDue`, `ClosedGone`, `GoneQuiet`, `EofKept`). What every PDU
  in flight says about the channel it left, which has moved on since, and about the
  channel it will meet. `GoneQuiet` is the heart of `ErrorHasLocalCause`: if a channel has
  gone without its host's doing, then its partner never got to OPEN or has closed, and
  nothing of it is in flight any more.
- *Streams* (`NoGap`, `NoneMissing`, `EofEvents`). DATA in flight continue each other from
  what was received to what was sent. With the order of `FlowInv` this says that the DATA
  in flight are exactly the bytes between the two counts.

The proof has two halves. `Step(e, O)` lists what one action of `e`, which takes the
PDUs of `O` (one or none) off the stream, may do to each slot (five things), to the two
links, to pairs, counters, events and errors. The first half goes through the actions
and shows that each is a `Step` (`NextStep`); the second goes through the parts of
`TrafficInv` and shows that every `Step` preserves them, without looking at
actions again. A property thus has one lemma for PDUs `e` has in flight, one for those
towards `e`, and not one for each of twenty actions.

`CreditConserved` is about sums over the PDUs in flight. `CreditInv` says of WINDOW what
`NoGap` and `NoneMissing` say of DATA: the credit in flight continues from what the sender
was credited to what its partner granted. So the PDUs of a channel, of either type, are
intervals that tile the numbers between two counters (`Tiled`), and the lengths of tiles
add up to the difference (`TiledSum`, by induction over the position in the link). With
`WindowsCount` the equation between the two windows is then arithmetic.

`SodchanHandshakeProofs` proves, for every set of configurations, event ring size and
number of lives:

- `HandshakeTypeCorrect`: `Spec => []TypeOK`,
- `StreamsInSync`: `Spec => []StreamSync`,
- `ServerIsProven`: `Spec => []ServerProven`,
- `SessionsAgree`: `Spec => []SessionAgreement`,
- `DeviceIsProven`: `Spec => []DeviceProven`,
- `ReadyClientIsAccepted`: `Spec => []ClientReadyIsAccepted`,
- `FailuresExplained`: `Spec => []FailureExplained`.

Here even `TypeOK` is not inductive: `accepted` is a set of transcripts only because a
server that is asked to decide has one. The parts of `HandshakeInv`:

- *Phases* (`PhaseInv`). Which fields of a context are set in which state.
- *Streams* (`StreamInv`). A frame has a place in what its sender puts out in one life:
  HELLO, stream header, ciphertexts. Frames in flight are ordered by life and, within
  one, by place without a gap, and together with what the receiver has read they are
  all the sender has put out. A receiver in a session with an earlier life meets the
  HELLO of the next life first, and that is a frame it refuses. `StreamSync` follows by
  counting.
- *Honest frames* (`HonestInv`). What a frame carries: whose signature, under which
  transcript it is sealed, that an answer to AUTH_DEVICE is the first ciphertext of the
  server in its life and follows a decision.
- *Signatures* (`SignedInv`). The server signs once in a life, for ever later lives of the
  client, and no HELLO of the client in flight has been answered. Two signed transcripts
  with the same life of one side are therefore the same, which is why two running ends
  agree (`SessionAgreement`), whatever was reset in between.
- *Decisions and errors* (`DecidedInv`, `ErrorInv`). One decision per life of the server.
  Without a reset all lives are 1, every frame opens, and each error can be traced to its
  cause.

`SodchanFramingProofs` proves, for every buffer size, set of PDUs, pair of record limits
and way to cut the stream that satisfy `FramingAssumption` (equal buffers whose size is
a `uint32_t`, a header that fits a clear frame, PDUs that fit `plain[]`):

- `FramingTypeOK`: `Spec => []TypeOK`,
- `FramingNeverStuck`: `Spec => []InputNeverStuck`,
- `FramingRefusal`: `Spec => []RefusalExplained`,
- `FramingImplementsStream`: `Spec => ImplementsStream`.

The invariant is `FrameInv`. Its heart is `Aligned`: `in_buf`, the bytes on the socket and
what is left of `out_buf`, put together, can be cut into the encodings of exactly the
frames sent and not yet handled. The cut is a function of positions, so that it survives
compaction, `get_output` and `feed_input`, which only move bytes from one of the three to the
next, and an append adds one more position (`Cuts`). When the parser looks at the front of
`in_buf` it therefore sees the encoded length of the next frame. The length is read back
unchanged, because no frame is longer than a `u32` holds (`GetPutUint` of
`SodchanWireLemmas`); the record opens, because the place of the sender and of the receiver
are both counted by the frames; and if the parser refuses, the record is longer than the
receiver's limit, so the sender's limit is the larger one. One turn of the loop is
`TurnKeeps`; the loop is a function of the number of turns, and every turn either ends it or
handles a frame of at least one byte more than a length, so that `InCap` turns are enough
and the loop ends with less than a frame in `in_buf`, hence not with a full one.

`SodchanWireProofs` proves, for all sizes that satisfy `WireAssumption` and `CodeSizes`
(a byte has more than 22 values, so that every PDU type fits one, and a `u32` is more than
one byte):

- `EncodersSound`: any record, with any `u32`, key, signature and text of any length, is
  refused by its encoder or read back unchanged; hence `CodecRoundTrip`:
  `Spec => []RoundTrip`.
- `DecodersCanonical`: any byte string a decoder accepts is what the encoder writes of
  the result; hence `CodecCanonical`: `Spec => []Canonical`. Both are about strings no
  longer than a `u32` can say, the most a frame carries: of a longer CHANNEL_DATA the decoder
  would take the data and the encoder refuse to write them.
- `FrameParserExact`: `Spec => []FrameExact`.
- `SignedBytes`: the bytes a device signs determine both ephemeral keys and the server's key
  of the session, and the key, the username and the device id of the device, all six
  independent of each other; hence `SignedIdentity`: `Spec => []TAuthUnambiguous`, which
  adds that they are not what a server signs in any session (`NotTheServers`).
- `AllowlistAdmits`: `Spec => []AllowlistExact`, for every list that fits `cfg_store`.

The state machine of `MCSodchanWire` only enumerates inputs; what the theorems add is that
lengths, field values and the size of a byte are arbitrary, the code's own included. The
run takes bytes of base 4 (where the type codes are larger than a byte), so run and
theorems complement each other. `Holds` says that a field is found at an offset: the
*Trip* lemmas find every field an encoder joined, one lemma per PDU. In the other direction
`Part` cuts a string at the decoder's offsets, and the *Back* lemmas show that each field,
read and written again, is its part and that the parts make up the string. That the signed
bytes name one session and one identity follows because the transcript, the three keys in it
and the device's key have fixed places, and both names are preceded by their lengths; a
server signs nothing that begins with a client's domain. The allowlist scan is a recursive function over positions; `Listed`
says what it returns from each position on, by induction from the end of the list.

Induction. The induction theorems of the library have an operator for a parameter, which the
provers cannot instantiate. `SodchanInduction` derives induction over a *set* of numbers from
the theorem on well-founded relations that has none (`NatSetInduction`, `IntervalInduction`),
and from it that a recursive function over an interval exists (`Recursion`), which is what a
proof has to know before it may use the equation of a recursive definition.

Only model-checked: all liveness (`OpenResolves`, `DataReceived`, `DisconnectReaches`,
`HandshakeCompletes`, `RejectionReachesClient`, `FramesDelivered`), because fairness is beyond
the prover. The safety properties of all passing runs are proved.

## Not modelled

- PDUs and stream tags no sodchan endpoint sends: TAG_FINAL, TAG_REKEY, a duplicate
  AUTH_DEVICE, a PDU that does not decode (the decoders' answer to it is in
  `WireCodec`; the handlers then call `set_error`). PING is sent by other
  implementations only; `PeerPing` is external.
- Half a frame of a former life. `Reset` and `Reconnect` leave whole frames on the
  transport; a real reset between two calls of `sodchan_get_output` may cut one, and the
  peer's parser, then out of step, fails the session or waits for the rest. No safety
  property depends on it.
- In `SodchanMux`, the refusal of a PDU over `max_record_size` by `ss_send_pdu`, which
  changes nothing; `SodchanFraming` has it (`SendPdu`).
- Allocation failure, NULL arguments, too small output arguments of the encoders, the
  configuration checks of `sodchan_create` that return NULL, `sodchan_destroy`, and
  wrap-around of the 32-bit channel id.
- Key generation, fingerprints and key derivation (`sodchan_crypto.c`): stateless calls
  into libsodium. Examples, fuzz harness, tests, build.

## Plan

1. `SodchanMux` and `SodchanHandshake` with their runs; `TableInv` proved (done).
2. The flow-control theorem: `FlowInv` is inductive when `RecvCap < WinMod`, hence
   `NoOverWindow` and `PairingAgreement` (done).
3. `SodchanChannel`, model-checked and proved to be implemented (done).
4. `SodchanFraming` and the event ring, each against its abstract specification; the
   ring proved (done).
5. `SodchanWire`: codec, frame parser, transcripts, allowlist (done).
6. The handshake invariants proved from `HandshakeInv`, and the properties of
   `SodchanMuxProps` from `TrafficInv` (done).
7. `SodchanFraming` proved to implement `SodchanStream`, the codec and the allowlist
   proved for all inputs, `FlowConservation` proved (done).
8. `SodchanSession`: handshake and multiplexer composed over one stream, so that reset
   is seen across the boundary at `auth_decide` (open).
