----------------------------- MODULE WireCodec -----------------------------
(***************************************************************************)
(* The BitChat binary frame codec (bluetooth/protocol.rs) and the two     *)
(* places the mesh service uses it (bluetooth/mesh_service.rs):           *)
(* send_message_to_peer / broadcast_message encode a ProtocolMessage and  *)
(* write it to a characteristic; handle_notification decodes whatever     *)
(* bytes a peer wrote, dispatches on the type and forwards the frame.     *)
(*                                                                         *)
(* Frames are modelled byte for byte: integers are big-endian byte        *)
(* sequences, flags are packed with Bitwise, lengths are real lengths so  *)
(* that the 512-byte ceiling is reached.  Payload contents are abstracted *)
(* to a run of one byte value: only their length matters to the codec.    *)
(* An Option field (recipient_id, signature) is the empty sequence for    *)
(* None and the 8 or 64 bytes for Some.                                    *)
(***************************************************************************)
EXTENDS Naturals, Sequences, SequencesExt, FiniteSets, Bitwise

CONSTANTS
    PayloadLens,    \* lengths of payloads the callers build
    Timestamps,     \* seconds since the epoch, below 2^31
    OwnId,          \* our 8-byte peer id
    PeerId,         \* a remote 8-byte peer id
    Sig             \* a 64-byte signature

PROTOCOL_VERSION == 1
MAX_PAYLOAD_SIZE == 512
MAX_TTL == 7

\* MessageType discriminants.
Announce == 1
Message == 4
DeliveryAck == 10
NoiseInit == 16
NoiseResponse == 17
NoiseFinish == 18
MessageTypes == {1, 4, 10, 11, 12, 8, 16, 17, 18, 20, 21, 22, 23}

\* From<u8> for MessageType: an unknown discriminant falls back to Message.
FromU8(b) == IF b \in MessageTypes THEN b ELSE Message

Byte == 0..255
Fill(b, n) == [i \in 1..n |-> b]

RECURSIVE ToBE(_, _)
\* to_be_bytes of an unsigned integer into k bytes, most significant first.
ToBE(n, k) == IF k = 0 THEN <<>> ELSE ToBE(n \div 256, k - 1) \o <<n % 256>>

\* from_be_bytes.
FromBE(s) == FoldLeft(LAMBDA acc, b : acc * 256 + b, 0, s)

NoFlags == [has_recipient |-> FALSE, has_signature |-> FALSE,
            is_compressed |-> FALSE, is_encrypted |-> FALSE, reserved |-> 0]

Bit(cond, v) == IF cond THEN v ELSE 0

\* MessageFlags::to_byte: four booleans in the low nibble, reserved above.
ToByte(f) == Bit(f.has_recipient, 1) + Bit(f.has_signature, 2)
             + Bit(f.is_compressed, 4) + Bit(f.is_encrypted, 8)
             + (f.reserved & 15) * 16

\* Mutant: the signature bit read with the compression mask.
FromByte_swapped_mask(b) ==
    [has_recipient |-> (b & 1) # 0, has_signature |-> (b & 4) # 0,
     is_compressed |-> (b & 4) # 0, is_encrypted |-> (b & 8) # 0,
     reserved |-> shiftR(b, 4) & 15]

\* MessageFlags::from_byte.
FromByte(b) == [has_recipient |-> (b & 1) # 0, has_signature |-> (b & 2) # 0,
                is_compressed |-> (b & 4) # 0, is_encrypted |-> (b & 8) # 0,
                reserved |-> shiftR(b, 4) & 15]

\* ProtocolMessage::new (the Uuid is left out: decode never keeps it).
New(type, sender, payload, ts) ==
    [version |-> PROTOCOL_VERSION, type |-> type, ttl |-> MAX_TTL,
     timestamp |-> ts, flags |-> NoFlags, sender |-> sender,
     recipient |-> <<>>, payload |-> payload, signature |-> <<>>]

WithRecipient(m, r) == [m EXCEPT !.recipient = r, !.flags.has_recipient = TRUE]
WithSignature(m, s) == [m EXCEPT !.signature = s, !.flags.has_signature = TRUE]

\* ProtocolMessage::calculate_size and fits_in_ble_packet.
CalculateSize(m) == 13 + 8 + Bit(m.flags.has_recipient, 8)
                    + Len(m.payload) + Bit(m.flags.has_signature, 64)
FitsInBlePacket(m) == CalculateSize(m) <= MAX_PAYLOAD_SIZE

Ok(v) == [ok |-> TRUE, val |-> v]
Err(e) == [ok |-> FALSE, err |-> e]

\* BitchatProtocol::encode.
Encode(m) ==
    LET buffer == <<m.version, m.type, m.ttl>> \o ToBE(m.timestamp, 8)
                  \o <<ToByte(m.flags)>> \o ToBE(Len(m.payload) % 65536, 2)
                  \o m.sender \o m.recipient \o m.payload \o m.signature
    IN  IF Len(buffer) > MAX_PAYLOAD_SIZE THEN Err("TooLarge") ELSE Ok(buffer)

\* BitchatProtocol::decode.  Offsets are 1-based; each early return of the
\* code is one branch, in the code's order.
Decode(data) ==
    LET flags == FromByte(data[12])
        plen  == FromBE(SubSeq(data, 13, 14))
        poff  == IF flags.has_recipient THEN 30 ELSE 22
        soff  == poff + plen
    IN  IF Len(data) < 13 THEN Err("TooShort")
        ELSE IF data[1] # PROTOCOL_VERSION THEN Err("BadVersion")
        ELSE IF 14 > Len(data) THEN Err("MissingLength")
        ELSE IF 22 > Len(data) THEN Err("MissingSender")
        ELSE IF flags.has_recipient /\ 30 > Len(data) THEN Err("MissingRecipient")
        ELSE IF soff > Len(data) THEN Err("PayloadMismatch")
        ELSE IF flags.has_signature /\ soff + 64 > Len(data) THEN Err("MissingSignature")
        ELSE Ok([version |-> data[1], type |-> FromU8(data[2]), ttl |-> data[3],
                 timestamp |-> FromBE(SubSeq(data, 4, 11)), flags |-> flags,
                 sender |-> SubSeq(data, 15, 22),
                 recipient |-> IF flags.has_recipient THEN SubSeq(data, 23, 30) ELSE <<>>,
                 payload |-> SubSeq(data, poff + 1, soff),
                 signature |-> IF flags.has_signature
                               THEN SubSeq(data, soff + 1, soff + 64) ELSE <<>>])

\* The constructors: create_announce, create_message, create_delivery_ack,
\* optionally signed with with_signature.  A JSON payload is a run of
\* PayloadByte of the chosen length.
PayloadByte == 123
CreateAnnounce(n, ts) == New(Announce, OwnId, Fill(PayloadByte, n), ts)
CreateMessage(n, ts, r) ==
    LET m == New(Message, OwnId, Fill(PayloadByte, n), ts)
    IN  IF r = <<>> THEN m ELSE WithRecipient(m, r)
CreateDeliveryAck(n, ts) ==
    WithRecipient(New(DeliveryAck, OwnId, Fill(PayloadByte, n), ts), PeerId)

Built == UNION {{CreateAnnounce(n, ts), CreateMessage(n, ts, <<>>),
                 CreateMessage(n, ts, PeerId), CreateDeliveryAck(n, ts)}
                : n \in PayloadLens, ts \in Timestamps}
Frames == Built \cup {WithSignature(m, Sig) : m \in Built}

\* handle_notification's match on message_type.
Handler(t) == CASE t = Announce -> "announce"
              []   t = Message -> "user"
              []   t \in {NoiseInit, NoiseResponse, NoiseFinish} -> "noise"
              []   OTHER -> "none"

-----------------------------------------------------------------------------
VARIABLES
    msg,        \* the ProtocolMessage a caller built and hands to send
    sent,       \* <<frame, bytes>> pairs written by send_message_to_peer
    refused,    \* frames encode refused (send returned the error)
    air,        \* byte strings written to the characteristic by any peer
    delivered   \* <<bytes, frame, handler>> forwarded on message_tx

vars == <<msg, sent, refused, air, delivered>>

Init ==
    /\ msg \in Frames
    /\ sent = {}
    /\ refused = {}
    /\ air = {}
    /\ delivered = {}

\* send_message_to_peer / broadcast_message: encode, then write; an encode
\* error is returned before anything is written.
Send(m) ==
    LET e == Encode(m) IN
    /\ \/ /\ e.ok
          /\ sent' = sent \cup {<<m, e.val>>}
          /\ air' = air \cup {e.val}
          /\ UNCHANGED refused
       \/ /\ ~e.ok
          /\ refused' = refused \cup {m}
          /\ UNCHANGED <<sent, air>>
    /\ UNCHANGED <<msg, delivered>>

\* What another peer may write instead of a frame of ours: a truncated
\* copy, a copy with a trailing byte, or one whose type a newer protocol
\* version defines.
Variants(b) == {SubSeq(b, 1, k) : k \in {12, 21, Len(b) - 1}}
               \cup {Append(b, 0), [b EXCEPT ![2] = 2]}

ForeignWrite(b, v) ==
    /\ b \in {p[2] : p \in sent}
    /\ v \in Variants(b)
    /\ air' = air \cup {v}
    /\ UNCHANGED <<msg, sent, refused, delivered>>

\* handle_notification: decode (a decode error ends the call), dispatch on
\* the type, forward on message_tx.
handle_notification(b) ==
    LET r == Decode(b) IN
    /\ r.ok
    /\ delivered' = delivered \cup {<<b, r.val, Handler(r.val.type)>>}
    /\ UNCHANGED <<msg, sent, refused, air>>

Next ==
    \/ Send(msg)
    \/ \E p \in sent : \E v \in Variants(p[2]) : ForeignWrite(p[2], v)
    \/ \E b \in air : handle_notification(b)

Spec == Init /\ [][Next]_vars

-----------------------------------------------------------------------------
TypeOK ==
    /\ msg \in Frames
    /\ sent \subseteq Frames \X Seq(Byte)
    /\ refused \subseteq Frames
    /\ air \subseteq Seq(Byte)
    /\ \A d \in delivered : d[1] \in air /\ d[3] \in {"announce", "user", "noise", "none"}

\* Codec round-trip (spec section 8): a frame decoded from bytes that
\* encode produced is the frame that was encoded, every field and flag bit
\* included.  It needs encode's layout, the flag packing and decode's
\* offsets for the optional fields to agree.
RoundTrip ==
    \A d \in delivered, p \in sent : d[1] = p[2] => d[2] = p[1]

\* fits_in_ble_packet promises encode will not refuse the frame.
FitsMeansEncodes ==
    \A m \in refused : ~FitsInBlePacket(m)

\* Decoding is strict (spec 4.1): bytes are accepted only when they are
\* exactly the encoding of the frame decode returns, so no trailing bytes.
StrictDecode ==
    \A d \in delivered : Encode(d[2]) = Ok(d[1])

\* handle_notification treats a frame as a user message only if its sender
\* wrote the Message type.
UserOnlyFromMessage ==
    \A d \in delivered : d[3] = "user" => d[1][2] = Message
=============================================================================
