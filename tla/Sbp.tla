-------------------------------- MODULE Sbp --------------------------------
(***************************************************************************)
(* The control protocol's wire format (src/common/sbp.c) and the way both  *)
(* sides read it: one read, one frame.  A stream of frames is written, a   *)
(* read takes some bytes off its front, and what it took is deserialized.  *)
(*                                                                         *)
(* Bytes have BYTE values instead of 256, and every field its number of    *)
(* bytes, so that field widths, byte order, sign extension and lengths are *)
(* those of the code.                                                      *)
(***************************************************************************)
EXTENDS Integers, Sequences

CONSTANTS
    BYTE,      \* the number of values of a byte: 256 in the code
    Outgoing,  \* the messages that are sent
    MAX_SENT   \* bound: frames in a stream

ASSUME ByteAssumption == BYTE \in Nat /\ BYTE > 5 /\ BYTE % 2 = 0
ASSUME SentAssumption == MAX_SENT \in Nat

\* The number of values of a uint16_t, a uint32_t and a uint64_t.
U16 == BYTE * BYTE
U32 == U16 * U16
U64 == U32 * U32

SBP_VERSION == 1
SBP_HEADER_SIZE == 8
SBP_MAX_PAYLOAD == U16 - 1
SBP_MAX_FRAME_SIZE == SBP_HEADER_SIZE + SBP_MAX_PAYLOAD

HELLO == 1
ACK == 2
SET_TIME == 3
SET_SEED == 4
REGISTER_PROCESS == 5

\* Two, four and eight bytes, the low one first: the low half, then the high one.
write_le16(v) == <<v % BYTE, v \div BYTE>>
write_le32(v) == write_le16(v % U16) \o write_le16(v \div U16)
write_le64(v) == write_le32(v % U32) \o write_le32(v \div U32)

\* The integer whose bytes follow the first at bytes of p.
read_le16(p, at) == p[at + 1] + BYTE * p[at + 2]
read_le32(p, at) == read_le16(p, at) + U16 * read_le16(p, at + 2)
read_le64(p, at) == read_le32(p, at) + U32 * read_le32(p, at + 4)

\* Mutant: no sign.
to_same(v, range) == v

\* The casts between a signed type and the unsigned one of the same width.
to_signed(v, range) == IF v < range \div 2 THEN v ELSE v - range
to_unsigned(v, range) == v % range

sbp_payload_len_for_type(type) ==
    CASE type = SET_TIME -> 8 + 4
      [] type = SET_SEED -> 8
      [] type = REGISTER_PROCESS -> 4 + 4
      [] OTHER -> 0

Error(status) == [status |-> status]

\* sbp_encode_frame: header and payload, if they fit into cap bytes.
sbp_encode_frame(version, type, flags, payload, cap) ==
    IF Len(payload) > SBP_MAX_PAYLOAD THEN Error("INVALID_LENGTH")
    ELSE IF cap < SBP_HEADER_SIZE + Len(payload) THEN Error("BUFFER_TOO_SMALL")
    ELSE [status |-> "OK",
          frame  |-> <<version, type>> \o write_le16(flags) \o write_le32(Len(payload))
                     \o payload]

\* The switch of sbp_serialize_message: the bytes of the payload.
PayloadBytes(type, payload) ==
    CASE type = SET_TIME -> write_le64(to_unsigned(payload.tv_sec, U64))
                            \o write_le32(to_unsigned(payload.tv_nsec, U32))
      [] type = SET_SEED -> write_le64(payload.seed)
      [] type = REGISTER_PROCESS -> write_le32(payload.pid) \o write_le32(payload.slot)
      [] OTHER -> <<>>

\* sbp_serialize_message.
sbp_serialize_message(msg, cap) ==
    IF msg.type \notin HELLO .. REGISTER_PROCESS THEN Error("INVALID_TYPE")
    ELSE sbp_encode_frame(msg.version, msg.type, msg.flags,
                          PayloadBytes(msg.type, msg.payload), cap)

\* Mutant: bytes after the payload are accepted.
LongEnough(frame, len) == Len(frame) >= SBP_HEADER_SIZE + len

LengthFits(frame, len) == Len(frame) = SBP_HEADER_SIZE + len

\* sbp_decode_frame: the header, if the frame has exactly the length it states.
sbp_decode_frame(frame) ==
    IF Len(frame) < SBP_HEADER_SIZE THEN Error("INVALID_LENGTH")
    ELSE LET len == read_le32(frame, 4) IN
         IF len > SBP_MAX_PAYLOAD \/ ~LengthFits(frame, len)
         THEN Error("INVALID_LENGTH")
         ELSE [status |-> "OK", version |-> frame[1], type |-> frame[2],
               flags |-> read_le16(frame, 2), payload_len |-> len]

\* The switch of sbp_deserialize_message: the payload of a frame.
PayloadOf(type, frame) ==
    CASE type = SET_TIME ->
            [tv_sec |-> to_signed(read_le64(frame, SBP_HEADER_SIZE), U64),
             tv_nsec |-> to_signed(read_le32(frame, SBP_HEADER_SIZE + 8), U32)]
      [] type = SET_SEED -> [seed |-> read_le64(frame, SBP_HEADER_SIZE)]
      [] type = REGISTER_PROCESS ->
            [pid |-> read_le32(frame, SBP_HEADER_SIZE),
             slot |-> read_le32(frame, SBP_HEADER_SIZE + 4)]
      [] OTHER -> <<>>

\* sbp_deserialize_message.
sbp_deserialize_message(frame) ==
    LET h == sbp_decode_frame(frame) IN
    IF h.status # "OK" THEN h
    ELSE IF h.version # SBP_VERSION THEN Error("UNSUPPORTED_VERSION")
    ELSE IF h.type \notin HELLO .. REGISTER_PROCESS THEN Error("INVALID_TYPE")
    ELSE IF h.payload_len # sbp_payload_len_for_type(h.type) THEN Error("INVALID_LENGTH")
    ELSE [status |-> "OK",
          msg |-> [type |-> h.type, version |-> h.version, flags |-> h.flags,
                   payload |-> PayloadOf(h.type, frame)]]

\* What sbp_message_t can hold: a payload goes with its type.
Signed(range) == -(range \div 2) .. range \div 2 - 1
Unsigned(range) == 0 .. range - 1
Payloads(type) ==
    CASE type = SET_TIME -> [tv_sec : Signed(U64), tv_nsec : Signed(U32)]
      [] type = SET_SEED -> [seed : Unsigned(U64)]
      [] type = REGISTER_PROCESS -> [pid : Unsigned(U32), slot : Unsigned(U32)]
      [] OTHER -> {<<>>}

\* Every sender states the version (linbox.c:111, process.c:156, main.c:54).
Message(msg) ==
    msg \in [type : HELLO .. REGISTER_PROCESS, version : {SBP_VERSION},
             flags : Unsigned(U16), payload : Payloads(msg.type)]

ASSUME OutgoingAssumption == \A msg \in Outgoing : Message(msg)

-----------------------------------------------------------------------------
VARIABLES
    sent,    \* the messages of the stream, in order
    stream,  \* its bytes that were not read yet
    frame,   \* the bytes the last read took
    got      \* what deserializing them gave

vars == <<sent, stream, frame, got>>

Init == sent = <<>> /\ stream = <<>> /\ frame = <<>> /\ got = Error("NOTHING")

\* The bytes of a message; senders have a buffer of SBP_MAX_FRAME_SIZE bytes.
FrameOf(msg) == sbp_serialize_message(msg, SBP_MAX_FRAME_SIZE).frame

\* A whole message is written.
Send(msg) ==
    /\ frame = <<>> /\ Len(sent) < MAX_SENT
    /\ sbp_serialize_message(msg, SBP_MAX_FRAME_SIZE).status = "OK"
    /\ sent' = Append(sent, msg)
    /\ stream' = stream \o FrameOf(msg)
    /\ UNCHANGED <<frame, got>>

\* A read takes n bytes: a part of a frame, one frame, or more than one.
Read(n) ==
    /\ frame = <<>> /\ n <= SBP_MAX_FRAME_SIZE
    /\ frame' = SubSeq(stream, 1, n)
    /\ stream' = SubSeq(stream, n + 1, Len(stream))
    /\ got' = sbp_deserialize_message(frame')
    /\ UNCHANGED sent

\* One byte of a whole frame that was read was something else.
Garble(k, b) ==
    /\ Len(sent) = 1 /\ frame = FrameOf(sent[1])
    /\ frame' = [frame EXCEPT ![k] = b]
    /\ got' = sbp_deserialize_message(frame')
    /\ UNCHANGED <<sent, stream>>

Next ==
    \/ \E msg \in Outgoing : Send(msg)
    \/ \E n \in 1 .. Len(stream) : Read(n)
    \/ \E k \in 1 .. Len(frame), b \in 0 .. BYTE - 1 : Garble(k, b)

Spec == Init /\ [][Next]_vars

-----------------------------------------------------------------------------
\* A frame that deserializes is the frame of the message it gives, to the byte:
\* two different frames never mean the same, and serializing loses nothing
\* (sbp.c:132-217).
Canonical == got.status = "OK" => frame = FrameOf(got.msg)

\* What a read took is accepted exactly if it is one whole frame of the stream,
\* and then it gives the message that was sent, every field with its value and
\* its sign: a part of a frame, or a frame and the beginning of the next one, is
\* an error (sbp.c:100-130, main.c:108-119).
OneReadOneFrame ==
    [][\A n \in 1 .. Len(stream) : Read(n) =>
          IF n = Len(FrameOf(sent[1]))
          THEN got'.status = "OK" /\ got'.msg = sent[1]
          ELSE got'.status # "OK"]_vars
=============================================================================
