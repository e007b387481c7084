------------------------------ MODULE Protocol ------------------------------
(***************************************************************************)
(* The wire format of the bridge: src/src/protocol.cpp, with the message   *)
(* type that src/src/io.cpp hands to loop_prod.  A frame is a type byte,   *)
(* a payload whose length the type determines, and a checksum byte.        *)
(*                                                                         *)
(* A byte is an element of 0 .. Radix-1 and the payload of a pins message  *)
(* has BUFFSIZE bytes; on the device Radix = 256 and BUFFSIZE = 5.         *)
(***************************************************************************)
EXTENDS Integers, Sequences

CONSTANTS Radix,    \* number of values of a byte
          BUFFSIZE  \* payload bytes of a pins message

\* Three known message types and a fourth value that is not a type; a
\* non-empty payload.
ASSUME ProtocolAssumption ==
    /\ Radix \in Nat /\ Radix > 3
    /\ BUFFSIZE \in Nat /\ BUFFSIZE > 0

Byte == 0 .. (Radix - 1)

MSG_ERROR   == 0
MSG_STATUS  == 1
MSG_PINS    == 2

ERR_INVALID_MSG_TYPE == 1
ERR_INVALID_CHECKSUM == 2

Payload == [1 .. BUFFSIZE -> Byte]

-----------------------------------------------------------------------------
get_msg_size(type) ==
    IF type \in {MSG_ERROR, MSG_STATUS} THEN 3
    ELSE IF type = MSG_PINS THEN BUFFSIZE + 2
    ELSE 0

get_data_size(type) ==
    LET size == get_msg_size(type)
    IN  IF size < 2 THEN size ELSE size - 2

RunningSum_Wide(type, data) ==
    LET sum[n \in 0 .. Len(data)] == IF n = 0 THEN type ELSE sum[n - 1] + data[n]
    IN  sum

\* The uint8_t running sum of the type and the first n payload bytes.
RunningSum(type, data) ==
    LET sum[n \in 0 .. Len(data)] ==
            IF n = 0 THEN type ELSE (sum[n - 1] + data[n]) % Radix
    IN  sum

compute_checksum(type, data) ==
    IF data = << >> THEN 0 ELSE RunningSum(type, data)[Len(data)]

-----------------------------------------------------------------------------
\* msg_to_buff: type, payload, checksum.
Frame(type, data) == <<type>> \o data \o <<compute_checksum(type, data)>>

PinsFrame(data)  == Frame(MSG_PINS, data)
ErrorFrame(code) == Frame(MSG_ERROR, <<code>>)

\* The fields of the message at the head of a byte sequence that holds one.
TypeOf(bytes)     == bytes[1]
DataOf(bytes)     == SubSeq(bytes, 2, 1 + get_data_size(bytes[1]))
ChecksumOf(bytes) == bytes[2 + get_data_size(bytes[1])]

validate_checksum(bytes) ==
    ChecksumOf(bytes) = compute_checksum(TypeOf(bytes), DataOf(bytes))

=============================================================================
