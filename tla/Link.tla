-------------------------------- MODULE Link --------------------------------
(***************************************************************************)
(* The serial link between one host program (examples/cpp or examples/rust,*)
(* whose write_serial / read_serial do the same) and the C++ firmware:     *)
(* try_read_msg and loop_prod.  USB delivers the host's bytes in chunks of *)
(* any size while the firmware polls, and the host reads replies piecewise.*)
(*                                                                         *)
(* What happens on the pins between two messages is Machine's subject:     *)
(* here a served request samples any levels at all.                        *)
(***************************************************************************)
EXTENDS Protocol

CONSTANT Levels  \* the payloads the host may send and the pins may show

ASSUME LevelsAssumption == Levels \subseteq Payload /\ Levels # {}

VARIABLES
    host,    \* "ready" to send, "waiting" in read_serial, or "failed" (exit(1))
    req,     \* payload of the latest request
    got,     \* what read_exact has collected of the reply
    result,  \* the pins object after the latest good reply
    wire,    \* bytes the host wrote that USB has not delivered yet
    rx,      \* the Serial receive buffer of the Teensy
    tx,      \* bytes the bridge wrote that the host has not read
    pins,    \* the payload set_pins_state applied last
    sample   \* the payload get_pins_state read last

hostVars   == <<host, req, got, result>>
bridgeVars == <<pins, sample>>
vars == <<host, req, got, result, wire, rx, tx, pins, sample>>

Init ==
    /\ host = "ready" /\ got = << >> /\ wire = << >> /\ rx = << >> /\ tx = << >>
    /\ \E p \in Levels : req = p /\ result = p /\ pins = p /\ sample = p

-----------------------------------------------------------------------------
\* The host program.

\* Its checksum is a function of its own, not the firmware's compute_checksum.
HostChecksum_PayloadOnly(type, payload) ==
    LET sum[n \in 0 .. BUFFSIZE] ==
            IF n = 0 THEN 0 ELSE (sum[n - 1] + payload[n]) % Radix
    IN  sum[BUFFSIZE]
HostChecksum(type, payload) ==
    LET sum[n \in 0 .. BUFFSIZE] ==
            IF n = 0 THEN type ELSE (sum[n - 1] + payload[n]) % Radix
    IN  sum[BUFFSIZE]

RequestFrame(payload) == <<MSG_PINS>> \o payload \o <<HostChecksum(MSG_PINS, payload)>>

write_serial ==
    /\ host = "ready"
    /\ \E p \in Levels :
          /\ req' = p
          /\ wire' = wire \o RequestFrame(p)
    /\ host' = "waiting"
    /\ got' = << >>
    /\ UNCHANGED <<result, rx, tx, pins, sample>>

\* How many bytes read_serial wants in all, given the ones it has: the type,
\* then what that type calls for (nothing more for an unexpected type).
Wanted(bytes) ==
    IF bytes = << >> THEN 1
    ELSE IF bytes[1] = MSG_ERROR THEN 3
    ELSE IF bytes[1] = MSG_PINS THEN BUFFSIZE + 2
    ELSE 1

read_exact ==
    /\ host = "waiting"
    /\ \E k \in 1 .. Len(tx) :
          /\ Len(got) + k <= Wanted(got)
          /\ got' = got \o SubSeq(tx, 1, k)
          /\ tx' = SubSeq(tx, k + 1, Len(tx))
    /\ UNCHANGED <<host, req, result, wire, rx, pins, sample>>

GoodReply(bytes) ==
    bytes[1] = MSG_PINS /\ HostChecksum(MSG_PINS, DataOf(bytes)) = ChecksumOf(bytes)

ReplyComplete == host = "waiting" /\ got # << >> /\ Len(got) = Wanted(got)

\* The end of read_serial.  An error message, an unexpected type or a checksum
\* mismatch make it exit(1).
EndRead ==
    /\ ReplyComplete
    /\ IF GoodReply(got)
       THEN result' = DataOf(got) /\ host' = "ready" /\ got' = << >>
       ELSE host' = "failed" /\ UNCHANGED <<result, got>>
    /\ UNCHANGED <<req, wire, rx, tx, pins, sample>>

-----------------------------------------------------------------------------
\* USB moves any prefix of what is in flight into the receive buffer.
Deliver ==
    /\ \E k \in 1 .. Len(wire) :
          /\ rx' = rx \o SubSeq(wire, 1, k)
          /\ wire' = SubSeq(wire, k + 1, Len(wire))
    /\ UNCHANGED <<host, req, got, result, tx, pins, sample>>

-----------------------------------------------------------------------------
\* The firmware: one loop_prod whose try_read_msg returns true.

PeekType == rx[1]
Rest_KeepsChecksum(n) == SubSeq(rx, n, Len(rx))
Rest(n)  == SubSeq(rx, n + 1, Len(rx))

UnknownType == rx # << >> /\ get_msg_size(PeekType) = 0

CompleteMsg_WaitsForMore ==
    /\ rx # << >>
    /\ get_msg_size(PeekType) # 0
    /\ Len(rx) > get_msg_size(PeekType)

CompleteMsg ==
    /\ rx # << >>
    /\ get_msg_size(PeekType) # 0
    /\ Len(rx) >= get_msg_size(PeekType)

\* send_error
Reject(code) ==
    /\ tx' = tx \o ErrorFrame(code)
    /\ UNCHANGED bridgeVars

\* set_pins_state, handle_cycle, get_pins_state and the reply.
Serve ==
    /\ pins' = DataOf(rx)
    /\ \E s \in Levels :
          /\ sample' = s
          /\ tx' = tx \o PinsFrame(s)

\* Of a message of no known type, try_read_msg eats the type byte only.
loop_prod ==
    /\ UnknownType \/ CompleteMsg
    /\ rx' = Rest(IF UnknownType THEN 1 ELSE get_msg_size(PeekType))
    /\ IF PeekType # MSG_PINS THEN Reject(ERR_INVALID_MSG_TYPE)
       ELSE IF ~validate_checksum(rx) THEN Reject(ERR_INVALID_CHECKSUM)
       ELSE Serve
    /\ UNCHANGED <<host, req, got, result, wire>>

read_serial == read_exact \/ EndRead

-----------------------------------------------------------------------------
Next == write_serial \/ read_serial \/ Deliver \/ loop_prod

Spec == Init /\ [][Next]_vars

\* USB delivers, the firmware's loop() keeps being called, and a blocked
\* read() returns once there are bytes.  The host need not send anything.
FairSpec == Spec /\ WF_vars(Deliver) /\ WF_vars(loop_prod) /\ WF_vars(read_serial)

-----------------------------------------------------------------------------
(* Properties.                                                             *)

Bytes == Seq(Byte)

TypeOK ==
    /\ host \in {"ready", "waiting", "failed"}
    /\ req \in Payload /\ result \in Payload /\ pins \in Payload /\ sample \in Payload
    /\ got \in Bytes /\ wire \in Bytes /\ rx \in Bytes /\ tx \in Bytes

Quiet == wire = << >> /\ rx = << >> /\ tx = << >> /\ got = << >>

\* The request is on its way: every byte of it is still in front of the
\* firmware and nothing has been answered.
Requested ==
    /\ rx \o wire = PinsFrame(req)
    /\ tx = << >> /\ got = << >>

\* The request has been served: it is gone, it is what was applied, and the
\* bytes that are still to be read complete the reply.
Answered ==
    /\ rx = << >> /\ wire = << >>
    /\ pins = req
    /\ got \o tx = PinsFrame(sample)

\* docs/protocol.md "every write to the bridge must be followed by a read":
\* with a host that obeys, every byte in flight belongs to the one request or
\* to the one reply to it, however USB cuts them up, and no request or reply
\* is ever refused.
Lockstep ==
    \/ host = "ready" /\ Quiet
    \/ host = "waiting" /\ (Requested \/ Answered)

\* A half-cycle exchange is a remote procedure call (module HalfCycle): the
\* bridge applies the payload of a request once, after the host sent all of
\* it, and what the host reads is the sample taken for this very request.
HC == INSTANCE HalfCycle WITH
    stage <- IF host = "ready" THEN "idle"
             ELSE IF tx = << >> /\ got = << >> THEN "called"
             ELSE "executed",
    arg <- req,
    Levels <- Levels

ImplementsHalfCycle == HC!Spec

\* Every request gets its good reply: the two sides never both wait for bytes.
CallsReturn == host = "waiting" ~> host = "ready"

=============================================================================
