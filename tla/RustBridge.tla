----------------------------- MODULE RustBridge -----------------------------
(***************************************************************************)
(* The Rust firmware under the host programs of Sessions.  Where the C++   *)
(* firmware waits until a whole message is in the receive buffer, this one *)
(* takes up to 64 bytes at a time out of the USB endpoint (rx, here) and   *)
(* feeds them one by one to an Accumulator; and where the C++ firmware     *)
(* leaves the rest to the USB core, this one waits in send_msg until the   *)
(* endpoint takes the reply.  Closing the port does not interrupt it.      *)
(*                                                                         *)
(* External: an endpoint holds one packet at a time; a reply no driver has *)
(* fetched when the port closes is fetched when it opens again.            *)
(***************************************************************************)
EXTENDS Sessions

CONSTANT ReadSize  \* let mut buf = [0u8; 64]

ASSUME RustAssumption == ReadSize \in Nat /\ ReadSize > 0

VARIABLES
    chunk,    \* bytes of the latest read that push has not been given yet
    acc,      \* the Accumulator: buf[..len]
    out,      \* the message send_msg is in the middle of, if any
    inep,     \* the packet in the IN endpoint, if any
    noticed,  \* history: the firmware has polled since the port was closed
    clean,    \* history: so far no program met remains but those in acc
    torn      \* history: clear dropped the head of a request and not its tail

rustVars == <<chunk, acc, out, inep>>
rustHistory == <<noticed, clean, torn>>
rvars == <<svars, rustVars, rustHistory>>

RInit ==
    /\ SInit
    /\ chunk = << >> /\ acc = << >> /\ out = << >> /\ inep = << >>
    /\ noticed = TRUE /\ clean = TRUE /\ torn = FALSE

-----------------------------------------------------------------------------
\* The host programs and USB.

Remains == chunk # << >> \/ rx # << >> \/ out # << >> \/ inep # << >>

OpenPort ==
    /\ Open
    /\ clean' = (clean /\ noticed /\ ~Remains)
    /\ UNCHANGED <<rustVars, noticed, torn>>

Write  == HostWrite /\ UNCHANGED <<rustVars, rustHistory>>
Read   == HostRead /\ UNCHANGED <<rustVars, rustHistory>>
Arrive == UsbDeliver /\ UNCHANGED <<rustVars, rustHistory>>

\* The driver of an open port fetches the reply.
Fetch ==
    /\ dtr /\ inep # << >>
    /\ tx' = tx \o inep
    /\ inep' = << >>
    /\ UNCHANGED <<hostVars, bridgeVars, wire, rx, dtr, fresh, tally,
                   chunk, acc, out, rustHistory>>

\* What the firmware and its endpoints hold stays.
DieClean ==
    /\ CloseClean
    /\ noticed' = FALSE
    /\ UNCHANGED <<rustVars, clean, torn>>

DieCut ==
    /\ CloseCut
    /\ noticed' = FALSE
    /\ UNCHANGED <<rustVars, clean, torn>>

-----------------------------------------------------------------------------
\* The firmware: one pass of the loop in main, which is between two passes
\* when it has nothing to push and nothing to send.

BetweenPasses == chunk = << >> /\ out = << >>

firmwareOnly == UNCHANGED <<hostVars, wire, tx, dtr, fresh, tally, clean>>

\* !serial.dtr(): the bytes in the endpoint stay where they are.
PollNoHost_KeepsPartial ==
    /\ BetweenPasses /\ ~dtr
    /\ noticed' = TRUE /\ UNCHANGED torn
    /\ UNCHANGED <<bridgeVars, rx, acc, chunk, out, inep>> /\ firmwareOnly

PollNoHost ==
    /\ BetweenPasses /\ ~dtr
    /\ noticed' = TRUE
    /\ acc' = << >>
    /\ torn' = (torn \/ (acc # << >> /\ rx # << >>))
    /\ UNCHANGED <<bridgeVars, rx, chunk, out, inep>> /\ firmwareOnly

\* serial.read
PollRead_Clears ==
    /\ BetweenPasses /\ dtr
    /\ \E k \in 1 .. Len(rx) :
          /\ k <= ReadSize
          /\ chunk' = SubSeq(rx, 1, k)
          /\ rx' = SubSeq(rx, k + 1, Len(rx))
    /\ acc' = << >>
    /\ UNCHANGED <<bridgeVars, out, inep, noticed, torn>> /\ firmwareOnly

PollRead ==
    /\ BetweenPasses /\ dtr
    /\ \E k \in 1 .. Len(rx) :
          /\ k <= ReadSize
          /\ chunk' = SubSeq(rx, 1, k)
          /\ rx' = SubSeq(rx, k + 1, Len(rx))
    /\ UNCHANGED <<bridgeVars, acc, out, inep, noticed, torn>> /\ firmwareOnly

\* What push has of a message once it has taken the next byte of the chunk.
Pushed == Append(acc, Head(chunk))

Unknown == acc = << >> /\ get_msg_size(Head(chunk)) = 0

Complete_OneOver == ~Unknown /\ Len(Pushed) > get_msg_size(Pushed[1])
Complete == ~Unknown /\ Len(Pushed) >= get_msg_size(Pushed[1])

RejectWith(code) == out' = ErrorFrame(code) /\ UNCHANGED bridgeVars

\* cpu.apply, handle_cycle, sample and the reply.
ServePushed ==
    /\ pins' = DataOf(Pushed)
    /\ \E s \in Levels : sample' = s /\ out' = PinsFrame(s)

\* acc.push(byte) and what main does about the event it returns.
push ==
    /\ out = << >> /\ chunk # << >>
    /\ chunk' = Tail(chunk)
    /\ acc' = IF Unknown \/ Complete THEN << >> ELSE Pushed
    /\ IF Unknown THEN RejectWith(ERR_INVALID_MSG_TYPE)
       ELSE IF ~Complete THEN UNCHANGED <<out, bridgeVars>>
       ELSE IF Pushed[1] # MSG_PINS THEN RejectWith(ERR_INVALID_MSG_TYPE)
       ELSE IF ~validate_checksum(Pushed) THEN RejectWith(ERR_INVALID_CHECKSUM)
       ELSE ServePushed
    /\ UNCHANGED <<rx, inep, noticed, torn>> /\ firmwareOnly

\* The end of send_msg: the endpoint is free and takes the message.
send_msg_Overwrites ==
    /\ out # << >>
    /\ inep' = out
    /\ out' = << >>
    /\ UNCHANGED <<bridgeVars, rx, chunk, acc, noticed, torn>> /\ firmwareOnly

send_msg ==
    /\ out # << >> /\ inep = << >>
    /\ inep' = out
    /\ out' = << >>
    /\ UNCHANGED <<bridgeVars, rx, chunk, acc, noticed, torn>> /\ firmwareOnly

Firmware == PollNoHost \/ PollRead \/ push \/ send_msg

-----------------------------------------------------------------------------
RNext ==
    OpenPort \/ Write \/ Read \/ Arrive \/ Fetch \/ DieClean \/ DieCut \/ Firmware

RSpec == RInit /\ [][RNext]_rvars

\* main loops for ever, and USB and a blocked read() do their part while the
\* port is open.
RFairSpec ==
    RSpec /\ WF_rvars(Firmware) /\ WF_rvars(Fetch) /\ WF_rvars(Arrive) /\ WF_rvars(Read)

-----------------------------------------------------------------------------
(* Properties.                                                             *)

RTypeOK ==
    /\ STypeOK
    /\ chunk \in Bytes /\ acc \in Bytes /\ out \in Bytes /\ inep \in Bytes
    /\ acc # << >> => Len(acc) < get_msg_size(acc[1])
    /\ noticed \in BOOLEAN /\ clean \in BOOLEAN /\ torn \in BOOLEAN

\* The wire as the C++ firmware would have it: the receive buffer is all that
\* is not served yet, the reply is written when it is made.
CPP == INSTANCE Link WITH
    rx <- acc \o chunk \o rx,
    tx <- tx \o inep \o out

\* docs/development-guide-rust.md "functionally equivalent on the wire": while
\* a program has the port, every step of the Rust firmware is a step of the
\* C++ firmware or no step at all - whatever earlier programs left behind, and
\* however the bytes are cut into reads.
WireEquivalent == [][dtr /\ dtr' => CPP!Next \/ UNCHANGED CPP!vars]_rvars

\* protocol.rs, clear: "drops any partially accumulated message (e.g. when the
\* host disconnects mid-frame)".  If the firmware polls while the port is
\* closed, and the dead program left no bytes in the endpoints, then half a
\* request in the accumulator does the next program no harm.
DisconnectDropsPartial == clean => refused = 0

\* The other side of clear: it also drops the head of a request whose tail
\* still waits in the endpoint.  That, or a request USB cut, is the only way a
\* program can come to be refused; to die in the middle of send_msg, or with
\* requests and replies unread, never is.
OnlyTearsDesynchronise == cuts = 0 /\ ~torn => host # "failed"

=============================================================================
