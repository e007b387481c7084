------------------------------ MODULE Sessions ------------------------------
(***************************************************************************)
(* The link over several host programs.  A host may be killed, or exit(1)  *)
(* after a refused reply, at any moment; DTR then drops, and loop() returns*)
(* early until another host opens the port.  The early return does not     *)
(* touch the receive buffer: what the dead host left in it, a piece of a   *)
(* request or all of it, is what the next session starts with.             *)
(*                                                                         *)
(* External: closing the port discards the replies nobody read, and USB    *)
(* may lose the tail of what the dead host wrote.                          *)
(***************************************************************************)
EXTENDS Link

CONSTANTS FirstLevels,  \* the first request of every program: Runner::reset
          MaxHosts,     \* bound: programs that open the port
          MaxCuts       \* bound: requests that lose their tail

ASSUME SessionsAssumption ==
    FirstLevels \in Levels /\ MaxHosts \in Nat /\ MaxCuts \in Nat

VARIABLES
    dtr,      \* a host has the port open
    fresh,    \* the current host has not sent anything yet
    hosts,    \* programs started so far
    cuts,     \* requests cut so far
    refused,  \* hosts that gave up on a refused reply
    rushed    \* a program ended before the bridge was through with its bytes

tally == <<hosts, cuts, refused, rushed>>
svars == <<vars, dtr, fresh, tally>>

SInit ==
    /\ Init
    /\ dtr = FALSE /\ fresh = TRUE
    /\ hosts = 0 /\ cuts = 0 /\ refused = 0 /\ rushed = FALSE

-----------------------------------------------------------------------------
\* open() and configure_serial_port: asserts DTR, flushes nothing.
Open ==
    /\ ~dtr /\ hosts < MaxHosts
    /\ dtr' = TRUE /\ fresh' = TRUE
    /\ hosts' = hosts + 1
    /\ UNCHANGED <<vars, cuts, refused, rushed>>

HostWrite ==
    /\ dtr
    /\ write_serial
    /\ fresh => req' = FirstLevels
    /\ fresh' = FALSE
    /\ UNCHANGED <<dtr, tally>>

HostRead ==
    /\ dtr
    /\ read_serial
    /\ refused' = IF host' = "failed" THEN refused + 1 ELSE refused
    /\ UNCHANGED <<dtr, fresh, hosts, cuts, rushed>>

UsbDeliver ==
    /\ dtr
    /\ Deliver
    /\ UNCHANGED <<dtr, fresh, tally>>

\* loop() with Serial.dtr(): one loop_prod.
Loop ==
    /\ dtr
    /\ loop_prod
    /\ UNCHANGED <<dtr, fresh, tally>>

\* The host is gone.  k of the bytes it had written still arrive.
Close(k) ==
    /\ dtr
    /\ dtr' = FALSE
    /\ rx' = rx \o SubSeq(wire, 1, k)
    /\ wire' = << >> /\ tx' = << >> /\ got' = << >>
    /\ host' = "ready"
    /\ UNCHANGED <<req, result, pins, sample, fresh, hosts, refused>>

CloseClean ==
    /\ Close(Len(wire))
    /\ rushed' = (rushed \/ wire # << >> \/ UnknownType \/ CompleteMsg)
    /\ UNCHANGED cuts

CloseCut ==
    /\ cuts < MaxCuts
    /\ \E k \in 0 .. Len(wire) - 1 : Close(k)
    /\ cuts' = cuts + 1
    /\ UNCHANGED rushed

-----------------------------------------------------------------------------
SNext ==
    Open \/ HostWrite \/ HostRead \/ UsbDeliver \/ Loop \/ CloseClean \/ CloseCut

SSpec == SInit /\ [][SNext]_svars

\* As in Link, while a host is there.
SFairSpec ==
    SSpec /\ WF_svars(UsbDeliver) /\ WF_svars(Loop) /\ WF_svars(HostRead)

-----------------------------------------------------------------------------
(* Properties.                                                             *)

STypeOK ==
    /\ TypeOK
    /\ dtr \in BOOLEAN /\ fresh \in BOOLEAN /\ rushed \in BOOLEAN
    /\ hosts \in 0 .. MaxHosts /\ cuts \in 0 .. MaxCuts /\ refused \in 0 .. MaxHosts

\* try_read_msg never waits for bytes that will not come: whatever a dead
\* host left in the receive buffer, a host that waits for a reply gets one,
\* or an error, unless it goes away itself.
WaitingHostIsAnswered == (dtr /\ host = "waiting") ~> (~dtr \/ host # "waiting")

\* Dying between requests, or between a whole request and its reply, never
\* breaks the framing for the programs that follow: without a cut nobody is
\* refused.
OnlyCutsDesynchronise == cuts = 0 => host # "failed"

\* What try_read_msg takes off the receive buffer for a type byte.
Taken(type) == IF get_msg_size(type) = 0 THEN 1 ELSE get_msg_size(type)

\* Wherever in the first request the bridge takes a byte for a type, what it
\* then takes for a message ends within the request.  The request of
\* Runner::reset is like that; one with a MSG_PINS byte inside is not.
FirstRequestEnds ==
    LET f == PinsFrame(FirstLevels)
    IN  \A i \in 2 .. Len(f) : i + Taken(f[i]) <= Len(f) + 1

\* The remains of one cut request, together with the reset request of the
\* next program, make up messages the bridge refuses.  These use up all the
\* remains, so one program pays for one cut - provided the bridge gets to the
\* end of them before that program closes the port.
CutCostsOneSession == ~rushed => refused <= cuts

\* docs/protocol.md "the bridge replies only after the half-cycle has been
\* fully handled, so the response itself is the synchronization point": the
\* reply a host accepts is the sample taken after its own request was applied.
ReplyAnswersRequest ==
    [][EndRead /\ GoodReply(got) => pins = req /\ result' = sample]_svars

\* docs/development-guide-rust.md "functionally equivalent on the wire": as in
\* the Rust firmware, which drops a partial message when DTR drops, a program
\* that sends well-formed requests is not refused because of its predecessor.
WellFormedIsServed == refused = 0

=============================================================================
