# Verification of teensy_6502_bridge

TLA+ models of the bridge between a W65C02 and a host program, checked with TLC
and, where the claim should not depend on the size of an instance, proved with
TLAPS. Paths below are relative to the repository.

## The system

A Teensy 4.1 sits on the bus of a real 65C02. A host program owns the clock and
the memory: for each half of a clock cycle it sends the levels it wants on the
40 pins (7 bytes: type, 5 bytes of payload, checksum), the bridge applies them,
samples all pins and sends these back in the same form.

| Part | Source | State | Operations | Correct when |
|---|---|---|---|---|
| Wire protocol | `src/protocol.cpp`, `src/protocol.hpp` | none | sizes, checksum, build and split a frame | what one side builds the other accepts; damage is noticed |
| Serial link | `src/io.cpp`, `loop_prod` in `teensy_6502_bridge.ino`; `read_serial`, `write_serial` in `examples/cpp/runner.cpp` | receive buffer, bytes in flight both ways | `try_read_msg`, serve or reject, write request, read reply | both sides agree on where messages begin; every request is answered, once, by its own reply |
| Sessions | `loop` in the .ino, `examples/cpp/main.cpp` | DTR, what a dead program left in the buffer | open, close, be killed | a program is not harmed by the one before it |
| Bus machine | `src/pins.cpp`, `src/cpu.cpp`, `runner.cpp`, `memory.cpp` | pins object, phase, latched address and direction; clock, reset, data latches and direction; memory | `reset`, `step`; `set_pins_state`, `handle_cycle`, `get_pins_state` | never two drivers on the bus; no write lost, doubled or misplaced; the CPU sees a memory; reset lasts two cycles |
| Front panel | `src/display.cpp` | ring buffer, drawn and not drawn, counters, time stamps, shown values | `display_capture`, `display_idle`, `display_refresh` | shows the signal, no edge that was not there, and catches up |
| Diagnostics | `src/diagnostics.cpp` | phase and indices of the test, verdict | `loop_diagnostics`: clock the CPU, watch its writes, report | PASSED means the wiring is right; a verdict is printed |
| Pin map, codecs | `src/pins.cpp`, `configuration.h`, `src/display.cpp`, `examples/cpp/pins.cpp`, `pin_utils.cpp`, `payload.rs`, `CpuPins` in `firmware-rust/src/main.rs`, `examples/rust/src/pins.rs` | none | payload to levels and back | all tables say the same of all signals |
| Rust firmware | `firmware-rust/src` | bytes read and not pushed, accumulator, reply being sent | read, push, clear, send, same pin work | the same on the wire as the C++ firmware; half a request is forgotten when the port closes |
| Host programs, step mode | `runner.cpp`, `examples/rust/src/runner.rs` | pins object, phase, cycle, latched address and direction, step counter | `reset`, `step`, `maybe_pause` | the two are the same; control lines keep their level; steps are counted right |
| CLI, debug mode, PCB | `main.cpp`, `src/debug.cpp`, `pcb/` | none | parse, print | |

Interaction: host and firmware exchange bytes over USB CDC, which delivers them
in pieces of any size; DTR tells the firmware whether a program has the port
open. The firmware is one loop, never interrupted in what it does to the pins,
and calls the display and the diagnostics from it. The CPU reacts to each edge
of PHI2 in its own time. The hard parts follow: bytes cut anywhere, programs
that die anywhere, a CPU whose outputs change while the firmware looks at them,
a ring buffer that overflows, time stamps that gate what is redrawn.
`PROJECT.json` lists the hazards at the lines where they bite.

## Modules

    Protocol    wire format            <- ProtocolProofs
    HalfCycle   abstract: a half-cycle is a remote procedure call
    Link        EXTENDS Protocol, implements HalfCycle      <- LinkProofs
    Sessions    EXTENDS Link: programs that die, DTR        <- SessionsProofs
    Ram         abstract: what the CPU should see
    Machine     runner + firmware pin work + CPU, implements Ram  <- MachineProofs
    RustBridge  EXTENDS Sessions: the Rust firmware, a refinement of Link  <- SessionsProofs
    PinMap      the 40 pins: wires, tables and codecs (operators only)  <- PinMapProofs
    Runners     EXTENDS PinMap: both hosts on both firmwares, pin by pin, step mode  <- RunnersProofs
    Display     front panel                                 <- DisplayProofs
    Diagnostics on-board test, faulty wiring, straying CPU  <- DiagnosticsProofs
    MC*         instances for TLC

**Protocol.** Bytes are `0 .. Radix-1` and the payload of a pins message has
`BUFFSIZE` bytes, so that proofs cover every width and TLC may take small ones.
`get_msg_size`, `get_data_size`, `compute_checksum`, `validate_checksum` are the
functions of `protocol.cpp`; `Frame` is `msg_to_buff`, `DataOf` and `ChecksumOf`
are the fields of `create_msg_from_bytes`. The checksum is a recursive function,
with the wrap at `Radix` in each step, and is 0 for a message with no payload,
as in the code.

**Link.** `wire`, `rx` and `tx` are the bytes on their way to the Teensy, in its
receive buffer, and on their way back. `Deliver` moves any prefix, `read_exact`
takes any prefix up to what `read_serial` wants. `loop_prod` is one call that
finds a message, with its three early returns; one that finds none changes
nothing. `Serve` covers `set_pins_state`, `handle_cycle`, `get_pins_state` and
the reply, because nothing else runs in between; the levels sampled are any.
`EndRead` is the end of `read_serial`, with `host = "failed"` for every
`exit(1)` in it (`panic!` in Rust). Both hosts, C++ and Rust, do the same here.
The host has a checksum function of its own in the code (`runner.cpp:24-31`) and
here (`HostChecksum`): `RequestFrame` puts it into a request and `GoodReply`
compares a reply with it, while the firmware validates and answers with
`compute_checksum`, so that a change on one side only is seen. The Rust firmware
and the Rust host have the same formulas; they are not modelled apart.

**Sessions.** Adds DTR and programs that come and go. `Close` takes the host
away at any moment: between requests, with a request in flight, with a reply
half read. `CloseClean` lets every byte written arrive, `CloseCut` loses a tail.
Unread replies go with the port (external: the driver discards them). The
early return of `loop()` at a low DTR leaves `rx` alone, which is the point.
Every program's first request is that of `Runner::reset`.

**Machine.** The runner is at a place in `reset()` or in the `step()` loop, the
firmware is at a place in `loop_prod` (`at`), and the CPU has `cpu` on its pins.
`write_lines` is `set_pins_state` up to the reset pin, including the PHI2 edge the
CPU acts on; `latch_data` is the rest of it, under the first read of RW;
`handle_cycle` reads RW again and sets the direction; `get_pins_state` samples.
After a falling edge the CPU's outputs change at any time before the sample
(`Settle`), so the two reads of RW may see the old or the new cycle, or one of each.
A bus with no driver, or two, reads as anything. A program is killed at any step
(`Kill`), the firmware finishes what it is doing, and the next program starts with a
new memory. That it starts only then, with the bridge idle, leaves out the late
requests of `sessions_stale`; Sessions has them, Machine has not. Payloads are
records of the levels that matter; IRQ, NMI, BE, SO, RDY, VP and ML play no part in
what is checked. History variables: `served` (the CPU's current cycle began under
the runner's eyes), `cpuMem` and `op` (what the CPU did to memory and saw of it),
`held` (edges during reset).

**RustBridge.** Puts the Rust firmware in the place of `loop()`. `rx` is the OUT
endpoint now. `PollRead` takes up to 64 bytes into `chunk`, cut anywhere;
`push` gives the next of them to the accumulator `acc` (`buf[..len]`; `total`
is a function of its first byte) and does what `main` does about the event;
`send_msg` ends when the IN endpoint has room, and until then nothing else of
the firmware runs, not even the look at DTR; `PollNoHost` is `acc.clear()`.
A reply nobody fetched waits for the next program (external), which takes it for
the reply to its own first request: the lag of `sessions_stale`, got another way.
`WireEquivalent` is the refinement: with `acc \o chunk \o rx` for the receive
buffer and `tx \o inep \o out` for the bytes on their way back, every step while
the port is open is a step of Link's `Next`, with any bytes left by any earlier
program. History variables: `noticed` (the firmware has polled since the port
closed), `clean` (nothing but the accumulator held remains when a program
started), `torn` (`clear` dropped a head whose tail was still in the endpoint).

**PinMap.** A number is the set of its one bits; a payload is five bytes, the
levels of the Teensy the set of its high pins. `pin_ids`, `get_pins_state` and
`write_pins` are the C++ firmware, `bits` to `sample` the Rust firmware,
`get_pin` to `set_buff` the C++ host, `from_be_bytes` to `PinsInto` the Rust
host, `decode_sample` the front panel. `ChipPin`, `ChipAddr`, `ChipData` and
`Wire` are the CPU's pinout and the wiring of the socket (external: the tables of
`docs/protocol.md` and `README.md`), so that the firmwares' tables are compared
with the hardware and not with one another.

**Runners.** The C++ and the Rust program side by side, each with its own Teensy
running either firmware (`setup.cpp`, `setup.rust`), the same CPU outputs and the
same commands. A step is one half-cycle of both: encode, `set_pins_state`,
`handle_cycle`, sample, decode, and the rest of the body of `reset()` or
`step()`, then `maybe_pause` with the user's command. `latch` is what the Teensy
drives, `out` the direction of the data pins. `print_state` and `maybe_pause` are
two operators, as they are two places in the code: `maybe_pause` alone sets the
step counter, and `due`, the lines the user is owed before the next prompt, goes
down with a line printed and with nothing else, so that a pause that prints
nothing, or a line the counter does not know of, shows. `op` and `chipMem` are what
the CPU has done. Machine has what happens inside a
half-cycle; here the CPU has settled.

**Display.** `display_capture`, `display_idle` and `display_refresh` are one
action each (the last has one per branch). `wave` holds the last columns drawn,
by the number of the sample, with whether they were joined to their left
neighbour; a `Field` is a readout: the value drawn last (`shown`) and the
text on the screen, blank or one value. `draw_chrome` blanks the text and sets
`shown` to a sentinel, and `Draw` leaves a readout alone whose value is `shown`. The
header has four of them, as `draw_header` compares four: address ($FFFF), data
($FF), R/W (high) and the indicators (all on). Time is kept
as ages up to the longest compared.

**Diagnostics.** The CPU runs the ROM as a list of its writes with any number of
other cycles in between; a `Stray` is a write of a CPU that has lost its way. A
fault of the wiring changes what arrives. `run_cycle` is two actions, split
where PHI2 rises. `MonitorData`, `MonitorAddress`, `MonitorHigh`, `Completion`
are the four cases of `monitor_write`. Two of its guards are left out, because
nothing can make them true: that for a verdict already reached, at
`diagnostics.cpp:235-238` (`run_cycle` has returned at 194-197 then), and that for
an index past the end, at 269-272 (the phase changes where the index gets there,
at 279-282).

## Runs

| Run | Instance | What it shows |
|---|---|---|
| `link` | 4 byte values, 2-byte payloads in which every kind of type byte occurs | `Lockstep`: every byte in flight belongs to the one request or its reply. `ImplementsHalfCycle`: the exchange is a remote procedure call. `CallsReturn`: no request goes unanswered. A checksum that host and firmware compute differently breaks `ImplementsHalfCycle` |
| `sessions` | real byte values and sizes, 3 programs, 1 cut request | `OnlyCutsDesynchronise`: dying between whole requests refuses nobody. `CutCostsOneSession`: one cut is paid for by one program, if the bridge gets to the end of the remains before it leaves. `WaitingHostIsAnswered`: `try_read_msg` never waits for bytes that will not come |
| `machine` | 2 addresses, 2 data values | `NoContention`, `RunnerFollowsCpu`, `MemoryIsCurrent`, `ResetHeldTwoCycles`; `NoWriteLostAtStop`: a program that ends by itself, on BRK, limit or quit, has every write of the CPU in its memory; `CpuSeesRam`: the whole implements `Ram`; `ClockRuns`: the clock of a running program never stops |
| `display` | ring of 4, 2 columns per refresh, 4 captures of 3 kinds of sample, 2 sessions | `RingHoldsNewest` through overflow and wrap, `WaveIsTheSignal`: no edge across a gap, `WaveCatchesUp` and `FooterCatchesUp` when the host pauses, `SlowRefreshShowsAll`: a refresh that is not a fast one brings every part of header and footer up to date, but for sentinels |
| `rust_bridge` | 4 byte values, 2-byte payloads, 2 programs, 1 cut request | `WireEquivalent`: on the wire this is the C++ firmware. `DisconnectDropsPartial`: half a request in the accumulator does the next program no harm. `OnlyTearsDesynchronise`: to be refused takes a cut, or a `clear` that tears a request in two. `WaitingHostIsAnswered`: blocking in `send_msg` is no deadlock |
| `runners` | words that tell all 16 + 8 lines apart, both firmwares under both hosts, step mode with and without `--halfcycles` | `HostSeesChip`, `ChipSeesRam`: signals, address and data arrive as they are, both ways, through wires, firmware and host. `ControlHeld`: echoing the sampled levels never loses a control line. `Twins`: the two programs know and print the same. `PanelAgrees`. `StepsAsAsked`, `BrkEndsRun` |
| `diagnostics` | stuck lines, shorts of two lines of a bus, straying CPU, port toggling | `StuckLinesAreCaught`: only shorts among A8-A11 pass. `PassedMeansAllSeen`: no other false PASSED. `VerdictIsPrinted` |

Each of these properties is broken by a plausible mistake in the code: the
operators named `X_Something` next to `X` are these mistakes, and `PROJECT.json`
("mutants") says which property notices which.

Five runs check what a document, comment or test of the repository says and end
in a counterexample ("findings" in `PROJECT.json` quotes the lines):

| Run | What the code does |
|---|---|
| `sessions_stale` | a request of a dead program is answered to the next one, which is one reply behind from then on |
| `sessions_cut` | a partial request survives a low DTR; the Rust firmware drops it |
| `display_stale` | a session closed before its first refresh leaves its samples to the next |
| `display_header` | after a free run that pauses, the header shows an earlier sample than the waveform |
| `diagnostics_bus` | the data bus is never driven in diagnostics mode |

Seen while modelling, and needing no run:

- Diagnostics writes only to addresses in which A8 to A11 are equal, so a short
  between two of them passes, while the report says "high address lines
  verified". `StuckLinesAreCaught` excepts these shorts and no others.
- The sentinels of the header are values of samples too, so on a fresh screen a
  readout stays blank until its value has been another one: no R before the first
  write, no $FF, no $FFFF, no indicators while all eight lines are high.
  `display.cpp:407-408` ("every detail updates immediately") does not say so;
  `SlowRefreshShowsAll` excepts these values (`Shows`) and nothing else.
- An opcode fetch captured before the first refresh of a session is not shown:
  `draw_chrome`, which that refresh calls, forgets it (`have_fetch`).
- `reset()` in `cpu.cpp` has no clock edge while the line is low; in diagnostics
  mode no host repeats it with a clock, which README asks two cycles for.
- `docs/development-guide-rust.md` calls the two runners functionally identical.
  `Twins` shows it as long as both run. They end differently: Rust heeds a BRK
  only after cycle 20 (`BrkEndsRun`), C++ has `MAX_CYCLES`. They also start
  differently: the IRQ and NMI vectors hold 0x0300 in C++ and the program's
  address in Rust, memory is uninitialised in C++ and zero in Rust, SO is low
  during the Rust reset. C++ takes a prompt's line as it is (and `strtoull`
  takes `-1`), Rust trims it; Rust gives up a read after 10 s.
- When the port closes in the middle of a request, `clear` drops the head that
  was pushed; a tail that reaches the endpoint later is the next program's
  problem. That is `torn`, and the one way without a cut in which a program can
  be refused by the Rust firmware; the C++ firmware serves the whole request to
  the next program instead.

### Bounds, and why they are enough

- Link needs no bound: host and bridge take turns. Two-byte payloads of bytes
  0..3 contain every type byte, and the sums wrap. The proofs cover the rest.
- `MaxHosts = 3`: one program to leave remains, one to meet them, one to show
  that they are used up. `MaxCuts = 1`; `OneCutCostsOne` covers any number of
  both. The payloads are two of the reset and one whose bytes look
  like types and whose checksum wraps.
- Machine has no bound on time. Two addresses and two values tell right from
  wrong; the proofs cover all.
- RustBridge: one program to leave remains and one to meet them; `ReadSize` is
  the real 64, more than is ever in the endpoint, and the read may return any
  part. A third program or longer payloads only lengthen the same traces.
- Runners: in the k-th of four set-ups the two addresses and the data word
  have, line by line, the k-th bit of the line's number, so that two lines
  crossed, moved or left out differ in one of them. An undriven bus reads as
  either word. `MAX_CYCLES` (10000) is 5 and the 20 of the Rust runner is 3: two
  cycles of reset, then one in which Rust ignores a BRK, then one in which both
  heed it. The user types at most 2.
- A ring of 4 with 4 samples overflows and wraps; 2 columns per refresh make
  fast mode reachable (the code has 256 and 32; `DisplayAssumption` states
  the relation both satisfy). The samples are the two halves of a fetch and a
  half-cycle under reset, and among them every sentinel of the header occurs
  as a value and with another value. One tick between refreshes and two ticks to the
  second give every order of the three time stamps.
- Diagnostics has the real tables, every stuck line and every short of two data
  lines; of the address lines it takes both ends of each part that the test
  exercises differently (A0-A7, A8-A11, A12-A15) and A14. `CYCLES_PER_LOOP` is 4
  in the code; with 1 there are as many places for the port to open or close, and
  fewer states.
- Sessions and RustBridge stop for want of programs, Runners when both have
  ended, so their runs do not check deadlock.

### Fairness

- Link, Sessions: USB delivers to an open port, `loop()` is called for ever, a
  blocked `read` returns when there are bytes. Nothing forces a host to send.
- RustBridge: `main` loops for ever and is never blocked except in `send_msg`;
  while the port is open the host's driver fetches what is in the IN endpoint,
  USB delivers, a blocked `read` returns when there are bytes.
- Machine: a running program keeps running (its loop is `while (step())`),
  `loop()` is called, the CPU's outputs settle. Nothing forces a kill, and a
  pause in step mode is a stop of the host that `ClockRuns` does not cover.
- Display: time passes and `loop()` is called. Messages need not come.
- Diagnostics: `loop()` is called. Nothing forces the CPU to write.

## Proofs

All theorems hold for every value of the constants that satisfies the named
assumptions of the modules (`ProtocolAssumption`, `LevelsAssumption`,
`SessionsAssumption`, `RustAssumption`, `MachineAssumption`, `RunnersAssumption`,
`DisplayAssumption`, `DiagnosticsAssumption`). They ask for types, for sizes and
intervals that are not 0, and beyond these for four relations that the code has:
`MAX_COLS < RING - 1` (32 and 256), so that there is a fast mode; `SECOND >
REFRESH` (1000 and 100 ms); a `MAX_CYCLES` (10000) that is not 1, because the
reset alone takes two cycles and the limit is looked at after it; and faults
that are single ones, because two faults may hide each other. One theorem has
a hypothesis of its own, `OneCutCostsOne`: `FirstRequestEnds`, a fact about the
request that `Runner::reset` sends first, which `MCSessions` assumes of it so
that TLC evaluates it. The bounds (`MaxHosts`, `MaxCuts`, `MaxCycle`, `MaxSteps`,
`MaxCaptures`, `MaxSessions`) are constants like the others: the theorems hold
whatever they are.

**ProtocolProofs.** `ChecksumType`; `ChecksumDetectsOneByte`: a frame with one
payload byte changed is refused, because the running sums of the two payloads
differ from that byte on; `PinsFrameFacts`: size, type, payload and checksum of
a frame. The running sum is a recursive function; that it exists is shown by
induction in the form `SetInduction` (a set with 0 that is closed under
successor contains Nat), since induction over an operator cannot be
instantiated by the provers.

**LinkProofs.** `ChecksumsAgree`: for every payload the host's checksum is that
of the firmware, so that what one builds the other validates; everything below
cites it. `TypeOK /\ Lockstep` is inductive. `ReceiveBuffer` says what the
firmware finds when it looks (nothing, part of the request, or exactly the
request), `ReplyIsGood` what the host finds. From these no reject or refuse step
is ever enabled, and each step maps to a step of HalfCycle or to a stutter
(`LinkImplementsHalfCycle`).

**MachineProofs.** `IInv` is the type invariant and five parts, none of which is
inductive without the others:

- `ClockInv`: the runner's phase, the level it requested and the PHI2 pin agree,
  by place in the protocol; whether the CPU's cycle is served.
- `BusInv`: the CPU changes its outputs only with PHI2 low and before the
  sample; pins that drive with PHI2 high mean a read cycle. `NoContention`
  follows: RW can be wrong only in the low phase, in which `handle_cycle` never
  drives.
- `AgreeInv`: the runner's address and direction are the CPU's from the low
  sample to the falling edge.
- `DataInv`: where the byte of a read or a write cycle is, step by step.
- `MemInv`: the two memories are equal, or differ by the write that the runner
  has stored and the CPU has not finished.

`StopKeepsWrites` (`NoWriteLostAtStop`) follows from them: `step()` stores
a write of the CPU before it looks at whether to stop, in the high phase, and in the
low phase the memories are equal.

`ImplementsRam` is the step simulation from these: a falling edge of a served
cycle is a `Read` or `Write` of `Ram`, a new program a `Load`, the rest stutter.
`ResetIsLongEnough` uses `ResetInv`, which counts the edges against the
half-cycles that `reset()` still has to do, whatever level the clock was left at.
The same two invariants bound the way to the next edge of PHI2: `EdgeIsNear`, at
most eight steps, and `EdgeComesNearer`, each step of a program that goes on is
that edge or leaves fewer of them. Only the first half-cycle of `reset()` may
find the clock at the level it asks for.

**PinMapProofs.** The tables and codecs of `PinMap` agree for every payload and
all levels of the pins, of which `runners` tries a few. `OneBit`: a bit number
means the same bit to all of them. From it, `HostsDecodeAlike`,
`PanelDecodesAlike`, `HostsEncodeAlike` (but for the address, which the C++ host
leaves zero), `DecodeOfEncode` (nothing is lost between encoding and decoding).
`TablesAgree` goes through the entries of `PINS_MAP` against those of
`CpuPins::new`, `AllWired` shows that none is left over; from these
`FirmwaresSampleAlike` and `FirmwaresApplyAlike`. None has an assumption: the
tables are not constants. Put end to end they give `DecodeOfSample` and
`AppliesWhatIsEncoded`: through either firmware and either host the levels of
the pins and the pins object are the same.

**RunnersProofs.** `WiresMeet` joins the CPU's pinout, the sockets and
`CpuPins::new`; with the two theorems before it `HalfCycleIs` says what one exchange
does, without codec or table in it. The inductive invariant is, for each host
(`RunnerInv`), the counters of `reset()` (`Counted`), what the Teensy has latched
(`Latched`), the pins object and panel after a half-cycle (`Shown`), the byte held
between the halves of a cycle (`MidCycle`), one memory (`OneMemory`), the steps owed
(`Owed`), and why a run ended (`EndsOnBrk`); and, between the hosts, that the
program's variables, the step counter and the pins object, but for SO during the
reset, are `Alike`. `Owed` says that between steps, until the program has ended, one
line more is owed than the counter says; `Printed` says what is owed between
`print_state` and `maybe_pause`. The latches are needed because `ready` is in no
request: it is sampled from what an earlier request left there. `Alike` is kept only
while both run, which is what `Twins` says. All eight properties of `runners`
follow.

**DisplayProofs.** `RingHoldsNewest` and `WaveIsTheSignal` are inductive
together, with the types and with `WaveEnds`: the last column is the last sample
that left the ring, so that the next one drawn is later, and joined only if it
is the next. The work is in `display_refresh`: fast mode skips to the newest
samples, and the indices of the ring are equal modulo `RING` to the numbers of the
samples. `WaveStaysCurrent`: a panel that is drawn and has an empty ring shows
the newest sample of the session; what was dropped undrawn is of an older session
by the time the panel is drawn again (`NothingHidden`). `SlowRefreshIsCurrent`
(`SlowRefreshShowsAll`): after a refresh that is not a fast one each part of footer
and header shows the firmware's value, or is blank because that value is its
sentinel and nothing else was drawn there since `draw_chrome`. A readout keeps to
this with its own `shown` at all times (`AllHonest`): it shows `shown`, or is blank
with its sentinel there. So what `display_header` shows takes fast mode, and a
blank readout takes a sentinel.

**SessionsProofs.** A series is a row of whole pins messages, the least set
closed under one more at the end. Without a cut what is on its way to the bridge
is a series (`Framed`): from `FirstMessage` the bridge then takes a whole, good
message off its front, and `loop_prod` leaves a series. `OnlyCutsDesynchronise`
follows, for any number of programs. For the Rust firmware the series is spread
over accumulator, chunk, endpoint and wire (`Aligned`), and that holds as long as
nothing was cut or torn, or (`clean`) as long as programs met nothing but the
accumulator's remains, which `clear` has dropped by then; this gives
`OnlyTearsDesynchronise` and `DisconnectDropsPartial`. `OneWire` is the
refinement of Link, step by step: a push that ends no message is a stutter
(`acc` grows by what `chunk` loses), one that ends a message is Link's
`loop_prod` on `acc \o chunk \o rx`, and `send_msg` moves bytes between the two
parts of what Link calls `tx`. It uses the types alone and so holds with any
remains of any program.

With cuts (`OneCutCostsOne`) the bytes under way need not be whole messages.
`CInv` keeps books: there are no more refusals than cuts, and fewer as long as
there are remains that nobody has paid for (`Paid`). That a program pays for all
of them follows from what is under way being `Owned` by it: any remains with its
requests behind them (`Behind`), or, once the bridge is past the beginning of its
first request, a tail of that and the others (`Within`); when nothing more can be
taken nothing is left (`OwnedEnds`). The step from the one to the other needs
`FirstRequestEnds`: wherever the bridge takes a byte of the first request for a
type, the message it then takes ends inside that request. The request of
`Runner::reset` is so; with one that has a `MSG_PINS` byte inside (`FetchBRA` of
`MCSessions` as the first request) TLC finds one cut that costs two programs. The
other requests may be anything.

While a program waits, `NeverBothWait` says that bytes are on the wire, or the
bridge has a message or an unknown byte to take, or the host has bytes to read:
some reply is under way, or enough bytes for the longest message are in front of
the bridge (`Due`), and replies are whole, read no further than the end of one
(`Replying`). `WaitingRunsOut` says that every step
under a waiting program leaves less on the wire, in the receive buffer or on the
way back, in this order. `NeverBothWaitRust` and `WaitingRunsOutRust` are the
same for the Rust firmware, over accumulator, chunk and endpoints and through a
blocking `send_msg`.

**DiagnosticsProofs.** `Follows`: without a verdict the number of writes seen is
the monitor's position, computed from its phase and indices; with PASSED it is
the whole program (`PassedIsEarned`). `OverTheWires`: each write that was seen
has the levels that the faulty wiring leaves, by `WriteArrives`, which needs
that setting one bit of a number changes no other (`SetBitSets`). If the whole
program was seen over a faulty bus, then for a stuck line all writes to it have
one level on this line, and for a short the same on both; `DataSeen` and
`AddressesSeen` list seven values and eleven addresses that leave only the
shorts among A8 to A11 (`OnlyMiddleShorts`). `FaultsAreFound` is that, for every
single fault, of which the run takes some, and any writes of a CPU gone astray.
`VerdictIsFinal`: with a verdict the firmware is between two calls or before its
report and PHI2 is low (`Still`), so nothing changes the verdict, and what is left
to do under a listening host is to print it.

Every invariant, every action property and every refinement that a run expects to
hold is a theorem. Only model-checked is liveness, because TLAPS does not reason
about fairness or ENABLED: `CallsReturn`, `WaitingHostIsAnswered`, `ClockRuns`,
`WaveCatchesUp`, `FooterCatchesUp`, `VerdictIsPrinted`. For all but the first,
whose argument is that of `WaitingHostIsAnswered` with one program, the safety
half is proved: nobody waits in a circle and each step comes nearer to what is
awaited (`NeverBothWait` and `WaitingRunsOut`, `EdgeIsNear` and
`EdgeComesNearer`), or the step that is awaited does what it should
(`WaveStaysCurrent`, `SlowRefreshIsCurrent`, `VerdictIsFinal`). What TLC adds is
that fairness makes these steps happen.

## Not modelled, and why

`load_program` and the parsing of the command line (I/O: a program in memory is
any memory, an option is part of a set-up), debug mode (prints only), the
drawing of pixels, the 65C02's instruction set (external: any bus cycles), the
PCB. Of the Rust firmware: a USB bus reset that leaves the Configured state (it
clears the accumulator as a low DTR does; what it leaves in the endpoints is the
controller's business), the reboot at 134 baud, `reset_cpu` before the loop.
What rate the footer shows beyond 0 (no doc gives an accuracy).

## Plan

1. Done: Protocol, HalfCycle, Link, Sessions, RustBridge, Ram, Machine, PinMap,
   Runners, Display, Diagnostics; a theorem for every safety property that a run
   checks, and for the safety half of the liveness properties.
2. Proofs: `Machine` from `Runners`, so that what happens inside a half-cycle and
   what it does to the pins are one argument; `CutCostsOneSession` with the Rust
   firmware, where `clear` drops part of the remains.
3. Sessions over Machine: the one-reply lag of `sessions_stale` carried into
   what the CPU sees.
4. The rate and its 16-bit counter, if a doc comes to say what it should be.
