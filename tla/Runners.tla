------------------------------ MODULE Runners -------------------------------
(***************************************************************************)
(* The C++ and the Rust host program (class Runner, struct Runner), pin by *)
(* pin, side by side: each drives a CPU of its own through one of the two  *)
(* firmwares and the codecs of PinMap; the CPUs put out the same signals   *)
(* and the user types the same commands.  A step is a half-cycle of both.  *)
(*                                                                         *)
(* What can happen inside a half-cycle, and programs that are killed, are  *)
(* the subject of Machine; here the CPU has settled before the firmware    *)
(* reads RW.  The CPU is external.                                         *)
(***************************************************************************)
EXTENDS PinMap

CONSTANTS Setups,      \* the set-ups to look at
          MAX_CYCLES,  \* the C++ runner ends after so many cycles (10000)
          BRK_CYCLE,   \* the Rust runner heeds a BRK after this cycle (20)
          MaxSteps,    \* bound: the largest number the user types
          MaxCycle     \* bound: cycles of a runner with no MAX_CYCLES

ASSUME RunnersAssumption ==
    /\ \A s \in Setups :
          /\ s.addr \subseteq SUBSET (0 .. 15)        \* the addresses in use
          /\ s.data \subseteq SUBSET (0 .. 7)         \* the bytes in use, {} among them
          /\ s.float \in s.data /\ {} \in s.data     \* what an undriven bus reads as
          /\ s.step \in BOOLEAN /\ s.halfcycles \in BOOLEAN  \* --step, --halfcycles
          /\ {s.cpp, s.rust} \subseteq {"cpp", "rust"}  \* the firmware each talks to
    /\ MAX_CYCLES \in Nat \ {1} /\ BRK_CYCLE \in Nat  \* 0: no limit; the reset alone is two cycles
    /\ MaxSteps \in Nat \ {0} /\ MaxCycle \in Nat \ {0, 1}

VARIABLES
    setup,   \* the set-up of this behaviour
    chip,    \* the outputs of the CPUs in this cycle
    runner   \* the two programs, each with its Teensy and its history

vars == <<setup, chip, runner>>

Hosts == {"cpp", "rust"}

-----------------------------------------------------------------------------
\* The CPU and its socket.

Kinds == {"read", "fetch", "vector", "locked", "write"}
Outputs == {c \in [kind : Kinds, addr : setup.addr, data : setup.data] :
               c.kind # "write" => c.data = {}}

ChipDriven == {"vp", "ml", "sync", "rw", "phi1o", "phi2o"}
ChipHigh(c, clock) ==
    {s \in ChipDriven : CASE s = "vp"    -> c.kind # "vector"
                          [] s = "ml"    -> c.kind # "locked"
                          [] s = "sync"  -> c.kind = "fetch"
                          [] s = "rw"    -> c.kind # "write"
                          [] s = "phi1o" -> ~clock
                          [] s = "phi2o" -> clock}

\* The inputs of the CPU, as its own pins have them.
TeensyDriven == {"ready", "irq", "nmi", "be", "phi2", "so", "reset"}
Input(r, s) == Wire[ChipPin[s]] \in r.latch

\* D0 to D7.
BusData(r, c) ==
    IF c.kind = "write" /\ Input(r, "phi2") THEN c.data
    ELSE IF r.out THEN {n \in 0 .. 7 : Wire[ChipData(n)] \in r.latch}
    ELSE setup.float

\* The Teensy pins that are HIGH.
High(r, c) ==
    (r.latch \cap WireOf(TeensyDriven))
      \cup WireOf(ChipHigh(c, Input(r, "phi2")))
      \cup AddrWires(c.addr) \cup DataWires(BusData(r, c))

-----------------------------------------------------------------------------
\* A request, in either firmware: what it leaves of r's Teensy, and the reply.

set_pins_state(fw, r, c, payload) ==
    LET lines == [r EXCEPT !.latch = IF fw = "cpp" THEN write_pins(@, WrittenAlways, payload)
                                                   ELSE apply_lines(@, payload)]
        reads == (IF fw = "cpp" THEN pinsRw ELSE Pad.rw) \in High(lines, c)
    IN  IF ~reads THEN lines
        ELSE [lines EXCEPT !.latch = IF fw = "cpp" THEN write_pins(@, WrittenOnRead, payload)
                                                   ELSE apply_data(@, payload)]

handle_cycle(fw, r, c) ==
    LET gate == IF fw = "cpp" THEN {pinsRw, pinsPhi2} ELSE {Pad.rw, Pad.phi2}
    IN  [r EXCEPT !.out = gate \subseteq High(r, c)]

Reply(fw, r, c) ==
    IF fw = "cpp" THEN get_pins_state(High(r, c)) ELSE sample(High(r, c))

-----------------------------------------------------------------------------
\* The host programs.

Encode(h, pins) == IF h = "cpp" THEN set_buff(pins) ELSE PinsInto(pins)
Decode(h, buff) == IF h = "cpp" THEN set_pins(buff) ELSE PinsFrom(buff)

\* b[] in Runner::reset, and the levels reset() sets in the Rust one.
ResetBytes == <<{1, 3}, {}, {}, {}, {3, 5, 7}>>
ResetPins(h) ==
    IF h = "cpp"
    THEN LET pins == set_pins([c \in 0 .. 4 |-> ResetBytes[c + 1]])
         IN  [pins EXCEPT !.high = @ \cup {"so"}]
    ELSE [high |-> {"be", "rw", "irq", "nmi"}, addr |-> {}, data |-> {}]

\* write_serial and read_serial with pins.phi2 = phase.
Exchanged(h, r, c) ==
    LET pins    == [r.pins EXCEPT !.high = IF r.phase THEN @ \cup {"phi2"} ELSE @ \ {"phi2"}]
        applied == set_pins_state(setup[h], r, c, Encode(h, pins))
        gated   == handle_cycle(setup[h], applied, c)
        reply   == Reply(setup[h], gated, c)
    IN  [gated EXCEPT !.pins = Decode(h, reply), !.panel = decode_sample(reply)]

advance_cycles(r) == [r EXCEPT !.cycle = IF r.phase THEN @ + 1 ELSE @, !.phase = ~@]

\* The last statements of reset() follow its last half-cycle.
Released_StaysLow(r) ==
    [r EXCEPT !.pins = [high |-> @.high \cup {"ready", "so"}, addr |-> {}, data |-> {}]]
Released(r) ==
    [r EXCEPT !.pins = [high |-> @.high \cup {"reset", "ready", "so"}, addr |-> {}, data |-> {}]]

ResetStep(h, r, c) ==
    LET done == advance_cycles(Exchanged(h, [r EXCEPT !.pins = ResetPins(h)], c))
    IN  IF r.left = 1 THEN [Released(done) EXCEPT !.left = 0, !.prog = "run"]
                      ELSE [done EXCEPT !.left = @ - 1]

\* print_state prints one of the lines that are due before the next prompt.
print_state(r) == IF r.step THEN [r EXCEPT !.due = @ - 1] ELSE r

\* maybe_pause, with the command the user gives if there is a prompt.
Prompts(r) == r.step /\ r.remaining = 0
Paused(r, cmd) ==
    IF ~r.step THEN r
    ELSE IF r.remaining > 0 THEN [r EXCEPT !.remaining = @ - 1]
    ELSE CASE cmd[1] = "next"     -> [r EXCEPT !.due = 1]
           [] cmd[1] = "run"      -> [r EXCEPT !.remaining = cmd[2] - 1, !.due = cmd[2]]
           [] cmd[1] = "continue" -> [r EXCEPT !.step = FALSE, !.due = 0]
           [] cmd[1] = "quit"     -> [r EXCEPT !.prog = "done", !.quit = TRUE]

Reported(r, cmd) == Paused(print_state(r), cmd)

\* The low phase is reported with --halfcycles only.
LowReport_AlwaysPauses(r, cmd) ==
    IF setup.halfcycles THEN Reported(r, cmd) ELSE Paused(r, cmd)
LowReport(r, cmd) == IF setup.halfcycles THEN Reported(r, cmd) ELSE r

\* The end of step(): nothing more for a runner that has stopped.
Next_step(h, r) ==
    IF r.prog = "done" THEN r
    ELSE LET next == advance_cycles(r)
         IN  IF h = "cpp" /\ MAX_CYCLES # 0 /\ next.cycle >= MAX_CYCLES
             THEN [next EXCEPT !.prog = "done"] ELSE next

\* A byte of the emulated 64 kB; those not in use are zero.
read_byte(mem, a) == IF a \in DOMAIN mem THEN mem[a] ELSE {}

NoCycle == [kind |-> "none", addr |-> {}, data |-> {}]

LowStep(h, r, c, cmd) ==
    LET x == Exchanged(h, r, c)
        w == "rw" \notin x.pins.high
        y == [x EXCEPT !.addr = x.pins.addr, !.write = w, !.op = NoCycle,
                       !.pins.data = IF w THEN @ ELSE read_byte(x.mem, x.pins.addr)]
    IN  Next_step(h, LowReport(y, cmd))

BrkFetched_AnyRead(h, r) == r.pins.data = {} /\ (h = "cpp" \/ r.cycle > BRK_CYCLE)
BrkFetched(h, r) ==
    r.pins.data = {} /\ "sync" \in r.pins.high /\ (h = "cpp" \/ r.cycle > BRK_CYCLE)

HighStep(h, r, c, cmd) ==
    LET x == Exchanged(h, r, c)
        y == [x EXCEPT !.mem = IF x.write THEN [@ EXCEPT ![x.addr] = x.pins.data] ELSE @,
                       !.op = [kind |-> c.kind, addr |-> c.addr, data |-> BusData(x, c)],
                       !.chipMem = IF c.kind = "write" THEN [@ EXCEPT ![c.addr] = c.data] ELSE @]
    IN  IF BrkFetched(h, y) THEN [print_state(y) EXCEPT !.prog = "done"]
        ELSE Next_step(h, Reported(y, cmd))

-----------------------------------------------------------------------------
\* A program that has opened the port, and a Teensy after setup().
Started(mem) ==
    [prog |-> "reset", left |-> 4, phase |-> FALSE, cycle |-> 0,
     pins |-> [high |-> {}, addr |-> {}, data |-> {}],
     addr |-> {}, write |-> FALSE, mem |-> mem,
     step |-> setup.step, remaining |-> 0,
     latch |-> WireOf({"ready", "irq", "nmi", "be", "so", "reset"}), out |-> FALSE,
     \* history: the panel's latest sample, the bus cycle the CPU has just done
     \* and the memory as it has left it, lines due before the next prompt, 'q' typed
     panel |-> decode_sample([c \in 0 .. 4 |-> {}]),
     op |-> NoCycle, chipMem |-> mem,
     due |-> IF setup.step THEN 1 ELSE 0, quit |-> FALSE]

Init ==
    /\ setup \in Setups
    /\ chip \in {c \in Outputs : c.kind = "read"}
    /\ \E mem \in [setup.addr -> setup.data] : runner = [h \in Hosts |-> Started(mem)]

Running == {h \in Hosts : runner[h].prog = "run"}

Commands ==
    IF \E h \in Running : Prompts(runner[h])
    THEN {<<"next", 1>>, <<"continue", 0>>, <<"quit", 0>>} \cup {<<"run", n>> : n \in 1 .. MaxSteps}
    ELSE {<<"none", 0>>}

ResetHalf ==
    /\ \A h \in Hosts : runner[h].prog = "reset"
    /\ runner' = [h \in Hosts |-> ResetStep(h, runner[h], chip)]
    /\ UNCHANGED <<setup, chip>>

\* PHI2 falls: the CPU begins a cycle.
LowHalf ==
    /\ \E h \in Running : ~runner[h].phase /\ runner[h].cycle < MaxCycle
    /\ chip' \in Outputs
    /\ \E cmd \in Commands :
          runner' = [h \in Hosts |-> IF h \in Running THEN LowStep(h, runner[h], chip', cmd)
                                     ELSE runner[h]]
    /\ UNCHANGED setup

HighHalf ==
    /\ \E h \in Running : runner[h].phase
    /\ \E cmd \in Commands :
          runner' = [h \in Hosts |-> IF h \in Running THEN HighStep(h, runner[h], chip, cmd)
                                     ELSE runner[h]]
    /\ UNCHANGED <<setup, chip>>

Next == ResetHalf \/ LowHalf \/ HighHalf

Spec == Init /\ [][Next]_vars

-----------------------------------------------------------------------------
(* Properties.                                                             *)

TypeOK ==
    /\ setup \in Setups /\ chip \in Outputs
    /\ \A h \in Hosts : LET r == runner[h] IN
          /\ r.prog \in {"reset", "run", "done"} /\ r.left \in 0 .. 4
          /\ (r.prog = "reset") <=> (r.left > 0)
          /\ r.phase \in BOOLEAN /\ r.cycle \in 0 .. MaxCycle
          /\ r.pins \in PinsObjects /\ r.addr \in setup.addr \cup {{}} /\ r.write \in BOOLEAN
          /\ r.mem \in [setup.addr -> setup.data]
          /\ r.step \in BOOLEAN /\ r.remaining \in 0 .. MaxSteps - 1

\* A runner has done a half-cycle of its step() loop.
Stepping(r) == r.prog = "run" /\ (r.phase \/ r.cycle > 2)

\* Through the wires, either firmware's table, the payload and either host's
\* codec, the signals and the buses of the CPU arrive as they are: after each
\* half-cycle the pins object shows the CPU's own outputs, bit for bit.
HostSeesChip ==
    \A h \in Hosts : LET r == runner[h] IN Stepping(r) =>
        /\ r.pins.addr = chip.addr
        /\ r.pins.high \cap ChipDriven = ChipHigh(chip, ~r.phase)
        /\ ~r.phase => r.pins.data = r.op.data

\* A request carries back what the last reply was decoded to.  Round after
\* round through sampling, decoding and encoding, IRQ, NMI, BE and RDY stay
\* high, RES is low during reset() and high ever after, PHI2 is as the phase was.
ControlHeld ==
    \A h \in Hosts : LET r == runner[h] IN
        /\ \A s \in {"irq", "nmi", "be", "ready"} : Input(r, s)
        /\ r.left \in 1 .. 3 => ~Input(r, "reset")
        /\ Stepping(r) => /\ {"reset", "ready"} \subseteq r.pins.high
                          /\ Input(r, "reset") /\ Input(r, "so")
                          /\ Input(r, "phi2") <=> ~r.phase

\* The CPU finds a memory behind the eight data lines, in both directions of
\* the codecs: its reads return what its latest write to the address stored.
ChipSeesRam ==
    \A h \in Hosts : LET r == runner[h] IN
        /\ r.mem = r.chipMem
        /\ r.op.kind \in Kinds \ {"write"} => r.op.data = r.chipMem[r.op.addr]

\* docs/development-guide-rust.md "functionally identical": as long as both
\* run, the two host programs agree on all they know and print, whichever
\* firmware they talk to.  Only SO differs, and only during reset().
Twins ==
    LET state(r) == <<r.prog, r.phase, r.cycle, r.addr, r.write, r.mem, r.step, r.remaining,
                      r.pins.addr, r.pins.data,
                      IF r.prog = "reset" THEN r.pins.high \ {"so"} ELSE r.pins.high>>
    IN  (\A h \in Hosts : runner[h].prog # "done") => state(runner["cpp"]) = state(runner["rust"])

\* The front panel, with a decoder of its own, shows what the host program
\* that is connected reads off the same replies.
PanelAgrees ==
    \A h \in Hosts : LET r == runner[h] IN
        setup[h] = "cpp" /\ Stepping(r) =>
            /\ r.panel.addr = r.pins.addr
            /\ r.panel.flags = r.pins.high \cap DOMAIN DISP
            /\ ~r.phase => r.panel.data = r.pins.data

\* runner.cpp, maybe_pause: "pauses execution after a logged cycle (or
\* half-cycle, with --halfcycles)" and "a number runs that many steps".  In
\* step mode the counter is one less than the lines still to be printed before
\* the next prompt: what is printed and what is counted stay in step through
\* both phases, with and without --halfcycles, and any sequence of commands.
StepsAsAsked ==
    \A h \in Hosts : LET r == runner[h] IN r.prog # "done" /\ r.step => r.due = r.remaining + 1

\* EXIT_ON_BRK: a runner that stops by itself has just seen the CPU fetch a
\* zero opcode out of its memory (or, in C++, has done MAX_CYCLES), and does
\* not go on after one (in Rust, from BRK_CYCLE on).
BrkEndsRun ==
    \A h \in Hosts :
        LET r   == runner[h]
            brk == r.op.kind = "fetch" /\ r.chipMem[r.op.addr] = {}
        IN  /\ r.prog = "done" => r.quit \/ brk \/ (h = "cpp" /\ r.cycle = MAX_CYCLES)
            /\ r.prog = "run" /\ brk => h = "rust" /\ r.cycle <= BRK_CYCLE + 1

=============================================================================
