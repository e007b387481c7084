------------------------------- MODULE Machine ------------------------------
(***************************************************************************)
(* The machine the bridge makes of a 6502 and a host program: the runner   *)
(* that owns the clock and the memory (examples/cpp/runner.cpp), the C++   *)
(* firmware's work on the pins for one request (set_pins_state,            *)
(* handle_cycle, get_pins_state), and the CPU on its socket, which changes *)
(* its outputs in its own time.                                            *)
(*                                                                         *)
(* The link is used as HalfCycle allows it: one request at a time.         *)
(* The CPU is external: in every cycle it does what it likes with the bus. *)
(* It has settled before the firmware samples it (the firmware touches 14  *)
(* pins and reads RW twice in between); it need not have before that.      *)
(***************************************************************************)
EXTENDS Integers

CONSTANTS Addr, Data, Zero

\* Zero is what zero-initialised variables and the BRK opcode hold.
ASSUME MachineAssumption == Zero \in Addr /\ Zero \in Data

VARIABLES
    \* the runner
    prog,    \* "off", "reset" (in reset()) or "run" (in the step() loop)
    left,    \* half-cycles that reset() still has to do
    phase,   \* clock level of the next half-cycle: FALSE low, TRUE high
    hpins,   \* the pins object: the levels to send next
    addr,    \* step()'s static addr: latched in the low phase
    write,   \* step()'s static write
    mem,     \* the emulated memory
    \* the firmware
    at,      \* where in loop_prod: "idle", "lines", "latch", "gate", "sample", "reply"
    msg,     \* the levels requested, later the levels sampled
    phi2, res,  \* the clock and reset pins it drives
    latch,   \* the output latches of the data pins
    dir,     \* their direction, "in" or "out"
    \* the CPU
    cpu,     \* its outputs: address, RW, SYNC, and the data of a write
    settled, \* the outputs have settled since the last falling edge
    \* history
    served,  \* the CPU's current cycle is one the runner takes part in
    cpuMem,  \* the memory as the CPU's write cycles have left it
    op,      \* the latest served bus cycle, as the CPU saw it
    held     \* rising clock edges since reset went low (2 means two or more)

hostVars    == <<prog, left, phase, hpins, addr, write, mem>>
bridgeVars  == <<at, msg, phi2, res, latch, dir>>
cpuVars     == <<cpu, settled>>
historyVars == <<served, cpuMem, op, held>>
vars == <<hostVars, bridgeVars, cpuVars, historyVars>>

Outputs == [addr : Addr, rw : {"read", "write"}, sync : BOOLEAN, data : Data]
Levels  == [phi2 : BOOLEAN, res : BOOLEAN, rw : {"read", "write"},
            sync : BOOLEAN, addr : Addr, data : Data]
BusCycles == [kind : {"read", "write"}, addr : Addr, data : Data]

-----------------------------------------------------------------------------
\* The data bus.

CpuDrives == phi2 /\ cpu.rw = "write"

\* What can be read off the data pins: two drivers, or none, make anything.
BusValues ==
    IF CpuDrives /\ dir = "in" THEN {cpu.data}
    ELSE IF ~CpuDrives /\ dir = "out" THEN {latch}
    ELSE Data

-----------------------------------------------------------------------------
NoPins == [phi2 |-> FALSE, res |-> FALSE, rw |-> "read", sync |-> FALSE,
           addr |-> Zero, data |-> Zero]

\* After setup(): PHI2 never written, reset released, data pins inputs.
Init ==
    /\ prog = "off" /\ left = 0 /\ phase = FALSE
    /\ hpins = NoPins /\ addr = Zero /\ write = FALSE
    /\ at = "idle" /\ msg = NoPins /\ phi2 = FALSE /\ res = TRUE
    /\ latch = Zero /\ dir = "in"
    /\ cpu \in Outputs /\ settled = TRUE
    /\ mem \in [Addr -> Data] /\ cpuMem = mem
    /\ served = FALSE /\ held = 0
    /\ op = [kind |-> "read", addr |-> Zero, data |-> Zero]

-----------------------------------------------------------------------------
\* The runner.

ResetHalfCycles_TooFew == 2
ResetHalfCycles == 4  \* "two cycles"

\* main(): a new process with a new memory (data[] is not initialised, then
\* the program is loaded) and a new Runner, whose run() calls reset().
Start ==
    /\ prog = "off" /\ at = "idle"
    /\ prog' = "reset" /\ left' = ResetHalfCycles /\ phase' = FALSE
    /\ hpins' = NoPins /\ addr' = Zero /\ write' = FALSE
    /\ mem' \in [Addr -> Data]
    /\ cpuMem' = mem'
    /\ served' = FALSE
    /\ UNCHANGED <<bridgeVars, cpuVars, op, held>>

\* pins.phi2 is set to the phase; reset() starts each of its half-cycles from
\* the same levels.
Request_NoClock == IF prog = "reset" THEN NoPins ELSE hpins
Request == [(IF prog = "reset" THEN NoPins ELSE hpins) EXCEPT !.phi2 = phase]

\* write_serial.
Send ==
    /\ prog # "off" /\ at = "idle"
    /\ msg' = Request
    /\ at' = "lines"
    /\ UNCHANGED <<hostVars, phi2, res, latch, dir, cpuVars, historyVars>>

LastOfReset_OffByOne == left = 0
LastOfReset == left = 1

\* The last half-cycle of reset() releases the line for the first step().
ResetStep ==
    /\ prog = "reset" /\ at = "reply"
    /\ at' = "idle"
    /\ left' = left - 1
    /\ phase' = ~phase
    /\ IF LastOfReset
       THEN /\ prog' = "run"
            /\ hpins' = [msg EXCEPT !.res = TRUE, !.data = Zero, !.addr = Zero]
       ELSE /\ hpins' = msg
            /\ UNCHANGED prog
    /\ UNCHANGED <<addr, write, mem, msg, phi2, res, latch, dir, cpuVars, historyVars>>

\* What step() takes from the pins read_serial has just decoded.
WriteCycle_BeforeDecode == hpins.rw = "write"
WriteCycle == msg.rw = "write"

Fetch_Late(a) == msg
Fetch(a) == [msg EXCEPT !.data = mem[a]]

StoredByte_BeforeDecode == hpins.data
StoredByte == msg.data

\* step() after read_serial.  stop: the user quits, or MAX_CYCLES is reached.
LowStep(stop) ==
    /\ prog = "run" /\ at = "reply" /\ ~phase
    /\ addr' = msg.addr
    /\ write' = WriteCycle
    /\ hpins' = IF write' THEN msg ELSE Fetch(addr')
    /\ IF stop THEN prog' = "off" /\ served' = FALSE /\ UNCHANGED phase
               ELSE phase' = TRUE /\ UNCHANGED <<prog, served>>
    /\ at' = "idle"
    /\ UNCHANGED <<left, mem, msg, phi2, res, latch, dir, cpuVars, cpuMem, op, held>>

\* step() ends the run before it has stored the byte.
HighStep_StopFirst(stop) ==
    /\ prog = "run" /\ at = "reply" /\ phase
    /\ hpins' = msg
    /\ IF stop \/ (msg.data = Zero /\ msg.sync)
       THEN prog' = "off" /\ served' = FALSE /\ UNCHANGED <<phase, mem>>
       ELSE /\ phase' = FALSE /\ UNCHANGED <<prog, served>>
            /\ mem' = IF write THEN [mem EXCEPT ![addr] = StoredByte] ELSE mem
    /\ at' = "idle"
    /\ UNCHANGED <<left, addr, write, msg, phi2, res, latch, dir, cpuVars, cpuMem, op, held>>

HighStep(stop) ==
    /\ prog = "run" /\ at = "reply" /\ phase
    /\ hpins' = msg
    /\ mem' = IF write THEN [mem EXCEPT ![addr] = StoredByte] ELSE mem
    /\ IF stop \/ (msg.data = Zero /\ msg.sync)   \* EXIT_ON_BRK
       THEN prog' = "off" /\ served' = FALSE /\ UNCHANGED phase
       ELSE phase' = FALSE /\ UNCHANGED <<prog, served>>
    /\ at' = "idle"
    /\ UNCHANGED <<left, addr, write, msg, phi2, res, latch, dir, cpuVars, cpuMem, op, held>>

\* The program is killed; the firmware finishes the request it is in.
Kill ==
    /\ prog # "off"
    /\ prog' = "off" /\ served' = FALSE
    /\ UNCHANGED <<left, phase, hpins, addr, write, mem, bridgeVars, cpuVars, cpuMem, op, held>>

Unread ==
    /\ prog = "off" /\ at = "reply"
    /\ at' = "idle"
    /\ UNCHANGED <<hostVars, msg, phi2, res, latch, dir, cpuVars, historyVars>>

-----------------------------------------------------------------------------
\* The firmware.

\* set_pins_state up to the reset pin: IRQ, NMI, BE, PHI2, SO, RES.  The edge
\* of PHI2 is what the CPU acts upon: at a falling edge it takes a read's data
\* off the bus, or is done with a write, and begins its next cycle.
write_lines ==
    /\ at = "lines"
    /\ at' = "latch"
    /\ phi2' = msg.phi2
    /\ res' = msg.res
    /\ held' = IF res /\ ~msg.res THEN IF ~phi2 /\ msg.phi2 THEN 1 ELSE 0
               ELSE IF ~phi2 /\ msg.phi2 /\ held < 2 THEN held + 1
               ELSE held
    /\ IF phi2 /\ ~msg.phi2
       THEN /\ settled' = FALSE
            /\ served' = (prog = "run")
            /\ IF served
               THEN IF cpu.rw = "read"
                    THEN /\ \E v \in BusValues :
                              op' = [kind |-> "read", addr |-> cpu.addr, data |-> v]
                         /\ UNCHANGED cpuMem
                    ELSE /\ op' = [kind |-> "write", addr |-> cpu.addr, data |-> cpu.data]
                         /\ cpuMem' = [cpuMem EXCEPT ![cpu.addr] = cpu.data]
               ELSE UNCHANGED <<op, cpuMem>>
       ELSE UNCHANGED <<settled, served, op, cpuMem>>
    /\ UNCHANGED <<hostVars, msg, latch, dir, cpu>>

\* The tail of set_pins_state: the data latches, if RW reads HIGH by now.
latch_data ==
    /\ at = "latch"
    /\ at' = "gate"
    /\ latch' = IF cpu.rw = "read" THEN msg.data ELSE latch
    /\ UNCHANGED <<hostVars, msg, phi2, res, dir, cpuVars, historyVars>>

handle_cycle_RwOnly ==
    /\ at = "gate"
    /\ at' = "sample"
    /\ dir' = IF cpu.rw = "read" THEN "out" ELSE "in"
    /\ UNCHANGED <<hostVars, msg, phi2, res, latch, cpuVars, historyVars>>

handle_cycle ==
    /\ at = "gate"
    /\ at' = "sample"
    /\ dir' = IF cpu.rw = "read" /\ phi2 THEN "out" ELSE "in"
    /\ UNCHANGED <<hostVars, msg, phi2, res, latch, cpuVars, historyVars>>

get_pins_state ==
    /\ at = "sample" /\ settled
    /\ at' = "reply"
    /\ \E v \in BusValues :
          msg' = [phi2 |-> phi2, res |-> res, rw |-> cpu.rw, sync |-> cpu.sync,
                  addr |-> cpu.addr, data |-> v]
    /\ UNCHANGED <<hostVars, phi2, res, latch, dir, cpuVars, historyVars>>

-----------------------------------------------------------------------------
\* The CPU puts out the address, RW and SYNC of its new cycle.
Settle ==
    /\ ~settled
    /\ settled' = TRUE
    /\ cpu' \in Outputs
    /\ UNCHANGED <<hostVars, bridgeVars, historyVars>>

-----------------------------------------------------------------------------
Runner   == Send \/ ResetStep \/ (\E stop \in BOOLEAN : LowStep(stop) \/ HighStep(stop))
Firmware == write_lines \/ latch_data \/ handle_cycle \/ get_pins_state

Next == Start \/ Runner \/ Kill \/ Unread \/ Firmware \/ Settle

Spec == Init /\ [][Next]_vars

\* A program that runs keeps running, loop() is called, the CPU settles.
FairSpec == Spec /\ WF_vars(Runner) /\ WF_vars(Firmware) /\ WF_vars(Settle)

-----------------------------------------------------------------------------
(* Properties.                                                             *)

TypeOK ==
    /\ prog \in {"off", "reset", "run"} /\ left \in 0 .. 4 /\ phase \in BOOLEAN
    /\ at \in {"idle", "lines", "latch", "gate", "sample", "reply"}
    /\ hpins \in Levels /\ msg \in Levels
    /\ addr \in Addr /\ write \in BOOLEAN
    /\ mem \in [Addr -> Data] /\ cpuMem \in [Addr -> Data]
    /\ phi2 \in BOOLEAN /\ res \in BOOLEAN /\ latch \in Data /\ dir \in {"in", "out"}
    /\ cpu \in Outputs /\ settled \in BOOLEAN /\ served \in BOOLEAN
    /\ op \in BusCycles /\ held \in 0 .. 2

\* docs/protocol.md: the data bus is driven "only during the high clock phase
\* of read cycles".  The firmware and the CPU never drive it together, even
\* though the firmware looks at RW while the CPU may still be changing it and
\* raises PHI2 before it decides about the bus.
NoContention == ~(CpuDrives /\ dir = "out")

\* In the high phase the runner works with the address and direction it read
\* in the low phase: they are those of the cycle the CPU is in.
RunnerFollowsCpu ==
    prog = "run" /\ served /\ phi2 =>
        addr = cpu.addr /\ (write <=> cpu.rw = "write")

\* The runner's memory is what the CPU's writes have made of it, except while
\* a write cycle is in its high phase: no write is lost, done twice, or done
\* to another address.
MemoryIsCurrent ==
    prog = "run" /\ ~(served /\ CpuDrives) => mem = cpuMem

\* A run that ends by itself, on BRK, the limit or the user's quit, leaves a
\* memory with every write of the CPU in it: also the one of the cycle it ends
\* in, whose falling edge the CPU never sees.
NoWriteLostAtStop ==
    [][prog = "run" /\ at = "reply" /\ prog' = "off" /\ at' = "idle" =>
        mem' = IF CpuDrives THEN [cpuMem EXCEPT ![cpu.addr] = cpu.data] ELSE cpuMem]_vars

\* runner.cpp: the reset procedure "requires to keep the CPU reset pin (40)
\* low for two cycles", wherever an earlier program was killed.
ResetHeldTwoCycles == [][~res /\ res' => held = 2]_vars

\* The CPU sees a memory: each of its read cycles takes off the bus, at the
\* falling edge, what its latest write to that address put there.
RAM == INSTANCE Ram WITH mem <- cpuMem

CpuSeesRam == RAM!Spec

\* A program that is not stopped keeps the clock going: host, firmware and
\* CPU never wait for one another in a circle.
ClockRuns ==
    \A level \in BOOLEAN :
        (prog # "off" /\ phi2 = level) ~> (prog = "off" \/ phi2 # level)

=============================================================================
