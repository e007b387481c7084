---------------------------- MODULE Diagnostics -----------------------------
(***************************************************************************)
(* The on-board diagnostics mode, src/src/diagnostics.cpp: the firmware    *)
(* clocks the CPU itself and compares what the CPU writes with what the    *)
(* test program in its ROM should write.                                   *)
(*                                                                         *)
(* The CPU and the wiring are external.  A fault of the wiring changes the *)
(* addresses and data that the firmware sees; a CPU that has gone astray   *)
(* writes something else.  Whether a fault also derails the program by     *)
(* corrupting a fetch is left to the strays: the CPU may keep to its       *)
(* program under any fault, and with it the question is what the monitor   *)
(* itself is able to notice.                                               *)
(***************************************************************************)
EXTENDS Integers, Sequences

CONSTANTS Faults,  \* wiring faults
          Strays,  \* writes that are not the test program's
          CYCLES_PER_LOOP

-----------------------------------------------------------------------------
\* The test program: ROM_CODE and its tables.

DATA_ADDR         == 24576  \* 0x6000
ADDRESS_TEST_BASE == 28672  \* 0x7000
REPORT_ADDR       == 32752  \* 0x7FF0
HIGH_ADDR_VALUE   == 90
REPORT_VALUE      == 170

DATA_PATTERNS ==
    <<0, 255, 85, 170, 51, 204, 15, 240, 17, 34, 68, 136, 119, 127, 254, 239>>
HIGH_ADDRS == <<32768, 40960, 49152, 57344>>  \* 0x8000, 0xA000, 0xC000, 0xE000
ADDRESS_COUNT == 256

DataWrite(i)    == [addr |-> DATA_ADDR, value |-> DATA_PATTERNS[i + 1]]
AddressWrite(i) == [addr |-> ADDRESS_TEST_BASE + i, value |-> i % 256]
HighWrite(i)    == [addr |-> HIGH_ADDRS[i + 1], value |-> HIGH_ADDR_VALUE]
ReportWrite     == [addr |-> REPORT_ADDR, value |-> REPORT_VALUE]

\* The writes of the program, in order: three loops and a straight line.
ROM_CODE ==
    [k \in 1 .. Len(DATA_PATTERNS) |-> DataWrite(k - 1)]
    \o [k \in 1 .. ADDRESS_COUNT |-> AddressWrite(k - 1)]
    \o [k \in 1 .. Len(HIGH_ADDRS) |-> HighWrite(k - 1)]
    \o <<ReportWrite>>

-----------------------------------------------------------------------------
\* Wiring faults: a line stuck at a level, or two lines of a bus shorted so
\* that one level wins.

NoFault == [bus |-> "none", kind |-> "none", lines |-> {}, level |-> 0]

SingleFaults ==
    [bus : {"addr"}, kind : {"stuck"}, lines : {{i} : i \in 0 .. 15}, level : {0, 1}]
    \cup [bus : {"data"}, kind : {"stuck"}, lines : {{i} : i \in 0 .. 7}, level : {0, 1}]
    \cup [bus : {"addr"}, kind : {"short"}, level : {0, 1},
          lines : {{i, j} : i \in 0 .. 15, j \in 0 .. 15} \ {{i} : i \in 0 .. 15}]
    \cup [bus : {"data"}, kind : {"short"}, level : {0, 1},
          lines : {{i, j} : i \in 0 .. 7, j \in 0 .. 7} \ {{i} : i \in 0 .. 7}]

\* One fault at most; addresses and data of any width.
ASSUME DiagnosticsAssumption ==
    /\ Faults \subseteq {NoFault} \cup SingleFaults
    /\ Strays \subseteq [addr : Nat, value : Nat]
    /\ CYCLES_PER_LOOP \in Nat \ {0}

Bit(v, i) == (v \div 2^i) % 2
SetBit(v, i, b) == v + (b - Bit(v, i)) * 2^i

\* The value of a bus as it arrives at the Teensy.
Arrives(bus, v, f) ==
    IF f.bus # bus \/ (f.kind = "short" /\ \A i, j \in f.lines : Bit(v, i) = Bit(v, j))
    THEN v
    ELSE LET i == CHOOSE i \in f.lines : TRUE
             w == SetBit(v, i, f.level)
         IN  IF f.kind = "stuck" THEN w
             ELSE SetBit(w, CHOOSE j \in f.lines : j # i, f.level)

-----------------------------------------------------------------------------
ReadCycle == [rw |-> "read", addr |-> 0, value |-> 0]

WriteCycle(w, f) ==
    [rw |-> "write", addr |-> Arrives("addr", w.addr, f), value |-> Arrives("data", w.value, f)]

VARIABLES
    dtr,
    at,      \* "power", "reset", then in loop(): "loop", "low", "high", "report"
    i,       \* run_cycle calls made by this loop_diagnostics
    phi2, res, dir,
    phase, pattern_index, address_index, high_index,
    error, done, halted, printed,
    fault,   \* the wiring, fixed
    pc,      \* the CPU: the write of the test program that comes next,
    cycle,   \* and its bus cycle, a write with what arrives of it
    matched  \* history: writes seen as the program has them, in order; -1 after any other

monitor == <<phase, pattern_index, address_index, high_index>>
verdict == <<error, done, halted>>
vars == <<dtr, at, i, phi2, res, dir, monitor, verdict, printed, fault, pc, cycle,
          matched>>

Init ==
    /\ dtr \in BOOLEAN /\ at = "power" /\ i = 0
    /\ phi2 = FALSE /\ res = TRUE /\ dir = "in"
    /\ phase = "DataBus" /\ pattern_index = 0 /\ address_index = 0 /\ high_index = 0
    /\ error = FALSE /\ done = FALSE /\ halted = FALSE /\ printed = FALSE
    /\ fault \in Faults
    /\ pc = 1 /\ cycle = ReadCycle
    /\ matched = 0

-----------------------------------------------------------------------------
\* setup(): setup_cpu, then reset() pulls the line low, waits, and releases it.
PullReset ==
    /\ at = "power"
    /\ at' = "reset"
    /\ res' = FALSE
    /\ UNCHANGED <<dtr, i, phi2, dir, monitor, verdict, printed, fault, pc, cycle, matched>>

ReleaseReset ==
    /\ at = "reset"
    /\ at' = "loop"
    /\ res' = TRUE
    /\ UNCHANGED <<dtr, i, phi2, dir, monitor, verdict, printed, fault, pc, cycle, matched>>

Port ==
    /\ dtr' = ~dtr
    /\ UNCHANGED <<at, i, phi2, res, dir, monitor, verdict, printed, fault, pc, cycle, matched>>

-----------------------------------------------------------------------------
\* loop() with DTR high calls loop_diagnostics.  (init_memory, the first time,
\* gives every variable the value it starts with.)
Halted_NoReport ==
    /\ dtr /\ at = "loop" /\ halted
    /\ at' = "loop"
    /\ phi2' = FALSE
    /\ UNCHANGED <<dtr, i, res, dir, monitor, verdict, printed, fault, pc, cycle, matched>>

Halted ==
    /\ dtr /\ at = "loop" /\ halted
    /\ at' = "report"
    /\ phi2' = FALSE
    /\ UNCHANGED <<dtr, i, res, dir, monitor, verdict, printed, fault, pc, cycle, matched>>

StartCycles ==
    /\ dtr /\ at = "loop" /\ ~halted
    /\ at' = "low"
    /\ i' = 0
    /\ UNCHANGED <<dtr, phi2, res, dir, monitor, verdict, printed, fault, pc, cycle, matched>>

\* The first half of run_cycle: PHI2 low, the CPU begins its next bus cycle,
\* handle_cycle, RW and the address are read, data is written for a read.
run_cycle_low ==
    /\ at = "low"
    /\ at' = "high"
    /\ phi2' = FALSE
    /\ \/ cycle' = ReadCycle /\ UNCHANGED pc
       \/ /\ pc <= Len(ROM_CODE)
          /\ cycle' = WriteCycle(ROM_CODE[pc], fault) /\ pc' = pc + 1
       \/ /\ \E w \in Strays : cycle' = WriteCycle(w, fault)
          /\ pc' \in {pc, pc + 1} \ {Len(ROM_CODE) + 2}
    /\ dir' = IF cycle'.rw = "read" /\ phi2' THEN "out" ELSE "in"
    /\ UNCHANGED <<dtr, i, res, monitor, verdict, printed, fault, matched>>

-----------------------------------------------------------------------------
\* monitor_write, for a write w that has arrived.

set_error == error' = TRUE /\ halted' = TRUE /\ UNCHANGED <<done, monitor>>

Matches_AddrOnly(w, expected) == w.addr = expected.addr
Matches(w, expected) == w = expected

PatternsDone_OffByOne(n) == n > Len(DATA_PATTERNS)
PatternsDone(n) == n >= Len(DATA_PATTERNS)

MonitorData(w) ==
    /\ phase = "DataBus"
    /\ IF Matches(w, DataWrite(pattern_index))
       THEN /\ pattern_index' = pattern_index + 1
            /\ phase' = IF PatternsDone(pattern_index') THEN "AddressBus" ELSE phase
            /\ UNCHANGED <<address_index, high_index, verdict>>
       ELSE set_error

MonitorAddress(w) ==
    /\ phase = "AddressBus"
    /\ IF Matches(w, AddressWrite(address_index))
       THEN /\ address_index' = address_index + 1
            /\ phase' = IF address_index' >= ADDRESS_COUNT THEN "HighAddress" ELSE phase
            /\ UNCHANGED <<pattern_index, high_index, verdict>>
       ELSE set_error

MonitorHigh(w) ==
    /\ phase = "HighAddress"
    /\ IF Matches(w, HighWrite(high_index))
       THEN /\ high_index' = high_index + 1
            /\ phase' = IF high_index' >= Len(HIGH_ADDRS) THEN "Completion" ELSE phase
            /\ UNCHANGED <<pattern_index, address_index, verdict>>
       ELSE set_error

Completion_AnyWrite(w) ==
    /\ phase = "Completion"
    /\ done' = TRUE /\ halted' = TRUE
    /\ UNCHANGED <<error, monitor>>

Completion(w) ==
    /\ phase = "Completion"
    /\ IF Matches(w, ReportWrite)
       THEN done' = TRUE /\ halted' = TRUE /\ UNCHANGED <<error, monitor>>
       ELSE set_error

monitor_write(w) == MonitorData(w) \/ MonitorAddress(w) \/ MonitorHigh(w) \/ Completion(w)

-----------------------------------------------------------------------------
\* The second half of run_cycle: PHI2 high, a write is read off the bus and
\* monitored; and the loop around run_cycle, which leaves PHI2 low when halted.
run_cycle_high ==
    /\ at = "high"
    /\ IF cycle.rw = "read"
       THEN UNCHANGED <<monitor, verdict, matched>>
       ELSE LET w == [addr |-> cycle.addr, value |-> cycle.value]
            IN  /\ monitor_write(w)
                /\ matched' = IF matched \in 0 .. Len(ROM_CODE) - 1 /\ w = ROM_CODE[matched + 1]
                              THEN matched + 1 ELSE -1
    /\ phi2' = ~halted'
    /\ i' = i + 1
    /\ at' = IF halted' \/ i' = CYCLES_PER_LOOP THEN "report" ELSE "low"
    /\ UNCHANGED <<dtr, res, dir, printed, fault, pc, cycle>>

maybe_report ==
    /\ at = "report"
    /\ at' = "loop"
    /\ printed' = (printed \/ (dtr /\ (error \/ done)))
    /\ UNCHANGED <<dtr, i, phi2, res, dir, monitor, verdict, fault, pc, cycle, matched>>

-----------------------------------------------------------------------------
loop_diagnostics == Halted \/ StartCycles \/ run_cycle_low \/ run_cycle_high \/ maybe_report

Next == PullReset \/ ReleaseReset \/ Port \/ loop_diagnostics

Spec == Init /\ [][Next]_vars

\* The firmware keeps running.
FairSpec == Spec /\ WF_vars(loop_diagnostics)

-----------------------------------------------------------------------------
(* Properties.                                                             *)

GTypeOK ==
    /\ dtr \in BOOLEAN /\ i \in 0 .. CYCLES_PER_LOOP
    /\ at \in {"power", "reset", "loop", "low", "high", "report"}
    /\ phi2 \in BOOLEAN /\ res \in BOOLEAN /\ dir \in {"in", "out"}
    /\ phase \in {"DataBus", "AddressBus", "HighAddress", "Completion"}
    /\ pattern_index \in 0 .. Len(DATA_PATTERNS)
    /\ phase = "DataBus" => pattern_index < Len(DATA_PATTERNS)
    /\ address_index \in 0 .. ADDRESS_COUNT
    /\ phase = "HighAddress" => high_index < Len(HIGH_ADDRS)
    /\ high_index \in 0 .. Len(HIGH_ADDRS)
    /\ error \in BOOLEAN /\ done \in BOOLEAN /\ halted = (error \/ done) /\ printed \in BOOLEAN
    /\ pc \in 1 .. Len(ROM_CODE) + 1 /\ matched \in -1 .. Len(ROM_CODE)

\* "Diagnostics PASSED" means that every write of the test program arrived
\* unharmed and in order, and nothing else did.
PassedMeansAllSeen == done => matched = Len(ROM_CODE)

\* No stuck line and no short of two data lines passes, and of the shorts of
\* address lines at most one among A8 to A11: maybe_report says "Data bus,
\* address bus, and high address lines verified."
StuckLinesAreCaught ==
    done /\ fault # NoFault =>
        fault.kind = "short" /\ fault.bus = "addr" /\ fault.lines \subseteq 8 .. 11

\* A verdict is printed while a host listens, even if it listens only later.
VerdictIsPrinted == (halted /\ dtr) ~> (printed \/ ~dtr)

\* docs/protocol.md "the bridge drives the CPU data pins" in the high phase of
\* read cycles: run_cycle calls handle_cycle in the low phase only.
ReadsAreDriven == phi2 /\ cycle.rw = "read" => dir = "out"

=============================================================================
