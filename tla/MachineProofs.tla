---------------------------- MODULE MachineProofs ---------------------------
(***************************************************************************)
(* For any set of addresses and of data: the firmware and the CPU never    *)
(* drive the data bus together, the runner's memory follows the CPU's      *)
(* writes, and what the CPU sees is a memory.                              *)
(***************************************************************************)
EXTENDS Machine, TLAPS

\* Between the two halves of set_pins_state and the reply the clock pin shows
\* the runner's phase.
Late == {"latch", "gate", "sample", "reply"}

\* The clock, the position in the protocol and the runner's phase.
ClockInv ==
    /\ prog = "reset" => left \in 1 .. 4 /\ (phase <=> left \in {1, 3})
    /\ prog # "off" /\ at \in Late => phi2 = phase
    /\ prog # "off" /\ at = "lines" => msg.phi2 = phase
    /\ prog = "run" /\ at \in {"idle", "lines"} => phi2 = ~phase
    /\ served => prog = "run"
    /\ prog = "run" /\ (phase \/ at \in Late) => served

\* The turnaround of the bus: the CPU changes its outputs only in the low
\* phase and before the firmware samples them; the firmware lets go of the bus
\* in the same request that lowers PHI2.
BusInv ==
    /\ ~settled => ~phi2 /\ at \in {"latch", "gate", "sample"}
    /\ dir = "out" => phi2 \/ at \in {"latch", "gate"}
    /\ dir = "out" /\ phi2 => cpu.rw = "read"

\* The runner's copy of the CPU's cycle.
AgreeInv ==
    served =>
        /\ phase \/ phi2 => addr = cpu.addr /\ (write <=> cpu.rw = "write")
        /\ at = "reply" => msg.addr = cpu.addr /\ msg.rw = cpu.rw

\* The byte of a read cycle on its way from the runner's memory to the bus,
\* and the byte of a write cycle on its way back.
DataInv ==
    served =>
        /\ phase /\ ~write =>
              /\ at = "idle" => hpins.data = mem[addr]
              /\ at \in {"lines", "latch"} => msg.data = mem[addr]
              /\ at \in {"gate", "sample", "reply"} => latch = mem[addr]
              /\ at \in {"sample", "reply"} => dir = "out"
        /\ phi2 /\ ~phase /\ ~write => dir = "out" /\ latch = mem[addr]
        /\ phase /\ write /\ at = "reply" => msg.data = cpu.data

\* The runner stores a write at the end of the high phase, the CPU is done
\* with it at the falling edge.
MemInv ==
    /\ prog # "off" /\ ~(served /\ write /\ phi2 /\ ~phase) => mem = cpuMem
    /\ served /\ write /\ phi2 /\ ~phase =>
          mem = [cpuMem EXCEPT ![cpu.addr] = cpu.data]

IInv == TypeOK /\ ClockInv /\ BusInv /\ AgreeInv /\ DataInv /\ MemInv

-----------------------------------------------------------------------------
\* Records of levels: their fields, and the updates the program makes.
LEMMA LevelsRecords ==
    /\ NoPins \in Levels
    /\ \A l \in Levels : /\ l.addr \in Addr /\ l.data \in Data /\ l.rw \in {"read", "write"}
                         /\ l.phi2 \in BOOLEAN /\ l.res \in BOOLEAN /\ l.sync \in BOOLEAN
    /\ \A l \in Levels, b \in BOOLEAN : [l EXCEPT !.phi2 = b] \in Levels
    /\ \A l \in Levels, d \in Data : [l EXCEPT !.data = d] \in Levels
    /\ \A l \in Levels : [l EXCEPT !.res = TRUE, !.data = Zero, !.addr = Zero] \in Levels
<1>1. NoPins \in Levels
  BY MachineAssumption DEF NoPins, Levels
<1>2. \A l \in Levels : /\ l.addr \in Addr /\ l.data \in Data /\ l.rw \in {"read", "write"}
                        /\ l.phi2 \in BOOLEAN /\ l.res \in BOOLEAN /\ l.sync \in BOOLEAN
  BY DEF Levels
<1>3. \A l \in Levels, b \in BOOLEAN : [l EXCEPT !.phi2 = b] \in Levels
  BY DEF Levels
<1>4. \A l \in Levels, d \in Data : [l EXCEPT !.data = d] \in Levels
  BY DEF Levels
<1>5. \A l \in Levels : [l EXCEPT !.res = TRUE, !.data = Zero, !.addr = Zero] \in Levels
  BY MachineAssumption DEF Levels
<1> QED
  BY <1>1, <1>2, <1>3, <1>4, <1>5

\* The fields of what the CPU puts out.
LEMMA OutputsRecords ==
    \A c \in Outputs : /\ c.addr \in Addr /\ c.data \in Data /\ c.sync \in BOOLEAN
                       /\ c.rw \in {"read", "write"}
BY DEF Outputs

\* Before the first program starts.
LEMMA InitIInv == Init => IInv
<1> SUFFICES ASSUME Init PROVE IInv
  OBVIOUS
<1> USE DEF Init
<1>1. TypeOK
  <2>1. op \in BusCycles
    BY MachineAssumption DEF BusCycles
  <2>2. left \in 0 .. 4 /\ held \in 0 .. 2
    OBVIOUS
  <2>3. NoPins \in Levels
    BY LevelsRecords
  <2> QED
    BY <2>1, <2>2, <2>3, MachineAssumption DEF TypeOK
<1>2. ClockInv
  BY DEF ClockInv, Late
<1>3. BusInv /\ AgreeInv /\ DataInv
  BY DEF BusInv, AgreeInv, DataInv
<1>4. MemInv
  BY DEF MemInv
<1> QED
  BY <1>1, <1>2, <1>3, <1>4 DEF IInv

\* A half-cycle of reset() is counted down to 0, never below.
LEMMA CountersPreserved ==
    TypeOK /\ ClockInv /\ [Next]_vars => left' \in 0 .. 4 /\ held' \in 0 .. 2
<1> SUFFICES ASSUME TypeOK, ClockInv, [Next]_vars
             PROVE  left' \in 0 .. 4 /\ held' \in 0 .. 2
  OBVIOUS
<1>1. left' \in 0 .. 4
  <2>1. left \in 0 .. 4 /\ (prog = "reset" => left \in 1 .. 4)
    BY DEF TypeOK, ClockInv
  <2>2. left' = left \/ left' = 4 \/ (prog = "reset" /\ left' = left - 1)
    BY DEF Next, Runner, Firmware, Start, ResetHalfCycles, Send, Request, ResetStep,
       LastOfReset, LowStep, WriteCycle, Fetch, HighStep, StoredByte, Kill, Unread,
       write_lines, latch_data, handle_cycle, get_pins_state, Settle, vars, hostVars
  <2> QED
    BY <2>1, <2>2
<1>2. held' \in 0 .. 2
  <2>1. held \in 0 .. 2
    BY DEF TypeOK
  <2>2. held' = held \/ held' = 0 \/ held' = 1 \/ (held < 2 /\ held' = held + 1)
    BY DEF Next, Runner, Firmware, Start, ResetHalfCycles, Send, Request, ResetStep,
       LastOfReset, LowStep, WriteCycle, Fetch, HighStep, StoredByte, Kill, Unread,
       write_lines, latch_data, handle_cycle, get_pins_state, Settle, vars, historyVars
  <2> QED
    BY <2>1, <2>2
<1> QED
  BY <1>1, <1>2

\* Types.
LEMMA TypePreserved == TypeOK /\ ClockInv /\ [Next]_vars => TypeOK'
<1> SUFFICES ASSUME TypeOK, ClockInv, [Next]_vars PROVE TypeOK'
  OBVIOUS
<1>0. left' \in 0 .. 4 /\ held' \in 0 .. 2
  BY CountersPreserved
<1>c. /\ BusValues \subseteq Data
      /\ cpu.addr \in Addr /\ cpu.data \in Data /\ cpu.rw \in {"read", "write"}
      /\ cpu.sync \in BOOLEAN
  BY OutputsRecords DEF BusValues, TypeOK
<1>m. /\ msg.addr \in Addr /\ msg.data \in Data
      /\ msg.phi2 \in BOOLEAN /\ msg.res \in BOOLEAN
  BY LevelsRecords DEF TypeOK
<1> USE DEF TypeOK
<1>1. CASE Start
  <2>1. NoPins \in Levels
    BY LevelsRecords
  <2> QED
    BY <1>0, <1>1, <2>1, MachineAssumption DEF Start, ResetHalfCycles, bridgeVars, cpuVars
<1>2. CASE Send
  <2>1. msg' \in Levels
    BY <1>2, LevelsRecords DEF Send, Request
  <2> QED
    BY <1>0, <1>2, <2>1 DEF Send, Request, hostVars, cpuVars, historyVars
<1>3. CASE ResetStep
  <2>1. hpins' \in Levels
    BY <1>3, LevelsRecords DEF ResetStep, LastOfReset
  <2>2. phase' \in BOOLEAN /\ prog' \in {"off", "reset", "run"}
    BY <1>3 DEF ResetStep, LastOfReset
  <2> QED
    BY <1>0, <1>3, <2>1, <2>2 DEF ResetStep, LastOfReset, cpuVars, historyVars
<1>4. ASSUME NEW stop \in BOOLEAN, LowStep(stop) PROVE TypeOK'
  <2>1. addr' \in Addr /\ write' \in BOOLEAN
    BY <1>4, <1>m DEF LowStep, WriteCycle, Fetch
  <2>2. hpins' \in Levels
    <3>1. mem[addr'] \in Data
      BY <2>1
    <3> QED
      BY <1>4, <3>1, LevelsRecords DEF LowStep, WriteCycle, Fetch
  <2>3. phase' \in BOOLEAN /\ prog' \in {"off", "reset", "run"} /\ served' \in BOOLEAN
    BY <1>4 DEF LowStep, WriteCycle, Fetch
  <2> QED
    BY <1>0, <1>4, <2>1, <2>2, <2>3 DEF LowStep, WriteCycle, Fetch, cpuVars
<1>5. ASSUME NEW stop \in BOOLEAN, HighStep(stop) PROVE TypeOK'
  <2>1. mem' \in [Addr -> Data]
    BY <1>5, <1>m DEF HighStep, StoredByte
  <2>2. phase' \in BOOLEAN /\ prog' \in {"off", "reset", "run"} /\ served' \in BOOLEAN
    BY <1>5 DEF HighStep, StoredByte
  <2> QED
    BY <1>0, <1>5, <2>1, <2>2 DEF HighStep, StoredByte, cpuVars
<1>6. CASE Kill
  BY <1>0, <1>6 DEF Kill, bridgeVars, cpuVars
<1>7. CASE Unread
  BY <1>0, <1>7 DEF Unread, hostVars, cpuVars, historyVars
<1>8. CASE write_lines
  <2>1. phi2' \in BOOLEAN /\ res' \in BOOLEAN /\ settled' \in BOOLEAN /\ served' \in BOOLEAN
    BY <1>8, <1>m DEF write_lines
  <2>2. op' \in BusCycles
    BY <1>8, <1>c DEF write_lines, BusCycles
  <2>3. cpuMem' \in [Addr -> Data]
    BY <1>8, <1>c DEF write_lines
  <2> QED
    BY <1>0, <1>8, <2>1, <2>2, <2>3 DEF write_lines, hostVars
<1>9. CASE latch_data
  BY <1>0, <1>9, <1>m DEF latch_data, hostVars, cpuVars, historyVars
<1>10. CASE handle_cycle
  BY <1>0, <1>10 DEF handle_cycle, hostVars, cpuVars, historyVars
<1>11. CASE get_pins_state
  <2>1. msg' \in Levels
    BY <1>c, <1>11 DEF get_pins_state, Levels
  <2> QED
    BY <1>0, <2>1, <1>11 DEF get_pins_state, hostVars, cpuVars, historyVars
<1>12. CASE Settle
  BY <1>0, <1>12 DEF Settle, hostVars, bridgeVars, historyVars
<1>13. CASE UNCHANGED vars
  BY <1>0, <1>13 DEF vars, hostVars, bridgeVars, cpuVars, historyVars
<1> QED
  BY <1>1, <1>2, <1>3, <1>4, <1>5, <1>6, <1>7, <1>8, <1>9, <1>10, <1>11,
     <1>12, <1>13 DEF Next, Runner, Firmware

\* The clock: phase, requested level and pin go together from step to step.
LEMMA ClockPreserved == TypeOK /\ ClockInv /\ [Next]_vars => ClockInv'
<1> SUFFICES ASSUME TypeOK, ClockInv, [Next]_vars PROVE ClockInv'
  OBVIOUS
<1> USE DEF TypeOK, ClockInv, Late
<1>1. CASE Start
  BY <1>1 DEF Start, ResetHalfCycles, hostVars, bridgeVars, cpuVars, historyVars
<1>2. CASE Send
  BY <1>2 DEF Send, Request, hostVars, bridgeVars, cpuVars, historyVars
<1>3. CASE ResetStep
  <2>1. CASE left = 1
    <3>1. phase = TRUE
      BY <1>3, <2>1 DEF ResetStep, LastOfReset
    <3>2. phase' = FALSE /\ prog' = "run" /\ at' = "idle" /\ phi2' = TRUE /\ ~served'
      BY <1>3, <2>1, <3>1 DEF ResetStep, LastOfReset, historyVars
    <3> QED
      BY <3>2
  <2>2. CASE left # 1
    <3>1. left' \in 1 .. 4 /\ (left' \in {1, 3} <=> left \notin {1, 3})
      BY <1>3, <2>2 DEF ResetStep, LastOfReset
    <3>2. prog' = "reset" /\ at' = "idle" /\ (phase' <=> ~phase) /\ ~served'
      BY <1>3, <2>2 DEF ResetStep, LastOfReset, historyVars
    <3>3. phase <=> left \in {1, 3}
      BY <1>3 DEF ResetStep, LastOfReset
    <3> QED
      BY <3>1, <3>2, <3>3
  <2> QED
    BY <2>1, <2>2
<1>4. ASSUME NEW stop \in BOOLEAN, LowStep(stop) PROVE ClockInv'
  BY <1>4 DEF LowStep, WriteCycle, Fetch, bridgeVars, cpuVars, historyVars
<1>5. ASSUME NEW stop \in BOOLEAN, HighStep(stop) PROVE ClockInv'
  BY <1>5 DEF HighStep, StoredByte, bridgeVars, cpuVars, historyVars
<1>6. CASE Kill
  BY <1>6 DEF Kill, hostVars, bridgeVars, cpuVars, historyVars
<1>7. CASE Unread
  BY <1>7 DEF Unread, hostVars, bridgeVars, cpuVars, historyVars
<1>8. CASE write_lines
  BY <1>8 DEF write_lines, hostVars, bridgeVars, cpuVars, historyVars
<1>9. CASE latch_data
  BY <1>9 DEF latch_data, hostVars, bridgeVars, cpuVars, historyVars
<1>10. CASE handle_cycle
  BY <1>10 DEF handle_cycle, hostVars, bridgeVars, cpuVars, historyVars
<1>11. CASE get_pins_state
  BY <1>11 DEF get_pins_state, hostVars, bridgeVars, cpuVars, historyVars
<1>12. CASE Settle
  BY <1>12 DEF Settle, hostVars, bridgeVars, cpuVars, historyVars
<1>13. CASE UNCHANGED vars
  BY <1>13 DEF vars, hostVars, bridgeVars, cpuVars, historyVars
<1> QED
  BY <1>1, <1>2, <1>3, <1>4, <1>5, <1>6, <1>7, <1>8, <1>9, <1>10, <1>11,
     <1>12, <1>13 DEF Next, Runner, Firmware

\* The data bus: what handle_cycle set for one phase is never in force in a phase in
\* which the CPU drives.
LEMMA BusPreserved == TypeOK /\ BusInv /\ [Next]_vars => BusInv'
<1> SUFFICES ASSUME TypeOK, BusInv, [Next]_vars PROVE BusInv'
  OBVIOUS
<1> USE DEF TypeOK, BusInv
<1>1. CASE Start
  BY <1>1 DEF Start, ResetHalfCycles, hostVars, bridgeVars, cpuVars, historyVars
<1>2. CASE Send
  BY <1>2 DEF Send, Request, hostVars, bridgeVars, cpuVars, historyVars
<1>3. CASE ResetStep
  BY <1>3 DEF ResetStep, LastOfReset, hostVars, bridgeVars, cpuVars, historyVars
<1>4. ASSUME NEW stop \in BOOLEAN, LowStep(stop) PROVE BusInv'
  BY <1>4 DEF LowStep, WriteCycle, Fetch, bridgeVars, cpuVars, historyVars
<1>5. ASSUME NEW stop \in BOOLEAN, HighStep(stop) PROVE BusInv'
  BY <1>5 DEF HighStep, StoredByte, bridgeVars, cpuVars, historyVars
<1>6. CASE Kill
  BY <1>6 DEF Kill, hostVars, bridgeVars, cpuVars, historyVars
<1>7. CASE Unread
  BY <1>7 DEF Unread, hostVars, bridgeVars, cpuVars, historyVars
<1>8. CASE write_lines
  BY <1>8 DEF write_lines, hostVars, bridgeVars, cpuVars, historyVars
<1>9. CASE latch_data
  BY <1>9 DEF latch_data, hostVars, bridgeVars, cpuVars, historyVars
<1>10. CASE handle_cycle
  BY <1>10 DEF handle_cycle, hostVars, bridgeVars, cpuVars, historyVars
<1>11. CASE get_pins_state
  BY <1>11 DEF get_pins_state, hostVars, bridgeVars, cpuVars, historyVars
<1>12. CASE Settle
  BY <1>12 DEF Settle, hostVars, bridgeVars, cpuVars, historyVars
<1>13. CASE UNCHANGED vars
  BY <1>13 DEF vars, hostVars, bridgeVars, cpuVars, historyVars
<1> QED
  BY <1>1, <1>2, <1>3, <1>4, <1>5, <1>6, <1>7, <1>8, <1>9, <1>10, <1>11,
     <1>12, <1>13 DEF Next, Runner, Firmware

\* The address and direction that the runner latched are the CPU's until the next
\* falling edge.
LEMMA AgreePreserved == TypeOK /\ ClockInv /\ BusInv /\ AgreeInv /\ [Next]_vars => AgreeInv'
<1> SUFFICES ASSUME TypeOK, ClockInv, BusInv, AgreeInv, [Next]_vars PROVE AgreeInv'
  OBVIOUS
<1> USE DEF TypeOK, ClockInv, BusInv, AgreeInv, Late
<1>1. CASE Start
  BY <1>1 DEF Start, ResetHalfCycles, hostVars, bridgeVars, cpuVars, historyVars
<1>2. CASE Send
  BY <1>2 DEF Send, Request, hostVars, bridgeVars, cpuVars, historyVars
<1>3. CASE ResetStep
  BY <1>3 DEF ResetStep, LastOfReset, hostVars, bridgeVars, cpuVars, historyVars
<1>4. ASSUME NEW stop \in BOOLEAN, LowStep(stop) PROVE AgreeInv'
  BY <1>4 DEF LowStep, WriteCycle, Fetch, bridgeVars, cpuVars, historyVars
<1>5. ASSUME NEW stop \in BOOLEAN, HighStep(stop) PROVE AgreeInv'
  BY <1>5 DEF HighStep, StoredByte, bridgeVars, cpuVars, historyVars
<1>6. CASE Kill
  BY <1>6 DEF Kill, hostVars, bridgeVars, cpuVars, historyVars
<1>7. CASE Unread
  BY <1>7 DEF Unread, hostVars, bridgeVars, cpuVars, historyVars
<1>8. CASE write_lines
  BY <1>8 DEF write_lines, hostVars, bridgeVars, cpuVars, historyVars
<1>9. CASE latch_data
  BY <1>9 DEF latch_data, hostVars, bridgeVars, cpuVars, historyVars
<1>10. CASE handle_cycle
  BY <1>10 DEF handle_cycle, hostVars, bridgeVars, cpuVars, historyVars
<1>11. CASE get_pins_state
  BY <1>11 DEF get_pins_state, hostVars, bridgeVars, cpuVars, historyVars
<1>12. CASE Settle
  BY <1>12 DEF Settle, hostVars, bridgeVars, cpuVars, historyVars
<1>13. CASE UNCHANGED vars
  BY <1>13 DEF vars, hostVars, bridgeVars, cpuVars, historyVars
<1> QED
  BY <1>1, <1>2, <1>3, <1>4, <1>5, <1>6, <1>7, <1>8, <1>9, <1>10, <1>11,
     <1>12, <1>13 DEF Next, Runner, Firmware

\* The byte of a cycle on its way, by place in the protocol.
LEMMA DataPreserved == TypeOK /\ ClockInv /\ BusInv /\ AgreeInv /\ DataInv /\
   [Next]_vars => DataInv'
<1> SUFFICES ASSUME TypeOK, ClockInv, BusInv, AgreeInv, DataInv, [Next]_vars PROVE DataInv'
  OBVIOUS
<1>0. cpu.rw \in {"read", "write"}
  BY OutputsRecords DEF TypeOK
<1> USE DEF TypeOK, ClockInv, BusInv, AgreeInv, DataInv, Late
<1>1. CASE Start
  BY <1>1 DEF Start, ResetHalfCycles, hostVars, bridgeVars, cpuVars, historyVars
<1>2. CASE Send
  BY <1>2 DEF Send, Request, hostVars, bridgeVars, cpuVars, historyVars
<1>3. CASE ResetStep
  BY <1>3 DEF ResetStep, LastOfReset, hostVars, bridgeVars, cpuVars, historyVars
<1>4. ASSUME NEW stop \in BOOLEAN, LowStep(stop) PROVE DataInv'
  BY <1>4 DEF LowStep, WriteCycle, Fetch, bridgeVars, cpuVars, historyVars
<1>5. ASSUME NEW stop \in BOOLEAN, HighStep(stop) PROVE DataInv'
  BY <1>5 DEF HighStep, StoredByte, bridgeVars, cpuVars, historyVars
<1>6. CASE Kill
  BY <1>6 DEF Kill, hostVars, bridgeVars, cpuVars, historyVars
<1>7. CASE Unread
  BY <1>7 DEF Unread, hostVars, bridgeVars, cpuVars, historyVars
<1>8. CASE write_lines
  BY <1>8 DEF write_lines, hostVars, bridgeVars, cpuVars, historyVars
<1>9. CASE latch_data
  BY <1>0, <1>9 DEF latch_data, hostVars, bridgeVars, cpuVars, historyVars
<1>10. CASE handle_cycle
  BY <1>0, <1>10 DEF handle_cycle, hostVars, bridgeVars, cpuVars, historyVars
<1>11. CASE get_pins_state
  <2>1. served /\ phase /\ write => BusValues = {cpu.data}
    BY <1>0, <1>11 DEF get_pins_state, BusValues, CpuDrives
  <2>2. served /\ phase /\ write => msg'.data = cpu.data
    BY <1>11, <2>1 DEF get_pins_state
  <2> QED
    BY <1>11, <2>2 DEF get_pins_state, hostVars, cpuVars, historyVars
<1>12. CASE Settle
  BY <1>12 DEF Settle, hostVars, bridgeVars, cpuVars, historyVars
<1>13. CASE UNCHANGED vars
  BY <1>13 DEF vars, hostVars, bridgeVars, cpuVars, historyVars
<1> QED
  BY <1>1, <1>2, <1>3, <1>4, <1>5, <1>6, <1>7, <1>8, <1>9, <1>10, <1>11,
     <1>12, <1>13 DEF Next, Runner, Firmware

\* The two memories: a write is in one before it is in the other.
LEMMA MemPreserved == TypeOK /\ ClockInv /\ BusInv /\ AgreeInv /\ DataInv /\ MemInv /\
   [Next]_vars => MemInv'
<1> SUFFICES ASSUME TypeOK, ClockInv, BusInv, AgreeInv, DataInv, MemInv, [Next]_vars PROVE MemInv'
  OBVIOUS
<1> USE DEF TypeOK, ClockInv, BusInv, AgreeInv, DataInv, MemInv, Late
<1>1. CASE Start
  BY <1>1 DEF Start, ResetHalfCycles, hostVars, bridgeVars, cpuVars, historyVars
<1>2. CASE Send
  BY <1>2 DEF Send, Request, hostVars, bridgeVars, cpuVars, historyVars
<1>3. CASE ResetStep
  BY <1>3 DEF ResetStep, LastOfReset, hostVars, bridgeVars, cpuVars, historyVars
<1>4. ASSUME NEW stop \in BOOLEAN, LowStep(stop) PROVE MemInv'
  BY <1>4 DEF LowStep, WriteCycle, Fetch, bridgeVars, cpuVars, historyVars
<1>5. ASSUME NEW stop \in BOOLEAN, HighStep(stop) PROVE MemInv'
  BY <1>5 DEF HighStep, StoredByte, bridgeVars, cpuVars, historyVars
<1>6. CASE Kill
  BY <1>6 DEF Kill, hostVars, bridgeVars, cpuVars, historyVars
<1>7. CASE Unread
  BY <1>7 DEF Unread, hostVars, bridgeVars, cpuVars, historyVars
<1>8. CASE write_lines
  BY <1>8 DEF write_lines, hostVars, bridgeVars, cpuVars, historyVars
<1>9. CASE latch_data
  BY <1>9 DEF latch_data, hostVars, bridgeVars, cpuVars, historyVars
<1>10. CASE handle_cycle
  BY <1>10 DEF handle_cycle, hostVars, bridgeVars, cpuVars, historyVars
<1>11. CASE get_pins_state
  BY <1>11 DEF get_pins_state, hostVars, bridgeVars, cpuVars, historyVars
<1>12. CASE Settle
  BY <1>12 DEF Settle, hostVars, bridgeVars, cpuVars, historyVars
<1>13. CASE UNCHANGED vars
  BY <1>13 DEF vars, hostVars, bridgeVars, cpuVars, historyVars
<1> QED
  BY <1>1, <1>2, <1>3, <1>4, <1>5, <1>6, <1>7, <1>8, <1>9, <1>10, <1>11,
     <1>12, <1>13 DEF Next, Runner, Firmware

\* All parts together.
LEMMA NextIInv == IInv /\ [Next]_vars => IInv'
BY TypePreserved, ClockPreserved, BusPreserved, AgreePreserved, DataPreserved, MemPreserved DEF IInv

\* So in every state.
LEMMA SpecIInv == Spec => []IInv
<1> QED
  BY InitIInv, NextIInv, PTL DEF Spec

-----------------------------------------------------------------------------
\* Type correctness of every variable of the runner, the firmware and the CPU.
THEOREM TypeCorrect == Spec => []TypeOK
<1>1. IInv => TypeOK
  BY DEF IInv
<1> QED
  BY SpecIInv, <1>1, PTL

\* The bus never has two drivers.
THEOREM NeverContends == Spec => []NoContention
<1>1. IInv => NoContention
  BY DEF IInv, BusInv, NoContention, CpuDrives
<1> QED
  BY SpecIInv, <1>1, PTL

\* In the high phase the runner works on the CPU's own cycle.
THEOREM RunnerFollows == Spec => []RunnerFollowsCpu
<1>1. IInv => RunnerFollowsCpu
  BY DEF IInv, AgreeInv, RunnerFollowsCpu
<1> QED
  BY SpecIInv, <1>1, PTL

\* No write of the CPU is lost, repeated or misplaced.
THEOREM MemoryFollows == Spec => []MemoryIsCurrent
<1>1. IInv => MemoryIsCurrent
  <2> SUFFICES ASSUME IInv, prog = "run", ~(served /\ CpuDrives) PROVE mem = cpuMem
    BY DEF MemoryIsCurrent
  <2>1. ~(served /\ write /\ phi2 /\ ~phase)
    BY DEF IInv, AgreeInv, CpuDrives
  <2> QED
    BY <2>1 DEF IInv, MemInv
<1> QED
  BY SpecIInv, <1>1, PTL

\* However a run ends by itself, in either phase, the memory it leaves holds
\* every write of the CPU, that of the last cycle included.
THEOREM StopKeepsWrites == Spec => NoWriteLostAtStop
<1> DEFINE Ends == prog = "run" /\ at = "reply" /\ prog' = "off" /\ at' = "idle"
           Kept == mem' = IF CpuDrives THEN [cpuMem EXCEPT ![cpu.addr] = cpu.data] ELSE cpuMem
<1>1. ASSUME IInv, [Next]_vars, Ends PROVE Kept
  <2>1. \E stop \in BOOLEAN : LowStep(stop) \/ HighStep(stop)
    BY <1>1 DEF Next, Runner, Firmware, Start, Send, ResetStep, LastOfReset, Kill, Unread,
         write_lines, latch_data, handle_cycle, get_pins_state, Settle, vars, hostVars, bridgeVars
  <2>2. /\ phi2 = phase /\ mem = cpuMem
        /\ phase => served
    BY <1>1 DEF IInv, ClockInv, MemInv, Late
  <2>3. ASSUME NEW stop \in BOOLEAN, LowStep(stop) PROVE Kept
    BY <2>2, <2>3 DEF LowStep, CpuDrives
  <2>4. ASSUME NEW stop \in BOOLEAN, HighStep(stop) PROVE Kept
    <3>1. phase /\ mem' = IF write THEN [mem EXCEPT ![addr] = msg.data] ELSE mem
      BY <2>4 DEF HighStep, StoredByte
    <3>2. addr = cpu.addr /\ (write <=> cpu.rw = "write")
      BY <1>1, <2>2, <3>1 DEF IInv, AgreeInv
    <3>3. write => msg.data = cpu.data
      BY <1>1, <2>2, <3>1 DEF IInv, DataInv
    <3> QED
      BY <2>2, <3>1, <3>2, <3>3 DEF CpuDrives
  <2> QED
    BY <2>1, <2>3, <2>4
<1> QED
  BY <1>1, SpecIInv, PTL DEF Spec, NoWriteLostAtStop

-----------------------------------------------------------------------------
\* At the falling edge that ends a served read cycle the bus shows the byte of
\* memory the CPU asked for, and nothing else.
LEMMA ReadCycle ==
    ASSUME IInv, write_lines, served, phi2, ~msg.phi2, cpu.rw = "read"
    PROVE  BusValues = {cpuMem[cpu.addr]}
<1>1. prog = "run" /\ ~phase
  BY DEF IInv, ClockInv, write_lines
<1>2. addr = cpu.addr /\ ~write
  BY DEF IInv, AgreeInv
<1>3. dir = "out" /\ latch = mem[addr]
  BY <1>1, <1>2 DEF IInv, DataInv
<1>4. mem = cpuMem
  BY <1>1, <1>2 DEF IInv, MemInv
<1> QED
  BY <1>2, <1>3, <1>4 DEF BusValues, CpuDrives

\* Every step is a step of the memory of Ram, or none that it sees.
LEMMA RamStep == IInv /\ [Next]_vars => [RAM!Next]_(RAM!vars)
<1> SUFFICES ASSUME IInv, [Next]_vars, ~(UNCHANGED <<cpuMem, op>>) PROVE RAM!Next
  BY DEF RAM!vars
<1>1. CASE Start
  BY <1>1 DEF Start, ResetHalfCycles, RAM!Next, RAM!Load
<1>2. CASE write_lines
  <2>1. served /\ phi2 /\ ~msg.phi2
    BY <1>2 DEF write_lines
  <2>2. cpu.addr \in Addr /\ cpu.data \in Data /\ cpu.rw \in {"read", "write"}
    BY OutputsRecords DEF IInv, TypeOK
  <2>3. CASE cpu.rw = "read"
    <3>1. BusValues = {cpuMem[cpu.addr]}
      BY <1>2, <2>1, <2>3, ReadCycle
    <3>2. /\ op' = [kind |-> "read", addr |-> cpu.addr, data |-> cpuMem[cpu.addr]]
          /\ cpuMem' = cpuMem
      BY <1>2, <2>1, <2>3, <3>1 DEF write_lines
    <3> QED
      BY <2>2, <3>2 DEF RAM!Next, RAM!Read
  <2>4. CASE cpu.rw = "write"
    <3>1. /\ op' = [kind |-> "write", addr |-> cpu.addr, data |-> cpu.data]
          /\ cpuMem' = [cpuMem EXCEPT ![cpu.addr] = cpu.data]
      BY <1>2, <2>1, <2>4 DEF write_lines
    <3> QED
      BY <2>2, <3>1 DEF RAM!Next, RAM!Write
  <2> QED
    BY <2>2, <2>3, <2>4
<1> QED
  BY <1>1, <1>2 DEF Next, Runner, Firmware, Send, Request, ResetStep, LastOfReset,
     LowStep, WriteCycle, Fetch, HighStep, StoredByte, Kill, Unread, latch_data,
     handle_cycle, get_pins_state, Settle, vars, historyVars

\* The machine implements a memory for the CPU: every served read cycle takes
\* off the bus what the CPU's latest write to that address stored.
THEOREM ImplementsRam == Spec => CpuSeesRam
<1>1. Init => RAM!Init
  <2> SUFFICES ASSUME Init PROVE RAM!Init
    OBVIOUS
  <2>1. op \in RAM!Cycles
    BY MachineAssumption DEF Init, RAM!Cycles
  <2> QED
    BY <2>1 DEF Init, RAM!Init
<1> QED
  BY <1>1, RamStep, SpecIInv, PTL DEF Spec, CpuSeesRam, RAM!Spec

-----------------------------------------------------------------------------
\* The reset line: reset() pulls it low with its first message, and by the
\* time any message asks for it to go high again the CPU has had two rising
\* edges - also when the program that asked is gone.
ResetInv ==
    /\ prog = "reset" /\ (left # 4 \/ at \in Late) => ~res
    /\ prog = "reset" /\ at = "lines" => ~msg.res
    /\ prog = "reset" /\ left # 4 /\ at \in {"idle", "lines"} => phi2 = ~phase
    /\ prog = "reset" /\ (left \in {1, 2} \/ (left = 3 /\ at \in Late)) => held \in {1, 2}
    /\ prog = "reset" /\ left = 1 /\ at \in Late => held = 2
    /\ prog = "run" =>
          /\ at \in Late \/ held = 2 \/ res
          /\ at \in Late => res
          /\ at = "idle" => hpins.res
          /\ at \in {"lines", "reply"} => msg.res
    /\ at = "lines" /\ msg.res /\ ~res => held = 2

\* No reset is under way before the first program.
LEMMA InitResetInv == Init => ResetInv
BY DEF Init, ResetInv, Late

\* The half-cycles that reset() has left still bring the edges that are wanting.
LEMMA ResetPreserved == TypeOK /\ ClockInv /\ ResetInv /\ [Next]_vars => ResetInv'
<1> SUFFICES ASSUME TypeOK, ClockInv, ResetInv, [Next]_vars PROVE ResetInv'
  OBVIOUS
<1> USE DEF TypeOK, ClockInv, ResetInv, Late
<1>1. CASE Start
  BY <1>1 DEF Start, ResetHalfCycles, hostVars, bridgeVars, cpuVars, historyVars
<1>2. CASE Send
  BY <1>2 DEF Send, Request, NoPins, hostVars, bridgeVars, cpuVars, historyVars
<1>3. CASE ResetStep
  <2>1. /\ ~res' /\ at' = "idle" /\ held' = held /\ phi2' = phi2
        /\ res' = res /\ phi2 = phase /\ (phase' <=> ~phase) /\ left \in 1 .. 4
    BY <1>3 DEF ResetStep, LastOfReset, historyVars
  <2>2. CASE left = 1
    <3>1. prog' = "run" /\ held = 2 /\ hpins' = [msg EXCEPT !.res = TRUE, !.data = Zero, !.addr = Zero]
      BY <1>3, <2>2 DEF ResetStep, LastOfReset
    <3>2. hpins'.res = TRUE
      BY <3>1 DEF Levels
    <3> QED
      BY <2>1, <3>1, <3>2
  <2>3. CASE left # 1
    <3>1. prog' = "reset" /\ left' # 4
      BY <1>3, <2>1, <2>3 DEF ResetStep, LastOfReset
    <3>2. left' \in {1, 2} => left \in {2, 3}
      BY <1>3, <2>1 DEF ResetStep, LastOfReset
    <3>3. left' \in {1, 2} => held \in {1, 2}
      BY <1>3, <3>2 DEF ResetStep, LastOfReset
    <3> QED
      BY <2>1, <3>1, <3>3
  <2> QED
    BY <2>2, <2>3
<1>4. ASSUME NEW stop \in BOOLEAN, LowStep(stop) PROVE ResetInv'
  <2>1. hpins'.res = msg.res
    BY <1>4 DEF LowStep, WriteCycle, Fetch, Levels
  <2> QED
    BY <1>4, <2>1 DEF LowStep, WriteCycle, Fetch, historyVars
<1>5. ASSUME NEW stop \in BOOLEAN, HighStep(stop) PROVE ResetInv'
  BY <1>5 DEF HighStep, StoredByte, bridgeVars, cpuVars, historyVars
<1>6. CASE Kill
  BY <1>6 DEF Kill, hostVars, bridgeVars, cpuVars, historyVars
<1>7. CASE Unread
  BY <1>7 DEF Unread, hostVars, bridgeVars, cpuVars, historyVars
<1>8. CASE write_lines
  <2>1. at' = "latch" /\ prog' = prog /\ left' = left /\ phase' = phase
    BY <1>8 DEF write_lines, hostVars
  <2>2. CASE prog = "reset"
    <3>1. ~res' /\ left \in 1 .. 4 /\ msg.phi2 = phase /\ (phase <=> left \in {1, 3})
      BY <1>8, <2>2, LevelsRecords DEF write_lines
    <3>2. left \in {1, 2} => held' \in {1, 2}
      <4>1. left \in {1, 2} => ~res /\ held \in {1, 2}
        BY <1>8, <2>2
      <4>2. held' = 0 => res \/ held = 0
        BY <1>8 DEF write_lines
      <4>3. held' \in 0 .. 2
        BY CountersPreserved
      <4> QED
        BY <4>1, <4>2, <4>3
    <3>3. left \in {1, 3} => held' = IF held < 2 THEN held + 1 ELSE held
      <4>1. left \in {1, 3} => ~res /\ ~phi2 /\ msg.phi2
        BY <1>8, <2>2, <3>1 DEF write_lines
      <4> QED
        BY <1>8, <4>1 DEF write_lines
    <3>4. left = 1 => held' = 2
      <4>1. left = 1 => held \in {1, 2}
        BY <1>8, <2>2
      <4> QED
        BY <3>3, <4>1
    <3>5. left = 3 => held' \in {1, 2}
      BY <3>3
    <3> QED
      BY <2>1, <2>2, <3>1, <3>2, <3>4, <3>5
  <2>3. CASE prog # "reset"
    <3>1. prog = "run" => res'
      BY <1>8 DEF write_lines
    <3> QED
      BY <2>1, <2>3, <3>1
  <2> QED
    BY <2>2, <2>3
<1>9. CASE latch_data
  BY <1>9 DEF latch_data, hostVars, bridgeVars, cpuVars, historyVars
<1>10. CASE handle_cycle
  BY <1>10 DEF handle_cycle, hostVars, bridgeVars, cpuVars, historyVars
<1>11. CASE get_pins_state
  BY <1>11 DEF get_pins_state, hostVars, bridgeVars, cpuVars, historyVars
<1>12. CASE Settle
  BY <1>12 DEF Settle, hostVars, bridgeVars, historyVars
<1>13. CASE UNCHANGED vars
  BY <1>13 DEF vars, hostVars, bridgeVars, cpuVars, historyVars
<1> QED
  BY <1>1, <1>2, <1>3, <1>4, <1>5, <1>6, <1>7, <1>8, <1>9, <1>10, <1>11,
     <1>12, <1>13 DEF Next, Runner, Firmware

\* The reset line is low for two clock cycles whenever it was low at all.
THEOREM ResetIsLongEnough == Spec => ResetHeldTwoCycles
<1>1. TypeOK /\ ResetInv /\ [Next]_vars => [~res /\ res' => held = 2]_vars
  BY DEF TypeOK, ResetInv, Next, Runner, Firmware, Start, ResetHalfCycles, Send,
     Request, ResetStep, LastOfReset, LowStep, WriteCycle, Fetch, HighStep, StoredByte,
     Kill, Unread, write_lines, latch_data, handle_cycle, get_pins_state, Settle, vars,
     bridgeVars
<1>2. IInv => TypeOK /\ ClockInv
  BY DEF IInv
<1>3. Spec => []ResetInv
  BY InitResetInv, ResetPreserved, SpecIInv, <1>2, PTL DEF Spec
<1> QED
  BY <1>1, <1>2, <1>3, SpecIInv, PTL DEF Spec, ResetHeldTwoCycles

-----------------------------------------------------------------------------
(* The clock of a running program.                                         *)

\* A request that has no edge of its own: the first of reset().
NoEdge == prog = "reset" /\ left = ResetHalfCycles /\ at \in {"idle", "lines"}

\* Steps of runner, firmware and CPU up to the next edge of PHI2, that edge
\* included.
StepsFrom(a, waits, first) ==
    [lines |-> 1, idle |-> 2, reply |-> 3, sample |-> 4, gate |-> 5, latch |-> 6][a]
    + (IF waits THEN 1 ELSE 0) + (IF first THEN 6 ELSE 0)

StepsToEdge == StepsFrom(at, ~settled, NoEdge)

\* A step of a program that goes on is an edge of the clock or one of the
\* steps on the way to it.
EdgeNearer == prog # "off" /\ prog' # "off" => phi2' # phi2 \/ StepsToEdge' < StepsToEdge

\* The place in the protocol alone.
LEMMA StepsByPlace ==
    ASSUME NEW w \in BOOLEAN, NEW f \in BOOLEAN
    PROVE  \E n \in {0, 1}, m \in {0, 6} :
             /\ n = 1 <=> w
             /\ m = 6 <=> f
             /\ StepsFrom("lines", w, f) = 1 + n + m
             /\ StepsFrom("idle", w, f) = 2 + n + m
             /\ StepsFrom("reply", w, f) = 3 + n + m
             /\ StepsFrom("sample", w, f) = 4 + n + m
             /\ StepsFrom("gate", w, f) = 5 + n + m
             /\ StepsFrom("latch", w, f) = 6 + n + m
<1> DEFINE n == IF w THEN 1 ELSE 0
           m == IF f THEN 6 ELSE 0
<1>1. n \in {0, 1} /\ m \in {0, 6} /\ (n = 1 <=> w) /\ (m = 6 <=> f)
  OBVIOUS
<1>2. /\ StepsFrom("lines", w, f) = 1 + n + m
      /\ StepsFrom("idle", w, f) = 2 + n + m
      /\ StepsFrom("reply", w, f) = 3 + n + m
      /\ StepsFrom("sample", w, f) = 4 + n + m
      /\ StepsFrom("gate", w, f) = 5 + n + m
      /\ StepsFrom("latch", w, f) = 6 + n + m
  BY DEF StepsFrom
<1> QED
  BY <1>1, <1>2

\* The CPU has settled when the runner has its turn.
LEMMA EightAtMost == IInv => StepsToEdge \in 1 .. 8
<1> SUFFICES ASSUME IInv PROVE StepsToEdge \in 1 .. 8
  OBVIOUS
<1>1. TypeOK /\ BusInv
  BY DEF IInv
<1>2. at \in {"idle", "lines", "reply"} => settled
  BY <1>1 DEF BusInv
<1>3. at \in {"idle", "lines", "latch", "gate", "sample", "reply"}
  BY <1>1 DEF TypeOK
<1>4. (~settled) \in BOOLEAN /\ NoEdge \in BOOLEAN /\ (NoEdge => at \in {"idle", "lines"})
  BY <1>1 DEF NoEdge
<1>5. PICK n \in {0, 1}, m \in {0, 6} :
             /\ n = 1 <=> ~settled
             /\ m = 6 <=> NoEdge
             /\ StepsFrom("lines", ~settled, NoEdge) = 1 + n + m
             /\ StepsFrom("idle", ~settled, NoEdge) = 2 + n + m
             /\ StepsFrom("reply", ~settled, NoEdge) = 3 + n + m
             /\ StepsFrom("sample", ~settled, NoEdge) = 4 + n + m
             /\ StepsFrom("gate", ~settled, NoEdge) = 5 + n + m
             /\ StepsFrom("latch", ~settled, NoEdge) = 6 + n + m
  BY <1>4, StepsByPlace
<1>6. (at \in {"idle", "lines", "reply"} => n = 0) /\ (at \notin {"idle", "lines"} => m = 0)
  BY <1>2, <1>4, <1>5
<1> QED
  BY <1>3, <1>5, <1>6 DEF StepsToEdge

\* In every request but that one the clock has its edge.
LEMMA LinesHaveEdge ==
    ASSUME IInv, ResetInv, write_lines, prog # "off", ~NoEdge
    PROVE  phi2' # phi2
<1>1. /\ at = "lines" /\ prog \in {"reset", "run"} /\ phi2' = msg.phi2
      /\ msg.phi2 = phase /\ phase \in BOOLEAN
  BY DEF IInv, TypeOK, ClockInv, write_lines
<1>2. prog = "run" => phi2 = ~phase
  BY <1>1 DEF IInv, ClockInv
<1>3. prog = "reset" => phi2 = ~phase
  BY <1>1 DEF NoEdge, ResetHalfCycles, ResetInv
<1> QED
  BY <1>1, <1>2, <1>3

\* Before and after a step, in numbers.
LEMMA CountDown ==
    ASSUME NEW a \in {"idle", "lines", "latch", "gate", "sample", "reply"},
           NEW b \in {"idle", "lines", "latch", "gate", "sample", "reply"},
           NEW w \in BOOLEAN, NEW v \in BOOLEAN, NEW f \in BOOLEAN, NEW g \in BOOLEAN,
           \/ w /\ ~v /\ a = b /\ f = g
           \/ /\ w = v
              /\ \/ a = "idle" /\ b = "lines" /\ f = g
                 \/ a = "lines" /\ b = "latch" /\ f /\ ~g
                 \/ <<a, b>> \in {<<"latch", "gate">>, <<"gate", "sample">>,
                                  <<"sample", "reply">>, <<"reply", "idle">>} /\ f = g
    PROVE  StepsFrom(b, v, g) < StepsFrom(a, w, f)
<1>1. PICK n \in {0, 1}, m \in {0, 6} :
             /\ n = 1 <=> w
             /\ m = 6 <=> f
             /\ StepsFrom("lines", w, f) = 1 + n + m
             /\ StepsFrom("idle", w, f) = 2 + n + m
             /\ StepsFrom("reply", w, f) = 3 + n + m
             /\ StepsFrom("sample", w, f) = 4 + n + m
             /\ StepsFrom("gate", w, f) = 5 + n + m
             /\ StepsFrom("latch", w, f) = 6 + n + m
  BY StepsByPlace
<1>2. PICK k \in {0, 1}, l \in {0, 6} :
             /\ k = 1 <=> v
             /\ l = 6 <=> g
             /\ StepsFrom("lines", v, g) = 1 + k + l
             /\ StepsFrom("idle", v, g) = 2 + k + l
             /\ StepsFrom("reply", v, g) = 3 + k + l
             /\ StepsFrom("sample", v, g) = 4 + k + l
             /\ StepsFrom("gate", v, g) = 5 + k + l
             /\ StepsFrom("latch", v, g) = 6 + k + l
  BY StepsByPlace
<1> QED
  BY <1>1, <1>2

\* Step by step.
LEMMA EachStepCounts == IInv /\ ResetInv /\ IInv' /\ [Next]_vars => [EdgeNearer]_vars
<1> SUFFICES ASSUME IInv, ResetInv, IInv', Next, prog # "off", prog' # "off", phi2' = phi2
             PROVE  StepsToEdge' < StepsToEdge
  BY DEF EdgeNearer
<1> DEFINE w == ~settled
           v == ~settled'
           a == at
           b == at'
           f == NoEdge
           g == NoEdge'
<1>1. /\ a \in {"idle", "lines", "latch", "gate", "sample", "reply"}
      /\ b \in {"idle", "lines", "latch", "gate", "sample", "reply"}
      /\ settled \in BOOLEAN /\ settled' \in BOOLEAN
  BY DEF IInv, TypeOK
<1>2. w \in BOOLEAN /\ v \in BOOLEAN /\ f \in BOOLEAN /\ g \in BOOLEAN
  BY DEF NoEdge
<1>3. StepsToEdge = StepsFrom(a, w, f) /\ StepsToEdge' = StepsFrom(b, v, g)
  BY DEF StepsToEdge
<1>4. \/ w /\ ~v /\ a = b /\ f = g
      \/ /\ w = v
         /\ \/ a = "idle" /\ b = "lines" /\ f = g
            \/ a = "lines" /\ b = "latch" /\ f /\ ~g
            \/ <<a, b>> \in {<<"latch", "gate">>, <<"gate", "sample">>,
                             <<"sample", "reply">>, <<"reply", "idle">>} /\ f = g
  <2>1. CASE Start
    BY <2>1 DEF Start
  <2>2. CASE Send
    BY <2>2 DEF Send, NoEdge, hostVars, cpuVars
  <2>3. CASE ResetStep
    <3>1. left \in 1 .. 4
      BY <2>3 DEF IInv, ClockInv, ResetStep
    <3>2. left' # 4 /\ a = "reply" /\ b = "idle" /\ settled' = settled
      BY <2>3, <3>1 DEF ResetStep, cpuVars
    <3> QED
      BY <3>2 DEF NoEdge, ResetHalfCycles
  <2>4. ASSUME NEW stop \in BOOLEAN, LowStep(stop) PROVE <1>4!:
    BY <2>4 DEF LowStep, NoEdge, cpuVars
  <2>5. ASSUME NEW stop \in BOOLEAN, HighStep(stop) PROVE <1>4!:
    BY <2>5 DEF HighStep, NoEdge, cpuVars
  <2>6. CASE Kill
    BY <2>6 DEF Kill
  <2>7. CASE Unread
    BY <2>7 DEF Unread
  <2>8. CASE write_lines
    <3>1. f
      BY <2>8, LinesHaveEdge
    <3>2. a = "lines" /\ b = "latch" /\ settled' = settled
      BY <2>8 DEF write_lines
    <3> QED
      BY <3>1, <3>2 DEF NoEdge
  <2>9. CASE latch_data
    BY <2>9 DEF latch_data, NoEdge, hostVars, cpuVars
  <2>10. CASE handle_cycle
    BY <2>10 DEF handle_cycle, NoEdge, hostVars, cpuVars
  <2>11. CASE get_pins_state
    BY <2>11 DEF get_pins_state, NoEdge, hostVars, cpuVars
  <2>12. CASE Settle
    BY <2>12 DEF Settle, NoEdge, hostVars, bridgeVars
  <2> QED
    BY <2>1, <2>2, <2>3, <2>4, <2>5, <2>6, <2>7, <2>8, <2>9, <2>10, <2>11, <2>12
       DEF Next, Runner, Firmware
<1> HIDE DEF w, v, a, b, f, g
<1> QED
  BY <1>1, <1>2, <1>3, <1>4, CountDown

-----------------------------------------------------------------------------
\* The program, the firmware and the CPU take at most eight steps to the next
\* edge of the clock, whoever of them is quick or slow.
THEOREM EdgeIsNear == Spec => [](StepsToEdge \in 1 .. 8)
<1> QED
  BY SpecIInv, EightAtMost, PTL

\* Whatever a program that goes on does brings that edge nearer.  Together with
\* EdgeIsNear this leaves to the fairness of ClockRuns that somebody moves.
THEOREM EdgeComesNearer == Spec => [][EdgeNearer]_vars
<1>1. IInv => TypeOK /\ ClockInv
  BY DEF IInv
<1>2. Spec => []ResetInv
  BY InitResetInv, ResetPreserved, SpecIInv, <1>1, PTL DEF Spec
<1> QED
  BY <1>2, SpecIInv, EachStepCounts, PTL DEF Spec

=============================================================================
