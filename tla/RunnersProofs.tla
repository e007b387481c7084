---------------------------- MODULE RunnersProofs ----------------------------
(***************************************************************************)
(* What Runners claims of the two host programs, for every set-up.         *)
(***************************************************************************)
EXTENDS Runners, PinMapProofs

\* The wires of README.md join every pin of the CPU to the pin of the Teensy
\* that CpuPins::new gives its signal.
LEMMA WiresMeet ==
    /\ \A s \in Signals : Wire[ChipPin[s]] = Pad[s]
    /\ \A i \in 0 .. 15 : Wire[ChipAddr(i)] = AddrPad[i + 1]
    /\ \A i \in 0 .. 7 : Wire[ChipData(i)] = DataPad[i + 1]
<1>1. \A s \in Signals : Wire[ChipPin[s]] = Pad[s]
  BY DEF Signals, Wire, ChipPin, Pad
<1>2. \A i \in 0 .. 15 : Wire[ChipAddr(i)] = AddrPad[i + 1]
  BY DEF Wire, ChipAddr, AddrPad
<1>3. \A i \in 0 .. 7 : Wire[ChipData(i)] = DataPad[i + 1]
  BY DEF Wire, ChipData, DataPad
<1> QED
  BY <1>1, <1>2, <1>3

\* No two of them share a pin of the Teensy.
SignalPads == {0, 2, 3, 4, 5, 6, 13, 17, 19, 20, 21, 22, 23}
AddrPads == {7, 8, 9, 11, 12, 24, 25} \cup 28 .. 36
DataPads == {14, 15, 16} \cup 37 .. 41

\* No two signals or bus lines share a pin of the Teensy.
LEMMA PadsApart ==
    /\ \A s \in Signals : Pad[s] \in SignalPads
    /\ \A s, t \in Signals : Pad[s] = Pad[t] => s = t
    /\ \A i \in 0 .. 15 : AddrPad[i + 1] \in AddrPads
    /\ \A i, j \in 0 .. 15 : AddrPad[i + 1] = AddrPad[j + 1] => i = j
    /\ \A i \in 0 .. 7 : DataPad[i + 1] \in DataPads
    /\ \A i, j \in 0 .. 7 : DataPad[i + 1] = DataPad[j + 1] => i = j
    /\ SignalPads \cap AddrPads = {} /\ SignalPads \cap DataPads = {} /\ AddrPads \cap DataPads = {}
<1>1. \A s \in Signals : Pad[s] \in SignalPads
  BY DEF Signals, Pad, SignalPads
<1>2. \A s, t \in Signals : Pad[s] = Pad[t] => s = t
  BY DEF Signals, Pad
<1>3. \A i \in 0 .. 15 : AddrPad[i + 1] \in AddrPads
  BY DEF AddrPad, AddrPads
<1>4. \A i, j \in 0 .. 15 : AddrPad[i + 1] = AddrPad[j + 1] => i = j
  BY DEF AddrPad
<1>5. \A i \in 0 .. 7 : DataPad[i + 1] \in DataPads
  BY DEF DataPad, DataPads
<1>6. \A i, j \in 0 .. 7 : DataPad[i + 1] = DataPad[j + 1] => i = j
  BY DEF DataPad
<1>7. SignalPads \cap AddrPads = {} /\ SignalPads \cap DataPads = {} /\ AddrPads \cap DataPads = {}
  BY DEF SignalPads, AddrPads, DataPads
<1> QED
  BY <1>1, <1>2, <1>3, <1>4, <1>5, <1>6, <1>7

\* The levels on the pins of the Teensy are those somebody drives: a latch of
\* its own, or the output of the CPU that the pin is wired to.
LEMMA SeenIsDriven ==
    ASSUME NEW latch, NEW out \in SUBSET ChipDriven, NEW addr \in SUBSET (0 .. 15),
           NEW data \in SUBSET (0 .. 7)
    PROVE  Seen((latch \cap WireOf(TeensyDriven)) \cup WireOf(out)
                  \cup AddrWires(addr) \cup DataWires(data))
             = [high |-> {s \in TeensyDriven : Pad[s] \in latch} \cup out,
                addr |-> addr, data |-> data]
<1> DEFINE high == (latch \cap WireOf(TeensyDriven)) \cup WireOf(out)
                     \cup AddrWires(addr) \cup DataWires(data)
<1>1. /\ TeensyDriven \cap ChipDriven = {} /\ TeensyDriven \cup ChipDriven = Signals
  BY DEF TeensyDriven, ChipDriven, Signals
<1>2. WireOf(TeensyDriven) = {Pad[s] : s \in TeensyDriven} /\ WireOf(out) = {Pad[s] : s \in out}
  BY <1>1, WiresMeet DEF WireOf
<1>3. AddrWires(addr) = {AddrPad[i + 1] : i \in addr}
  BY WiresMeet DEF AddrWires
<1>4. DataWires(data) = {DataPad[i + 1] : i \in data}
  BY WiresMeet DEF DataWires
<1>5. {s \in Signals : Pad[s] \in high} = {s \in TeensyDriven : Pad[s] \in latch} \cup out
  <2>1. ASSUME NEW s \in Signals
        PROVE  Pad[s] \in high <=> (s \in TeensyDriven /\ Pad[s] \in latch) \/ s \in out
    BY <1>1, <1>2, <1>3, <1>4, PadsApart
  <2> QED
    BY <1>1, <2>1
<1>6. {i \in 0 .. 15 : AddrPad[i + 1] \in high} = addr
  <2>1. ASSUME NEW i \in 0 .. 15 PROVE AddrPad[i + 1] \in high <=> i \in addr
    BY <1>1, <1>2, <1>3, <1>4, PadsApart
  <2> QED
    BY <2>1
<1>7. {i \in 0 .. 7 : DataPad[i + 1] \in high} = data
  <2>1. ASSUME NEW i \in 0 .. 7 PROVE DataPad[i + 1] \in high <=> i \in data
    BY <1>1, <1>2, <1>3, <1>4, PadsApart
  <2> QED
    BY <2>1
<1> QED
  BY <1>5, <1>6, <1>7 DEF Seen

-----------------------------------------------------------------------------
\* A runner as a record.
Samples == [flags : SUBSET Signals, addr : SUBSET (0 .. 15), data : SUBSET (0 .. 7)]
Ops == [kind : Kinds \cup {"none"}, addr : SUBSET (0 .. 15), data : SUBSET (0 .. 7)]
RunnerRecords ==
    [prog : {"reset", "run", "done"}, left : 0 .. 4, phase : BOOLEAN, cycle : Nat,
     pins : PinsObjects, addr : SUBSET (0 .. 15), write : BOOLEAN,
     mem : [setup.addr -> setup.data], step : BOOLEAN, remaining : Int,
     latch : SUBSET Int, out : BOOLEAN, panel : Samples, op : Ops,
     chipMem : [setup.addr -> setup.data], due : Int, quit : BOOLEAN]

\* The control lines in the call, and the levels it applies.
Asked(r) == IF r.phase THEN r.pins.high \cup {"phi2"} ELSE r.pins.high \ {"phi2"}
Applied(r, c) ==
    LET lines == (r.latch \ {Pad[s] : s \in Lines}) \cup {Pad[s] : s \in Lines \cap Asked(r)}
    IN  IF c.kind = "write" THEN lines
        ELSE (lines \ {DataPad[i] : i \in 1 .. 8}) \cup {DataPad[i + 1] : i \in r.pins.data}
Served(r, c) ==
    [r EXCEPT !.latch = Applied(r, c),
              !.out = c.kind # "write" /\ Pad["phi2"] \in Applied(r, c)]

\* What the assumption says of the set-up at hand.
LEMMA SetupData ==
    ASSUME setup \in Setups
    PROVE  /\ setup.addr \subseteq SUBSET (0 .. 15) /\ setup.data \subseteq SUBSET (0 .. 7)
           /\ setup.float \in setup.data /\ {} \in setup.data
           /\ setup.step \in BOOLEAN
  BY RunnersAssumption

\* The data lines carry a byte.
LEMMA BusDataType ==
    ASSUME setup \in Setups, NEW r, NEW c \in Outputs
    PROVE  BusData(r, c) \in SUBSET (0 .. 7)
<1>1. c.data \in SUBSET (0 .. 7)
  BY SetupData DEF Outputs
<1> QED
  BY <1>1, SetupData DEF BusData

\* The levels a firmware reads, and those it reads whatever is on the buses.
LEMMA LevelsRead ==
    ASSUME setup \in Setups, NEW r, NEW c \in Outputs
    PROVE  /\ Seen(High(r, c)) = [high |-> {s \in TeensyDriven : Pad[s] \in r.latch}
                                            \cup ChipHigh(c, Input(r, "phi2")),
                                  addr |-> c.addr, data |-> BusData(r, c)]
           /\ pinsRw \in High(r, c) <=> c.kind # "write"
           /\ Pad.rw \in High(r, c) <=> c.kind # "write"
           /\ pinsPhi2 \in High(r, c) <=> Input(r, "phi2")
           /\ Pad.phi2 \in High(r, c) <=> Input(r, "phi2")
<1>1. c.addr \in SUBSET (0 .. 15) /\ BusData(r, c) \in SUBSET (0 .. 7)
  BY SetupData, BusDataType DEF Outputs
<1>2. ChipHigh(c, Input(r, "phi2")) \in SUBSET ChipDriven
  BY DEF ChipHigh
<1>3. Seen(High(r, c)) = [high |-> {s \in TeensyDriven : Pad[s] \in r.latch}
                                    \cup ChipHigh(c, Input(r, "phi2")),
                          addr |-> c.addr, data |-> BusData(r, c)]
  BY <1>1, <1>2, SeenIsDriven DEF High
<1>4. \A s \in Signals : Pad[s] \in High(r, c)
                           <=> s \in {t \in TeensyDriven : Pad[t] \in r.latch}
                                      \cup ChipHigh(c, Input(r, "phi2"))
  <2>1. Seen(High(r, c)).high = {s \in Signals : Pad[s] \in High(r, c)}
    BY DEF Seen
  <2> QED
    BY <1>3, <2>1
<1>5. pinsRw = Pad["rw"] /\ pinsPhi2 = Pad["phi2"]
  BY DEF pinsRw, pinsPhi2, pin_ids, PINS_MAP, Pad
<1>6. "rw" \in ChipHigh(c, Input(r, "phi2")) <=> c.kind # "write"
  BY DEF ChipHigh, ChipDriven
<1>7. /\ "rw" \in Signals /\ "rw" \notin TeensyDriven
      /\ "phi2" \in Signals /\ "phi2" \in TeensyDriven /\ "phi2" \notin ChipDriven
  BY DEF Signals, TeensyDriven, ChipDriven
<1>8. Input(r, "phi2") <=> Pad["phi2"] \in r.latch
  BY <1>7, WiresMeet DEF Input
<1>9. Pad["rw"] \in High(r, c) <=> c.kind # "write"
  BY <1>4, <1>6, <1>7
<1>10. Pad["phi2"] \in High(r, c) <=> Input(r, "phi2")
  BY <1>2, <1>4, <1>7, <1>8
<1> QED
  BY <1>3, <1>5, <1>9, <1>10

\* Either firmware leaves these levels, and drives the bus when the CPU reads
\* in the second half of a cycle.
LEMMA RequestServed ==
    ASSUME setup \in Setups, NEW r \in RunnerRecords, NEW c \in Outputs, NEW fw, NEW h \in Hosts,
           NEW pins \in PinsObjects, pins.high = Asked(r), pins.data = r.pins.data
    PROVE  handle_cycle(fw, set_pins_state(fw, r, c, Encode(h, pins)), c) = Served(r, c)
<1> DEFINE buff == Encode(h, pins)
           all == apply_lines(r.latch, buff)
           lines == [r EXCEPT !.latch = all]
           L == Applied(r, c)
           done == [r EXCEPT !.latch = L]
<1>1. buff \in {set_buff(pins), PinsInto(pins)}
  BY DEF Encode
<1> HIDE DEF buff
<1>2. /\ buff \in Buffers
      /\ all = (r.latch \ {Pad[s] : s \in Lines}) \cup {Pad[s] : s \in Lines \cap Asked(r)}
      /\ apply_data(all, buff) = (all \ {DataPad[i] : i \in 1 .. 8}) \cup {DataPad[i + 1] : i \in r.pins.data}
  BY <1>1, AppliesWhatIsEncoded
<1>3. /\ write_pins(r.latch, WrittenAlways, buff) = all
      /\ write_pins(all, WrittenOnRead, buff) = apply_data(all, buff)
  BY <1>2, FirmwaresApplyAlike
<1>4. L = IF c.kind = "write" THEN all ELSE apply_data(all, buff)
  BY <1>2 DEF Applied
<1>5. set_pins_state(fw, r, c, buff) = done
  <2>1. (IF fw = "cpp" THEN pinsRw ELSE Pad.rw) \in High(lines, c) <=> c.kind # "write"
    BY LevelsRead
  <2>2. [r EXCEPT !.latch = IF fw = "cpp" THEN write_pins(@, WrittenAlways, buff)
                                          ELSE apply_lines(@, buff)] = lines
    BY <1>3
  <2>3. lines.latch = all
    BY DEF RunnerRecords
  <2>4. set_pins_state(fw, r, c, buff)
          = IF c.kind = "write" THEN lines
            ELSE [lines EXCEPT !.latch = IF fw = "cpp" THEN write_pins(@, WrittenOnRead, buff)
                                                       ELSE apply_data(@, buff)]
    BY <2>1, <2>2 DEF set_pins_state
  <2> HIDE DEF all
  <2>5. c.kind # "write" => set_pins_state(fw, r, c, buff) = [lines EXCEPT !.latch = apply_data(all, buff)]
    BY <2>3, <2>4, <1>3
  <2>6. [lines EXCEPT !.latch = apply_data(all, buff)] = [r EXCEPT !.latch = apply_data(all, buff)]
    BY DEF RunnerRecords
  <2> QED
    BY <1>4, <2>4, <2>5, <2>6
<1>6. handle_cycle(fw, done, c) = [done EXCEPT !.out = c.kind # "write" /\ Pad["phi2"] \in L]
  <2>1. /\ (IF fw = "cpp" THEN {pinsRw, pinsPhi2} ELSE {Pad.rw, Pad.phi2}) \subseteq High(done, c)
             <=> c.kind # "write" /\ Input(done, "phi2")
    BY LevelsRead
  <2>2. done.latch = L
    BY DEF RunnerRecords
  <2>3. Input(done, "phi2") <=> Pad["phi2"] \in L
    BY <2>2, WiresMeet DEF Input, Signals
  <2> QED
    BY <2>1, <2>3 DEF handle_cycle
<1>7. [done EXCEPT !.out = c.kind # "write" /\ Pad["phi2"] \in L]
        = [r EXCEPT !.latch = L, !.out = c.kind # "write" /\ Pad["phi2"] \in L]
  OBVIOUS
<1> HIDE DEF buff, done, L
<1> QED
  BY <1>5, <1>6, <1>7 DEF buff, L, Served

\* The latches after a request, pin by pin.
LEMMA AppliedLevels ==
    ASSUME NEW r \in RunnerRecords, NEW c \in Outputs
    PROVE  /\ \A s \in Lines : Pad[s] \in Applied(r, c) <=> s \in Asked(r)
           /\ Pad["ready"] \in Applied(r, c) <=> Pad["ready"] \in r.latch
           /\ c.kind # "write" =>
                \A i \in 0 .. 7 : DataPad[i + 1] \in Applied(r, c) <=> i \in r.pins.data
           /\ Applied(r, c) \in SUBSET Int
<1> DEFINE lines == (r.latch \ {Pad[s] : s \in Lines}) \cup {Pad[s] : s \in Lines \cap Asked(r)}
           data == {DataPad[i + 1] : i \in r.pins.data}
<1>1. /\ Lines \subseteq Signals /\ "ready" \in Signals \ Lines
      /\ r.pins.data \subseteq 0 .. 7 /\ r.latch \subseteq Int
  BY DEF Lines, Signals, RunnerRecords, PinsObjects
<1>2. \A s \in Signals : Pad[s] \notin {DataPad[i] : i \in 1 .. 8} /\ Pad[s] \notin data
  <2>1. \A i \in 1 .. 8 : i - 1 \in 0 .. 7 /\ (i - 1) + 1 = i
    OBVIOUS
  <2>2. \A i \in 1 .. 8 : DataPad[i] \in DataPads
    BY <2>1, PadsApart
  <2> QED
    BY <1>1, <2>2, PadsApart
<1>3. /\ \A s \in Lines : Pad[s] \in lines <=> s \in Asked(r)
      /\ Pad["ready"] \in lines <=> Pad["ready"] \in r.latch
  BY <1>1, PadsApart
<1>4. \A i \in 0 .. 7 : /\ DataPad[i + 1] \in {DataPad[j] : j \in 1 .. 8}
                        /\ DataPad[i + 1] \in data <=> i \in r.pins.data
  <2>1. \A i \in 0 .. 7 : i + 1 \in 1 .. 8
    OBVIOUS
  <2> QED
    BY <1>1, <2>1, PadsApart
<1>5. lines \in SUBSET Int /\ data \in SUBSET Int
  <2>1. \A s \in Signals : Pad[s] \in Int
    BY PadsApart DEF SignalPads
  <2>2. \A i \in 0 .. 7 : DataPad[i + 1] \in Int
    BY PadsApart DEF DataPads
  <2> QED
    BY <1>1, <2>1, <2>2
<1>6. Applied(r, c) = IF c.kind = "write" THEN lines
                      ELSE (lines \ {DataPad[i] : i \in 1 .. 8}) \cup data
  BY DEF Applied
<1> HIDE DEF lines, data
<1> QED
  BY <1>1, <1>2, <1>3, <1>4, <1>5, <1>6

\* What a half-cycle does to a runner: the signals it finds on its pins
\* object afterwards, and the data.
Held(r) == (Lines \cap Asked(r)) \cup {s \in {"ready"} : Pad[s] \in r.latch}
Bus(r, c) == IF ~r.phase THEN setup.float ELSE IF c.kind = "write" THEN c.data ELSE r.pins.data
Found(r, c) == [high |-> Held(r) \cup ChipHigh(c, r.phase), addr |-> c.addr, data |-> Bus(r, c)]
AfterHalf(r, c) ==
    [r EXCEPT !.latch = Applied(r, c), !.out = c.kind # "write" /\ r.phase,
              !.pins = Found(r, c),
              !.panel = [flags |-> Found(r, c).high \cap DOMAIN DISP,
                         addr |-> c.addr, data |-> Bus(r, c)]]

\* A half-cycle, in either host and through either firmware: the control lines
\* of the call are applied, the pins object and the panel show what the CPU puts
\* out, and the data of a read are on the bus while PHI2 is high.
THEOREM HalfCycleIs ==
    ASSUME setup \in Setups, NEW r \in RunnerRecords, NEW c \in Outputs, NEW h \in Hosts
    PROVE  /\ Exchanged(h, r, c) = AfterHalf(r, c)
           /\ Found(r, c) \in PinsObjects
           /\ BusData(AfterHalf(r, c), c) = Bus(r, c)
<1> DEFINE phi2 == IF r.phase THEN r.pins.high \cup {"phi2"} ELSE r.pins.high \ {"phi2"}
           pins == [r.pins EXCEPT !.high = phi2]
           gated == [r EXCEPT !.latch = Applied(r, c), !.out = c.kind # "write" /\ r.phase]
           panel == [flags |-> Found(r, c).high \cap DOMAIN DISP, addr |-> c.addr, data |-> Bus(r, c)]
           high == High(gated, c)
<1>1. pins \in PinsObjects /\ pins.high = Asked(r) /\ pins.data = r.pins.data
  <2>1. r.pins \in PinsObjects /\ "phi2" \in Signals
    BY DEF RunnerRecords, Signals
  <2>2. phi2 \in SUBSET Signals /\ phi2 = Asked(r)
    BY <2>1 DEF PinsObjects, Asked
  <2> HIDE DEF phi2
  <2> QED
    BY <2>1, <2>2 DEF PinsObjects
<1>2. Pad["phi2"] \in Applied(r, c) <=> r.phase
  <2>1. "phi2" \in Lines /\ ("phi2" \in Asked(r) <=> r.phase)
    BY DEF Lines, Asked
  <2> QED
    BY <2>1, AppliedLevels
<1>3. /\ [r.pins EXCEPT !.high = IF r.phase THEN @ \cup {"phi2"} ELSE @ \ {"phi2"}] = pins
      /\ \A fw : handle_cycle(fw, set_pins_state(fw, r, c, Encode(h, pins)), c) = gated
  <2>1. [r.pins EXCEPT !.high = IF r.phase THEN @ \cup {"phi2"} ELSE @ \ {"phi2"}] = pins
    OBVIOUS
  <2> HIDE DEF pins
  <2>2. \A fw : handle_cycle(fw, set_pins_state(fw, r, c, Encode(h, pins)), c) = Served(r, c)
    BY <1>1, RequestServed
  <2>3. Served(r, c) = gated
    BY <1>2 DEF Served
  <2> HIDE DEF gated
  <2> QED
    BY <2>1, <2>2, <2>3
<1>4. gated.latch = Applied(r, c) /\ (gated.out <=> c.kind # "write" /\ r.phase)
  BY DEF RunnerRecords
<1>5. /\ Input(gated, "phi2") <=> r.phase
      /\ BusData(gated, c) = Bus(r, c)
  <2>1. \A i \in 0 .. 7 : Wire[ChipData(i)] = DataPad[i + 1]
    BY WiresMeet
  <2>2. Input(gated, "phi2") <=> r.phase
    BY <1>2, <1>4, WiresMeet DEF Input, Signals
  <2>3. ASSUME c.kind # "write" PROVE {n \in 0 .. 7 : Wire[ChipData(n)] \in gated.latch} = r.pins.data
    <3>1. r.pins.data \subseteq 0 .. 7
      BY DEF RunnerRecords, PinsObjects
    <3> HIDE DEF gated
    <3> QED
      BY <1>4, <2>1, <2>3, <3>1, AppliedLevels
  <2> HIDE DEF gated
  <2> QED
    BY <1>4, <2>2, <2>3 DEF BusData, Bus
<1>6. Seen(high) = Found(r, c)
  <2>1. {s \in TeensyDriven : Pad[s] \in gated.latch} = Held(r)
    <3>1. TeensyDriven = Lines \cup {"ready"}
      BY DEF TeensyDriven, Lines
    <3> QED
      BY <1>4, <3>1, AppliedLevels DEF Held
  <2>2. Seen(high) = [high |-> {s \in TeensyDriven : Pad[s] \in gated.latch}
                                \cup ChipHigh(c, Input(gated, "phi2")),
                      addr |-> c.addr, data |-> BusData(gated, c)]
    BY LevelsRead
  <2>3. ChipHigh(c, Input(gated, "phi2")) = ChipHigh(c, r.phase)
    BY <1>5 DEF ChipHigh
  <2> QED
    BY <1>5, <2>1, <2>2, <2>3 DEF Found
<1>7. Found(r, c) \in PinsObjects
  BY <1>6 DEF Seen, PinsObjects
<1>8. \A fw : /\ Reply(fw, gated, c) = sample(high)
              /\ Decode(h, Reply(fw, gated, c)) = Found(r, c)
              /\ decode_sample(Reply(fw, gated, c)) = panel
  <2> DEFINE buff == sample(high)
  <2>1. buff \in Buffers /\ set_pins(buff) = Found(r, c)
    BY <1>6, DecodeOfSample
  <2>2. \A fw : Reply(fw, gated, c) = buff
    BY FirmwaresSampleAlike DEF Reply
  <2> HIDE DEF buff, gated
  <2>3. Decode(h, buff) = Found(r, c)
    BY <2>1, HostsDecodeAlike DEF Decode
  <2>4. /\ decode_sample(buff).addr = Found(r, c).addr
        /\ decode_sample(buff).data = Found(r, c).data
        /\ decode_sample(buff).flags = Found(r, c).high \cap DOMAIN DISP
    BY <2>1, PanelDecodesAlike
  <2>5. decode_sample(buff) = [flags |-> decode_sample(buff).flags, addr |-> decode_sample(buff).addr,
                               data |-> decode_sample(buff).data]
    BY DEF decode_sample
  <2>6. decode_sample(buff) = panel
    BY <2>4, <2>5 DEF Found
  <2> QED
    BY <2>2, <2>3, <2>6 DEF buff
<1>9. Exchanged(h, r, c) = [gated EXCEPT !.pins = Found(r, c), !.panel = panel]
  <2> HIDE DEF gated, panel, pins
  <2> QED
    BY <1>3, <1>8 DEF Exchanged
<1>10. [gated EXCEPT !.pins = Found(r, c), !.panel = panel]
         = [r EXCEPT !.latch = Applied(r, c), !.out = c.kind # "write" /\ r.phase,
                     !.pins = Found(r, c), !.panel = panel]
  OBVIOUS
<1>11. BusData(Exchanged(h, r, c), c) = BusData(gated, c)
  <2>1. /\ Exchanged(h, r, c).latch = gated.latch
        /\ Exchanged(h, r, c).out = gated.out
    BY <1>9, <1>10 DEF RunnerRecords
  <2> HIDE DEF gated
  <2> QED
    BY <2>1 DEF BusData, Input
<1> HIDE DEF gated
<1> QED
  BY <1>5, <1>7, <1>9, <1>10, <1>11 DEF AfterHalf

-----------------------------------------------------------------------------
\* The fields of a record that one part of a step leaves alone.
SameBus(r, x) ==
    /\ x.left = r.left /\ x.pins = r.pins /\ x.addr = r.addr /\ x.write = r.write
    /\ x.mem = r.mem /\ x.latch = r.latch /\ x.out = r.out /\ x.panel = r.panel
    /\ x.op = r.op /\ x.chipMem = r.chipMem
SameProgram(r, x) ==
    /\ x.prog = r.prog /\ x.left = r.left /\ x.phase = r.phase /\ x.cycle = r.cycle
    /\ x.step = r.step /\ x.remaining = r.remaining /\ x.due = r.due /\ x.quit = r.quit
SameMemory(r, x) ==
    /\ x.addr = r.addr /\ x.write = r.write /\ x.mem = r.mem
    /\ x.op = r.op /\ x.chipMem = r.chipMem

\* A half-cycle, field by field.
LEMMA AfterHalfFields ==
    ASSUME setup \in Setups, NEW r \in RunnerRecords, NEW c \in Outputs
    PROVE  LET x == AfterHalf(r, c) IN
           /\ x \in RunnerRecords /\ SameProgram(r, x) /\ SameMemory(r, x)
           /\ x.latch = Applied(r, c) /\ x.pins = Found(r, c)
           /\ x.out = (c.kind # "write" /\ r.phase)
           /\ x.panel.flags = x.pins.high \cap DOMAIN DISP
           /\ x.panel.addr = x.pins.addr /\ x.panel.data = x.pins.data
<1> DEFINE L == Applied(r, c)
           P == Found(r, c)
           O == c.kind # "write" /\ r.phase
           D == [flags |-> P.high \cap DOMAIN DISP, addr |-> c.addr, data |-> Bus(r, c)]
           x == [r EXCEPT !.latch = L, !.out = O, !.pins = P, !.panel = D]
<1>1. L \in SUBSET Int /\ P \in PinsObjects /\ O \in BOOLEAN
  BY AppliedLevels, HalfCycleIs DEF Hosts
<1>2. D \in Samples
  <2>1. P.high \cap DOMAIN DISP \in SUBSET Signals /\ P.addr \in SUBSET (0 .. 15) /\ P.data \in SUBSET (0 .. 7)
    BY <1>1 DEF PinsObjects
  <2>2. P.addr = c.addr /\ P.data = Bus(r, c)
    BY DEF Found
  <2> HIDE DEF P
  <2> QED
    BY <2>1, <2>2 DEF Samples
<1>3. D.flags = P.high \cap DOMAIN DISP /\ D.addr = P.addr /\ D.data = P.data
  BY DEF Found
<1>4. AfterHalf(r, c) = x
  BY DEF AfterHalf
<1> HIDE DEF L, P, O, D
<1>5. x \in RunnerRecords
  BY <1>1, <1>2 DEF RunnerRecords
<1>6. x.latch = L /\ x.pins = P /\ x.out = O /\ x.panel = D
  BY DEF RunnerRecords
<1>7. SameProgram(r, x) /\ SameMemory(r, x)
  BY DEF SameProgram, SameMemory, RunnerRecords
<1> HIDE DEF x
<1> QED
  BY <1>3, <1>4, <1>5, <1>6, <1>7 DEF L, P, O

\* What the user types, when asked.
LEMMA CommandType ==
    ASSUME NEW cmd \in Commands
    PROVE  /\ cmd[1] \in {"none", "next", "run", "continue", "quit"}
           /\ cmd[1] = "run" => cmd[2] \in 1 .. MaxSteps
           /\ \A h \in Running : Prompts(runner[h]) => cmd[1] # "none"
  BY DEF Commands

\* The counter of step mode is one less than the lines the user is owed, until
\* the next of them is printed.
Owed(r) ==
    r.remaining \in 0 .. MaxSteps - 1 /\ (r.step /\ r.prog # "done" => r.due = r.remaining + 1)
Printed(r) == r.remaining \in 0 .. MaxSteps - 1 /\ (r.step => r.due = r.remaining)

\* What maybe_pause leaves of a runner: the count is right, or the user has quit.
AfterPause(r, p) ==
    /\ p \in RunnerRecords /\ SameBus(r, p)
    /\ p.phase = r.phase /\ p.cycle = r.cycle
    /\ Owed(p)
    /\ (p.prog = "run" /\ p.quit = r.quit) \/ (p.prog = "done" /\ p.quit)

\* print_state is one of the lines owed, and changes nothing else.
LEMMA PrintFields ==
    ASSUME NEW r \in RunnerRecords
    PROVE  LET p == print_state(r) IN
           /\ p \in RunnerRecords /\ SameBus(r, p)
           /\ p.prog = r.prog /\ p.phase = r.phase /\ p.cycle = r.cycle /\ p.quit = r.quit
           /\ p.step = r.step /\ p.remaining = r.remaining
           /\ r.step => p.due = r.due - 1
<1> DEFINE d == r.due - 1
           q == [r EXCEPT !.due = d]
<1>1. CASE ~r.step
  <2>1. print_state(r) = r
    BY <1>1 DEF print_state
  <2> QED
    BY <1>1, <2>1 DEF SameBus
<1>2. CASE r.step
  <2>1. print_state(r) = q
    BY <1>2 DEF print_state
  <2>2. d \in Int
    BY DEF RunnerRecords
  <2> HIDE DEF d
  <2>3. q \in RunnerRecords
    BY <2>2 DEF RunnerRecords
  <2>4. /\ SameBus(r, q) /\ q.prog = r.prog /\ q.phase = r.phase /\ q.cycle = r.cycle
        /\ q.quit = r.quit /\ q.step = r.step /\ q.remaining = r.remaining /\ q.due = d
    BY DEF SameBus, RunnerRecords
  <2> HIDE DEF q
  <2> QED
    BY <2>1, <2>3, <2>4 DEF d
<1> QED
  BY <1>1, <1>2

\* maybe_pause makes the lines owed equal to the counter and one, whatever the
\* user types.
LEMMA PausedKeepsCount ==
    ASSUME NEW r \in RunnerRecords, r.prog = "run", Printed(r), NEW cmd \in Commands,
           Prompts(r) => cmd[1] # "none"
    PROVE  AfterPause(r, Paused(r, cmd))
<1> DEFINE p == Paused(r, cmd)
<1>1. /\ cmd[1] \in {"none", "next", "run", "continue", "quit"}
      /\ cmd[1] = "run" => cmd[2] \in 1 .. MaxSteps
  BY CommandType
<1>2. r.remaining \in Nat /\ MaxSteps \in Nat /\ r.due \in Int /\ r.remaining <= MaxSteps - 1
  BY RunnersAssumption DEF Printed, RunnerRecords
<1>3. CASE ~r.step
  <2>1. p = r
    BY <1>3 DEF Paused
  <2> QED
    BY <1>3, <2>1 DEF SameBus, AfterPause, Owed, Printed
<1>4. CASE r.step /\ r.remaining > 0
  <2> DEFINE n == r.remaining - 1
             q == [r EXCEPT !.remaining = n]
  <2>1. p = q
    BY <1>4 DEF Paused
  <2>2. n \in 0 .. MaxSteps - 1 /\ r.due = n + 1
    BY <1>2, <1>4 DEF Printed
  <2>3. n \in Int
    BY <1>2
  <2> HIDE DEF n
  <2>5. q \in RunnerRecords /\ q.remaining = n /\ q.due = r.due
    BY <2>3 DEF RunnerRecords
  <2>4. SameBus(r, q) /\ q.phase = r.phase /\ q.cycle = r.cycle /\ q.prog = "run" /\ q.quit = r.quit
    BY DEF SameBus, RunnerRecords
  <2> QED
    BY <2>1, <2>2, <2>4, <2>5 DEF AfterPause, Owed
<1>5. CASE r.step /\ r.remaining = 0 /\ cmd[1] = "next"
  <2> DEFINE q == [r EXCEPT !.due = 1]
  <2>1. p = q
    BY <1>5 DEF Paused
  <2>2. q \in RunnerRecords /\ q.remaining = 0 /\ q.due = 1
    BY <1>5 DEF RunnerRecords
  <2>3. SameBus(r, q) /\ q.phase = r.phase /\ q.cycle = r.cycle /\ q.prog = "run" /\ q.quit = r.quit
    BY DEF SameBus, RunnerRecords
  <2> QED
    BY <1>2, <1>5, <2>1, <2>2, <2>3 DEF AfterPause, Owed
<1>6. CASE r.step /\ r.remaining = 0 /\ cmd[1] = "run"
  <2> DEFINE n == cmd[2] - 1
             q == [r EXCEPT !.remaining = n, !.due = cmd[2]]
  <2>1. p = q
    BY <1>6 DEF Paused
  <2>2. n \in 0 .. MaxSteps - 1 /\ cmd[2] = n + 1
    BY <1>1, <1>2, <1>6
  <2>3. n \in Int /\ cmd[2] \in Int
    BY <1>1, <1>2, <1>6
  <2> HIDE DEF n
  <2>5. q \in RunnerRecords /\ q.remaining = n /\ q.due = cmd[2]
    BY <2>3 DEF RunnerRecords
  <2>4. SameBus(r, q) /\ q.phase = r.phase /\ q.cycle = r.cycle /\ q.prog = "run" /\ q.quit = r.quit
    BY DEF SameBus, RunnerRecords
  <2> QED
    BY <2>1, <2>2, <2>4, <2>5 DEF AfterPause, Owed
<1>7. CASE r.step /\ r.remaining = 0 /\ cmd[1] = "continue"
  <2> DEFINE off == FALSE
             none == 0
             q == [r EXCEPT !.step = off, !.due = none]
  <2>1. p = q
    BY <1>7 DEF Paused
  <2>5. off \in BOOLEAN /\ ~off /\ none \in Int
    OBVIOUS
  <2> HIDE DEF off, none
  <2>2. q \in RunnerRecords
    BY <2>5 DEF RunnerRecords
  <2>4. q.remaining = r.remaining /\ ~q.step
    BY <2>5 DEF RunnerRecords
  <2>3. SameBus(r, q) /\ q.phase = r.phase /\ q.cycle = r.cycle /\ q.prog = "run" /\ q.quit = r.quit
    BY DEF SameBus, RunnerRecords
  <2> QED
    BY <2>1, <2>2, <2>3, <2>4 DEF AfterPause, Owed, Printed
<1>8. CASE r.step /\ r.remaining = 0 /\ cmd[1] = "quit"
  <2> DEFINE q == [r EXCEPT !.prog = "done", !.quit = TRUE]
  <2>1. p = q
    BY <1>8 DEF Paused
  <2>2. q \in RunnerRecords
    BY DEF RunnerRecords
  <2>3. /\ SameBus(r, q) /\ q.phase = r.phase /\ q.cycle = r.cycle /\ q.prog = "done" /\ q.quit = TRUE
        /\ q.step = r.step /\ q.remaining = r.remaining /\ q.due = r.due
    BY DEF SameBus, RunnerRecords
  <2> QED
    BY <2>1, <2>2, <2>3 DEF AfterPause, Owed, Printed
<1> QED
  BY <1>1, <1>2, <1>3, <1>4, <1>5, <1>6, <1>7, <1>8 DEF Prompts

\* The line and the pause after it.
LEMMA ReportedKeepsCount ==
    ASSUME NEW r \in RunnerRecords, r.prog = "run", Owed(r), NEW cmd \in Commands,
           Prompts(r) => cmd[1] # "none"
    PROVE  AfterPause(r, Reported(r, cmd))
<1> DEFINE p == print_state(r)
           q == Paused(p, cmd)
<1>1. /\ p \in RunnerRecords /\ SameBus(r, p)
      /\ p.prog = r.prog /\ p.phase = r.phase /\ p.cycle = r.cycle /\ p.quit = r.quit
      /\ p.step = r.step /\ p.remaining = r.remaining
      /\ r.step => p.due = r.due - 1
  BY PrintFields
<1>2. r.remaining \in Int /\ r.due \in Int
  BY RunnersAssumption DEF Owed, RunnerRecords
<1>3. Reported(r, cmd) = q
  BY DEF Reported
<1> HIDE DEF p
<1>4. Printed(p)
  BY <1>1, <1>2 DEF Owed, Printed
<1>5. Prompts(p) => cmd[1] # "none"
  BY <1>1 DEF Prompts
<1>6. AfterPause(p, q)
  BY <1>1, <1>4, <1>5, PausedKeepsCount
<1> HIDE DEF q
<1>7. AfterPause(r, q)
  BY <1>1, <1>6 DEF AfterPause, SameBus
<1> QED
  BY <1>3, <1>7

\* advance_cycles touches the phase and the cycle counter.
LEMMA Advances ==
    ASSUME NEW r \in RunnerRecords
    PROVE  LET a == advance_cycles(r) IN
           /\ a \in RunnerRecords /\ SameBus(r, a)
           /\ a.phase = ~r.phase /\ a.cycle = IF r.phase THEN r.cycle + 1 ELSE r.cycle
           /\ a.prog = r.prog /\ a.step = r.step /\ a.remaining = r.remaining
           /\ a.due = r.due /\ a.quit = r.quit
<1> DEFINE n == IF r.phase THEN r.cycle + 1 ELSE r.cycle
           b == ~r.phase
           a == [r EXCEPT !.cycle = n, !.phase = b]
<1>1. advance_cycles(r) = a
  BY DEF advance_cycles
<1>2. n \in Nat /\ b \in BOOLEAN
  BY DEF RunnerRecords
<1> HIDE DEF n, b
<1>3. a \in RunnerRecords
  BY <1>2 DEF RunnerRecords
<1>4. SameBus(r, a)
  BY DEF RunnerRecords, SameBus
<1>5. /\ a.phase = b /\ a.cycle = n /\ a.prog = r.prog /\ a.step = r.step
      /\ a.remaining = r.remaining /\ a.due = r.due /\ a.quit = r.quit
  BY DEF RunnerRecords
<1> HIDE DEF a
<1> QED
  BY <1>1, <1>3, <1>4, <1>5 DEF n, b

\* The end of step(), after the pause: y is the runner before maybe_pause.
SpentBudget(h, r) == h = "cpp" /\ MAX_CYCLES # 0 /\ r.cycle >= MAX_CYCLES
AfterStep(h, y, n) ==
    /\ n \in RunnerRecords /\ SameBus(y, n) /\ Owed(n)
    /\ n.prog \in {"run", "done"}
    /\ n.prog = "done" => n.quit \/ SpentBudget(h, n)
    /\ n.cycle = y.cycle \/ (y.phase /\ n.cycle = y.cycle + 1)
    /\ n.prog = "run" =>
         /\ n.phase <=> ~y.phase
         /\ n.cycle = IF y.phase THEN y.cycle + 1 ELSE y.cycle
         /\ ~SpentBudget(h, n)

\* step() ends with the phase and the cycle advanced, or with the program.
LEMMA StepEnds ==
    ASSUME NEW h \in Hosts, NEW y \in RunnerRecords, NEW p, AfterPause(y, p)
    PROVE  AfterStep(h, y, Next_step(h, p))
<1> DEFINE a == advance_cycles(p)
           n == Next_step(h, p)
<1>1. p \in RunnerRecords
  BY DEF AfterPause
<1>2. CASE p.prog = "done"
  <2>1. n = p /\ p.quit
    BY <1>2 DEF Next_step, AfterPause
  <2>2. /\ p \in RunnerRecords /\ SameBus(y, p) /\ Owed(p) /\ p.cycle = y.cycle
    BY DEF AfterPause
  <2> HIDE DEF n
  <2>3. AfterStep(h, y, n)
    BY <1>2, <2>1, <2>2 DEF AfterStep
  <2> QED
    BY <2>3 DEF n
<1>3. CASE p.prog = "run"
  <2>1. /\ a \in RunnerRecords /\ SameBus(p, a)
        /\ a.phase = ~p.phase /\ a.cycle = IF p.phase THEN p.cycle + 1 ELSE p.cycle
        /\ a.prog = p.prog /\ a.step = p.step /\ a.remaining = p.remaining
        /\ a.due = p.due /\ a.quit = p.quit
    BY <1>1, Advances
  <2> HIDE DEF a
  <2>2. SameBus(y, a) /\ Owed(a)
    BY <2>1 DEF AfterPause, SameBus, Owed
  <2>3. /\ p.phase = y.phase /\ p.cycle = y.cycle
    BY DEF AfterPause
  <2>4. CASE SpentBudget(h, a)
    <3> DEFINE d == [a EXCEPT !.prog = "done"]
    <3>1. n = d
      BY <1>3, <2>4 DEF Next_step, SpentBudget, a
    <3>2. d \in RunnerRecords
      BY <2>1 DEF RunnerRecords
    <3>3. /\ SameBus(a, d) /\ d.prog = "done" /\ d.cycle = a.cycle /\ d.phase = a.phase
          /\ d.step = a.step /\ d.remaining = a.remaining /\ d.due = a.due /\ d.quit = a.quit
      BY <2>1 DEF SameBus, RunnerRecords
    <3> HIDE DEF n, d
    <3>4. SameBus(y, d) /\ Owed(d) /\ SpentBudget(h, d)
      BY <2>2, <2>4, <3>3 DEF SameBus, Owed, SpentBudget
    <3>5. AfterStep(h, y, n)
      BY <2>1, <2>3, <3>1, <3>2, <3>3, <3>4 DEF AfterStep
    <3> QED
      BY <3>5 DEF n
  <2>5. CASE ~SpentBudget(h, a)
    <3>1. n = a
      BY <1>3, <2>5 DEF Next_step, SpentBudget, a
    <3> HIDE DEF n
    <3>2. AfterStep(h, y, n)
      BY <1>3, <2>1, <2>2, <2>3, <2>5, <3>1 DEF AfterStep
    <3> QED
      BY <3>2 DEF n
  <2> QED
    BY <2>4, <2>5
<1> QED
  BY <1>2, <1>3 DEF AfterPause

-----------------------------------------------------------------------------
(* The invariant of one runner, h, while the CPU puts out c.               *)

\* Phases, cycles and half-cycles of the reset that are left.
Counted(h, r) ==
    /\ r.cycle <= MaxCycle
    /\ r.prog = "reset" <=> r.left > 0
    /\ r.prog = "reset" => r.left = 4 - 2 * r.cycle - IF r.phase THEN 1 ELSE 0
    /\ r.prog = "run" =>
         /\ r.cycle >= 2 /\ (r.phase => r.cycle < MaxCycle)
         /\ h = "cpp" /\ MAX_CYCLES # 0 =>
              r.cycle <= MAX_CYCLES /\ (r.phase => r.cycle < MAX_CYCLES)

\* The control lines, as latched by the Teensy and as kept by the program.
Released6 == {"irq", "nmi", "be", "so", "reset", "ready"}
Latched(r) ==
    /\ \A s \in {"irq", "nmi", "be", "ready"} : Pad[s] \in r.latch
    /\ r.left \in 1 .. 3 => Pad["reset"] \notin r.latch
    /\ r.prog = "run" => Released6 \subseteq r.pins.high

\* After a half-cycle of step(): the pins object, the latches and the panel.
Shown(r, c) ==
    Stepping(r) =>
        /\ r.pins.addr = c.addr
        /\ r.pins.high = Released6 \cup {s \in {"phi2"} : ~r.phase} \cup ChipHigh(c, ~r.phase)
        /\ Pad["reset"] \in r.latch /\ Pad["so"] \in r.latch
        /\ Pad["phi2"] \in r.latch <=> ~r.phase
        /\ r.panel.addr = r.pins.addr
        /\ r.panel.flags = r.pins.high \cap DOMAIN DISP
        /\ ~r.phase => r.pins.data = r.op.data /\ r.panel.data = r.pins.data

\* Between the halves of a cycle the program has the byte for the CPU.
MidCycle(r, c) ==
    r.prog = "run" /\ r.phase =>
        /\ r.addr = c.addr /\ (r.write <=> c.kind = "write")
        /\ ~r.write => r.pins.data = r.mem[r.addr]

\* The program's memory is the CPU's.
OneMemory(r) ==
    /\ r.addr \in setup.addr \cup {{}}
    /\ r.mem = r.chipMem
    /\ r.op.kind # "none" => r.op.addr \in setup.addr
    /\ r.op.kind \in Kinds \ {"write"} => r.op.data = r.chipMem[r.op.addr]

\* A zero opcode ends the run.
Brk(r) == r.op.kind = "fetch" /\ r.chipMem[r.op.addr] = {}
EndsOnBrk(h, r) ==
    /\ r.prog = "done" => r.quit \/ Brk(r) \/ (h = "cpp" /\ r.cycle = MAX_CYCLES)
    /\ r.prog = "run" /\ Brk(r) => h = "rust" /\ r.cycle <= BRK_CYCLE + 1
    /\ r.prog = "reset" => r.op = NoCycle

RunnerInv(h, r, c) ==
    /\ r \in RunnerRecords
    /\ Counted(h, r) /\ Latched(r) /\ Shown(r, c) /\ MidCycle(r, c)
    /\ OneMemory(r) /\ Owed(r) /\ EndsOnBrk(h, r)

-----------------------------------------------------------------------------
\* A half-cycle of a program that has come through the reset leaves the control
\* lines high, on the pins object and in the latches.
LEMMA StaysReleased ==
    ASSUME setup \in Setups, NEW r \in RunnerRecords, NEW c \in Outputs,
           Released6 \subseteq r.pins.high, Pad["ready"] \in r.latch
    PROVE  /\ Found(r, c).high = Released6 \cup {s \in {"phi2"} : r.phase} \cup ChipHigh(c, r.phase)
           /\ \A s \in Released6 : Pad[s] \in Applied(r, c)
           /\ Pad["phi2"] \in Applied(r, c) <=> r.phase
           /\ "rw" \in Found(r, c).high <=> c.kind # "write"
           /\ "sync" \in Found(r, c).high <=> c.kind = "fetch"
<1>1. Held(r) = Released6 \cup {s \in {"phi2"} : r.phase}
  BY DEF Held, Lines, Asked, Released6
<1>2. /\ \A s \in Lines : Pad[s] \in Applied(r, c) <=> s \in Asked(r)
      /\ Pad["ready"] \in Applied(r, c) <=> Pad["ready"] \in r.latch
  BY AppliedLevels
<1>3. /\ \A s \in Released6 : (s \in Lines /\ s \in Asked(r)) \/ s = "ready"
      /\ "phi2" \in Lines /\ ("phi2" \in Asked(r) <=> r.phase)
  BY DEF Released6, Lines, Asked
<1>4. \A s \in Released6 : Pad[s] \in Applied(r, c)
  BY <1>2, <1>3
<1>5. /\ "rw" \in ChipHigh(c, r.phase) <=> c.kind # "write"
      /\ "sync" \in ChipHigh(c, r.phase) <=> c.kind = "fetch"
  BY DEF ChipHigh, ChipDriven
<1>6. {"rw", "sync"} \cap (Released6 \cup {s \in {"phi2"} : r.phase}) = {}
  BY DEF Released6
<1>7. Found(r, c).high = Held(r) \cup ChipHigh(c, r.phase)
  BY DEF Found
<1> QED
  BY <1>1, <1>2, <1>3, <1>4, <1>5, <1>6, <1>7

\* The first half of a cycle, before the pause.
LowDone(r, c) ==
    [AfterHalf(r, c) EXCEPT
        !.addr = c.addr, !.write = (c.kind = "write"), !.op = NoCycle,
        !.pins = [high |-> Found(r, c).high, addr |-> c.addr,
                  data |-> IF c.kind = "write" THEN setup.float ELSE r.mem[c.addr]]]

\* The first half of a cycle reads the byte for the CPU out of the memory.
LEMMA LowStepIs ==
    ASSUME setup \in Setups, NEW h \in Hosts, NEW r \in RunnerRecords, NEW c \in Outputs, NEW cmd,
           Released6 \subseteq r.pins.high, Pad["ready"] \in r.latch, ~r.phase
    PROVE  LowStep(h, r, c, cmd)
             = Next_step(h, LowReport(LowDone(r, c), cmd))
<1> DEFINE x == AfterHalf(r, c)
           w == "rw" \notin x.pins.high
           data == IF c.kind = "write" THEN setup.float ELSE r.mem[c.addr]
           pins == [high |-> Found(r, c).high, addr |-> c.addr, data |-> data]
<1>1. Exchanged(h, r, c) = x
  BY HalfCycleIs
<1>2. x \in RunnerRecords /\ x.pins = Found(r, c) /\ x.mem = r.mem
  BY AfterHalfFields DEF SameMemory
<1>3. Found(r, c) = [high |-> Found(r, c).high, addr |-> c.addr, data |-> setup.float]
  BY DEF Found, Bus
<1>4. (w <=> c.kind = "write") /\ w = (c.kind = "write")
  BY <1>2, StaysReleased
<1>5. read_byte(x.mem, x.pins.addr) = r.mem[c.addr]
  <2>1. x.mem = r.mem /\ DOMAIN r.mem = setup.addr /\ c.addr \in setup.addr
    BY <1>2 DEF RunnerRecords, Outputs
  <2>2. x.pins.addr = c.addr
    BY <1>2, <1>3
  <2> HIDE DEF x
  <2> QED
    BY <2>1, <2>2 DEF read_byte
<1>6. [x.pins EXCEPT !.data = IF w THEN x.pins.data ELSE read_byte(x.mem, x.pins.addr)] = pins
  <2> HIDE DEF x, w
  <2>1. x.pins = [high |-> Found(r, c).high, addr |-> c.addr, data |-> setup.float]
    BY <1>2, <1>3
  <2>2. (IF w THEN x.pins.data ELSE read_byte(x.mem, x.pins.addr)) = data
    <3>1. x.pins.data = setup.float
      BY <2>1
    <3> QED
      BY <1>4, <1>5, <3>1
  <2> HIDE DEF data
  <2> QED
    BY <2>1, <2>2
<1>7. x.pins.addr = c.addr
  BY <1>2, <1>3
<1>8. [x EXCEPT !.addr = x.pins.addr, !.write = w, !.op = NoCycle,
                !.pins.data = IF w THEN @ ELSE read_byte(x.mem, x.pins.addr)]
        = [x EXCEPT !.addr = c.addr, !.write = (c.kind = "write"), !.op = NoCycle, !.pins = pins]
  <2> HIDE DEF x, w, pins
  <2> QED
    BY <1>4, <1>6, <1>7
<1> HIDE DEF x, w
<1> QED
  BY <1>1, <1>8 DEF LowStep, LowDone, x, w

\* What the runner knows then.
LEMMA LowDoneFields ==
    ASSUME setup \in Setups, NEW r \in RunnerRecords, NEW c \in Outputs, ~r.phase
    PROVE  LET y == LowDone(r, c) IN
           /\ y \in RunnerRecords /\ SameProgram(r, y)
           /\ y.mem = r.mem /\ y.chipMem = r.chipMem /\ y.latch = Applied(r, c)
           /\ y.addr = c.addr /\ (y.write <=> c.kind = "write") /\ y.op = NoCycle
           /\ y.pins.high = Found(r, c).high /\ y.pins.addr = c.addr
           /\ ~y.write => y.pins.data = r.mem[c.addr]
           /\ y.write => y.pins.data = setup.float
           /\ y.panel.addr = c.addr /\ y.panel.flags = Found(r, c).high \cap DOMAIN DISP
<1> DEFINE x == AfterHalf(r, c)
           w == c.kind = "write"
           P == [high |-> Found(r, c).high, addr |-> c.addr,
                 data |-> IF c.kind = "write" THEN setup.float ELSE r.mem[c.addr]]
           y == [x EXCEPT !.addr = c.addr, !.write = w, !.op = NoCycle, !.pins = P]
<1>1. /\ x \in RunnerRecords /\ SameProgram(r, x) /\ SameMemory(r, x)
      /\ x.latch = Applied(r, c) /\ x.pins = Found(r, c)
      /\ x.panel.flags = x.pins.high \cap DOMAIN DISP
      /\ x.panel.addr = x.pins.addr
  BY AfterHalfFields
<1>2. Found(r, c).addr = c.addr /\ Found(r, c).high \in SUBSET Signals
  BY <1>1 DEF Found, RunnerRecords, PinsObjects
<1>3. c.addr \in setup.addr /\ c.addr \in SUBSET (0 .. 15)
  BY SetupData DEF Outputs
<1>4. P \in PinsObjects
  <2>1. r.mem[c.addr] \in SUBSET (0 .. 7) /\ setup.float \in SUBSET (0 .. 7)
    BY <1>3, SetupData DEF RunnerRecords
  <2> QED
    BY <1>2, <1>3, <2>1 DEF PinsObjects
<1>5. w \in BOOLEAN /\ NoCycle \in Ops
  BY DEF NoCycle, Ops
<1>6. LowDone(r, c) = y
  BY DEF LowDone
<1>7. /\ P.high = Found(r, c).high /\ P.addr = c.addr
      /\ ~w => P.data = r.mem[c.addr]
      /\ w => P.data = setup.float
  OBVIOUS
<1> HIDE DEF x, w, P
<1>8. y \in RunnerRecords
  BY <1>1, <1>3, <1>4, <1>5 DEF RunnerRecords
<1>9. /\ y.addr = c.addr /\ y.write = w /\ y.op = NoCycle /\ y.pins = P
      /\ y.mem = x.mem /\ y.chipMem = x.chipMem /\ y.latch = x.latch /\ y.panel = x.panel
  BY <1>1 DEF RunnerRecords
<1>10. SameProgram(x, y)
  BY <1>1 DEF SameProgram, RunnerRecords
<1> HIDE DEF y
<1>11. SameProgram(r, y)
  BY <1>1, <1>10 DEF SameProgram
<1>12. y.mem = r.mem /\ y.chipMem = r.chipMem
  BY <1>1, <1>9 DEF SameMemory
<1>13. y.write <=> c.kind = "write"
  BY <1>9 DEF w
<1>14. y.panel.addr = c.addr /\ y.panel.flags = Found(r, c).high \cap DOMAIN DISP
  BY <1>1, <1>2, <1>9
<1> QED
  BY <1>1, <1>6, <1>7, <1>8, <1>9, <1>11, <1>12, <1>13, <1>14

\* The pause and the end of step(), in the first half of a cycle.
LEMMA LowEnds ==
    ASSUME NEW h \in Hosts, NEW y \in RunnerRecords, y.prog = "run", Owed(y),
           NEW cmd \in Commands, Prompts(y) => cmd[1] # "none"
    PROVE  /\ AfterStep(h, y, Next_step(h, Reported(y, cmd)))
           /\ AfterStep(h, y, Next_step(h, y))
<1>1. AfterPause(y, y)
  BY DEF AfterPause, SameBus
<1>2. AfterPause(y, Reported(y, cmd))
  BY ReportedKeepsCount
<1> QED
  BY <1>1, <1>2, StepEnds

\* LowStep keeps the invariant, and the CPU has gone on to put out c.
LEMMA LowStepKeeps ==
    ASSUME setup \in Setups, NEW h \in Hosts, NEW r, NEW o, RunnerInv(h, r, o),
           r.prog = "run", ~r.phase, r.cycle < MaxCycle,
           NEW c \in Outputs, NEW cmd \in Commands, Prompts(r) => cmd[1] # "none"
    PROVE  RunnerInv(h, LowStep(h, r, c, cmd), c) /\ LowStep(h, r, c, cmd).prog # "reset"
<1> DEFINE y == LowDone(r, c)
           n == LowStep(h, r, c, cmd)
<1>1. /\ r \in RunnerRecords /\ Released6 \subseteq r.pins.high /\ Pad["ready"] \in r.latch
      /\ Owed(r) /\ r.cycle \in Nat /\ r.mem = r.chipMem
      /\ r.left = 0
  BY DEF RunnerInv, Latched, RunnerRecords, OneMemory, Counted
<1>2. /\ y \in RunnerRecords /\ SameProgram(r, y)
      /\ y.mem = r.mem /\ y.chipMem = r.chipMem /\ y.latch = Applied(r, c)
      /\ y.addr = c.addr /\ (y.write <=> c.kind = "write") /\ y.op = NoCycle
      /\ y.pins.high = Found(r, c).high /\ y.pins.addr = c.addr
      /\ ~y.write => y.pins.data = r.mem[c.addr]
      /\ y.panel.addr = c.addr /\ y.panel.flags = Found(r, c).high \cap DOMAIN DISP
  BY <1>1, LowDoneFields
<1> HIDE DEF y
<1>3. AfterStep(h, y, n)
  <2>1. y.prog = "run" /\ Owed(y) /\ (Prompts(y) => cmd[1] # "none")
    BY <1>1, <1>2 DEF SameProgram, Owed, Prompts
  <2>2. n = Next_step(h, LowReport(y, cmd))
    BY <1>1, LowStepIs DEF y
  <2> HIDE DEF n
  <2>3. n = Next_step(h, Reported(y, cmd)) \/ n = Next_step(h, y)
    BY <2>2 DEF LowReport
  <2> QED
    BY <1>2, <2>1, <2>3, LowEnds
<1> HIDE DEF n
<1>4. /\ y.phase = FALSE /\ y.cycle = r.cycle /\ y.left = 0
  BY <1>1, <1>2 DEF SameProgram, RunnerRecords
<1>5. /\ n \in RunnerRecords /\ SameBus(y, n) /\ Owed(n)
      /\ n.prog \in {"run", "done"} /\ n.cycle = r.cycle
      /\ n.prog = "done" => n.quit \/ SpentBudget(h, n)
      /\ n.prog = "run" => n.phase /\ ~SpentBudget(h, n)
  BY <1>3, <1>4 DEF AfterStep
<1>6. Counted(h, n)
  <2>1. n.left = 0
    BY <1>4, <1>5 DEF SameBus
  <2>2. r.cycle <= MaxCycle /\ r.cycle >= 2 /\ (h = "cpp" /\ MAX_CYCLES # 0 => r.cycle <= MAX_CYCLES)
    BY DEF RunnerInv, Counted
  <2>3. n.prog = "run" => (h = "cpp" /\ MAX_CYCLES # 0 => n.cycle < MAX_CYCLES)
    BY <1>1, <1>5, RunnersAssumption DEF SpentBudget
  <2> QED
    BY <1>5, <2>1, <2>2, <2>3 DEF Counted
<1>7. n.latch = Applied(r, c) /\ n.pins = y.pins /\ n.left = 0
  BY <1>2, <1>4, <1>5 DEF SameBus
<1>8. /\ n.pins.high = Released6 \cup ChipHigh(c, FALSE)
      /\ \A s \in Released6 : Pad[s] \in n.latch
      /\ Pad["phi2"] \notin n.latch
  <2>1. /\ Found(r, c).high = Released6 \cup {s \in {"phi2"} : r.phase} \cup ChipHigh(c, r.phase)
        /\ \A s \in Released6 : Pad[s] \in Applied(r, c)
        /\ Pad["phi2"] \in Applied(r, c) <=> r.phase
    BY <1>1, StaysReleased
  <2>2. r.phase = FALSE
    BY <1>1 DEF RunnerRecords
  <2> QED
    BY <1>2, <1>7, <2>1, <2>2
<1>9. Latched(n)
  BY <1>7, <1>8 DEF Latched, Released6
<1>10. Shown(n, c)
  <2>1. n.pins.addr = c.addr /\ n.panel = y.panel
    BY <1>2, <1>5 DEF SameBus
  <2>2. n.panel.addr = c.addr /\ n.panel.flags = n.pins.high \cap DOMAIN DISP
    BY <1>2, <1>7, <2>1
  <2>3. n.prog = "run" => /\ n.phase = TRUE
                          /\ n.pins.high = Released6 \cup {s \in {"phi2"} : ~n.phase} \cup ChipHigh(c, ~n.phase)
    <3>1. n.prog = "run" => n.phase = TRUE
      BY <1>5 DEF RunnerRecords
    <3>2. ASSUME n.prog = "run" PROVE ChipHigh(c, ~n.phase) = ChipHigh(c, FALSE)
      BY <3>1, <3>2
    <3> QED
      BY <1>8, <3>1, <3>2
  <2> QED
    BY <1>8, <2>1, <2>2, <2>3 DEF Shown, Stepping, Released6
<1>11. MidCycle(n, c)
  <2>1. n.addr = c.addr /\ (n.write <=> c.kind = "write") /\ n.mem = r.mem
    BY <1>2, <1>5 DEF SameBus
  <2>2. ~n.write => n.pins.data = r.mem[c.addr]
    BY <1>2, <1>7, <2>1
  <2> QED
    BY <2>1, <2>2 DEF MidCycle
<1>12. n.op = NoCycle /\ n.op.kind = "none"
  BY <1>2, <1>5 DEF SameBus, NoCycle
<1>13. OneMemory(n)
  <2>1. n.addr = c.addr /\ n.mem = n.chipMem
    BY <1>1, <1>2, <1>5 DEF SameBus
  <2> QED
    BY <1>12, <2>1 DEF OneMemory, Outputs, Kinds
<1>14. EndsOnBrk(h, n)
  <2>1. n.prog = "done" => n.quit \/ (h = "cpp" /\ n.cycle = MAX_CYCLES)
    <3>1. h = "cpp" /\ MAX_CYCLES # 0 => r.cycle <= MAX_CYCLES
      BY DEF RunnerInv, Counted
    <3> QED
      BY <1>1, <1>5, <3>1, RunnersAssumption DEF SpentBudget
  <2> QED
    BY <1>12, <2>1 DEF EndsOnBrk, Brk
<1> QED
  BY <1>5, <1>6, <1>9, <1>10, <1>11, <1>13, <1>14 DEF RunnerInv, n

-----------------------------------------------------------------------------
\* The second half of a cycle, before the end of the run is considered.
Stored(mem, write, a, d) == IF write THEN [mem EXCEPT ![a] = d] ELSE mem
HighDone(r, c) ==
    [AfterHalf(r, c) EXCEPT
        !.mem = Stored(r.mem, r.write, r.addr, Bus(r, c)),
        !.op = [kind |-> c.kind, addr |-> c.addr, data |-> Bus(r, c)],
        !.chipMem = Stored(r.chipMem, c.kind = "write", c.addr, c.data)]

\* The second half of a cycle stores what the CPU writes.
LEMMA HighStepIs ==
    ASSUME setup \in Setups, NEW h \in Hosts, NEW r \in RunnerRecords, NEW c \in Outputs, NEW cmd
    PROVE  HighStep(h, r, c, cmd)
             = IF BrkFetched(h, HighDone(r, c)) THEN [print_state(HighDone(r, c)) EXCEPT !.prog = "done"]
               ELSE Next_step(h, Reported(HighDone(r, c), cmd))
<1> DEFINE x == AfterHalf(r, c)
           y == [x EXCEPT !.mem = IF x.write THEN [@ EXCEPT ![x.addr] = x.pins.data] ELSE @,
                          !.op = [kind |-> c.kind, addr |-> c.addr, data |-> BusData(x, c)],
                          !.chipMem = IF c.kind = "write" THEN [@ EXCEPT ![c.addr] = c.data] ELSE @]
<1>1. Exchanged(h, r, c) = x /\ BusData(x, c) = Bus(r, c)
  BY HalfCycleIs
<1>2. /\ x \in RunnerRecords /\ x.pins = Found(r, c) /\ x.mem = r.mem /\ x.chipMem = r.chipMem
      /\ x.write = r.write /\ x.addr = r.addr
  BY AfterHalfFields DEF SameMemory
<1>3. x.pins.data = Bus(r, c)
  BY <1>2 DEF Found
<1>4. y = HighDone(r, c)
  <2>1. y = [x EXCEPT !.mem = Stored(x.mem, x.write, x.addr, x.pins.data),
                      !.op = [kind |-> c.kind, addr |-> c.addr, data |-> BusData(x, c)],
                      !.chipMem = Stored(x.chipMem, c.kind = "write", c.addr, c.data)]
    BY DEF Stored
  <2> HIDE DEF y
  <2>2. HighDone(r, c) = [x EXCEPT !.mem = Stored(r.mem, r.write, r.addr, Bus(r, c)),
                                   !.op = [kind |-> c.kind, addr |-> c.addr, data |-> Bus(r, c)],
                                   !.chipMem = Stored(r.chipMem, c.kind = "write", c.addr, c.data)]
    BY DEF HighDone
  <2> HIDE DEF x
  <2> QED
    BY <1>1, <1>2, <1>3, <2>1, <2>2
<1>5. HighStep(h, r, c, cmd) = IF BrkFetched(h, y) THEN [print_state(y) EXCEPT !.prog = "done"]
                               ELSE Next_step(h, Reported(y, cmd))
  <2> HIDE DEF x
  <2> QED
    BY <1>1 DEF HighStep
<1> HIDE DEF y
<1> QED
  BY <1>4, <1>5

\* What the runner knows then, when it is in the middle of a cycle.
LEMMA HighDoneFields ==
    ASSUME setup \in Setups, NEW r \in RunnerRecords, NEW c \in Outputs,
           r.phase, MidCycle(r, c), OneMemory(r), r.prog = "run"
    PROVE  LET y == HighDone(r, c) IN
           /\ y \in RunnerRecords /\ SameProgram(r, y)
           /\ y.addr = c.addr /\ y.mem = y.chipMem /\ y.latch = Applied(r, c)
           /\ y.write = r.write /\ y.mem = Stored(r.mem, r.write, r.addr, Bus(r, c))
           /\ y.pins.data = Bus(r, c)
           /\ y.op.kind = c.kind /\ y.op.addr = c.addr /\ y.op.data = y.pins.data
           /\ c.kind # "write" => y.op.data = y.chipMem[c.addr]
           /\ y.pins.high = Found(r, c).high /\ y.pins.addr = c.addr
           /\ y.panel.addr = c.addr /\ y.panel.flags = Found(r, c).high \cap DOMAIN DISP
           /\ y.panel.data = y.pins.data
<1> DEFINE x == AfterHalf(r, c)
           M == Stored(r.mem, r.write, r.addr, Bus(r, c))
           N == Stored(r.chipMem, c.kind = "write", c.addr, c.data)
           O == [kind |-> c.kind, addr |-> c.addr, data |-> Bus(r, c)]
           y == [x EXCEPT !.mem = M, !.op = O, !.chipMem = N]
<1>1. /\ x \in RunnerRecords /\ SameProgram(r, x) /\ SameMemory(r, x)
      /\ x.latch = Applied(r, c) /\ x.pins = Found(r, c)
      /\ x.panel.flags = x.pins.high \cap DOMAIN DISP
      /\ x.panel.addr = x.pins.addr /\ x.panel.data = x.pins.data
  BY AfterHalfFields
<1>2. /\ r.addr = c.addr /\ (r.write <=> c.kind = "write")
      /\ ~r.write => r.pins.data = r.mem[r.addr]
      /\ r.mem = r.chipMem /\ r.mem \in [setup.addr -> setup.data]
  BY DEF MidCycle, OneMemory, RunnerRecords
<1>3. /\ c.addr \in setup.addr /\ c.addr \in SUBSET (0 .. 15)
      /\ c.data \in setup.data /\ c.kind \in Kinds
  <2>1. c.addr \in setup.addr /\ c.data \in setup.data /\ c.kind \in Kinds
    BY DEF Outputs
  <2> QED
    BY <2>1, SetupData
<1>4. Bus(r, c) = IF c.kind = "write" THEN c.data ELSE r.mem[c.addr]
  BY <1>2 DEF Bus
<1>5. M = N /\ M \in [setup.addr -> setup.data] /\ (c.kind # "write" => Bus(r, c) = M[c.addr])
  BY <1>2, <1>3, <1>4 DEF Stored
<1>6. O \in Ops /\ O.kind = c.kind /\ O.addr = c.addr /\ O.data = Bus(r, c)
  <2>1. Bus(r, c) \in SUBSET (0 .. 7)
    BY <1>2, <1>3, <1>4, SetupData
  <2> QED
    BY <1>3, <2>1 DEF Ops
<1>7. HighDone(r, c) = y
  BY DEF HighDone
<1> HIDE DEF x, M, N, O
<1>8. y \in RunnerRecords
  BY <1>1, <1>5, <1>6 DEF RunnerRecords
<1>9. /\ y.mem = M /\ y.op = O /\ y.chipMem = N /\ y.addr = x.addr
      /\ y.pins = x.pins /\ y.latch = x.latch /\ y.panel = x.panel
  BY <1>1 DEF RunnerRecords
<1>10. SameProgram(x, y)
  BY <1>1 DEF SameProgram, RunnerRecords
<1> HIDE DEF y
<1>11. SameProgram(r, y)
  BY <1>1, <1>10 DEF SameProgram
<1>16. x.write = r.write /\ y.write = x.write
  BY <1>1 DEF SameMemory, RunnerRecords, y
<1>12. y.addr = c.addr
  BY <1>1, <1>2, <1>9 DEF SameMemory
<1>13. Found(r, c).addr = c.addr /\ Found(r, c).data = Bus(r, c)
  BY DEF Found
<1>14. /\ y.pins.high = Found(r, c).high /\ y.pins.addr = c.addr /\ y.pins.data = Bus(r, c)
       /\ y.panel.addr = c.addr /\ y.panel.flags = Found(r, c).high \cap DOMAIN DISP
       /\ y.panel.data = y.pins.data
  BY <1>1, <1>9, <1>13
<1>15. /\ y.op.kind = c.kind /\ y.op.addr = c.addr /\ y.op.data = y.pins.data
       /\ c.kind # "write" => y.op.data = y.chipMem[c.addr]
       /\ y.mem = y.chipMem
  BY <1>5, <1>6, <1>9, <1>14
<1> QED
  BY <1>1, <1>7, <1>8, <1>9, <1>11, <1>12, <1>14, <1>15, <1>16 DEF M

\* HighStep keeps the invariant.
LEMMA HighStepKeeps ==
    ASSUME setup \in Setups, NEW h \in Hosts, NEW r, NEW c \in Outputs, RunnerInv(h, r, c),
           r.prog = "run", r.phase,
           NEW cmd \in Commands, Prompts(r) => cmd[1] # "none"
    PROVE  RunnerInv(h, HighStep(h, r, c, cmd), c) /\ HighStep(h, r, c, cmd).prog # "reset"
<1> DEFINE y == HighDone(r, c)
           n == HighStep(h, r, c, cmd)
<1>1. /\ r \in RunnerRecords /\ Released6 \subseteq r.pins.high /\ Pad["ready"] \in r.latch
      /\ Owed(r) /\ r.cycle \in Nat /\ r.left = 0
      /\ r.cycle < MaxCycle /\ r.cycle >= 2
      /\ h = "cpp" /\ MAX_CYCLES # 0 => r.cycle < MAX_CYCLES
  BY DEF RunnerInv, Latched, RunnerRecords, Counted
<1>2. /\ y \in RunnerRecords /\ SameProgram(r, y)
      /\ y.addr = c.addr /\ y.mem = y.chipMem /\ y.latch = Applied(r, c)
      /\ y.op.kind = c.kind /\ y.op.addr = c.addr /\ y.op.data = y.pins.data
      /\ c.kind # "write" => y.op.data = y.chipMem[c.addr]
      /\ y.pins.high = Found(r, c).high /\ y.pins.addr = c.addr
      /\ y.panel.addr = c.addr /\ y.panel.flags = Found(r, c).high \cap DOMAIN DISP
      /\ y.panel.data = y.pins.data
  BY HighDoneFields DEF RunnerInv
<1>3. n = IF BrkFetched(h, y) THEN [print_state(y) EXCEPT !.prog = "done"]
          ELSE Next_step(h, Reported(y, cmd))
  BY <1>1, HighStepIs
<1>4. /\ Found(r, c).high = Released6 \cup {"phi2"} \cup ChipHigh(c, TRUE)
      /\ \A s \in Released6 : Pad[s] \in Applied(r, c)
      /\ Pad["phi2"] \in Applied(r, c)
      /\ "sync" \in Found(r, c).high <=> c.kind = "fetch"
  <2>1. r.phase = TRUE
    BY <1>1 DEF RunnerRecords
  <2> QED
    BY <1>1, <2>1, StaysReleased
<1>5. c.addr \in setup.addr /\ c.kind \in Kinds
  BY DEF Outputs
<1> HIDE DEF y, n
<1>6. /\ y.prog = "run" /\ y.phase = TRUE /\ y.cycle = r.cycle /\ y.left = 0
      /\ Owed(y) /\ (Prompts(y) => cmd[1] # "none")
  BY <1>1, <1>2 DEF SameProgram, Owed, Prompts, RunnerRecords
<1>7. BrkFetched(h, y) <=> Brk(y) /\ (h = "cpp" \/ r.cycle > BRK_CYCLE)
  <2>1. "sync" \in y.pins.high <=> c.kind = "fetch"
    BY <1>2, <1>4
  <2> QED
    BY <1>2, <1>6, <2>1 DEF BrkFetched, Brk
<1>8. CASE BrkFetched(h, y)
  <2> DEFINE o == print_state(y)
             d == [o EXCEPT !.prog = "done"]
  <2>1. n = d
    BY <1>3, <1>8
  <2>10. /\ o \in RunnerRecords /\ SameBus(y, o) /\ o.cycle = y.cycle
         /\ o.step = y.step /\ o.remaining = y.remaining
    BY <1>2, PrintFields
  <2> HIDE DEF o
  <2>2. d \in RunnerRecords
    BY <2>10 DEF RunnerRecords
  <2>11. /\ SameBus(o, d) /\ d.prog = "done" /\ d.cycle = o.cycle
         /\ d.step = o.step /\ d.remaining = o.remaining
    BY <2>10 DEF SameBus, RunnerRecords
  <2>3. /\ SameBus(y, d) /\ d.prog = "done" /\ d.cycle = y.cycle /\ d.remaining = y.remaining
    BY <2>10, <2>11 DEF SameBus
  <2> HIDE DEF d
  <2>4. Counted(h, d)
    BY <1>1, <1>6, <2>3, RunnersAssumption DEF Counted, SameBus
  <2>5. Latched(d)
    BY <1>2, <1>4, <1>6, <2>3 DEF Latched, SameBus, Released6
  <2>6. Shown(d, c) /\ MidCycle(d, c)
    BY <2>3 DEF Shown, MidCycle, Stepping
  <2>7. OneMemory(d)
    BY <1>2, <1>5, <2>3 DEF OneMemory, SameBus, Kinds
  <2>8. Owed(d)
    BY <1>6, <2>3 DEF Owed
  <2>9. EndsOnBrk(h, d)
    BY <1>7, <1>8, <2>3 DEF EndsOnBrk, Brk, SameBus
  <2> QED
    BY <2>1, <2>2, <2>3, <2>4, <2>5, <2>6, <2>7, <2>8, <2>9 DEF RunnerInv, n
<1>9. CASE ~BrkFetched(h, y)
  <2>1. AfterStep(h, y, n)
    BY <1>2, <1>3, <1>6, <1>9, LowEnds
  <2>2. /\ n \in RunnerRecords /\ SameBus(y, n) /\ Owed(n)
        /\ n.prog \in {"run", "done"} /\ n.cycle \in {r.cycle, r.cycle + 1}
        /\ n.prog = "done" => n.quit \/ SpentBudget(h, n)
        /\ n.prog = "run" => ~n.phase /\ n.cycle = r.cycle + 1 /\ ~SpentBudget(h, n)
    BY <1>6, <2>1 DEF AfterStep
  <2>3. /\ n.latch = Applied(r, c) /\ n.pins = y.pins /\ n.left = 0 /\ n.op = y.op
        /\ n.addr = c.addr /\ n.mem = y.mem /\ n.chipMem = y.chipMem /\ n.panel = y.panel
    BY <1>2, <1>6, <2>2 DEF SameBus
  <2>4. Counted(h, n)
    BY <1>1, <2>2, <2>3, RunnersAssumption DEF Counted, SpentBudget
  <2>5. Latched(n)
    <3>1. Released6 \subseteq n.pins.high
      BY <1>2, <1>4, <2>3
    <3>2. \A s \in {"irq", "nmi", "be", "ready"} : s \in Released6
      BY DEF Released6
    <3> QED
      BY <1>4, <2>3, <3>1, <3>2 DEF Latched
  <2>6. Shown(n, c)
    <3>1. ASSUME n.prog = "run"
          PROVE  /\ n.phase = FALSE
                 /\ ChipHigh(c, ~n.phase) = ChipHigh(c, TRUE)
      BY <2>2, <3>1 DEF RunnerRecords
    <3>2. n.pins.high = Released6 \cup {"phi2"} \cup ChipHigh(c, TRUE)
      BY <1>2, <1>4, <2>3
    <3>3. n.prog = "run" =>
            n.pins.high = Released6 \cup {s \in {"phi2"} : ~n.phase} \cup ChipHigh(c, ~n.phase)
      BY <3>1, <3>2
    <3>4. /\ n.pins.addr = c.addr /\ n.panel.addr = n.pins.addr
          /\ n.panel.flags = n.pins.high \cap DOMAIN DISP
          /\ n.pins.data = n.op.data /\ n.panel.data = n.pins.data
      BY <1>2, <2>3
    <3>5. \A s \in Released6 \cup {"phi2"} : Pad[s] \in n.latch
      BY <1>4, <2>3
    <3> QED
      BY <3>1, <3>3, <3>4, <3>5 DEF Shown, Stepping, Released6
  <2>7. MidCycle(n, c)
    BY <2>2 DEF MidCycle
  <2>8. OneMemory(n)
    BY <1>2, <1>5, <2>3 DEF OneMemory, Kinds
  <2>9. EndsOnBrk(h, n)
    <3>1. Brk(n) <=> Brk(y)
      BY <2>3 DEF Brk
    <3>2. n.prog = "done" => n.quit \/ (h = "cpp" /\ n.cycle = MAX_CYCLES)
      BY <1>1, <2>2, RunnersAssumption DEF SpentBudget
    <3>3. n.prog = "run" /\ Brk(n) => h = "rust" /\ n.cycle <= BRK_CYCLE + 1
      BY <1>1, <1>7, <1>9, <2>2, <3>1, RunnersAssumption DEF Hosts
    <3> QED
      BY <2>2, <3>2, <3>3 DEF EndsOnBrk
  <2> QED
    BY <2>2, <2>4, <2>5, <2>6, <2>7, <2>8, <2>9 DEF RunnerInv, n
<1> QED
  BY <1>8, <1>9

-----------------------------------------------------------------------------
\* The levels that reset() puts on the pins, and that do not depend on the host.
LEMMA ResetPinsAre ==
    /\ ResetPins("cpp") = [high |-> {"be", "rw", "irq", "nmi", "so"}, addr |-> {}, data |-> {}]
    /\ ResetPins("rust") = [high |-> {"be", "rw", "irq", "nmi"}, addr |-> {}, data |-> {}]
<1> DEFINE buff == [c \in 0 .. 4 |-> ResetBytes[c + 1]]
<1>1. /\ \A c \in 0 .. 4 : buff[c] = IF c = 0 THEN {1, 3} ELSE IF c = 4 THEN {3, 5, 7} ELSE {}
  BY DEF ResetBytes
<1> HIDE DEF buff
<1>2. {s \in Signals : get_pin(buff, PinNo[s])} = {"be", "rw", "irq", "nmi"}
  <2>1. ASSUME NEW s \in Signals
        PROVE  get_pin(buff, PinNo[s]) <=> s \in {"be", "rw", "irq", "nmi"}
    BY <1>1 DEF Signals, PinNo, get_pin
  <2> QED
    BY <2>1 DEF Signals
<1>3. \A p \in 8 .. 31 : ~get_pin(buff, p)
  BY <1>1 DEF get_pin
<1>4. decode_addr(buff) = {}
  BY <1>3 DEF decode_addr, addr_pins
<1>5. decode_data(buff) = {}
  <2>1. ~get_pin(buff, 32)
    BY <1>1 DEF get_pin
  <2>2. \A i \in 0 .. 7 : 32 - i \in 8 .. 31 \/ 32 - i = 32
    OBVIOUS
  <2> QED
    BY <1>3, <2>1, <2>2 DEF decode_data
<1>6. set_pins(buff) = [high |-> {"be", "rw", "irq", "nmi"}, addr |-> {}, data |-> {}]
  BY <1>2, <1>4, <1>5 DEF set_pins
<1>7. ResetPins("cpp") = [set_pins(buff) EXCEPT !.high = @ \cup {"so"}]
  BY DEF ResetPins, buff
<1>8. {"be", "rw", "irq", "nmi"} \cup {"so"} = {"be", "rw", "irq", "nmi", "so"}
  OBVIOUS
<1>9. ResetPins("rust") = [high |-> {"be", "rw", "irq", "nmi"}, addr |-> {}, data |-> {}]
  BY DEF ResetPins
<1> QED
  BY <1>6, <1>7, <1>8, <1>9

\* The pins object after a half-cycle of the reset, SO aside.
ResetBus(r, c) == IF ~r.phase THEN setup.float ELSE c.data
ResetHigh(r, c) == {"irq", "nmi", "be", "ready"} \cup {s \in {"phi2"} : r.phase} \cup ChipHigh(c, r.phase)

\* The half-cycle in it.
LEMMA ResetHalfCycle ==
    ASSUME setup \in Setups, NEW h \in Hosts, NEW r \in RunnerRecords, NEW c \in Outputs,
           Pad["ready"] \in r.latch
    PROVE  LET x == Exchanged(h, [r EXCEPT !.pins = ResetPins(h)], c) IN
           /\ x \in RunnerRecords /\ SameProgram(r, x) /\ SameMemory(r, x)
           /\ \A s \in {"irq", "nmi", "be", "ready"} : Pad[s] \in x.latch
           /\ Pad["reset"] \notin x.latch
           /\ x.pins.high \ {"so"} = ResetHigh(r, c)
           /\ x.pins.addr = c.addr /\ x.pins.data = ResetBus(r, c)
<1> DEFINE P == ResetPins(h)
           q == [r EXCEPT !.pins = P]
           x == AfterHalf(q, c)
<1>1. /\ P.high \ {"so"} = {"be", "rw", "irq", "nmi"} /\ P.data = {} /\ P \in PinsObjects
  <2>1. /\ {"be", "rw", "irq", "nmi"} \in SUBSET Signals
        /\ {"be", "rw", "irq", "nmi", "so"} \in SUBSET Signals
    BY DEF Signals
  <2>2. P \in PinsObjects
    BY <2>1, ResetPinsAre DEF Hosts, PinsObjects
  <2>3. P.high \ {"so"} = {"be", "rw", "irq", "nmi"} /\ P.data = {}
    BY ResetPinsAre DEF Hosts
  <2> QED
    BY <2>2, <2>3
<1> HIDE DEF P
<1>2. q \in RunnerRecords
  BY <1>1 DEF RunnerRecords
<1>3. /\ q.pins = P /\ q.phase = r.phase /\ q.latch = r.latch
      /\ SameProgram(r, q) /\ SameMemory(r, q)
  BY DEF SameProgram, SameMemory, RunnerRecords
<1> HIDE DEF q
<1>4. Exchanged(h, q, c) = x
  BY <1>2, HalfCycleIs
<1>5. /\ x \in RunnerRecords /\ SameProgram(q, x) /\ SameMemory(q, x)
      /\ x.latch = Applied(q, c) /\ x.pins = Found(q, c)
  BY <1>2, AfterHalfFields
<1>6. /\ \A s \in Lines : Pad[s] \in Applied(q, c) <=> s \in Asked(q)
      /\ Pad["ready"] \in Applied(q, c)
  BY <1>2, <1>3, AppliedLevels
<1>7. /\ {"irq", "nmi", "be"} \subseteq Asked(q) /\ "reset" \notin Asked(q)
      /\ (Lines \cap Asked(q)) \ {"so"} = {"irq", "nmi", "be"} \cup {s \in {"phi2"} : r.phase}
  BY <1>1, <1>3 DEF Asked, Lines
<1>8. Found(q, c).high \ {"so"} = ResetHigh(r, c)
  <2>1. ChipHigh(c, q.phase) = ChipHigh(c, r.phase) /\ "so" \notin ChipHigh(c, r.phase)
    BY <1>3 DEF ChipHigh, ChipDriven
  <2>2. Found(q, c).high = Held(q) \cup ChipHigh(c, q.phase)
    BY DEF Found
  <2>3. Held(q) = (Lines \cap Asked(q)) \cup {"ready"}
    BY <1>3 DEF Held
  <2> QED
    BY <1>7, <2>1, <2>2, <2>3 DEF ResetHigh
<1>9. Found(q, c).addr = c.addr /\ Found(q, c).data = ResetBus(r, c)
  <2>1. c.kind # "write" => c.data = {}
    BY DEF Outputs
  <2>2. Bus(q, c) = ResetBus(r, c)
    BY <1>1, <1>3, <2>1 DEF Bus, ResetBus
  <2> QED
    BY <2>2 DEF Found
<1>10. SameProgram(r, x) /\ SameMemory(r, x)
  BY <1>3, <1>5 DEF SameProgram, SameMemory
<1>11. /\ \A s \in {"irq", "nmi", "be", "ready"} : Pad[s] \in Applied(q, c)
       /\ Pad["reset"] \notin Applied(q, c)
  BY <1>6, <1>7 DEF Lines
<1> HIDE DEF x
<1> QED
  BY <1>4, <1>5, <1>8, <1>9, <1>10, <1>11 DEF q, P

\* What reset() leaves after each of its half-cycles.
LEMMA ResetStepIs ==
    ASSUME setup \in Setups, NEW h \in Hosts, NEW r \in RunnerRecords, NEW c \in Outputs,
           Pad["ready"] \in r.latch, r.prog = "reset"
    PROVE  LET n == ResetStep(h, r, c) IN
           /\ r.left > 0 => n \in RunnerRecords
           /\ n.phase = ~r.phase /\ n.cycle = IF r.phase THEN r.cycle + 1 ELSE r.cycle
           /\ n.left = r.left - 1 /\ n.prog = IF r.left = 1 THEN "run" ELSE "reset"
           /\ n.step = r.step /\ n.remaining = r.remaining /\ n.due = r.due /\ n.quit = r.quit
           /\ SameMemory(r, n)
           /\ \A s \in {"irq", "nmi", "be", "ready"} : Pad[s] \in n.latch
           /\ Pad["reset"] \notin n.latch
           /\ n.pins.high \ {"so"} = ResetHigh(r, c) \cup {s \in {"reset"} : r.left = 1}
           /\ r.left = 1 => "so" \in n.pins.high
           /\ n.pins.addr = (IF r.left = 1 THEN {} ELSE c.addr)
           /\ n.pins.data = (IF r.left = 1 THEN {} ELSE ResetBus(r, c))
<1> DEFINE x == Exchanged(h, [r EXCEPT !.pins = ResetPins(h)], c)
           a == advance_cycles(x)
           n == ResetStep(h, r, c)
<1>1. /\ x \in RunnerRecords /\ SameProgram(r, x) /\ SameMemory(r, x)
      /\ \A s \in {"irq", "nmi", "be", "ready"} : Pad[s] \in x.latch
      /\ Pad["reset"] \notin x.latch
      /\ x.pins.high \ {"so"} = ResetHigh(r, c)
      /\ x.pins.addr = c.addr /\ x.pins.data = ResetBus(r, c)
  BY ResetHalfCycle
<1>2. n = IF r.left = 1 THEN [Released(a) EXCEPT !.left = 0, !.prog = "run"]
          ELSE [a EXCEPT !.left = @ - 1]
  BY DEF ResetStep
<1> HIDE DEF x
<1>3. /\ a \in RunnerRecords /\ SameBus(x, a)
      /\ a.phase = ~x.phase /\ a.cycle = IF x.phase THEN x.cycle + 1 ELSE x.cycle
      /\ a.prog = x.prog /\ a.step = x.step /\ a.remaining = x.remaining
      /\ a.due = x.due /\ a.quit = x.quit
  BY <1>1, Advances
<1> HIDE DEF a, n
<1>4. /\ a.left = r.left /\ a.prog = "reset" /\ a.pins = x.pins /\ a.latch = x.latch
      /\ a.phase = ~r.phase /\ a.cycle = IF r.phase THEN r.cycle + 1 ELSE r.cycle
      /\ a.step = r.step /\ a.remaining = r.remaining /\ a.due = r.due /\ a.quit = r.quit
      /\ SameMemory(r, a)
  BY <1>1, <1>3 DEF SameBus, SameProgram, SameMemory
<1>5. r.left \in Int /\ a.pins \in PinsObjects
  BY <1>3 DEF RunnerRecords
<1>6. CASE r.left = 1
  <2> DEFINE P == [high |-> a.pins.high \cup {"reset", "ready", "so"}, addr |-> {}, data |-> {}]
             none == 0
             d == [a EXCEPT !.pins = P, !.left = none, !.prog = "run"]
  <2>1. Released(a) = [a EXCEPT !.pins = P]
    BY DEF Released
  <2>2. n = d
    BY <1>2, <1>6, <2>1
  <2>3. P \in PinsObjects
    BY <1>5 DEF PinsObjects, Signals
  <2>4. /\ P.addr = {} /\ P.data = {} /\ "so" \in P.high
        /\ P.high \ {"so"} = (a.pins.high \ {"so"}) \cup {"reset", "ready"}
    OBVIOUS
  <2>10. none \in 0 .. 4
    OBVIOUS
  <2> HIDE DEF P, none
  <2>5. d \in RunnerRecords
    BY <1>3, <2>3, <2>10 DEF RunnerRecords
  <2>6. /\ d.pins = P /\ d.left = none /\ d.prog = "run" /\ d.phase = a.phase /\ d.cycle = a.cycle
        /\ d.step = a.step /\ d.remaining = a.remaining /\ d.due = a.due /\ d.quit = a.quit
        /\ d.latch = a.latch /\ SameMemory(a, d)
    BY <1>3 DEF RunnerRecords, SameMemory
  <2> HIDE DEF d
  <2>7. SameMemory(r, d)
    BY <1>4, <2>6 DEF SameMemory
  <2>8. P.high \ {"so"} = ResetHigh(r, c) \cup {s \in {"reset"} : r.left = 1}
    BY <1>1, <1>4, <1>6, <2>4 DEF ResetHigh
  <2>9. d.left = r.left - 1 /\ d.prog = IF r.left = 1 THEN "run" ELSE "reset"
    BY <1>6, <2>6 DEF none
  <2> QED
    BY <1>1, <1>4, <1>6, <2>2, <2>4, <2>5, <2>6, <2>7, <2>8, <2>9 DEF n
<1>7. CASE r.left # 1
  <2> DEFINE k == r.left - 1
             d == [a EXCEPT !.left = k]
  <2>1. n = d
    BY <1>2, <1>4, <1>7
  <2>2. k \in Int /\ (r.left > 0 => k \in 0 .. 4)
    BY <1>5 DEF RunnerRecords
  <2> HIDE DEF k
  <2>3. r.left > 0 => d \in RunnerRecords
    BY <1>3, <2>2 DEF RunnerRecords
  <2>4. /\ d.pins = a.pins /\ d.left = k /\ d.prog = a.prog /\ d.phase = a.phase /\ d.cycle = a.cycle
        /\ d.step = a.step /\ d.remaining = a.remaining /\ d.due = a.due /\ d.quit = a.quit
        /\ d.latch = a.latch /\ SameMemory(a, d)
    BY <1>3 DEF RunnerRecords, SameMemory
  <2> HIDE DEF d
  <2>5. SameMemory(r, d)
    BY <1>4, <2>4 DEF SameMemory
  <2>6. d.left = r.left - 1 /\ d.prog = IF r.left = 1 THEN "run" ELSE "reset"
    BY <1>4, <1>7, <2>4 DEF k
  <2>7. d.pins.high \ {"so"} = ResetHigh(r, c) \cup {s \in {"reset"} : r.left = 1}
    BY <1>1, <1>4, <1>7, <2>4
  <2> QED
    BY <1>1, <1>4, <1>7, <2>1, <2>3, <2>4, <2>5, <2>6, <2>7 DEF n
<1> QED
  BY <1>6, <1>7

\* ResetStep keeps the invariant.
LEMMA ResetStepKeeps ==
    ASSUME setup \in Setups, NEW h \in Hosts, NEW r, NEW c \in Outputs, RunnerInv(h, r, c),
           r.prog = "reset"
    PROVE  RunnerInv(h, ResetStep(h, r, c), c)
<1> DEFINE n == ResetStep(h, r, c)
<1>1. /\ r \in RunnerRecords /\ r.left \in 1 .. 4 /\ r.cycle \in Nat
      /\ Pad["ready"] \in r.latch /\ Owed(r)
      /\ r.left = 4 - 2 * r.cycle - IF r.phase THEN 1 ELSE 0
  BY DEF RunnerInv, Counted, Latched, RunnerRecords
<1>2. /\ n \in RunnerRecords
      /\ n.phase = ~r.phase /\ n.cycle = IF r.phase THEN r.cycle + 1 ELSE r.cycle
      /\ n.left = r.left - 1 /\ n.prog = IF r.left = 1 THEN "run" ELSE "reset"
      /\ n.step = r.step /\ n.remaining = r.remaining /\ n.due = r.due /\ n.quit = r.quit
      /\ SameMemory(r, n)
      /\ \A s \in {"irq", "nmi", "be", "ready"} : Pad[s] \in n.latch
      /\ Pad["reset"] \notin n.latch
      /\ n.pins.high \ {"so"} = ResetHigh(r, c) \cup {s \in {"reset"} : r.left = 1}
      /\ r.left = 1 => "so" \in n.pins.high
  BY <1>1, ResetStepIs
<1> HIDE DEF n
<1>3. /\ n.phase <=> ~r.phase
      /\ n.cycle = IF r.phase THEN r.cycle + 1 ELSE r.cycle
      /\ n.left = r.left - 1 /\ n.prog = IF r.left = 1 THEN "run" ELSE "reset"
  BY <1>2
<1>11. /\ r.left \in 1 .. 4 /\ r.cycle \in Nat
       /\ r.left = 4 - 2 * r.cycle - IF r.phase THEN 1 ELSE 0
  BY <1>1
<1>4. Counted(h, n)
  <2>1. MaxCycle \in Nat /\ MaxCycle >= 2 /\ (MAX_CYCLES # 0 => MAX_CYCLES \in Nat /\ MAX_CYCLES >= 2)
    BY RunnersAssumption
  <2>2. CASE r.phase
    <3>1. r.left = 3 - 2 * r.cycle
      BY <1>11, <2>2
    <3>2. (r.left = 1 /\ r.cycle = 1) \/ (r.left = 3 /\ r.cycle = 0)
      BY <1>11, <3>1
    <3>3. n.cycle = r.cycle + 1 /\ n.left = r.left - 1 /\ ~n.phase
      BY <1>3, <2>2
    <3>4. CASE r.left = 1 /\ r.cycle = 1
      BY <1>3, <2>1, <3>3, <3>4 DEF Counted
    <3>5. CASE r.left = 3 /\ r.cycle = 0
      BY <1>3, <2>1, <3>3, <3>5 DEF Counted
    <3> QED
      BY <3>2, <3>4, <3>5
  <2>3. CASE ~r.phase
    <3>1. r.left = 4 - 2 * r.cycle
      BY <1>11, <2>3
    <3>2. (r.left = 2 /\ r.cycle = 1) \/ (r.left = 4 /\ r.cycle = 0)
      BY <1>11, <3>1
    <3>3. n.cycle = r.cycle /\ n.left = r.left - 1 /\ n.phase
      BY <1>3, <2>3
    <3>4. CASE r.left = 2 /\ r.cycle = 1
      BY <1>3, <2>1, <3>3, <3>4 DEF Counted
    <3>5. CASE r.left = 4 /\ r.cycle = 0
      BY <1>3, <2>1, <3>3, <3>5 DEF Counted
    <3> QED
      BY <3>2, <3>4, <3>5
  <2> QED
    BY <2>2, <2>3
<1>5. Latched(n)
  <2>1. n.prog = "run" => r.left = 1
    BY <1>2
  <2>2. r.left = 1 => Released6 \subseteq n.pins.high
    BY <1>2 DEF ResetHigh, Released6
  <2> QED
    BY <1>2, <2>1, <2>2 DEF Latched
<1>6. n.prog = "run" => ~n.phase /\ n.cycle = 2
  BY <1>1, <1>2, <1>3
<1>7. Shown(n, c) /\ MidCycle(n, c)
  BY <1>6 DEF Shown, Stepping, MidCycle
<1>8. OneMemory(n)
  BY <1>2 DEF OneMemory, SameMemory, RunnerInv
<1>9. Owed(n)
  BY <1>1, <1>2 DEF Owed
<1>10. EndsOnBrk(h, n)
  <2>1. n.prog # "done"
    BY <1>2
  <2>2. ~Brk(n)
    <3>1. r.op = NoCycle
      BY DEF RunnerInv, EndsOnBrk
    <3> QED
      BY <1>2, <3>1 DEF SameMemory, Brk, NoCycle
  <2>3. n.op = NoCycle
    BY <1>2 DEF SameMemory, RunnerInv, EndsOnBrk
  <2> QED
    BY <2>1, <2>2, <2>3 DEF EndsOnBrk
<1> QED
  BY <1>2, <1>4, <1>5, <1>7, <1>8, <1>9, <1>10 DEF RunnerInv, n

-----------------------------------------------------------------------------
\* What the two programs agree on, as long as neither has ended.
Alike(r, q) ==
    /\ r.prog = q.prog /\ r.phase = q.phase /\ r.cycle = q.cycle
    /\ r.addr = q.addr /\ r.write = q.write /\ r.mem = q.mem
    /\ r.step = q.step /\ r.remaining = q.remaining
    /\ r.pins.addr = q.pins.addr /\ r.pins.data = q.pins.data
    /\ r.pins.high \ {"so"} = q.pins.high \ {"so"}
    /\ r.prog # "reset" => r.pins.high = q.pins.high

\* maybe_pause looks at nothing but the count.
NewStep(step, remaining, cmd) == step /\ (remaining > 0 \/ cmd[1] # "continue")
NewCount(step, remaining, cmd) ==
    IF ~step THEN remaining ELSE IF remaining > 0 THEN remaining - 1
    ELSE IF cmd[1] = "run" THEN cmd[2] - 1 ELSE remaining

\* What maybe_pause does to mode and counter depends on nothing else.
LEMMA PausedCount ==
    ASSUME NEW r \in RunnerRecords, r.remaining \in 0 .. MaxSteps - 1,
           NEW cmd \in Commands, Prompts(r) => cmd[1] # "none"
    PROVE  /\ Paused(r, cmd).step = NewStep(r.step, r.remaining, cmd)
           /\ Paused(r, cmd).remaining = NewCount(r.step, r.remaining, cmd)
<1> DEFINE p == Paused(r, cmd)
           s == NewStep(r.step, r.remaining, cmd)
           n == NewCount(r.step, r.remaining, cmd)
<1>1. /\ cmd[1] \in {"none", "next", "run", "continue", "quit"}
      /\ r.remaining \in Int /\ r.remaining >= 0 /\ r.step \in BOOLEAN
  BY CommandType, RunnersAssumption DEF RunnerRecords
<1>2. CASE ~r.step
  <2>1. p = r
    BY <1>2 DEF Paused
  <2>2. s = r.step /\ n = r.remaining
    BY <1>1, <1>2 DEF NewStep, NewCount
  <2> QED
    BY <2>1, <2>2
<1>3. CASE r.step /\ r.remaining > 0
  <2>1. p = [r EXCEPT !.remaining = r.remaining - 1]
    BY <1>3 DEF Paused
  <2>2. p.step = r.step /\ p.remaining = r.remaining - 1
    BY <2>1 DEF RunnerRecords
  <2>3. s = r.step /\ n = r.remaining - 1
    BY <1>1, <1>3 DEF NewStep, NewCount
  <2> QED
    BY <2>2, <2>3
<1>4. CASE r.step /\ ~(r.remaining > 0) /\ cmd[1] = "next"
  <2>1. p = [r EXCEPT !.due = 1]
    BY <1>4 DEF Paused
  <2>2. p.step = r.step /\ p.remaining = r.remaining
    BY <2>1 DEF RunnerRecords
  <2>3. s = r.step /\ n = r.remaining
    BY <1>1, <1>4 DEF NewStep, NewCount
  <2> QED
    BY <2>2, <2>3
<1>5. CASE r.step /\ ~(r.remaining > 0) /\ cmd[1] = "run"
  <2>1. p = [r EXCEPT !.remaining = cmd[2] - 1, !.due = cmd[2]]
    BY <1>5 DEF Paused
  <2>2. p.step = r.step /\ p.remaining = cmd[2] - 1
    BY <2>1 DEF RunnerRecords
  <2>3. s = r.step /\ n = cmd[2] - 1
    BY <1>1, <1>5 DEF NewStep, NewCount
  <2> QED
    BY <2>2, <2>3
<1>6. CASE r.step /\ ~(r.remaining > 0) /\ cmd[1] = "continue"
  <2> DEFINE off == FALSE
  <2>1. p = [r EXCEPT !.step = off, !.due = 0]
    BY <1>6 DEF Paused
  <2>2. s = off /\ n = r.remaining
    BY <1>1, <1>6 DEF NewStep, NewCount
  <2> HIDE DEF off
  <2>3. p.step = off /\ p.remaining = r.remaining
    BY <2>1 DEF RunnerRecords
  <2> QED
    BY <2>2, <2>3
<1>7. CASE r.step /\ ~(r.remaining > 0) /\ cmd[1] = "quit"
  <2>1. p = [r EXCEPT !.prog = "done", !.quit = TRUE]
    BY <1>7 DEF Paused
  <2>2. p.step = r.step /\ p.remaining = r.remaining
    BY <2>1 DEF RunnerRecords
  <2>3. s = r.step /\ n = r.remaining
    BY <1>1, <1>7 DEF NewStep, NewCount
  <2> QED
    BY <2>2, <2>3
<1> QED
  BY <1>1, <1>2, <1>3, <1>4, <1>5, <1>6, <1>7 DEF Prompts

\* Nor does printing.
LEMMA ReportedCount ==
    ASSUME NEW r \in RunnerRecords, Owed(r), NEW cmd \in Commands, Prompts(r) => cmd[1] # "none"
    PROVE  /\ Reported(r, cmd).step = NewStep(r.step, r.remaining, cmd)
           /\ Reported(r, cmd).remaining = NewCount(r.step, r.remaining, cmd)
<1> DEFINE p == print_state(r)
<1>1. p \in RunnerRecords /\ p.step = r.step /\ p.remaining = r.remaining
  BY PrintFields
<1>2. Reported(r, cmd) = Paused(p, cmd)
  BY DEF Reported
<1> HIDE DEF p
<1>3. p.remaining \in 0 .. MaxSteps - 1 /\ (Prompts(p) => cmd[1] # "none")
  BY <1>1 DEF Owed, Prompts
<1>4. /\ Paused(p, cmd).step = NewStep(p.step, p.remaining, cmd)
      /\ Paused(p, cmd).remaining = NewCount(p.step, p.remaining, cmd)
  BY <1>1, <1>3, PausedCount
<1> QED
  BY <1>1, <1>2, <1>4

\* The end of step() does not touch the count.
LEMMA NextStepCount ==
    ASSUME NEW h \in Hosts, NEW p \in RunnerRecords
    PROVE  /\ Next_step(h, p).step = p.step /\ Next_step(h, p).remaining = p.remaining
<1> DEFINE a == advance_cycles(p)
<1>1. a \in RunnerRecords /\ a.step = p.step /\ a.remaining = p.remaining
  BY Advances
<1>2. Next_step(h, p) \in {p, a, [a EXCEPT !.prog = "done"]}
  BY DEF Next_step
<1> HIDE DEF a
<1>3. /\ [a EXCEPT !.prog = "done"].step = a.step
      /\ [a EXCEPT !.prog = "done"].remaining = a.remaining
  BY <1>1 DEF RunnerRecords
<1> QED
  BY <1>1, <1>2, <1>3

\* Two runners that are alike before maybe_pause are alike after step(), if
\* neither has ended.
LEMMA EndsAlike ==
    ASSUME NEW g \in Hosts, NEW h \in Hosts, NEW y \in RunnerRecords, NEW z \in RunnerRecords,
           Alike(y, z), y.prog = "run", Owed(y), Owed(z),
           NEW cmd \in Commands, Prompts(y) => cmd[1] # "none",
           NEW p, NEW q, (p = Reported(y, cmd) /\ q = Reported(z, cmd)) \/ (p = y /\ q = z),
           Next_step(g, p).prog # "done", Next_step(h, q).prog # "done"
    PROVE  Alike(Next_step(g, p), Next_step(h, q))
<1> DEFINE m == Next_step(g, p)
           n == Next_step(h, q)
<1>1. z.prog = "run" /\ (Prompts(z) => cmd[1] # "none")
  BY DEF Alike, Prompts
<1>2. AfterPause(y, p) /\ AfterPause(z, q)
  <2>1. AfterPause(y, y) /\ AfterPause(z, z)
    BY <1>1 DEF AfterPause, SameBus
  <2>2. AfterPause(y, Reported(y, cmd)) /\ AfterPause(z, Reported(z, cmd))
    BY <1>1, ReportedKeepsCount
  <2> QED
    BY <2>1, <2>2
<1>3. p.step = q.step /\ p.remaining = q.remaining
  <2>1. y.step = z.step /\ y.remaining = z.remaining
    BY DEF Alike
  <2>2. /\ Reported(y, cmd).step = NewStep(y.step, y.remaining, cmd)
        /\ Reported(y, cmd).remaining = NewCount(y.step, y.remaining, cmd)
    BY ReportedCount
  <2>3. /\ Reported(z, cmd).step = NewStep(z.step, z.remaining, cmd)
        /\ Reported(z, cmd).remaining = NewCount(z.step, z.remaining, cmd)
    BY <1>1, ReportedCount
  <2> QED
    BY <2>1, <2>2, <2>3
<1>4. /\ m.step = p.step /\ m.remaining = p.remaining
      /\ n.step = q.step /\ n.remaining = q.remaining
  BY <1>2, NextStepCount DEF AfterPause
<1>5. AfterStep(g, y, m) /\ AfterStep(h, z, n)
  BY <1>2, StepEnds
<1>6. m.prog # "done" /\ n.prog # "done"
  OBVIOUS
<1> HIDE DEF m, n
<1>7. /\ SameBus(y, m) /\ m.prog = "run" /\ (m.phase <=> ~y.phase)
      /\ m.cycle = IF y.phase THEN y.cycle + 1 ELSE y.cycle
      /\ m \in RunnerRecords
  BY <1>5, <1>6 DEF AfterStep
<1>8. /\ SameBus(z, n) /\ n.prog = "run" /\ (n.phase <=> ~z.phase)
      /\ n.cycle = IF z.phase THEN z.cycle + 1 ELSE z.cycle
      /\ n \in RunnerRecords
  BY <1>5, <1>6 DEF AfterStep
<1>9. m.phase = n.phase /\ m.cycle = n.cycle
  BY <1>7, <1>8 DEF Alike, RunnerRecords
<1>10. /\ m.pins = y.pins /\ m.addr = y.addr /\ m.write = y.write /\ m.mem = y.mem
       /\ n.pins = z.pins /\ n.addr = z.addr /\ n.write = z.write /\ n.mem = z.mem
  BY <1>7, <1>8 DEF SameBus
<1>11. y.pins.high = z.pins.high
  BY DEF Alike
<1> QED
  BY <1>3, <1>4, <1>7, <1>8, <1>9, <1>10, <1>11 DEF Alike, m, n

\* A half-cycle of reset() keeps two programs alike.
LEMMA ResetAlike ==
    ASSUME setup \in Setups, NEW g \in Hosts, NEW h \in Hosts, NEW r, NEW q, NEW c \in Outputs,
           RunnerInv(g, r, c), RunnerInv(h, q, c), r.prog = "reset", Alike(r, q)
    PROVE  Alike(ResetStep(g, r, c), ResetStep(h, q, c))
<1> DEFINE m == ResetStep(g, r, c)
           n == ResetStep(h, q, c)
<1>1. /\ r \in RunnerRecords /\ Pad["ready"] \in r.latch
      /\ q \in RunnerRecords /\ Pad["ready"] \in q.latch /\ q.prog = "reset"
      /\ r.left > 0
      /\ r.left = q.left
  BY DEF RunnerInv, Latched, Counted, Alike
<1>2. /\ m.phase = ~r.phase /\ m.cycle = IF r.phase THEN r.cycle + 1 ELSE r.cycle
      /\ m.prog = IF r.left = 1 THEN "run" ELSE "reset"
      /\ m.step = r.step /\ m.remaining = r.remaining
      /\ SameMemory(r, m)
      /\ m.pins.high \ {"so"} = ResetHigh(r, c) \cup {s \in {"reset"} : r.left = 1}
      /\ r.left = 1 => "so" \in m.pins.high
      /\ m.pins.addr = (IF r.left = 1 THEN {} ELSE c.addr)
      /\ m.pins.data = (IF r.left = 1 THEN {} ELSE ResetBus(r, c))
  BY <1>1, ResetStepIs
<1>3. /\ n.phase = ~q.phase /\ n.cycle = IF q.phase THEN q.cycle + 1 ELSE q.cycle
      /\ n.prog = IF q.left = 1 THEN "run" ELSE "reset"
      /\ n.step = q.step /\ n.remaining = q.remaining
      /\ SameMemory(q, n)
      /\ n.pins.high \ {"so"} = ResetHigh(q, c) \cup {s \in {"reset"} : q.left = 1}
      /\ q.left = 1 => "so" \in n.pins.high
      /\ n.pins.addr = (IF q.left = 1 THEN {} ELSE c.addr)
      /\ n.pins.data = (IF q.left = 1 THEN {} ELSE ResetBus(q, c))
  BY <1>1, ResetStepIs
<1> HIDE DEF m, n
<1>4. ResetHigh(r, c) = ResetHigh(q, c) /\ ResetBus(r, c) = ResetBus(q, c)
  BY DEF ResetHigh, ResetBus, Alike
<1>5. m.phase = n.phase /\ m.cycle = n.cycle /\ m.prog = n.prog
  BY <1>1, <1>2, <1>3 DEF Alike
<1>6. m.step = n.step /\ m.remaining = n.remaining
  BY <1>2, <1>3 DEF Alike
<1>7. m.addr = n.addr /\ m.write = n.write /\ m.mem = n.mem
  BY <1>2, <1>3 DEF Alike, SameMemory
<1>8. m.pins.addr = n.pins.addr /\ m.pins.data = n.pins.data
  BY <1>1, <1>2, <1>3, <1>4
<1>9. m.pins.high \ {"so"} = n.pins.high \ {"so"}
  BY <1>1, <1>2, <1>3, <1>4
<1>10. m.prog # "reset" => m.pins.high = n.pins.high
  <2>1. m.prog # "reset" => "so" \in m.pins.high /\ "so" \in n.pins.high
    BY <1>1, <1>2, <1>3
  <2> QED
    BY <1>9, <2>1
<1> QED
  BY <1>5, <1>6, <1>7, <1>8, <1>9, <1>10 DEF Alike, m, n

\* So does the first half of a cycle.
LEMMA LowAlike ==
    ASSUME setup \in Setups, NEW g \in Hosts, NEW h \in Hosts, NEW r, NEW q, NEW o,
           RunnerInv(g, r, o), RunnerInv(h, q, o), r.prog = "run", ~r.phase, Alike(r, q),
           NEW c \in Outputs, NEW cmd \in Commands, Prompts(r) => cmd[1] # "none",
           LowStep(g, r, c, cmd).prog # "done", LowStep(h, q, c, cmd).prog # "done"
    PROVE  Alike(LowStep(g, r, c, cmd), LowStep(h, q, c, cmd))
<1> DEFINE y == LowDone(r, c)
           z == LowDone(q, c)
<1>1. /\ r \in RunnerRecords /\ Released6 \subseteq r.pins.high /\ Pad["ready"] \in r.latch /\ Owed(r)
      /\ q \in RunnerRecords /\ Released6 \subseteq q.pins.high /\ Pad["ready"] \in q.latch /\ Owed(q)
      /\ q.prog = "run" /\ ~q.phase
  BY DEF RunnerInv, Latched, Alike
<1>2. /\ y \in RunnerRecords /\ SameProgram(r, y) /\ y.mem = r.mem
      /\ y.addr = c.addr /\ (y.write <=> c.kind = "write")
      /\ y.pins.high = Found(r, c).high /\ y.pins.addr = c.addr
      /\ ~y.write => y.pins.data = r.mem[c.addr]
      /\ y.write => y.pins.data = setup.float
  BY <1>1, LowDoneFields
<1>3. /\ z \in RunnerRecords /\ SameProgram(q, z) /\ z.mem = q.mem
      /\ z.addr = c.addr /\ (z.write <=> c.kind = "write")
      /\ z.pins.high = Found(q, c).high /\ z.pins.addr = c.addr
      /\ ~z.write => z.pins.data = q.mem[c.addr]
      /\ z.write => z.pins.data = setup.float
  BY <1>1, LowDoneFields
<1>4. Found(r, c).high = Found(q, c).high
  <2>1. /\ Found(r, c).high = Released6 \cup {s \in {"phi2"} : r.phase} \cup ChipHigh(c, r.phase)
        /\ Found(q, c).high = Released6 \cup {s \in {"phi2"} : q.phase} \cup ChipHigh(c, q.phase)
    BY <1>1, StaysReleased
  <2>2. r.phase = q.phase
    BY DEF Alike
  <2> QED
    BY <2>1, <2>2
<1>5. /\ LowStep(g, r, c, cmd) = Next_step(g, LowReport(y, cmd))
      /\ LowStep(h, q, c, cmd) = Next_step(h, LowReport(z, cmd))
  BY <1>1, LowStepIs
<1> HIDE DEF y, z
<1>6. /\ y.prog = "run" /\ y.phase = z.phase /\ y.cycle = z.cycle /\ z.prog = "run"
      /\ y.step = z.step /\ y.remaining = z.remaining
      /\ Owed(y) /\ Owed(z) /\ (Prompts(y) => cmd[1] # "none")
  BY <1>1, <1>2, <1>3 DEF SameProgram, Alike, Owed, Prompts
<1>7. y.write = z.write /\ y.mem = z.mem /\ y.pins.data = z.pins.data
  <2>1. y.write = z.write
    BY <1>2, <1>3 DEF RunnerRecords
  <2> QED
    BY <1>2, <1>3, <2>1 DEF Alike
<1>8. Alike(y, z)
  BY <1>2, <1>3, <1>4, <1>6, <1>7 DEF Alike
<1> DEFINE p == LowReport(y, cmd)
           w == LowReport(z, cmd)
<1>9. (p = Reported(y, cmd) /\ w = Reported(z, cmd)) \/ (p = y /\ w = z)
  BY DEF LowReport
<1>10. /\ LowStep(g, r, c, cmd) = Next_step(g, p) /\ LowStep(h, q, c, cmd) = Next_step(h, w)
  BY <1>5
<1>11. y \in RunnerRecords /\ z \in RunnerRecords
  BY <1>2, <1>3
<1> HIDE DEF p, w
<1>12. Next_step(g, p).prog # "done" /\ Next_step(h, w).prog # "done"
  BY <1>10
<1>13. Alike(Next_step(g, p), Next_step(h, w))
  BY <1>6, <1>8, <1>9, <1>11, <1>12, EndsAlike
<1> QED
  BY <1>10, <1>13

\* And the second.
LEMMA HighAlike ==
    ASSUME setup \in Setups, NEW g \in Hosts, NEW h \in Hosts, NEW r, NEW q, NEW c \in Outputs,
           RunnerInv(g, r, c), RunnerInv(h, q, c), r.prog = "run", r.phase, Alike(r, q),
           NEW cmd \in Commands, Prompts(r) => cmd[1] # "none",
           HighStep(g, r, c, cmd).prog # "done", HighStep(h, q, c, cmd).prog # "done"
    PROVE  Alike(HighStep(g, r, c, cmd), HighStep(h, q, c, cmd))
<1> DEFINE y == HighDone(r, c)
           z == HighDone(q, c)
<1>1. /\ r \in RunnerRecords /\ Released6 \subseteq r.pins.high /\ Pad["ready"] \in r.latch /\ Owed(r)
      /\ q \in RunnerRecords /\ Released6 \subseteq q.pins.high /\ Pad["ready"] \in q.latch /\ Owed(q)
      /\ q.prog = "run" /\ q.phase
      /\ MidCycle(r, c) /\ OneMemory(r) /\ MidCycle(q, c) /\ OneMemory(q)
  BY DEF RunnerInv, Latched, Alike
<1>2. /\ y \in RunnerRecords /\ SameProgram(r, y) /\ y.addr = c.addr
      /\ y.write = r.write /\ y.mem = Stored(r.mem, r.write, r.addr, Bus(r, c))
      /\ y.pins.data = Bus(r, c)
      /\ y.pins.high = Found(r, c).high /\ y.pins.addr = c.addr
  BY <1>1, HighDoneFields
<1>3. /\ z \in RunnerRecords /\ SameProgram(q, z) /\ z.addr = c.addr
      /\ z.write = q.write /\ z.mem = Stored(q.mem, q.write, q.addr, Bus(q, c))
      /\ z.pins.data = Bus(q, c)
      /\ z.pins.high = Found(q, c).high /\ z.pins.addr = c.addr
  BY <1>1, HighDoneFields
<1>4. Found(r, c).high = Found(q, c).high
  <2>1. /\ Found(r, c).high = Released6 \cup {s \in {"phi2"} : r.phase} \cup ChipHigh(c, r.phase)
        /\ Found(q, c).high = Released6 \cup {s \in {"phi2"} : q.phase} \cup ChipHigh(c, q.phase)
    BY <1>1, StaysReleased
  <2>2. r.phase = q.phase
    BY DEF Alike
  <2> QED
    BY <2>1, <2>2
<1>5. Bus(r, c) = Bus(q, c)
  BY DEF Alike, Bus
<1>6. /\ HighStep(g, r, c, cmd) = IF BrkFetched(g, y) THEN [print_state(y) EXCEPT !.prog = "done"]
                                  ELSE Next_step(g, Reported(y, cmd))
      /\ HighStep(h, q, c, cmd) = IF BrkFetched(h, z) THEN [print_state(z) EXCEPT !.prog = "done"]
                                  ELSE Next_step(h, Reported(z, cmd))
  BY <1>1, HighStepIs
<1> HIDE DEF y, z
<1>7. /\ y.prog = "run" /\ y.phase = z.phase /\ y.cycle = z.cycle /\ z.prog = "run"
      /\ y.step = z.step /\ y.remaining = z.remaining
      /\ Owed(y) /\ Owed(z) /\ (Prompts(y) => cmd[1] # "none")
  BY <1>1, <1>2, <1>3 DEF SameProgram, Alike, Owed, Prompts
<1>8. Alike(y, z)
  BY <1>2, <1>3, <1>4, <1>5, <1>7 DEF Alike
<1>9. /\ [print_state(y) EXCEPT !.prog = "done"].prog = "done"
      /\ [print_state(z) EXCEPT !.prog = "done"].prog = "done"
  BY <1>2, <1>3, PrintFields DEF RunnerRecords
<1>10. /\ HighStep(g, r, c, cmd) = Next_step(g, Reported(y, cmd))
       /\ HighStep(h, q, c, cmd) = Next_step(h, Reported(z, cmd))
  BY <1>6, <1>9
<1>11. y \in RunnerRecords /\ z \in RunnerRecords
  BY <1>2, <1>3
<1>12. Next_step(g, Reported(y, cmd)).prog # "done" /\ Next_step(h, Reported(z, cmd)).prog # "done"
  BY <1>10
<1>13. Alike(Next_step(g, Reported(y, cmd)), Next_step(h, Reported(z, cmd)))
  BY <1>7, <1>8, <1>11, <1>12, EndsAlike
<1> QED
  BY <1>10, <1>13

-----------------------------------------------------------------------------
(* Both programs.                                                          *)

IInv ==
    /\ setup \in Setups /\ chip \in Outputs
    /\ \A h \in Hosts : RunnerInv(h, runner[h], chip)
    /\ \A g, h \in Hosts : runner[g].prog = "reset" => runner[h].prog = "reset"
    /\ (\A h \in Hosts : runner[h].prog # "done") => Alike(runner["cpp"], runner["rust"])

\* The Teensy pins whose signal is driven by the Teensy.
LEMMA InputIsLatch ==
    ASSUME NEW r, NEW s \in Signals
    PROVE  Input(r, s) <=> Pad[s] \in r.latch
  BY WiresMeet DEF Input

\* A program that has just opened the port.
LEMMA StartedInv ==
    ASSUME setup \in Setups, NEW h \in Hosts, NEW c \in Outputs,
           NEW mem \in [setup.addr -> setup.data]
    PROVE  RunnerInv(h, Started(mem), c)
<1> DEFINE r == Started(mem)
           L == WireOf({"ready", "irq", "nmi", "be", "so", "reset"})
           P == [high |-> {}, addr |-> {}, data |-> {}]
           D == decode_sample([b \in 0 .. 4 |-> {}])
           due == IF setup.step THEN 1 ELSE 0
<1>1. L = {Pad[s] : s \in {"ready", "irq", "nmi", "be", "so", "reset"}} /\ L \in SUBSET Int
  <2>1. L = {Pad[s] : s \in {"ready", "irq", "nmi", "be", "so", "reset"}}
    BY WiresMeet DEF WireOf, Signals
  <2>2. \A s \in Signals : Pad[s] \in Int
    BY PadsApart DEF SignalPads
  <2> QED
    BY <2>1, <2>2 DEF Signals
<1>2. P \in PinsObjects
  BY DEF PinsObjects
<1>3. D \in Samples
  <2> DEFINE b == [k \in 0 .. 4 |-> {}]
  <2>1. /\ {i \in 0 .. 11 : payload_bit(b, 8 + i)} \cup {12 + i : i \in {j \in 0 .. 3 : payload_bit(b, 21 + j)}}
             \in SUBSET (0 .. 15)
        /\ {7 - i : i \in {j \in 0 .. 7 : payload_bit(b, 25 + j)}} \in SUBSET (0 .. 7)
        /\ {s \in DOMAIN DISP : payload_bit(b, DISP[s])} \in SUBSET Signals
    BY DEF DISP, Signals
  <2> HIDE DEF b
  <2>2. decode_sample(b) \in Samples
    BY <2>1 DEF decode_sample, Samples
  <2> QED
    BY <2>2 DEF b
<1>4. NoCycle \in Ops /\ NoCycle.kind = "none"
  BY DEF NoCycle, Ops
<1>5. setup.step \in BOOLEAN /\ due \in Int
  BY SetupData
<1>6. r = [prog |-> "reset", left |-> 4, phase |-> FALSE, cycle |-> 0,
           pins |-> P, addr |-> {}, write |-> FALSE, mem |-> mem,
           step |-> setup.step, remaining |-> 0, latch |-> L, out |-> FALSE,
           panel |-> D, op |-> NoCycle, chipMem |-> mem, due |-> due, quit |-> FALSE]
  BY DEF Started
<1> HIDE DEF P, L, D, due, r
<1>7. r \in RunnerRecords
  BY <1>1, <1>2, <1>3, <1>4, <1>5, <1>6 DEF RunnerRecords
<1>8. /\ r.prog = "reset" /\ r.left = 4 /\ ~r.phase /\ r.cycle = 0 /\ r.mem = mem
      /\ r.addr = {} /\ r.step = setup.step /\ r.remaining = 0 /\ r.latch = L
      /\ r.op = NoCycle /\ r.chipMem = mem /\ r.due = due
  BY <1>6
<1>9. Counted(h, r)
  BY <1>8, RunnersAssumption DEF Counted
<1>10. Latched(r)
  BY <1>1, <1>8 DEF Latched
<1>11. Shown(r, c) /\ MidCycle(r, c)
  BY <1>8 DEF Shown, Stepping, MidCycle
<1>12. OneMemory(r) /\ EndsOnBrk(h, r)
  BY <1>4, <1>8 DEF OneMemory, EndsOnBrk, Brk, Kinds
<1>13. Owed(r)
  <2>1. 0 \in 0 .. MaxSteps - 1
    BY RunnersAssumption
  <2> QED
    BY <1>5, <1>8, <2>1 DEF Owed, due
<1> QED
  BY <1>7, <1>9, <1>10, <1>11, <1>12, <1>13 DEF RunnerInv, r

\* And so have both.
LEMMA InitInv == Init => IInv
<1> SUFFICES ASSUME Init PROVE IInv
  OBVIOUS
<1>1. setup \in Setups /\ chip \in Outputs
  BY DEF Init
<1>2. PICK mem \in [setup.addr -> setup.data] : runner = [h \in Hosts |-> Started(mem)]
  BY DEF Init
<1>3. \A h \in Hosts : runner[h] = Started(mem)
  BY <1>2
<1>4. \A h \in Hosts : RunnerInv(h, runner[h], chip)
  BY <1>1, <1>3, StartedInv
<1>5. Started(mem).prog = "reset"
  BY DEF Started
<1>6. Alike(runner["cpp"], runner["rust"])
  BY <1>3 DEF Alike, Hosts
<1> QED
  BY <1>1, <1>3, <1>4, <1>5, <1>6 DEF IInv

\* A program that has ended does not see what the CPU does.
LEMMA DoneKeeps ==
    ASSUME NEW h, NEW r, NEW c, NEW d, RunnerInv(h, r, c), r.prog = "done"
    PROVE  RunnerInv(h, r, d)
  BY DEF RunnerInv, Shown, Stepping, MidCycle

\* Programs that run are in the same half of the same cycle.
LEMMA InStep ==
    ASSUME IInv, NEW g \in Running, NEW h \in Running
    PROVE  runner[h].phase = runner[g].phase /\ runner[h].cycle = runner[g].cycle
<1>1. CASE g = h
  BY <1>1
<1>2. CASE g # h
  <2>1. Alike(runner["cpp"], runner["rust"]) /\ {g, h} = {"cpp", "rust"}
    BY <1>2 DEF Running, Hosts, IInv
  <2> QED
    BY <2>1 DEF Alike
<1> QED
  BY <1>1, <1>2

\* reset() keeps the invariant.
LEMMA ResetHalfKeeps == IInv /\ ResetHalf => IInv'
<1> SUFFICES ASSUME IInv, ResetHalf PROVE IInv'
  OBVIOUS
<1>1. /\ setup' = setup /\ chip' = chip /\ setup \in Setups /\ chip \in Outputs
      /\ \A h \in Hosts : runner[h].prog = "reset" /\ RunnerInv(h, runner[h], chip)
      /\ \A h \in Hosts : runner'[h] = ResetStep(h, runner[h], chip)
  BY DEF IInv, ResetHalf
<1>2. ASSUME NEW h \in Hosts PROVE RunnerInv(h, runner[h], chip)'
  <2>1. RunnerInv(h, ResetStep(h, runner[h], chip), chip)
    BY <1>1, ResetStepKeeps
  <2>2. RunnerInv(h, runner'[h], chip)
    BY <1>1, <2>1
  <2> QED
    BY <1>1, <2>2 DEF RunnerInv, RunnerRecords, OneMemory
<1>3. Alike(runner'["cpp"], runner'["rust"])
  BY <1>1, ResetAlike DEF IInv, Hosts
<1>4. \A g, h \in Hosts : runner'[g].prog = runner'[h].prog
  BY <1>3 DEF Alike, Hosts
<1>5. (setup \in Setups /\ chip \in Outputs)'
  BY <1>1 DEF Outputs
<1> QED
  BY <1>2, <1>3, <1>4, <1>5 DEF IInv

\* The first half of a cycle keeps the invariant.
LEMMA LowHalfKeeps == IInv /\ LowHalf => IInv'
<1> SUFFICES ASSUME IInv, LowHalf PROVE IInv'
  OBVIOUS
<1>1. PICK cmd \in Commands :
        runner' = [h \in Hosts |-> IF h \in Running THEN LowStep(h, runner[h], chip', cmd)
                                   ELSE runner[h]]
  BY DEF LowHalf
<1>2. /\ setup' = setup /\ setup \in Setups /\ chip' \in Outputs
      /\ \A h \in Hosts : RunnerInv(h, runner[h], chip)
  BY DEF IInv, LowHalf
<1>3. PICK g \in Running : ~runner[g].phase /\ runner[g].cycle < MaxCycle
  BY DEF LowHalf
<1>4. \A h \in Running : ~runner[h].phase /\ runner[h].cycle < MaxCycle
  BY <1>3, InStep
<1>5. \A h \in Running : /\ h \in Hosts /\ runner[h].prog = "run"
                         /\ Prompts(runner[h]) => cmd[1] # "none"
  BY CommandType DEF Running
<1>6. \A h \in Hosts \ Running : runner[h].prog = "done"
  <2>1. ASSUME NEW h \in Hosts \ Running PROVE runner[h].prog = "done"
    <3>1. runner[h].prog \in {"reset", "run", "done"}
      BY <1>2 DEF RunnerInv, RunnerRecords
    <3>2. runner[h].prog # "reset"
      BY <1>3 DEF IInv, Running
    <3> QED
      BY <3>1, <3>2 DEF Running
  <2> QED
    BY <2>1
<1>7. ASSUME NEW h \in Hosts
      PROVE  /\ h \in Running => runner'[h] = LowStep(h, runner[h], chip', cmd)
             /\ h \notin Running => runner'[h] = runner[h]
  BY <1>1
<1>8. ASSUME NEW h \in Hosts
      PROVE  RunnerInv(h, runner'[h], chip') /\ (h \in Running => runner'[h].prog # "reset")
  <2>1. CASE h \in Running
    <3> DEFINE c == chip'
    <3>1. /\ runner[h].prog = "run" /\ ~runner[h].phase /\ runner[h].cycle < MaxCycle
          /\ RunnerInv(h, runner[h], chip) /\ c \in Outputs
          /\ (Prompts(runner[h]) => cmd[1] # "none")
      BY <1>2, <1>4, <1>5, <2>1
    <3> HIDE DEF c
    <3>2. RunnerInv(h, LowStep(h, runner[h], c, cmd), c) /\ LowStep(h, runner[h], c, cmd).prog # "reset"
      BY <1>2, <3>1, LowStepKeeps
    <3> QED
      BY <1>7, <2>1, <3>2 DEF c
  <2>2. CASE h \notin Running
    BY <1>2, <1>6, <1>7, <2>2, DoneKeeps
  <2> QED
    BY <2>1, <2>2
<1>9. ASSUME NEW h \in Hosts PROVE RunnerInv(h, runner[h], chip)'
  BY <1>2, <1>8 DEF RunnerInv, RunnerRecords, OneMemory
<1>10. ASSUME \A h \in Hosts : runner'[h].prog # "done"
       PROVE  Alike(runner'["cpp"], runner'["rust"])
  <2>1. Running = Hosts
    BY <1>6, <1>7, <1>10 DEF Running
  <2>2. Alike(runner["cpp"], runner["rust"])
    BY <2>1 DEF IInv, Running
  <2> DEFINE c == chip'
             r == runner["cpp"]
             q == runner["rust"]
  <2>3. /\ r.prog = "run" /\ ~r.phase /\ Alike(r, q) /\ c \in Outputs
        /\ RunnerInv("cpp", r, chip) /\ RunnerInv("rust", q, chip)
        /\ (Prompts(r) => cmd[1] # "none")
        /\ "cpp" \in Hosts /\ "rust" \in Hosts
    BY <1>2, <1>4, <1>5, <2>1, <2>2 DEF Hosts
  <2>4. /\ runner'["cpp"] = LowStep("cpp", r, c, cmd)
        /\ runner'["rust"] = LowStep("rust", q, c, cmd)
    BY <1>7, <2>1, <2>3
  <2>5. LowStep("cpp", r, c, cmd).prog # "done" /\ LowStep("rust", q, c, cmd).prog # "done"
    BY <1>10, <2>3, <2>4
  <2> HIDE DEF c, r, q
  <2>6. Alike(LowStep("cpp", r, c, cmd), LowStep("rust", q, c, cmd))
    BY <1>2, <2>3, <2>5, LowAlike
  <2> QED
    BY <2>4, <2>6
<1>11. \A h \in Hosts : runner'[h].prog # "reset"
  <2>1. ASSUME NEW h \in Running PROVE runner'[h].prog # "reset"
    BY <1>5, <1>8, <2>1
  <2> QED
    BY <1>6, <1>7, <2>1
<1>12. (setup \in Setups /\ chip \in Outputs)'
  BY <1>2 DEF Outputs
<1> QED
  BY <1>9, <1>10, <1>11, <1>12 DEF IInv

\* So does the second half.
LEMMA HighHalfKeeps == IInv /\ HighHalf => IInv'
<1> SUFFICES ASSUME IInv, HighHalf PROVE IInv'
  OBVIOUS
<1>1. PICK cmd \in Commands :
        runner' = [h \in Hosts |-> IF h \in Running THEN HighStep(h, runner[h], chip, cmd)
                                   ELSE runner[h]]
  BY DEF HighHalf
<1>2. /\ setup' = setup /\ setup \in Setups /\ chip' = chip /\ chip \in Outputs
      /\ \A h \in Hosts : RunnerInv(h, runner[h], chip)
  BY DEF IInv, HighHalf
<1>3. PICK g \in Running : runner[g].phase
  BY DEF HighHalf
<1>4. \A h \in Running : runner[h].phase
  BY <1>3, InStep
<1>5. \A h \in Running : /\ h \in Hosts /\ runner[h].prog = "run"
                         /\ Prompts(runner[h]) => cmd[1] # "none"
  BY CommandType DEF Running
<1>6. \A h \in Hosts \ Running : runner[h].prog = "done"
  <2>1. ASSUME NEW h \in Hosts \ Running PROVE runner[h].prog = "done"
    <3>1. runner[h].prog \in {"reset", "run", "done"}
      BY <1>2 DEF RunnerInv, RunnerRecords
    <3>2. runner[h].prog # "reset"
      BY <1>3 DEF IInv, Running
    <3> QED
      BY <3>1, <3>2 DEF Running
  <2> QED
    BY <2>1
<1>7. ASSUME NEW h \in Hosts
      PROVE  /\ h \in Running => runner'[h] = HighStep(h, runner[h], chip, cmd)
             /\ h \notin Running => runner'[h] = runner[h]
  BY <1>1
<1>8. ASSUME NEW h \in Hosts
      PROVE  RunnerInv(h, runner'[h], chip) /\ (h \in Running => runner'[h].prog # "reset")
  <2>1. CASE h \in Running
    <3>1. /\ runner[h].prog = "run" /\ runner[h].phase
          /\ RunnerInv(h, runner[h], chip)
          /\ (Prompts(runner[h]) => cmd[1] # "none")
      BY <1>2, <1>4, <1>5, <2>1
    <3>2. /\ RunnerInv(h, HighStep(h, runner[h], chip, cmd), chip)
          /\ HighStep(h, runner[h], chip, cmd).prog # "reset"
      BY <1>2, <3>1, HighStepKeeps
    <3> QED
      BY <1>7, <2>1, <3>2
  <2>2. CASE h \notin Running
    BY <1>2, <1>7, <2>2
  <2> QED
    BY <2>1, <2>2
<1>9. ASSUME NEW h \in Hosts PROVE RunnerInv(h, runner[h], chip)'
  BY <1>2, <1>8 DEF RunnerInv, RunnerRecords, OneMemory
<1>10. ASSUME \A h \in Hosts : runner'[h].prog # "done"
       PROVE  Alike(runner'["cpp"], runner'["rust"])
  <2>1. Running = Hosts
    BY <1>6, <1>7, <1>10 DEF Running
  <2>2. Alike(runner["cpp"], runner["rust"])
    BY <2>1 DEF IInv, Running
  <2> DEFINE r == runner["cpp"]
             q == runner["rust"]
  <2>3. /\ r.prog = "run" /\ r.phase /\ Alike(r, q)
        /\ RunnerInv("cpp", r, chip) /\ RunnerInv("rust", q, chip)
        /\ (Prompts(r) => cmd[1] # "none")
        /\ "cpp" \in Hosts /\ "rust" \in Hosts
    BY <1>2, <1>4, <1>5, <2>1, <2>2 DEF Hosts
  <2>4. /\ runner'["cpp"] = HighStep("cpp", r, chip, cmd)
        /\ runner'["rust"] = HighStep("rust", q, chip, cmd)
    BY <1>7, <2>1, <2>3
  <2>5. HighStep("cpp", r, chip, cmd).prog # "done" /\ HighStep("rust", q, chip, cmd).prog # "done"
    BY <1>10, <2>3, <2>4
  <2> HIDE DEF r, q
  <2>6. Alike(HighStep("cpp", r, chip, cmd), HighStep("rust", q, chip, cmd))
    BY <1>2, <2>3, <2>5, HighAlike
  <2> QED
    BY <2>4, <2>6
<1>11. \A h \in Hosts : runner'[h].prog # "reset"
  <2>1. ASSUME NEW h \in Running PROVE runner'[h].prog # "reset"
    BY <1>5, <1>8, <2>1
  <2> QED
    BY <1>6, <1>7, <2>1
<1>12. (setup \in Setups /\ chip \in Outputs)'
  BY <1>2 DEF Outputs
<1> QED
  BY <1>9, <1>10, <1>11, <1>12 DEF IInv

\* The invariant is inductive: what runner.cpp and runner.rs keep between two
\* half-cycles, and what the Teensy drives, follow from the last half-cycle.
THEOREM Inductive == Spec => []IInv
<1>1. IInv /\ [Next]_vars => IInv'
  <2> SUFFICES ASSUME IInv, [Next]_vars PROVE IInv'
    OBVIOUS
  <2>1. CASE ResetHalf
    BY <2>1, ResetHalfKeeps
  <2>2. CASE LowHalf
    BY <2>2, LowHalfKeeps
  <2>3. CASE HighHalf
    BY <2>3, HighHalfKeeps
  <2>4. CASE UNCHANGED vars
    BY <2>4 DEF vars, IInv, Outputs, RunnerInv, RunnerRecords, OneMemory
  <2> QED
    BY <2>1, <2>2, <2>3, <2>4 DEF Next
<1> QED
  BY InitInv, <1>1, PTL DEF Spec

-----------------------------------------------------------------------------
\* Types, and the bounds of the counters of reset(), step() and maybe_pause().
THEOREM Types == Spec => []TypeOK
<1>1. IInv => TypeOK
  <2> SUFFICES ASSUME IInv PROVE TypeOK
    OBVIOUS
  <2>1. ASSUME NEW h \in Hosts
        PROVE  LET r == runner[h] IN
               /\ r.prog \in {"reset", "run", "done"} /\ r.left \in 0 .. 4
               /\ (r.prog = "reset") <=> (r.left > 0)
               /\ r.phase \in BOOLEAN /\ r.cycle \in 0 .. MaxCycle
               /\ r.pins \in PinsObjects /\ r.addr \in setup.addr \cup {{}} /\ r.write \in BOOLEAN
               /\ r.mem \in [setup.addr -> setup.data]
               /\ r.step \in BOOLEAN /\ r.remaining \in 0 .. MaxSteps - 1
    <3> DEFINE r == runner[h]
    <3>1. r \in RunnerRecords /\ Counted(h, r) /\ OneMemory(r) /\ Owed(r)
      BY DEF IInv, RunnerInv
    <3> HIDE DEF r
    <3>2. r.cycle \in 0 .. MaxCycle
      BY <3>1, RunnersAssumption DEF RunnerRecords, Counted
    <3>3. /\ r.prog \in {"reset", "run", "done"} /\ r.left \in 0 .. 4
          /\ r.phase \in BOOLEAN /\ r.pins \in PinsObjects /\ r.write \in BOOLEAN
          /\ r.mem \in [setup.addr -> setup.data] /\ r.step \in BOOLEAN
      BY <3>1 DEF RunnerRecords
    <3>4. ((r.prog = "reset") <=> (r.left > 0)) /\ r.addr \in setup.addr \cup {{}}
          /\ r.remaining \in 0 .. MaxSteps - 1
      BY <3>1 DEF Counted, OneMemory, Owed
    <3> QED
      BY <3>2, <3>3, <3>4 DEF r
  <2> QED
    BY <2>1 DEF IInv, TypeOK
<1> QED
  BY Inductive, <1>1, PTL

\* Whatever words the CPU puts on its pins, through either firmware and either
\* codec the program sees them bit for bit.
THEOREM SignalsArrive == Spec => []HostSeesChip
<1>1. IInv => HostSeesChip
  <2> SUFFICES ASSUME IInv, NEW h \in Hosts, Stepping(runner[h])
               PROVE  /\ runner[h].pins.addr = chip.addr
                      /\ runner[h].pins.high \cap ChipDriven = ChipHigh(chip, ~runner[h].phase)
                      /\ ~runner[h].phase => runner[h].pins.data = runner[h].op.data
    BY DEF HostSeesChip
  <2>1. Shown(runner[h], chip)
    BY DEF IInv, RunnerInv
  <2>2. /\ Released6 \cap ChipDriven = {} /\ "phi2" \notin ChipDriven
        /\ ChipHigh(chip, ~runner[h].phase) \subseteq ChipDriven
    BY DEF Released6, ChipDriven, ChipHigh
  <2> QED
    BY <2>1, <2>2 DEF Shown
<1> QED
  BY Inductive, <1>1, PTL

\* step() sends back the levels it got: the control lines never drift, however
\* often they go round.
THEOREM LinesHeld == Spec => []ControlHeld
<1>1. IInv => ControlHeld
  <2> SUFFICES ASSUME IInv, NEW h \in Hosts
               PROVE  LET r == runner[h] IN
                      /\ \A s \in {"irq", "nmi", "be", "ready"} : Input(r, s)
                      /\ r.left \in 1 .. 3 => ~Input(r, "reset")
                      /\ Stepping(r) => /\ {"reset", "ready"} \subseteq r.pins.high
                                        /\ Input(r, "reset") /\ Input(r, "so")
                                        /\ Input(r, "phi2") <=> ~r.phase
    BY DEF ControlHeld
  <2>1. Shown(runner[h], chip) /\ Latched(runner[h])
    BY DEF IInv, RunnerInv
  <2>2. \A s \in {"irq", "nmi", "be", "ready", "reset", "so", "phi2"} :
          Input(runner[h], s) <=> Pad[s] \in runner[h].latch
    BY InputIsLatch DEF Signals
  <2>3. {"reset", "ready"} \subseteq Released6
    BY DEF Released6
  <2> QED
    BY <2>1, <2>2, <2>3 DEF Shown, Latched
<1> QED
  BY Inductive, <1>1, PTL

\* What step() stores and sends, with read_byte and write_byte, is what the CPU,
\* through all wires and codecs, takes for a memory.
THEOREM RamBehindThePins == Spec => []ChipSeesRam
<1>1. IInv => ChipSeesRam
  BY DEF IInv, RunnerInv, OneMemory, ChipSeesRam
<1> QED
  BY Inductive, <1>1, PTL

\* docs/development-guide-rust.md, "functionally identical": the two programs
\* cannot be told apart, until one ends.
THEOREM FunctionallyIdentical == Spec => []Twins
<1>1. IInv => Twins
  BY DEF IInv, Alike, Twins
<1> QED
  BY Inductive, <1>1, PTL

\* What decode_sample shows on the panel is what the program knows.
THEOREM PanelShowsPins == Spec => []PanelAgrees
<1>1. IInv => PanelAgrees
  BY DEF IInv, RunnerInv, Shown, PanelAgrees
<1> QED
  BY Inductive, <1>1, PTL

\* A number typed at the prompt of maybe_pause runs that many steps.
THEOREM StepsAreCounted == Spec => []StepsAsAsked
<1>1. IInv => StepsAsAsked
  BY DEF IInv, RunnerInv, Owed, StepsAsAsked
<1> QED
  BY Inductive, <1>1, PTL

\* A run ends on a BRK, or at MAX_CYCLES in C++, and not without a reason.
THEOREM RunsEnd == Spec => []BrkEndsRun
<1>1. IInv => BrkEndsRun
  BY DEF IInv, RunnerInv, EndsOnBrk, Brk, BrkEndsRun
<1> QED
  BY Inductive, <1>1, PTL

=============================================================================
