---------------------------- MODULE PinMapProofs ----------------------------
(***************************************************************************)
(* The tables and codecs of PinMap agree, whatever the levels: the runs of *)
(* Runners try some payloads, these theorems hold for all of them.  Each   *)
(* codec is compared through the bits of a payload (OneBit); a table of    *)
(* forty entries is checked entry by entry (TablesAgree, AllWired).        *)
(***************************************************************************)
EXTENDS PinMap, TLAPS

\* A payload bit is a byte and a bit in it; the bytes are in big-endian order.
LEMMA BitIndex ==
    ASSUME NEW p \in 0 .. 39
    PROVE  /\ p \div 8 \in 0 .. 4 /\ p % 8 \in 0 .. 7
           /\ p = 8 * (p \div 8) + (p % 8)
           /\ (39 - p) \div 8 = 4 - p \div 8
  OBVIOUS

\* The converse: bit j of byte c.
LEMMA IndexBit ==
    ASSUME NEW c \in 0 .. 4, NEW j \in 0 .. 7
    PROVE  /\ 8 * (4 - c) + j \in 0 .. 39
           /\ (8 * (4 - c) + j) \div 8 = 4 - c
           /\ (8 * (4 - c) + j) % 8 = j
  OBVIOUS

\* Bit p of a payload is the same for payload.rs (get_bit), display.cpp
\* (payload_bit), pin_utils.cpp (get_pin) and the u64 of pins.rs.
THEOREM OneBit ==
    ASSUME NEW buff \in Buffers, NEW p \in 0 .. 39
    PROVE  /\ get_bit(buff, p) <=> get_pin(buff, p)
           /\ payload_bit(buff, p) <=> get_pin(buff, p)
           /\ p \in from_be_bytes(buff) <=> get_pin(buff, p)
<1>1. (39 - p) \div 8 = 4 - p \div 8
  BY BitIndex
<1>2. /\ get_bit(buff, p) <=> get_pin(buff, p)
      /\ payload_bit(buff, p) <=> get_pin(buff, p)
  BY <1>1 DEF get_bit, payload_bit, get_pin
<1>3. ASSUME get_pin(buff, p) PROVE p \in from_be_bytes(buff)
  <2> DEFINE c == 4 - p \div 8
  <2>1. c \in 0 .. 4 /\ p = 8 * (4 - c) + (p % 8)
    BY BitIndex
  <2>2. p % 8 \in buff[c]
    BY <1>1, <1>3 DEF get_pin
  <2>3. p \in {8 * (4 - c) + j : j \in buff[c]}
    BY <2>1, <2>2
  <2> HIDE DEF c
  <2> QED
    BY <2>1, <2>3 DEF from_be_bytes
<1>4. ASSUME p \in from_be_bytes(buff) PROVE get_pin(buff, p)
  <2>1. PICK c \in 0 .. 4 : p \in {8 * (4 - c) + j : j \in buff[c]}
    BY <1>4 DEF from_be_bytes
  <2>2. PICK j \in buff[c] : p = 8 * (4 - c) + j
    BY <2>1
  <2>3. j \in 0 .. 7
    BY <2>2 DEF Buffers
  <2>4. p \div 8 = 4 - c /\ p % 8 = j
    BY <2>2, <2>3, IndexBit
  <2> QED
    BY <1>1, <2>2, <2>4 DEF get_pin
<1> QED
  BY <1>2, <1>3, <1>4

\* Bit i of v >> n.
LEMMA ShiftedBit ==
    ASSUME NEW v \in SUBSET (0 .. 39), NEW i \in Nat, NEW n \in Nat
    PROVE  i \in shr(v, n) <=> i + n \in v
<1>1. ASSUME i + n \in v PROVE i \in shr(v, n)
  <2>1. i + n >= n /\ i = (i + n) - n
    OBVIOUS
  <2> QED
    BY <1>1, <2>1 DEF shr
<1>2. ASSUME i \in shr(v, n) PROVE i + n \in v
  BY <1>2 DEF shr
<1> QED
  BY <1>1, <1>2

\* The two hosts number the signals alike.
LEMMA ShiftIsPinNo ==
    /\ Shift = PinNo /\ DOMAIN PinNo = Signals
    /\ \A s \in Signals : PinNo[s] \in 0 .. 39
  BY DEF Shift, PinNo, Signals

\* W65C02Pins::set_pins and Pins::from read the same signals, address and data
\* off every payload.
THEOREM HostsDecodeAlike ==
    ASSUME NEW buff \in Buffers
    PROVE  set_pins(buff) = PinsFrom(buff)
<1> DEFINE v == from_be_bytes(buff)
<1>1. v \in SUBSET (0 .. 39)
  <2>1. ASSUME NEW c \in 0 .. 4, NEW j \in buff[c] PROVE 8 * (4 - c) + j \in 0 .. 39
    BY IndexBit DEF Buffers
  <2> QED
    BY <2>1 DEF from_be_bytes
<1>2. \A p \in 0 .. 39 : p \in v <=> get_pin(buff, p)
  BY OneBit
<1> HIDE DEF v
<1>3. {s \in Signals : get_pin(buff, PinNo[s])} = {s \in Signals : Shift[s] \in v}
  BY <1>2, ShiftIsPinNo
<1>4. decode_addr(buff) = (shr(v, 8) \cap (0 .. 11)) \cup (shr(v, 9) \cap (12 .. 15))
  <2>1. \A i \in 0 .. 11 : addr_pins[i + 1] = i + 8
    BY DEF addr_pins
  <2>2. \A i \in 12 .. 15 : addr_pins[i + 1] = i + 9
    BY DEF addr_pins
  <2>3. \A i \in 0 .. 11 : get_pin(buff, addr_pins[i + 1]) <=> i \in shr(v, 8)
    BY <1>1, <1>2, <2>1, ShiftedBit
  <2>4. \A i \in 12 .. 15 : get_pin(buff, addr_pins[i + 1]) <=> i \in shr(v, 9)
    BY <1>1, <1>2, <2>2, ShiftedBit
  <2> QED
    BY <2>3, <2>4 DEF decode_addr
<1>5. decode_data(buff) = reverse_bits(shr(v, 25) \cap (0 .. 7))
  <2>1. \A i \in 0 .. 7 : get_pin(buff, 32 - i) <=> 7 - i \in shr(v, 25)
    BY <1>1, <1>2, ShiftedBit
  <2>2. \A i \in 0 .. 7 : i \in reverse_bits(shr(v, 25) \cap (0 .. 7)) <=> 7 - i \in shr(v, 25)
    BY DEF reverse_bits
  <2>3. reverse_bits(shr(v, 25) \cap (0 .. 7)) \subseteq 0 .. 7
    BY DEF reverse_bits
  <2> QED
    BY <2>1, <2>2, <2>3 DEF decode_data
<1> QED
  BY <1>3, <1>4, <1>5 DEF set_pins, PinsFrom, v

\* decode_sample of the front panel reads off every payload what the host
\* programs do.
THEOREM PanelDecodesAlike ==
    ASSUME NEW buff \in Buffers
    PROVE  /\ decode_sample(buff).addr = set_pins(buff).addr
           /\ decode_sample(buff).data = set_pins(buff).data
           /\ decode_sample(buff).flags = set_pins(buff).high \cap DOMAIN DISP
<1>1. \A p \in 0 .. 39 : payload_bit(buff, p) <=> get_pin(buff, p)
  BY OneBit
<1>2. decode_sample(buff).addr = decode_addr(buff)
  <2>1. /\ \A i \in 0 .. 11 : addr_pins[i + 1] = 8 + i
        /\ \A i \in 0 .. 3 : addr_pins[(12 + i) + 1] = 21 + i
    BY DEF addr_pins
  <2>2. \A i \in 0 .. 11 : get_pin(buff, addr_pins[i + 1]) <=> payload_bit(buff, 8 + i)
    BY <1>1, <2>1
  <2>3. \A i \in 0 .. 3 : get_pin(buff, addr_pins[(12 + i) + 1]) <=> payload_bit(buff, 21 + i)
    BY <1>1, <2>1
  <2>4. decode_addr(buff) = {i \in 0 .. 11 : get_pin(buff, addr_pins[i + 1])}
                            \cup {12 + i : i \in {j \in 0 .. 3 : get_pin(buff, addr_pins[(12 + j) + 1])}}
    <3>1. ASSUME NEW i \in 12 .. 15
          PROVE  i \in {12 + k : k \in {j \in 0 .. 3 : get_pin(buff, addr_pins[(12 + j) + 1])}}
                   <=> get_pin(buff, addr_pins[i + 1])
      <4>1. i - 12 \in 0 .. 3 /\ 12 + (i - 12) = i
        OBVIOUS
      <4> QED
        BY <4>1
    <3> QED
      BY <3>1 DEF decode_addr
  <2> QED
    BY <2>2, <2>3, <2>4 DEF decode_sample
<1>3. decode_sample(buff).data = decode_data(buff)
  <2>1. \A i \in 0 .. 7 : get_pin(buff, 32 - i) <=> payload_bit(buff, 25 + (7 - i))
    BY <1>1
  <2>2. \A i \in 0 .. 7 : 7 - i \in 0 .. 7 /\ 7 - (7 - i) = i
    OBVIOUS
  <2> QED
    BY <2>1, <2>2 DEF decode_sample, decode_data
<1>4. decode_sample(buff).flags = set_pins(buff).high \cap DOMAIN DISP
  <2>1. /\ DOMAIN DISP \subseteq Signals
        /\ \A s \in DOMAIN DISP : DISP[s] = PinNo[s]
    BY DEF DISP, PinNo, Signals
  <2> QED
    BY <1>1, <2>1, ShiftIsPinNo DEF decode_sample, set_pins
<1> QED
  BY <1>2, <1>3, <1>4 DEF set_pins

-----------------------------------------------------------------------------
\* reverse_bits() << 25 puts D0 to D7 at bits 32 down to 25.
LEMMA ReversedOnTheWire ==
    ASSUME NEW data \in SUBSET (0 .. 7)
    PROVE  shl(reverse_bits(data), 25) = {32 - i : i \in data}
<1>1. reverse_bits(data) \subseteq 0 .. 7
  BY DEF reverse_bits
<1>2. \A i \in data : 32 - i \in shl(reverse_bits(data), 25)
  <2> TAKE i \in data
  <2>1. 7 - i \in reverse_bits(data) /\ 32 - i = (7 - i) + 25
    BY DEF reverse_bits
  <2> QED
    BY <2>1 DEF shl
<1>3. \A b \in reverse_bits(data) : b + 25 \in {32 - i : i \in data}
  <2> TAKE b \in reverse_bits(data)
  <2>1. PICK i \in data : b = 7 - i
    BY DEF reverse_bits
  <2>2. b + 25 = 32 - i
    BY <2>1
  <2> QED
    BY <2>2
<1> QED
  BY <1>2, <1>3 DEF shl

\* Three ways in which the code finds the byte of a bit.
LEMMA ByteOrder ==
    ASSUME NEW ones \in SUBSET (0 .. 39), NEW c \in 0 .. 4
    PROVE  /\ {q \in ones : (39 - q) \div 8 = c} = {d \in ones : d \div 8 = 4 - c}
           /\ {q \in ones : (39 - q) \div 8 = c} = {d \in ones : 4 - d \div 8 = c}
<1>1. ASSUME NEW q \in ones
      PROVE  /\ (39 - q) \div 8 = c <=> q \div 8 = 4 - c
             /\ (39 - q) \div 8 = c <=> 4 - q \div 8 = c
  <2>1. (39 - q) \div 8 = 4 - q \div 8 /\ q \div 8 \in 0 .. 4
    BY BitIndex
  <2> QED
    BY <2>1
<1> QED
  BY <1>1

\* set_buff and the conversion from Pins make the same payload of every pins
\* object, but for the address, which only the latter writes.
THEOREM HostsEncodeAlike ==
    ASSUME NEW pins \in PinsObjects
    PROVE  set_buff(pins) = PinsInto([pins EXCEPT !.addr = {}])
<1> DEFINE ones == {PinNo[s] : s \in pins.high} \cup {32 - i : i \in pins.data}
<1>1. pins.high \subseteq Signals /\ pins.data \subseteq 0 .. 7
  BY DEF PinsObjects
<1>2. ones \in SUBSET (0 .. 39)
  BY <1>1, ShiftIsPinNo
<1>3. shl(reverse_bits(pins.data), 25) = {32 - i : i \in pins.data}
  BY <1>1, ReversedOnTheWire
<1>4. shl({} \cap (0 .. 11), 8) = {} /\ shl({} \cap (12 .. 15), 9) = {}
  BY DEF shl
<1>5. {Shift[s] : s \in pins.high} = {PinNo[s] : s \in pins.high}
  BY ShiftIsPinNo
<1>6. PinsInto([pins EXCEPT !.addr = {}]) = to_be_bytes(ones)
  <2> DEFINE cleared == [pins EXCEPT !.addr = {}]
  <2>1. cleared.high = pins.high /\ cleared.data = pins.data /\ cleared.addr = {}
    BY DEF PinsObjects
  <2> HIDE DEF cleared
  <2>2. PinsInto(cleared) = to_be_bytes({PinNo[s] : s \in pins.high}
                                        \cup {32 - i : i \in pins.data} \cup {} \cup {})
    BY <1>3, <1>4, <1>5, <2>1 DEF PinsInto
  <2> QED
    BY <2>2 DEF cleared
<1>7. set_buff(pins) = [c \in 0 .. 4 |-> {p % 8 : p \in {q \in ones : (39 - q) \div 8 = c}}]
  BY DEF set_buff
<1> HIDE DEF ones
<1> QED
  BY <1>2, <1>6, <1>7, ByteOrder DEF to_be_bytes

-----------------------------------------------------------------------------
\* Every payload bit is one of the three kinds, or a pin that is not wired.
Wired == {bits[s] : s \in Signals} \cup {addr_bit(i) : i \in 0 .. 15}
         \cup {data_bit(i) : i \in 0 .. 7}

\* PINS_MAP and set_pin_ids give every signal and every line of the buses the
\* Teensy pin that CpuPins::new gives it.
LEMMA TablesAgree ==
    /\ \A s \in Signals : bits[s] \in 0 .. 39 /\ pin_ids[bits[s]] = Pad[s] /\ Pad[s] # 255
    /\ \A i \in 0 .. 15 : /\ addr_bit(i) \in 0 .. 39 /\ pin_ids[addr_bit(i)] = AddrPad[i + 1]
                          /\ AddrPad[i + 1] # 255
    /\ \A i \in 0 .. 7 : /\ data_bit(i) \in 0 .. 39 /\ pin_ids[data_bit(i)] = DataPad[i + 1]
                         /\ DataPad[i + 1] # 255
<1>1. \A s \in Signals : bits[s] \in 0 .. 39 /\ pin_ids[bits[s]] = Pad[s] /\ Pad[s] # 255
  BY DEF Signals, bits, Pad, pin_ids, PINS_MAP
<1>2. \A i \in 0 .. 15 : /\ addr_bit(i) \in 0 .. 39 /\ pin_ids[addr_bit(i)] = AddrPad[i + 1]
                         /\ AddrPad[i + 1] # 255
  BY DEF addr_bit, AddrPad, pin_ids, PINS_MAP
<1>3. \A i \in 0 .. 7 : /\ data_bit(i) \in 0 .. 39 /\ pin_ids[data_bit(i)] = DataPad[i + 1]
                        /\ DataPad[i + 1] # 255
  BY DEF data_bit, DataPad, pin_ids, PINS_MAP
<1> QED
  BY <1>1, <1>2, <1>3

\* And every pin that is connected belongs to one of them.
LEMMA AllWired ==
    ASSUME NEW b \in 0 .. 39, pin_ids[b] # 255
    PROVE  b \in Wired
<1>1. b \notin {7, 20, 34}
  BY DEF pin_ids, PINS_MAP
<1>2. CASE b \in 8 .. 19 \cup 21 .. 24
  <2>1. b \in 8 .. 19 => b = addr_bit(b - 8) /\ b - 8 \in 0 .. 15
    BY DEF addr_bit
  <2>2. b \in 21 .. 24 => b = addr_bit(b - 9) /\ b - 9 \in 0 .. 15
    BY DEF addr_bit
  <2> QED
    BY <1>2, <2>1, <2>2 DEF Wired
<1>3. CASE b \in 25 .. 32
  <2>1. b = data_bit(32 - b) /\ 32 - b \in 0 .. 7
    BY <1>3 DEF data_bit
  <2> QED
    BY <2>1 DEF Wired
<1>4. CASE b \in {0, 1, 2, 3, 4, 5, 6, 33, 35, 36, 37, 38, 39}
  BY <1>4 DEF Wired, bits, Signals
<1> QED
  BY <1>1, <1>2, <1>3, <1>4

\* get_pins_state and CpuPins::sample make the same payload of any levels.
THEOREM FirmwaresSampleAlike ==
    ASSUME NEW high
    PROVE  sample(high) = get_pins_state(high)
<1> DEFINE ones == {bits[s] : s \in {t \in Signals : Pad[t] \in high}}
                   \cup {addr_bit(i) : i \in {j \in 0 .. 15 : AddrPad[j + 1] \in high}}
                   \cup {data_bit(i) : i \in {j \in 0 .. 7 : DataPad[j + 1] \in high}}
<1>1. \A b \in ones : b \in 0 .. 39 /\ pin_ids[b] # 255 /\ pin_ids[b] \in high
  BY TablesAgree
<1>2. \A b \in 0 .. 39 : pin_ids[b] # 255 /\ pin_ids[b] \in high => b \in ones
  BY AllWired, TablesAgree DEF Wired
<1>3. sample(high) = [c \in 0 .. 4 |-> {b % 8 : b \in {d \in ones : 4 - d \div 8 = c}}]
  BY DEF sample, set_bits
<1> HIDE DEF ones
<1>4. ASSUME NEW c \in 0 .. 4
      PROVE  {b % 8 : b \in {d \in ones : 4 - d \div 8 = c}}
             = {j \in 0 .. 7 : pin_ids[(4 - c) * 8 + j] # 255 /\ pin_ids[(4 - c) * 8 + j] \in high}
  <2>1. ASSUME NEW b \in ones, 4 - b \div 8 = c
        PROVE  b % 8 \in 0 .. 7 /\ (4 - c) * 8 + (b % 8) = b
    <3>1. b \in 0 .. 39
      BY <1>1
    <3>2. b \div 8 \in 0 .. 4 /\ b % 8 \in 0 .. 7 /\ b = 8 * (b \div 8) + (b % 8)
      BY <3>1, BitIndex
    <3> QED
      BY <2>1, <3>2
  <2>2. ASSUME NEW j \in 0 .. 7, pin_ids[(4 - c) * 8 + j] # 255, pin_ids[(4 - c) * 8 + j] \in high
        PROVE  j \in {b % 8 : b \in {d \in ones : 4 - d \div 8 = c}}
    <3> DEFINE b == (4 - c) * 8 + j
    <3>1. b \in 0 .. 39 /\ b \div 8 = 4 - c /\ b % 8 = j
      BY IndexBit
    <3>2. b \in ones
      BY <1>2, <2>2, <3>1
    <3> HIDE DEF b
    <3> QED
      BY <3>1, <3>2
  <2> QED
    BY <1>1, <2>1, <2>2
<1> QED
  BY <1>3, <1>4 DEF get_pins_state

\* write_pin for a set of bits, none of which is skipped.
LEMMA LatchesWritten ==
    ASSUME NEW latch, NEW buff \in Buffers, NEW B \in SUBSET (0 .. 39),
           \A b \in B : pin_ids[b] # 255
    PROVE  write_pins(latch, B, buff)
             = (latch \ {pin_ids[b] : b \in B})
               \cup {pin_ids[b] : b \in {d \in B : get_bit(buff, d)}}
<1> DEFINE ids == {pin_ids[b] : b \in B} \ {255}
           val(id) == \E b \in B : pin_ids[b] = id /\ (b % 8) \in buff[(39 - b) \div 8]
<1>1. ids = {pin_ids[b] : b \in B}
  OBVIOUS
<1>2. \A b \in B : get_bit(buff, b) <=> (b % 8) \in buff[(39 - b) \div 8]
  BY OneBit DEF get_pin
<1>3. {id \in ids : val(id)} = {pin_ids[b] : b \in {d \in B : get_bit(buff, d)}}
  BY <1>1, <1>2
<1>4. write_pins(latch, B, buff) = (latch \ ids) \cup {id \in ids : val(id)}
  BY DEF write_pins
<1> QED
  BY <1>1, <1>3, <1>4

\* set_pins_state and CpuPins::apply leave the same levels on the pins, for
\* every payload, both for the control lines and for the data.
THEOREM FirmwaresApplyAlike ==
    ASSUME NEW buff \in Buffers, NEW latch
    PROVE  /\ write_pins(latch, WrittenAlways, buff) = apply_lines(latch, buff)
           /\ write_pins(latch, WrittenOnRead, buff) = apply_data(latch, buff)
<1>1. write_pins(latch, WrittenAlways, buff) = apply_lines(latch, buff)
  <2> DEFINE lines == {"irq", "nmi", "be", "phi2", "so", "reset"}
             B == WrittenAlways
  <2>1. B = {bits[s] : s \in lines}
    BY DEF WrittenAlways, bits
  <2>2. \A s \in lines : bits[s] \in B /\ pin_ids[bits[s]] = Pad[s] /\ Pad[s] # 255
    BY <2>1, TablesAgree DEF Signals
  <2>3. B \in SUBSET (0 .. 39)
    BY DEF WrittenAlways
  <2> HIDE DEF B, lines
  <2>4. \A b \in B : \E s \in lines : b = bits[s] /\ pin_ids[b] = Pad[s]
    BY <2>1, <2>2
  <2>5. write_pins(latch, B, buff)
          = (latch \ {pin_ids[b] : b \in B})
            \cup {pin_ids[b] : b \in {d \in B : get_bit(buff, d)}}
    BY <2>2, <2>3, <2>4, LatchesWritten
  <2>6. {pin_ids[b] : b \in B} = {Pad[s] : s \in lines}
    BY <2>2, <2>4
  <2>7. {pin_ids[b] : b \in {d \in B : get_bit(buff, d)}}
          = {Pad[s] : s \in {t \in lines : get_bit(buff, bits[t])}}
    BY <2>2, <2>4
  <2> QED
    BY <2>5, <2>6, <2>7 DEF apply_lines, B, lines
<1>2. write_pins(latch, WrittenOnRead, buff) = apply_data(latch, buff)
  <2> DEFINE B == WrittenOnRead
  <2>1. B \in SUBSET (0 .. 39)
    BY DEF WrittenOnRead
  <2>2. \A i \in 0 .. 7 : /\ data_bit(i) \in B
                          /\ pin_ids[data_bit(i)] = DataPad[i + 1] /\ DataPad[i + 1] # 255
    BY TablesAgree DEF data_bit, WrittenOnRead
  <2>3. \A b \in B : \E i \in 0 .. 7 : b = data_bit(i) /\ pin_ids[b] = DataPad[i + 1]
    <3>1. \A b \in 25 .. 32 : 32 - b \in 0 .. 7 /\ b = data_bit(32 - b)
      BY DEF data_bit
    <3> QED
      BY <2>2, <3>1 DEF WrittenOnRead
  <2> HIDE DEF B
  <2>4. write_pins(latch, B, buff)
          = (latch \ {pin_ids[b] : b \in B})
            \cup {pin_ids[b] : b \in {d \in B : get_bit(buff, d)}}
    <3>1. \A b \in B : pin_ids[b] # 255
      BY <2>2, <2>3
    <3> QED
      BY <2>1, <3>1, LatchesWritten
  <2>5. {pin_ids[b] : b \in B} = {DataPad[i] : i \in 1 .. 8}
    <3>1. \A i \in 1 .. 8 : i - 1 \in 0 .. 7 /\ (i - 1) + 1 = i
      OBVIOUS
    <3>2. \A i \in 0 .. 7 : i + 1 \in 1 .. 8
      OBVIOUS
    <3>3. \A b \in B : pin_ids[b] \in {DataPad[i] : i \in 1 .. 8}
      BY <2>3, <3>2
    <3>4. \A i \in 1 .. 8 : DataPad[i] \in {pin_ids[b] : b \in B}
      BY <2>2, <3>1
    <3> QED
      BY <3>3, <3>4
  <2>6. {pin_ids[b] : b \in {d \in B : get_bit(buff, d)}}
          = {DataPad[i + 1] : i \in {j \in 0 .. 7 : get_bit(buff, data_bit(j))}}
    BY <2>2, <2>3
  <2> QED
    BY <2>4, <2>5, <2>6 DEF apply_data, B
<1> QED
  BY <1>1, <1>2

-----------------------------------------------------------------------------
\* The bits of a payload are those it was made of.
LEMMA BitOfBytes ==
    ASSUME NEW ones \in SUBSET (0 .. 39), NEW p \in 0 .. 39
    PROVE  /\ to_be_bytes(ones) \in Buffers
           /\ get_pin(to_be_bytes(ones), p) <=> p \in ones
<1>1. to_be_bytes(ones) \in Buffers
  <2>1. \A b \in ones : b % 8 \in 0 .. 7
    BY BitIndex
  <2> QED
    BY <2>1 DEF to_be_bytes, Buffers
<1> DEFINE c == 4 - p \div 8
<1>2. c \in 0 .. 4 /\ (39 - p) \div 8 = c /\ p \div 8 = 4 - c
      /\ p = 8 * (4 - c) + (p % 8) /\ p % 8 \in 0 .. 7
  BY BitIndex
<1>3. get_pin(to_be_bytes(ones), p) <=> p % 8 \in {b % 8 : b \in {d \in ones : d \div 8 = 4 - c}}
  BY <1>2 DEF get_pin, to_be_bytes
<1> HIDE DEF c
<1>4. ASSUME NEW b \in ones, b \div 8 = 4 - c, p % 8 = b % 8 PROVE b = p
  <2>1. b = 8 * (b \div 8) + (b % 8)
    BY BitIndex
  <2> QED
    BY <1>2, <1>4, <2>1
<1> QED
  BY <1>1, <1>2, <1>3, <1>4

\* The bits of a payload that PinsInto makes.
Ones(pins) ==
    {PinNo[s] : s \in pins.high} \cup {32 - i : i \in pins.data}
    \cup {8 + i : i \in pins.addr \cap (0 .. 11)} \cup {9 + i : i \in pins.addr \cap (12 .. 15)}

\* The payload of a pins object, as a set of bits.
LEMMA OnesOfPins ==
    ASSUME NEW pins \in PinsObjects
    PROVE  Ones(pins) \in SUBSET (0 .. 39) /\ PinsInto(pins) = to_be_bytes(Ones(pins))
<1>1. /\ pins.high \subseteq Signals
      /\ pins.data \subseteq 0 .. 7
      /\ pins.addr \subseteq 0 .. 15
  BY DEF PinsObjects
<1>2. Ones(pins) \in SUBSET (0 .. 39)
  BY <1>1, ShiftIsPinNo DEF Ones
<1>3. shl(reverse_bits(pins.data), 25) = {32 - i : i \in pins.data}
  BY <1>1, ReversedOnTheWire
<1>4. /\ shl(pins.addr \cap (0 .. 11), 8) = {8 + i : i \in pins.addr \cap (0 .. 11)}
      /\ shl(pins.addr \cap (12 .. 15), 9) = {9 + i : i \in pins.addr \cap (12 .. 15)}
  BY DEF shl
<1>5. {Shift[s] : s \in pins.high} = {PinNo[s] : s \in pins.high}
  BY ShiftIsPinNo
<1> QED
  BY <1>2, <1>3, <1>4, <1>5 DEF PinsInto, Ones

\* No two signals or lines share a bit.
LEMMA OnesTellAll ==
    ASSUME NEW pins \in PinsObjects
    PROVE  /\ \A s \in Signals : PinNo[s] \in Ones(pins) <=> s \in pins.high
           /\ \A i \in 0 .. 7 : 32 - i \in Ones(pins) <=> i \in pins.data
           /\ \A i \in 0 .. 11 : 8 + i \in Ones(pins) <=> i \in pins.addr
           /\ \A i \in 12 .. 15 : 9 + i \in Ones(pins) <=> i \in pins.addr
<1>1. /\ pins.high \subseteq Signals
      /\ pins.data \subseteq 0 .. 7
      /\ pins.addr \subseteq 0 .. 15
  BY DEF PinsObjects
<1>2. /\ \A s \in Signals : PinNo[s] \in 0 .. 39 /\ PinNo[s] \notin 8 .. 32
      /\ \A s, t \in Signals : PinNo[s] = PinNo[t] => s = t
  BY DEF Signals, PinNo
<1>3. \A s \in Signals : PinNo[s] \in Ones(pins) <=> s \in pins.high
  BY <1>1, <1>2 DEF Ones
<1>4. \A i \in 0 .. 7 : 32 - i \in Ones(pins) <=> i \in pins.data
  BY <1>1, <1>2 DEF Ones
<1>5. \A i \in 0 .. 11 : 8 + i \in Ones(pins) <=> i \in pins.addr
  BY <1>1, <1>2 DEF Ones
<1>6. \A i \in 12 .. 15 : 9 + i \in Ones(pins) <=> i \in pins.addr
  BY <1>1, <1>2 DEF Ones
<1> QED
  BY <1>3, <1>4, <1>5, <1>6

\* What a host encodes it decodes to the same pins object: nothing is lost on
\* the way, in Rust all of it, in C++ all but the address.
THEOREM DecodeOfEncode ==
    ASSUME NEW pins \in PinsObjects
    PROVE  /\ PinsFrom(PinsInto(pins)) = pins
           /\ set_pins(set_buff(pins)) = [pins EXCEPT !.addr = {}]
<1>1. ASSUME NEW obj \in PinsObjects PROVE PinsFrom(PinsInto(obj)) = obj
  <2> DEFINE buff == to_be_bytes(Ones(obj))
  <2>1. PinsInto(obj) = buff /\ buff \in Buffers
    BY OnesOfPins, BitOfBytes
  <2>2. \A p \in 0 .. 39 : get_pin(buff, p) <=> p \in Ones(obj)
    BY OnesOfPins, BitOfBytes
  <2>3. PinsFrom(buff) = set_pins(buff)
    BY <2>1, HostsDecodeAlike
  <2> HIDE DEF buff
  <2>4. obj.high \subseteq Signals /\ obj.data \subseteq 0 .. 7 /\ obj.addr \subseteq 0 .. 15
    BY DEF PinsObjects
  <2>5. {s \in Signals : get_pin(buff, PinNo[s])} = obj.high
    BY <2>2, <2>4, ShiftIsPinNo, OnesTellAll
  <2>6. decode_data(buff) = obj.data
    <3>1. \A i \in 0 .. 7 : get_pin(buff, 32 - i) <=> i \in obj.data
      BY <2>2, OnesTellAll
    <3> QED
      BY <2>4, <3>1 DEF decode_data
  <2>7. decode_addr(buff) = obj.addr
    <3>1. \A i \in 0 .. 11 : get_pin(buff, addr_pins[i + 1]) <=> i \in obj.addr
      <4>1. \A i \in 0 .. 11 : addr_pins[i + 1] = 8 + i
        BY DEF addr_pins
      <4> QED
        BY <2>2, <4>1, OnesTellAll
    <3>2. \A i \in 12 .. 15 : get_pin(buff, addr_pins[i + 1]) <=> i \in obj.addr
      <4>1. \A i \in 12 .. 15 : addr_pins[i + 1] = 9 + i
        BY DEF addr_pins
      <4> QED
        BY <2>2, <4>1, OnesTellAll
    <3> QED
      BY <2>4, <3>1, <3>2 DEF decode_addr
  <2>8. set_pins(buff) = [high |-> obj.high, addr |-> obj.addr, data |-> obj.data]
    BY <2>5, <2>6, <2>7 DEF set_pins
  <2> QED
    BY <2>1, <2>3, <2>8 DEF PinsObjects
<1>2. [pins EXCEPT !.addr = {}] \in PinsObjects
  BY DEF PinsObjects
<1>3. set_buff(pins) = PinsInto([pins EXCEPT !.addr = {}])
  BY HostsEncodeAlike
<1>4. PinsInto([pins EXCEPT !.addr = {}]) \in Buffers
  BY <1>2, OnesOfPins, BitOfBytes
<1>5. set_pins(set_buff(pins)) = PinsFrom(PinsInto([pins EXCEPT !.addr = {}]))
  BY <1>3, <1>4, HostsDecodeAlike
<1> QED
  BY <1>1, <1>2, <1>5

-----------------------------------------------------------------------------
\* The levels on the pins of the Teensy, as a pins object.
Seen(high) ==
    [high |-> {s \in Signals : Pad[s] \in high},
     addr |-> {i \in 0 .. 15 : AddrPad[i + 1] \in high},
     data |-> {i \in 0 .. 7 : DataPad[i + 1] \in high}]

\* The bits set_bit has made are those that get_pin finds.
LEMMA BitOfSetBits ==
    ASSUME NEW ones \in SUBSET (0 .. 39)
    PROVE  set_bits(ones) = to_be_bytes(ones)
<1>1. \A c \in 0 .. 4 : {d \in ones : 4 - d \div 8 = c} = {d \in ones : d \div 8 = 4 - c}
  BY ByteOrder
<1> QED
  BY <1>1 DEF set_bits, to_be_bytes

\* The bits of the payload do not overlap: PinNo for the signals, the
\* numbers of the lines for the buses.
LEMMA BitsApart ==
    /\ \A s \in Signals : bits[s] = PinNo[s] /\ bits[s] \in 0 .. 39 /\ bits[s] \notin 8 .. 32
    /\ \A s, t \in Signals : bits[s] = bits[t] => s = t
    /\ \A i \in 0 .. 15 : addr_bit(i) = addr_pins[i + 1] /\ addr_bit(i) \in 8 .. 24
    /\ \A i, j \in 0 .. 15 : addr_bit(i) = addr_bit(j) => i = j
    /\ \A i \in 0 .. 7 : data_bit(i) = 32 - i /\ data_bit(i) \in 25 .. 32
<1>1. \A s \in Signals : bits[s] = PinNo[s] /\ bits[s] \in 0 .. 39 /\ bits[s] \notin 8 .. 32
  BY DEF Signals, bits, PinNo
<1>2. \A s, t \in Signals : bits[s] = bits[t] => s = t
  BY DEF Signals, bits
<1>3. \A i \in 0 .. 15 : addr_bit(i) = addr_pins[i + 1] /\ addr_bit(i) \in 8 .. 24
  BY DEF addr_bit, addr_pins
<1>4. \A i, j \in 0 .. 15 : addr_bit(i) = addr_bit(j) => i = j
  BY DEF addr_bit
<1>5. \A i \in 0 .. 7 : data_bit(i) = 32 - i /\ data_bit(i) \in 25 .. 32
  BY DEF data_bit
<1> QED
  BY <1>1, <1>2, <1>3, <1>4, <1>5

\* What a firmware samples is what a host program then knows: every signal and
\* every line of the buses arrives, whatever the levels.
THEOREM DecodeOfSample ==
    ASSUME NEW high
    PROVE  sample(high) \in Buffers /\ set_pins(sample(high)) = Seen(high)
<1> DEFINE ones == {bits[s] : s \in {t \in Signals : Pad[t] \in high}}
                   \cup {addr_bit(i) : i \in {j \in 0 .. 15 : AddrPad[j + 1] \in high}}
                   \cup {data_bit(i) : i \in {j \in 0 .. 7 : DataPad[j + 1] \in high}}
           buff == to_be_bytes(ones)
<1>1. ones \in SUBSET (0 .. 39)
  BY BitsApart
<1>2. sample(high) = buff
  BY <1>1, BitOfSetBits DEF sample
<1>3. \A s \in Signals : PinNo[s] \in ones <=> Pad[s] \in high
  BY BitsApart
<1>4. \A i \in 0 .. 15 : addr_pins[i + 1] \in ones <=> AddrPad[i + 1] \in high
  BY BitsApart
<1>5. \A i \in 0 .. 7 : 32 - i \in ones <=> DataPad[i + 1] \in high
  BY BitsApart
<1> HIDE DEF ones
<1>6. buff \in Buffers /\ \A p \in 0 .. 39 : get_pin(buff, p) <=> p \in ones
  BY <1>1, BitOfBytes
<1> HIDE DEF buff
<1>7. {s \in Signals : get_pin(buff, PinNo[s])} = {s \in Signals : Pad[s] \in high}
  BY <1>3, <1>6, ShiftIsPinNo
<1>8. decode_addr(buff) = {i \in 0 .. 15 : AddrPad[i + 1] \in high}
  <2>1. \A i \in 0 .. 15 : addr_pins[i + 1] \in 0 .. 39
    BY BitsApart
  <2> QED
    BY <1>4, <1>6, <2>1 DEF decode_addr
<1>9. decode_data(buff) = {i \in 0 .. 7 : DataPad[i + 1] \in high}
  BY <1>5, <1>6 DEF decode_data
<1> QED
  BY <1>2, <1>6, <1>7, <1>8, <1>9 DEF set_pins, Seen

Lines == {"irq", "nmi", "be", "phi2", "so", "reset"}

\* What either host encodes (get_bytes, From for u64), either firmware puts on
\* its pins: the control lines as they are in the pins object, and the data bit
\* for bit.
THEOREM AppliesWhatIsEncoded ==
    ASSUME NEW pins \in PinsObjects, NEW latch,
           NEW buff \in {set_buff(pins), PinsInto(pins)}
    PROVE  /\ buff \in Buffers
           /\ apply_lines(latch, buff)
                = (latch \ {Pad[s] : s \in Lines}) \cup {Pad[s] : s \in Lines \cap pins.high}
           /\ apply_data(latch, buff)
                = (latch \ {DataPad[i] : i \in 1 .. 8}) \cup {DataPad[i + 1] : i \in pins.data}
<1>1. PICK obj \in PinsObjects : /\ buff = PinsInto(obj)
                                 /\ obj.high = pins.high /\ obj.data = pins.data
  <2>1. CASE buff = PinsInto(pins)
    BY <2>1
  <2>2. CASE buff = set_buff(pins)
    <3>1. /\ [pins EXCEPT !.addr = {}] \in PinsObjects
          /\ [pins EXCEPT !.addr = {}].high = pins.high
          /\ [pins EXCEPT !.addr = {}].data = pins.data
      BY DEF PinsObjects
    <3> QED
      BY <2>2, <3>1, HostsEncodeAlike
  <2> QED
    BY <2>1, <2>2
<1>2. buff \in Buffers /\ \A p \in 0 .. 39 : get_bit(buff, p) <=> p \in Ones(obj)
  <2>1. buff = to_be_bytes(Ones(obj)) /\ Ones(obj) \in SUBSET (0 .. 39)
    BY <1>1, OnesOfPins
  <2>2. buff \in Buffers
    BY <2>1, BitOfBytes
  <2>3. \A p \in 0 .. 39 : get_pin(buff, p) <=> p \in Ones(obj)
    BY <2>1, BitOfBytes
  <2>4. \A p \in 0 .. 39 : get_bit(buff, p) <=> get_pin(buff, p)
    BY <2>2, OneBit
  <2> QED
    BY <2>2, <2>3, <2>4
<1>3. /\ pins.high \subseteq Signals /\ pins.data \subseteq 0 .. 7
  BY DEF PinsObjects
<1>4. \A s \in Signals : get_bit(buff, bits[s]) <=> s \in pins.high
  <2>1. \A s \in Signals : PinNo[s] \in Ones(obj) <=> s \in obj.high
    BY OnesTellAll
  <2> QED
    BY <1>1, <1>2, <2>1, BitsApart
<1>5. \A i \in 0 .. 7 : get_bit(buff, data_bit(i)) <=> i \in pins.data
  <2>1. \A i \in 0 .. 7 : 32 - i \in Ones(obj) <=> i \in obj.data
    BY OnesTellAll
  <2> QED
    BY <1>1, <1>2, <2>1, BitsApart
<1>6. {s \in Lines : get_bit(buff, bits[s])} = Lines \cap pins.high
  BY <1>4 DEF Lines, Signals
<1>7. {i \in 0 .. 7 : get_bit(buff, data_bit(i))} = pins.data
  BY <1>3, <1>5
<1>8. apply_lines(latch, buff)
        = (latch \ {Pad[s] : s \in Lines}) \cup {Pad[s] : s \in {t \in Lines : get_bit(buff, bits[t])}}
  BY DEF apply_lines, Lines
<1> QED
  BY <1>2, <1>6, <1>7, <1>8 DEF apply_data


=============================================================================
