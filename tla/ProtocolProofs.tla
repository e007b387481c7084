--------------------------- MODULE ProtocolProofs ---------------------------
(***************************************************************************)
(* Facts about the wire format that hold for every byte width and payload  *)
(* size.  A recursive function is a CHOOSE: that the running sum exists    *)
(* and is a byte is shown by induction, in the form of a set of naturals   *)
(* closed under successor.                                                 *)
(***************************************************************************)
EXTENDS Protocol, WellFoundedInduction, SequenceTheorems, TLAPS

\* A set that contains 0 and is closed under successor contains Nat.
LEMMA SetInduction ==
    ASSUME NEW S, 0 \in S, \A n \in Nat : n \in S => n + 1 \in S
    PROVE  Nat \subseteq S
<1> DEFINE R == {ss \in Nat \X Nat : ss[1] < ss[2]}
           T == Nat \ S
<1>1. IsWellFoundedOn(R, Nat)
  BY NatLessThanWellFounded DEF OpToRel
<1>2. SUFFICES ASSUME T # {} PROVE FALSE
  OBVIOUS
<1>3. PICK m \in T : \A k \in T : <<k, m>> \notin R
  <2> HIDE DEF R
  <2> QED BY <1>1, <1>2, WFMin
<1>4. m # 0 /\ m - 1 \in Nat
  OBVIOUS
<1>5. m - 1 \in T
  BY <1>4
<1>6. <<m - 1, m>> \in R
  BY <1>4
<1> QED
  BY <1>3, <1>5, <1>6

\* The equation that defines a running sum of data, as a function on 0 .. k.
IsRunningSum(f, k, type, data) ==
    f = [n \in 0 .. k |-> IF n = 0 THEN type ELSE (f[n - 1] + data[n]) % Radix]

\* The uint8_t arithmetic stays in a byte.
LEMMA ByteSum == \A a, b \in Byte : (a + b) % Radix \in Byte
  BY ProtocolAssumption DEF Byte

\* A running sum exists for every prefix of the payload.
LEMMA RunningSumExists ==
    ASSUME NEW type \in Byte, NEW data \in Seq(Byte)
    PROVE  \E f : IsRunningSum(f, Len(data), type, data)
<1> DEFINE Good(k) == \E f \in [0 .. k -> Byte] : IsRunningSum(f, k, type, data)
           S == {k \in Nat : k <= Len(data) => Good(k)}
<1>1. 0 \in S
  <2>1. [n \in 0 .. 0 |-> type] \in [0 .. 0 -> Byte]
    OBVIOUS
  <2>2. IsRunningSum([n \in 0 .. 0 |-> type], 0, type, data)
    BY DEF IsRunningSum
  <2> QED
    BY <2>1, <2>2
<1>2. ASSUME NEW k \in Nat, k \in S PROVE k + 1 \in S
  <2>1. SUFFICES ASSUME k + 1 <= Len(data) PROVE Good(k + 1)
    OBVIOUS
  <2>2. PICK f \in [0 .. k -> Byte] : IsRunningSum(f, k, type, data)
    BY <1>2, <2>1
  <2> DEFINE g == [n \in 0 .. (k + 1) |->
                      IF n = k + 1 THEN (f[k] + data[k + 1]) % Radix ELSE f[n]]
  <2>3. data[k + 1] \in Byte
    BY <2>1
  <2>4. g \in [0 .. (k + 1) -> Byte]
    BY <2>2, <2>3, ByteSum
  <2>5. \A n \in 0 .. (k + 1) :
           g[n] = IF n = 0 THEN type ELSE (g[n - 1] + data[n]) % Radix
    <3>1. \A n \in 0 .. k : f[n] = IF n = 0 THEN type ELSE (f[n - 1] + data[n]) % Radix
      BY <2>2 DEF IsRunningSum
    <3>2. TAKE n \in 0 .. (k + 1)
    <3>3. CASE n = k + 1
      BY <3>3
    <3>4. CASE n \in 1 .. k
      BY <3>1, <3>4
    <3>5. CASE n = 0
      BY <3>1, <3>5
    <3> QED
      BY <3>3, <3>4, <3>5
  <2> QED
    BY <2>4, <2>5 DEF IsRunningSum
<1>3. Nat \subseteq S
  <2> HIDE DEF S
  <2> QED BY <1>1, <1>2, SetInduction
<1> QED
  BY <1>3

\* The running sum satisfies its equation and every partial sum is a byte.
LEMMA RunningSumType ==
    ASSUME NEW type \in Byte, NEW data \in Seq(Byte)
    PROVE  RunningSum(type, data) \in [0 .. Len(data) -> Byte]
<1> DEFINE f == RunningSum(type, data)
           S == {k \in Nat : k <= Len(data) => f[k] \in Byte}
<1>1. IsRunningSum(f, Len(data), type, data)
  BY RunningSumExists DEF RunningSum, IsRunningSum
<1>2. 0 \in S
  BY <1>1 DEF IsRunningSum
<1>3. ASSUME NEW k \in Nat, k \in S PROVE k + 1 \in S
  <2>1. SUFFICES ASSUME k + 1 <= Len(data) PROVE f[k + 1] \in Byte
    OBVIOUS
  <2>2. f[k + 1] = (f[k] + data[k + 1]) % Radix
    BY <1>1, <2>1 DEF IsRunningSum
  <2>3. f[k] \in Byte /\ data[k + 1] \in Byte
    BY <1>3, <2>1
  <2> QED
    BY <2>2, <2>3, ByteSum
<1>4. Nat \subseteq S
  <2> HIDE DEF S
  <2> QED BY <1>2, <1>3, SetInduction
<1>5. \A k \in 0 .. Len(data) : f[k] \in Byte
  BY <1>4
<1>6. f = [k \in 0 .. Len(data) |-> f[k]]
  <2> HIDE DEF f
  <2> QED BY <1>1 DEF IsRunningSum
<1> QED
  BY <1>5, <1>6

\* compute_checksum returns a byte.
THEOREM ChecksumType ==
    ASSUME NEW type \in Byte, NEW data \in Seq(Byte)
    PROVE  compute_checksum(type, data) \in Byte
  BY RunningSumType, ProtocolAssumption DEF compute_checksum, Byte


\* One step of the running sum.
LEMMA RunningSumStep ==
    ASSUME NEW type \in Byte, NEW data \in Seq(Byte)
    PROVE  /\ RunningSum(type, data)[0] = type
           /\ \A k \in 0 .. Len(data) - 1 :
                 RunningSum(type, data)[k + 1]
                 = (RunningSum(type, data)[k] + data[k + 1]) % Radix
<1> DEFINE f == RunningSum(type, data)
<1>1. IsRunningSum(f, Len(data), type, data)
  BY RunningSumExists DEF RunningSum, IsRunningSum
<1>2. \A n \in 0 .. Len(data) : f[n] = IF n = 0 THEN type ELSE (f[n - 1] + data[n]) % Radix
  <2> HIDE DEF f
  <2> QED BY <1>1 DEF IsRunningSum
<1> HIDE DEF f
<1>3. f[0] = type
  BY <1>2
<1>4. ASSUME NEW k \in 0 .. Len(data) - 1
      PROVE  f[k + 1] = (f[k] + data[k + 1]) % Radix
  BY <1>2
<1> QED
  BY <1>3, <1>4 DEF f

\* Addition in a byte is injective in either argument.
LEMMA ByteSumInjective ==
    ASSUME NEW a \in Byte, NEW b \in Byte, NEW c \in Byte,
           (a + c) % Radix = (b + c) % Radix
    PROVE  a = b
<1>1. ASSUME NEW x \in Int, 0 <= x, x < 2 * Radix
      PROVE  x % Radix = IF x < Radix THEN x ELSE x - Radix
  <2>1. PICK q \in Int, r \in 0 .. Radix - 1 : x = q * Radix + r /\ r = x % Radix
    BY ProtocolAssumption, Z3
  <2>2. q = 0 \/ q = 1
    <3>1. ~(q >= 2)
      BY <1>1, <2>1, ProtocolAssumption, Z3
    <3>2. ~(q <= -1)
      BY <1>1, <2>1, ProtocolAssumption, Z3
    <3> QED
      BY <3>1, <3>2
  <2> QED
    BY <2>1, <2>2, ProtocolAssumption
<1> QED
  BY <1>1, ProtocolAssumption DEF Byte

\* The checksum detects every error in a single payload byte, whatever the
\* width of a byte and the length of the payload: a frame in which one
\* payload byte was changed no longer validates.
THEOREM ChecksumDetectsOneByte ==
    ASSUME NEW type \in Byte, NEW data \in Seq(Byte),
           NEW i \in 1 .. Len(data), NEW b \in Byte, b # data[i]
    PROVE  compute_checksum(type, [data EXCEPT ![i] = b]) # compute_checksum(type, data)
<1> DEFINE bad == [data EXCEPT ![i] = b]
           f == RunningSum(type, data)
           g == RunningSum(type, bad)
           S == {k \in Nat : k <= Len(data) => (f[k] = g[k] <=> k < i)}
<1>1. bad \in Seq(Byte) /\ Len(bad) = Len(data)
  OBVIOUS
<1>2. /\ f[0] = type /\ g[0] = type
      /\ \A k \in 0 .. Len(data) - 1 :
            /\ f[k + 1] = (f[k] + data[k + 1]) % Radix
            /\ g[k + 1] = (g[k] + bad[k + 1]) % Radix
            /\ f[k] \in Byte /\ g[k] \in Byte
            /\ data[k + 1] \in Byte /\ bad[k + 1] \in Byte
  BY <1>1, RunningSumStep, RunningSumType
<1> HIDE DEF f, g
<1>3. 0 \in S
  BY <1>2
<1>4. ASSUME NEW k \in Nat, k \in S PROVE k + 1 \in S
  <2>1. SUFFICES ASSUME k + 1 <= Len(data) PROVE f[k + 1] = g[k + 1] <=> k + 1 < i
    OBVIOUS
  <2>2. k \in 0 .. Len(data) - 1
    BY <2>1
  <2>3. f[k] = g[k] <=> k < i
    BY <1>4, <2>1
  <2>4. CASE k + 1 = i
    <3>1. f[k] = g[k] /\ data[k + 1] # bad[k + 1]
      BY <2>3, <2>4
    <3>2. f[k + 1] = (data[k + 1] + f[k]) % Radix /\ g[k + 1] = (bad[k + 1] + f[k]) % Radix
      BY <1>2, <2>2, <3>1 DEF Byte
    <3> QED
      BY <1>2, <2>2, <2>4, <3>1, <3>2, ByteSumInjective
  <2>5. CASE k + 1 # i
    <3>1. data[k + 1] = bad[k + 1]
      BY <2>2, <2>5
    <3>2. f[k + 1] = g[k + 1] <=> f[k] = g[k]
      BY <1>2, <2>2, <3>1, ByteSumInjective
    <3> QED
      BY <2>3, <2>5, <3>2
  <2> QED
    BY <2>4, <2>5
<1>5. Nat \subseteq S
  <2> HIDE DEF S
  <2> QED BY <1>3, <1>4, SetInduction
<1>6. f[Len(data)] # g[Len(data)]
  BY <1>5
<1>7. data # << >> /\ bad # << >>
  BY <1>1
<1> QED
  BY <1>1, <1>6, <1>7 DEF compute_checksum, f, g

\* A payload is a sequence of bytes.
LEMMA PayloadSeq ==
    ASSUME NEW p \in Payload
    PROVE  p \in Seq(Byte) /\ Len(p) = BUFFSIZE
  BY ProtocolAssumption DEF Payload

\* A pins frame has the size get_msg_size announces, starts with its type,
\* gives back the payload it was built from, and its checksum is accepted.
THEOREM PinsFrameFacts ==
    ASSUME NEW p \in Payload
    PROVE  /\ PinsFrame(p) \in Seq(Byte)
           /\ Len(PinsFrame(p)) = BUFFSIZE + 2
           /\ PinsFrame(p)[1] = MSG_PINS
           /\ DataOf(PinsFrame(p)) = p
           /\ validate_checksum(PinsFrame(p))
<1> DEFINE c == compute_checksum(MSG_PINS, p)
           F == PinsFrame(p)
<1>1. p \in Seq(Byte) /\ Len(p) = BUFFSIZE
  BY PayloadSeq
<1>2. MSG_PINS \in Byte
  BY ProtocolAssumption DEF MSG_PINS, Byte
<1>3. c \in Byte
  BY <1>1, <1>2, ChecksumType
<1>4. F = <<MSG_PINS>> \o p \o <<c>>
  BY DEF PinsFrame, Frame
<1> HIDE DEF c
<1>5. /\ <<MSG_PINS>> \o p \in Seq(Byte)
      /\ Len(<<MSG_PINS>> \o p) = BUFFSIZE + 1
      /\ (<<MSG_PINS>> \o p)[1] = MSG_PINS
      /\ \A i \in 1 .. BUFFSIZE : (<<MSG_PINS>> \o p)[i + 1] = p[i]
  BY <1>1, <1>2, ProtocolAssumption
<1>6. /\ F \in Seq(Byte)
      /\ Len(F) = BUFFSIZE + 2
      /\ F[1] = MSG_PINS
      /\ F[BUFFSIZE + 2] = c
      /\ \A i \in 1 .. BUFFSIZE : F[i + 1] = p[i]
  <2> HIDE DEF F
  <2> QED BY <1>3, <1>4, <1>5, ProtocolAssumption
<1> HIDE DEF F
<1>7. get_data_size(MSG_PINS) = BUFFSIZE
  BY ProtocolAssumption
     DEF get_data_size, get_msg_size, MSG_PINS, MSG_ERROR, MSG_STATUS
<1>8. DataOf(F) = p
  <2>1. DataOf(F) = SubSeq(F, 2, 1 + BUFFSIZE)
    BY <1>6, <1>7 DEF DataOf
  <2>2. /\ SubSeq(F, 2, 1 + BUFFSIZE) \in Seq(Byte)
        /\ Len(SubSeq(F, 2, 1 + BUFFSIZE)) = BUFFSIZE
        /\ \A i \in 1 .. BUFFSIZE : SubSeq(F, 2, 1 + BUFFSIZE)[i] = F[i + 1]
    BY <1>6, ProtocolAssumption
  <2> QED
    BY <1>1, <1>6, <2>1, <2>2, SeqEqual
<1>9. validate_checksum(F)
  BY <1>6, <1>7, <1>8, ProtocolAssumption DEF validate_checksum, ChecksumOf, TypeOf, c
<1> QED
  BY <1>6, <1>8, <1>9 DEF F

\* Cutting a sequence of bytes in two and moving the first part behind
\* another one neither loses nor reorders a byte.
LEMMA MoveChunk ==
    ASSUME NEW s \in Seq(Byte), NEW t \in Seq(Byte), NEW k \in 1 .. Len(t)
    PROVE  /\ SubSeq(t, 1, k) \in Seq(Byte)
           /\ SubSeq(t, k + 1, Len(t)) \in Seq(Byte)
           /\ s \o SubSeq(t, 1, k) \in Seq(Byte)
           /\ Len(s \o SubSeq(t, 1, k)) = Len(s) + k
           /\ (s \o SubSeq(t, 1, k)) \o SubSeq(t, k + 1, Len(t)) = s \o t
<1>1. /\ SubSeq(t, 1, k) \in Seq(Byte)
      /\ SubSeq(t, k + 1, Len(t)) \in Seq(Byte)
      /\ Len(SubSeq(t, 1, k)) = k
  OBVIOUS
<1>2. SubSeq(t, 1, k) \o SubSeq(t, k + 1, Len(t)) = t
  <2>1. 1 \in 1 .. Len(t) + 1 /\ k \in 1 - 1 .. Len(t) /\ Len(t) \in k .. Len(t)
    OBVIOUS
  <2>2. SubSeq(t, 1, k) \o SubSeq(t, k + 1, Len(t)) = SubSeq(t, 1, Len(t))
    BY <2>1, ConcatAdjacentSubSeq
  <2> QED
    BY <2>2, SubSeqFull
<1>3. ASSUME NEW u \in Seq(Byte), NEW v \in Seq(Byte), NEW w \in Seq(Byte)
      PROVE  (u \o v) \o w = u \o (v \o w)
  OBVIOUS
<1>4. (s \o SubSeq(t, 1, k)) \o SubSeq(t, k + 1, Len(t)) = s \o t
  <2>1. (s \o SubSeq(t, 1, k)) \o SubSeq(t, k + 1, Len(t))
        = s \o (SubSeq(t, 1, k) \o SubSeq(t, k + 1, Len(t)))
    BY <1>1, <1>3, Zenon
  <2> QED
    BY <1>2, <2>1
<1>5. s \o SubSeq(t, 1, k) \in Seq(Byte) /\ Len(s \o SubSeq(t, 1, k)) = Len(s) + k
  BY <1>1, ConcatProperties
<1> QED
  BY <1>1, <1>4, <1>5

=============================================================================
