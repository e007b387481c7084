--------------------------- MODULE SessionsProofs ---------------------------
(***************************************************************************)
(* The link over several host programs, for both firmwares.  As long as no *)
(* request is cut, what is on its way to the bridge is a series of whole   *)
(* pins messages - some of them from programs that are gone - and so is    *)
(* what is on its way back: nobody is refused.  The Rust firmware under    *)
(* one program does what the C++ firmware does, whatever came before.      *)
(***************************************************************************)
EXTENDS RustBridge, LinkProofs

FrameLen == BUFFSIZE + 2

-----------------------------------------------------------------------------
\* Rows of messages of a set M: the least set of byte sequences that has the
\* empty one and, with a row, that row and one message more.

RowClosed(S, M) == << >> \in S /\ \A s \in S, m \in M : s \o m \in S

RowsOf(M) == {b \in Bytes : \A S \in SUBSET Bytes : RowClosed(S, M) => b \in S}

\* Series: rows of pins messages.
PinsFrames == {PinsFrame(p) : p \in Payload}

Series == RowsOf(PinsFrames)

\* The bytes of a message.
LEMMA FrameBytes ==
    ASSUME NEW p \in Payload
    PROVE  PinsFrame(p) \in Bytes /\ Len(PinsFrame(p)) = FrameLen /\ PinsFrame(p) # << >>
  BY PinsFrameFacts, ProtocolAssumption DEF FrameLen, Bytes

\* Byte sequences: the facts about \o that the proofs below use.
LEMMA Concat ==
    ASSUME NEW a \in Bytes, NEW b \in Bytes
    PROVE  /\ a \o b \in Bytes /\ a \o << >> = a /\ << >> \o a = a
           /\ Len(a \o b) = Len(a) + Len(b)
  BY ConcatProperties, ConcatEmptySeq DEF Bytes

\* It does not matter where byte sequences are joined first.
LEMMA Joined == \A a, b, c \in Bytes : (a \o b) \o c = a \o (b \o c)
  BY DEF Bytes

\* The bytes of a sequence joined from two.
LEMMA ConcatAt ==
    ASSUME NEW a \in Seq(Byte), NEW b \in Seq(Byte)
    PROVE  /\ Len(a \o b) = Len(a) + Len(b)
           /\ \A i \in 1 .. Len(a) : (a \o b)[i] = a[i]
           /\ \A i \in 1 .. Len(b) : (a \o b)[Len(a) + i] = b[i]
  OBVIOUS

\* The empty row, and one message more at the end.
LEMMA RowGrows ==
    ASSUME NEW M \in SUBSET Bytes
    PROVE  << >> \in RowsOf(M) /\ \A s \in RowsOf(M), m \in M : s \o m \in RowsOf(M)
<1>1. << >> \in RowsOf(M)
  BY DEF RowsOf, RowClosed, Bytes
<1>2. ASSUME NEW s \in RowsOf(M), NEW m \in M PROVE s \o m \in RowsOf(M)
  <2>1. s \o m \in Bytes
    BY Concat DEF RowsOf
  <2>2. ASSUME NEW S \in SUBSET Bytes, RowClosed(S, M) PROVE s \o m \in S
    BY <2>2 DEF RowsOf, RowClosed
  <2> QED
    BY <2>1, <2>2 DEF RowsOf
<1> QED
  BY <1>1, <1>2

\* A row that is not empty has a first message, with a row behind it.
LEMMA RowHead ==
    ASSUME NEW M \in SUBSET Bytes, NEW b \in RowsOf(M)
    PROVE  b = << >> \/ \E m \in M, r \in RowsOf(M) : b = m \o r
<1> DEFINE Headed(s) == s = << >> \/ \E m \in M, r \in RowsOf(M) : s = m \o r
           S == {s \in Bytes : Headed(s)}
<1>1. << >> \in S
  BY DEF Bytes
<1>2. ASSUME NEW s \in S, NEW q \in M PROVE s \o q \in S
  <2>1. s \o q \in Bytes
    BY Concat
  <2>2. CASE s = << >>
    <3>1. s \o q = q \o << >>
      BY <2>2, Concat, Zenon
    <3>2. << >> \in RowsOf(M)
      BY RowGrows
    <3> QED
      BY <2>1, <3>1, <3>2
  <2>3. CASE s # << >>
    <3>1. PICK m \in M, r \in RowsOf(M) : s = m \o r
      BY <2>3
    <3>2. s \o q = m \o (r \o q)
      <4>1. m \in Bytes /\ r \in Bytes /\ q \in Bytes
        BY DEF RowsOf
      <4>2. (m \o r) \o q = m \o (r \o q)
        BY <4>1, Joined, Zenon
      <4> QED
        BY <3>1, <4>2, Zenon
    <3>3. r \o q \in RowsOf(M)
      BY RowGrows
    <3> QED
      BY <2>1, <3>2, <3>3
  <2> QED
    BY <2>2, <2>3
<1>3. S \in SUBSET Bytes
  OBVIOUS
<1> HIDE DEF S
<1>4. RowClosed(S, M)
  BY <1>1, <1>2 DEF RowClosed
<1>5. b \in S
  BY <1>3, <1>4, Zenon DEF RowsOf
<1> QED
  BY <1>5 DEF S

\* Pins messages are bytes.
LEMMA PinsFramesBytes == PinsFrames \in SUBSET Bytes
  BY FrameBytes DEF PinsFrames

\* The same for series.
LEMMA SeriesGrows ==
    /\ << >> \in Series
    /\ \A s \in Series, p \in Payload : s \o PinsFrame(p) \in Series
<1>1. << >> \in Series /\ \A s \in Series, m \in PinsFrames : s \o m \in Series
  BY PinsFramesBytes, RowGrows DEF Series
<1>2. \A p \in Payload : PinsFrame(p) \in PinsFrames
  BY DEF PinsFrames
<1> QED
  BY <1>1, <1>2

\* And what is first in one.
LEMMA SeriesHead ==
    ASSUME NEW b \in Series
    PROVE  b = << >> \/ \E p \in Payload, r \in Series : b = PinsFrame(p) \o r
<1>1. b = << >> \/ \E m \in PinsFrames, r \in Series : b = m \o r
  BY PinsFramesBytes, RowHead DEF Series
<1>2. \A m \in PinsFrames : \E p \in Payload : m = PinsFrame(p)
  BY DEF PinsFrames
<1> QED
  BY <1>1, <1>2

\* What a receiver that has b of a series b \o c may conclude from b alone:
\* the type of the first message, and, once b is long enough, the message.
LEMMA FirstMessage ==
    ASSUME NEW b \in Bytes, NEW c \in Bytes, b \o c \in Series, b # << >>
    PROVE  /\ b[1] = MSG_PINS
           /\ Len(b) >= FrameLen =>
                /\ DataOf(b) \in Payload /\ validate_checksum(b)
                /\ SubSeq(b, FrameLen + 1, Len(b)) \o c \in Series
<1>1. b \o c # << >>
  <2>1. Len(b \o c) = Len(b) + Len(c)
    BY Concat
  <2> QED
    BY <2>1 DEF Bytes
<1>2. PICK p \in Payload, r \in Series : b \o c = PinsFrame(p) \o r
  BY <1>1, SeriesHead
<1> DEFINE F == PinsFrame(p)
<1>3. F \in Seq(Byte) /\ Len(F) = FrameLen /\ F[1] = MSG_PINS /\ DataOf(F) = p
      /\ validate_checksum(F)
  BY PinsFrameFacts DEF FrameLen
<1>4. r \in Seq(Byte) /\ b \in Seq(Byte) /\ c \in Seq(Byte)
  BY DEF Series, RowsOf, Bytes
<1>5. FrameLen \in Nat /\ FrameLen >= 3 /\ BUFFSIZE \in Nat /\ FrameLen = BUFFSIZE + 2
  BY ProtocolAssumption DEF FrameLen
<1>10. b \o c = F \o r
  BY <1>2
<1> HIDE DEF F
<1>6. /\ Len(b \o c) = Len(b) + Len(c)
      /\ \A i \in 1 .. Len(b) : (b \o c)[i] = b[i]
      /\ \A i \in 1 .. Len(c) : (b \o c)[Len(b) + i] = c[i]
  BY <1>4
<1>7. /\ b \o c = F \o r
      /\ Len(F \o r) = FrameLen + Len(r)
      /\ \A i \in 1 .. FrameLen : (F \o r)[i] = F[i]
      /\ \A i \in 1 .. Len(r) : (F \o r)[FrameLen + i] = r[i]
  <2>1. /\ Len(F \o r) = Len(F) + Len(r)
        /\ \A i \in 1 .. Len(F) : (F \o r)[i] = F[i]
        /\ \A i \in 1 .. Len(r) : (F \o r)[Len(F) + i] = r[i]
    BY <1>3, <1>4, ConcatAt, Zenon
  <2> QED
    BY <1>3, <1>10, <2>1, Zenon
<1>8. b[1] = MSG_PINS
  <2>1. 1 \in 1 .. Len(b) /\ 1 \in 1 .. FrameLen
    BY <1>4, <1>5
  <2> QED
    BY <1>3, <1>6, <1>7, <2>1
<1>9. ASSUME Len(b) >= FrameLen
      PROVE  /\ DataOf(b) = p /\ validate_checksum(b)
             /\ SubSeq(b, FrameLen + 1, Len(b)) \o c = r
  <2>1. \A i \in 1 .. FrameLen : b[i] = F[i]
    <3>1. \A i \in 1 .. FrameLen : i \in 1 .. Len(b)
      BY <1>4, <1>5, <1>9
    <3> QED
      BY <1>6, <1>7, <3>1
  <2>2. get_data_size(MSG_PINS) = BUFFSIZE
    BY ProtocolAssumption
       DEF get_data_size, get_msg_size, MSG_PINS, MSG_ERROR, MSG_STATUS
  <2>3. DataOf(b) = SubSeq(b, 2, 1 + BUFFSIZE) /\ DataOf(F) = SubSeq(F, 2, 1 + BUFFSIZE)
    BY <1>3, <1>8, <2>2 DEF DataOf
  <2>4. SubSeq(b, 2, 1 + BUFFSIZE) = SubSeq(F, 2, 1 + BUFFSIZE)
    <3> DEFINE x == SubSeq(b, 2, 1 + BUFFSIZE)
               y == SubSeq(F, 2, 1 + BUFFSIZE)
    <3>1. /\ x \in Seq(Byte) /\ Len(x) = BUFFSIZE
          /\ \A i \in 1 .. BUFFSIZE : x[i] = b[i + 1]
      BY <1>4, <1>5, <1>9
    <3>2. /\ y \in Seq(Byte) /\ Len(y) = BUFFSIZE
          /\ \A i \in 1 .. BUFFSIZE : y[i] = F[i + 1]
      BY <1>3, <1>5
    <3> HIDE DEF x, y
    <3>3. \A i \in 1 .. BUFFSIZE : x[i] = y[i]
      <4>1. \A i \in 1 .. BUFFSIZE : i + 1 \in 1 .. FrameLen
        BY <1>5
      <4> QED
        BY <2>1, <3>1, <3>2, <4>1
    <3>4. x = y
      BY <3>1, <3>2, <3>3, SeqEqual
    <3> QED
      BY <3>4 DEF x, y
  <2>5. DataOf(b) = p
    BY <1>3, <2>3, <2>4
  <2>6. validate_checksum(b)
    <3>1. 2 + BUFFSIZE \in 1 .. FrameLen
      BY <1>5
    <3>2. b[2 + BUFFSIZE] = F[2 + BUFFSIZE]
      BY <2>1, <3>1
    <3> QED
      BY <1>3, <1>8, <2>2, <2>5, <3>2
         DEF validate_checksum, ChecksumOf, TypeOf
  <2>7. SubSeq(b, FrameLen + 1, Len(b)) \o c = r
    <3> DEFINE t == SubSeq(b, FrameLen + 1, Len(b))
    <3>1. /\ t \in Seq(Byte) /\ Len(t) = Len(b) - FrameLen
          /\ \A i \in 1 .. Len(b) - FrameLen : t[i] = b[FrameLen + i]
      BY <1>4, <1>5, <1>9
    <3> HIDE DEF t
    <3>2. /\ t \o c \in Seq(Byte) /\ Len(t \o c) = Len(t) + Len(c)
          /\ \A i \in 1 .. Len(t) + Len(c) :
                (t \o c)[i] = IF i <= Len(t) THEN t[i] ELSE c[i - Len(t)]
      BY <1>4, <3>1, ConcatProperties
    <3>3. Len(t \o c) = Len(r)
      BY <1>4, <1>5, <1>6, <1>7, <3>1, <3>2
    <3>4. ASSUME NEW i \in 1 .. Len(r) PROVE (t \o c)[i] = r[i]
      <4>1. r[i] = (b \o c)[FrameLen + i]
        BY <1>7
      <4>2. CASE i <= Len(t)
        <5>1. FrameLen + i \in 1 .. Len(b) /\ i \in 1 .. Len(b) - FrameLen
          BY <1>4, <1>5, <3>1, <4>2
        <5>2. (b \o c)[FrameLen + i] = b[FrameLen + i]
          BY <1>6, <5>1
        <5>3. (t \o c)[i] = t[i]
          BY <3>2, <3>3, <4>2
        <5> QED
          BY <3>1, <4>1, <5>1, <5>2, <5>3
      <4>3. CASE i > Len(t)
        <5> DEFINE j == i - Len(t)
        <5>1. j \in 1 .. Len(c) /\ FrameLen + i = Len(b) + j
          BY <1>4, <1>5, <3>1, <3>2, <3>3, <4>3
        <5>2. (t \o c)[i] = c[j]
          BY <3>2, <3>3, <4>3
        <5> HIDE DEF j
        <5> QED
          BY <1>6, <4>1, <5>1, <5>2
      <4>4. Len(t) \in Int /\ i \in Int
        BY <3>1
      <4>5. i <= Len(t) \/ i > Len(t)
        BY <4>4
      <4> QED
        BY <4>2, <4>3, <4>5
    <3>5. t \o c = r
      BY <1>4, <3>2, <3>3, <3>4, SeqEqual
    <3> QED
      BY <3>5 DEF t
  <2> QED
    BY <2>5, <2>6, <2>7
<1> QED
  BY <1>8, <1>9

-----------------------------------------------------------------------------
\* The parts of the link, without Lockstep: what they do to the types and to
\* a series.

\* The payload of a message that is long enough, whatever it is.
LEMMA PayloadOf ==
    ASSUME NEW b \in Bytes, b[1] = MSG_PINS, Len(b) >= FrameLen
    PROVE  DataOf(b) \in Payload
<1>1. BUFFSIZE \in Nat /\ BUFFSIZE > 0 /\ FrameLen = BUFFSIZE + 2
  BY ProtocolAssumption DEF FrameLen
<1>2. get_data_size(MSG_PINS) = BUFFSIZE
  BY ProtocolAssumption
     DEF get_data_size, get_msg_size, MSG_PINS, MSG_ERROR, MSG_STATUS
<1>3. DataOf(b) = SubSeq(b, 2, 1 + BUFFSIZE)
  BY <1>2 DEF DataOf
<1> DEFINE d == SubSeq(b, 2, 1 + BUFFSIZE)
<1>4. d \in Seq(Byte) /\ Len(d) = BUFFSIZE
  BY <1>1 DEF Bytes
<1> HIDE DEF d
<1>5. d \in Payload
  BY <1>1, <1>4 DEF Payload
<1> QED
  BY <1>3, <1>5 DEF d

\* An error message consists of bytes.
LEMMA ErrorBytes ==
    ASSUME NEW code \in {ERR_INVALID_MSG_TYPE, ERR_INVALID_CHECKSUM}
    PROVE  ErrorFrame(code) \in Bytes
<1> DEFINE c == compute_checksum(MSG_ERROR, <<code>>)
<1>1. MSG_ERROR \in Byte /\ code \in Byte
  BY ProtocolAssumption
     DEF Byte, MSG_ERROR, ERR_INVALID_MSG_TYPE, ERR_INVALID_CHECKSUM
<1>2. <<code>> \in Seq(Byte)
  BY <1>1
<1>3. c \in Byte
  BY <1>1, <1>2, ChecksumType
<1>4. ErrorFrame(code) = <<MSG_ERROR>> \o <<code>> \o <<c>>
  BY DEF ErrorFrame, Frame
<1> HIDE DEF c
<1> QED
  BY <1>1, <1>3, <1>4 DEF Bytes

\* A request is put behind what is under way.
LEMMA WriteKeeps ==
    ASSUME TypeOK, write_serial
    PROVE  /\ TypeOK'
           /\ host = "ready" /\ host' = "waiting" /\ got' = << >>
           /\ req' \in Payload /\ wire' = wire \o PinsFrame(req')
           /\ UNCHANGED <<rx, tx>>
<1>1. PICK p \in Levels : req' = p /\ wire' = wire \o PinsFrame(p)
  BY LevelsAssumption, RequestIsPinsFrame DEF write_serial
<1>2. p \in Payload
  BY LevelsAssumption
<1>3. wire' \in Bytes
  BY <1>1, <1>2, FrameBytes, Concat DEF TypeOK
<1>4. got' \in Bytes
  BY DEF write_serial, Bytes
<1> QED
  BY <1>1, <1>2, <1>3, <1>4 DEF write_serial, TypeOK

\* Reading takes bytes off the reply; it ends ready, or in the error exit.
LEMMA ReadKeeps ==
    ASSUME TypeOK, read_serial
    PROVE  /\ TypeOK'
           /\ host = "waiting" /\ (host' = "ready" => got' = << >>)
           /\ UNCHANGED <<rx, wire, req>>
<1>1. CASE read_exact
  <2>1. PICK k \in 1 .. Len(tx) :
              got' = got \o SubSeq(tx, 1, k) /\ tx' = SubSeq(tx, k + 1, Len(tx))
    BY <1>1 DEF read_exact
  <2>2. got' \in Bytes /\ tx' \in Bytes
    BY <2>1, MoveChunk DEF TypeOK, Bytes
  <2> QED
    BY <1>1, <2>2 DEF read_exact, TypeOK
<1>2. CASE EndRead
  <2>1. CASE GoodReply(got)
    <3>1. got \in Bytes /\ got[1] = MSG_PINS /\ Len(got) = FrameLen
      BY <1>2, <2>1, ProtocolAssumption
         DEF TypeOK, EndRead, ReplyComplete, Wanted, GoodReply, FrameLen, MSG_PINS, MSG_ERROR
    <3>2. Len(got) >= FrameLen
      BY <3>1, ProtocolAssumption DEF FrameLen
    <3>3. result' \in Payload
      BY <1>2, <2>1, <3>1, <3>2, PayloadOf DEF EndRead
    <3>4. got' \in Bytes /\ got' = << >> /\ host' = "ready"
      BY <1>2, <2>1 DEF EndRead, Bytes
    <3> QED
      BY <1>2, <3>3, <3>4 DEF EndRead, ReplyComplete, TypeOK
  <2>2. CASE ~GoodReply(got)
    BY <1>2, <2>2 DEF EndRead, ReplyComplete, TypeOK
  <2> QED
    BY <2>1, <2>2
<1> QED
  BY <1>1, <1>2 DEF read_serial

\* Of a series of good replies none is refused.
LEMMA ReadSeries ==
    ASSUME TypeOK, read_serial, got \o tx \in Series
    PROVE  got' \o tx' \in Series /\ host' # "failed"
<1>1. CASE read_exact
  <2>1. PICK k \in 1 .. Len(tx) :
              got' = got \o SubSeq(tx, 1, k) /\ tx' = SubSeq(tx, k + 1, Len(tx))
    BY <1>1 DEF read_exact
  <2>2. got' \o tx' = got \o tx
    BY <2>1, MoveChunk DEF TypeOK, Bytes
  <2> QED
    BY <1>1, <2>2 DEF read_exact
<1>2. CASE EndRead
  <2>1. got # << >> /\ Len(got) = Wanted(got) /\ got \in Bytes /\ tx \in Bytes
    BY <1>2 DEF EndRead, ReplyComplete, TypeOK
  <2>2. got[1] = MSG_PINS
    BY <2>1, FirstMessage
  <2>3. Len(got) = FrameLen /\ Len(got) >= FrameLen
    BY <2>1, <2>2, ProtocolAssumption DEF Wanted, FrameLen, MSG_PINS, MSG_ERROR
  <2>4. validate_checksum(got) /\ SubSeq(got, FrameLen + 1, Len(got)) \o tx \in Series
    BY <2>1, <2>3, FirstMessage
  <2>5. SubSeq(got, FrameLen + 1, Len(got)) = << >>
    BY <2>1, <2>3, ProtocolAssumption DEF Bytes, FrameLen
  <2>6. DataOf(got) \in Payload
    BY <2>1, <2>2, <2>3, PayloadOf
  <2>7. GoodReply(got)
    BY <2>2, <2>4, <2>6, GoodReplyIs
  <2>8. got' = << >> /\ tx' = tx /\ host' = "ready"
    BY <1>2, <2>7 DEF EndRead
  <2> QED
    BY <2>4, <2>5, <2>8
<1> QED
  BY <1>1, <1>2 DEF read_serial

\* USB keeps the order of the bytes.
LEMMA DeliverKeeps ==
    ASSUME TypeOK, Deliver
    PROVE  /\ TypeOK'
           /\ rx' \o wire' = rx \o wire
           /\ UNCHANGED <<host, req, got, tx>>
<1>1. PICK k \in 1 .. Len(wire) :
            rx' = rx \o SubSeq(wire, 1, k) /\ wire' = SubSeq(wire, k + 1, Len(wire))
  BY DEF Deliver
<1>2. rx' \in Bytes /\ wire' \in Bytes /\ rx' \o wire' = rx \o wire
  BY <1>1, MoveChunk DEF TypeOK, Bytes
<1> QED
  BY <1>2 DEF Deliver, TypeOK

\* Whatever is in the receive buffer, the bridge takes a piece off its head
\* and answers with a message.
LEMMA LoopKeeps ==
    ASSUME TypeOK, loop_prod
    PROVE  TypeOK' /\ UNCHANGED <<host, req, got, wire>>
<1>1. rx \in Seq(Byte) /\ rx # << >> /\ tx \in Bytes
  BY DEF TypeOK, Bytes, loop_prod, UnknownType, CompleteMsg
<1> DEFINE n == IF UnknownType THEN 1 ELSE get_msg_size(PeekType)
<1>2. n \in Nat /\ n <= Len(rx)
  <2>1. CASE UnknownType
    BY <1>1, <2>1
  <2>2. CASE ~UnknownType
    <3>1. CompleteMsg
      BY <2>2 DEF loop_prod
    <3>2. get_msg_size(PeekType) \in Nat
      BY ProtocolAssumption DEF get_msg_size
    <3> QED
      BY <2>2, <3>1, <3>2 DEF CompleteMsg
  <2> QED
    BY <2>1, <2>2
<1>3. rx' = SubSeq(rx, n + 1, Len(rx))
  BY DEF loop_prod, Rest
<1> HIDE DEF n
<1>4. rx' \in Bytes
  BY <1>1, <1>2, <1>3 DEF Bytes
<1>5. tx' \in Bytes /\ pins' \in Payload /\ sample' \in Payload
  <2>1. CASE Reject(ERR_INVALID_MSG_TYPE) \/ Reject(ERR_INVALID_CHECKSUM)
    <3>1. PICK code \in {ERR_INVALID_MSG_TYPE, ERR_INVALID_CHECKSUM} : Reject(code)
      BY <2>1
    <3>2. ErrorFrame(code) \in Bytes
      BY ErrorBytes
    <3>3. tx' \in Bytes
      BY <1>1, <3>1, <3>2, Concat DEF Reject
    <3> QED
      BY <3>1, <3>3 DEF Reject, TypeOK, bridgeVars
  <2>2. CASE PeekType = MSG_PINS /\ Serve
    <3>1. PICK s \in Levels : sample' = s /\ tx' = tx \o PinsFrame(s)
      BY <2>2 DEF Serve
    <3>2. s \in Payload
      BY LevelsAssumption
    <3>3. tx' \in Bytes
      BY <1>1, <3>1, <3>2, FrameBytes, Concat
    <3>4. get_msg_size(MSG_PINS) = FrameLen /\ FrameLen # 0
      BY ProtocolAssumption DEF get_msg_size, FrameLen, MSG_PINS, MSG_ERROR, MSG_STATUS
    <3>5. CompleteMsg
      BY <2>2, <3>4 DEF loop_prod, UnknownType
    <3>6. rx[1] = MSG_PINS /\ Len(rx) >= FrameLen
      BY <2>2, <3>4, <3>5 DEF CompleteMsg, PeekType
    <3>7. DataOf(rx) \in Payload
      BY <1>1, <3>6, PayloadOf DEF Bytes
    <3> QED
      BY <2>2, <3>1, <3>2, <3>3, <3>7 DEF Serve
  <2> QED
    BY <2>1, <2>2 DEF loop_prod
<1> QED
  BY <1>4, <1>5 DEF loop_prod, TypeOK

\* Of a series of requests the bridge serves the first and leaves the others.
LEMMA LoopSeries ==
    ASSUME TypeOK, loop_prod, rx \o wire \in Series
    PROVE  /\ rx' \o wire \in Series
           /\ \E s \in Payload : tx' = tx \o PinsFrame(s)
<1>1. rx \in Bytes /\ wire \in Bytes /\ rx # << >>
  BY DEF TypeOK, loop_prod, UnknownType, CompleteMsg
<1>2. get_msg_size(MSG_PINS) = FrameLen /\ FrameLen # 0
  BY ProtocolAssumption DEF get_msg_size, FrameLen, MSG_PINS, MSG_ERROR, MSG_STATUS
<1>3. PeekType = MSG_PINS
  BY <1>1, FirstMessage DEF PeekType
<1>4. ~UnknownType /\ CompleteMsg
  BY <1>2, <1>3 DEF UnknownType, loop_prod
<1>5. Len(rx) >= FrameLen
  BY <1>2, <1>3, <1>4 DEF CompleteMsg
<1>6. validate_checksum(rx) /\ SubSeq(rx, FrameLen + 1, Len(rx)) \o wire \in Series
  BY <1>1, <1>5, FirstMessage
<1>7. rx' = SubSeq(rx, FrameLen + 1, Len(rx)) /\ Serve
  BY <1>2, <1>3, <1>4, <1>6 DEF loop_prod, Rest
<1>8. \E s \in Payload : tx' = tx \o PinsFrame(s)
  BY <1>7, LevelsAssumption DEF Serve
<1> QED
  BY <1>6, <1>7, <1>8

-----------------------------------------------------------------------------
(* Sessions: the C++ firmware.                                             *)

\* What a closed port leaves, and that a program is refused at most once.
Ports ==
    /\ dtr \in BOOLEAN /\ fresh \in BOOLEAN /\ rushed \in BOOLEAN
    /\ hosts \in 0 .. MaxHosts /\ cuts \in 0 .. MaxCuts
    /\ refused \in Nat /\ refused <= hosts
    /\ dtr /\ host # "failed" => refused < hosts
    /\ ~dtr => host = "ready" /\ wire = << >> /\ tx = << >>
    /\ host = "ready" => got = << >>

\* Nothing but whole messages, in both directions, and nobody was refused.
Framed ==
    /\ rx \o wire \in Series
    /\ got \o tx \in Series
    /\ host # "failed"

SInv == TypeOK /\ Ports /\ (cuts = 0 => Framed)

\* The numbers in the bounds, for the arithmetic.
LEMMA Bounds == MaxHosts \in Nat /\ MaxCuts \in Nat /\ FirstLevels \in Levels
  BY SessionsAssumption

\* Before the first program nothing is in flight.
LEMMA SInitInv == SInit => SInv
<1> SUFFICES ASSUME SInit PROVE SInv
  OBVIOUS
<1>1. TypeOK
  BY InitInv DEF SInit, Inv
<1>2. Ports
  <2>1. /\ dtr = FALSE /\ fresh = TRUE /\ rushed = FALSE /\ hosts = 0 /\ cuts = 0 /\ refused = 0
        /\ host = "ready" /\ wire = << >> /\ tx = << >> /\ got = << >>
    BY Zenon DEF SInit, Init
  <2>2. hosts \in 0 .. MaxHosts /\ cuts \in 0 .. MaxCuts /\ refused \in Nat /\ refused <= hosts
    BY <2>1, Bounds
  <2> QED
    BY <2>1, <2>2, Zenon DEF Ports
<1>3. << >> \o << >> = << >> /\ << >> \in Series
  BY SeriesGrows
<1>4. Framed
  BY <1>3 DEF SInit, Init, Framed
<1> QED
  BY <1>1, <1>2, <1>4 DEF SInv

-----------------------------------------------------------------------------
\* What the steps of the programs and of USB do to the types, the ports and
\* the bytes, with either firmware.

\* Ports and types, step by step.  Opening the port flushes nothing.
LEMMA OpenPorts ==
    ASSUME TypeOK, Ports, Open
    PROVE  TypeOK' /\ Ports' /\ refused' = refused
<1>1. TypeOK'
  BY DEF Open, vars, TypeOK
<1>2. hosts' \in 0 .. MaxHosts /\ refused' \in Nat /\ refused' < hosts'
  BY Bounds DEF Ports, Open
<1>3. refused' <= hosts'
  BY <1>2, Bounds
<1> QED
  BY <1>1, <1>2, <1>3 DEF Ports, Open, vars

\* A request of the program.
LEMMA HostWritePorts ==
    ASSUME TypeOK, Ports, HostWrite
    PROVE  /\ TypeOK' /\ Ports'
           /\ got = << >> /\ got' = << >> /\ host' = "waiting" /\ UNCHANGED <<rx, tx, refused>>
           /\ \E p \in Payload : wire' = wire \o PinsFrame(p)
<1>1. /\ TypeOK' /\ host = "ready" /\ host' = "waiting" /\ got' = << >>
      /\ req' \in Payload /\ wire' = wire \o PinsFrame(req') /\ UNCHANGED <<rx, tx>>
  BY WriteKeeps DEF HostWrite
<1>2. Ports'
  BY <1>1 DEF Ports, HostWrite, tally
<1> QED
  BY <1>1, <1>2 DEF Ports, HostWrite, tally

\* A program is refused once, and then does nothing more.
LEMMA HostReadPorts ==
    ASSUME TypeOK, Ports, HostRead
    PROVE  /\ TypeOK' /\ Ports' /\ UNCHANGED <<rx, wire>>
           /\ host' # "failed" => refused' = refused
<1>1. /\ TypeOK' /\ host = "waiting" /\ (host' = "ready" => got' = << >>)
      /\ UNCHANGED <<rx, wire, req>>
  BY ReadKeeps DEF HostRead
<1>2. refused' \in Nat /\ refused' <= hosts' /\ (host' # "failed" => refused' < hosts')
  BY <1>1, Bounds DEF Ports, HostRead
<1>3. Ports'
  BY <1>1, <1>2 DEF Ports, HostRead
<1> QED
  BY <1>1, <1>3 DEF HostRead

\* Bytes that arrive.
LEMMA UsbPorts ==
    ASSUME TypeOK, Ports, UsbDeliver
    PROVE  /\ TypeOK' /\ Ports'
           /\ rx' \o wire' = rx \o wire /\ UNCHANGED <<host, got, tx, refused>>
<1>1. TypeOK' /\ rx' \o wire' = rx \o wire /\ UNCHANGED <<host, req, got, tx>>
  BY DeliverKeeps DEF UsbDeliver
<1> QED
  BY <1>1 DEF Ports, UsbDeliver, tally

\* The types after a program is gone.
LEMMA CloseKeeps ==
    ASSUME TypeOK, NEW k \in 0 .. Len(wire), Close(k)
    PROVE  TypeOK' /\ rx' = rx \o SubSeq(wire, 1, k)
<1>1. SubSeq(wire, 1, k) \in Bytes
  BY DEF TypeOK, Bytes
<1>2. rx' = rx \o SubSeq(wire, 1, k)
  BY DEF Close
<1>3. rx' \in Bytes
  BY <1>1, <1>2, Concat DEF TypeOK
<1>4. << >> \in Bytes
  BY DEF Bytes
<1> QED
  BY <1>2, <1>3, <1>4 DEF Close, TypeOK

\* A program that is gone takes what it has not read with it.
LEMMA ClosePorts ==
    ASSUME TypeOK, Ports, CloseClean \/ CloseCut
    PROVE  /\ TypeOK' /\ Ports' /\ host' = "ready" /\ refused' = refused
           /\ got' = << >> /\ tx' = << >> /\ wire' = << >>
           /\ cuts' = 0 => cuts = 0 /\ rx' = rx \o wire
<1>0. Len(wire) \in Nat /\ wire \in Seq(Byte)
  BY DEF TypeOK, Bytes
<1>1. CASE CloseClean
  <2>1. Len(wire) \in 0 .. Len(wire) /\ Close(Len(wire))
    BY <1>0, <1>1 DEF CloseClean
  <2>2. TypeOK' /\ rx' = rx \o SubSeq(wire, 1, Len(wire))
    BY <2>1, CloseKeeps
  <2>3. SubSeq(wire, 1, Len(wire)) = wire
    BY <1>0, SubSeqFull
  <2>4. rushed' \in BOOLEAN
    BY <1>1 DEF CloseClean, Ports
  <2>5. Ports'
    BY <1>1, <2>1, <2>4 DEF Close, CloseClean, Ports
  <2> QED
    BY <1>1, <2>1, <2>2, <2>3, <2>5 DEF Close, CloseClean
<1>2. CASE CloseCut
  <2>1. PICK k \in 0 .. Len(wire) - 1 : Close(k)
    BY <1>2 DEF CloseCut
  <2>2. k \in 0 .. Len(wire)
    BY <1>0
  <2>3. TypeOK'
    BY <2>1, <2>2, CloseKeeps
  <2>4. cuts' \in 0 .. MaxCuts /\ cuts' # 0
    BY <1>2, Bounds DEF CloseCut, Ports
  <2>5. Ports'
    BY <1>2, <2>1, <2>4 DEF Close, CloseCut, Ports
  <2> QED
    BY <2>1, <2>3, <2>4, <2>5 DEF Close
<1> QED
  BY <1>1, <1>2

-----------------------------------------------------------------------------
\* The steps of Sessions.

\* Whole messages, step by step.  Opening the port brings no bytes.
LEMMA OpenStep == ASSUME SInv, Open PROVE SInv'
  BY OpenPorts DEF SInv, Framed, Open, vars

\* A request keeps whole messages whole.
LEMMA WriteFramed ==
    ASSUME SInv, HostWrite, Framed
    PROVE  Framed'
<1>1. /\ got = << >> /\ got' = << >> /\ host' = "waiting" /\ UNCHANGED <<rx, tx>>
  BY HostWritePorts DEF SInv
<1>2. PICK p \in Payload : wire' = wire \o PinsFrame(p)
  BY HostWritePorts DEF SInv
<1>3. rx \in Bytes /\ wire \in Bytes /\ PinsFrame(p) \in Bytes
  BY FrameBytes DEF SInv, TypeOK
<1>4. (rx \o wire) \o PinsFrame(p) = rx \o (wire \o PinsFrame(p))
  BY <1>3, Joined, Zenon
<1>5. (rx \o wire) \o PinsFrame(p) \in Series
  BY SeriesGrows DEF Framed
<1> QED
  BY <1>1, <1>2, <1>4, <1>5 DEF Framed

\* A request is one message more on the way.
LEMMA HostWriteStep == ASSUME SInv, HostWrite PROVE SInv'
  BY HostWritePorts, WriteFramed DEF SInv, HostWrite, tally

\* A reply is one message less on the way back, and a good one.
LEMMA HostReadStep == ASSUME SInv, HostRead PROVE SInv'
<1>1. TypeOK' /\ Ports' /\ UNCHANGED <<rx, wire>>
  BY HostReadPorts DEF SInv
<1>2. ASSUME cuts' = 0 PROVE Framed'
  <2>1. Framed /\ TypeOK /\ read_serial
    BY <1>2 DEF SInv, HostRead
  <2>2. got' \o tx' \in Series /\ host' # "failed"
    BY <2>1, ReadSeries DEF Framed
  <2> QED
    BY <1>1, <2>1, <2>2 DEF Framed
<1> QED
  BY <1>1, <1>2 DEF SInv

\* Delivery moves a part of the series from the wire to the buffer.
LEMMA UsbStep == ASSUME SInv, UsbDeliver PROVE SInv'
<1>1. TypeOK' /\ Ports' /\ rx' \o wire' = rx \o wire /\ UNCHANGED <<host, got, tx>>
  BY UsbPorts DEF SInv
<1> QED
  BY <1>1 DEF SInv, Framed, UsbDeliver, tally

\* loop_prod keeps whole messages whole.
LEMMA LoopFramed ==
    ASSUME SInv, Loop, Framed
    PROVE  Framed'
<1>1. TypeOK /\ loop_prod /\ UNCHANGED <<host, got, wire>>
  BY LoopKeeps DEF SInv, Loop
<1>2. rx' \o wire \in Series
  BY <1>1, LoopSeries DEF Framed
<1>3. PICK s \in Payload : tx' = tx \o PinsFrame(s)
  BY <1>1, LoopSeries DEF Framed
<1>4. got \in Bytes /\ tx \in Bytes /\ PinsFrame(s) \in Bytes
  BY <1>1, FrameBytes DEF TypeOK
<1>5. (got \o tx) \o PinsFrame(s) = got \o (tx \o PinsFrame(s))
  BY <1>4, Joined, Zenon
<1>6. (got \o tx) \o PinsFrame(s) \in Series
  BY SeriesGrows DEF Framed
<1> QED
  BY <1>1, <1>2, <1>3, <1>5, <1>6 DEF Framed

\* loop_prod serves the first message of the series.
LEMMA LoopStep == ASSUME SInv, Loop PROVE SInv'
<1>1. TypeOK' /\ UNCHANGED <<host, req, got, wire>>
  BY LoopKeeps DEF SInv, Loop
<1>2. Ports'
  BY <1>1 DEF SInv, Ports, Loop, tally
<1>3. cuts' = 0 => Framed'
  BY LoopFramed DEF SInv, Loop, tally
<1> QED
  BY <1>1, <1>2, <1>3 DEF SInv

\* A program that dies without a cut leaves whole messages.
LEMMA CloseStep == ASSUME SInv, CloseClean \/ CloseCut PROVE SInv'
<1>1. /\ TypeOK' /\ Ports' /\ host' = "ready"
      /\ got' = << >> /\ tx' = << >> /\ wire' = << >>
      /\ cuts' = 0 => cuts = 0 /\ rx' = rx \o wire
  BY ClosePorts DEF SInv
<1>2. ASSUME cuts' = 0 PROVE Framed'
  <2>1. rx \o wire \in Series /\ rx \o wire \in Bytes
    BY <1>1, <1>2 DEF SInv, Framed, Series, RowsOf
  <2>2. rx' \o wire' = rx \o wire /\ got' \o tx' = << >>
    BY <1>1, <1>2, <2>1, Concat
  <2> QED
    BY <1>1, <2>1, <2>2, SeriesGrows DEF Framed
<1> QED
  BY <1>1, <1>2 DEF SInv

\* The invariant is inductive: no call of loop() and no death of a program
\* brings anything but whole messages into the buffers, but by a cut.
THEOREM SessionsInductive == SSpec => []SInv
<1>1. SInit => SInv
  BY SInitInv
<1>2. SInv /\ [SNext]_svars => SInv'
  <2> SUFFICES ASSUME SInv, [SNext]_svars PROVE SInv'
    OBVIOUS
  <2>1. CASE UNCHANGED svars
    BY <2>1 DEF svars, vars, tally, SInv, TypeOK, Ports, Framed
  <2> QED
    BY <2>1, OpenStep, HostWriteStep, HostReadStep, UsbStep, LoopStep, CloseStep DEF SNext
<1> QED
  BY <1>1, <1>2, PTL DEF SSpec

\* Types: in particular no program is refused twice.
THEOREM SessionsTypes == SSpec => []STypeOK
<1>1. SInv => STypeOK
  <2> SUFFICES ASSUME SInv PROVE STypeOK
    OBVIOUS
  <2>1. refused \in 0 .. MaxHosts
    BY Bounds DEF SInv, Ports
  <2> QED
    BY <2>1 DEF SInv, Ports, STypeOK
<1> QED
  BY <1>1, SessionsInductive, PTL

\* However many programs die between requests, or between a request and its
\* reply, the framing survives: only a request that lost its tail can make
\* the bridge, or a program, refuse a message.
THEOREM OnlyCuts == SSpec => []OnlyCutsDesynchronise
<1>1. SInv => OnlyCutsDesynchronise
  BY DEF SInv, Framed, OnlyCutsDesynchronise
<1> QED
  BY <1>1, SessionsInductive, PTL

-----------------------------------------------------------------------------
(* Remains: what the bridge makes of a request that lost its tail.         *)

\* What is left of a byte sequence without its first n bytes.
Drop(s, n) == SubSeq(s, n + 1, Len(s))

\* Its bytes.
LEMMA DropBytes ==
    ASSUME NEW s \in Bytes, NEW n \in 0 .. Len(s)
    PROVE  /\ Drop(s, n) \in Bytes /\ Len(Drop(s, n)) = Len(s) - n
           /\ \A i \in 1 .. Len(s) - n : Drop(s, n)[i] = s[n + i]
  BY DEF Drop, Bytes

\* Two byte sequences with the same bytes are the same.
LEMMA SameBytes ==
    ASSUME NEW a \in Bytes, NEW b \in Bytes, Len(a) = Len(b),
           \A i \in 1 .. Len(a) : a[i] = b[i]
    PROVE  a = b
  BY SeqEqual DEF Bytes

\* The first bytes of two sequences joined are those of the first.
LEMMA DropOfFirst ==
    ASSUME NEW a \in Bytes, NEW b \in Bytes, NEW n \in 0 .. Len(a)
    PROVE  Drop(a \o b, n) = Drop(a, n) \o b
<1> DEFINE s == a \o b
           x == Drop(s, n)
           y == Drop(a, n)
<1>0. Len(a) \in Nat /\ Len(b) \in Nat /\ n \in Nat
  BY DEF Bytes
<1>1. s \in Bytes /\ Len(s) = Len(a) + Len(b)
  BY Concat
<1> HIDE DEF s
<1>2. /\ x \in Bytes /\ Len(x) = Len(s) - n
      /\ \A i \in 1 .. Len(s) - n : x[i] = s[n + i]
  <2>1. n \in 0 .. Len(s)
    BY <1>0, <1>1
  <2> QED
    BY <1>1, <2>1, DropBytes
<1>3. y \in Bytes /\ Len(y) = Len(a) - n /\ \A i \in 1 .. Len(a) - n : y[i] = a[n + i]
  BY DropBytes
<1> HIDE DEF x, y
<1>4. y \o b \in Bytes /\ Len(y \o b) = Len(x)
  <2>1. y \o b \in Bytes /\ Len(y \o b) = Len(y) + Len(b)
    BY <1>3, Concat
  <2> QED
    BY <1>0, <1>1, <1>2, <1>3, <2>1
<1>5. ASSUME NEW i \in 1 .. Len(x) PROVE x[i] = (y \o b)[i]
  <2>1. a \in Seq(Byte) /\ b \in Seq(Byte) /\ y \in Seq(Byte) /\ Len(a) \in Nat /\ Len(b) \in Nat
    BY <1>3 DEF Bytes
  <2>2. x[i] = (a \o b)[n + i]
    BY <1>2 DEF s
  <2>3. CASE i <= Len(a) - n
    <3>1. (a \o b)[n + i] = a[n + i]
      BY <2>1, <2>3
    <3>2. (y \o b)[i] = y[i]
      BY <1>3, <2>1, <2>3
    <3> QED
      BY <1>3, <2>1, <2>2, <2>3, <3>1, <3>2
  <2>4. CASE i > Len(a) - n
    <3> DEFINE j == n + i - Len(a)
    <3>1. j \in 1 .. Len(b) /\ Len(a) + j = n + i /\ Len(y) + j = i
      BY <1>0, <1>1, <1>2, <1>3, <2>4
    <3> HIDE DEF j
    <3>2. (a \o b)[Len(a) + j] = b[j]
      BY <2>1, <3>1, ConcatAt
    <3>3. (y \o b)[Len(y) + j] = b[j]
      BY <2>1, <3>1, ConcatAt
    <3> QED
      BY <2>2, <3>1, <3>2, <3>3
  <2>5. i <= Len(a) - n \/ i > Len(a) - n
    BY <1>0, <1>1, <1>2
  <2> QED
    BY <2>3, <2>4, <2>5
<1>6. x = y \o b
  BY <1>2, <1>4, <1>5, SameBytes
<1> QED
  BY <1>6 DEF s, x, y

\* Beyond them, those of the second.
LEMMA DropOfSecond ==
    ASSUME NEW a \in Bytes, NEW b \in Bytes, NEW n \in 0 .. Len(b)
    PROVE  Drop(a \o b, Len(a) + n) = Drop(b, n)
<1> DEFINE s == a \o b
           k == Len(a) + n
           x == Drop(s, k)
           y == Drop(b, n)
<1>0. Len(a) \in Nat /\ Len(b) \in Nat /\ n \in Nat
  BY DEF Bytes
<1>1. s \in Bytes /\ Len(s) = Len(a) + Len(b)
  BY Concat
<1> HIDE DEF s
<1>2. /\ x \in Bytes /\ Len(x) = Len(b) - n
      /\ \A i \in 1 .. Len(b) - n : x[i] = s[Len(a) + n + i]
  <2>1. k \in 0 .. Len(s) /\ Len(s) - k = Len(b) - n
    BY <1>0, <1>1
  <2> HIDE DEF k
  <2>2. x \in Bytes /\ Len(x) = Len(s) - k /\ \A i \in 1 .. Len(s) - k : x[i] = s[k + i]
    BY <1>1, <2>1, DropBytes
  <2> QED
    BY <2>1, <2>2 DEF k
<1>3. y \in Bytes /\ Len(y) = Len(b) - n /\ \A i \in 1 .. Len(b) - n : y[i] = b[n + i]
  BY DropBytes
<1>4. ASSUME NEW i \in 1 .. Len(b) - n PROVE s[Len(a) + n + i] = b[n + i]
  <2>1. a \in Seq(Byte) /\ b \in Seq(Byte) /\ n + i \in 1 .. Len(b)
    BY <1>0 DEF Bytes
  <2>2. s[Len(a) + (n + i)] = b[n + i]
    BY <2>1, ConcatAt DEF s
  <2>3. Len(a) + (n + i) = Len(a) + n + i
    BY <1>0, <2>1
  <2> QED
    BY <2>2, <2>3
<1> HIDE DEF k, x, y
<1>5. \A i \in 1 .. Len(x) : x[i] = y[i]
  BY <1>2, <1>3, <1>4
<1>6. x = y
  BY <1>2, <1>3, <1>5, SameBytes
<1> QED
  BY <1>6 DEF s, k, x, y

\* Dropping twice.
LEMMA DropTwice ==
    ASSUME NEW s \in Bytes, NEW n \in 0 .. Len(s), NEW m \in 0 .. Len(s) - n
    PROVE  Drop(Drop(s, n), m) = Drop(s, n + m)
<1> DEFINE x == Drop(s, n)
           y == Drop(x, m)
           z == Drop(s, n + m)
<1>1. x \in Bytes /\ Len(x) = Len(s) - n /\ \A i \in 1 .. Len(s) - n : x[i] = s[n + i]
  BY DropBytes
<1>2. Len(s) \in Nat /\ n + m \in 0 .. Len(s)
  BY DEF Bytes
<1>3. z \in Bytes /\ Len(z) = Len(s) - (n + m)
      /\ \A i \in 1 .. Len(s) - (n + m) : z[i] = s[n + m + i]
  BY <1>2, DropBytes
<1> HIDE DEF x, z
<1>4. y \in Bytes /\ Len(y) = Len(x) - m /\ \A i \in 1 .. Len(x) - m : y[i] = x[m + i]
  BY <1>1, DropBytes
<1> HIDE DEF y
<1>5. ASSUME NEW i \in 1 .. Len(y) PROVE y[i] = z[i]
  <2>1. m + i \in 1 .. Len(s) - n /\ i \in 1 .. Len(x) - m /\ i \in 1 .. Len(s) - (n + m)
        /\ n + (m + i) = n + m + i
    BY <1>1, <1>2, <1>4
  <2>2. y[i] = s[n + (m + i)]
    BY <1>1, <1>4, <2>1
  <2> QED
    BY <1>3, <2>1, <2>2
<1>6. y = z
  BY <1>1, <1>2, <1>3, <1>4, <1>5, SameBytes
<1> QED
  BY <1>6 DEF x, y, z

\* No message is longer than a pins message, and none is empty.
LEMMA TakenBounds == \A t : Taken(t) \in 1 .. FrameLen
  BY ProtocolAssumption DEF Taken, get_msg_size, FrameLen

\* loop_prod takes what the first byte calls for off the receive buffer.
LEMMA LoopTakes ==
    ASSUME TypeOK, loop_prod
    PROVE  /\ rx # << >> /\ Taken(rx[1]) <= Len(rx)
           /\ rx' = Drop(rx, Taken(rx[1])) /\ UNCHANGED wire
<1>1. rx # << >> /\ rx \in Seq(Byte)
  BY DEF TypeOK, Bytes, loop_prod, UnknownType, CompleteMsg
<1>2. CASE UnknownType
  BY <1>1, <1>2 DEF loop_prod, UnknownType, Taken, PeekType, Rest, Drop
<1>3. CASE ~UnknownType
  BY <1>1, <1>3 DEF loop_prod, UnknownType, CompleteMsg, Taken, PeekType, Rest, Drop
<1> QED
  BY <1>2, <1>3

\* What loop_prod leaves alone is too short for the message it begins.
LEMMA LoopWaits ==
    ASSUME rx \in Bytes, rx # << >>, ~UnknownType, ~CompleteMsg
    PROVE  Len(rx) < Taken(rx[1])
<1>1. Taken(rx[1]) = get_msg_size(rx[1]) /\ ~(Len(rx) >= get_msg_size(rx[1]))
  BY DEF UnknownType, CompleteMsg, PeekType, Taken
<1>2. Taken(rx[1]) \in Nat /\ Len(rx) \in Nat
  BY TakenBounds, ProtocolAssumption DEF Bytes, FrameLen
<1> QED
  BY <1>1, <1>2

-----------------------------------------------------------------------------
\* The bytes that are on their way to the bridge once a program has sent its
\* first request, whatever was cut before: any remains and then its requests,
\* or a tail of the first of its requests and then the others.

First == PinsFrame(FirstLevels)

Behind(s) == \E j \in Bytes, r \in Series : s = j \o (First \o r)

Within(s) == \E n \in 1 .. FrameLen, r \in Series : s = Drop(First, n) \o r

Owned(s) == Behind(s) \/ Within(s)

\* The bytes of the first request.
LEMMA FirstBytes == First \in Bytes /\ Len(First) = FrameLen /\ First # << >>
  BY FrameBytes, LevelsAssumption, SessionsAssumption DEF First

\* All of these are bytes.
LEMMA OwnedBytes ==
    /\ \A n \in 1 .. FrameLen : Drop(First, n) \in Bytes /\ Len(Drop(First, n)) = FrameLen - n
    /\ Series \subseteq Bytes
    /\ \A r \in Series : First \o r \in Bytes /\ Len(First \o r) = FrameLen + Len(r)
<1>1. \A n \in 1 .. FrameLen : Drop(First, n) \in Bytes /\ Len(Drop(First, n)) = FrameLen - n
  <2>1. \A n \in 1 .. FrameLen : n \in 0 .. FrameLen
    BY ProtocolAssumption DEF FrameLen
  <2> QED
    BY <2>1, FirstBytes, DropBytes
<1>2. Series \subseteq Bytes
  BY DEF Series, RowsOf
<1>3. \A r \in Series : First \o r \in Bytes /\ Len(First \o r) = FrameLen + Len(r)
  BY <1>2, FirstBytes, Concat
<1> QED
  BY <1>1, <1>2, <1>3

\* A series is what is left behind the first request.
LEMMA SeriesWithin == ASSUME NEW r \in Series PROVE Within(r)
<1>1. FrameLen \in 1 .. FrameLen
  BY ProtocolAssumption DEF FrameLen
<1>2. Drop(First, FrameLen) = << >>
  <2>1. Drop(First, FrameLen) \in Bytes /\ Len(Drop(First, FrameLen)) = FrameLen - FrameLen
    BY <1>1, OwnedBytes
  <2>2. FrameLen - FrameLen = 0
    BY ProtocolAssumption DEF FrameLen
  <2> QED
    BY <2>1, <2>2 DEF Bytes
<1>3. << >> \o r = r
  BY Concat, OwnedBytes
<1>4. Drop(First, FrameLen) \o r = r
  BY <1>2, <1>3
<1> QED
  BY <1>1, <1>4 DEF Within

\* One more request.
LEMMA OwnedGrows ==
    ASSUME NEW s, Owned(s), NEW p \in Payload
    PROVE  Owned(s \o PinsFrame(p))
<1>1. PinsFrame(p) \in Bytes
  BY FrameBytes
<1>2. CASE Behind(s)
  <2>1. PICK j \in Bytes, r \in Series : s = j \o (First \o r)
    BY <1>2 DEF Behind
  <2>2. First \in Bytes /\ r \in Bytes /\ First \o r \in Bytes
    BY FirstBytes, OwnedBytes
  <2>3. (j \o (First \o r)) \o PinsFrame(p) = j \o ((First \o r) \o PinsFrame(p))
    BY <1>1, <2>2, Joined, Zenon
  <2>4. (First \o r) \o PinsFrame(p) = First \o (r \o PinsFrame(p))
    BY <1>1, <2>2, Joined, Zenon
  <2>5. s \o PinsFrame(p) = j \o (First \o (r \o PinsFrame(p)))
    BY <2>1, <2>3, <2>4, Zenon
  <2>6. r \o PinsFrame(p) \in Series
    BY SeriesGrows
  <2> QED
    BY <2>5, <2>6, Zenon DEF Owned, Behind
<1>3. CASE Within(s)
  <2>1. PICK n \in 1 .. FrameLen, r \in Series : s = Drop(First, n) \o r
    BY <1>3 DEF Within
  <2>2. Drop(First, n) \in Bytes /\ r \in Bytes
    BY OwnedBytes
  <2>3. s \o PinsFrame(p) = Drop(First, n) \o (r \o PinsFrame(p))
    BY <1>1, <2>1, <2>2, Joined, Zenon
  <2>4. r \o PinsFrame(p) \in Series
    BY SeriesGrows
  <2> QED
    BY <2>3, <2>4, Zenon DEF Owned, Within
<1> QED
  BY <1>2, <1>3 DEF Owned

\* A first request behind anything.
LEMMA FirstOwned ==
    ASSUME NEW j \in Bytes
    PROVE  Owned(j \o First)
<1>1. First \o << >> = First /\ << >> \in Series
  BY FirstBytes, Concat, SeriesGrows
<1>2. j \o First = j \o (First \o << >>)
  BY <1>1
<1>3. Behind(j \o (First \o << >>))
  BY <1>1 DEF Behind
<1> QED
  BY <1>2, <1>3 DEF Owned

\* The head of a tail of the first request is a byte of that request, and what
\* the bridge takes for its sake ends within the request.
LEMMA TailHead ==
    ASSUME FirstRequestEnds, NEW n \in 1 .. FrameLen, n # FrameLen, NEW r \in Series
    PROVE  n + Taken((Drop(First, n) \o r)[1]) <= FrameLen
<1> DEFINE d == Drop(First, n)
<1>0. FrameLen \in Nat
  BY ProtocolAssumption DEF FrameLen
<1>1. n \in 0 .. Len(First) /\ 1 \in 1 .. Len(First) - n /\ n + 1 \in 2 .. FrameLen
  BY <1>0, FirstBytes
<1>2. d \in Bytes /\ Len(d) = Len(First) - n /\ d[1] = First[n + 1]
  BY <1>1, FirstBytes, DropBytes
<1> HIDE DEF d
<1>3. (d \o r)[1] = d[1]
  <2>1. d \in Seq(Byte) /\ r \in Seq(Byte) /\ 1 \in 1 .. Len(d)
    BY <1>1, <1>2 DEF Bytes, Series, RowsOf
  <2> QED
    BY <2>1, ConcatAt
<1>4. (n + 1) + Taken(First[n + 1]) <= FrameLen + 1
  BY <1>1, FirstBytes DEF FirstRequestEnds, First
<1>5. Taken(First[n + 1]) \in Nat
  BY TakenBounds, <1>0
<1>6. n + Taken(First[n + 1]) <= FrameLen
  BY <1>0, <1>4, <1>5
<1> QED
  BY <1>2, <1>3, <1>6 DEF d

\* loop_prod, whatever it makes of its head.
LEMMA OwnedLoop ==
    ASSUME FirstRequestEnds, TypeOK, loop_prod, Owned(rx \o wire)
    PROVE  Owned(rx' \o wire')
<1> DEFINE t == Taken(rx[1])
<1>0. rx \in Bytes /\ wire \in Bytes /\ FrameLen \in Nat /\ Len(rx) \in Nat
  BY ProtocolAssumption DEF TypeOK, FrameLen, Bytes
<1>1. rx # << >> /\ t <= Len(rx) /\ rx' = Drop(rx, t) /\ UNCHANGED wire
  BY LoopTakes
<1>2. t \in 1 .. FrameLen
  BY TakenBounds
<1>3. rx' \o wire' = Drop(rx \o wire, t)
  <2>1. t \in 0 .. Len(rx)
    BY <1>0, <1>1, <1>2
  <2> QED
    BY <1>0, <1>1, <2>1, DropOfFirst
<1>4. (rx \o wire)[1] = rx[1]
  <2>1. rx \in Seq(Byte) /\ wire \in Seq(Byte) /\ 1 \in 1 .. Len(rx)
    BY <1>0, <1>1, <1>2 DEF Bytes
  <2> QED
    BY <2>1, ConcatAt
<1>5. CASE Behind(rx \o wire)
  <2>1. PICK j \in Bytes, r \in Series : rx \o wire = j \o (First \o r)
    BY <1>5 DEF Behind
  <2>2. r \in Bytes /\ First \o r \in Bytes /\ Len(First \o r) = FrameLen + Len(r)
        /\ Len(r) \in Nat /\ Len(j) \in Nat
    BY OwnedBytes DEF Bytes
  <2>3. CASE t <= Len(j)
    <3>1. t \in 0 .. Len(j)
      BY <1>0, <1>2, <2>2, <2>3
    <3>2. Drop(j \o (First \o r), t) = Drop(j, t) \o (First \o r) /\ Drop(j, t) \in Bytes
      BY <2>2, <3>1, DropOfFirst, DropBytes
    <3>3. Behind(Drop(j, t) \o (First \o r))
      BY <3>2 DEF Behind
    <3> QED
      BY <1>3, <2>1, <3>2, <3>3, Zenon DEF Owned
  <2>4. CASE t > Len(j)
    <3> DEFINE n == t - Len(j)
    <3>1. n \in 1 .. FrameLen /\ n \in 0 .. Len(First) /\ n \in 0 .. Len(First \o r)
          /\ Len(j) + n = t
      BY <1>0, <1>2, <2>2, <2>4, FirstBytes
    <3> HIDE DEF n
    <3>2. Drop(j \o (First \o r), Len(j) + n) = Drop(First \o r, n)
      BY <2>2, <3>1, DropOfSecond
    <3>3. Drop(First \o r, n) = Drop(First, n) \o r
      BY <2>2, <3>1, FirstBytes, DropOfFirst
    <3>4. Within(Drop(First, n) \o r)
      BY <3>1 DEF Within
    <3> QED
      BY <1>3, <2>1, <3>1, <3>2, <3>3, <3>4 DEF Owned
  <2>5. t <= Len(j) \/ t > Len(j)
    BY <1>0, <1>2, <2>2
  <2> QED
    BY <2>3, <2>4, <2>5
<1>6. CASE Within(rx \o wire)
  <2>1. PICK n \in 1 .. FrameLen, r \in Series : rx \o wire = Drop(First, n) \o r
    BY <1>6 DEF Within
  <2>2. CASE n = FrameLen
    <3>1. Drop(First, n) = << >> /\ r \in Bytes
      BY <1>0, <2>2, OwnedBytes DEF Bytes
    <3>2. rx \o wire \in Series
      BY <2>1, <3>1, Concat
    <3>3. rx' \o wire' \in Series
      BY <1>1, <3>2, LoopSeries
    <3> QED
      BY <3>3, SeriesWithin DEF Owned
  <2>3. CASE n # FrameLen
    <3>1. n + t <= FrameLen
      BY <1>4, <2>1, <2>3, TailHead
    <3>2. n \in 0 .. Len(First) /\ t \in 0 .. Len(First) - n /\ n + t \in 1 .. FrameLen
          /\ t \in 0 .. Len(Drop(First, n))
      <4>1. Len(First) = FrameLen /\ Len(Drop(First, n)) = FrameLen - n
        BY FirstBytes, OwnedBytes
      <4> HIDE DEF t
      <4> QED
        BY <1>0, <1>2, <3>1, <4>1
    <3>3. Drop(First, n) \in Bytes /\ r \in Bytes
      BY OwnedBytes
    <3>4. Drop(Drop(First, n) \o r, t) = Drop(Drop(First, n), t) \o r
      BY <3>2, <3>3, DropOfFirst
    <3>5. Drop(Drop(First, n), t) = Drop(First, n + t)
      BY <3>2, FirstBytes, DropTwice
    <3>6. Within(Drop(First, n + t) \o r)
      BY <3>2 DEF Within
    <3> QED
      BY <1>3, <2>1, <3>4, <3>5, <3>6, Zenon DEF Owned
  <2> QED
    BY <2>2, <2>3
<1> QED
  BY <1>5, <1>6 DEF Owned

\* When the bridge finds nothing more to take, nothing is left.
LEMMA OwnedEnds ==
    ASSUME FirstRequestEnds, rx \in Bytes, Owned(rx), ~UnknownType, ~CompleteMsg
    PROVE  rx = << >>
<1> SUFFICES ASSUME rx # << >> PROVE FALSE
  OBVIOUS
<1>0. FrameLen \in Nat /\ Len(rx) \in Nat
  BY ProtocolAssumption DEF FrameLen, Bytes
<1>1. Len(rx) < Taken(rx[1]) /\ Taken(rx[1]) \in 1 .. FrameLen
  BY LoopWaits, TakenBounds
<1>2. CASE Behind(rx)
  <2>1. PICK j \in Bytes, r \in Series : rx = j \o (First \o r)
    BY <1>2 DEF Behind
  <2>2. First \o r \in Bytes /\ Len(First \o r) = FrameLen + Len(r)
        /\ Len(r) \in Nat /\ Len(j) \in Nat
    BY OwnedBytes DEF Bytes
  <2>3. Len(rx) = Len(j) + (FrameLen + Len(r))
    BY <2>1, <2>2, Concat
  <2> QED
    BY <1>0, <1>1, <2>2, <2>3
<1>3. CASE Within(rx)
  <2>1. PICK n \in 1 .. FrameLen, r \in Series : rx = Drop(First, n) \o r
    BY <1>3 DEF Within
  <2>2. Drop(First, n) \in Bytes /\ Len(Drop(First, n)) = FrameLen - n
        /\ r \in Bytes /\ Len(r) \in Nat
    BY OwnedBytes DEF Bytes
  <2>3. Len(rx) = (FrameLen - n) + Len(r)
    BY <2>1, <2>2, Concat
  <2>4. CASE n # FrameLen
    <3>1. n + Taken(rx[1]) <= FrameLen
      BY <2>1, <2>4, TailHead
    <3> QED
      BY <1>0, <1>1, <2>2, <2>3, <3>1
  <2>5. CASE n = FrameLen
    <3>1. Len(rx) = Len(r) /\ r # << >>
      BY <1>0, <2>2, <2>3, <2>5
    <3>2. PICK p \in Payload, q \in Series : r = PinsFrame(p) \o q
      BY <3>1, SeriesHead
    <3>3. PinsFrame(p) \in Bytes /\ Len(PinsFrame(p)) = FrameLen /\ q \in Bytes
      BY FrameBytes, OwnedBytes
    <3>4. Len(r) = FrameLen + Len(q) /\ Len(q) \in Nat
      <4>1. Len(PinsFrame(p) \o q) = Len(PinsFrame(p)) + Len(q)
        BY <3>3, Concat
      <4>2. Len(r) = FrameLen + Len(q)
        BY <3>2, <3>3, <4>1, Zenon
      <4>3. Len(q) \in Nat
        BY <3>3 DEF Bytes
      <4> QED
        BY <4>2, <4>3
    <3> QED
      BY <1>0, <1>1, <3>1, <3>4
  <2> QED
    BY <2>4, <2>5
<1> QED
  BY <1>2, <1>3 DEF Owned

-----------------------------------------------------------------------------
\* One program pays for one cut.  As long as every program that closed the port
\* unhurt let the bridge get to the end of its bytes, there are as many cuts as
\* refusals, and one more while there are remains that nobody has paid for.

Unpaid == refused < cuts

Paid ==
    /\ refused <= cuts
    /\ Framed \/ Unpaid \/ host = "failed"

\* A program that has not sent anything waits for nothing; one that has owns
\* what is on its way to the bridge.
Sending ==
    /\ dtr /\ fresh => host = "ready" /\ wire = << >>
    /\ dtr /\ ~fresh => Owned(rx \o wire)

CInv == SInv /\ Sending /\ (~rushed => Paid)

\* The counters are numbers.
LEMMA Counters == ASSUME SInv PROVE refused \in Nat /\ cuts \in Nat
  BY Bounds DEF SInv, Ports

\* Before the first program.
LEMMA CInitInv == SInit => CInv
<1> SUFFICES ASSUME SInit PROVE CInv
  OBVIOUS
<1>1. SInv
  BY SInitInv
<1>2. cuts = 0 /\ refused = 0 /\ dtr = FALSE
  BY DEF SInit
<1>3. Framed
  BY <1>1, <1>2 DEF SInv
<1> QED
  BY <1>1, <1>2, <1>3 DEF CInv, Sending, Paid

\* Opening the port.
LEMMA OpenPaid == ASSUME CInv, Open PROVE CInv'
<1>1. SInv'
  BY OpenStep DEF CInv
<1>2. Sending'
  <2>1. ~dtr /\ dtr' = TRUE /\ fresh' = TRUE /\ UNCHANGED <<host, wire>>
    BY DEF Open, vars
  <2>2. host = "ready" /\ wire = << >>
    BY <2>1 DEF CInv, SInv, Ports
  <2> QED
    BY <2>1, <2>2 DEF Sending
<1>3. ~rushed' => Paid'
  BY DEF CInv, Open, vars, Paid, Unpaid, Framed
<1> QED
  BY <1>1, <1>2, <1>3 DEF CInv

\* The first request goes behind the remains, the others behind the first.
LEMMA WritePaid == ASSUME CInv, HostWrite PROVE CInv'
<1>1. SInv /\ SInv'
  BY HostWriteStep DEF CInv
<1>2. /\ dtr /\ dtr' = TRUE /\ fresh' = FALSE /\ host' = "waiting"
      /\ UNCHANGED <<rx, cuts, refused, rushed>>
  BY <1>1, HostWritePorts DEF SInv, HostWrite, tally
<1>3. PICK p \in Levels : req' = p /\ wire' = wire \o PinsFrame(p)
  BY LevelsAssumption, RequestIsPinsFrame DEF HostWrite, write_serial
<1>4. p \in Payload /\ PinsFrame(p) \in Bytes /\ rx \in Bytes /\ wire \in Bytes
  BY <1>1, LevelsAssumption, FrameBytes DEF SInv, TypeOK
<1>5. rx' \o wire' = (rx \o wire) \o PinsFrame(p)
  <2>1. (rx \o wire) \o PinsFrame(p) = rx \o (wire \o PinsFrame(p))
    BY <1>4, Joined, Zenon
  <2> QED
    BY <1>2, <1>3, <2>1
<1>6. Owned(rx' \o wire')
  <2>1. CASE fresh
    <3>1. p = FirstLevels /\ wire = << >>
      BY <1>2, <1>3, <2>1 DEF HostWrite, CInv, Sending
    <3>2. rx \o wire = rx
      BY <1>4, <3>1, Concat
    <3> QED
      BY <1>4, <1>5, <3>1, <3>2, FirstOwned DEF First
  <2>2. CASE ~fresh
    BY <1>2, <1>4, <1>5, <2>2, OwnedGrows DEF CInv, Sending
  <2> QED
    BY <2>1, <2>2
<1>7. ASSUME ~rushed' PROVE Paid'
  <2>1. Paid
    BY <1>2, <1>7 DEF CInv
  <2>2. host # "failed"
    BY DEF HostWrite, write_serial
  <2>3. Framed => Framed'
    BY <1>1, WriteFramed
  <2> QED
    BY <1>2, <2>1, <2>2, <2>3 DEF Paid, Unpaid
<1> QED
  BY <1>1, <1>2, <1>6, <1>7 DEF CInv, Sending

\* A program that is refused pays for the remains.
LEMMA ReadPaid == ASSUME CInv, HostRead PROVE CInv'
<1>1. SInv /\ SInv' /\ TypeOK /\ read_serial /\ host = "waiting"
  BY HostReadStep, ReadKeeps DEF CInv, SInv, HostRead
<1>2. /\ UNCHANGED <<rx, wire, dtr, fresh, cuts, rushed>>
      /\ refused' = IF host' = "failed" THEN refused + 1 ELSE refused
  BY <1>1, HostReadPorts DEF SInv, HostRead
<1>3. Sending'
  BY <1>1, <1>2 DEF CInv, Sending
<1>4. ASSUME ~rushed' PROVE Paid'
  <2>1. Paid
    BY <1>2, <1>4 DEF CInv
  <2>2. CASE Framed
    <3>1. got' \o tx' \in Series /\ host' # "failed"
      BY <1>1, <2>2, ReadSeries DEF Framed
    <3>2. Framed'
      BY <1>2, <2>2, <3>1 DEF Framed
    <3> QED
      BY <1>2, <2>1, <3>1, <3>2 DEF Paid
  <2>3. CASE Unpaid
    BY <1>1, <1>2, <2>3, Counters DEF Paid, Unpaid
  <2> QED
    BY <1>1, <2>1, <2>2, <2>3 DEF Paid
<1> QED
  BY <1>1, <1>3, <1>4 DEF CInv

\* Delivery changes nothing of this.
LEMMA UsbPaid == ASSUME CInv, UsbDeliver PROVE CInv'
<1>1. SInv /\ SInv'
  BY UsbStep DEF CInv
<1>2. rx' \o wire' = rx \o wire /\ UNCHANGED <<host, got, tx, refused>>
  BY <1>1, UsbPorts DEF SInv
<1>3. UNCHANGED <<dtr, fresh, cuts, rushed>>
  BY DEF UsbDeliver, tally
<1>4. fresh => FALSE
  <2>1. wire # << >>
    BY DEF UsbDeliver, Deliver
  <2> QED
    BY <2>1 DEF CInv, Sending, UsbDeliver
<1>5. Sending'
  BY <1>2, <1>3, <1>4 DEF CInv, Sending
<1>6. ~rushed' => Paid'
  BY <1>2, <1>3 DEF CInv, Paid, Unpaid, Framed
<1> QED
  BY <1>1, <1>5, <1>6 DEF CInv

\* The bridge takes messages off the remains, and never the head of the next
\* request with the end of the first.
LEMMA LoopPaid == ASSUME FirstRequestEnds, CInv, Loop PROVE CInv'
<1>1. SInv /\ SInv' /\ TypeOK /\ loop_prod
  BY LoopStep DEF CInv, SInv, Loop
<1>2. UNCHANGED <<host, wire, dtr, fresh, cuts, refused, rushed>>
  BY <1>1, LoopKeeps DEF Loop, tally
<1>3. Sending'
  BY <1>1, <1>2, OwnedLoop DEF CInv, Sending
<1>4. ASSUME ~rushed' PROVE Paid'
  <2>1. Paid
    BY <1>2, <1>4 DEF CInv
  <2>2. Framed => Framed'
    BY <1>1, LoopFramed
  <2> QED
    BY <1>2, <2>1, <2>2 DEF Paid, Unpaid
<1> QED
  BY <1>1, <1>3, <1>4 DEF CInv

\* A program that closes the port when the bridge is through with its bytes
\* leaves nothing.
LEMMA ClosePaid == ASSUME FirstRequestEnds, CInv, CloseClean PROVE CInv'
<1>1. SInv /\ SInv'
  BY CloseStep DEF CInv
<1>2. /\ dtr /\ dtr' = FALSE /\ UNCHANGED <<fresh, cuts, refused>>
      /\ host' = "ready" /\ got' = << >> /\ tx' = << >> /\ wire' = << >>
  BY DEF CloseClean, Close
<1>3. Sending'
  BY <1>2 DEF Sending
<1>4. ASSUME ~rushed' PROVE Paid'
  <2>1. ~rushed /\ wire = << >> /\ ~UnknownType /\ ~CompleteMsg
    BY <1>4, Zenon DEF CloseClean
  <2>2. Paid
    BY <2>1 DEF CInv
  <2>3. rx \in Bytes /\ rx \o wire = rx /\ rx' \in Bytes
    <3>1. rx \in Bytes /\ rx' \in Bytes
      BY <1>1 DEF SInv, TypeOK
    <3> QED
      BY <2>1, <3>1, Concat
  <2>4. rx' = rx
    <3>1. rx' = rx \o SubSeq(wire, 1, Len(wire))
      BY DEF CloseClean, Close
    <3>2. SubSeq(wire, 1, Len(wire)) = << >>
      BY <2>1
    <3> QED
      BY <2>3, <3>1, <3>2, Concat
  <2>5. << >> \o << >> = << >> /\ << >> \in Series
    BY SeriesGrows
  <2>6. CASE fresh
    <3>1. host = "ready"
      BY <1>2, <2>6 DEF CInv, Sending
    <3>2. CASE Framed
      <4>1. rx' \o wire' \in Series /\ got' \o tx' \in Series
        BY <1>2, <2>1, <2>4, <2>5, <3>2 DEF Framed
      <4> QED
        BY <1>2, <2>2, <4>1 DEF Paid, Framed
    <3>3. CASE Unpaid
      BY <1>2, <2>2, <3>3 DEF Paid, Unpaid
    <3> QED
      BY <2>2, <3>1, <3>2, <3>3 DEF Paid
  <2>7. CASE ~fresh
    <3>1. Owned(rx)
      BY <1>2, <2>3, <2>7 DEF CInv, Sending
    <3>2. rx = << >>
      BY <2>1, <2>3, <3>1, OwnedEnds
    <3>3. Framed'
      BY <1>2, <2>4, <2>5, <3>2 DEF Framed
    <3> QED
      BY <1>2, <2>2, <3>3 DEF Paid
  <2> QED
    BY <2>6, <2>7
<1> QED
  BY <1>1, <1>3, <1>4 DEF CInv

\* A cut is one more to pay for.
LEMMA CutPaid == ASSUME CInv, CloseCut PROVE CInv'
<1>1. SInv /\ SInv'
  BY CloseStep DEF CInv
<1>2. dtr' = FALSE /\ cuts' = cuts + 1 /\ UNCHANGED <<refused, rushed>>
  BY DEF CloseCut, Close
<1>3. ~rushed => refused < cuts + 1
  BY <1>1, Counters DEF CInv, Paid
<1>4. refused < cuts + 1 => refused <= cuts + 1
  BY <1>1, Counters
<1> QED
  BY <1>1, <1>2, <1>3, <1>4 DEF CInv, Sending, Paid, Unpaid

\* One cut costs one program, whatever the payloads of the other requests are,
\* however many programs and cuts there are, and wherever the cuts fall - if
\* the first request of a program is, like that of Runner::reset, one the
\* bridge cannot lose its place in.
THEOREM OneCutCostsOne ==
    ASSUME FirstRequestEnds
    PROVE  SSpec => []CutCostsOneSession
<1>1. SInit => CInv
  BY CInitInv
<1>2. CInv /\ [SNext]_svars => CInv'
  <2> SUFFICES ASSUME CInv, [SNext]_svars PROVE CInv'
    OBVIOUS
  <2>1. CASE UNCHANGED svars
    <3>1. SInv'
      BY <2>1 DEF svars, vars, tally, CInv, SInv, TypeOK, Ports, Framed
    <3> QED
      BY <2>1, <3>1 DEF svars, vars, tally, CInv, Sending, Paid, Unpaid, Framed
  <2> QED
    BY <2>1, OpenPaid, WritePaid, ReadPaid, UsbPaid, LoopPaid, ClosePaid, CutPaid DEF SNext
<1>3. CInv => CutCostsOneSession
  BY DEF CInv, Paid, CutCostsOneSession
<1> QED
  BY <1>1, <1>2, <1>3, PTL DEF SSpec

-----------------------------------------------------------------------------
(* Waiting: what must be true of a host that waits for a reply, for it to  *)
(* get one.                                                                *)

\* Everything a bridge answers.
Replies ==
    PinsFrames \cup {ErrorFrame(code) : code \in {ERR_INVALID_MSG_TYPE, ERR_INVALID_CHECKSUM}}

\* The bytes between the bridge and what the host has read of them, if the
\* firmware and its endpoints hold the bytes x.
Back(x) == got \o (tx \o x)

\* These are replies, and the host reads no further than the end of the first.
Replying(x) ==
    /\ host # "failed" => Back(x) \in RowsOf(Replies)
    /\ Len(got) <= Wanted(got)

\* Some reply is on its way, or there are enough bytes in front of the firmware
\* (n of them) to make any message out of.
Due(x, n) == host = "waiting" => Back(x) # << >> \/ n >= FrameLen

\* Replies are bytes, and as long as read_serial expects from their first byte.
LEMMA ReplyBytes ==
    /\ Replies \in SUBSET Bytes
    /\ \A m \in Replies : m # << >> /\ Len(m) = Wanted(<<m[1]>>) /\ Wanted(<<m[1]>>) >= 1
<1>1. ASSUME NEW p \in Payload
      PROVE  /\ PinsFrame(p) \in Bytes /\ PinsFrame(p) # << >>
             /\ Len(PinsFrame(p)) = FrameLen /\ PinsFrame(p)[1] = MSG_PINS
  BY FrameBytes, PinsFrameFacts
<1>2. ASSUME NEW code \in {ERR_INVALID_MSG_TYPE, ERR_INVALID_CHECKSUM}
      PROVE  /\ ErrorFrame(code) \in Bytes /\ ErrorFrame(code) # << >>
             /\ Len(ErrorFrame(code)) = 3 /\ ErrorFrame(code)[1] = MSG_ERROR
  <2> DEFINE c == compute_checksum(MSG_ERROR, <<code>>)
  <2>1. ErrorFrame(code) \in Bytes
    BY ErrorBytes
  <2>2. ErrorFrame(code) = <<MSG_ERROR>> \o <<code>> \o <<c>>
    BY DEF ErrorFrame, Frame
  <2> HIDE DEF c
  <2> QED
    BY <2>1, <2>2
<1>3. \A t : Wanted(<<t>>) = IF t = MSG_ERROR THEN 3 ELSE IF t = MSG_PINS THEN FrameLen ELSE 1
  BY DEF Wanted, FrameLen
<1>4. MSG_ERROR # MSG_PINS /\ FrameLen >= 1
  BY ProtocolAssumption DEF MSG_ERROR, MSG_PINS, FrameLen
<1>5. Replies \in SUBSET Bytes
  BY <1>1, <1>2 DEF Replies, PinsFrames
<1>6. ASSUME NEW m \in Replies
      PROVE  m # << >> /\ Len(m) = Wanted(<<m[1]>>) /\ Wanted(<<m[1]>>) >= 1
  <2>1. CASE m \in PinsFrames
    BY <1>1, <1>3, <1>4, <2>1 DEF PinsFrames
  <2>2. CASE m \notin PinsFrames
    <3>1. PICK code \in {ERR_INVALID_MSG_TYPE, ERR_INVALID_CHECKSUM} : m = ErrorFrame(code)
      BY <2>2 DEF Replies
    <3>2. m # << >> /\ Len(m) = 3 /\ m[1] = MSG_ERROR
      BY <1>2, <3>1, Zenon
    <3> QED
      BY <1>3, <3>2
  <2> QED
    BY <2>1, <2>2
<1> QED
  BY <1>5, <1>6

\* read_serial decides by the first byte how much it wants.
LEMMA WantedFirst ==
    /\ \A b \in Bytes : b # << >> => Wanted(b) = Wanted(<<b[1]>>)
    /\ \A b : Wanted(b) \in Nat /\ Wanted(b) >= 1
    /\ Wanted(<< >>) = 1
<1>1. \A b : Wanted(b) \in Nat /\ Wanted(b) >= 1
  BY ProtocolAssumption DEF Wanted
<1> QED
  BY <1>1 DEF Wanted

\* What a reader that has b of a row of replies b \o c knows.
LEMMA FirstReply ==
    ASSUME NEW b \in Bytes, NEW c \in Bytes, b \o c \in RowsOf(Replies), b # << >>
    PROVE  /\ Wanted(b) <= Len(b) + Len(c)
           /\ Len(b) = Wanted(b) => c \in RowsOf(Replies)
<1>1. Len(b) \in Nat /\ Len(c) \in Nat /\ Len(b) >= 1
  BY DEF Bytes
<1>2. b \o c # << >> /\ Len(b \o c) = Len(b) + Len(c)
  <2>1. Len(b \o c) = Len(b) + Len(c)
    BY Concat
  <2> QED
    BY <1>1, <2>1 DEF Bytes
<1>3. PICK m \in Replies, r \in RowsOf(Replies) : b \o c = m \o r
  BY <1>2, ReplyBytes, RowHead
<1>4. m \in Bytes /\ r \in Bytes /\ m # << >> /\ Len(m) = Wanted(<<m[1]>>) /\ Len(m) >= 1
      /\ Len(m) \in Nat /\ Len(r) \in Nat
  BY ReplyBytes DEF RowsOf, Bytes
<1>5. Len(b) + Len(c) = Len(m) + Len(r)
  BY <1>2, <1>3, <1>4, Concat
<1>6. b[1] = m[1]
  <2>1. b \in Seq(Byte) /\ c \in Seq(Byte) /\ 1 \in 1 .. Len(b)
    BY <1>1 DEF Bytes
  <2>2. m \in Seq(Byte) /\ r \in Seq(Byte) /\ 1 \in 1 .. Len(m)
    BY <1>4 DEF Bytes
  <2>3. (b \o c)[1] = b[1] /\ (m \o r)[1] = m[1]
    BY <2>1, <2>2, ConcatAt
  <2> QED
    BY <1>3, <2>3
<1>7. Wanted(b) = Len(m)
  BY <1>4, <1>6, WantedFirst
<1>8. ASSUME Len(b) = Wanted(b) PROVE c \in RowsOf(Replies)
  <2>1. Len(b) + 0 = Len(b) /\ Len(m) + 0 = Len(m) /\ Len(m) = Len(b)
        /\ 0 \in 0 .. Len(c) /\ 0 \in 0 .. Len(r)
    BY <1>1, <1>4, <1>7, <1>8
  <2>2. Drop(b \o c, Len(b)) = Drop(c, 0)
    BY <2>1, DropOfSecond
  <2>3. Drop(m \o r, Len(m)) = Drop(r, 0)
    BY <1>4, <2>1, DropOfSecond
  <2>4. Drop(c, 0) = c /\ Drop(r, 0) = r
    BY <1>4, SubSeqFull DEF Drop, Bytes
  <2> QED
    BY <1>3, <2>1, <2>2, <2>3, <2>4
<1> QED
  BY <1>1, <1>4, <1>5, <1>7, <1>8

\* Reading takes whole replies off the row.
LEMMA ReadReplies ==
    ASSUME TypeOK, read_serial, NEW x \in Bytes, Replying(x)
    PROVE  /\ host' # "failed" => got' \o (tx' \o x) \in RowsOf(Replies)
           /\ Len(got') <= Wanted(got')
           /\ host' = "waiting" => got' \o (tx' \o x) = Back(x)
<1>0. got \in Bytes /\ tx \in Bytes /\ tx \o x \in Bytes /\ Len(got) \in Nat
  BY Concat DEF TypeOK, Bytes
<1>1. CASE read_exact
  <2>1. PICK k \in 1 .. Len(tx) :
              /\ Len(got) + k <= Wanted(got)
              /\ got' = got \o SubSeq(tx, 1, k) /\ tx' = SubSeq(tx, k + 1, Len(tx))
    BY <1>1 DEF read_exact
  <2>2. got' \o tx' = got \o tx /\ got' \in Bytes /\ tx' \in Bytes
    BY <2>1, MoveChunk DEF TypeOK, Bytes
  <2>3. got' \o (tx' \o x) = Back(x)
    <3>1. (got' \o tx') \o x = got' \o (tx' \o x)
      BY <2>2, Joined, Zenon
    <3>2. (got \o tx) \o x = got \o (tx \o x)
      BY <1>0, Joined, Zenon
    <3> QED
      BY <2>2, <3>1, <3>2, Zenon DEF Back
  <2>4. Len(got') <= Wanted(got')
    <3>1. SubSeq(tx, 1, k) \in Bytes /\ Len(SubSeq(tx, 1, k)) = k
      BY <1>0, <2>1 DEF Bytes
    <3>2. Len(got') = Len(got) + k
      BY <1>0, <2>1, <3>1, Concat
    <3>3. CASE got = << >>
      BY <2>1, <3>2, <3>3, <1>0, WantedFirst
    <3>4. CASE got # << >>
      <4>1. 1 \in 1 .. Len(got) /\ got \in Seq(Byte) /\ SubSeq(tx, 1, k) \in Seq(Byte)
        BY <1>0, <3>1, <3>4 DEF Bytes
      <4>2. got'[1] = got[1]
        BY <2>1, <4>1, ConcatAt
      <4>3. got' # << >>
        BY <1>0, <2>1, <3>2
      <4>4. Wanted(got') = Wanted(got)
        BY <1>0, <2>2, <3>4, <4>2, <4>3, WantedFirst
      <4> QED
        BY <2>1, <3>2, <4>4
    <3> QED
      BY <3>3, <3>4
  <2>5. host' = host /\ host = "waiting"
    BY <1>1 DEF read_exact
  <2> QED
    BY <2>3, <2>4, <2>5 DEF Replying
<1>2. CASE EndRead
  <2>1. got # << >> /\ Len(got) = Wanted(got) /\ host = "waiting"
    BY <1>2 DEF EndRead, ReplyComplete
  <2>2. CASE GoodReply(got)
    <3>1. got' = << >> /\ tx' = tx /\ host' = "ready"
      BY <1>2, <2>2 DEF EndRead
    <3>2. tx \o x \in RowsOf(Replies)
      BY <1>0, <2>1, FirstReply DEF Replying, Back
    <3>3. << >> \o (tx \o x) = tx \o x
      BY <1>0, Concat
    <3>4. Len(got') <= Wanted(got')
      BY <3>1, WantedFirst
    <3> QED
      BY <3>1, <3>2, <3>3, <3>4
  <2>3. CASE ~GoodReply(got)
    <3>1. got' = got /\ host' = "failed"
      BY <1>2, <2>3 DEF EndRead
    <3> QED
      BY <3>1 DEF Replying
  <2> QED
    BY <2>2, <2>3
<1> QED
  BY <1>1, <1>2 DEF read_serial

\* loop_prod answers every message it takes with a reply.
LEMMA LoopReplies ==
    ASSUME TypeOK, loop_prod
    PROVE  \E m \in Replies : tx' = tx \o m
<1>1. CASE Reject(ERR_INVALID_MSG_TYPE) \/ Reject(ERR_INVALID_CHECKSUM)
  BY <1>1 DEF Reject, Replies
<1>2. CASE Serve
  BY <1>2, LevelsAssumption DEF Serve, Replies, PinsFrames
<1> QED
  BY <1>1, <1>2 DEF loop_prod

\* The sessions of the C++ firmware: everything it has answered is in tx.
Heard == Replying(<< >>) /\ Due(<< >>, Len(rx) + Len(wire))

HInv == SInv /\ Heard

\* The bytes behind the host, with nothing kept back.
LEMMA BackIs ==
    /\ TypeOK => Back(<< >>) = got \o tx /\ << >> \in Bytes
    /\ TypeOK' => (Back(<< >>))' = got' \o tx'
<1>1. << >> \in Bytes
  BY DEF Bytes
<1> QED
  BY <1>1, Concat DEF Back, TypeOK

\* Before the first program, and after one has gone, nothing is owed.
LEMMA HeardNothing ==
    ASSUME TypeOK', host' = "ready", got' = << >>, tx' = << >>
    PROVE  Heard'
<1>1. (Back(<< >>))' = << >>
  BY DEF Back
<1>2. << >> \in RowsOf(Replies)
  BY ReplyBytes, RowGrows
<1>3. Len(got') <= Wanted(got')
  BY WantedFirst
<1> QED
  BY <1>1, <1>2, <1>3 DEF Heard, Replying, Due

\* One more reply behind the others.
LEMMA ReplyAdded ==
    ASSUME NEW b \in RowsOf(Replies), NEW m \in Replies
    PROVE  b \o m \in RowsOf(Replies) /\ b \o m # << >>
<1>1. b \o m \in RowsOf(Replies)
  BY ReplyBytes, RowGrows
<1>2. b \in Bytes /\ m \in Bytes /\ m # << >>
  BY ReplyBytes DEF RowsOf
<1>3. Len(b \o m) = Len(b) + Len(m) /\ Len(m) # 0 /\ Len(m) \in Nat /\ Len(b) \in Nat
  BY <1>2, Concat DEF Bytes
<1> QED
  BY <1>1, <1>3

\* A request is enough bytes for any message.
LEMMA WriteHeard == ASSUME HInv, HostWrite PROVE HInv'
<1>1. SInv /\ SInv' /\ TypeOK /\ TypeOK'
  BY HostWriteStep DEF HInv, SInv
<1>2. /\ got = << >> /\ got' = << >> /\ host' = "waiting" /\ UNCHANGED <<rx, tx>>
  BY <1>1, HostWritePorts DEF SInv
<1>3. PICK p \in Payload : wire' = wire \o PinsFrame(p)
  BY <1>1, HostWritePorts DEF SInv
<1>4. Len(rx') + Len(wire') >= FrameLen
  <2>1. PinsFrame(p) \in Bytes /\ Len(PinsFrame(p)) = FrameLen /\ wire \in Bytes /\ rx \in Bytes
    BY <1>1, FrameBytes DEF TypeOK
  <2>2. Len(wire') = Len(wire) + FrameLen
    BY <1>3, <2>1, Concat
  <2>3. FrameLen \in Nat /\ Len(wire) \in Nat /\ Len(rx) \in Nat
    BY <2>1, ProtocolAssumption DEF Bytes, FrameLen
  <2> QED
    BY <1>2, <2>2, <2>3
<1>5. host # "failed"
  BY DEF HostWrite, write_serial
<1> QED
  BY <1>1, <1>2, <1>4, <1>5 DEF HInv, Heard, Replying, Due, Back

\* Reading.
LEMMA ReadHeard == ASSUME HInv, HostRead PROVE HInv'
<1>1. SInv' /\ TypeOK /\ read_serial /\ host = "waiting" /\ UNCHANGED <<rx, wire>>
  BY HostReadStep, ReadKeeps DEF HInv, SInv, HostRead
<1>2. << >> \in Bytes
  BY DEF Bytes
<1>3. /\ host' # "failed" => got' \o (tx' \o << >>) \in RowsOf(Replies)
      /\ Len(got') <= Wanted(got')
      /\ host' = "waiting" => got' \o (tx' \o << >>) = Back(<< >>)
  BY <1>1, <1>2, ReadReplies DEF HInv, Heard
<1> QED
  BY <1>1, <1>3 DEF HInv, Heard, Replying, Due, Back

\* Delivery.
LEMMA UsbHeard == ASSUME HInv, UsbDeliver PROVE HInv'
<1>1. SInv /\ SInv' /\ TypeOK /\ TypeOK'
  BY UsbStep DEF HInv, SInv
<1>2. rx' \o wire' = rx \o wire /\ UNCHANGED <<host, got, tx>>
  BY <1>1, UsbPorts DEF SInv
<1>3. Len(rx') + Len(wire') = Len(rx) + Len(wire)
  <2>1. rx \in Bytes /\ wire \in Bytes /\ rx' \in Bytes /\ wire' \in Bytes
    BY <1>1 DEF TypeOK
  <2>2. Len(rx \o wire) = Len(rx) + Len(wire) /\ Len(rx' \o wire') = Len(rx') + Len(wire')
    BY <2>1, Concat
  <2> QED
    BY <1>2, <2>2
<1> QED
  BY <1>1, <1>2, <1>3 DEF HInv, Heard, Replying, Due, Back

\* loop_prod answers.
LEMMA LoopHeard == ASSUME HInv, Loop PROVE HInv'
<1>1. SInv /\ SInv' /\ TypeOK /\ TypeOK' /\ loop_prod
  BY LoopStep DEF HInv, SInv, Loop
<1>2. UNCHANGED <<host, got>>
  BY <1>1, LoopKeeps
<1>3. PICK m \in Replies : tx' = tx \o m
  BY <1>1, LoopReplies
<1>4. (Back(<< >>))' = Back(<< >>) \o m
  <2>1. got \in Bytes /\ tx \in Bytes /\ m \in Bytes
    BY <1>1, ReplyBytes DEF TypeOK
  <2>2. (got \o tx) \o m = got \o (tx \o m)
    BY <2>1, Joined, Zenon
  <2>3. Back(<< >>) = got \o tx /\ (Back(<< >>))' = got' \o tx'
    BY <1>1, BackIs
  <2> QED
    BY <1>2, <1>3, <2>2, <2>3
<1>5. host # "failed" =>
          (Back(<< >>))' \in RowsOf(Replies) /\ (Back(<< >>))' # << >>
  BY <1>4, ReplyAdded DEF HInv, Heard, Replying
<1>6. host = "waiting" => host # "failed"
  OBVIOUS
<1> QED
  BY <1>1, <1>2, <1>5, <1>6 DEF HInv, Heard, Replying, Due

\* The invariant for what comes back.
LEMMA HeardInductive == SSpec => []HInv
<1>1. SInit => HInv
  <2> SUFFICES ASSUME SInit PROVE HInv
    OBVIOUS
  <2>1. SInv
    BY SInitInv
  <2>2. host = "ready" /\ got = << >> /\ tx = << >>
    BY DEF SInit, Init
  <2>3. Back(<< >>) = << >>
    BY <2>2 DEF Back
  <2>4. << >> \in RowsOf(Replies) /\ Len(got) <= Wanted(got)
    BY <2>2, ReplyBytes, RowGrows, WantedFirst
  <2> QED
    BY <2>1, <2>2, <2>3, <2>4 DEF HInv, Heard, Replying, Due
<1>2. HInv /\ [SNext]_svars => HInv'
  <2> SUFFICES ASSUME HInv, [SNext]_svars PROVE HInv'
    OBVIOUS
  <2>1. CASE UNCHANGED svars \/ Open
    <3>1. SInv'
      <4>1. CASE UNCHANGED svars
        BY <4>1 DEF svars, vars, tally, HInv, SInv, TypeOK, Ports, Framed
      <4> QED
        BY <2>1, <4>1, OpenStep DEF HInv
    <3>2. UNCHANGED vars
      BY <2>1 DEF svars, Open
    <3> QED
      BY <3>1, <3>2 DEF vars, HInv, Heard, Replying, Due, Back
  <2>2. CASE CloseClean \/ CloseCut
    <3>1. SInv /\ SInv' /\ TypeOK'
      BY <2>2, CloseStep DEF HInv, SInv
    <3>2. host' = "ready" /\ got' = << >> /\ tx' = << >>
      BY <2>2, <3>1, ClosePorts DEF SInv
    <3> QED
      BY <3>1, <3>2, HeardNothing DEF HInv
  <2> QED
    BY <2>1, <2>2, WriteHeard, ReadHeard, UsbHeard, LoopHeard DEF SNext
<1> QED
  BY <1>1, <1>2, PTL DEF SSpec

\* A host in read_serial, and what the others could do about it: USB delivers,
\* the bridge takes a message, the host reads or is through with reading.
Waiting == dtr /\ host = "waiting"

HostCanRead == ReplyComplete \/ (tx # << >> /\ Len(got) < Wanted(got))

SomebodyMoves == wire # << >> \/ UnknownType \/ CompleteMsg \/ HostCanRead

\* Of a reply that is under way, the host has read all, or some can be read.
LEMMA ReplyIsRead ==
    ASSUME TypeOK, host = "waiting", Replying(<< >>), Back(<< >>) # << >>
    PROVE  HostCanRead
<1>1. got \in Bytes /\ tx \in Bytes /\ got \o tx \in RowsOf(Replies) /\ got \o tx # << >>
  BY BackIs DEF TypeOK, Replying
<1>2. Len(got) \in Nat /\ Len(tx) \in Nat /\ Wanted(got) \in Nat /\ Len(got) <= Wanted(got)
  BY <1>1, WantedFirst DEF Bytes, Replying
<1>3. CASE got = << >>
  <2>1. tx # << >>
    BY <1>1, <1>3
  <2> QED
    BY <1>3, <2>1, WantedFirst DEF HostCanRead
<1>4. CASE got # << >>
  <2>1. Wanted(got) <= Len(got) + Len(tx)
    BY <1>1, <1>4, FirstReply
  <2>2. CASE Len(got) = Wanted(got)
    BY <1>4, <2>2 DEF HostCanRead, ReplyComplete
  <2>3. CASE Len(got) # Wanted(got)
    <3>1. Len(got) < Wanted(got) /\ Len(tx) # 0
      BY <1>2, <2>1, <2>3
    <3> QED
      BY <3>1 DEF HostCanRead
  <2> QED
    BY <2>2, <2>3
<1> QED
  BY <1>3, <1>4

\* The safety half of WaitingHostIsAnswered, one: whatever dead hosts left in
\* the receive buffer, and however requests were cut, host and bridge never
\* both wait for bytes.  try_read_msg waits only for the rest of a message, and
\* a host that waits has put more than that behind its head.
THEOREM NeverBothWait == SSpec => [](Waiting => SomebodyMoves)
<1>1. HInv => (Waiting => SomebodyMoves)
  <2> SUFFICES ASSUME HInv, host = "waiting", wire = << >>, ~UnknownType, ~CompleteMsg
               PROVE  HostCanRead
    BY DEF Waiting, SomebodyMoves
  <2>1. TypeOK /\ Replying(<< >>) /\ Due(<< >>, Len(rx) + Len(wire))
    BY DEF HInv, SInv, Heard
  <2>2. ASSUME Back(<< >>) = << >> PROVE FALSE
    <3>1. rx \in Bytes /\ Len(rx) \in Nat /\ Len(wire) = 0 /\ FrameLen \in Nat /\ FrameLen >= 3
      BY <2>1, ProtocolAssumption DEF TypeOK, Bytes, FrameLen
    <3>2. Len(rx) >= FrameLen
      BY <2>1, <2>2, <3>1 DEF Due
    <3>3. rx # << >>
      BY <3>1, <3>2
    <3>4. Len(rx) < Taken(rx[1]) /\ Taken(rx[1]) \in 1 .. FrameLen
      BY <3>1, <3>3, LoopWaits, TakenBounds
    <3> QED
      BY <3>1, <3>2, <3>4
  <2> QED
    BY <2>1, <2>2, ReplyIsRead
<1> QED
  BY <1>1, HeardInductive, PTL

\* Fewer bytes in front of the host: on the wire, or else in the receive
\* buffer, or else on their way back.
FewerBytes ==
    \/ Len(wire') < Len(wire)
    \/ wire' = wire /\ Len(rx') < Len(rx)
    \/ wire' = wire /\ rx' = rx /\ Len(tx') < Len(tx)

\* Taking from the front.
LEMMA Shortened ==
    ASSUME NEW s \in Bytes, NEW k \in 1 .. Len(s)
    PROVE  Len(SubSeq(s, k + 1, Len(s))) < Len(s)
  BY DEF Bytes

\* The safety half of WaitingHostIsAnswered, two: while a host waits, every step
\* of anybody uses up bytes, in an order in which they run out.  With
\* NeverBothWait, and if those who can move do, the waiting ends.
THEOREM WaitingRunsOut == SSpec => [][Waiting /\ Waiting' => FewerBytes]_svars
<1>1. SInv /\ [SNext]_svars => [Waiting /\ Waiting' => FewerBytes]_svars
  <2> SUFFICES ASSUME SInv, SNext, Waiting, Waiting' PROVE FewerBytes
    OBVIOUS
  <2>0. TypeOK /\ rx \in Bytes /\ tx \in Bytes /\ wire \in Bytes /\ dtr /\ host = "waiting"
        /\ dtr' /\ host' = "waiting"
    BY DEF SInv, TypeOK, Waiting
  <2>1. ~Open /\ ~HostWrite /\ ~CloseClean /\ ~CloseCut
    BY <2>0 DEF Open, HostWrite, write_serial, CloseClean, CloseCut, Close
  <2>2. CASE UsbDeliver
    <3>1. PICK k \in 1 .. Len(wire) : wire' = SubSeq(wire, k + 1, Len(wire))
      BY <2>2 DEF UsbDeliver, Deliver
    <3> QED
      BY <2>0, <3>1, Shortened DEF FewerBytes
  <2>3. CASE Loop
    <3>1. /\ rx # << >> /\ Taken(rx[1]) <= Len(rx)
          /\ rx' = Drop(rx, Taken(rx[1])) /\ UNCHANGED wire
      BY <2>0, <2>3, LoopTakes DEF Loop
    <3>2. Taken(rx[1]) \in 1 .. Len(rx)
      BY <2>0, <3>1, TakenBounds, ProtocolAssumption DEF FrameLen, Bytes
    <3> QED
      BY <2>0, <3>1, <3>2, Shortened DEF FewerBytes, Drop
  <2>4. CASE HostRead
    <3>1. read_exact
      BY <2>0, <2>4 DEF HostRead, read_serial, EndRead
    <3>2. PICK k \in 1 .. Len(tx) : tx' = SubSeq(tx, k + 1, Len(tx))
      BY <3>1 DEF read_exact
    <3> QED
      BY <2>0, <3>1, <3>2, Shortened DEF FewerBytes, read_exact
  <2> QED
    BY <2>1, <2>2, <2>3, <2>4 DEF SNext
<1> QED
  BY <1>1, SessionsInductive, PTL DEF SSpec

-----------------------------------------------------------------------------
(* RustBridge: the Rust firmware.                                          *)

RTypes ==
    /\ TypeOK
    /\ chunk \in Bytes /\ acc \in Bytes /\ out \in Bytes /\ inep \in Bytes
    /\ acc # << >> => Len(acc) < get_msg_size(acc[1])
    /\ noticed \in BOOLEAN /\ clean \in BOOLEAN /\ torn \in BOOLEAN

Whole == {<< >>} \cup {PinsFrame(p) : p \in Payload}

\* As Framed, with the bytes where this firmware keeps them.
Aligned ==
    /\ acc \o (chunk \o (rx \o wire)) \in Series
    /\ got \o tx \in Series
    /\ inep \in Whole /\ out \in Whole
    /\ host # "failed"

RInv ==
    /\ RTypes /\ Ports
    /\ ~dtr /\ noticed => acc = << >> /\ chunk = << >> /\ out = << >>
    /\ clean => refused = 0
    /\ dtr /\ clean => Aligned
    /\ cuts = 0 /\ ~torn => Aligned

\* A series with a whole message, or nothing, behind it is a series.
LEMMA WholeGrows ==
    ASSUME NEW s \in Series, NEW w \in Whole
    PROVE  s \o w \in Series
<1>1. CASE w = << >>
  <2>1. s \in Bytes /\ w \in Bytes
    BY <1>1 DEF Series, RowsOf, Bytes
  <2>2. s \o << >> = s
    BY <2>1, Concat
  <2> QED
    BY <1>1, <2>2
<1>2. CASE w # << >>
  BY <1>2, SeriesGrows DEF Whole
<1> QED
  BY <1>1, <1>2

\* The sizes of the messages.
LEMMA Sizes ==
    /\ FrameLen \in Nat /\ FrameLen >= 3
    /\ get_msg_size(MSG_PINS) = FrameLen
    /\ \A t \in Byte : get_msg_size(t) \in {0, 3, FrameLen}
  BY ProtocolAssumption
     DEF get_msg_size, FrameLen, MSG_PINS, MSG_ERROR, MSG_STATUS

\* push moves one byte from the chunk to the accumulator, and has a message
\* exactly when the accumulator has as many bytes as its type calls for.
LEMMA PushBytes ==
    ASSUME RTypes, chunk # << >>
    PROVE  /\ Pushed \in Bytes /\ Pushed # << >> /\ Tail(chunk) \in Bytes
           /\ Pushed \o Tail(chunk) = acc \o chunk
           /\ Pushed[1] \in Byte
           /\ Unknown => Len(Pushed) = 1 /\ get_msg_size(Pushed[1]) = 0
           /\ ~Unknown => get_msg_size(Pushed[1]) # 0
           /\ Complete => Len(Pushed) = get_msg_size(Pushed[1])
           /\ ~Unknown /\ ~Complete => Len(Pushed) < get_msg_size(Pushed[1])
<1>1. chunk \in Seq(Byte) /\ acc \in Seq(Byte) /\ chunk # << >>
  BY DEF RTypes, Bytes
<1>2. Head(chunk) \in Byte /\ Tail(chunk) \in Seq(Byte) /\ chunk = <<Head(chunk)>> \o Tail(chunk)
  BY <1>1
<1>3. /\ Pushed \in Seq(Byte) /\ Len(Pushed) = Len(acc) + 1
      /\ Pushed[1] = IF acc = << >> THEN Head(chunk) ELSE acc[1]
      /\ Pushed[1] \in Byte
  BY <1>1, <1>2 DEF Pushed
<1>4. Pushed = acc \o <<Head(chunk)>>
  BY <1>1, <1>2 DEF Pushed
<1>5. Pushed \o Tail(chunk) = acc \o chunk
  <2>1. <<Head(chunk)>> \in Bytes /\ acc \in Bytes /\ Tail(chunk) \in Bytes
    BY <1>1, <1>2 DEF Bytes
  <2>2. (acc \o <<Head(chunk)>>) \o Tail(chunk) = acc \o (<<Head(chunk)>> \o Tail(chunk))
    BY <2>1, Joined, Zenon
  <2> QED
    BY <1>2, <1>4, <2>2, Zenon
<1>6. Pushed # << >> /\ Len(Pushed) >= 1 /\ Len(Pushed) \in Nat /\ Len(acc) \in Nat
  BY <1>1, <1>3
<1>7. /\ get_msg_size(Pushed[1]) \in {0, 3, FrameLen} /\ FrameLen \in Nat /\ FrameLen >= 3
  BY <1>3, Sizes
<1>8. Unknown => Len(Pushed) = 1 /\ get_msg_size(Pushed[1]) = 0
  BY <1>1, <1>3 DEF Unknown
<1>9. acc # << >> => Len(acc) < get_msg_size(Pushed[1])
  BY <1>3 DEF RTypes
<1>10. ~Unknown => get_msg_size(Pushed[1]) # 0
  BY <1>3, <1>6, <1>7, <1>9 DEF Unknown
<1>11. Complete => Len(Pushed) = get_msg_size(Pushed[1])
  <2> SUFFICES ASSUME Complete PROVE Len(Pushed) = get_msg_size(Pushed[1])
    OBVIOUS
  <2>1. Len(Pushed) >= get_msg_size(Pushed[1]) /\ get_msg_size(Pushed[1]) # 0
    BY <1>10 DEF Complete
  <2>2. CASE acc = << >>
    BY <1>3, <1>7, <2>1, <2>2
  <2>3. CASE acc # << >>
    BY <1>3, <1>6, <1>7, <1>9, <2>1, <2>3
  <2> QED
    BY <2>2, <2>3
<1>12. ~Unknown /\ ~Complete => Len(Pushed) < get_msg_size(Pushed[1])
  BY <1>6, <1>7 DEF Complete
<1> QED
  BY <1>2, <1>3, <1>5, <1>6, <1>8, <1>10, <1>11, <1>12 DEF Bytes

\* What push answers is a message, and what it applies is a payload.
LEMMA PushKeeps ==
    ASSUME RTypes, push
    PROVE  RTypes'
<1>1. chunk # << >> /\ out = << >>
  BY DEF push
<1>2. /\ Pushed \in Bytes /\ Tail(chunk) \in Bytes
      /\ ~Unknown /\ ~Complete => Len(Pushed) < get_msg_size(Pushed[1])
      /\ Complete => Len(Pushed) = get_msg_size(Pushed[1])
  BY <1>1, PushBytes
<1>3. chunk' \in Bytes /\ acc' \in Bytes /\ (acc' # << >> => Len(acc') < get_msg_size(acc'[1]))
  <2>1. CASE Unknown \/ Complete
    <3>1. acc' = << >> /\ chunk' = Tail(chunk)
      BY <2>1 DEF push
    <3>2. << >> \in Bytes
      BY DEF Bytes
    <3> QED
      BY <1>2, <3>1, <3>2, Zenon
  <2>2. CASE ~Unknown /\ ~Complete
    <3>1. acc' = Pushed /\ chunk' = Tail(chunk)
      BY <2>2 DEF push
    <3> QED
      BY <1>2, <2>2, <3>1, Zenon
  <2> QED
    BY <2>1, <2>2
<1>4. out' \in Bytes /\ pins' \in Payload /\ sample' \in Payload
  <2>1. CASE RejectWith(ERR_INVALID_MSG_TYPE) \/ RejectWith(ERR_INVALID_CHECKSUM)
    BY <2>1, ErrorBytes DEF RejectWith, RTypes, TypeOK, bridgeVars
  <2>2. CASE Complete /\ Pushed[1] = MSG_PINS /\ ServePushed
    <3>1. PICK s \in Levels : sample' = s /\ out' = PinsFrame(s)
      BY <2>2 DEF ServePushed
    <3>2. s \in Payload /\ out' \in Bytes
      BY <3>1, LevelsAssumption, FrameBytes
    <3>3. Len(Pushed) >= FrameLen
      BY <1>2, <2>2, Sizes
    <3>4. DataOf(Pushed) \in Payload
      BY <1>2, <2>2, <3>3, PayloadOf
    <3> QED
      BY <2>2, <3>1, <3>2, <3>4 DEF ServePushed
  <2>3. CASE UNCHANGED <<out, bridgeVars>>
    BY <2>3 DEF RTypes, TypeOK, bridgeVars
  <2> QED
    BY <2>1, <2>2, <2>3 DEF push
<1> QED
  BY <1>3, <1>4 DEF push, firmwareOnly, hostVars, RTypes, TypeOK

\* Of a series of requests, push serves one after the other.
LEMMA PushAligned ==
    ASSUME RTypes, push, Aligned
    PROVE  Aligned'
<1> DEFINE rest == Tail(chunk) \o (rx \o wire)
<1>1. chunk # << >> /\ out = << >>
  BY DEF push
<1>2. /\ Pushed \in Bytes /\ Pushed # << >> /\ Tail(chunk) \in Bytes
      /\ Pushed \o Tail(chunk) = acc \o chunk
      /\ Unknown => get_msg_size(Pushed[1]) = 0
      /\ Complete => Len(Pushed) = get_msg_size(Pushed[1])
  BY <1>1, PushBytes
<1>3. rx \o wire \in Bytes /\ rest \in Bytes /\ acc \in Bytes /\ chunk \in Bytes
  BY <1>2, Concat DEF RTypes, TypeOK
<1>4. Pushed \o rest \in Series
  <2>1. (Pushed \o Tail(chunk)) \o (rx \o wire) = Pushed \o rest
    BY <1>2, <1>3, Joined, Zenon
  <2>2. (acc \o chunk) \o (rx \o wire) = acc \o (chunk \o (rx \o wire))
    BY <1>3, Joined, Zenon
  <2> HIDE DEF rest
  <2>3. Pushed \o rest = acc \o (chunk \o (rx \o wire))
    BY <1>2, <2>1, <2>2, Zenon
  <2> QED
    BY <2>3 DEF Aligned
<1>5. rest = chunk' \o (rx' \o wire')
  BY DEF push, firmwareOnly
<1>6. got' \o tx' \in Series /\ inep' \in Whole /\ host' # "failed"
  BY DEF push, firmwareOnly, hostVars, Aligned
<1> HIDE DEF rest
<1>7. Pushed[1] = MSG_PINS
  BY <1>2, <1>3, <1>4, FirstMessage
<1>8. ~Unknown
  BY <1>2, <1>7, Sizes
<1>9. CASE Complete
  <2>1. Len(Pushed) = FrameLen /\ Len(Pushed) >= FrameLen
    BY <1>2, <1>7, <1>9, Sizes
  <2>2. validate_checksum(Pushed) /\ SubSeq(Pushed, FrameLen + 1, Len(Pushed)) \o rest \in Series
    BY <1>2, <1>3, <1>4, <2>1, FirstMessage
  <2>3. SubSeq(Pushed, FrameLen + 1, Len(Pushed)) = << >>
    BY <1>2, <2>1, Sizes DEF Bytes
  <2>4. << >> \o rest \in Series
    BY <2>2, <2>3
  <2>5. acc' = << >> /\ ServePushed
    BY <1>7, <1>8, <1>9, <2>2 DEF push
  <2>6. out' \in Whole
    BY <2>5, LevelsAssumption DEF ServePushed, Whole
  <2> QED
    BY <1>5, <1>6, <2>4, <2>5, <2>6 DEF Aligned
<1>10. CASE ~Complete
  <2>1. acc' = Pushed /\ out' = out
    BY <1>8, <1>10 DEF push
  <2> QED
    BY <1>4, <1>5, <1>6, <2>1 DEF Aligned
<1> QED
  BY <1>9, <1>10

\* The other steps while a program has the port: bytes change their place.
LEMMA WriteAligned ==
    ASSUME RTypes, Ports, Write, Aligned
    PROVE  Aligned'
<1>1. /\ got = << >> /\ got' = << >> /\ host' = "waiting" /\ UNCHANGED <<rx, tx>>
      /\ UNCHANGED <<chunk, acc, out, inep>>
  BY HostWritePorts DEF Write, RTypes, rustVars
<1>2. PICK p \in Payload : wire' = wire \o PinsFrame(p)
  BY HostWritePorts DEF Write, RTypes
<1> DEFINE F == PinsFrame(p)
<1>3. /\ acc \in Bytes /\ chunk \in Bytes /\ rx \in Bytes /\ wire \in Bytes /\ F \in Bytes
      /\ rx \o wire \in Bytes /\ chunk \o (rx \o wire) \in Bytes
  BY FrameBytes, Concat DEF RTypes, TypeOK
<1>4. (acc \o (chunk \o (rx \o wire))) \o F \in Series
  BY SeriesGrows DEF Aligned
<1> HIDE DEF F
<1>5. (acc \o (chunk \o (rx \o wire))) \o F = acc \o (chunk \o (rx \o (wire \o F)))
  <2>1. rx \in Bytes /\ wire \in Bytes /\ F \in Bytes
    BY <1>3
  <2>2. (rx \o wire) \o F = rx \o (wire \o F)
    BY <2>1, Joined, Zenon
  <2>3. \A x \in Bytes : (chunk \o x) \o F = chunk \o (x \o F)
    <3>1. chunk \in Bytes
      BY <1>3
    <3> QED
      BY <2>1, <3>1, Joined, Zenon
  <2>4. \A x \in Bytes : (acc \o x) \o F = acc \o (x \o F)
    <3>1. acc \in Bytes
      BY <1>3
    <3> QED
      BY <2>1, <3>1, Joined, Zenon
  <2>5. (chunk \o (rx \o wire)) \o F = chunk \o ((rx \o wire) \o F)
    BY <1>3, <2>3, Zenon
  <2>6. (acc \o (chunk \o (rx \o wire))) \o F = acc \o ((chunk \o (rx \o wire)) \o F)
    BY <1>3, <2>4, Zenon
  <2> QED
    BY <2>2, <2>5, <2>6, Zenon
<1>6. wire' = wire \o F
  BY <1>2 DEF F
<1> QED
  BY <1>1, <1>4, <1>5, <1>6 DEF Aligned

\* read_serial takes a good reply off the front.
LEMMA ReadAligned ==
    ASSUME RTypes, Ports, Read, Aligned
    PROVE  Aligned'
<1>1. UNCHANGED <<rx, wire>> /\ UNCHANGED <<chunk, acc, out, inep>>
  BY HostReadPorts DEF Read, RTypes, rustVars
<1>2. got' \o tx' \in Series /\ host' # "failed"
  BY ReadSeries DEF Read, HostRead, RTypes, Aligned
<1> QED
  BY <1>1, <1>2 DEF Aligned

\* Delivery moves a part of the series.
LEMMA ArriveAligned ==
    ASSUME RTypes, Ports, Arrive, Aligned
    PROVE  Aligned'
  BY UsbPorts DEF Arrive, RTypes, rustVars, Aligned

\* The driver fetches a whole reply.
LEMMA FetchAligned ==
    ASSUME RTypes, Fetch, Aligned
    PROVE  Aligned'
<1>1. got \in Bytes /\ tx \in Bytes /\ inep \in Bytes
  BY DEF RTypes, TypeOK
<1>2. (got \o tx) \o inep = got \o (tx \o inep)
  BY <1>1, Joined, Zenon
<1>3. (got \o tx) \o inep \in Series
  BY WholeGrows DEF Aligned
<1> QED
  BY <1>2, <1>3 DEF Fetch, Aligned, Whole, hostVars

\* What serial.read leaves in the endpoint follows what it returns.
LEMMA ReadBytes ==
    ASSUME RTypes, PollRead
    PROVE  /\ chunk = << >> /\ chunk' \in Bytes /\ rx' \in Bytes /\ chunk' \o rx' = rx
<1>1. PICK k \in 1 .. Len(rx) : chunk' = SubSeq(rx, 1, k) /\ rx' = SubSeq(rx, k + 1, Len(rx))
  BY DEF PollRead
<1>2. rx \in Seq(Byte) /\ << >> \in Seq(Byte)
  BY DEF RTypes, TypeOK, Bytes
<1>3. /\ chunk' \in Seq(Byte) /\ rx' \in Seq(Byte)
      /\ (<< >> \o chunk') \o rx' = << >> \o rx
  BY <1>1, <1>2, MoveChunk
<1>4. chunk' \o rx' = rx
  BY <1>2, <1>3
<1> QED
  BY <1>3, <1>4 DEF PollRead, BetweenPasses, Bytes

\* read moves a part of the series from the endpoint into the chunk.
LEMMA PollReadAligned ==
    ASSUME RTypes, PollRead, Aligned
    PROVE  Aligned'
<1>1. chunk = << >> /\ chunk' \in Bytes /\ rx' \in Bytes /\ chunk' \o rx' = rx
  BY ReadBytes
<1>2. rx \in Bytes /\ wire \in Bytes /\ rx \o wire \in Bytes
  BY Concat DEF RTypes, TypeOK
<1>3. chunk' \o (rx' \o wire) = chunk \o (rx \o wire)
  <2>1. (chunk' \o rx') \o wire = chunk' \o (rx' \o wire)
    <3>1. chunk' \in Bytes /\ rx' \in Bytes /\ wire \in Bytes
      BY <1>1, <1>2
    <3> QED
      BY <3>1, Joined, Zenon
  <2>2. << >> \o (rx \o wire) = rx \o wire
    BY <1>2, Concat
  <2> QED
    BY <1>1, <2>1, <2>2, Zenon
<1>4. UNCHANGED <<acc, wire, got, tx, inep, out, host>>
  BY DEF PollRead, firmwareOnly, hostVars
<1> QED
  BY <1>3, <1>4 DEF Aligned

\* send_msg puts a whole reply into the endpoint.
LEMMA SendAligned ==
    ASSUME RTypes, send_msg, Aligned
    PROVE  Aligned'
  BY DEF send_msg, firmwareOnly, hostVars, Aligned, Whole

\* The dead program's bytes stay in order, and clear finds no half message
\* behind which there is nothing.
LEMMA CloseAligned ==
    ASSUME RTypes, Ports, DieClean, Aligned
    PROVE  Aligned'
<1>1. /\ host' = "ready" /\ got' = << >> /\ tx' = << >> /\ wire' = << >>
      /\ cuts' = 0 => cuts = 0 /\ rx' = rx \o wire
  BY ClosePorts DEF DieClean, RTypes
<1>2. rx' = rx \o wire
  <2>1. Close(Len(wire)) /\ Len(wire) \in 0 .. Len(wire)
    BY DEF DieClean, CloseClean, RTypes, TypeOK, Bytes
  <2>2. rx' = rx \o SubSeq(wire, 1, Len(wire))
    BY <2>1, CloseKeeps DEF RTypes
  <2>3. SubSeq(wire, 1, Len(wire)) = wire
    BY SubSeqFull DEF RTypes, TypeOK, Bytes
  <2> QED
    BY <2>2, <2>3
<1>3. rx \o wire \in Bytes
  BY Concat DEF RTypes, TypeOK
<1>4. rx' \o wire' = rx \o wire
  BY <1>1, <1>2, <1>3, Concat
<1>5. got' \o tx' \in Series
  BY <1>1, SeriesGrows
<1>6. UNCHANGED <<chunk, acc, out, inep>>
  BY DEF DieClean, rustVars
<1> QED
  BY <1>1, <1>4, <1>5, <1>6 DEF Aligned

\* clear drops a head only when nothing follows it, or else tears.
LEMMA ClearAligned ==
    ASSUME RTypes, Ports, PollNoHost, Aligned, ~torn'
    PROVE  Aligned'
<1>1. /\ chunk = << >> /\ wire = << >> /\ acc' = << >> /\ (acc = << >> \/ rx = << >>)
      /\ UNCHANGED <<chunk, rx, wire, got, tx, inep, out, host>>
  BY DEF PollNoHost, BetweenPasses, Ports, firmwareOnly, bridgeVars, hostVars
<1>2. acc = << >>
  <2> SUFFICES ASSUME acc # << >> PROVE FALSE
    OBVIOUS
  <2>1. acc \in Bytes /\ << >> \in Bytes
    BY DEF RTypes, Bytes
  <2>2. acc \o (<< >> \o (<< >> \o << >>)) = acc
    BY <2>1, Concat
  <2>3. acc \in Series
    BY <1>1, <2>2 DEF Aligned
  <2>4. PICK p \in Payload, r \in Series : acc = PinsFrame(p) \o r
    BY <2>3, SeriesHead
  <2>5. Len(acc) = FrameLen + Len(r) /\ Len(r) \in Nat
    <3>1. PinsFrame(p) \in Bytes /\ Len(PinsFrame(p)) = FrameLen /\ r \in Bytes
      BY FrameBytes DEF Series, RowsOf
    <3>2. Len(PinsFrame(p) \o r) = Len(PinsFrame(p)) + Len(r)
      BY <3>1, Concat
    <3> QED
      BY <2>4, <3>1, <3>2 DEF Bytes
  <2>6. acc \o << >> \in Series
    BY <2>1, <2>3, Concat
  <2>7. acc[1] = MSG_PINS
    BY <2>1, <2>6, FirstMessage
  <2>8. Len(acc) < FrameLen
    BY <2>7, Sizes DEF RTypes
  <2> QED
    BY <2>5, <2>8, Sizes
<1> QED
  BY <1>1, <1>2 DEF Aligned

-----------------------------------------------------------------------------
\* The steps of RustBridge.

\* Before the first program nothing is in flight.
LEMMA RInitInv == RInit => RInv
<1> SUFFICES ASSUME RInit PROVE RInv
  OBVIOUS
<1>1. SInv
  BY SInitInv DEF RInit
<1>2. /\ chunk = << >> /\ acc = << >> /\ out = << >> /\ inep = << >>
      /\ noticed = TRUE /\ clean = TRUE /\ torn = FALSE
      /\ wire = << >> /\ rx = << >> /\ tx = << >> /\ got = << >> /\ host = "ready" /\ refused = 0
  BY Zenon DEF RInit, SInit, Init
<1>3. << >> \in Bytes /\ << >> \in Series
  BY SeriesGrows DEF Bytes
<1>4. << >> \o << >> = << >>
  OBVIOUS
<1>5. RTypes
  BY <1>1, <1>2, <1>3 DEF SInv, RTypes
<1>6. Aligned
  BY <1>2, <1>3, <1>4 DEF Aligned, Whole
<1> QED
  BY <1>1, <1>2, <1>5, <1>6 DEF SInv, RInv

\* A step that opens and closes nothing keeps the invariant if it keeps the
\* alignment.
LEMMA Running ==
    ASSUME RInv, RTypes', Ports', dtr \/ ~noticed,
           UNCHANGED <<dtr, cuts, torn, clean, noticed>>,
           Aligned => Aligned' /\ refused' = refused,
           ~dtr => refused' = refused
    PROVE  RInv'
  BY DEF RInv

\* A request of the program.
LEMMA WriteInv == ASSUME RInv, Write PROVE RInv'
<1>1. TypeOK' /\ Ports' /\ refused' = refused /\ UNCHANGED <<rustVars, rustHistory>>
  BY HostWritePorts DEF RInv, RTypes, Write
<1>2. RTypes'
  BY <1>1 DEF RInv, RTypes, rustVars, rustHistory
<1>3. UNCHANGED <<dtr, cuts, torn, clean, noticed>> /\ dtr
  BY DEF Write, HostWrite, tally, rustHistory
<1> QED
  BY <1>1, <1>2, <1>3, Running, WriteAligned DEF RInv

\* The program reads.
LEMMA ReadInv == ASSUME RInv, Read PROVE RInv'
<1>1. TypeOK' /\ Ports' /\ UNCHANGED <<rustVars, rustHistory>> /\ (host' # "failed" => refused' = refused)
  BY HostReadPorts DEF RInv, RTypes, Read
<1>2. RTypes'
  BY <1>1 DEF RInv, RTypes, rustVars, rustHistory
<1>3. UNCHANGED <<dtr, cuts, torn, clean, noticed>> /\ dtr
  BY DEF Read, HostRead, rustHistory
<1>4. Aligned => Aligned' /\ refused' = refused
  BY <1>1, ReadAligned DEF RInv, Aligned
<1> QED
  BY <1>1, <1>2, <1>3, <1>4, Running DEF RInv

\* Bytes that arrive.
LEMMA ArriveInv == ASSUME RInv, Arrive PROVE RInv'
<1>1. TypeOK' /\ Ports' /\ refused' = refused /\ UNCHANGED <<rustVars, rustHistory>>
  BY UsbPorts DEF RInv, RTypes, Arrive
<1>2. RTypes'
  BY <1>1 DEF RInv, RTypes, rustVars, rustHistory
<1>3. UNCHANGED <<dtr, cuts, torn, clean, noticed>> /\ dtr
  BY DEF Arrive, UsbDeliver, tally, rustHistory
<1> QED
  BY <1>1, <1>2, <1>3, Running, ArriveAligned DEF RInv

\* The driver fetches a reply.
LEMMA FetchInv == ASSUME RInv, Fetch PROVE RInv'
<1>1. tx' \in Bytes /\ inep' \in Bytes
  <2>1. tx \in Bytes /\ inep \in Bytes /\ << >> \in Bytes
    BY DEF RInv, RTypes, TypeOK, Bytes
  <2> QED
    BY <2>1, Concat DEF Fetch
<1>2. RTypes'
  BY <1>1 DEF RInv, RTypes, TypeOK, Fetch, hostVars, bridgeVars, rustHistory
<1>3. UNCHANGED <<dtr, cuts, torn, clean, noticed, refused>> /\ dtr
  BY DEF Fetch, tally, rustHistory
<1>4. Ports'
  BY <1>3 DEF RInv, Ports, Fetch, tally, hostVars
<1> QED
  BY <1>2, <1>3, <1>4, Running, FetchAligned DEF RInv

\* A pass of the loop in main while it has bytes, an event or a reply.
LEMMA FirmwareInv == ASSUME RInv, PollRead \/ push \/ send_msg PROVE RInv'
<1>1. UNCHANGED <<dtr, cuts, torn, clean, noticed, refused>>
  BY DEF PollRead, push, send_msg, firmwareOnly, tally
<1>2. Ports'
  BY DEF RInv, Ports, PollRead, push, send_msg, firmwareOnly, tally, hostVars
<1>3. dtr \/ ~noticed
  BY DEF RInv, PollRead, push, send_msg
<1>4. RTypes'
  <2>1. CASE PollRead
    <3>1. chunk' \in Bytes /\ rx' \in Bytes
      BY <2>1, ReadBytes DEF RInv
    <3> QED
      BY <2>1, <3>1 DEF PollRead, firmwareOnly, hostVars, bridgeVars, RInv, RTypes, TypeOK
  <2>2. CASE push
    BY <2>2, PushKeeps DEF RInv
  <2>3. CASE send_msg
    <3>1. << >> \in Bytes
      BY DEF Bytes
    <3> QED
      BY <2>3, <3>1 DEF send_msg, firmwareOnly, hostVars, bridgeVars, RInv, RTypes, TypeOK
  <2> QED
    BY <2>1, <2>2, <2>3
<1>5. Aligned => Aligned'
  BY PollReadAligned, PushAligned, SendAligned DEF RInv
<1> QED
  BY <1>1, <1>2, <1>3, <1>4, <1>5, Running

\* A program that finds no remains, after the firmware has polled, starts
\* aligned.
LEMMA OpenInv == ASSUME RInv, OpenPort PROVE RInv'
<1>1. TypeOK' /\ Ports' /\ refused' = refused
  BY OpenPorts DEF RInv, RTypes, OpenPort
<1>2. /\ UNCHANGED <<host, got, wire, rx, tx>> /\ UNCHANGED <<chunk, acc, out, inep, noticed, torn, cuts>>
      /\ clean' = (clean /\ noticed /\ ~Remains) /\ ~dtr /\ dtr'
  BY DEF OpenPort, Open, vars, rustVars
<1>3. RTypes'
  BY <1>1, <1>2 DEF RInv, RTypes
<1>4. Aligned => Aligned'
  BY <1>2 DEF Aligned
<1>5. clean' => Aligned'
  <2> SUFFICES ASSUME clean' PROVE Aligned'
    OBVIOUS
  <2>1. /\ acc = << >> /\ chunk = << >> /\ out = << >> /\ rx = << >> /\ inep = << >>
        /\ wire = << >> /\ tx = << >> /\ got = << >> /\ host = "ready"
    BY <1>2 DEF RInv, Ports, Remains
  <2>2. << >> \o (<< >> \o (<< >> \o << >>)) = << >> /\ << >> \o << >> = << >>
    OBVIOUS
  <2>3. << >> \in Series
    BY SeriesGrows
  <2> QED
    BY <1>2, <2>1, <2>2, <2>3 DEF Aligned, Whole
<1> QED
  BY <1>1, <1>2, <1>3, <1>4, <1>5 DEF RInv

\* A program dies; the firmware has not noticed yet.
LEMMA DieInv == ASSUME RInv, DieClean \/ DieCut PROVE RInv'
<1>1. /\ TypeOK' /\ Ports' /\ refused' = refused
      /\ UNCHANGED <<chunk, acc, out, inep, clean, torn>> /\ noticed' = FALSE
  BY ClosePorts DEF RInv, RTypes, DieClean, DieCut, rustVars
<1>2. RTypes'
  BY <1>1 DEF RInv, RTypes
<1>3. ~dtr'
  BY DEF DieClean, DieCut, CloseClean, CloseCut, Close
<1>4. cuts' = 0 /\ ~torn' => Aligned'
  <2>1. CASE DieClean
    <3>1. cuts' = cuts
      BY <2>1 DEF DieClean, CloseClean
    <3> QED
      BY <1>1, <2>1, <3>1, CloseAligned DEF RInv
  <2>2. CASE DieCut
    <3>1. cuts' # 0
      BY <2>2, Bounds DEF DieCut, CloseCut, RInv, Ports
    <3> QED
      BY <3>1
  <2> QED
    BY <2>1, <2>2
<1> QED
  BY <1>1, <1>2, <1>3, <1>4 DEF RInv

\* The firmware notices: the accumulator is empty for the next program.
LEMMA ClearInv == ASSUME RInv, PollNoHost PROVE RInv'
<1>1. /\ UNCHANGED <<chunk, out, inep, clean, cuts, dtr, refused>> /\ noticed' = TRUE /\ acc' = << >>
      /\ chunk = << >> /\ out = << >> /\ ~dtr
      /\ torn' = (torn \/ (acc # << >> /\ rx # << >>))
  BY DEF PollNoHost, BetweenPasses, firmwareOnly, tally
<1>2. torn' \in BOOLEAN /\ acc' \in Bytes
  BY <1>1 DEF RInv, RTypes, Bytes
<1>3. RTypes'
  BY <1>1, <1>2 DEF PollNoHost, firmwareOnly, bridgeVars, hostVars, RInv, RTypes, TypeOK
<1>4. Ports'
  BY DEF PollNoHost, firmwareOnly, tally, hostVars, RInv, Ports
<1>5. cuts' = 0 /\ ~torn' => Aligned'
  BY <1>1, ClearAligned DEF RInv
<1> QED
  BY <1>1, <1>3, <1>4, <1>5 DEF RInv

\* The invariant is inductive: read, push, clear and send_msg keep whole
\* messages whole, accumulator, chunk and endpoint taken together.
THEOREM RustInductive == RSpec => []RInv
<1>1. RInit => RInv
  BY RInitInv
<1>2. RInv /\ [RNext]_rvars => RInv'
  <2> SUFFICES ASSUME RInv, [RNext]_rvars PROVE RInv'
    OBVIOUS
  <2>1. CASE UNCHANGED rvars
    BY <2>1 DEF rvars, svars, vars, tally, rustVars, rustHistory, RInv, RTypes, TypeOK, Ports, Aligned
  <2> QED
    BY <2>1, OpenInv, WriteInv, ReadInv, ArriveInv, FetchInv, DieInv, ClearInv, FirmwareInv
       DEF RNext, Firmware
<1> QED
  BY <1>1, <1>2, PTL DEF RSpec

\* Types: in particular the accumulator never holds a whole message.
THEOREM RustTypes == RSpec => []RTypeOK
<1>1. RInv => RTypeOK
  <2> SUFFICES ASSUME RInv PROVE RTypeOK
    OBVIOUS
  <2>1. refused \in 0 .. MaxHosts
    BY Bounds DEF RInv, Ports
  <2> QED
    BY <2>1 DEF RInv, RTypes, Ports, RTypeOK, STypeOK
<1> QED
  BY <1>1, RustInductive, PTL

\* With the Rust firmware a program is refused only after a request was cut,
\* by USB or by clear; to die in the middle of send_msg, or with requests and
\* replies unread, is harmless.
THEOREM OnlyTears == RSpec => []OnlyTearsDesynchronise
<1>1. RInv => OnlyTearsDesynchronise
  BY DEF RInv, Aligned, OnlyTearsDesynchronise
<1> QED
  BY <1>1, RustInductive, PTL

\* clear does what it is for: when all that a dead program left is half a
\* request in the accumulator, no later program is refused because of it.
THEOREM ClearWorks == RSpec => []DisconnectDropsPartial
<1>1. RInv => DisconnectDropsPartial
  BY DEF RInv, DisconnectDropsPartial
<1> QED
  BY <1>1, RustInductive, PTL

-----------------------------------------------------------------------------
(* On the wire the Rust firmware is the C++ firmware.                      *)

\* A receiver that has the bytes a \o b, and takes the first k of a.
LEMMA TakePrefix ==
    ASSUME NEW a \in Bytes, NEW b \in Bytes, NEW k \in 1 .. Len(a)
    PROVE  /\ k \in 1 .. Len(a \o b)
           /\ SubSeq(a \o b, 1, k) = SubSeq(a, 1, k)
           /\ SubSeq(a \o b, k + 1, Len(a \o b)) = SubSeq(a, k + 1, Len(a)) \o b
<1>1. a \in Seq(Byte) /\ b \in Seq(Byte) /\ k \in Nat /\ k >= 1 /\ k <= Len(a)
  BY DEF Bytes
<1> DEFINE c == a \o b
<1>2. /\ c \in Seq(Byte) /\ Len(c) = Len(a) + Len(b)
      /\ \A i \in 1 .. Len(a) : c[i] = a[i]
      /\ \A i \in 1 .. Len(b) : c[Len(a) + i] = b[i]
  BY <1>1
<1> HIDE DEF c
<1>3. SubSeq(c, 1, k) = SubSeq(a, 1, k)
  <2> DEFINE x == SubSeq(c, 1, k)
             y == SubSeq(a, 1, k)
  <2>1. x \in Seq(Byte) /\ Len(x) = k /\ \A i \in 1 .. k : x[i] = c[i]
    BY <1>1, <1>2
  <2>2. y \in Seq(Byte) /\ Len(y) = k /\ \A i \in 1 .. k : y[i] = a[i]
    BY <1>1
  <2> HIDE DEF x, y
  <2>3. ASSUME NEW i \in 1 .. k PROVE x[i] = y[i]
    <3>1. i \in 1 .. Len(a)
      BY <1>1
    <3>2. x[i] = c[i] /\ y[i] = a[i] /\ c[i] = a[i]
      BY <1>2, <2>1, <2>2, <3>1, Zenon
    <3> QED
      BY <3>2
  <2>4. x = y
    BY <2>1, <2>2, <2>3, SeqEqual
  <2> QED
    BY <2>4 DEF x, y
<1>4. SubSeq(c, k + 1, Len(c)) = SubSeq(a, k + 1, Len(a)) \o b
  <2> DEFINE x == SubSeq(c, k + 1, Len(c))
             t == SubSeq(a, k + 1, Len(a))
             y == t \o b
  <2>1. /\ x \in Seq(Byte) /\ Len(x) = Len(a) + Len(b) - k
        /\ \A i \in 1 .. Len(a) + Len(b) - k : x[i] = c[k + i]
    BY <1>1, <1>2
  <2>2. /\ t \in Seq(Byte) /\ Len(t) = Len(a) - k
        /\ \A i \in 1 .. Len(a) - k : t[i] = a[k + i]
    BY <1>1
  <2> HIDE DEF t, x
  <2>3. /\ y \in Seq(Byte) /\ Len(y) = Len(a) - k + Len(b)
        /\ \A i \in 1 .. Len(a) - k : y[i] = t[i]
        /\ \A i \in 1 .. Len(b) : y[Len(a) - k + i] = b[i]
    <3>1. t \o b \in Seq(Byte)
      BY <1>1, <2>2, ConcatProperties
    <3>2. /\ Len(y) = Len(t) + Len(b)
          /\ \A i \in 1 .. Len(t) : y[i] = t[i]
          /\ \A i \in 1 .. Len(b) : y[Len(t) + i] = b[i]
      BY <1>1, <2>2, ConcatAt, Zenon
    <3> QED
      BY <1>1, <2>2, <3>1, <3>2
  <2> HIDE DEF y
  <2>4. ASSUME NEW i \in 1 .. Len(x) PROVE x[i] = y[i]
    <3>1. CASE i <= Len(a) - k
      <4>1. i \in 1 .. Len(a) - k /\ k + i \in 1 .. Len(a)
        BY <1>1, <2>1, <3>1
      <4> QED
        BY <1>2, <2>1, <2>2, <2>3, <4>1
    <3>2. CASE i > Len(a) - k
      <4> DEFINE j == i - (Len(a) - k)
      <4>1. j \in 1 .. Len(b) /\ k + i = Len(a) + j /\ i = Len(a) - k + j
        BY <1>1, <2>1, <3>2
      <4>2. x[i] = c[k + i]
        BY <2>1
      <4> HIDE DEF j
      <4>3. c[Len(a) + j] = b[j] /\ y[Len(a) - k + j] = b[j]
        BY <1>2, <2>3, <4>1
      <4> QED
        BY <4>1, <4>2, <4>3
    <3> QED
      BY <1>1, <3>1, <3>2
  <2>5. x = y
    <3>1. \A p, q \in Seq(Byte) : Len(p) = Len(q) /\ (\A i \in 1 .. Len(p) : p[i] = q[i]) => p = q
      BY SeqEqual
    <3>2. x \in Seq(Byte) /\ y \in Seq(Byte)
      BY <2>1, <2>3
    <3>3. Len(x) = Len(y)
      BY <1>1, <2>1, <2>3
    <3>4. \A i \in 1 .. Len(x) : x[i] = y[i]
      BY <2>4
    <3> QED
      BY <3>1, <3>2, <3>3, <3>4, Zenon
  <2> QED
    BY <2>5 DEF x, y, t
<1>5. k \in 1 .. Len(c)
  BY <1>1, <1>2
<1> QED
  BY <1>3, <1>4, <1>5 DEF c

\* A message is read off the first bytes: what follows it makes no difference.
LEMMA HeadOfMessage ==
    ASSUME NEW m \in Bytes, NEW r \in Bytes, m # << >>, m[1] = MSG_PINS, Len(m) = FrameLen
    PROVE  DataOf(m \o r) = DataOf(m) /\ validate_checksum(m \o r) = validate_checksum(m)
<1>1. m \in Seq(Byte) /\ r \in Seq(Byte) /\ BUFFSIZE \in Nat /\ BUFFSIZE > 0 /\ Len(m) = BUFFSIZE + 2
  BY ProtocolAssumption DEF Bytes, FrameLen
<1>2. get_data_size(MSG_PINS) = BUFFSIZE
  BY ProtocolAssumption
     DEF get_data_size, get_msg_size, MSG_PINS, MSG_ERROR, MSG_STATUS
<1> DEFINE c == m \o r
<1>3. /\ c \in Seq(Byte) /\ Len(c) = Len(m) + Len(r)
      /\ \A i \in 1 .. Len(m) : c[i] = m[i]
  BY <1>1
<1> HIDE DEF c
<1>4. c[1] = MSG_PINS /\ c[2 + BUFFSIZE] = m[2 + BUFFSIZE]
  BY <1>1, <1>3
<1>5. SubSeq(c, 2, 1 + BUFFSIZE) = SubSeq(m, 2, 1 + BUFFSIZE)
  <2> DEFINE x == SubSeq(c, 2, 1 + BUFFSIZE)
             y == SubSeq(m, 2, 1 + BUFFSIZE)
  <2>1. x \in Seq(Byte) /\ Len(x) = BUFFSIZE /\ \A i \in 1 .. BUFFSIZE : x[i] = c[i + 1]
    BY <1>1, <1>3
  <2>2. y \in Seq(Byte) /\ Len(y) = BUFFSIZE /\ \A i \in 1 .. BUFFSIZE : y[i] = m[i + 1]
    BY <1>1
  <2> HIDE DEF x, y
  <2>3. \A i \in 1 .. BUFFSIZE : x[i] = y[i]
    BY <1>1, <1>3, <2>1, <2>2
  <2>4. x = y
    BY <2>1, <2>2, <2>3, SeqEqual
  <2> QED
    BY <2>4 DEF x, y
<1>6. DataOf(c) = DataOf(m)
  BY <1>2, <1>4, <1>5 DEF DataOf
<1>7. validate_checksum(c) = validate_checksum(m)
  BY <1>2, <1>4, <1>6 DEF validate_checksum, ChecksumOf, TypeOf
<1> QED
  BY <1>6, <1>7 DEF c

-----------------------------------------------------------------------------
\* Both firmwares speak the same protocol.
LEMMA SameCodec ==
    /\ CPP!MSG_PINS = MSG_PINS
    /\ CPP!MSG_ERROR = MSG_ERROR
    /\ CPP!ERR_INVALID_MSG_TYPE = ERR_INVALID_MSG_TYPE
    /\ CPP!ERR_INVALID_CHECKSUM = ERR_INVALID_CHECKSUM
    /\ \A t : CPP!get_msg_size(t) = get_msg_size(t)
    /\ \A t : CPP!get_data_size(t) = get_data_size(t)
    /\ \A t, d : CPP!compute_checksum(t, d) = compute_checksum(t, d)
    /\ \A d : CPP!PinsFrame(d) = PinsFrame(d)
    /\ \A d : CPP!RequestFrame(d) = RequestFrame(d)
    /\ \A c : CPP!ErrorFrame(c) = ErrorFrame(c)
    /\ \A b : CPP!DataOf(b) = DataOf(b)
    /\ \A b : CPP!validate_checksum(b) = validate_checksum(b)
    /\ \A b : CPP!Wanted(b) = Wanted(b)
    /\ \A b : CPP!GoodReply(b) = GoodReply(b)
<1>1. /\ CPP!MSG_PINS = MSG_PINS /\ CPP!MSG_ERROR = MSG_ERROR /\ CPP!MSG_STATUS = MSG_STATUS
      /\ CPP!ERR_INVALID_MSG_TYPE = ERR_INVALID_MSG_TYPE
      /\ CPP!ERR_INVALID_CHECKSUM = ERR_INVALID_CHECKSUM
  BY DEF CPP!MSG_PINS, MSG_PINS, CPP!MSG_ERROR, MSG_ERROR, CPP!MSG_STATUS, MSG_STATUS,
         CPP!ERR_INVALID_MSG_TYPE, ERR_INVALID_MSG_TYPE,
         CPP!ERR_INVALID_CHECKSUM, ERR_INVALID_CHECKSUM
<1>2. \A t : CPP!get_msg_size(t) = get_msg_size(t)
  BY <1>1 DEF CPP!get_msg_size, get_msg_size
<1>3. \A t : CPP!get_data_size(t) = get_data_size(t)
  BY <1>2, Zenon DEF CPP!get_data_size, get_data_size
<1>4. \A t, d : CPP!RunningSum(t, d) = RunningSum(t, d)
  BY DEF CPP!RunningSum, RunningSum
<1>5. \A t, d : CPP!compute_checksum(t, d) = compute_checksum(t, d)
  BY <1>4, Zenon DEF CPP!compute_checksum, compute_checksum
<1>6. \A t, d : CPP!Frame(t, d) = Frame(t, d)
  BY <1>5, Zenon DEF CPP!Frame, Frame
<1>7. \A d : CPP!PinsFrame(d) = PinsFrame(d)
  BY <1>1, <1>6, Zenon DEF CPP!PinsFrame, PinsFrame
<1>8. \A c : CPP!ErrorFrame(c) = ErrorFrame(c)
  BY <1>1, <1>6, Zenon DEF CPP!ErrorFrame, ErrorFrame
<1>9. \A b : CPP!DataOf(b) = DataOf(b)
  BY <1>3, Zenon DEF CPP!DataOf, DataOf
<1>10. \A b : CPP!validate_checksum(b) = validate_checksum(b)
  BY <1>3, <1>5, <1>9, Zenon
     DEF CPP!validate_checksum, validate_checksum, CPP!ChecksumOf, ChecksumOf, CPP!TypeOf, TypeOf
<1>11. \A b : CPP!Wanted(b) = Wanted(b)
  BY <1>1 DEF CPP!Wanted, Wanted
<1>12. \A t, d : CPP!HostChecksum(t, d) = HostChecksum(t, d)
  BY DEF CPP!HostChecksum, HostChecksum
<1>13. \A b : CPP!GoodReply(b) = GoodReply(b)
  <2>1. \A b : CPP!ChecksumOf(b) = ChecksumOf(b)
    BY <1>3, Zenon DEF CPP!ChecksumOf, ChecksumOf
  <2> QED
    BY <1>1, <1>9, <1>12, <2>1, Zenon DEF CPP!GoodReply, GoodReply
<1>14. \A d : CPP!RequestFrame(d) = RequestFrame(d)
  BY <1>1, <1>12, Zenon DEF CPP!RequestFrame, RequestFrame
<1> QED
  BY <1>1, <1>2, <1>3, <1>5, <1>7, <1>8, <1>9, <1>10, <1>11, <1>13, <1>14

\* What is joined from no bytes and others.
LEMMA Nothing ==
    /\ << >> \in Bytes
    /\ \A a \in Bytes : a \o << >> = a /\ << >> \o a = a
<1>1. << >> \in Bytes
  BY DEF Bytes
<1> QED
  BY <1>1, Concat

CppRx == acc \o chunk \o rx
CppTx == tx \o inep \o out

\* The bytes of both.
LEMMA CppBytes ==
    ASSUME RTypes
    PROVE  CppRx \in Bytes /\ CppTx \in Bytes
<1>1. /\ acc \in Bytes /\ chunk \in Bytes /\ rx \in Bytes
      /\ tx \in Bytes /\ inep \in Bytes /\ out \in Bytes
  BY DEF RTypes, TypeOK
<1>2. acc \o chunk \in Bytes /\ tx \o inep \in Bytes
  BY <1>1, Concat
<1> QED
  BY <1>1, <1>2, Concat DEF CppRx, CppTx

\* A step of the firmware or of USB's that only moves bytes on.
LEMMA MovedOn ==
    ASSUME CppRx' = CppRx, CppTx' = CppTx, UNCHANGED <<hostVars, wire, bridgeVars>>
    PROVE  UNCHANGED CPP!vars
  BY DEF CPP!vars, CppRx, CppTx, hostVars, bridgeVars

\* The refinement, step by step.  The host is the same program.
LEMMA WriteIsCpp == ASSUME Write PROVE CPP!Next
<1>1. PICK p \in Levels : req' = p /\ wire' = wire \o RequestFrame(p)
  BY DEF Write, HostWrite, write_serial
<1>2. wire' = wire \o CPP!RequestFrame(p)
  BY <1>1, SameCodec, Zenon
<1>3. /\ host = "ready" /\ host' = "waiting" /\ got' = << >>
      /\ UNCHANGED <<result, pins, sample>> /\ UNCHANGED <<acc, chunk, rx, tx, inep, out>>
  BY DEF Write, HostWrite, write_serial, rustVars
<1>4. CPP!write_serial
  BY <1>1, <1>2, <1>3 DEF CPP!write_serial
<1> QED
  BY <1>4 DEF CPP!Next

\* It reads from what Link has in tx, endpoint and send_msg apart.
LEMMA ReadIsCpp == ASSUME RTypes, Read PROVE CPP!Next
<1>1. UNCHANGED <<acc, chunk, rx, inep, out>>
  BY DEF Read, HostRead, read_serial, read_exact, EndRead, rustVars
<1>2. CASE read_exact
  <2>1. PICK k \in 1 .. Len(tx) :
             /\ Len(got) + k <= Wanted(got)
             /\ got' = got \o SubSeq(tx, 1, k)
             /\ tx' = SubSeq(tx, k + 1, Len(tx))
    BY <1>2 DEF read_exact
  <2>2. tx \in Bytes /\ inep \in Bytes /\ out \in Bytes /\ inep \o out \in Bytes
    BY Concat DEF RTypes, TypeOK
  <2>3. tx' \in Bytes
    BY <2>1, <2>2, MoveChunk DEF Bytes
  <2>4. CppTx = tx \o (inep \o out) /\ CppTx' = tx' \o (inep \o out)
    <3>1. (tx \o inep) \o out = tx \o (inep \o out)
      BY <2>2, Joined, Zenon
    <3>2. (tx' \o inep) \o out = tx' \o (inep \o out)
      BY <2>2, <2>3, Joined, Zenon
    <3> QED
      BY <1>1, <3>1, <3>2 DEF CppTx
  <2>5. /\ k \in 1 .. Len(CppTx)
        /\ SubSeq(CppTx, 1, k) = SubSeq(tx, 1, k)
        /\ SubSeq(CppTx, k + 1, Len(CppTx)) = SubSeq(tx, k + 1, Len(tx)) \o (inep \o out)
    BY <2>2, <2>4, TakePrefix
  <2>6. /\ k \in 1 .. Len(CppTx)
        /\ Len(got) + k <= CPP!Wanted(got)
        /\ got' = got \o SubSeq(CppTx, 1, k)
        /\ CppTx' = SubSeq(CppTx, k + 1, Len(CppTx))
    BY <2>1, <2>4, <2>5, SameCodec
  <2>7. host = "waiting" /\ UNCHANGED <<host, req, result, wire, pins, sample>>
    BY <1>2 DEF read_exact
  <2>8. CPP!read_exact
    BY <1>1, <2>6, <2>7 DEF CPP!read_exact, CppTx
  <2> QED
    BY <2>8 DEF CPP!read_serial, CPP!Next
<1>3. CASE EndRead
  <2>1. CPP!ReplyComplete
    BY <1>3, SameCodec DEF EndRead, ReplyComplete, CPP!ReplyComplete
  <2>2. IF CPP!GoodReply(got)
        THEN result' = CPP!DataOf(got) /\ host' = "ready" /\ got' = << >>
        ELSE host' = "failed" /\ UNCHANGED <<result, got>>
    <3>1. CPP!GoodReply(got) = GoodReply(got) /\ CPP!DataOf(got) = DataOf(got)
      BY SameCodec, Zenon
    <3>2. IF GoodReply(got)
          THEN result' = DataOf(got) /\ host' = "ready" /\ got' = << >>
          ELSE host' = "failed" /\ UNCHANGED <<result, got>>
      BY <1>3 DEF EndRead
    <3> QED
      BY <3>1, <3>2
  <2>3. UNCHANGED <<req, wire, tx, pins, sample>>
    BY <1>3 DEF EndRead
  <2>4. CPP!EndRead
    BY <1>1, <2>1, <2>2, <2>3 DEF CPP!EndRead
  <2> QED
    BY <2>4 DEF CPP!read_serial, CPP!Next
<1> QED
  BY <1>2, <1>3 DEF Read, HostRead, read_serial

\* Bytes arrive behind those in accumulator and chunk.
LEMMA ArriveIsCpp == ASSUME RTypes, Arrive PROVE CPP!Next
<1>1. PICK k \in 1 .. Len(wire) :
           rx' = rx \o SubSeq(wire, 1, k) /\ wire' = SubSeq(wire, k + 1, Len(wire))
  BY DEF Arrive, UsbDeliver, Deliver
<1> DEFINE s == SubSeq(wire, 1, k)
<1>2. wire \in Seq(Byte) /\ acc \in Bytes /\ chunk \in Bytes /\ rx \in Bytes
  BY DEF RTypes, TypeOK, Bytes
<1>3. s \in Bytes
  BY <1>1, <1>2 DEF Bytes
<1> HIDE DEF s
<1>4. UNCHANGED <<acc, chunk, inep, out, host, req, got, result, tx, pins, sample>>
  BY DEF Arrive, UsbDeliver, Deliver, rustVars
<1>5. acc \o chunk \in Bytes
  BY <1>2, Concat
<1>6. CppRx' = CppRx \o s
  <2>1. ((acc \o chunk) \o rx) \o s = (acc \o chunk) \o (rx \o s)
    BY <1>2, <1>3, <1>5, Joined, Zenon
  <2>2. rx' = rx \o s
    BY <1>1 DEF s
  <2> QED
    BY <1>4, <2>1, <2>2 DEF CppRx
<1>7. CPP!Deliver
  BY <1>1, <1>4, <1>6 DEF CPP!Deliver, CppRx, s
<1> QED
  BY <1>7 DEF CPP!Next

\* A packet fetched is one Link has in tx already.
LEMMA FetchIsCpp == ASSUME RTypes, Fetch PROVE UNCHANGED CPP!vars
<1>1. /\ tx \in Bytes /\ inep \in Bytes /\ out \in Bytes /\ tx \o inep \in Bytes
  BY Concat DEF RTypes, TypeOK
<1>2. CppTx' = CppTx
  <2>1. (tx \o inep) \o << >> = tx \o inep
    BY <1>1, Nothing
  <2> QED
    BY <2>1 DEF Fetch, CppTx
<1>3. CppRx' = CppRx
  BY DEF Fetch, CppRx
<1>4. UNCHANGED <<hostVars, wire, bridgeVars>>
  BY DEF Fetch
<1> QED
  BY <1>2, <1>3, <1>4, MovedOn

\* A read moves bytes that Link has in rx already.
LEMMA PollReadIsCpp == ASSUME RTypes, PollRead PROVE UNCHANGED CPP!vars
<1>1. chunk = << >> /\ chunk' \in Bytes /\ rx' \in Bytes /\ chunk' \o rx' = rx /\ acc \in Bytes
  BY ReadBytes DEF RTypes
<1>2. CppRx' = CppRx
  <2>1. (acc \o chunk') \o rx' = acc \o (chunk' \o rx')
    BY <1>1, Joined, Zenon
  <2>2. acc \o << >> = acc
    BY <1>1, Nothing
  <2> QED
    BY <1>1, <2>1, <2>2 DEF CppRx, PollRead
<1>3. CppTx' = CppTx /\ UNCHANGED <<hostVars, wire, bridgeVars>>
  BY DEF PollRead, firmwareOnly, CppTx
<1> QED
  BY <1>2, <1>3, MovedOn

\* The IN endpoint is part of Link's tx.
LEMMA SendIsCpp == ASSUME RTypes, send_msg PROVE UNCHANGED CPP!vars
<1>1. tx \in Bytes /\ out \in Bytes /\ tx \o out \in Bytes
  BY Concat DEF RTypes, TypeOK
<1>2. (tx \o << >>) \o out = (tx \o out) \o << >>
  <2>1. tx \o << >> = tx /\ (tx \o out) \o << >> = tx \o out
    BY <1>1, Nothing
  <2> QED
    BY <2>1
<1>3. CppTx' = CppTx
  BY <1>2 DEF send_msg, firmwareOnly, CppTx
<1>4. CppRx' = CppRx /\ UNCHANGED <<hostVars, wire, bridgeVars>>
  BY DEF send_msg, firmwareOnly, CppRx
<1> QED
  BY <1>3, <1>4, MovedOn

\* push, while it waits for more of a message, and when it has one: all that
\* the C++ firmware has in its buffer begins with the message.
LEMMA PushIsCpp == ASSUME RTypes, push PROVE CPP!Next \/ UNCHANGED CPP!vars
<1> DEFINE rest == Tail(chunk) \o rx
           n == Len(Pushed)
<1>1. chunk # << >> /\ out = << >>
  BY DEF push
<1>2. /\ Pushed \in Bytes /\ Pushed # << >> /\ Tail(chunk) \in Bytes
      /\ Pushed \o Tail(chunk) = acc \o chunk /\ Pushed[1] \in Byte
      /\ Unknown => Len(Pushed) = 1 /\ get_msg_size(Pushed[1]) = 0
      /\ ~Unknown => get_msg_size(Pushed[1]) # 0
      /\ Complete => Len(Pushed) = get_msg_size(Pushed[1])
  BY <1>1, PushBytes
<1>3. rx \in Bytes /\ rest \in Bytes /\ tx \in Bytes /\ inep \in Bytes /\ tx \o inep \in Bytes
  BY <1>2, Concat DEF RTypes, TypeOK
<1>4. CppRx = Pushed \o rest
  <2>1. (Pushed \o Tail(chunk)) \o rx = Pushed \o (Tail(chunk) \o rx)
    BY <1>2, <1>3, Joined, Zenon
  <2> QED
    BY <1>2, <2>1 DEF CppRx
<1>5. /\ chunk' = Tail(chunk) /\ UNCHANGED <<rx, tx, inep, host, req, got, result, wire>>
      /\ acc' = IF Unknown \/ Complete THEN << >> ELSE Pushed
  BY DEF push, firmwareOnly, hostVars
<1>6. CppTx = tx \o inep /\ CppTx' = CppTx \o out'
  <2>1. (tx \o inep) \o << >> = tx \o inep
    BY <1>3, Nothing
  <2> QED
    BY <1>1, <1>5, <2>1 DEF CppTx
<1>7. CASE ~Unknown /\ ~Complete
  <2>1. acc' = Pushed /\ UNCHANGED <<out, bridgeVars>>
    BY <1>7 DEF push
  <2>2. CppRx' = CppRx
    BY <1>2, <1>5, <2>1 DEF CppRx
  <2>3. CppTx' = CppTx
    BY <1>5, <2>1 DEF CppTx
  <2>4. UNCHANGED <<hostVars, wire, bridgeVars>>
    BY <1>5, <2>1 DEF hostVars
  <2> QED
    BY <2>2, <2>3, <2>4, MovedOn
<1>8. CASE Unknown \/ Complete
  <2>1. CppRx' = rest
    <3>1. << >> \o Tail(chunk) = Tail(chunk)
      BY <1>2, Nothing
    <3> QED
      BY <1>5, <1>8, <3>1 DEF CppRx
  <2>2. /\ n \in 1 .. Len(Pushed)
        /\ SubSeq(Pushed, n + 1, Len(Pushed)) = << >>
        /\ << >> \o rest = rest
    BY <1>2, <1>3, Nothing DEF Bytes
  <2> HIDE DEF rest
  <2>3. CppRx # << >> /\ CppRx[1] = Pushed[1] /\ Len(CppRx) >= n
    BY <1>2, <1>3, <1>4, ConcatAt DEF Bytes
  <2>4. CppRx' = SubSeq(CppRx, n + 1, Len(CppRx))
    <3>1. SubSeq(CppRx, n + 1, Len(CppRx)) = SubSeq(Pushed, n + 1, Len(Pushed)) \o rest
      BY <1>2, <1>3, <1>4, <2>2, TakePrefix
    <3> QED
      BY <2>1, <2>2, <3>1
  <2> HIDE DEF n
  <2>5. CPP!PeekType = Pushed[1]
    BY <2>3 DEF CPP!PeekType, CppRx
  <2>6. /\ CPP!UnknownType <=> Unknown
        /\ Complete => CPP!CompleteMsg
    <3>1. CPP!UnknownType <=> get_msg_size(Pushed[1]) = 0
      BY <2>3, <2>5, SameCodec DEF CPP!UnknownType, CppRx
    <3>2. get_msg_size(Pushed[1]) = 0 <=> Unknown
      BY <1>2
    <3>3. Complete => CPP!CompleteMsg
      <4> SUFFICES ASSUME Complete PROVE CPP!CompleteMsg
        OBVIOUS
      <4>1. get_msg_size(Pushed[1]) = n /\ get_msg_size(Pushed[1]) # 0
        BY <1>2 DEF Complete, n
      <4>2. CPP!get_msg_size(CPP!PeekType) = n /\ n # 0
        BY <2>5, <4>1, SameCodec, Zenon
      <4>3. CppRx # << >> /\ Len(CppRx) >= CPP!get_msg_size(CPP!PeekType)
        BY <2>3, <4>2
      <4> QED
        BY <4>2, <4>3 DEF CPP!CompleteMsg, CppRx
    <3> QED
      BY <3>1, <3>2, <3>3
  <2>7. n = IF CPP!UnknownType THEN 1 ELSE CPP!get_msg_size(CPP!PeekType)
    <3>1. CPP!get_msg_size(CPP!PeekType) = get_msg_size(Pushed[1])
      BY <2>5, SameCodec, Zenon
    <3> QED
      BY <1>2, <1>8, <2>6, <3>1 DEF n
  <2>8. CppRx' = CPP!Rest(IF CPP!UnknownType THEN 1 ELSE CPP!get_msg_size(CPP!PeekType))
    BY <2>4, <2>7 DEF CPP!Rest, CppRx
  <2>9. IF CPP!PeekType # CPP!MSG_PINS THEN CPP!Reject(CPP!ERR_INVALID_MSG_TYPE)
        ELSE IF ~CPP!validate_checksum(CppRx) THEN CPP!Reject(CPP!ERR_INVALID_CHECKSUM)
        ELSE CPP!Serve
    <3>1. ASSUME NEW c, RejectWith(c) PROVE CPP!Reject(c)
      <4>1. CppTx' = CppTx \o CPP!ErrorFrame(c)
        BY <1>6, <3>1, SameCodec DEF RejectWith
      <4>2. UNCHANGED <<pins, sample>>
        BY <3>1 DEF RejectWith, bridgeVars
      <4> QED
        BY <4>1, <4>2 DEF CPP!Reject, CPP!bridgeVars, CppTx
    <3>2. CASE Unknown
      <4>1. RejectWith(ERR_INVALID_MSG_TYPE)
        BY <3>2 DEF push
      <4>2. Pushed[1] # MSG_PINS
        BY <1>2, <3>2, Sizes
      <4> QED
        BY <2>5, <3>1, <4>1, <4>2, SameCodec
    <3>3. CASE ~Unknown /\ Pushed[1] # MSG_PINS
      <4>1. RejectWith(ERR_INVALID_MSG_TYPE)
        BY <1>8, <3>3 DEF push
      <4> QED
        BY <2>5, <3>1, <3>3, <4>1, SameCodec
    <3>4. CASE ~Unknown /\ Pushed[1] = MSG_PINS
      <4>1. Len(Pushed) = FrameLen
        BY <1>2, <1>8, <3>4, Sizes
      <4>2. /\ DataOf(CppRx) = DataOf(Pushed)
            /\ validate_checksum(CppRx) = validate_checksum(Pushed)
        BY <1>2, <1>3, <1>4, <3>4, <4>1, HeadOfMessage
      <4>3. /\ CPP!validate_checksum(CppRx) = validate_checksum(Pushed)
            /\ CPP!DataOf(CppRx) = DataOf(Pushed) /\ CPP!PeekType = CPP!MSG_PINS
        BY <2>5, <3>4, <4>2, SameCodec
      <4>4. CASE ~validate_checksum(Pushed)
        <5>1. RejectWith(ERR_INVALID_CHECKSUM)
          BY <1>8, <3>4, <4>4 DEF push
        <5> QED
          BY <3>1, <4>3, <4>4, <5>1, SameCodec
      <4>5. CASE validate_checksum(Pushed)
        <5>1. ServePushed
          BY <1>8, <3>4, <4>5 DEF push
        <5>2. PICK s \in Levels : sample' = s /\ out' = PinsFrame(s)
          BY <5>1 DEF ServePushed
        <5>3. CppTx' = CppTx \o CPP!PinsFrame(s)
          BY <1>6, <5>2, SameCodec
        <5>4. pins' = CPP!DataOf(CppRx)
          BY <4>3, <5>1 DEF ServePushed
        <5>5. CPP!Serve
          BY <5>2, <5>3, <5>4 DEF CPP!Serve, CppTx, CppRx
        <5> QED
          BY <4>3, <4>5, <5>5
      <4> QED
        BY <4>4, <4>5
    <3> QED
      BY <3>2, <3>3, <3>4
  <2>10. UNCHANGED <<host, req, got, result, wire>>
    BY <1>5
  <2>11. CPP!UnknownType \/ CPP!CompleteMsg
    BY <1>8, <2>6
  <2>12. CPP!loop_prod
    BY <2>8, <2>9, <2>10, <2>11 DEF CPP!loop_prod, CppRx
  <2> QED
    BY <2>12 DEF CPP!Next
<1> QED
  BY <1>7, <1>8

\* docs/development-guide-rust.md "functionally equivalent on the wire": for
\* messages of any length, whatever earlier programs left in the accumulator,
\* in the chunk and in the endpoints, and however the bytes are cut into reads
\* of any size, the Rust firmware does under a program what the C++ firmware
\* could do.
THEOREM OneWire == RSpec => WireEquivalent
<1>1. RInv /\ RInv' /\ [RNext]_rvars
        => [dtr /\ dtr' => CPP!Next \/ UNCHANGED CPP!vars]_rvars
  <2> SUFFICES ASSUME RTypes, RNext, dtr, dtr' PROVE CPP!Next \/ UNCHANGED CPP!vars
    BY DEF RInv
  <2>1. CASE OpenPort
    BY <2>1 DEF OpenPort, Open
  <2>2. CASE DieClean \/ DieCut
    BY <2>2 DEF DieClean, DieCut, CloseClean, CloseCut, Close
  <2>3. CASE PollNoHost
    BY <2>3 DEF PollNoHost
  <2> QED
    BY <2>1, <2>2, <2>3, WriteIsCpp, ReadIsCpp, ArriveIsCpp, FetchIsCpp, PollReadIsCpp,
       SendIsCpp, PushIsCpp DEF RNext, Firmware
<1> QED
  BY <1>1, RustInductive, PTL DEF RSpec, WireEquivalent

-----------------------------------------------------------------------------
(* Waiting, with the Rust firmware.                                        *)

\* As Heard, with the bytes where this firmware keeps them.
RHeard ==
    /\ inep \in Replies \cup {<< >>} /\ out \in Replies \cup {<< >>}
    /\ Replying(inep \o out)
    /\ Due(inep \o out, Len(acc) + Len(chunk) + Len(rx) + Len(wire))

\* What the steps below have in common: the numbers, and the bytes.
LEMMA Amounts ==
    ASSUME RTypes
    PROVE  /\ Len(acc) \in Nat /\ Len(chunk) \in Nat /\ Len(rx) \in Nat /\ Len(wire) \in Nat
           /\ got \in Bytes /\ tx \in Bytes /\ inep \in Bytes /\ out \in Bytes
           /\ inep \o out \in Bytes /\ << >> \in Bytes
           /\ FrameLen \in Nat /\ FrameLen >= 3
  BY Concat, ProtocolAssumption DEF RTypes, TypeOK, Bytes, FrameLen

\* What the firmware holds is whole replies.
LEMMA HeldReplies ==
    ASSUME inep \in Replies \cup {<< >>}, out \in Replies \cup {<< >>}
    PROVE  inep \o out \in RowsOf(Replies)
<1>1. << >> \in RowsOf(Replies) /\ Replies \in SUBSET Bytes /\ << >> \in Bytes
  BY ReplyBytes, RowGrows DEF Bytes
<1>2. \A m \in Replies \cup {<< >>} : m \in Bytes /\ << >> \o m = m /\ m \o << >> = m
  BY <1>1, Concat
<1>3. \A b \in RowsOf(Replies), m \in Replies \cup {<< >>} : b \o m \in RowsOf(Replies)
  <2>1. \A b \in RowsOf(Replies) : b \in Bytes /\ b \o << >> = b
    BY Concat DEF RowsOf
  <2> QED
    BY <1>1, <2>1, RowGrows
<1>4. inep \in RowsOf(Replies)
  BY <1>1, <1>2, <1>3
<1> QED
  BY <1>3, <1>4

\* The steps that move nothing across the firmware: the port opens, bytes
\* arrive or are read into the chunk.
LEMMA MovedHeard ==
    ASSUME RHeard, UNCHANGED <<got, tx, inep, out, host>>,
           Len(acc') + Len(chunk') + Len(rx') + Len(wire') =
               Len(acc) + Len(chunk) + Len(rx) + Len(wire)
    PROVE  RHeard'
  BY DEF RHeard, Replying, Due, Back

\* A request.
LEMMA WriteRHeard == ASSUME RInv, RHeard, Write PROVE RHeard'
<1>1. /\ got = << >> /\ got' = << >> /\ host' = "waiting" /\ UNCHANGED <<rx, tx, acc, chunk, out, inep>>
  BY HostWritePorts DEF RInv, RTypes, Write, rustVars
<1>2. PICK p \in Payload : wire' = wire \o PinsFrame(p)
  BY HostWritePorts DEF RInv, RTypes, Write
<1>3. Len(acc') + Len(chunk') + Len(rx') + Len(wire') >= FrameLen
  <2>1. PinsFrame(p) \in Bytes /\ Len(PinsFrame(p)) = FrameLen /\ wire \in Bytes
    BY FrameBytes DEF RInv, RTypes, TypeOK
  <2>2. Len(wire') = Len(wire) + FrameLen
    BY <1>2, <2>1, Concat
  <2>3. Len(acc) \in Nat /\ Len(chunk) \in Nat /\ Len(rx) \in Nat /\ Len(wire) \in Nat /\ FrameLen \in Nat
    BY Amounts DEF RInv
  <2> QED
    BY <1>1, <2>2, <2>3
<1>4. host # "failed"
  BY DEF Write, HostWrite, write_serial
<1> QED
  BY <1>1, <1>3, <1>4 DEF RHeard, Replying, Due, Back

\* Reading.
LEMMA ReadRHeard == ASSUME RInv, RHeard, Read PROVE RHeard'
<1>1. TypeOK /\ read_serial /\ inep \o out \in Bytes
  BY Amounts DEF RInv, RTypes, Read, HostRead
<1>2. UNCHANGED <<rx, wire, acc, chunk, out, inep>> /\ host = "waiting"
  BY <1>1, ReadKeeps DEF Read, rustVars
<1>3. /\ host' # "failed" => got' \o (tx' \o (inep \o out)) \in RowsOf(Replies)
      /\ Len(got') <= Wanted(got')
      /\ host' = "waiting" => got' \o (tx' \o (inep \o out)) = Back(inep \o out)
  BY <1>1, ReadReplies DEF RHeard
<1> QED
  BY <1>2, <1>3 DEF RHeard, Replying, Due, Back

\* Delivery.
LEMMA ArriveRHeard == ASSUME RInv, RHeard, Arrive PROVE RHeard'
<1>1. rx' \o wire' = rx \o wire /\ UNCHANGED <<host, got, tx, acc, chunk, out, inep>> /\ TypeOK'
  BY UsbPorts DEF RInv, RTypes, Arrive, rustVars
<1>2. Len(rx') + Len(wire') = Len(rx) + Len(wire)
  <2>1. rx \in Bytes /\ wire \in Bytes /\ rx' \in Bytes /\ wire' \in Bytes
    BY <1>1 DEF RInv, RTypes, TypeOK
  <2>2. Len(rx \o wire) = Len(rx) + Len(wire) /\ Len(rx' \o wire') = Len(rx') + Len(wire')
    BY <2>1, Concat
  <2> QED
    BY <1>1, <2>2
<1>3. /\ Len(acc) \in Nat /\ Len(chunk) \in Nat /\ Len(rx) \in Nat /\ Len(wire) \in Nat
      /\ Len(rx') \in Nat /\ Len(wire') \in Nat
  BY <1>1, Amounts DEF RInv, TypeOK, Bytes
<1>4. Len(acc') + Len(chunk') + Len(rx') + Len(wire') =
          Len(acc) + Len(chunk) + Len(rx) + Len(wire)
  <2>1. Len(acc') = Len(acc) /\ Len(chunk') = Len(chunk)
    BY <1>1
  <2> QED
    BY <1>2, <1>3, <2>1
<1> QED
  BY <1>1, <1>4, MovedHeard

\* serial.read.
LEMMA PollReadRHeard == ASSUME RInv, RHeard, PollRead PROVE RHeard'
<1>1. PICK k \in 1 .. Len(rx) : chunk' = SubSeq(rx, 1, k) /\ rx' = SubSeq(rx, k + 1, Len(rx))
  BY DEF PollRead
<1>2. chunk = << >> /\ UNCHANGED <<got, tx, inep, out, host, acc, wire>>
  BY DEF PollRead, BetweenPasses, firmwareOnly, hostVars
<1>3. Len(chunk') + Len(rx') = Len(rx) /\ Len(chunk) = 0
  <2>1. rx \in Seq(Byte)
    BY DEF RInv, RTypes, TypeOK, Bytes
  <2> QED
    BY <1>1, <1>2, <2>1
<1>4. /\ Len(acc) \in Nat /\ Len(rx) \in Nat /\ Len(wire) \in Nat
      /\ Len(chunk') \in Nat /\ Len(rx') \in Nat
  <2>1. rx \in Seq(Byte)
    BY DEF RInv, RTypes, TypeOK, Bytes
  <2> QED
    BY <1>1, <2>1, Amounts DEF RInv
<1>5. Len(acc') + Len(chunk') + Len(rx') + Len(wire') =
          Len(acc) + Len(chunk) + Len(rx) + Len(wire)
  BY <1>2, <1>3, <1>4
<1> QED
  BY <1>2, <1>5, MovedHeard

\* The driver fetches a reply, or send_msg hands one to the endpoint.
LEMMA FetchRHeard == ASSUME RInv, RHeard, Fetch \/ send_msg PROVE RHeard'
<1>1. got \in Bytes /\ tx \in Bytes /\ inep \in Bytes /\ out \in Bytes /\ << >> \in Bytes
  BY Amounts DEF RInv
<1>2. UNCHANGED <<got, host, acc, chunk, rx, wire>>
  BY DEF Fetch, send_msg, firmwareOnly, hostVars
<1>3. (Back(inep \o out))' = Back(inep \o out)
  <2>1. CASE Fetch
    <3>1. tx' = tx \o inep /\ inep' = << >> /\ out' = out
      BY <2>1 DEF Fetch
    <3>2. << >> \o out = out
      BY <1>1, Concat
    <3>3. (tx \o inep) \o out = tx \o (inep \o out)
      BY <1>1, Joined, Zenon
    <3> QED
      BY <1>2, <3>1, <3>2, <3>3 DEF Back
  <2>2. CASE send_msg
    <3>1. tx' = tx /\ inep = << >> /\ inep' = out /\ out' = << >>
      BY <2>2 DEF send_msg, firmwareOnly
    <3>2. << >> \o out = out /\ out \o << >> = out
      BY <1>1, Concat
    <3> QED
      BY <1>2, <3>1, <3>2 DEF Back
  <2> QED
    BY <2>1, <2>2
<1>4. inep' \in Replies \cup {<< >>} /\ out' \in Replies \cup {<< >>}
  BY DEF RHeard, Fetch, send_msg
<1> QED
  BY <1>2, <1>3, <1>4 DEF RHeard, Replying, Due

\* push answers a message that it completes, and keeps every other byte.
LEMMA PushRHeard == ASSUME RInv, RHeard, push PROVE RHeard'
<1>1. out = << >> /\ chunk # << >> /\ UNCHANGED <<got, tx, host, rx, wire, inep>>
  BY DEF push, firmwareOnly, hostVars
<1>2. chunk' = Tail(chunk)
  BY DEF push
<1>3. CASE Unknown \/ Complete
  <2>1. out' \in Replies
    <3>1. CASE RejectWith(ERR_INVALID_MSG_TYPE) \/ RejectWith(ERR_INVALID_CHECKSUM)
      BY <3>1 DEF RejectWith, Replies
    <3>2. CASE ServePushed
      BY <3>2, LevelsAssumption DEF ServePushed, Replies, PinsFrames
    <3> QED
      BY <1>3, <3>1, <3>2 DEF push
  <2>2. (Back(inep \o out))' = Back(inep \o out) \o out'
    <3>0. PICK m \in Replies : out' = m
      BY <2>1
    <3>1. got \in Bytes /\ tx \in Bytes /\ inep \in Bytes /\ m \in Bytes /\ tx \o inep \in Bytes
      BY Amounts, ReplyBytes, Concat DEF RInv
    <3>2. inep \o out = inep
      BY <1>1, <3>1, Concat
    <3>3. (got \o (tx \o inep)) \o m = got \o ((tx \o inep) \o m)
      BY <3>1, Joined, Zenon
    <3>4. (tx \o inep) \o m = tx \o (inep \o m)
      BY <3>1, Joined, Zenon
    <3> QED
      BY <1>1, <3>0, <3>2, <3>3, <3>4 DEF Back
  <2>3. host # "failed" =>
            (Back(inep \o out))' \in RowsOf(Replies) /\ (Back(inep \o out))' # << >>
    BY <2>1, <2>2, ReplyAdded DEF RHeard, Replying
  <2>4. host = "waiting" => host # "failed"
    OBVIOUS
  <2> QED
    BY <1>1, <2>1, <2>3, <2>4 DEF RHeard, Replying, Due
<1>4. CASE ~Unknown /\ ~Complete
  <2>1. out' = out /\ acc' = Pushed
    BY <1>4 DEF push
  <2>2. Len(acc') = Len(acc) + 1 /\ Len(chunk') = Len(chunk) - 1
    <3>1. acc \in Seq(Byte) /\ chunk \in Seq(Byte)
      BY DEF RInv, RTypes, Bytes
    <3>2. Len(Pushed) = Len(acc) + 1 /\ Len(Tail(chunk)) = Len(chunk) - 1
      BY <1>1, <3>1 DEF Pushed
    <3> QED
      BY <1>2, <2>1, <3>2
  <2>3. Len(acc) \in Nat /\ Len(chunk) \in Nat /\ Len(rx) \in Nat /\ Len(wire) \in Nat
    BY Amounts DEF RInv
  <2>4. Len(acc') + Len(chunk') + Len(rx') + Len(wire') =
            Len(acc) + Len(chunk) + Len(rx) + Len(wire)
    BY <1>1, <2>2, <2>3
  <2> QED
    BY <1>1, <2>1, <2>4, MovedHeard
<1> QED
  BY <1>3, <1>4

\* With nobody at the port, nobody waits.
LEMMA NobodyRHeard ==
    ASSUME host' = "ready", got' = << >>, tx' = << >>, UNCHANGED <<inep, out>>, RHeard
    PROVE  RHeard'
<1>1. inep \o out \in RowsOf(Replies)
  BY HeldReplies DEF RHeard
<1>2. << >> \o (<< >> \o (inep \o out)) = inep \o out
  <2>1. inep \o out \in Bytes
    BY <1>1 DEF RowsOf
  <2> QED
    BY <2>1, Concat
<1>3. (Back(inep \o out))' = inep \o out
  BY <1>2 DEF Back
<1>4. Len(got') <= Wanted(got')
  BY WantedFirst
<1> QED
  BY <1>1, <1>3, <1>4 DEF RHeard, Replying, Due

\* The invariant for what comes back from the Rust firmware.
LEMMA RHeardInductive == RSpec => [](RInv /\ RHeard)
<1>1. RInit => RHeard
  <2> SUFFICES ASSUME RInit PROVE RHeard
    OBVIOUS
  <2>1. host = "ready" /\ got = << >> /\ tx = << >> /\ inep = << >> /\ out = << >>
    BY DEF RInit, SInit, Init
  <2>2. << >> \o << >> = << >>
    OBVIOUS
  <2>3. Back(inep \o out) = << >>
    BY <2>1, <2>2 DEF Back
  <2>4. << >> \in RowsOf(Replies) /\ Len(got) <= Wanted(got)
    BY <2>1, ReplyBytes, RowGrows, WantedFirst
  <2> QED
    BY <2>1, <2>3, <2>4 DEF RHeard, Replying, Due
<1>2. RInv /\ RHeard /\ [RNext]_rvars => RHeard'
  <2> SUFFICES ASSUME RInv, RHeard, [RNext]_rvars PROVE RHeard'
    OBVIOUS
  <2>1. CASE UNCHANGED rvars \/ OpenPort
    <3>1. UNCHANGED <<vars, rustVars>>
      BY <2>1 DEF rvars, svars, OpenPort, Open
    <3> QED
      BY <3>1 DEF vars, rustVars, RHeard, Replying, Due, Back
  <2>2. CASE DieClean \/ DieCut
    <3>1. host' = "ready" /\ got' = << >> /\ tx' = << >> /\ UNCHANGED <<inep, out>>
      BY <2>2 DEF DieClean, DieCut, CloseClean, CloseCut, Close, rustVars
    <3> QED
      BY <3>1, NobodyRHeard
  <2>3. CASE PollNoHost
    <3>1. UNCHANGED <<host, got, tx, inep, out>> /\ ~dtr
      BY <2>3 DEF PollNoHost, firmwareOnly, hostVars
    <3>2. host = "ready" /\ tx = << >> /\ got = << >>
      BY <3>1 DEF RInv, Ports
    <3> QED
      BY <3>1, <3>2, NobodyRHeard
  <2> QED
    BY <2>1, <2>2, <2>3, WriteRHeard, ReadRHeard, ArriveRHeard, PollReadRHeard,
       FetchRHeard, PushRHeard DEF RNext, Firmware
<1> QED
  BY <1>1, <1>2, RustInductive, PTL DEF RSpec

\* Who can move while a host waits: USB, the driver, the firmware in its loop
\* (read, push, send_msg), or the host.
SomebodyMovesR ==
    \/ wire # << >>
    \/ inep # << >>
    \/ BetweenPasses /\ rx # << >>
    \/ out = << >> /\ chunk # << >>
    \/ out # << >> /\ inep = << >>
    \/ HostCanRead

\* The same with the Rust firmware: blocking in send_msg, and a message that
\* is not complete yet, never leave a waiting host with nobody to wait for.
THEOREM NeverBothWaitRust == RSpec => [](Waiting => SomebodyMovesR)
<1>1. RInv /\ RHeard => (Waiting => SomebodyMovesR)
  <2> SUFFICES ASSUME RInv, RHeard, host = "waiting",
                      wire = << >>, inep = << >>, ~(BetweenPasses /\ rx # << >>),
                      ~(out = << >> /\ chunk # << >>), ~(out # << >> /\ inep = << >>)
               PROVE  HostCanRead
    BY DEF Waiting, SomebodyMovesR
  <2>1. out = << >> /\ chunk = << >> /\ rx = << >>
    BY DEF BetweenPasses
  <2>2. inep \o out = << >>
    BY <2>1
  <2>3. TypeOK /\ RTypes /\ Replying(<< >>)
        /\ Due(<< >>, Len(acc) + Len(chunk) + Len(rx) + Len(wire))
    BY <2>2 DEF RInv, RTypes, RHeard
  <2>4. ASSUME Back(<< >>) = << >> PROVE FALSE
    <3>1. Len(acc) \in Nat /\ FrameLen \in Nat /\ FrameLen >= 3 /\ acc \in Seq(Byte)
      BY <2>3, Amounts DEF RTypes, Bytes
    <3>2. Len(acc) >= FrameLen
      <4>1. Len(chunk) = 0 /\ Len(rx) = 0 /\ Len(wire) = 0
        BY <2>1
      <4> QED
        BY <2>3, <2>4, <3>1, <4>1 DEF Due
    <3>3. acc # << >> /\ acc[1] \in Byte
      BY <3>1, <3>2
    <3>4. Len(acc) < get_msg_size(acc[1]) /\ get_msg_size(acc[1]) \in {0, 3, FrameLen}
      BY <2>3, <3>3, Sizes DEF RTypes
    <3> QED
      BY <3>1, <3>2, <3>4
  <2> QED
    BY <2>3, <2>4, ReplyIsRead
<1> QED
  BY <1>1, RHeardInductive, PTL

\* Fewer bytes in front of the host, with this firmware's buffers in between.
FewerBytesR ==
    \/ Len(wire') < Len(wire)
    \/ wire' = wire /\ Len(rx') < Len(rx)
    \/ UNCHANGED <<wire, rx>> /\ Len(chunk') < Len(chunk)
    \/ UNCHANGED <<wire, rx, chunk>> /\ Len(out') < Len(out)
    \/ UNCHANGED <<wire, rx, chunk, out>> /\ Len(inep') < Len(inep)
    \/ UNCHANGED <<wire, rx, chunk, out, inep>> /\ Len(tx') < Len(tx)

\* And with the Rust firmware, too, every step uses up bytes.
THEOREM WaitingRunsOutRust == RSpec => [][Waiting /\ Waiting' => FewerBytesR]_rvars
<1>1. RInv /\ [RNext]_rvars => [Waiting /\ Waiting' => FewerBytesR]_rvars
  <2> SUFFICES ASSUME RInv, RNext, Waiting, Waiting' PROVE FewerBytesR
    OBVIOUS
  <2>0. /\ rx \in Bytes /\ tx \in Bytes /\ wire \in Bytes /\ chunk \in Bytes /\ out \in Bytes
        /\ inep \in Bytes /\ dtr /\ host = "waiting" /\ dtr' /\ host' = "waiting"
    BY DEF RInv, RTypes, TypeOK, Waiting
  <2>1. ~OpenPort /\ ~Write /\ ~DieClean /\ ~DieCut /\ ~PollNoHost
    BY <2>0 DEF OpenPort, Open, Write, HostWrite, write_serial, DieClean, DieCut, CloseClean,
                CloseCut, Close, PollNoHost
  <2>2. CASE Arrive
    <3>1. PICK k \in 1 .. Len(wire) : wire' = SubSeq(wire, k + 1, Len(wire))
      BY <2>2 DEF Arrive, UsbDeliver, Deliver
    <3> QED
      BY <2>0, <3>1, Shortened DEF FewerBytesR
  <2>3. CASE PollRead
    <3>1. PICK k \in 1 .. Len(rx) : rx' = SubSeq(rx, k + 1, Len(rx))
      BY <2>3 DEF PollRead
    <3>2. wire' = wire
      BY <2>3 DEF PollRead, firmwareOnly
    <3> QED
      BY <2>0, <3>1, <3>2, Shortened DEF FewerBytesR
  <2>4. CASE push
    <3>1. chunk' = Tail(chunk) /\ chunk # << >> /\ UNCHANGED <<wire, rx>>
      BY <2>4 DEF push, firmwareOnly
    <3>2. Len(Tail(chunk)) < Len(chunk)
      BY <2>0, <3>1 DEF Bytes
    <3> QED
      BY <3>1, <3>2 DEF FewerBytesR
  <2>5. CASE send_msg
    <3>1. out # << >> /\ out' = << >> /\ UNCHANGED <<wire, rx, chunk>>
      BY <2>5 DEF send_msg, firmwareOnly
    <3>2. Len(out') < Len(out)
      BY <2>0, <3>1 DEF Bytes
    <3> QED
      BY <3>1, <3>2 DEF FewerBytesR
  <2>6. CASE Fetch
    <3>1. inep # << >> /\ inep' = << >> /\ UNCHANGED <<wire, rx, chunk, out>>
      BY <2>6 DEF Fetch
    <3>2. Len(inep') < Len(inep)
      BY <2>0, <3>1 DEF Bytes
    <3> QED
      BY <3>1, <3>2 DEF FewerBytesR
  <2>7. CASE Read
    <3>1. read_exact /\ UNCHANGED <<chunk, out, inep>>
      BY <2>0, <2>7 DEF Read, HostRead, read_serial, EndRead, rustVars
    <3>2. PICK k \in 1 .. Len(tx) : tx' = SubSeq(tx, k + 1, Len(tx))
      BY <3>1 DEF read_exact
    <3> QED
      BY <2>0, <3>1, <3>2, Shortened DEF FewerBytesR, read_exact
  <2> QED
    BY <2>1, <2>2, <2>3, <2>4, <2>5, <2>6, <2>7 DEF RNext, Firmware
<1> QED
  BY <1>1, RustInductive, PTL DEF RSpec

=============================================================================
