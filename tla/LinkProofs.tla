----------------------------- MODULE LinkProofs -----------------------------
(***************************************************************************)
(* Lockstep is inductive relative to the types: for every byte width,      *)
(* payload size and set of levels, the host and the bridge never disagree  *)
(* about which message the next byte belongs to.  From it: no request or   *)
(* reply is ever refused, and the link implements HalfCycle.               *)
(***************************************************************************)
EXTENDS Link, ProtocolProofs

Inv == TypeOK /\ Lockstep

-----------------------------------------------------------------------------
\* The running sum of m bytes.
SumTo(type, data, m) ==
    LET sum[n \in 0 .. m] == IF n = 0 THEN type ELSE (sum[n - 1] + data[n]) % Radix
    IN  sum

\* The host's copy of the formula and the firmware's give every pins message
\* the same checksum.
THEOREM ChecksumsAgree ==
    ASSUME NEW type \in Byte, NEW p \in Payload
    PROVE  HostChecksum(type, p) = compute_checksum(type, p)
<1>1. Len(p) = BUFFSIZE /\ p # << >>
  BY PayloadSeq, ProtocolAssumption
<1>2. HostChecksum(type, p) = SumTo(type, p, BUFFSIZE)[BUFFSIZE]
  BY DEF HostChecksum, SumTo
<1>3. RunningSum(type, p) = SumTo(type, p, Len(p))
  BY DEF RunningSum, SumTo
<1> QED
  BY <1>1, <1>2, <1>3, Zenon DEF compute_checksum

\* So a request is framed as the firmware frames a reply.
LEMMA RequestIsPinsFrame ==
    ASSUME NEW p \in Payload
    PROVE  RequestFrame(p) = PinsFrame(p)
<1>1. HostChecksum(MSG_PINS, p) = compute_checksum(MSG_PINS, p)
  BY ChecksumsAgree, ProtocolAssumption DEF MSG_PINS, Byte
<1> QED
  BY <1>1, Zenon DEF RequestFrame, PinsFrame, Frame

\* And the host takes a reply for good whose checksum the firmware would take.
LEMMA GoodReplyIs ==
    ASSUME NEW b, b[1] = MSG_PINS, DataOf(b) \in Payload
    PROVE  GoodReply(b) <=> validate_checksum(b)
<1>1. HostChecksum(MSG_PINS, DataOf(b)) = compute_checksum(MSG_PINS, DataOf(b))
  BY ChecksumsAgree, ProtocolAssumption DEF MSG_PINS, Byte
<1> QED
  BY <1>1, Zenon DEF GoodReply, validate_checksum, TypeOf

-----------------------------------------------------------------------------

\* What the firmware finds when it looks at the receive buffer: nothing, an
\* incomplete request, or the whole request and nothing else.
LEMMA ReceiveBuffer ==
    ASSUME Inv
    PROVE  /\ ~UnknownType
           /\ CompleteMsg => /\ host = "waiting" /\ Requested
                             /\ rx = PinsFrame(req) /\ wire = << >>
                             /\ PeekType = MSG_PINS /\ validate_checksum(rx)
                             /\ DataOf(rx) = req
                             /\ Rest(get_msg_size(PeekType)) = << >>
<1>1. /\ PinsFrame(req) \in Seq(Byte) /\ Len(PinsFrame(req)) = BUFFSIZE + 2
      /\ PinsFrame(req)[1] = MSG_PINS
      /\ DataOf(PinsFrame(req)) = req /\ validate_checksum(PinsFrame(req))
  BY PinsFrameFacts DEF Inv, TypeOK
<1>2. get_msg_size(MSG_PINS) = BUFFSIZE + 2
  BY ProtocolAssumption DEF get_msg_size, MSG_PINS, MSG_ERROR, MSG_STATUS
<1>3. rx \in Seq(Byte) /\ wire \in Seq(Byte)
  BY DEF Inv, TypeOK, Bytes
<1>4. SUFFICES ASSUME rx # << >>
               PROVE  /\ ~UnknownType
                      /\ CompleteMsg => /\ host = "waiting" /\ Requested
                                        /\ rx = PinsFrame(req) /\ wire = << >>
                                        /\ PeekType = MSG_PINS
                                        /\ Rest(get_msg_size(PeekType)) = << >>
  BY <1>1 DEF UnknownType, CompleteMsg
<1>5. host = "waiting" /\ Requested
  BY <1>4 DEF Inv, Lockstep, Quiet, Answered
<1>6. rx[1] = MSG_PINS
  <2>1. (rx \o wire)[1] = rx[1]
    BY <1>3, <1>4
  <2> QED
    BY <1>1, <1>5, <2>1 DEF Requested
<1>7. ASSUME CompleteMsg PROVE rx = PinsFrame(req) /\ wire = << >>
  <2>1. Len(rx) >= BUFFSIZE + 2
    BY <1>2, <1>6, <1>7 DEF CompleteMsg, PeekType
  <2>2. Len(rx) + Len(wire) = BUFFSIZE + 2
    BY <1>1, <1>3, <1>5, ConcatProperties DEF Requested
  <2>3. wire = << >>
    BY <1>3, <2>1, <2>2, ProtocolAssumption
  <2> QED
    BY <1>3, <1>5, <2>3, ConcatEmptySeq DEF Requested
<1>8. ASSUME CompleteMsg PROVE Rest(get_msg_size(PeekType)) = << >>
  BY <1>1, <1>2, <1>6, <1>7, <1>8, ProtocolAssumption DEF Rest, PeekType
<1> QED
  BY <1>2, <1>5, <1>6, <1>7, <1>8, ProtocolAssumption DEF UnknownType, PeekType

\* What the host finds in a reply it has read completely.
LEMMA ReplyIsGood ==
    ASSUME Inv, ReplyComplete
    PROVE  /\ host = "waiting" /\ Answered
           /\ got = PinsFrame(sample) /\ tx = << >>
           /\ GoodReply(got) /\ DataOf(got) = sample
<1>1. /\ PinsFrame(sample) \in Seq(Byte) /\ Len(PinsFrame(sample)) = BUFFSIZE + 2
      /\ PinsFrame(sample)[1] = MSG_PINS
      /\ DataOf(PinsFrame(sample)) = sample /\ validate_checksum(PinsFrame(sample))
  BY PinsFrameFacts DEF Inv, TypeOK
<1>2. got \in Seq(Byte) /\ tx \in Seq(Byte)
  BY DEF Inv, TypeOK, Bytes
<1>3. host = "waiting" /\ got # << >> /\ Answered
  BY DEF Inv, Lockstep, ReplyComplete, Requested
<1>4. got[1] = MSG_PINS
  <2>1. (got \o tx)[1] = got[1]
    BY <1>2, <1>3
  <2> QED
    BY <1>1, <1>3, <2>1 DEF Answered
<1>5. Len(got) = BUFFSIZE + 2
  BY <1>3, <1>4, ProtocolAssumption
     DEF ReplyComplete, Wanted, MSG_PINS, MSG_ERROR
<1>6. tx = << >>
  <2>1. Len(got) + Len(tx) = BUFFSIZE + 2
    BY <1>1, <1>2, <1>3, ConcatProperties DEF Answered
  <2> QED
    BY <1>2, <1>5, <2>1, ProtocolAssumption
<1>7. got = PinsFrame(sample)
  BY <1>2, <1>3, <1>6, ConcatEmptySeq DEF Answered
<1> QED
  BY <1>1, <1>3, <1>6, <1>7, GoodReplyIs DEF Inv, TypeOK

-----------------------------------------------------------------------------
\* Before the first request nothing is in flight.
LEMMA InitInv == Init => Inv
<1> SUFFICES ASSUME Init PROVE Inv
  OBVIOUS
<1>1. TypeOK
  BY LevelsAssumption DEF Init, TypeOK, Bytes
<1>2. Lockstep
  BY DEF Init, Lockstep, Quiet
<1> QED
  BY <1>1, <1>2 DEF Inv

\* write_serial and read_serial: a request is all there is in flight, a reply is read in
\* pieces and never refused.
LEMMA HostStep ==
    ASSUME Inv, write_serial \/ read_serial
    PROVE  Inv'
<1>0. /\ got \in Seq(Byte) /\ tx \in Seq(Byte) /\ wire \in Seq(Byte) /\ rx \in Seq(Byte)
      /\ \A p \in Levels : p \in Payload
  BY LevelsAssumption DEF Inv, TypeOK, Bytes
<1>1. CASE write_serial
  <2>1. host = "ready" /\ Quiet
    BY <1>1 DEF write_serial, Inv, Lockstep
  <2>2. PICK p \in Levels : req' = p /\ wire' = wire \o PinsFrame(p)
    BY <1>0, <1>1, RequestIsPinsFrame DEF write_serial
  <2>3. PinsFrame(p) \in Seq(Byte)
    BY <1>0, PinsFrameFacts
  <2>4. wire' = PinsFrame(req') /\ rx' = << >> /\ tx' = << >> /\ got' = << >>
    BY <1>1, <2>1, <2>2, <2>3 DEF write_serial, Quiet
  <2>5. rx' \o wire' = PinsFrame(req')
    BY <2>2, <2>3, <2>4
  <2>6. TypeOK'
    BY <1>0, <1>1, <2>2, <2>3, <2>4 DEF write_serial, Inv, TypeOK, Bytes
  <2> QED
    BY <1>1, <2>4, <2>5, <2>6 DEF write_serial, Inv, Lockstep, Requested
<1>2. CASE read_exact
  <2>1. PICK k \in 1 .. Len(tx) :
              got' = got \o SubSeq(tx, 1, k) /\ tx' = SubSeq(tx, k + 1, Len(tx))
    BY <1>2 DEF read_exact
  <2>2. got' \in Seq(Byte) /\ tx' \in Seq(Byte) /\ got' \o tx' = got \o tx
    BY <1>0, <2>1, MoveChunk
  <2>3. host = "waiting" /\ Answered
    BY <1>0, <1>2, <2>1 DEF read_exact, Inv, Lockstep, Requested
  <2>4. TypeOK'
    BY <1>2, <2>2 DEF read_exact, Inv, TypeOK, Bytes
  <2> QED
    BY <1>2, <2>2, <2>3, <2>4 DEF read_exact, Inv, Lockstep, Answered
<1>3. CASE EndRead
  <2>1. /\ Answered /\ tx = << >>
        /\ result' = sample /\ host' = "ready" /\ got' = << >>
    BY <1>3, ReplyIsGood DEF EndRead
  <2>2. TypeOK'
    BY <1>3, <2>1 DEF EndRead, Inv, TypeOK, Bytes
  <2> QED
    BY <1>3, <2>1, <2>2 DEF EndRead, Inv, Lockstep, Quiet, Answered
<1> QED
  BY <1>1, <1>2, <1>3 DEF read_serial

\* USB moves bytes of the request and changes none.
LEMMA DeliverStep ==
    ASSUME Inv, Deliver
    PROVE  Inv'
<1>1. rx \in Seq(Byte) /\ wire \in Seq(Byte)
  BY DEF Inv, TypeOK, Bytes
<1>2. PICK k \in 1 .. Len(wire) :
            rx' = rx \o SubSeq(wire, 1, k) /\ wire' = SubSeq(wire, k + 1, Len(wire))
  BY DEF Deliver
<1>3. rx' \in Seq(Byte) /\ wire' \in Seq(Byte) /\ rx' \o wire' = rx \o wire
  BY <1>1, <1>2, MoveChunk
<1>4. host = "waiting" /\ Requested
  BY <1>1, <1>2 DEF Inv, Lockstep, Quiet, Answered
<1>5. TypeOK'
  BY <1>3 DEF Deliver, Inv, TypeOK, Bytes
<1> QED
  BY <1>3, <1>4, <1>5 DEF Deliver, Inv, Lockstep, Requested

\* loop_prod finds a message only when the whole request is there, and serves it.
LEMMA BridgeStep ==
    ASSUME Inv, loop_prod
    PROVE  Inv' /\ Serve
<1>1. /\ Serve /\ host = "waiting" /\ Requested /\ wire = << >>
      /\ DataOf(rx) = req /\ rx' = << >>
      /\ UNCHANGED <<host, req, got, result, wire>>
  BY ReceiveBuffer DEF loop_prod
<1>2. PICK s \in Levels : sample' = s /\ tx' = tx \o PinsFrame(s)
  BY <1>1 DEF Serve
<1>3. s \in Payload /\ PinsFrame(s) \in Seq(Byte)
  BY LevelsAssumption, PinsFrameFacts
<1>4. tx' = PinsFrame(sample') /\ got' = << >> /\ rx' = << >> /\ wire' = << >>
      /\ pins' = req'
  BY <1>1, <1>2, <1>3 DEF Serve, Requested
<1>5. got' \o tx' = PinsFrame(sample')
  BY <1>2, <1>3, <1>4
<1>6. TypeOK'
  BY <1>1, <1>2, <1>3, <1>4 DEF Serve, Inv, TypeOK, Bytes
<1> QED
  BY <1>1, <1>4, <1>5, <1>6 DEF Serve, Inv, Lockstep, Answered

\* Every step keeps host and bridge in step.
LEMMA NextInv == Inv /\ [Next]_vars => Inv'
<1> SUFFICES ASSUME Inv, [Next]_vars PROVE Inv'
  OBVIOUS
<1>1. CASE write_serial \/ read_serial
  BY <1>1, HostStep
<1>2. CASE Deliver
  BY <1>2, DeliverStep
<1>3. CASE loop_prod
  BY <1>3, BridgeStep
<1>4. CASE UNCHANGED vars
  BY <1>4 DEF vars, Inv, TypeOK, Lockstep, Quiet, Requested, Answered, Bytes
<1> QED
  BY <1>1, <1>2, <1>3, <1>4 DEF Next

-----------------------------------------------------------------------------
\* So they are in every state.
LEMMA SpecInv == Spec => []Inv
<1>1. Init => Inv
  BY InitInv
<1>2. Inv /\ [Next]_vars => Inv'
  BY NextInv
<1> QED
  BY <1>1, <1>2, PTL DEF Spec

\* Types: in particular a checksum never leaves a byte.
THEOREM TypeCorrect == Spec => []TypeOK
<1>1. Inv => TypeOK
  BY DEF Inv
<1> QED
  BY <1>1, SpecInv, PTL

\* Bytes in flight belong to the one request or to the one reply to it, and
\* the host never ends up in the error exit of read_serial.
THEOREM LockstepHolds == Spec => []Lockstep
<1>1. Inv => Lockstep
  BY DEF Inv
<1> QED
  BY <1>1, SpecInv, PTL

\* Every half-cycle exchange is a remote procedure call: requests are applied
\* exactly once and in full, and answered with the sample they produced.
THEOREM LinkImplementsHalfCycle == Spec => ImplementsHalfCycle
<1>1. Init => HC!Init
  BY DEF Init, HC!Init
<1>2. Inv /\ Inv' /\ [Next]_vars => [HC!Next]_HC!vars
  <2> SUFFICES ASSUME Inv, Inv', [Next]_vars PROVE [HC!Next]_HC!vars
    OBVIOUS
  <2> USE DEF HC!vars
  <2>1. CASE write_serial
    <3>1. HC!Call
      BY <2>1 DEF write_serial, HC!Call, Inv, Lockstep, Quiet
    <3> QED
      BY <3>1 DEF HC!Next
  <2>2. CASE read_exact
    <3>1. /\ got \in Seq(Byte) /\ tx \in Seq(Byte)
          /\ PinsFrame(sample) \in Seq(Byte)
          /\ PinsFrame(sample') \in Seq(Byte)
          /\ Len(PinsFrame(sample)) # 0 /\ Len(PinsFrame(sample')) # 0
      BY PinsFrameFacts, ProtocolAssumption DEF Inv, TypeOK, Bytes
    <3>2. PICK k \in 1 .. Len(tx) : got' = got \o SubSeq(tx, 1, k)
      BY <2>2 DEF read_exact
    <3>3. host = "waiting" /\ Answered /\ sample' = sample
      BY <2>2, <3>1, <3>2 DEF read_exact, Inv, Lockstep, Requested
    <3>4. ~(tx = << >> /\ got = << >>)
      BY <3>1, <3>2
    <3>5. got' # << >>
      <4>1. got' \in Seq(Byte) /\ Len(got') = Len(got) + k
        BY <3>1, <3>2, MoveChunk
      <4> QED
        BY <3>1, <4>1
    <3> QED
      BY <2>2, <3>3, <3>4, <3>5 DEF read_exact
  <2>3. CASE EndRead
    <3>1. /\ host = "waiting" /\ got # << >>
          /\ result' = sample /\ host' = "ready"
      BY <2>3, ReplyIsGood DEF EndRead, ReplyComplete
    <3>2. HC!Return
      BY <2>3, <3>1 DEF EndRead, HC!Return
    <3> QED
      BY <3>2 DEF HC!Next
  <2>4. CASE Deliver
    BY <2>4 DEF Deliver
  <2>5. CASE loop_prod
    <3>1. /\ Serve /\ host = "waiting" /\ Requested /\ DataOf(rx) = req
          /\ UNCHANGED <<host, req, got, result, wire>>
      BY <2>5, BridgeStep, ReceiveBuffer DEF loop_prod
    <3>2. PICK s \in Levels : sample' = s /\ tx' = tx \o PinsFrame(s)
      BY <3>1 DEF Serve
    <3>3. PinsFrame(s) \in Seq(Byte) /\ Len(PinsFrame(s)) # 0
      BY LevelsAssumption, PinsFrameFacts, ProtocolAssumption
    <3>4. tx' # << >>
      BY <3>1, <3>2, <3>3 DEF Requested
    <3>5. HC!Execute
      BY <3>1, <3>2, <3>4 DEF Serve, Requested, HC!Execute
    <3> QED
      BY <3>5 DEF HC!Next
  <2>6. CASE UNCHANGED vars
    BY <2>6 DEF vars
  <2> QED
    BY <2>1, <2>2, <2>3, <2>4, <2>5, <2>6 DEF Next, read_serial
<1> QED
  BY <1>1, <1>2, SpecInv, PTL DEF Spec, ImplementsHalfCycle, HC!Spec

=============================================================================
