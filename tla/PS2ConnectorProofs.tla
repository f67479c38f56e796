------------------------- MODULE PS2ConnectorProofs -------------------------
(***************************************************************************)
(* What PS2Connector keeps in every environment: its types, and that the   *)
(* receiver never runs ahead of the edges on the clock line; and what it   *)
(* delivers on a good line.                                                *)
(***************************************************************************)
EXTENDS PS2Connector, FiniteSetTheorems, TLAPS

\* The eight bits of a byte stay bits.
LEMMA ShiftInType ==
  ASSUME NEW b \in Byte, NEW v \in Bit
  PROVE  ShiftIn(b, v) \in Byte
BY DEF ShiftIn, Byte, Bit

LEMMA ReverseType == ASSUME NEW b \in Byte PROVE reverse(b) \in Byte
BY DEF reverse, Byte

LEMMA AppendReversed ==
  ASSUME NEW s \in Seq(Byte), NEW b \in Byte
  PROVE  Append(s, reverse(b)) \in Seq(Byte)
BY ReverseType

LEMMA FrameBitType ==
  ASSUME NEW b \in Byte, NEW p \in 0..FrameLen
  PROVE  FrameBit(b, p) \in Bit
<1>1. CASE p \in 1..8
  <2>1. p - 1 \in 0..7
    BY <1>1
  <2>2. b[p - 1] \in Bit
    BY <2>1 DEF Byte
  <2>3. FrameBit(b, p) = b[p - 1]
    BY <1>1 DEF FrameBit
  <2>4. QED
    BY <2>2, <2>3
<1>2. CASE p = 9
  <2>1. OnesParity(b) \in Bit
    BY DEF OnesParity, Byte, Bit
  <2>2. FrameBit(b, p) = 1 - OnesParity(b)
    BY <1>2 DEF FrameBit
  <2>3. QED
    BY <2>1, <2>2 DEF Bit
<1>3. CASE p \notin 1..8 /\ p # 9
  BY <1>3 DEF FrameBit, Bit
<1>4. QED
  BY <1>1, <1>2, <1>3

LEMMA PutBitType ==
  ASSUME NEW frame \in Nat, NEW c, NEW p, NEW invert, hit \subseteq Nat,
         FrameBit(c, p) \in Bit, put_bit(frame, c, p, invert)
  PROVE  data' \in Bit /\ hit' \subseteq Nat
<1>1. CASE invert
  BY <1>1 DEF put_bit, Bit
<1>2. CASE ~invert
  BY <1>2 DEF put_bit
<1>3. QED
  BY <1>1, <1>2

-----------------------------------------------------------------------------
\* The keyboard's side: the clock is low only within a frame.
LineInv ==
  /\ clk = 0 => bit < Idle
  /\ bit < Idle => sent # <<>>

\* The message queue keeps its type.
QueueInv ==
  /\ rx_msg_que \in Seq(Byte)
  /\ Len(rx_msg_que) <= QueueSize
  /\ reader \in {"off", "running", "pended", "handed"}
  /\ handover \in Seq(Byte)
  /\ Len(handover) <= 1
  /\ reader = "handed" => Len(handover) = 1

LEMMA OneElement ==
  ASSUME NEW S, NEW m \in S
  PROVE  <<m>> \in Seq(S) /\ Len(<<m>>) = 1
OBVIOUS

LEMMA PutKeepsQueue ==
  ASSUME QueueInv, NEW m \in Byte, Queue!PutAccepted(m) \/ Queue!PutRefused
  PROVE  QueueInv'
<1>1. CASE Queue!PutAccepted(m)
  <2>1. Len(rx_msg_que) + 1 <= QueueSize
    BY <1>1, ConnectorAssumption DEF QueueInv, Queue!PutAccepted, Queue!QueueFull
  <2>2. CASE reader = "pended"
    <3>1. <<m>> \in Seq(Byte) /\ Len(<<m>>) = 1
      BY OneElement
    <3>2. handover' = <<m>> /\ reader' = "handed" /\ rx_msg_que' = rx_msg_que
      BY <1>1, <2>2 DEF Queue!PutAccepted
    <3>3. handover' \in Seq(Byte) /\ Len(handover') = 1
      BY <3>1, <3>2, Zenon
    <3>4. QED
      BY <3>2, <3>3 DEF QueueInv
  <2>3. CASE reader # "pended"
    <3>1. /\ Append(rx_msg_que, m) \in Seq(Byte)
          /\ Len(Append(rx_msg_que, m)) = Len(rx_msg_que) + 1
      BY DEF QueueInv
    <3>2. QED
      BY <1>1, <2>1, <2>3, <3>1 DEF QueueInv, Queue!PutAccepted
  <2>4. QED
    BY <2>2, <2>3
<1>2. CASE Queue!PutRefused
  BY <1>2 DEF QueueInv, Queue!PutRefused, Queue!queueVars
<1>3. QED
  BY <1>1, <1>2

LEMMA GetKeepsQueue ==
  ASSUME QueueInv, Queue!Get \/ Queue!GetPends
  PROVE  QueueInv'
<1>1. CASE Queue!GetQueued
  <2>1. Len(Tail(rx_msg_que)) <= QueueSize /\ Tail(rx_msg_que) \in Seq(Byte)
    BY <1>1, ConnectorAssumption DEF QueueInv, Queue!GetQueued
  <2>2. QED
    BY <1>1, <2>1 DEF QueueInv, Queue!GetQueued
<1>2. CASE Queue!GetHanded
  <2>1. <<>> \in Seq(Byte) /\ Len(<<>>) = 0
    OBVIOUS
  <2>2. QED
    BY <1>2, <2>1 DEF QueueInv, Queue!GetHanded
<1>3. CASE Queue!GetPends
  BY <1>3 DEF QueueInv, Queue!GetPends
<1>4. QED
  BY <1>1, <1>2, <1>3 DEF Queue!Get

-----------------------------------------------------------------------------
\* What the interrupt does to the receiver's own state, whatever bit it reads.
LEMMA ServeKeepsTypes ==
  ASSUME TypeOK, QueueInv, NEW current_bit \in Bit, dev_to_host_serve_falling_clk(current_bit)
  PROVE  /\ QueueInv'
         /\ current_bit_no' \in 0..10
         /\ incoming_data' \in Byte
         /\ accepted' \in Seq(Nat)
         /\ full' \subseteq Nat
<1>0. QueueInv /\ Len(sent) \in Nat
  BY DEF TypeOK
<1>1. CASE start_bit_check_failed(current_bit)
  BY <1>0, <1>1 DEF start_bit_check_failed, TypeOK, queueVars, QueueInv
<1>2. CASE shift_in_bit(current_bit)
  <2>1. incoming_data' \in Byte
    BY <1>2, ShiftInType DEF shift_in_bit, TypeOK
  <2>2. QED
    BY <1>0, <1>2, <2>1 DEF shift_in_bit, TypeOK, queueVars, QueueInv
<1>3. CASE parity_bit(current_bit)
  BY <1>0, <1>3 DEF parity_bit, TypeOK, queueVars, QueueInv
<1>4. CASE stop_bit(current_bit)
  <2>1. CASE UNCHANGED <<queueVars, accepted, full>>
    BY <1>0, <1>4, <2>1 DEF stop_bit, TypeOK, queueVars, QueueInv
  <2>2. CASE queue_incoming_data
    <3>1. QueueInv'
      BY <1>0, <2>2, PutKeepsQueue DEF queue_incoming_data, TypeOK
    <3>2. Append(accepted, Len(sent)) \in Seq(Nat)
      BY <1>0 DEF TypeOK
    <3>3. QED
      <4>1. current_bit_no' \in 0..10 /\ incoming_data' \in Byte
        BY <1>4 DEF stop_bit, TypeOK
      <4>2. accepted' \in Seq(Nat)
        BY <2>2, <3>2 DEF queue_incoming_data, TypeOK
      <4>3. full' \subseteq Nat
        BY <1>0, <2>2 DEF queue_incoming_data, TypeOK
      <4>4. QED
        BY <3>1, <4>1, <4>2, <4>3
  <2>3. QED
    BY <1>4, <2>1, <2>2 DEF stop_bit
<1>5. QED
  BY <1>1, <1>2, <1>3, <1>4 DEF dev_to_host_serve_falling_clk

LEMMA InitType == Init => TypeOK /\ LineInv /\ QueueInv
<1> SUFFICES ASSUME Init PROVE TypeOK /\ LineInv /\ QueueInv
  OBVIOUS
<1>1. QueueInv
  BY ConnectorAssumption DEF Init, QueueInv, Queue!QueueInit
<1>2. incoming_data \in Byte
  BY DEF Init, Byte, Bit
<1>3. /\ sent \in Seq(Codes) /\ accepted \in Seq(Nat) /\ got \in Seq(Byte)
      /\ full \subseteq Nat /\ hit \subseteq Nat /\ current_bit_no \in 0..10
      /\ data \in Bit /\ clk \in Bit /\ bit \in 0..FrameLen
  BY DEF Init, Bit, Idle, FrameLen
<1>4. TypeOK
  BY <1>1, <1>2, <1>3, Zenon DEF Init, TypeOK, QueueInv, InitPcs
<1>5. LineInv
  BY DEF Init, LineInv, Idle, FrameLen
<1>6. QED
  BY <1>1, <1>4, <1>5

\* One step per action of PS2Connector.
LEMMA NextType ==
  TypeOK /\ LineInv /\ QueueInv /\ [Next]_vars => (TypeOK /\ LineInv /\ QueueInv)'
<1> DEFINE P == TypeOK /\ LineInv /\ QueueInv
<1> SUFFICES ASSUME P, [Next]_vars PROVE P'
  OBVIOUS
<1>1. CASE ps2_keyboard_init
  <2> USE DEF TypeOK, LineInv, QueueInv, InitPcs, firmware, queueVars, gpiote, lines, history
  <2>1. CASE configure_pins
    BY <2>1 DEF configure_pins
  <2>2. CASE configure_fails
    BY <2>2 DEF configure_fails
  <2>3. CASE wait_data_high
    BY <2>3 DEF wait_data_high
  <2>4. CASE wait_clk_high
    BY <2>4 DEF wait_clk_high
  <2>5. CASE set_state
    BY <2>5 DEF set_state
  <2>6. CASE enable_int
    BY <2>6 DEF enable_int
  <2>7. CASE add_callback
    BY <2>7 DEF add_callback
  <2> HIDE DEF TypeOK, LineInv, QueueInv, InitPcs, firmware, queueVars, gpiote, lines, history
  <2>8. QED
    BY <1>1, <2>1, <2>2, <2>3, <2>4, <2>5, <2>6, <2>7, Zenon DEF ps2_keyboard_init
<1>2. ASSUME NEW c \in Codes, NEW invert \in BOOLEAN, start_frame(c, invert)
      PROVE  P'
  <2>1. sent' \in Seq(Codes) /\ sent' # <<>> /\ Len(sent) \in Nat
    BY <1>2 DEF start_frame, TypeOK
  <2>2. data' \in Bit /\ hit' \subseteq Nat
    <3>1. c \in Byte /\ 0 \in 0..FrameLen
      BY ConnectorAssumption DEF FrameLen
    <3>2. FrameBit(c, 0) \in Bit
      BY <3>1, FrameBitType
    <3>3. QED
      BY <1>2, <2>1, <3>2, PutBitType DEF start_frame, TypeOK
  <2>3. QED
    BY <1>2, <2>1, <2>2 DEF start_frame, TypeOK, LineInv, QueueInv, firmware, queueVars,
       gpiote, Idle, FrameLen
<1>3. CASE clock_fall
  BY <1>3 DEF clock_fall, TypeOK, LineInv, QueueInv, firmware, queueVars, history, Bit
<1>4. ASSUME NEW invert \in BOOLEAN, clock_rise(invert)
      PROVE  P'
  <2>1. bit + 1 \in 0..FrameLen /\ Len(sent) \in Nat /\ sent[Len(sent)] \in Byte
    <3>1. bit < Idle /\ Len(sent) > 0
      BY <1>4 DEF clock_rise, TypeOK, LineInv
    <3>2. sent[Len(sent)] \in Codes
      BY <3>1 DEF TypeOK
    <3>3. QED
      BY <3>1, <3>2, ConnectorAssumption DEF TypeOK, Idle, FrameLen
  <2>2. FrameBit(sent[Len(sent)], bit + 1) \in Bit
    BY <2>1, FrameBitType
  <2>3. data' \in Bit /\ hit' \subseteq Nat
    BY <1>4, <2>1, <2>2, PutBitType DEF clock_rise, TypeOK
  <2>4. QED
    BY <1>4, <2>1, <2>3 DEF clock_rise, TypeOK, LineInv, QueueInv, firmware, queueVars, gpiote, Bit
<1>5. CASE clk_fall_cb
  <2>1. CASE callback
    <3>1. dev_to_host_serve_falling_clk(data) /\ data \in Bit
      BY <1>5, <2>1 DEF clk_fall_cb, TypeOK
    <3>2. /\ QueueInv' /\ current_bit_no' \in 0..10 /\ incoming_data' \in Byte
          /\ accepted' \in Seq(Nat) /\ full' \subseteq Nat
      BY <3>1, ServeKeepsTypes
    <3>3. QED
      BY <1>5, <3>1, <3>2 DEF clk_fall_cb, dev_to_host_serve_falling_clk, TypeOK,
         QueueInv, LineInv, lines
  <2>2. CASE ~callback
    BY <1>5, <2>2 DEF clk_fall_cb, TypeOK, LineInv, QueueInv, lines, firmware, queueVars
  <2>3. QED
    BY <2>1, <2>2
<1>6. CASE ps2_connector_get_next_code
  <2>1. QueueInv'
    BY <1>6, GetKeepsQueue DEF ps2_connector_get_next_code
  <2>2. got' \in Seq(Byte)
    <3>1. CASE Queue!GetQueued
      <4>1. Head(rx_msg_que) \in Byte
        BY <3>1 DEF Queue!GetQueued, TypeOK
      <4>2. Queue!GetResult \in Byte
        BY <3>1, <4>1 DEF Queue!GetQueued, Queue!GetResult
      <4>3. QED
        BY <1>6, <4>2, AppendReversed DEF ps2_connector_get_next_code, TypeOK
    <3>2. CASE Queue!GetHanded
      <4>1. handover[1] \in Byte
        <5>1. handover \in Seq(Byte) /\ Len(handover) = 1
          BY <3>2 DEF Queue!GetHanded, QueueInv
        <5>2. QED
          BY <5>1
      <4>2. Queue!GetResult \in Byte
        BY <3>2, <4>1 DEF Queue!GetHanded, Queue!GetResult
      <4>3. QED
        BY <1>6, <4>2, AppendReversed DEF ps2_connector_get_next_code, TypeOK
    <3>3. CASE UNCHANGED got
      BY <3>3 DEF TypeOK
    <3>4. QED
      BY <1>6, <3>1, <3>2, <3>3 DEF ps2_connector_get_next_code, Queue!Get
  <2>3. QED
    BY <1>6, <2>1, <2>2 DEF ps2_connector_get_next_code, TypeOK, LineInv, QueueInv,
       firmware, gpiote, lines
<1>7. CASE UNCHANGED vars
  BY <1>7 DEF vars, firmware, queueVars, gpiote, lines, history, TypeOK, LineInv, QueueInv
<1>8. QED
  BY <1>1, <1>2, <1>3, <1>4, <1>5, <1>6, <1>7 DEF Next, keyboard

-----------------------------------------------------------------------------
\* NoByteWithoutEdges with what it takes to count the refused frames.
EdgeInv == IsFiniteSet(full) /\ NoByteWithoutEdges

\* The edges the bytes completed so far have taken, and the one not yet served.
Taken == FrameLen * (Len(accepted) + Cardinality(full))
Pending == IF event THEN 1 ELSE 0

\* The arithmetic of a step that leaves the receiver alone, of one that serves
\* an edge without completing a byte, and of one that completes a byte.
LEMMA QuietStep ==
  ASSUME NEW w \in Int, NEW n \in Int, NEW p \in Int, NEW e \in Int,
         NEW q \in Int, NEW f \in Int, w + n + p <= e, q - p <= f - e
  PROVE  w + n + q <= f
OBVIOUS

LEMMA BitStep ==
  ASSUME NEW w \in Int, NEW n \in 0..10, NEW m \in {0, n + 1}
  PROVE  w + m <= w + n + 1
OBVIOUS

LEMMA ByteStep ==
  ASSUME NEW w \in Int, NEW v \in Int, v <= w + 11
  PROVE  v + 0 <= w + 10 + 1
OBVIOUS

LEMMA ServedStep ==
  ASSUME NEW w \in Int, NEW n \in Int, NEW e \in Int, NEW v \in Int, NEW m \in Int,
         w + n + 1 <= e, v + m <= w + n + 1
  PROVE  v + m + 0 <= e
OBVIOUS

LEMMA EdgeInvIs ==
  EdgeInv <=> IsFiniteSet(full) /\ Taken + current_bit_no + Pending <= Edges
BY DEF EdgeInv, NoByteWithoutEdges, Taken, Pending

LEMMA EdgesType == TypeOK => Edges \in Int
BY DEF TypeOK, Edges, FrameLen, Bit

LEMMA TakenType == TypeOK /\ IsFiniteSet(full) => Taken \in Int
BY FS_CardinalityType DEF TypeOK, Taken, FrameLen

\* A byte that is queued or refused takes eleven edges.
LEMMA PutCounts ==
  ASSUME TypeOK, IsFiniteSet(full), queue_incoming_data
  PROVE  IsFiniteSet(full') /\ Taken' \in Int /\ Taken' <= Taken + 11
<1>0. Cardinality(full) \in Nat /\ Len(accepted) \in Nat
  BY FS_CardinalityType DEF TypeOK
<1>1. CASE accepted' = Append(accepted, Len(sent)) /\ UNCHANGED full
  <2>1. Len(accepted') = Len(accepted) + 1
    BY <1>1 DEF TypeOK
  <2>2. QED
    BY <1>0, <1>1, <2>1 DEF Taken, FrameLen
<1>2. CASE full' = full \cup {Len(sent)} /\ UNCHANGED accepted
  <2>1. /\ IsFiniteSet(full')
        /\ Cardinality(full') \in {Cardinality(full), Cardinality(full) + 1}
    BY <1>2, FS_AddElement
  <2>2. QED
    BY <1>0, <1>2, <2>1 DEF Taken, FrameLen
<1>3. QED
  BY <1>1, <1>2 DEF queue_incoming_data

\* Serving an edge uses up one: at most one more bit, or one byte for eleven.
LEMMA ServeCounts ==
  ASSUME TypeOK, IsFiniteSet(full), NEW current_bit,
         dev_to_host_serve_falling_clk(current_bit)
  PROVE  /\ IsFiniteSet(full') /\ Taken' \in Int /\ current_bit_no' \in Int
         /\ Taken' + current_bit_no' <= Taken + current_bit_no + 1
<1>0. Taken \in Int /\ current_bit_no \in 0..10
  BY TakenType DEF TypeOK
<1>1. CASE UNCHANGED <<accepted, full>> /\ current_bit_no' \in {0, current_bit_no + 1}
  <2>1. Taken' = Taken
    BY <1>1 DEF Taken
  <2>2. Taken' + current_bit_no' <= Taken + current_bit_no + 1
    BY <1>0, <1>1, <2>1, BitStep, Zenon
  <2>3. current_bit_no' \in Int
    BY <1>0, <1>1
  <2>4. QED
    BY <1>0, <1>1, <2>1, <2>2, <2>3, Zenon
<1>2. CASE current_bit_no = 10 /\ current_bit_no' = 0 /\ queue_incoming_data
  <2>1. IsFiniteSet(full') /\ Taken' \in Int /\ Taken' <= Taken + 11
    BY <1>2, PutCounts
  <2>2. Taken' + current_bit_no' <= Taken + current_bit_no + 1
    BY <1>0, <1>2, <2>1, ByteStep, Zenon
  <2>3. QED
    BY <1>2, <2>1, <2>2
<1>3. QED
  BY <1>0, <1>1, <1>2 DEF dev_to_host_serve_falling_clk, start_bit_check_failed,
     shift_in_bit, parity_bit, stop_bit

LEMMA InitEdges == Init => EdgeInv
BY FS_EmptySet DEF Init, EdgeInv, NoByteWithoutEdges, Edges, FrameLen

LEMMA NextEdges ==
  TypeOK /\ LineInv /\ QueueInv /\ EdgeInv /\ [Next]_vars => EdgeInv'
<1> SUFFICES ASSUME TypeOK, LineInv, QueueInv, EdgeInv, [Next]_vars PROVE EdgeInv'
  OBVIOUS
<1>0. /\ IsFiniteSet(full) /\ Taken \in Int /\ current_bit_no \in Int
      /\ Pending \in Int /\ Edges \in Int
      /\ Taken + current_bit_no + Pending <= Edges
  BY EdgeInvIs, TakenType, EdgesType DEF TypeOK, Pending
<1>a. ASSUME IsFiniteSet(full'), Taken' + current_bit_no' + Pending' <= Edges'
      PROVE  EdgeInv'
  BY <1>a DEF EdgeInv, NoByteWithoutEdges, Taken, Pending
<1>1. ASSUME UNCHANGED <<current_bit_no, accepted, full>>,
             Edges' \in Int, Pending' \in Int, Pending' - Pending <= Edges' - Edges
      PROVE  EdgeInv'
  <2>1. Taken' = Taken
    BY <1>1 DEF Taken
  <2>2. Taken' + current_bit_no' + Pending' <= Edges'
    BY <1>0, <1>1, <2>1, QuietStep, Zenon
  <2>3. QED
    BY <1>0, <1>1, <1>a, <2>2
<1>2. CASE ps2_keyboard_init
  <2>1. UNCHANGED <<current_bit_no, accepted, full, lines, sent>> /\ (event' => event)
    BY <1>2 DEF ps2_keyboard_init, configure_pins, configure_fails, wait_data_high,
       wait_clk_high, set_state, enable_int, add_callback, firmware, gpiote, history
  <2>2. Edges' = Edges
    BY <2>1 DEF Edges, lines
  <2>3. Pending' \in Int /\ Pending' - Pending <= Edges' - Edges
    BY <1>0, <2>1, <2>2 DEF Pending
  <2>4. QED
    BY <1>0, <1>1, <2>1, <2>2, <2>3
<1>3. ASSUME NEW c \in Codes, NEW invert \in BOOLEAN, start_frame(c, invert)
      PROVE  EdgeInv'
  <2>1. clk = 1 /\ bit = Idle /\ bit' = 0 /\ clk' = 1 /\ Len(sent') = Len(sent) + 1
    BY <1>3 DEF start_frame, LineInv, TypeOK, Bit, Idle, FrameLen
  <2>2. Edges' = FrameLen * Len(sent)
    BY <2>1 DEF Edges, TypeOK, FrameLen
  <2>3. Edges = FrameLen * Len(sent)
    BY <2>1 DEF Edges, TypeOK, FrameLen, Idle
  <2>4. UNCHANGED <<current_bit_no, accepted, full, event>>
    BY <1>3 DEF start_frame, firmware, gpiote
  <2>5. QED
    BY <1>0, <1>1, <2>2, <2>3, <2>4 DEF Pending
<1>4. CASE clock_fall
  <2>1. Edges' = Edges + 1
    BY <1>4 DEF clock_fall, Edges, LineInv, TypeOK, history, FrameLen, Bit
  <2>2. /\ UNCHANGED <<current_bit_no, accepted, full>>
        /\ Pending' \in Int /\ Pending' - Pending <= Edges' - Edges
    BY <1>0, <1>4, <2>1 DEF clock_fall, firmware, history, Pending
  <2>3. QED
    BY <1>0, <1>1, <2>1, <2>2
<1>5. ASSUME NEW invert \in BOOLEAN, clock_rise(invert)
      PROVE  EdgeInv'
  <2>1. Edges' = Edges
    BY <1>5 DEF clock_rise, Edges, LineInv, TypeOK, FrameLen, Bit
  <2>2. UNCHANGED <<current_bit_no, accepted, full, event>>
    BY <1>5 DEF clock_rise, firmware, gpiote
  <2>3. QED
    BY <1>0, <1>1, <2>1, <2>2 DEF Pending
<1>6. CASE clk_fall_cb
  <2>1. Pending = 1 /\ Pending' = 0 /\ Edges' = Edges
    BY <1>6 DEF clk_fall_cb, Pending, Edges, lines
  <2>2. CASE callback
    <3>1. /\ IsFiniteSet(full') /\ Taken' \in Int /\ current_bit_no' \in Int
          /\ Taken' + current_bit_no' <= Taken + current_bit_no + 1
      BY <1>0, <1>6, <2>2, ServeCounts DEF clk_fall_cb
    <3>2. Taken' + current_bit_no' + Pending' <= Edges'
      BY <1>0, <2>1, <3>1, ServedStep, Zenon
    <3>3. QED
      BY <1>a, <3>1, <3>2
  <2>3. CASE ~callback
    BY <1>0, <1>1, <1>6, <2>1, <2>3 DEF clk_fall_cb, firmware
  <2>4. QED
    BY <2>2, <2>3
<1>7. CASE ps2_connector_get_next_code \/ UNCHANGED vars
  <2>1. UNCHANGED <<current_bit_no, accepted, full, event, lines, sent>>
    BY <1>7 DEF ps2_connector_get_next_code, vars, firmware, gpiote, history
  <2>2. Edges' = Edges /\ Pending' = Pending
    BY <2>1 DEF Edges, Pending, lines
  <2>3. QED
    BY <1>0, <1>1, <2>1, <2>2
<1>8. QED
  BY <1>2, <1>3, <1>4, <1>5, <1>6, <1>7 DEF Next, keyboard

-----------------------------------------------------------------------------
\* The statics of ps2_connector.c, the queue and the lines keep their types;
\* in particular current_bit_no stays below 11.
THEOREM ConnectorTypeCorrect == Spec => []TypeOK
BY InitType, NextType, PTL DEF Spec

\* For any noise, interrupt latency and moment at which the keyboard starts,
\* dev_to_host_serve_falling_clk completes no byte without eleven edges.
THEOREM ConnectorNoByteWithoutEdges == Spec => []NoByteWithoutEdges
<1>1. EdgeInv => NoByteWithoutEdges
  BY DEF EdgeInv
<1>2. QED
  BY <1>1, InitType, NextType, InitEdges, NextEdges, PTL DEF Spec

-----------------------------------------------------------------------------
(***************************************************************************)
(* On a line where the keyboard starts after init, edges are served in     *)
(* time and noise spares the start bit, PS2Connector delivers exactly what *)
(* was sent, and loses a frame only to noise or to a full queue.  The      *)
(* facts about bits and about histories are stated on constants first.     *)
(***************************************************************************)
\* The environment of these theorems.
GoodLine == Prompt /\ QuietStart /\ NoisyBits \subseteq 1..10

-----------------------------------------------------------------------------
(***************************************************************************)
(* Bits.                                                                   *)
(***************************************************************************)
LEMMA FrameBits ==
  ASSUME NEW c \in Byte
  PROVE  /\ FrameBit(c, 0) = 0
         /\ \A p \in 1..8 : FrameBit(c, p) = c[p - 1]
         /\ FrameBit(c, 9) = 1 - OnesParity(c)
         /\ FrameBit(c, 10) = 1
BY DEF FrameBit

\* A parity fold of eight bits.
LEMMA XorBits ==
  ASSUME NEW x \in Bit, NEW y \in Bit
  PROVE  /\ (x + y) % 2 \in Bit
         /\ (x + y) % 2 = IF x = y THEN 0 ELSE 1
BY DEF Bit

LEMMA XorShiftBits ==
  ASSUME NEW b \in Byte, NEW n \in {1, 2, 4}
  PROVE  /\ XorShift(b, n) \in Byte
         /\ \A k \in 0..7 : k + n <= 7 => XorShift(b, n)[k] = (b[k] + b[k + n]) % 2
<1>1. \A k \in 0..7 : b[k] \in Bit /\ (k + n <= 7 => b[k + n] \in Bit)
  BY DEF Byte
<1>2. \A k \in 0..7 : (b[k] + (IF k + n <= 7 THEN b[k + n] ELSE 0)) % 2 \in Bit
  BY <1>1, XorBits DEF Bit
<1>3. XorShift(b, n) \in Byte
  BY <1>2 DEF XorShift, Byte
<1>4. QED
  BY <1>3 DEF XorShift

\* The three xor-shifts of odd_parity_check sum up all eight bits.
LEMMA ParityFold ==
  ASSUME NEW b \in Byte
  PROVE  odd_parity_check(b) = OnesParity(b)
<1> DEFINE b4 == XorShift(b, 4)
           b2 == XorShift(b4, 2)
           b1 == XorShift(b2, 1)
<1>1. b4 \in Byte /\ b2 \in Byte
  BY XorShiftBits
<1>2. \A k \in 0..7 : k + 4 <= 7 => b4[k] = (b[k] + b[k + 4]) % 2
  BY XorShiftBits
<1>3. b2[0] = (b4[0] + b4[2]) % 2 /\ b2[1] = (b4[1] + b4[3]) % 2
  BY <1>1, XorShiftBits
<1>4. b1[0] = (b2[0] + b2[1]) % 2
  BY <1>1, XorShiftBits
<1>5. b4[0] = (b[0] + b[4]) % 2 /\ b4[1] = (b[1] + b[5]) % 2
      /\ b4[2] = (b[2] + b[6]) % 2 /\ b4[3] = (b[3] + b[7]) % 2
  BY <1>2
<1>6. \A k \in 0..7 : b[k] \in Int
  BY DEF Byte, Bit
<1>7. b1[0] = OnesParity(b)
  BY <1>3, <1>4, <1>5, <1>6 DEF OnesParity
<1>8. QED
  BY <1>7 DEF odd_parity_check

\* Bit p of the frame as received: q is the position noise has inverted, Idle
\* when there is none.
RxBit(c, q, p) == IF p = q THEN 1 - FrameBit(c, p) ELSE FrameBit(c, p)

LEMMA RxBitType ==
  ASSUME NEW c \in Byte, NEW q, NEW p \in 0..FrameLen
  PROVE  RxBit(c, q, p) \in Bit
BY FrameBitType DEF RxBit, Bit

\* The parity of the eight data bits, received in reverse order.
LEMMA RxParity ==
  ASSUME NEW c \in Byte, NEW b \in Byte, NEW q \in (1..10) \cup {Idle},
         \A j \in 0..7 : b[j] = RxBit(c, q, 8 - j)
  PROVE  odd_parity_check(b) = IF q \in 1..8 THEN 1 - OnesParity(c) ELSE OnesParity(c)
<1>1. \A j \in 0..7 : b[j] = IF 8 - j = q THEN 1 - c[7 - j] ELSE c[7 - j]
  BY FrameBits DEF RxBit
<1>2. \A j \in 0..7 : c[j] \in Bit
  BY DEF Byte
<1>3. /\ b[0] = IF q = 8 THEN 1 - c[7] ELSE c[7]
      /\ b[1] = IF q = 7 THEN 1 - c[6] ELSE c[6]
      /\ b[2] = IF q = 6 THEN 1 - c[5] ELSE c[5]
      /\ b[3] = IF q = 5 THEN 1 - c[4] ELSE c[4]
      /\ b[4] = IF q = 4 THEN 1 - c[3] ELSE c[3]
      /\ b[5] = IF q = 3 THEN 1 - c[2] ELSE c[2]
      /\ b[6] = IF q = 2 THEN 1 - c[1] ELSE c[1]
      /\ b[7] = IF q = 1 THEN 1 - c[0] ELSE c[0]
  BY <1>1 DEF FrameLen
<1>4. OnesParity(b) = IF q \in 1..8 THEN 1 - OnesParity(c) ELSE OnesParity(c)
  <2>1. c[0] \in Bit /\ c[1] \in Bit /\ c[2] \in Bit /\ c[3] \in Bit
        /\ c[4] \in Bit /\ c[5] \in Bit /\ c[6] \in Bit /\ c[7] \in Bit
    BY <1>2
  <2>2. QED
    BY <1>3, <2>1 DEF OnesParity, Bit
<1>5. QED
  BY <1>4, ParityFold

-----------------------------------------------------------------------------
(***************************************************************************)
(* The shift register after k edges of a frame that carries code c, n the  *)
(* bit counter and b the register.                                         *)
(***************************************************************************)
Flips == (1..10) \cup {Idle}

Register(c, q, k, n, b) ==
  /\ k <= 9 => n = k
  /\ k = 10 => n = IF q \in 1..9 THEN 0 ELSE 10
  /\ k = 11 => n = 0
  /\ k <= 9 => \A j \in 0..7 : j < k => b[j] = RxBit(c, q, k - 1 - j)
  /\ k > 9 => \A j \in 0..7 : b[j] = RxBit(c, q, 8 - j)

LEMMA RegisterStart ==
  ASSUME NEW c, NEW q, NEW b
  PROVE  Register(c, q, 0, 0, b)
BY DEF Register

LEMMA RegisterShift ==
  ASSUME NEW c \in Byte, NEW q \in Flips, NEW k \in 0..8, NEW n, NEW b \in Byte,
         Register(c, q, k, n, b)
  PROVE  n = k /\ Register(c, q, k + 1, n + 1, ShiftIn(b, RxBit(c, q, k)))
<1> DEFINE s == ShiftIn(b, RxBit(c, q, k))
<1>1. n = k /\ \A j \in 0..7 : j < k => b[j] = RxBit(c, q, k - 1 - j)
  BY DEF Register
<1>2. ASSUME NEW j \in 0..7, j < k + 1
      PROVE  s[j] = RxBit(c, q, k + 1 - 1 - j)
  <2>1. CASE j = 0
    <3>1. k + 1 - 1 - j = k
      BY <2>1
    <3>2. s[j] = RxBit(c, q, k)
      BY <2>1 DEF ShiftIn
    <3>3. QED
      BY <3>1, <3>2
  <2>2. CASE j # 0
    <3>1. j - 1 \in 0..7 /\ j - 1 < k /\ k - 1 - (j - 1) = k + 1 - 1 - j
      BY <1>2, <2>2
    <3>2. s[j] = b[j - 1]
      BY <2>2 DEF ShiftIn
    <3>3. b[j - 1] = RxBit(c, q, k - 1 - (j - 1))
      BY <1>1, <3>1
    <3>4. QED
      BY <3>1, <3>2, <3>3
  <2>3. QED
    BY <2>1, <2>2
<1>3. QED
  BY <1>1, <1>2 DEF Register

\* At k = 9 the register holds the data bits, the last one lowest.
LEMMA RegisterData ==
  ASSUME NEW c, NEW q, NEW k \in {9, 10}, NEW n, NEW b, Register(c, q, k, n, b)
  PROVE  \A j \in 0..7 : b[j] = RxBit(c, q, 8 - j)
<1>1. CASE k = 9
  BY <1>1 DEF Register
<1>2. CASE k = 10
  BY <1>2 DEF Register
<1>3. QED
  BY <1>1, <1>2

\* The parity check passes exactly when none of bits 1 to 9 was inverted.
LEMMA RegisterParity ==
  ASSUME NEW c \in Byte, NEW q \in Flips, NEW n, NEW b \in Byte,
         Register(c, q, 9, n, b)
  PROVE  /\ n = 9
         /\ Register(c, q, 10,
                     IF odd_parity_check(b) = RxBit(c, q, 9) THEN 0 ELSE 10, b)
<1>1. n = 9
  BY DEF Register
<1>2. \A j \in 0..7 : b[j] = RxBit(c, q, 8 - j)
  BY RegisterData
<1>3. odd_parity_check(b) = IF q \in 1..8 THEN 1 - OnesParity(c) ELSE OnesParity(c)
  BY <1>2, RxParity DEF Flips
<1>4. RxBit(c, q, 9) = IF q = 9 THEN OnesParity(c) ELSE 1 - OnesParity(c)
  <2>1. OnesParity(c) \in Int
    BY DEF OnesParity, Byte, Bit
  <2>2. QED
    BY <2>1, FrameBits DEF RxBit
<1>5. OnesParity(c) \in Bit
  BY DEF OnesParity, Byte, Bit
<1>6. (odd_parity_check(b) = RxBit(c, q, 9)) <=> q \in 1..9
  BY <1>3, <1>4, <1>5 DEF Bit, Flips, Idle, FrameLen
<1>7. QED
  BY <1>1, <1>2, <1>6 DEF Register

\* A register without an inverted data bit reverses to the code.
LEMMA RegisterReverses ==
  ASSUME NEW c \in Byte, NEW q \in Flips, q > 8, NEW n, NEW b \in Byte,
         Register(c, q, 10, n, b)
  PROVE  reverse(b) = c
<1>1. \A j \in 0..7 : b[j] = RxBit(c, q, 8 - j)
  BY RegisterData
<1>2. \A j \in 0..7 : b[7 - j] = c[j]
  <2> TAKE j \in 0..7
  <2>1. 7 - j \in 0..7 /\ 8 - (7 - j) = j + 1 /\ j + 1 \in 1..8 /\ j + 1 # q
    BY DEF Flips, Idle, FrameLen
  <2>2. b[7 - j] = RxBit(c, q, j + 1)
    BY <1>1, <2>1
  <2>3. FrameBit(c, j + 1) = c[j + 1 - 1]
    BY <2>1, FrameBits
  <2>4. QED
    BY <2>1, <2>2, <2>3 DEF RxBit
<1>3. QED
  BY <1>2 DEF reverse, Byte

\* Noise on a bit that is still to be read does not change the register.
LEMMA RegisterNoise ==
  ASSUME NEW c, NEW k \in 1..10, NEW n, NEW b, Register(c, Idle, k, n, b)
  PROVE  Register(c, k, k, n, b)
<1>1. \A p \in Int : p < k => RxBit(c, k, p) = RxBit(c, Idle, p)
  BY DEF RxBit, Idle, FrameLen
<1>2. CASE k <= 9
  <2>1. \A j \in 0..7 : j < k => RxBit(c, k, k - 1 - j) = RxBit(c, Idle, k - 1 - j)
    BY <1>1
  <2>2. QED
    BY <1>2, <2>1 DEF Register
<1>3. CASE k = 10
  <2>1. \A j \in 0..7 : RxBit(c, k, 8 - j) = RxBit(c, Idle, 8 - j)
    BY <1>1, <1>3
  <2>2. QED
    BY <1>3, <2>1 DEF Register, Idle, FrameLen
<1>4. QED
  BY <1>2, <1>3

-----------------------------------------------------------------------------
(***************************************************************************)
(* What has been accepted: s the frames sent, a the accepted ones, g the   *)
(* codes got, h the code handed over, r the ring buffer.                   *)
(***************************************************************************)
Store(s, a, g, h, r) ==
  /\ Len(a) = Len(g) + Len(h) + Len(r)
  /\ \A i \in 1..Len(a) : a[i] \in 1..Len(s)
  /\ \A i \in 1..Len(g) : g[i] = s[a[i]]
  /\ \A i \in 1..Len(h) : reverse(h[i]) = s[a[Len(g) + i]]
  /\ \A i \in 1..Len(r) : reverse(r[i]) = s[a[Len(g) + Len(h) + i]]

LEMMA StoreSend ==
  ASSUME NEW s \in Seq(Byte), NEW c \in Byte, NEW a \in Seq(Nat),
         NEW g \in Seq(Byte), NEW h \in Seq(Byte), NEW r \in Seq(Byte),
         Store(s, a, g, h, r)
  PROVE  Store(Append(s, c), a, g, h, r)
<1>1. /\ Len(Append(s, c)) = Len(s) + 1
      /\ \A i \in 1..Len(s) : Append(s, c)[i] = s[i]
  OBVIOUS
<1>2. /\ \A i \in 1..Len(g) : i \in 1..Len(a)
      /\ \A i \in 1..Len(h) : Len(g) + i \in 1..Len(a)
      /\ \A i \in 1..Len(r) : Len(g) + Len(h) + i \in 1..Len(a)
  BY DEF Store
<1>3. \A i \in 1..Len(a) : Append(s, c)[a[i]] = s[a[i]] /\ a[i] \in 1..Len(Append(s, c))
  BY <1>1 DEF Store
<1>4. QED
  BY <1>2, <1>3 DEF Store

\* Frame n is accepted, its code handed over or queued as m.
LEMMA StorePut ==
  ASSUME NEW s \in Seq(Byte), NEW a \in Seq(Nat), NEW g \in Seq(Byte),
         NEW h \in Seq(Byte), NEW r \in Seq(Byte), NEW m \in Byte,
         NEW n \in 1..Len(s), reverse(m) = s[n], Store(s, a, g, h, r)
  PROVE  /\ h = <<>> /\ r = <<>> => Store(s, Append(a, n), g, <<m>>, r)
         /\ Store(s, Append(a, n), g, h, Append(r, m))
<1> DEFINE aa == Append(a, n)
           rr == Append(r, m)
<1>1. /\ Len(aa) = Len(a) + 1 /\ aa[Len(a) + 1] = n
      /\ \A i \in 1..Len(a) : aa[i] = a[i]
  OBVIOUS
<1>2. /\ Len(rr) = Len(r) + 1 /\ rr[Len(r) + 1] = m
      /\ \A i \in 1..Len(r) : rr[i] = r[i]
  OBVIOUS
<1> HIDE DEF aa, rr
<1>3. \A i \in 1..Len(aa) : aa[i] \in 1..Len(s)
  <2>1. \A i \in 1..Len(a) : aa[i] \in 1..Len(s)
    BY <1>1 DEF Store
  <2>2. aa[Len(a) + 1] \in 1..Len(s)
    BY <1>1
  <2>3. \A i \in 1..(Len(a) + 1) : i \in 1..Len(a) \/ i = Len(a) + 1
    OBVIOUS
  <2>4. QED
    BY <1>1, <2>1, <2>2, <2>3, Zenon
<1>4. Len(a) = Len(g) + Len(h) + Len(r)
  BY DEF Store
<1>5. \A i \in 1..Len(g) : g[i] = s[aa[i]]
  <2> TAKE i \in 1..Len(g)
  <2>1. i \in 1..Len(a)
    BY <1>4
  <2>2. g[i] = s[a[i]]
    BY Zenon DEF Store
  <2>3. QED
    BY <1>1, <2>1, <2>2, Zenon
<1>6. ASSUME h = <<>>, r = <<>>
      PROVE  Store(s, aa, g, <<m>>, r)
  <2>1. Len(<<m>>) = 1 /\ <<m>>[1] = m
    OBVIOUS
  <2>2. Len(aa) = Len(g) + 1
    BY <1>1, <1>4, <1>6
  <2>3. QED
    BY <1>1, <1>3, <1>5, <1>4, <1>6, <2>1, <2>2 DEF Store
<1>7. Store(s, aa, g, h, rr)
  <2>1. \A i \in 1..Len(h) : reverse(h[i]) = s[aa[Len(g) + i]]
    <3> TAKE i \in 1..Len(h)
    <3>1. Len(g) + i \in 1..Len(a)
      BY <1>4
    <3>2. QED
      BY <1>1, <3>1 DEF Store
  <2>2. \A i \in 1..Len(r) : reverse(r[i]) = s[aa[Len(g) + Len(h) + i]]
    <3> TAKE i \in 1..Len(r)
    <3>1. Len(g) + Len(h) + i \in 1..Len(a)
      BY <1>4
    <3>2. QED
      BY <1>1, <3>1 DEF Store
  <2>3. reverse(rr[Len(r) + 1]) = s[aa[Len(g) + Len(h) + (Len(r) + 1)]]
    <3>1. Len(g) + Len(h) + (Len(r) + 1) = Len(a) + 1
      BY <1>4
    <3>2. QED
      BY <1>2, <1>1, <3>1
  <2>4. \A i \in 1..Len(rr) : reverse(rr[i]) = s[aa[Len(g) + Len(h) + i]]
    <3> TAKE i \in 1..Len(rr)
    <3>1. CASE i = Len(r) + 1
      BY <2>3, <3>1
    <3>2. CASE i \in 1..Len(r)
      BY <1>2, <2>2, <3>2
    <3>3. Len(rr) = Len(r) + 1
      BY <1>2
    <3>4. i = Len(r) + 1 \/ i \in 1..Len(r)
      BY <3>3
    <3>5. QED
      BY <3>1, <3>2, <3>4, Zenon
  <2>5. Len(aa) = Len(g) + Len(h) + Len(rr)
    BY <1>2, <1>1, <1>4
  <2>6. QED
    BY <1>3, <1>5, <2>1, <2>4, <2>5 DEF Store
<1>8. QED
  BY <1>6, <1>7 DEF aa, rr

\* The reader takes the oldest code, from the buffer or from its hand.
LEMMA StoreGet ==
  ASSUME NEW s \in Seq(Byte), NEW a \in Seq(Nat), NEW g \in Seq(Byte),
         NEW h \in Seq(Byte), NEW r \in Seq(Byte), Store(s, a, g, h, r)
  PROVE  /\ h = <<>> /\ r # <<>> => Store(s, a, Append(g, reverse(Head(r))), h, Tail(r))
         /\ Len(h) = 1 => Store(s, a, Append(g, reverse(h[1])), <<>>, r)
<1>1. ASSUME NEW b \in Byte, reverse(b) = s[a[Len(g) + 1]]
      PROVE  /\ Len(Append(g, reverse(b))) = Len(g) + 1
             /\ \A i \in 1..Len(Append(g, reverse(b))) : Append(g, reverse(b))[i] = s[a[i]]
  <2> DEFINE x == reverse(b)
             gg == Append(g, x)
  <2>1. x \in Byte
    BY ReverseType
  <2>2. \A i \in 1..Len(g) : g[i] = s[a[i]]
    BY DEF Store
  <2>3. x = s[a[Len(g) + 1]]
    BY <1>1
  <2> HIDE DEF x
  <2>4. Len(gg) = Len(g) + 1 /\ gg[Len(g) + 1] = x /\ \A i \in 1..Len(g) : gg[i] = g[i]
    BY <2>1
  <2> HIDE DEF gg
  <2>5. \A i \in 1..Len(gg) : i \in 1..Len(g) \/ i = Len(g) + 1
    BY <2>4
  <2>6. \A i \in 1..Len(gg) : gg[i] = s[a[i]]
    BY <2>2, <2>3, <2>4, <2>5, Zenon
  <2>7. QED
    BY <2>4, <2>6 DEF gg, x
<1>2. ASSUME h = <<>>, r # <<>>
      PROVE  Store(s, a, Append(g, reverse(Head(r))), h, Tail(r))
  <2>1. /\ Len(r) >= 1 /\ Head(r) = r[1] /\ Len(Tail(r)) = Len(r) - 1
        /\ \A i \in 1..Len(Tail(r)) : Tail(r)[i] = r[i + 1]
        /\ Head(r) \in Byte
    BY <1>2
  <2>2. reverse(Head(r)) = s[a[Len(g) + 1]] /\ Len(a) = Len(g) + Len(r)
    BY <1>2, <2>1 DEF Store
  <2>3. /\ Len(Append(g, reverse(Head(r)))) = Len(g) + 1
        /\ \A i \in 1..Len(Append(g, reverse(Head(r)))) :
             Append(g, reverse(Head(r)))[i] = s[a[i]]
    BY <1>1, <2>1, <2>2
  <2>4. \A i \in 1..Len(Tail(r)) : reverse(Tail(r)[i]) = s[a[Len(g) + 1 + i]]
    <3> TAKE i \in 1..Len(Tail(r))
    <3>1. i + 1 \in 1..Len(r) /\ Tail(r)[i] = r[i + 1]
      BY <2>1
    <3>2. Len(h) = 0 /\ Len(g) + Len(h) + (i + 1) = Len(g) + 1 + i
      BY <1>2
    <3>3. \A j \in 1..Len(r) : reverse(r[j]) = s[a[Len(g) + Len(h) + j]]
      BY DEF Store
    <3>4. QED
      BY <3>1, <3>2, <3>3, Zenon
  <2> DEFINE gg == Append(g, reverse(Head(r)))
             tt == Tail(r)
  <2>5. Len(gg) = Len(g) + 1 /\ Len(g) \in Nat /\ Len(r) \in Nat /\ Len(tt) = Len(r) - 1
    BY <2>1, <2>3
  <2>6. Len(h) = 0
    BY <1>2
  <2>7. \A i \in 1..Len(gg) : gg[i] = s[a[i]]
    BY <2>3
  <2>8. \A i \in 1..Len(a) : a[i] \in 1..Len(s)
    BY DEF Store
  <2> HIDE DEF gg
  <2>9. Len(gg) + Len(h) = Len(g) + 1
    BY <2>5, <2>6
  <2>10. \A i \in 1..Len(tt) : reverse(tt[i]) = s[a[Len(gg) + Len(h) + i]]
    BY <2>4, <2>9, Zenon
  <2> HIDE DEF tt
  <2>11. Len(a) = Len(gg) + Len(h) + Len(tt)
    BY <2>2, <2>5, <2>6
  <2>12. \A i \in 1..Len(h) : reverse(h[i]) = s[a[Len(gg) + i]]
    BY <2>6
  <2>13. Store(s, a, gg, h, tt)
    BY <2>7, <2>8, <2>10, <2>11, <2>12, Zenon DEF Store
  <2>14. QED
    BY <2>13 DEF gg, tt
<1>3. ASSUME Len(h) = 1
      PROVE  Store(s, a, Append(g, reverse(h[1])), <<>>, r)
  <2> DEFINE gg == Append(g, reverse(h[1]))
             e == <<>>
  <2>1. h[1] \in Byte
    <3>1. 1 \in 1..Len(h)
      BY <1>3
    <3>2. \A i \in 1..Len(h) : h[i] \in Byte
      OBVIOUS
    <3>3. QED
      BY <3>1, <3>2, Zenon
  <2>2. reverse(h[1]) = s[a[Len(g) + 1]] /\ Len(a) = Len(g) + 1 + Len(r)
    BY <1>3 DEF Store
  <2>3. Len(gg) = Len(g) + 1 /\ \A i \in 1..Len(gg) : gg[i] = s[a[i]]
    BY <1>1, <2>1, <2>2
  <2>4. \A i \in 1..Len(r) : reverse(r[i]) = s[a[Len(g) + 1 + i]]
    BY <1>3 DEF Store
  <2>5. Len(e) = 0
    OBVIOUS
  <2> HIDE DEF gg, e
  <2>6. Store(s, a, gg, e, r)
    BY <1>3, <2>2, <2>3, <2>4, <2>5 DEF Store
  <2>7. QED
    BY <2>6 DEF gg, e
<1>4. QED
  BY <1>2, <1>3

-----------------------------------------------------------------------------
(***************************************************************************)
(* What became of the first m frames: a the accepted ones, f the refused   *)
(* ones, h the ones noise hit.                                             *)
(***************************************************************************)
IsAccepted(a, x) == \E i \in 1..Len(a) : a[i] = x

Log(a, f, h, m) ==
  /\ \A i \in 1..Len(a) : a[i] \in 1..m
  /\ \A i \in 1..Len(a) : i > 1 => a[i - 1] < a[i]
  /\ f \subseteq 1..m
  /\ \A x \in 1..m : /\ x \in h <=> x \notin f /\ ~IsAccepted(a, x)
                     /\ x \in f => ~IsAccepted(a, x)

\* Noise on a frame that is still to be served.
LEMMA LogNoise ==
  ASSUME NEW m \in Nat, NEW a \in Seq(Nat), NEW f, NEW h, NEW x, x \notin 1..m,
         Log(a, f, h, m)
  PROVE  Log(a, f, h \cup {x}, m)
BY DEF Log

\* The next frame is dropped by a check, accepted, or refused.
LEMMA LogDropped ==
  ASSUME NEW m \in Nat, NEW a \in Seq(Nat), NEW f, NEW h, m + 1 \in h,
         Log(a, f, h, m)
  PROVE  Log(a, f, h, m + 1)
<1>1. \A i \in 1..Len(a) : a[i] \in 1..(m + 1) /\ a[i] # m + 1
  BY DEF Log
<1>2. ~IsAccepted(a, m + 1) /\ m + 1 \notin f /\ f \subseteq 1..(m + 1)
  BY <1>1 DEF Log, IsAccepted
<1>3. \A x \in 1..(m + 1) : x \in 1..m \/ x = m + 1
  OBVIOUS
<1>4. QED
  BY <1>1, <1>2, <1>3 DEF Log

LEMMA LogRefused ==
  ASSUME NEW m \in Nat, NEW a \in Seq(Nat), NEW f, NEW h, m + 1 \notin h,
         Log(a, f, h, m)
  PROVE  Log(a, f \cup {m + 1}, h, m + 1)
<1>1. \A i \in 1..Len(a) : a[i] \in 1..(m + 1) /\ a[i] # m + 1
  BY DEF Log
<1>2. ~IsAccepted(a, m + 1) /\ f \cup {m + 1} \subseteq 1..(m + 1)
  BY <1>1 DEF Log, IsAccepted
<1>3. \A x \in 1..(m + 1) : (x \in 1..m /\ x # m + 1) \/ x = m + 1
  OBVIOUS
<1>4. QED
  BY <1>1, <1>2, <1>3 DEF Log

LEMMA LogAccepted ==
  ASSUME NEW m \in Nat, NEW a \in Seq(Nat), NEW f, NEW h, m + 1 \notin h,
         Log(a, f, h, m)
  PROVE  Log(Append(a, m + 1), f, h, m + 1)
<1> DEFINE aa == Append(a, m + 1)
<1>1. /\ Len(aa) = Len(a) + 1 /\ aa[Len(a) + 1] = m + 1
      /\ \A i \in 1..Len(a) : aa[i] = a[i]
  OBVIOUS
<1> HIDE DEF aa
<1>2. \A i \in 1..Len(aa) : i \in 1..Len(a) \/ i = Len(a) + 1
  BY <1>1
<1>3. \A i \in 1..Len(a) : a[i] \in 1..(m + 1) /\ a[i] \in 1..m
  BY DEF Log
<1>4. \A i \in 1..Len(aa) : aa[i] \in 1..(m + 1)
  BY <1>1, <1>2, <1>3
<1>5. \A i \in 1..Len(aa) : i > 1 => aa[i - 1] < aa[i]
  <2> SUFFICES ASSUME NEW i \in 1..Len(aa), i > 1 PROVE aa[i - 1] < aa[i]
    OBVIOUS
  <2>1. i - 1 \in 1..Len(a) /\ aa[i - 1] = a[i - 1]
    BY <1>1
  <2>2. CASE i \in 1..Len(a)
    BY <1>1, <2>1, <2>2 DEF Log
  <2>3. CASE i = Len(a) + 1
    BY <1>1, <1>3, <2>1, <2>3
  <2>4. QED
    BY <1>2, <2>2, <2>3
<1>6. \A x : IsAccepted(aa, x) <=> IsAccepted(a, x) \/ x = m + 1
  <2>1. \A x : IsAccepted(a, x) => IsAccepted(aa, x)
    BY <1>1 DEF IsAccepted
  <2>2. IsAccepted(aa, m + 1)
    BY <1>1 DEF IsAccepted
  <2>3. \A x : IsAccepted(aa, x) => IsAccepted(a, x) \/ x = m + 1
    BY <1>1, <1>2 DEF IsAccepted
  <2>4. QED
    BY <2>1, <2>2, <2>3, Zenon
<1>7. f \subseteq 1..(m + 1) /\ m + 1 \notin f
  BY DEF Log
<1>8. \A x \in 1..(m + 1) : (x \in 1..m /\ x # m + 1) \/ x = m + 1
  OBVIOUS
<1>9. \A x \in 1..(m + 1) : /\ x \in h <=> x \notin f /\ ~IsAccepted(aa, x)
                            /\ x \in f => ~IsAccepted(aa, x)
  BY <1>6, <1>7, <1>8 DEF Log
<1>10. QED
  BY <1>4, <1>5, <1>7, <1>9 DEF Log, aa

-----------------------------------------------------------------------------
(***************************************************************************)
(* The inductive invariant.  BootInv: no edge before clk_fall_cb is        *)
(* registered.  ReaderInv: only an empty queue has a waiting reader.       *)
(* FrameInv: where the receiver is in the current frame.  HistoryInv: what *)
(* became of the frames served so far.                                     *)
(***************************************************************************)
BootInv ==
  /\ init_pc \notin {"done", "failed"} => sent = <<>> /\ reader = "off"
  /\ callback <=> init_pc = "done"
  /\ int_enabled <=> init_pc \in {"add_callback", "done"}
  /\ event => callback /\ clk = 0
  /\ ~callback => accepted = <<>> /\ full = {}

ReaderInv ==
  /\ reader = "pended" => rx_msg_que = <<>>
  /\ handover # <<>> => reader = "handed"

\* Edges of the current frame that have been served, and frames served.
EdgesServed == IF clk = 0 /\ ~event THEN bit + 1 ELSE bit
FramesServed == IF bit = Idle \/ (bit = 10 /\ clk = 0 /\ ~event)
                  THEN Len(sent) ELSE Len(sent) - 1

InFrame(q) ==
  /\ q = Idle \/ q <= bit
  /\ Len(sent) \in hit <=> q # Idle
  /\ data = RxBit(sent[Len(sent)], q, bit)
  /\ Register(sent[Len(sent)], q, EdgesServed, current_bit_no, incoming_data)

FrameInv ==
  /\ callback /\ bit < Idle => \E q \in Flips : InFrame(q)
  /\ bit = Idle \/ ~callback => current_bit_no = 0

HistoryInv ==
  /\ hit \subseteq 1..Len(sent)
  /\ Store(sent, accepted, got, handover, rx_msg_que)
  /\ callback => Log(accepted, full, hit, FramesServed)

TypeInv == TypeOK /\ LineInv /\ QueueInv
ExactInv == BootInv /\ ReaderInv /\ FrameInv /\ HistoryInv

LEMMA InitExact == Init => ExactInv
<1> SUFFICES ASSUME Init PROVE ExactInv
  OBVIOUS
<1>1. BootInv /\ ReaderInv /\ FrameInv
  BY DEF Init, BootInv, ReaderInv, FrameInv, Queue!QueueInit, Idle, FrameLen
<1>2. HistoryInv
  <2>1. Len(<<>>) = 0
    OBVIOUS
  <2>2. Store(sent, accepted, got, handover, rx_msg_que)
    BY <2>1 DEF Init, Queue!QueueInit, Store
  <2>3. QED
    BY <2>2 DEF Init, HistoryInv
<1>3. QED
  BY <1>1, <1>2 DEF ExactInv

LEMMA BytesSent == TypeOK => sent \in Seq(Byte) /\ \A i \in 1..Len(sent) : sent[i] \in Byte
BY ConnectorAssumption DEF TypeOK

\* While init runs nothing has been sent, so nothing has happened.
LEMMA ExactBoot ==
  ASSUME GoodLine, TypeInv, ExactInv, ps2_keyboard_init
  PROVE  ExactInv'
<1>1. sent = <<>> /\ reader = "off" /\ ~callback /\ accepted = <<>> /\ full = {} /\ ~event
  BY DEF ExactInv, BootInv, ps2_keyboard_init, configure_pins, configure_fails, wait_data_high,
     wait_clk_high, set_state, enable_int, add_callback
<1>2. /\ UNCHANGED <<current_bit_no, incoming_data, rx_msg_que, handover, lines, history>>
      /\ ~event'
  BY <1>1 DEF ps2_keyboard_init, configure_pins, configure_fails, wait_data_high, firmware,
     wait_clk_high, set_state, enable_int, add_callback, queueVars, gpiote
<1>3. BootInv'
  BY <1>1, <1>2 DEF ExactInv, BootInv, ps2_keyboard_init, configure_pins, configure_fails,
     wait_data_high, wait_clk_high, set_state, enable_int, add_callback, gpiote, history, lines, queueVars
<1>4. ReaderInv'
  BY <1>1, <1>2 DEF ExactInv, TypeInv, QueueInv, ReaderInv, ps2_keyboard_init, configure_pins,
     configure_fails, wait_data_high, wait_clk_high, set_state, enable_int, add_callback, queueVars
<1>5. bit = Idle
  BY <1>1 DEF TypeInv, TypeOK, LineInv, Idle, FrameLen
<1>6. FrameInv'
  BY <1>1, <1>2, <1>5 DEF ExactInv, FrameInv, lines, Idle, FrameLen
<1>7. HistoryInv'
  <2>1. Len(sent) = 0 /\ Len(accepted) = 0
    BY <1>1
  <2>2. hit = {}
    BY <2>1 DEF ExactInv, HistoryInv
  <2>3. FramesServed = 0
    BY <1>5, <2>1 DEF FramesServed
  <2>4. Log(accepted, full, hit, FramesServed)
    BY <1>1, <2>1, <2>2, <2>3 DEF Log
  <2>5. FramesServed' = FramesServed
    BY <1>1, <1>2 DEF FramesServed, lines, history
  <2>6. Log(accepted', full', hit', FramesServed')
    BY <1>2, <2>4, <2>5 DEF history
  <2>7. QED
    BY <1>2, <2>6 DEF ExactInv, HistoryInv, history
<1>8. QED
  BY <1>3, <1>4, <1>6, <1>7 DEF ExactInv

\* A frame begins: its start bit is clean and the receiver is at bit 0.
LEMMA ExactStart ==
  ASSUME GoodLine, TypeInv, ExactInv, NEW c \in Codes, NEW invert \in BOOLEAN,
         start_frame(c, invert)
  PROVE  ExactInv'
<1>1. ~invert /\ hit' = hit /\ data' = FrameBit(c, 0)
  <2>1. 0 \notin NoisyBits
    BY DEF GoodLine
  <2>2. ~invert
    BY <2>1 DEF start_frame
  <2>3. QED
    BY <2>2 DEF start_frame, put_bit
<1>2. /\ bit = Idle /\ bit' = 0 /\ clk = 1 /\ clk' = 1 /\ ~event /\ ~event'
      /\ init_pc \in {"done", "failed"}
      /\ UNCHANGED <<firmware, queueVars, init_pc, gpiote, accepted, full, got>>
  BY DEF start_frame, GoodLine, TypeInv, TypeOK, LineInv, ExactInv, BootInv, gpiote, Bit,
     Idle, FrameLen
<1>3. c \in Byte /\ sent \in Seq(Byte) /\ Len(sent) \in Nat
  BY ConnectorAssumption, BytesSent DEF TypeInv, TypeOK
<1>4. sent' = Append(sent, c) /\ Len(sent') = Len(sent) + 1 /\ sent'[Len(sent')] = c
  BY <1>3 DEF start_frame
<1>5. BootInv'
  BY <1>2 DEF ExactInv, BootInv, gpiote, queueVars
<1>6. ReaderInv'
  BY <1>2 DEF ExactInv, ReaderInv, queueVars
<1>7. FrameInv'
  <2>1. current_bit_no' = 0
    BY <1>2 DEF ExactInv, FrameInv, firmware
  <2>2. EdgesServed' = 0
    BY <1>2 DEF EdgesServed
  <2>3. Register(c, Idle, 0, 0, incoming_data')
    BY RegisterStart
  <2>4. Len(sent') \notin hit'
    BY <1>1, <1>3, <1>4 DEF ExactInv, HistoryInv
  <2>5. data' = RxBit(c, Idle, 0)
    BY <1>1 DEF RxBit, Idle, FrameLen
  <2>6. Register(sent'[Len(sent')], Idle, EdgesServed', current_bit_no', incoming_data')
    BY <1>4, <2>1, <2>2, <2>3
  <2>7. data' = RxBit(sent'[Len(sent')], Idle, bit')
    BY <1>2, <1>4, <2>5
  <2>8. InFrame(Idle)'
    BY <2>4, <2>6, <2>7 DEF InFrame
  <2>9. QED
    BY <1>2, <2>1, <2>8 DEF FrameInv, Flips
<1>8. HistoryInv'
  <2>1. hit' \subseteq 1..Len(sent')
    BY <1>1, <1>3, <1>4 DEF ExactInv, HistoryInv
  <2>2. Store(sent', accepted', got', handover', rx_msg_que')
    <3>1. Store(Append(sent, c), accepted, got, handover, rx_msg_que)
      BY <1>3, StoreSend DEF ExactInv, HistoryInv, TypeInv, TypeOK
    <3>2. QED
      BY <1>2, <1>4, <3>1 DEF queueVars
  <2>3. FramesServed = Len(sent) /\ FramesServed' = Len(sent)
    BY <1>2, <1>3, <1>4 DEF FramesServed, Idle, FrameLen
  <2>4. callback' => Log(accepted', full', hit', FramesServed')
    BY <1>1, <1>2, <2>3 DEF ExactInv, HistoryInv, gpiote
  <2>5. QED
    BY <2>1, <2>2, <2>4 DEF HistoryInv
<1>9. QED
  BY <1>5, <1>6, <1>7, <1>8 DEF ExactInv

\* The clock falls: if the interrupt is armed there is an edge to serve.
LEMMA ExactFall ==
  ASSUME GoodLine, TypeInv, ExactInv, clock_fall
  PROVE  ExactInv'
<1>1. /\ bit < Idle /\ clk = 1 /\ clk' = 0 /\ ~event
      /\ init_pc \in {"done", "failed"}
      /\ UNCHANGED <<firmware, queueVars, init_pc, int_enabled, callback, data, bit, history>>
  BY DEF clock_fall, TypeInv, LineInv, ExactInv, BootInv
<1>2. event' <=> callback
  BY <1>1 DEF clock_fall, ExactInv, BootInv
<1>3. BootInv'
  BY <1>1, <1>2 DEF ExactInv, BootInv, history, queueVars
<1>4. ReaderInv'
  BY <1>1 DEF ExactInv, ReaderInv, queueVars
<1>5. callback => EdgesServed' = EdgesServed /\ FramesServed' = FramesServed
  BY <1>1, <1>2 DEF EdgesServed, FramesServed, history
<1>6. FrameInv'
  <2>1. ASSUME callback PROVE \E q \in Flips : InFrame(q)'
    <3>1. PICK q \in Flips : InFrame(q)
      BY <1>1, <2>1 DEF ExactInv, FrameInv
    <3>2. InFrame(q)'
      BY <1>1, <1>5, <2>1, <3>1 DEF InFrame, history, firmware
    <3>3. QED
      BY <3>2
  <2>2. QED
    BY <1>1, <2>1 DEF ExactInv, FrameInv, firmware, Idle, FrameLen
<1>7. HistoryInv'
  BY <1>1, <1>5 DEF ExactInv, HistoryInv, history, queueVars
<1>8. QED
  BY <1>3, <1>4, <1>6, <1>7 DEF ExactInv

\* The keyboard puts out the next bit after the edge has been served; noise
\* may invert it, the first time in this frame.
LEMMA ExactRise ==
  ASSUME GoodLine, TypeInv, ExactInv, NEW invert \in BOOLEAN, clock_rise(invert)
  PROVE  ExactInv'
<1> DEFINE c == sent[Len(sent)]
<1>0. PICK n \in 1..FrameLen : n = bit + 1
  BY DEF clock_rise, TypeInv, TypeOK, LineInv, Idle, FrameLen
<1>1. /\ clk = 0 /\ clk' = 1 /\ ~event /\ ~event' /\ bit < Idle /\ bit' = n
      /\ UNCHANGED <<firmware, queueVars, init_pc, gpiote, sent, accepted, full, got>>
  BY <1>0 DEF clock_rise, GoodLine, TypeInv, LineInv, gpiote
<1>2. bit \in 0..10 /\ n = bit + 1 /\ Len(sent) \in Nat \ {0}
  BY <1>0, <1>1 DEF TypeInv, TypeOK, LineInv, Idle, FrameLen
<1>3. BootInv'
  BY <1>1 DEF ExactInv, BootInv, gpiote, queueVars
<1>4. ReaderInv'
  BY <1>1 DEF ExactInv, ReaderInv, queueVars
<1>5. EdgesServed = n /\ EdgesServed' = n
  BY <1>0, <1>1 DEF EdgesServed
<1>6. FramesServed' = FramesServed
  BY <1>1, <1>2 DEF FramesServed, Idle, FrameLen
<1>7. /\ data' = IF invert THEN 1 - FrameBit(c, n) ELSE FrameBit(c, n)
      /\ hit' = IF invert THEN hit \cup {Len(sent)} ELSE hit
      /\ invert => n \in 1..10 /\ Len(sent) \notin hit
  BY <1>0 DEF clock_rise, put_bit, GoodLine
<1>8. FrameInv'
  <2>1. ASSUME callback
        PROVE  /\ n < Idle => \E q \in Flips : InFrame(q)'
               /\ n = Idle => current_bit_no' = 0
    <3>1. PICK q \in Flips : InFrame(q)
      BY <1>1, <2>1 DEF ExactInv, FrameInv
    <3>2. Register(c, q, n, current_bit_no, incoming_data)
      BY <1>5, <3>1 DEF InFrame
    <3>3. n = Idle => current_bit_no = 0
      BY <3>2 DEF Register, Idle, FrameLen
    <3>4. UNCHANGED <<current_bit_no, incoming_data>> /\ sent'[Len(sent')] = c
      BY <1>1 DEF firmware
    <3>5. CASE invert
      <4>1. q = Idle
        BY <1>7, <3>1, <3>5 DEF InFrame
      <4>2. Register(c, n, n, current_bit_no, incoming_data)
        BY <1>7, <3>2, <3>5, <4>1, RegisterNoise
      <4>3. data' = RxBit(c, n, n)
        BY <1>7, <3>5 DEF RxBit
      <4>4. Len(sent') \in hit' /\ n # Idle /\ n \in Flips
        BY <1>1, <1>7, <3>5 DEF Flips, Idle, FrameLen
      <4>5. InFrame(n)'
        BY <1>1, <1>2, <1>5, <3>4, <4>2, <4>3, <4>4 DEF InFrame
      <4>6. QED
        BY <3>3, <3>4, <4>4, <4>5
    <3>6. CASE ~invert
      <4> SUFFICES ASSUME n < Idle PROVE InFrame(q)'
        BY <3>3, <3>4
      <4>1. (q = Idle \/ q <= bit) /\ (Len(sent) \in hit <=> q # Idle)
        BY <3>1 DEF InFrame
      <4>2. n # q /\ (q = Idle \/ q <= n)
        BY <1>2, <4>1 DEF Flips, Idle, FrameLen
      <4>3. data' = RxBit(c, q, n) /\ hit' = hit
        BY <1>7, <3>6, <4>2 DEF RxBit
      <4>4. QED
        BY <1>1, <1>5, <3>2, <3>4, <4>1, <4>2, <4>3 DEF InFrame
    <3>7. QED
      BY <3>5, <3>6
  <2>2. QED
    BY <1>1, <2>1 DEF ExactInv, FrameInv, firmware, gpiote
<1>9. HistoryInv'
  <2>1. hit' \subseteq 1..Len(sent')
    <3>1. hit \subseteq 1..Len(sent) /\ Len(sent) \in 1..Len(sent)
      BY <1>2 DEF ExactInv, HistoryInv
    <3>2. CASE invert
      BY <1>1, <1>7, <3>1, <3>2
    <3>3. CASE ~invert
      BY <1>1, <1>7, <3>1, <3>3
    <3>4. QED
      BY <3>2, <3>3
  <2>2. Store(sent', accepted', got', handover', rx_msg_que')
    BY <1>1 DEF ExactInv, HistoryInv, queueVars
  <2>3. ASSUME callback PROVE Log(accepted', full', hit', FramesServed')
    <3>1. Log(accepted, full, hit, FramesServed) /\ FramesServed \in Nat
      BY <1>2, <2>3 DEF ExactInv, HistoryInv, FramesServed
    <3>2. CASE invert
      <4>1. Len(sent) \notin 1..FramesServed
        BY <1>2, <1>1, <1>7, <3>2 DEF FramesServed, Idle, FrameLen
      <4>2. Log(accepted, full, hit \cup {Len(sent)}, FramesServed)
        BY <3>1, <4>1, LogNoise DEF TypeInv, TypeOK
      <4>3. QED
        BY <1>1, <1>6, <1>7, <3>2, <4>2
    <3>3. CASE ~invert
      BY <1>1, <1>6, <1>7, <3>1, <3>3
    <3>4. QED
      BY <3>2, <3>3
  <2>4. QED
    BY <1>1, <2>1, <2>2, <2>3 DEF HistoryInv, gpiote
<1>10. QED
  BY <1>3, <1>4, <1>8, <1>9 DEF ExactInv

\* The interrupt at bits 0 to 9 of a frame: the register takes the bit.
LEMMA ServeInside ==
  ASSUME TypeInv, NEW q \in Flips, bit \in 0..9, event, InFrame(q),
         dev_to_host_serve_falling_clk(data)
  PROVE  /\ Register(sent[Len(sent)], q, bit + 1, current_bit_no', incoming_data')
         /\ UNCHANGED <<queueVars, accepted, full>>
<1> DEFINE c == sent[Len(sent)]
<1>1. Register(c, q, bit, current_bit_no, incoming_data) /\ data = RxBit(c, q, bit)
  BY DEF InFrame, EdgesServed
<1>2. c \in Byte /\ incoming_data \in Byte
  <2>1. Len(sent) \in 1..Len(sent)
    BY DEF TypeInv, TypeOK, LineInv, Idle, FrameLen
  <2>2. QED
    BY <2>1, BytesSent DEF TypeInv, TypeOK
<1>3. CASE bit \in 0..8
  <2>1. /\ current_bit_no = bit
        /\ Register(c, q, bit + 1, current_bit_no + 1, ShiftIn(incoming_data, data))
    BY <1>1, <1>2, <1>3, RegisterShift
  <2>2. bit = 0 => data = 0
    BY <1>1, <1>2, FrameBits DEF RxBit, Flips, Idle, FrameLen
  <2>3. shift_in_bit(data)
    BY <1>3, <2>1, <2>2 DEF dev_to_host_serve_falling_clk, start_bit_check_failed,
       parity_bit, stop_bit
  <2>4. QED
    BY <2>1, <2>3 DEF shift_in_bit
<1>4. CASE bit = 9
  <2>1. /\ current_bit_no = 9
        /\ Register(c, q, 10, IF odd_parity_check(incoming_data) = data THEN 0 ELSE 10,
                    incoming_data)
    BY <1>1, <1>2, <1>4, RegisterParity
  <2>2. parity_bit(data)
    BY <2>1 DEF dev_to_host_serve_falling_clk, start_bit_check_failed, shift_in_bit, stop_bit
  <2>3. bit + 1 = 10
    BY <1>4
  <2>4. QED
    BY <2>1, <2>2, <2>3 DEF parity_bit
<1>5. QED
  BY <1>3, <1>4

\* The interrupt at the stop bit: an inverted frame is dropped, another one is
\* offered to the queue with the register that reverses to its code.
LEMMA ServeStop ==
  ASSUME TypeInv, NEW q \in Flips, bit = 10, event, InFrame(q),
         dev_to_host_serve_falling_clk(data)
  PROVE  /\ current_bit_no' = 0
         /\ \/ q # Idle /\ UNCHANGED <<queueVars, accepted, full>>
            \/ q = Idle /\ queue_incoming_data /\ reverse(incoming_data) = sent[Len(sent)]
         /\ \A j \in 0..7 : incoming_data'[j] = RxBit(sent[Len(sent)], q, 8 - j)
<1> DEFINE c == sent[Len(sent)]
<1>1. Register(c, q, 10, current_bit_no, incoming_data) /\ data = RxBit(c, q, 10)
  BY DEF InFrame, EdgesServed
<1>2. c \in Byte /\ incoming_data \in Byte
  <2>1. Len(sent) \in 1..Len(sent)
    BY DEF TypeInv, TypeOK, LineInv, Idle, FrameLen
  <2>2. QED
    BY <2>1, BytesSent DEF TypeInv, TypeOK
<1>3. \A j \in 0..7 : incoming_data[j] = RxBit(c, q, 8 - j)
  BY <1>1, RegisterData
<1>4. current_bit_no = IF q \in 1..9 THEN 0 ELSE 10
  BY <1>1 DEF Register
<1>5. data = IF q = 10 THEN 0 ELSE 1
  BY <1>1, <1>2, FrameBits DEF RxBit
<1>6. CASE q \in 1..9
  <2>1. start_bit_check_failed(data)
    BY <1>4, <1>5, <1>6 DEF dev_to_host_serve_falling_clk, shift_in_bit, parity_bit, stop_bit
  <2>2. QED
    BY <1>3, <1>6, <2>1 DEF start_bit_check_failed, Idle, FrameLen
<1>7. CASE q \in {10, Idle}
  <2>1. current_bit_no = 10
    BY <1>4, <1>7 DEF Idle, FrameLen
  <2>2. stop_bit(data)
    BY <2>1 DEF dev_to_host_serve_falling_clk, shift_in_bit, parity_bit, start_bit_check_failed
  <2>3. q = Idle => reverse(incoming_data) = c
    BY <1>1, <1>2, RegisterReverses DEF Idle, FrameLen
  <2>4. QED
    BY <1>3, <1>5, <1>7, <2>2, <2>3 DEF stop_bit, Idle, FrameLen
<1>8. QED
  BY <1>6, <1>7 DEF Flips

\* Offering a code to the queue keeps the history.
LEMMA QueueKeepsHistory ==
  ASSUME TypeInv, ReaderInv, HistoryInv, queue_incoming_data, UNCHANGED <<sent, got>>,
         NEW m \in Nat, Len(sent) = m + 1, Len(sent) \notin hit,
         reverse(incoming_data) = sent[Len(sent)],
         Log(accepted, full, hit, m)
  PROVE  /\ Store(sent', accepted', got', handover', rx_msg_que')
         /\ Log(accepted', full', hit, m + 1)
         /\ ReaderInv'
<1>1. /\ sent \in Seq(Byte) /\ accepted \in Seq(Nat) /\ got \in Seq(Byte)
      /\ handover \in Seq(Byte) /\ rx_msg_que \in Seq(Byte) /\ incoming_data \in Byte
      /\ Len(sent) \in 1..Len(sent)
  BY BytesSent DEF TypeInv, TypeOK
<1>2. CASE Queue!PutAccepted(incoming_data) /\ accepted' = Append(accepted, Len(sent)) /\ UNCHANGED full
  <2>1. /\ handover = <<>> /\ rx_msg_que = <<>> =>
             Store(sent, Append(accepted, Len(sent)), got, <<incoming_data>>, rx_msg_que)
        /\ Store(sent, Append(accepted, Len(sent)), got, handover,
                 Append(rx_msg_que, incoming_data))
    BY <1>1, StorePut DEF HistoryInv
  <2>2. Log(Append(accepted, m + 1), full, hit, m + 1)
    BY <1>1, LogAccepted
  <2>3. CASE reader = "pended"
    <3>1. /\ handover = <<>> /\ rx_msg_que = <<>> /\ reader' = "handed"
          /\ handover' = <<incoming_data>> /\ rx_msg_que' = rx_msg_que
      BY <1>2, <2>3 DEF Queue!PutAccepted, ReaderInv
    <3>2. Store(sent', accepted', got', handover', rx_msg_que')
      BY <1>2, <2>1, <3>1
    <3>3. QED
      BY <1>2, <2>2, <3>1, <3>2 DEF ReaderInv
  <2>4. CASE reader # "pended"
    <3>1. rx_msg_que' = Append(rx_msg_que, incoming_data) /\ UNCHANGED <<reader, handover>>
      BY <1>2, <2>4 DEF Queue!PutAccepted
    <3>2. Store(sent', accepted', got', handover', rx_msg_que')
      BY <1>2, <2>1, <3>1
    <3>3. QED
      BY <1>2, <2>2, <2>4, <3>1, <3>2 DEF ReaderInv
  <2>5. QED
    BY <2>3, <2>4
<1>3. CASE Queue!PutRefused /\ full' = full \cup {Len(sent)} /\ UNCHANGED accepted
  <2>1. Log(accepted, full \cup {m + 1}, hit, m + 1)
    BY <1>1, LogRefused
  <2>2. QED
    BY <1>3, <2>1 DEF Queue!PutRefused, Queue!queueVars, HistoryInv, ReaderInv
<1>4. QED
  BY <1>2, <1>3 DEF queue_incoming_data

LEMMA ExactServe ==
  ASSUME GoodLine, TypeInv, ExactInv, clk_fall_cb
  PROVE  ExactInv'
<1> DEFINE c == sent[Len(sent)]
<1>1. /\ event /\ ~event' /\ callback /\ clk = 0 /\ bit \in 0..10 /\ init_pc = "done"
      /\ dev_to_host_serve_falling_clk(data)
      /\ UNCHANGED <<init_pc, int_enabled, callback, lines, sent, hit, got>>
  BY DEF clk_fall_cb, TypeInv, TypeOK, LineInv, ExactInv, BootInv, Idle, FrameLen
<1>2. PICK q \in Flips : InFrame(q)
  BY <1>1 DEF ExactInv, FrameInv, Idle, FrameLen
<1>3. Len(sent) \in Nat /\ Len(sent) # 0
  BY <1>1 DEF TypeInv, TypeOK, LineInv, Idle, FrameLen
<1>4. EdgesServed' = bit + 1
  BY <1>1 DEF EdgesServed, lines
<1>5. BootInv'
  BY <1>1 DEF ExactInv, BootInv, clk_fall_cb
<1>6. FramesServed = Len(sent) - 1
  BY <1>1, <1>3 DEF FramesServed, Idle, FrameLen
<1>7. Log(accepted, full, hit, Len(sent) - 1)
  BY <1>1, <1>6 DEF ExactInv, HistoryInv
<1>8. ASSUME Register(c, q, bit + 1, current_bit_no', incoming_data')
      PROVE  FrameInv'
  <2>1. InFrame(q)'
    BY <1>1, <1>2, <1>4, <1>8 DEF InFrame, lines
  <2>2. QED
    BY <1>1, <2>1 DEF FrameInv, lines, Idle, FrameLen
<1>9. ASSUME ReaderInv', Store(sent', accepted', got', handover', rx_msg_que'),
             Log(accepted', full', hit, FramesServed'),
             Register(c, q, bit + 1, current_bit_no', incoming_data')
      PROVE  ExactInv'
  BY <1>1, <1>5, <1>8, <1>9 DEF ExactInv, HistoryInv
<1>10. CASE bit \in 0..9
  <2>1. /\ Register(c, q, bit + 1, current_bit_no', incoming_data')
        /\ UNCHANGED <<queueVars, accepted, full>>
    BY <1>1, <1>2, <1>10, ServeInside
  <2>2. FramesServed' = Len(sent) - 1
    BY <1>1, <1>10 DEF FramesServed, lines, Idle, FrameLen
  <2>3. ReaderInv' /\ Store(sent', accepted', got', handover', rx_msg_que')
    BY <1>1, <2>1 DEF ExactInv, ReaderInv, HistoryInv, queueVars
  <2>4. Log(accepted', full', hit, FramesServed')
    BY <1>7, <2>1, <2>2
  <2>5. QED
    BY <1>9, <2>1, <2>3, <2>4
<1>11. CASE bit = 10
  <2>1. /\ current_bit_no' = 0
        /\ \/ q # Idle /\ UNCHANGED <<queueVars, accepted, full>>
           \/ q = Idle /\ queue_incoming_data /\ reverse(incoming_data) = c
        /\ \A j \in 0..7 : incoming_data'[j] = RxBit(c, q, 8 - j)
    BY <1>1, <1>2, <1>11, ServeStop
  <2>2. Register(c, q, bit + 1, current_bit_no', incoming_data')
    BY <1>11, <2>1 DEF Register
  <2>3. FramesServed' = Len(sent) /\ Len(sent) = (Len(sent) - 1) + 1 /\ Len(sent) - 1 \in Nat
    BY <1>1, <1>3, <1>11 DEF FramesServed, lines, Idle, FrameLen
  <2>4. Len(sent) \in hit <=> q # Idle
    BY <1>2 DEF InFrame
  <2>5. CASE q # Idle
    <3>1. UNCHANGED <<queueVars, accepted, full>>
      BY <2>1, <2>5
    <3>2. Log(accepted, full, hit, Len(sent) - 1 + 1)
      BY <1>7, <2>3, <2>4, <2>5, LogDropped DEF TypeInv, TypeOK
    <3>3. Log(accepted', full', hit, FramesServed')
      BY <2>3, <3>1, <3>2
    <3>4. ReaderInv' /\ Store(sent', accepted', got', handover', rx_msg_que')
      BY <1>1, <3>1 DEF ExactInv, ReaderInv, HistoryInv, queueVars
    <3>5. QED
      BY <1>9, <2>2, <3>3, <3>4
  <2>6. CASE q = Idle
    <3>1. queue_incoming_data /\ reverse(incoming_data) = c
      BY <2>1, <2>6
    <3>2. /\ Store(sent', accepted', got', handover', rx_msg_que')
          /\ Log(accepted', full', hit, Len(sent) - 1 + 1)
          /\ ReaderInv'
      BY <1>1, <1>7, <2>3, <2>4, <2>6, <3>1, QueueKeepsHistory DEF ExactInv
    <3>3. QED
      BY <1>9, <2>2, <2>3, <3>2
  <2>7. QED
    BY <2>5, <2>6
<1>12. QED
  BY <1>1, <1>10, <1>11

\* The keyboard thread takes a code, or waits for one.
LEMMA ExactGet ==
  ASSUME TypeInv, ExactInv, ps2_connector_get_next_code
  PROVE  ExactInv'
<1>1. UNCHANGED <<firmware, init_pc, gpiote, lines, sent, accepted, full, hit>>
  BY DEF ps2_connector_get_next_code
<1>2. reader \in {"running", "handed"} /\ init_pc \in {"done", "failed"}
  BY DEF ps2_connector_get_next_code, Queue!Get, Queue!GetQueued, Queue!GetHanded,
     Queue!GetPends, ExactInv, BootInv
<1>3. BootInv'
  BY <1>1, <1>2 DEF ExactInv, BootInv, gpiote, lines
<1>4. EdgesServed' = EdgesServed /\ FramesServed' = FramesServed
  BY <1>1 DEF EdgesServed, FramesServed, lines, gpiote
<1>5. FrameInv'
  <2>1. \A q \in Flips : InFrame(q) => InFrame(q)'
    BY <1>1, <1>4 DEF InFrame, lines, firmware
  <2>2. QED
    BY <1>1, <2>1 DEF ExactInv, FrameInv, lines, gpiote, firmware
<1>6. ASSUME ReaderInv', Store(sent, accepted, got', handover', rx_msg_que')
      PROVE  ExactInv'
  BY <1>1, <1>3, <1>4, <1>5, <1>6 DEF ExactInv, HistoryInv, gpiote
<1>7. /\ handover = <<>> /\ rx_msg_que # <<>> =>
           Store(sent, accepted, Append(got, reverse(Head(rx_msg_que))), handover, Tail(rx_msg_que))
      /\ Len(handover) = 1 =>
           Store(sent, accepted, Append(got, reverse(handover[1])), <<>>, rx_msg_que)
  BY StoreGet, BytesSent DEF TypeInv, TypeOK, ExactInv, HistoryInv
<1>8. CASE Queue!GetQueued /\ got' = Append(got, reverse(Queue!GetResult))
  <2>1. /\ reader = "running" /\ handover = <<>> /\ rx_msg_que # <<>>
        /\ rx_msg_que' = Tail(rx_msg_que) /\ UNCHANGED <<reader, handover>>
    BY <1>8 DEF Queue!GetQueued, ExactInv, ReaderInv
  <2>2. got' = Append(got, reverse(Head(rx_msg_que)))
    BY <1>8, <2>1 DEF Queue!GetResult
  <2>3. Store(sent, accepted, got', handover', rx_msg_que')
    BY <1>7, <2>1, <2>2
  <2>4. ReaderInv'
    BY <2>1 DEF ReaderInv
  <2>5. QED
    BY <1>6, <2>3, <2>4
<1>9. CASE Queue!GetHanded /\ got' = Append(got, reverse(Queue!GetResult))
  <2>1. /\ reader = "handed" /\ Len(handover) = 1 /\ reader' = "running"
        /\ handover' = <<>> /\ UNCHANGED rx_msg_que
    BY <1>9 DEF Queue!GetHanded, TypeInv, QueueInv
  <2>2. got' = Append(got, reverse(handover[1]))
    BY <1>9, <2>1 DEF Queue!GetResult
  <2>3. Store(sent, accepted, got', handover', rx_msg_que')
    BY <1>7, <2>1, <2>2
  <2>4. ReaderInv'
    BY <2>1 DEF ReaderInv
  <2>5. QED
    BY <1>6, <2>3, <2>4
<1>10. CASE Queue!GetPends /\ UNCHANGED got
  <2>1. ReaderInv' /\ Store(sent, accepted, got', handover', rx_msg_que')
    BY <1>10 DEF Queue!GetPends, ExactInv, ReaderInv, HistoryInv
  <2>2. QED
    BY <1>6, <2>1
<1>11. QED
  BY <1>8, <1>9, <1>10 DEF ps2_connector_get_next_code, Queue!Get

LEMMA NextExact ==
  ASSUME GoodLine
  PROVE  TypeInv /\ ExactInv /\ [Next]_vars => ExactInv'
<1> SUFFICES ASSUME TypeInv, ExactInv, [Next]_vars PROVE ExactInv'
  OBVIOUS
<1>1. CASE UNCHANGED vars
  <2>1. EdgesServed' = EdgesServed /\ FramesServed' = FramesServed
    BY <1>1 DEF vars, EdgesServed, FramesServed, lines, gpiote, history
  <2>2. BootInv' /\ ReaderInv'
    BY <1>1 DEF ExactInv, BootInv, ReaderInv, vars, lines, gpiote, queueVars, history
  <2>3. \A q \in Flips : InFrame(q) => InFrame(q)'
    BY <1>1, <2>1 DEF InFrame, vars, lines, firmware, history
  <2>4. FrameInv'
    BY <1>1, <2>3 DEF ExactInv, FrameInv, vars, lines, firmware, gpiote
  <2>5. HistoryInv'
    BY <1>1, <2>1 DEF ExactInv, HistoryInv, vars, gpiote, queueVars, history
  <2>6. QED
    BY <2>2, <2>4, <2>5 DEF ExactInv
<1>2. QED
  BY <1>1, ExactBoot, ExactStart, ExactFall, ExactRise, ExactServe, ExactGet DEF Next, keyboard

-----------------------------------------------------------------------------
(***************************************************************************)
(* The invariant gives the two properties.                                 *)
(***************************************************************************)
\* z is x followed by y.
IsConcat(z, x, y) ==
  /\ Len(z) = Len(x) + Len(y)
  /\ \A i \in 1..Len(x) : z[i] = x[i]
  /\ \A i \in 1..Len(y) : z[Len(x) + i] = y[i]

LEMMA ConcatBytes ==
  ASSUME NEW x \in Seq(Byte), NEW y \in Seq(Byte)
  PROVE  x \o y \in Seq(Byte) /\ IsConcat(x \o y, x, y)
BY DEF IsConcat

\* t is what is in transit, u the same bytes reversed, d all that is delivered.
Delivery(s, a, g, h, r, t, u, d) ==
  /\ s \in Seq(Byte) /\ a \in Seq(Nat) /\ g \in Seq(Byte) /\ h \in Seq(Byte) /\ r \in Seq(Byte)
  /\ Store(s, a, g, h, r)
  /\ t \in Seq(Byte) /\ IsConcat(t, h, r)
  /\ u \in Seq(Byte) /\ Len(u) = Len(t) /\ \A i \in 1..Len(t) : u[i] = reverse(t[i])
  /\ d \in Seq(Byte) /\ IsConcat(d, g, u)

LEMMA StoreDelivers ==
  ASSUME NEW s, NEW a, NEW g, NEW h, NEW r, NEW t, NEW u, NEW d,
         Delivery(s, a, g, h, r, t, u, d)
  PROVE  Len(d) = Len(a) /\ \A i \in 1..Len(a) : d[i] = s[a[i]]
<1>1. /\ s \in Seq(Byte) /\ a \in Seq(Nat) /\ g \in Seq(Byte) /\ h \in Seq(Byte) /\ r \in Seq(Byte)
      /\ Store(s, a, g, h, r)
      /\ t \in Seq(Byte) /\ IsConcat(t, h, r)
      /\ u \in Seq(Byte) /\ Len(u) = Len(t) /\ \A i \in 1..Len(t) : u[i] = reverse(t[i])
      /\ d \in Seq(Byte) /\ IsConcat(d, g, u)
  BY DEF Delivery
<1>2. /\ Len(t) = Len(h) + Len(r)
      /\ \A i \in 1..Len(h) : t[i] = h[i]
      /\ \A i \in 1..Len(r) : t[Len(h) + i] = r[i]
  BY <1>1 DEF IsConcat
<1>3. /\ Len(d) = Len(g) + Len(u)
      /\ \A i \in 1..Len(g) : d[i] = g[i]
      /\ \A i \in 1..Len(u) : d[Len(g) + i] = u[i]
  BY <1>1 DEF IsConcat
<1>4. Len(a) = Len(g) + Len(h) + Len(r)
  BY <1>1 DEF Store
<1>5. Len(g) \in Nat /\ Len(h) \in Nat /\ Len(r) \in Nat
  BY <1>1
<1>6. Len(t) = Len(h) + Len(r)
  BY <1>2, Zenon
<1>7. Len(d) = Len(a)
  <2>1. Len(d) = Len(g) + Len(u) /\ Len(u) = Len(h) + Len(r)
    BY <1>1, <1>2, <1>3, Zenon
  <2>2. QED
    BY <1>4, <1>5, <2>1
<1>8. ASSUME NEW i \in 1..Len(a) PROVE d[i] = s[a[i]]
  <2>1. CASE i <= Len(g)
    <3>1. i \in 1..Len(g)
      BY <1>5, <2>1
    <3>2. g[i] = s[a[i]]
      BY <1>1, <3>1, Zenon DEF Store
    <3>3. QED
      BY <1>3, <3>1, <3>2, Zenon
  <2>2. CASE i > Len(g) /\ i <= Len(g) + Len(h)
    <3>1. PICK j \in 1..Len(h) : i = Len(g) + j
      <4>1. i - Len(g) \in 1..Len(h) /\ i = Len(g) + (i - Len(g))
        BY <1>5, <2>2
      <4>2. QED
        BY <4>1, Zenon
    <3>2. d[i] = u[j] /\ j \in 1..Len(t) /\ t[j] = h[j]
      <4>1. j \in 1..Len(t)
        BY <1>5, <1>6
      <4>2. QED
        BY <1>1, <1>2, <1>3, <3>1, <4>1, Zenon
    <3>3. reverse(h[j]) = s[a[Len(g) + j]]
      BY <1>1, Zenon DEF Store
    <3>4. QED
      BY <1>1, <3>1, <3>2, <3>3, Zenon
  <2>3. CASE i > Len(g) + Len(h)
    <3>1. PICK j \in 1..Len(r) : i = Len(g) + Len(h) + j
      <4>1. i - Len(g) - Len(h) \in 1..Len(r) /\ i = Len(g) + Len(h) + (i - Len(g) - Len(h))
        BY <1>4, <1>5, <2>3
      <4>2. QED
        BY <4>1, Zenon
    <3>2. d[i] = u[Len(h) + j] /\ Len(h) + j \in 1..Len(t) /\ t[Len(h) + j] = r[j]
      <4>1. Len(h) + j \in 1..Len(t) /\ i = Len(g) + (Len(h) + j)
        BY <1>5, <1>6, <3>1
      <4>2. QED
        BY <1>1, <1>2, <1>3, <4>1, Zenon
    <3>3. reverse(r[j]) = s[a[Len(g) + Len(h) + j]]
      BY <1>1, Zenon DEF Store
    <3>4. QED
      BY <1>1, <3>1, <3>2, <3>3, Zenon
  <2>4. i <= Len(g) \/ (i > Len(g) /\ i <= Len(g) + Len(h)) \/ i > Len(g) + Len(h)
    BY <1>5
  <2>5. QED
    BY <1>1, <2>1, <2>2, <2>3, <2>4, Zenon
<1>9. QED
  BY <1>1, <1>7, <1>8

LEMMA ExactDelivers == TypeInv /\ ExactInv => DeliversWhatWasSent
<1> SUFFICES ASSUME TypeInv, ExactInv PROVE DeliversWhatWasSent
  OBVIOUS
<1>1. Len(Delivered) = Len(accepted) /\ \A i \in 1..Len(accepted) : Delivered[i] = sent[accepted[i]]
  <2>1. /\ sent \in Seq(Byte) /\ accepted \in Seq(Nat) /\ got \in Seq(Byte)
        /\ handover \in Seq(Byte) /\ rx_msg_que \in Seq(Byte)
        /\ Store(sent, accepted, got, handover, rx_msg_que)
    BY BytesSent DEF TypeInv, TypeOK, ExactInv, HistoryInv
  <2> DEFINE t == Queue!InTransit
             u == [i \in 1..Len(t) |-> reverse(t[i])]
  <2>2. t \in Seq(Byte) /\ IsConcat(t, handover, rx_msg_que)
    BY <2>1, ConcatBytes DEF Queue!InTransit
  <2>3. u \in Seq(Byte) /\ Len(u) = Len(t) /\ \A i \in 1..Len(t) : u[i] = reverse(t[i])
    <3> HIDE DEF t
    <3>1. \A i \in 1..Len(t) : reverse(t[i]) \in Byte
      BY <2>2, ReverseType
    <3>2. QED
      BY <2>2, <3>1
  <2>4. Delivered = got \o u
    BY DEF Delivered
  <2> HIDE DEF t, u
  <2>5. Delivered \in Seq(Byte) /\ IsConcat(Delivered, got, u)
    BY <2>1, <2>3, <2>4, ConcatBytes, Zenon
  <2>6. Delivery(sent, accepted, got, handover, rx_msg_que, t, u, Delivered)
    BY <2>1, <2>2, <2>3, <2>5 DEF Delivery
  <2>7. QED
    BY <2>6, StoreDelivers
<1>2. \A i \in 1..Len(accepted) : accepted[i] \in 1..Len(sent)
  BY DEF ExactInv, HistoryInv, Store
<1>3. \A i \in 1..Len(accepted) : i > 1 => accepted[i - 1] < accepted[i]
  <2>1. CASE callback
    BY <2>1 DEF ExactInv, HistoryInv, Log
  <2>2. CASE ~callback
    <3>1. Len(accepted) = 0
      BY <2>2 DEF ExactInv, BootInv
    <3>2. QED
      BY <3>1
  <2>3. QED
    BY <2>1, <2>2
<1>4. QED
  BY <1>1, <1>2, <1>3 DEF DeliversWhatWasSent

LEMMA ExactExplains == TypeInv /\ ExactInv => LossIsExplained
<1> SUFFICES ASSUME TypeInv, ExactInv, init_pc = "done" PROVE LossIsExplained
  BY DEF LossIsExplained
<1>1. Log(accepted, full, hit, FramesServed)
  BY DEF ExactInv, BootInv, HistoryInv
<1>2. Served = 1..FramesServed
  BY DEF Served, FramesServed
<1>3. \A x : IsAccepted(accepted, x) <=> ~(\A i \in 1..Len(accepted) : accepted[i] # x)
  BY DEF IsAccepted
<1>4. QED
  BY <1>1, <1>2, <1>3 DEF Log, LossIsExplained

\* On a good line the keyboard thread gets, in order and byte for byte, the
\* codes of the frames that dev_to_host_serve_falling_clk accepted.
THEOREM ConnectorDeliversWhatWasSent ==
  ASSUME GoodLine PROVE Spec => []DeliversWhatWasSent
<1>1. Init => TypeInv
  BY InitType DEF TypeInv
<1>2. TypeInv /\ [Next]_vars => TypeInv'
  BY NextType DEF TypeInv
<1>3. TypeInv /\ ExactInv /\ [Next]_vars => ExactInv'
  BY NextExact
<1>4. QED
  BY <1>1, <1>2, <1>3, InitExact, ExactDelivers, PTL DEF Spec

\* On a good line a frame is lost only to noise or to a full queue, and a
\* frame that noise hit is never taken for a code.
THEOREM ConnectorLossIsExplained ==
  ASSUME GoodLine PROVE Spec => []LossIsExplained
<1>1. Init => TypeInv
  BY InitType DEF TypeInv
<1>2. TypeInv /\ [Next]_vars => TypeInv'
  BY NextType DEF TypeInv
<1>3. TypeInv /\ ExactInv /\ [Next]_vars => ExactInv'
  BY NextExact
<1>4. QED
  BY <1>1, <1>2, <1>3, InitExact, ExactExplains, PTL DEF Spec
=============================================================================
