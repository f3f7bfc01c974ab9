------------------------- MODULE RecvFramingProofs --------------------------
(***************************************************************************)
(* Proofs about RecvFraming, for every buffer size and every read_packet.  *)
(***************************************************************************)
EXTENDS RecvFraming, SequenceTheorems, TLAPS

Bytes == 0..MaxStream

\* In the loop there is a packet length to act on and a byte left to act on.
LoopInv ==
  /\ pc = "loop" => pkgLen > 0 /\ readPos < recvBufPos
  /\ pc # "loop" => readPos = 0

FramingInv == TypeOK /\ LoopInv /\ StreamPreserved

USE FramingAssumption

\* The cells that read_packet and on_recv are given are a sequence of bytes.
LEMMA CellsSeq ==
  ASSUME NEW buf \in [0..RecvBufSize-1 -> Bytes], NEW pos \in Nat, NEW n \in Nat,
         pos + n <= RecvBufSize
  PROVE  /\ Cells(buf, pos, n) \in [1..n -> Bytes]
         /\ Cells(buf, pos, n) \in Seq(Bytes)
         /\ Len(Cells(buf, pos, n)) = n
         /\ \A i \in 1..n : Cells(buf, pos, n)[i] = buf[pos + i - 1]
<1>1. \A i \in 1..n : pos + i - 1 \in 0..RecvBufSize-1
  OBVIOUS
<1>2. Cells(buf, pos, n) \in [1..n -> Bytes]
  BY <1>1, Zenon DEF Cells
<1> QED
  BY <1>2 DEF Cells

LEMMA ReadPacketInt ==
  ASSUME NEW buf \in [0..RecvBufSize-1 -> Bytes], NEW pos \in Nat, NEW n \in Nat \ {0},
         pos + n <= RecvBufSize
  PROVE  ReadPacket(Cells(buf, pos, n)) \in Int
<1>1. n \in 1..RecvBufSize
  OBVIOUS
<1>2. Cells(buf, pos, n) \in [1..n -> Bytes]
  BY CellsSeq, Zenon
<1> QED
  BY <1>1, <1>2, Zenon DEF Bytes

LEMMA FramingInit == Init => FramingInv
  BY DEF Init, FramingInv, TypeOK, LoopInv, StreamPreserved

\* What a delivery does: the packet's bytes follow those delivered before.
LEMMA DeliverStep ==
  ASSUME TypeOK, StreamPreserved, pc = "loop", pkgLen > 0, Complete, Deliver
  PROVE  /\ delivered' \in Seq(Bytes) /\ cuts' \subseteq Nat
         /\ Len(delivered') = Len(delivered) + pkgLen
         /\ \A i \in 1..Len(delivered') : delivered'[i] = i
<1>1. pkgLen \in Nat /\ readPos \in Nat /\ readPos + pkgLen <= RecvBufSize
  BY DEF TypeOK, Complete
<1>2. delivered \in Seq(Bytes) /\ Len(delivered) \in Nat
  BY DEF TypeOK, Bytes
<1> DEFINE c == Cells(recvBuf, readPos, pkgLen)
<1>3. /\ c \in Seq(Bytes) /\ Len(c) = pkgLen
      /\ \A i \in 1..pkgLen : c[i] = recvBuf[readPos + i - 1]
  <2>1. recvBuf \in [0..RecvBufSize-1 -> Bytes]
    BY Zenon DEF TypeOK, Bytes
  <2> QED
    BY <1>1, <2>1, CellsSeq, Zenon
<1>4. delivered' = delivered \o c /\ cuts' = cuts \cup {Len(delivered')}
  BY Zenon DEF Deliver
<1>5. /\ delivered' \in Seq(Bytes)
      /\ Len(delivered') = Len(delivered) + pkgLen
      /\ \A i \in 1..Len(delivered') :
           delivered'[i] = IF i <= Len(delivered) THEN delivered[i] ELSE c[i - Len(delivered)]
  <2> HIDE DEF c
  <2>1. /\ delivered \o c \in Seq(Bytes)
        /\ Len(delivered \o c) = Len(delivered) + Len(c)
        /\ \A i \in 1..Len(delivered) + Len(c) :
             (delivered \o c)[i] = IF i <= Len(delivered) THEN delivered[i]
                                                         ELSE c[i - Len(delivered)]
    BY <1>2, <1>3, ConcatProperties, Zenon
  <2> QED
    BY <1>3, <1>4, <2>1, Zenon
<1>6. \A i \in 1..pkgLen : c[i] = Len(delivered) + i
  <2> SUFFICES ASSUME NEW i \in 1..pkgLen PROVE c[i] = Len(delivered) + i
    BY Zenon
  <2>1. /\ readPos + i - 1 \in 0..RecvBufSize-1
        /\ readPos <= readPos + i - 1 /\ readPos + i - 1 < recvBufPos
    BY <1>1 DEF TypeOK, Complete
  <2>2. recvBuf[readPos + i - 1] = Len(delivered) + 1 + (readPos + i - 1) - readPos
    BY <2>1, Zenon DEF StreamPreserved
  <2> QED
    BY <1>1, <1>2, <1>3, <2>2
<1>7. \A i \in 1..Len(delivered') : delivered'[i] = i
  <2> SUFFICES ASSUME NEW i \in 1..Len(delivered') PROVE delivered'[i] = i
    BY Zenon
  <2>1. CASE i <= Len(delivered)
    BY <1>2, <1>5, <2>1 DEF StreamPreserved
  <2>2. CASE ~(i <= Len(delivered))
    <3>1. i - Len(delivered) \in 1..pkgLen
      BY <1>1, <1>2, <1>5, <2>2
    <3> HIDE DEF c
    <3> QED
      BY <1>2, <1>5, <1>6, <2>2, <3>1
  <2> QED
    BY <2>1, <2>2, Zenon
<1>8. cuts' \subseteq Nat
  <2>1. Len(delivered') \in Nat /\ cuts \subseteq Nat
    BY <1>1, <1>2, <1>5 DEF TypeOK
  <2> QED
    BY <1>4, <2>1, Zenon
<1> QED
  BY <1>5, <1>7, <1>8, Zenon

\* A pass of the loop always delivers or leaves the packets alone.
LEMMA LoopFacts ==
  ASSUME FramingInv, pc = "loop", Deliver
  PROVE  /\ NextPos \in Nat /\ readPos <= NextPos /\ NextPos <= recvBufPos
         /\ delivered' \in Seq(Bytes) /\ cuts' \subseteq Nat
         /\ Len(delivered') \in Nat
         /\ Len(delivered') = Len(delivered) + NextPos - readPos
         /\ \A i \in 1..Len(delivered') : delivered'[i] = i
<1>0. TypeOK /\ LoopInv /\ StreamPreserved
  BY Zenon DEF FramingInv
<1>1. pkgLen > 0 /\ readPos < recvBufPos /\ Len(delivered) \in Nat
  BY <1>0 DEF LoopInv, TypeOK
<1>2. CASE Complete
  <2>1. /\ delivered' \in Seq(Bytes) /\ cuts' \subseteq Nat
        /\ Len(delivered') = Len(delivered) + pkgLen
        /\ \A i \in 1..Len(delivered') : delivered'[i] = i
    BY <1>0, <1>1, <1>2, DeliverStep, Zenon
  <2>2. NextPos = readPos + pkgLen /\ NextPos <= recvBufPos
    BY <1>2, Zenon DEF NextPos, Complete
  <2> QED
    BY <1>0, <1>1, <2>1, <2>2 DEF TypeOK
<1>3. CASE ~Complete
  <2>1. delivered' = delivered /\ cuts' = cuts /\ NextPos = readPos
    BY <1>3, Zenon DEF Deliver, history, NextPos
  <2> QED
    BY <1>0, <1>1, <2>1 DEF TypeOK, Bytes, StreamPreserved
<1> QED
  BY <1>2, <1>3, Zenon

\* Every step of the peer and of the processor preserves FramingInv.
LEMMA FramingStep == FramingInv /\ [Next]_vars => FramingInv'
<1> SUFFICES ASSUME FramingInv, [Next]_vars PROVE FramingInv'
  BY Zenon
<1>0. TypeOK /\ LoopInv /\ StreamPreserved
  BY Zenon DEF FramingInv
<1>t. Len(delivered) \in Nat
  BY <1>0 DEF TypeOK
<1>s. /\ recvBufPos \in Int /\ readPos \in Int /\ received \in Int
      /\ Len(delivered) + recvBufPos - readPos = received
  BY <1>0 DEF TypeOK, StreamPreserved
<1> USE DEF recvVars, history
<1>1. CASE PeerSends
  BY <1>0, <1>1 DEF FramingInv, TypeOK, LoopInv, StreamPreserved, PeerSends
<1>2. CASE PeerEnds
  BY <1>0, <1>2, Zenon DEF FramingInv, TypeOK, LoopInv, StreamPreserved, PeerEnds
<1>3. ASSUME NEW n \in 1..RecvBufSize, RecvData(n) PROVE FramingInv'
  <2>1. readPos = 0 /\ n \in Nat /\ n > 0 /\ n <= wire - received
        /\ recvBufPos + n <= RecvBufSize
    BY <1>0, <1>3 DEF TypeOK, LoopInv, RecvData, recv_size
  <2>2. recvBuf' \in [0..RecvBufSize-1 -> Bytes]
    <3>1. \A i \in 0..RecvBufSize-1 :
            recvBufPos <= i /\ i < recvBufPos + n
              => received + 1 + i - recvBufPos \in Bytes
      BY <1>0, <2>1 DEF TypeOK, Bytes
    <3> QED
      BY <1>0, <1>3, <3>1, Zenon DEF TypeOK, Bytes, RecvData, Filled
  <2>3. recvBufPos' \in Nat \ {0} /\ recvBufPos' = recvBufPos + n
    BY <1>0, <1>3, <2>1 DEF TypeOK, RecvData
  <2>4. pkgLen' \in Int
    BY <1>3, <2>1, <2>2, <2>3, ReadPacketInt DEF RecvData
  <2>5. TypeOK'
    BY <1>0, <1>3, <2>1, <2>2, <2>3, <2>4 DEF TypeOK, Bytes, RecvData
  <2>6. LoopInv'
    BY <1>3, <2>3 DEF LoopInv, RecvData
  <2>7. ASSUME NEW i \in 0..RecvBufSize-1, i < recvBufPos'
        PROVE  recvBuf'[i] = Len(delivered) + 1 + i
    <3>1. received = Len(delivered) + recvBufPos
      BY <1>0, <1>t, <2>1 DEF TypeOK, StreamPreserved
    <3>2. CASE recvBufPos <= i
      <4>1. recvBuf'[i] = received + 1 + i - recvBufPos
        BY <1>0, <1>3, <2>3, <2>7, <3>2, Zenon DEF TypeOK, RecvData, Filled
      <4> QED
        BY <1>0, <1>t, <3>1, <4>1 DEF TypeOK
    <3>3. CASE ~(recvBufPos <= i)
      <4>1. recvBuf'[i] = recvBuf[i]
        BY <1>3, <3>3, Zenon DEF RecvData, Filled
      <4> QED
        BY <1>0, <1>t, <2>1, <3>3, <4>1 DEF TypeOK, StreamPreserved
    <3> QED
      BY <3>2, <3>3, Zenon
  <2>8. StreamPreserved'
    <3>1. delivered' = delivered /\ readPos' = 0 /\ received' = received + n
      BY <1>3, Zenon DEF RecvData
    <3>2. Len(delivered') + recvBufPos' - readPos' = received'
      BY <1>s, <1>t, <2>1, <2>3, <3>1
    <3>3. ASSUME NEW i \in 0..RecvBufSize-1, i < recvBufPos'
          PROVE  recvBuf'[i] = Len(delivered') + 1 + i - readPos'
      BY <1>t, <2>7, <3>1, <3>3
    <3> QED
      BY <1>0, <3>1, <3>2, <3>3, Zenon DEF StreamPreserved
  <2> QED
    BY <2>5, <2>6, <2>8, Zenon DEF FramingInv
<1>4. CASE RecvEnds
  BY <1>0, <1>4, Zenon DEF FramingInv, TypeOK, LoopInv, StreamPreserved, RecvEnds
<1>5. CASE CloseSession
  BY <1>0, <1>5, Zenon DEF FramingInv, TypeOK, LoopInv, StreamPreserved, CloseSession
<1>6. CASE LoopDrained
  <2>1. pc = "loop" /\ Deliver /\ NextPos >= recvBufPos
    BY <1>6, Zenon DEF LoopDrained
  <2>a. /\ NextPos \in Nat /\ NextPos <= recvBufPos /\ Len(delivered') \in Nat
        /\ delivered' \in Seq(Bytes) /\ cuts' \subseteq Nat
        /\ Len(delivered') = Len(delivered) + NextPos - readPos
        /\ \A i \in 1..Len(delivered') : delivered'[i] = i
    BY <2>1, LoopFacts, Zenon
  <2>b. NextPos = recvBufPos
    BY <1>0, <2>1, <2>a DEF TypeOK
  <2>2. /\ Len(delivered') \in Nat
        /\ delivered' \in Seq(Bytes) /\ cuts' \subseteq Nat
        /\ Len(delivered') = Len(delivered) + recvBufPos - readPos
        /\ \A i \in 1..Len(delivered') : delivered'[i] = i
    BY <2>a, <2>b, Zenon
  <2>3. TypeOK' /\ LoopInv'
    BY <1>0, <1>6, <2>2, SMTT(30) DEF TypeOK, LoopInv, LoopDrained, Bytes
  <2>4. StreamPreserved'
    BY <1>0, <1>t, <1>6, <2>2 DEF TypeOK, StreamPreserved, LoopDrained
  <2> QED
    BY <2>3, <2>4, Zenon DEF FramingInv
<1>7. CASE LoopContinues
  <2>1. pc = "loop" /\ Deliver /\ NextPos < recvBufPos
    BY <1>7, Zenon DEF LoopContinues
  <2>2. /\ NextPos \in Nat /\ readPos <= NextPos /\ Len(delivered') \in Nat
        /\ delivered' \in Seq(Bytes) /\ cuts' \subseteq Nat
        /\ Len(delivered') = Len(delivered) + NextPos - readPos
        /\ \A i \in 1..Len(delivered') : delivered'[i] = i
    BY <2>1, LoopFacts, Zenon
  <2>3. Rest \in Int
    <3>1. recvBufPos - NextPos \in Nat \ {0} /\ NextPos + (recvBufPos - NextPos) <= RecvBufSize
      BY <1>0, <2>1, <2>2 DEF TypeOK
    <3> QED
      BY <1>0, <2>2, <3>1, ReadPacketInt, Zenon DEF TypeOK, Bytes, Rest
  <2>4. TypeOK' /\ LoopInv'
    BY <1>0, <1>7, <2>1, <2>2, <2>3 DEF TypeOK, LoopInv, LoopContinues, Bytes
  <2>5. StreamPreserved'
    <3>1. /\ recvBuf' = recvBuf /\ recvBufPos' = recvBufPos
          /\ readPos' = NextPos /\ received' = received
      BY <1>7, Zenon DEF LoopContinues
    <3>a. /\ NextPos \in Int /\ Len(delivered) \in Int
          /\ Len(delivered') = Len(delivered) + NextPos - readPos
      BY <1>t, <2>2
    <3>2. Len(delivered') + recvBufPos' - readPos' = received'
      <4>1. (Len(delivered) + NextPos - readPos) + recvBufPos - NextPos
              = Len(delivered) + recvBufPos - readPos
        BY <1>s, <3>a
      <4> QED
        BY <1>s, <3>1, <3>a, <4>1, Zenon
    <3>3. ASSUME NEW i \in 0..RecvBufSize-1, NextPos <= i, i < recvBufPos
          PROVE  recvBuf[i] = Len(delivered') + 1 + i - NextPos
      <4>1. recvBuf[i] = Len(delivered) + 1 + i - readPos
        BY <1>0, <2>2, <3>3 DEF TypeOK, StreamPreserved
      <4> QED
        BY <1>0, <1>t, <2>2, <4>1 DEF TypeOK
    <3> QED
      BY <2>2, <3>1, <3>2, <3>3, Zenon DEF StreamPreserved
  <2> QED
    BY <2>4, <2>5, Zenon DEF FramingInv
<1>8. CASE LoopShifts
  <2>1. pc = "loop" /\ Deliver /\ NextPos < recvBufPos
    BY <1>8, Zenon DEF LoopShifts
  <2>2. /\ NextPos \in Nat /\ readPos <= NextPos /\ Len(delivered') \in Nat
        /\ delivered' \in Seq(Bytes) /\ cuts' \subseteq Nat
        /\ Len(delivered') = Len(delivered) + NextPos - readPos
        /\ \A i \in 1..Len(delivered') : delivered'[i] = i
    BY <2>1, LoopFacts, Zenon
  <2>3. Rest \in Int
    <3>1. recvBufPos - NextPos \in Nat \ {0} /\ NextPos + (recvBufPos - NextPos) <= RecvBufSize
      BY <1>0, <2>1, <2>2 DEF TypeOK
    <3> QED
      BY <1>0, <2>2, <3>1, ReadPacketInt, Zenon DEF TypeOK, Bytes, Rest
  <2>4. recvBuf' \in [0..RecvBufSize-1 -> Bytes]
    <3>1. \A i \in 0..RecvBufSize-1 : i < recvBufPos - NextPos
            => i + NextPos \in 0..RecvBufSize-1
      BY <1>0, <2>1, <2>2 DEF TypeOK
    <3>2. recvBuf' = Shifted
      BY <1>8, Zenon DEF LoopShifts
    <3>3. 0 \in Bytes /\ \A j \in 0..RecvBufSize-1 : recvBuf[j] \in Bytes
      BY <1>0 DEF TypeOK, Bytes
    <3> QED
      BY <3>1, <3>2, <3>3, Zenon DEF Shifted
  <2>5. recvBufPos' = recvBufPos - NextPos /\ readPos' = 0
    BY <1>8, Zenon DEF LoopShifts
  <2>6. TypeOK' /\ LoopInv'
    BY <1>0, <1>8, <2>1, <2>2, <2>3, <2>4 DEF TypeOK, LoopInv, LoopShifts, Bytes
  <2>7. ASSUME NEW i \in 0..RecvBufSize-1, i < recvBufPos'
        PROVE  recvBuf'[i] = Len(delivered') + 1 + i
    <3>1. /\ i + NextPos \in 0..RecvBufSize-1
          /\ readPos <= i + NextPos /\ i + NextPos < recvBufPos
      BY <1>0, <2>1, <2>2, <2>5, <2>7 DEF TypeOK
    <3>2. recvBuf'[i] = recvBuf[i + NextPos]
      BY <1>8, <2>5, <2>7, Zenon DEF LoopShifts, Shifted
    <3>3. recvBuf[i + NextPos] = Len(delivered) + 1 + (i + NextPos) - readPos
      BY <1>0, <3>1, Zenon DEF StreamPreserved
    <3> QED
      BY <1>0, <1>t, <2>2, <3>2, <3>3 DEF TypeOK
  <2>8. StreamPreserved'
    <3>1. received' = received
      BY <1>8, Zenon DEF LoopShifts
    <3>a. /\ NextPos \in Int /\ Len(delivered) \in Int
          /\ Len(delivered') = Len(delivered) + NextPos - readPos
      BY <1>t, <2>2
    <3>2. Len(delivered') + recvBufPos' - readPos' = received'
      <4>1. (Len(delivered) + NextPos - readPos) + (recvBufPos - NextPos) - 0
              = Len(delivered) + recvBufPos - readPos
        BY <1>s, <3>a
      <4> QED
        BY <1>s, <2>5, <3>1, <3>a, <4>1, Zenon
    <3>3. ASSUME NEW i \in 0..RecvBufSize-1, i < recvBufPos'
          PROVE  recvBuf'[i] = Len(delivered') + 1 + i - readPos'
      BY <2>2, <2>5, <2>7, <3>3
    <3> QED
      BY <2>2, <3>2, <3>3, Zenon DEF StreamPreserved
  <2> QED
    BY <2>6, <2>8, Zenon DEF FramingInv
<1>9. CASE UNCHANGED vars
  BY <1>0, <1>9, Zenon DEF FramingInv, TypeOK, LoopInv, StreamPreserved, vars
<1> QED
  BY <1>1, <1>2, <1>3, <1>4, <1>5, <1>6, <1>7, <1>8, <1>9, Zenon DEF Next, Loop, Recv

LEMMA FramingAlways == Spec => []FramingInv
  BY FramingInit, FramingStep, PTL DEF Spec

\* recvBufPos and readPos stay inside recvBuf for every read_packet, whatever
\* lengths it returns.
THEOREM FramingTypes == Spec => []TypeOK
  BY FramingAlways, PTL DEF FramingInv

\* For every receive buffer, every segmentation of the stream by recv and every
\* read_packet, on_recv gets the peer's bytes in order without loss or repetition.
THEOREM StreamIsPreserved == Spec => []StreamPreserved
  BY FramingAlways, PTL DEF FramingInv

-----------------------------------------------------------------------------
(***************************************************************************)
(* The terminating 0.  A read_packet that waits for complete packets makes *)
(* every pass of the loop deliver, so the bytes that remain do not fill    *)
(* recvBuf.                                                                *)
(***************************************************************************)
ZeroInRange ==
  pc = "loop" /\ NextPos < recvBufPos /\ Rest <= 0
    => recvBufPos - NextPos < RecvBufSize

Announced == pc = "loop" => pkgLen <= recvBufPos - readPos

LEMMA WaitingPacket ==
  ASSUME ReadPacketWaits,
         NEW buf \in [0..RecvBufSize-1 -> Bytes], NEW pos \in Nat, NEW n \in Nat \ {0},
         pos + n <= RecvBufSize
  PROVE  ReadPacket(Cells(buf, pos, n)) <= n
<1>1. n \in 1..RecvBufSize
  OBVIOUS
<1>2. Cells(buf, pos, n) \in [1..n -> Bytes]
  BY CellsSeq, Zenon
<1> QED
  BY <1>1, <1>2, Zenon DEF Bytes, ReadPacketWaits

LEMMA AnnouncedStep ==
  ASSUME ReadPacketWaits, FramingInv, FramingInv', Announced, [Next]_vars
  PROVE  Announced'
<1>0. TypeOK /\ LoopInv /\ TypeOK' /\ LoopInv'
  BY Zenon DEF FramingInv
<1> USE DEF recvVars, history
<1>1. ASSUME NEW n \in 1..RecvBufSize, RecvData(n) PROVE Announced'
  <2>1. recvBuf' \in [0..RecvBufSize-1 -> Bytes] /\ recvBufPos' \in 0..RecvBufSize
    BY <1>0, Zenon DEF TypeOK, Bytes
  <2>2. recvBufPos' \in Nat \ {0} /\ 0 + recvBufPos' <= RecvBufSize
    BY <1>0, <1>1, <2>1 DEF RecvData, TypeOK
  <2>3. ReadPacket(Cells(recvBuf', 0, recvBufPos')) <= recvBufPos'
    BY <2>1, <2>2, WaitingPacket, Zenon
  <2>4. pkgLen' <= recvBufPos' /\ readPos' = 0
    BY <1>1, <2>3, Zenon DEF RecvData
  <2> QED
    BY <2>1, <2>4 DEF Announced
<1>2. CASE LoopContinues
  <2>1. NextPos \in Nat /\ NextPos < recvBufPos
    BY <1>0, <1>2, LoopFacts, Zenon DEF LoopContinues
  <2>2. recvBufPos - NextPos \in Nat \ {0} /\ NextPos + (recvBufPos - NextPos) <= RecvBufSize
    BY <1>0, <2>1 DEF TypeOK
  <2>3. recvBuf \in [0..RecvBufSize-1 -> Bytes]
    BY <1>0, Zenon DEF TypeOK, Bytes
  <2>4. Rest <= recvBufPos - NextPos
    BY <2>1, <2>2, <2>3, WaitingPacket, Zenon DEF Rest
  <2> QED
    BY <1>2, <2>4, Zenon DEF Announced, LoopContinues
<1>3. CASE pc' # "loop"
  BY <1>3, Zenon DEF Announced
<1>4. CASE UNCHANGED <<pc, pkgLen, recvBufPos, readPos>>
  BY <1>4, Zenon DEF Announced
<1> QED
  BY Zenon, <1>1, <1>2, <1>3, <1>4 DEF Next, Loop, Recv, PeerSends, PeerEnds, RecvEnds,
     CloseSession, LoopDrained, LoopShifts, vars

\* With a read_packet that never announces more than it was given, the 0 that
\* the loop writes at recvBuf[recvBufPos] is inside recvBuf.
THEOREM ZeroStaysInside == ASSUME ReadPacketWaits PROVE Spec => []ZeroInRange
<1>1. Init => Announced
  BY Zenon DEF Init, Announced
<1>2. FramingInv /\ FramingInv' /\ Announced /\ [Next]_vars => Announced'
  BY AnnouncedStep, Zenon
<1>3. FramingInv /\ Announced => ZeroInRange
  <2> SUFFICES ASSUME TypeOK, LoopInv, Announced, pc = "loop"
               PROVE  recvBufPos - NextPos < RecvBufSize
    BY Zenon DEF FramingInv, ZeroInRange
  <2>1. pkgLen > 0 /\ Complete
    BY DEF TypeOK, LoopInv, Announced, Complete
  <2> QED
    BY <2>1 DEF TypeOK, NextPos
<1> QED
  BY <1>1, <1>2, <1>3, FramingAlways, PTL DEF Spec

-----------------------------------------------------------------------------
(***************************************************************************)
(* Packets.  With a read_packet for the peer's protocol the buffer always  *)
(* starts at the end of a packet, the loop is entered with the length of   *)
(* the packet that follows, and left before the buffer is full.            *)
(***************************************************************************)
\* len is the distance from position e to the next end of a packet.
NextFrame(e, len) ==
  /\ len \in Nat /\ e + len \in FrameEnds
  /\ \A k \in 1..len : e + k \in FrameEnds => k = len

FramesInv ==
  /\ FrameEnds \subseteq Nat
  /\ Len(delivered) \in FrameEnds
  /\ PacketsAreFrames
  /\ pc = "loop" => pkgLen <= recvBufPos - readPos /\ NextFrame(Len(delivered), pkgLen)
  /\ pc = "wait" => recvBufPos < RecvBufSize
  /\ ClosedByPeer

\* What read_packet returns for n bytes of the stream after the end e of a packet.
LEMMA PacketAt ==
  ASSUME ReadPacketFrames, NEW e \in FrameEnds, NEW n \in 1..RecvBufSize,
         e + n <= MaxStream, NEW s, s = [i \in 1..n |-> e + i]
  PROVE  /\ ReadPacket(s) > 0 => ReadPacket(s) <= n /\ NextFrame(e, ReadPacket(s))
         /\ ReadPacket(s) <= 0 => n < RecvBufSize
<1> DEFINE ends == {k \in 1..n : e + k \in FrameEnds}
<1>1. IF ends = {} THEN ReadPacket(s) <= 0 /\ n < RecvBufSize
                   ELSE ReadPacket(s) \in ends /\ \A k \in ends : ReadPacket(s) <= k
  BY Zenon DEF ReadPacketFrames
<1>2. CASE ends = {}
  <2>1. e \in Nat /\ s \in [1..n -> 0..MaxStream]
    BY DEF ReadPacketFrames
  <2>2. ReadPacket(s) \in Int
    BY <2>1, Zenon
  <2> QED
    BY <1>1, <1>2, <2>2
<1>3. CASE ends # {}
  <2>1. /\ ReadPacket(s) \in 1..n /\ e + ReadPacket(s) \in FrameEnds
        /\ \A k \in 1..n : e + k \in FrameEnds => ReadPacket(s) <= k
    BY <1>1, <1>3, Zenon
  <2>2. ReadPacket(s) > 0 /\ ReadPacket(s) <= n /\ ReadPacket(s) \in Nat
    BY <2>1
  <2>3. \A k \in 1..ReadPacket(s) : e + k \in FrameEnds => k = ReadPacket(s)
    BY <2>1, <2>2
  <2> QED
    BY <2>1, <2>2, <2>3 DEF NextFrame
<1> QED
  BY <1>2, <1>3, Zenon

\* A pass of the loop delivers exactly the packet at the start of the buffer.
LEMMA DeliverFrame ==
  ASSUME FramingInv, FramesInv, pc = "loop", Deliver
  PROVE  /\ NextPos = readPos + pkgLen /\ pkgLen > 0 /\ NextPos > 0
         /\ Len(delivered') \in FrameEnds
         /\ PacketsAreFrames'
<1>1. /\ TypeOK /\ LoopInv /\ pkgLen > 0 /\ Len(delivered) \in Nat
      /\ NextFrame(Len(delivered), pkgLen) /\ pkgLen <= recvBufPos - readPos
  BY Zenon DEF FramingInv, LoopInv, FramesInv, TypeOK
<1>2. Complete /\ NextPos = readPos + pkgLen /\ NextPos > 0
  BY <1>1 DEF Complete, NextPos, TypeOK
<1>3. Len(delivered') = Len(delivered) + pkgLen
  BY <1>1, <1>2, DeliverStep, Zenon DEF FramingInv
<1>4. cuts' = cuts \cup {Len(delivered')}
  BY <1>2, Zenon DEF Deliver
<1>5. \A k \in 1..pkgLen : Len(delivered) + k \in FrameEnds => k = pkgLen
  BY <1>1, Zenon DEF NextFrame
<1>6. Len(delivered') \in FrameEnds
  BY <1>1, <1>3, Zenon DEF NextFrame
<1>7. ASSUME NEW e \in Nat, e \in FrameEnds
      PROVE  (0 < e /\ e <= Len(delivered'))
               <=> (0 < e /\ e <= Len(delivered)) \/ e = Len(delivered')
  <2>1. CASE Len(delivered) < e /\ e <= Len(delivered')
    <3> DEFINE k == e - Len(delivered)
    <3>1. k \in 1..pkgLen /\ Len(delivered) + k = e
      BY <1>1, <1>3, <2>1 DEF TypeOK
    <3> HIDE DEF k
    <3>2. k = pkgLen
      BY <1>5, <1>7, <3>1, Zenon
    <3> QED
      BY <1>1, <1>3, <2>1, <3>1, <3>2
  <2>2. CASE ~(Len(delivered) < e /\ e <= Len(delivered'))
    BY <1>1, <1>3, <2>2 DEF TypeOK
  <2> QED
    BY <2>1, <2>2, Zenon
<1>8. PacketsAreFrames /\ FrameEnds \subseteq Nat
  BY Zenon DEF FramesInv
<1> QED
  BY <1>1, <1>2, <1>4, <1>6, <1>7, <1>8, Zenon DEF PacketsAreFrames

\* What read_packet returns for n cells of a buffer, from pos on, that hold the bytes
\* of the stream after the end e of a packet.
LEMMA NextPacket ==
  ASSUME ReadPacketFrames,
         NEW buf \in [0..RecvBufSize-1 -> Bytes], NEW pos \in Nat, NEW n \in Nat,
         n > 0, pos + n <= RecvBufSize, NEW e \in FrameEnds, e + n <= MaxStream,
         \A i \in 0..RecvBufSize-1 : pos <= i /\ i < pos + n => buf[i] = e + 1 + i - pos
  PROVE  LET len == ReadPacket(Cells(buf, pos, n)) IN
         /\ len > 0 => len <= n /\ NextFrame(e, len)
         /\ len <= 0 => n < RecvBufSize
<1>1. e \in Nat /\ n \in 1..RecvBufSize
  BY DEF ReadPacketFrames
<1>2. Cells(buf, pos, n) = [i \in 1..n |-> e + i]
  <2>1. ASSUME NEW i \in 1..n PROVE buf[pos + i - 1] = e + i
    <3>1. /\ pos + i - 1 \in 0..RecvBufSize-1
          /\ pos <= pos + i - 1 /\ pos + i - 1 < pos + n
      BY <1>1
    <3>2. buf[pos + i - 1] = e + 1 + (pos + i - 1) - pos
      BY <3>1, Zenon
    <3> QED
      BY <1>1, <3>2
  <2> QED
    BY <2>1, Zenon DEF Cells
<1> DEFINE s == Cells(buf, pos, n)
<1> HIDE DEF s
<1>3. s = [i \in 1..n |-> e + i]
  BY <1>2, Zenon DEF s
<1>4. /\ ReadPacket(s) > 0 => ReadPacket(s) <= n /\ NextFrame(e, ReadPacket(s))
      /\ ReadPacket(s) <= 0 => n < RecvBufSize
  BY <1>1, <1>3, PacketAt, Zenon
<1> QED
  BY <1>4, Zenon DEF s

LEMMA FramesInit == ReadPacketFrames /\ Init => FramesInv
<1> SUFFICES ASSUME ReadPacketFrames, Init PROVE FramesInv
  BY Zenon
<1>1. 0 \in FrameEnds /\ FrameEnds \subseteq Nat
  BY Zenon DEF ReadPacketFrames
<1>2. Len(delivered) = 0 /\ cuts = {} /\ pc = "wait" /\ recvBufPos = 0
  BY Zenon DEF Init
<1>3. \A e \in FrameEnds : ~(0 < e /\ e <= 0)
  BY <1>1
<1>4. PacketsAreFrames
  BY <1>2, <1>3, Zenon DEF PacketsAreFrames
<1> QED
  BY <1>1, <1>2, <1>4 DEF FramesInv, ClosedByPeer

LEMMA FramesStep ==
  ASSUME ReadPacketFrames, FramingInv, FramingInv', FramesInv, [Next]_vars
  PROVE  FramesInv'
<1>1. /\ FrameEnds \subseteq Nat /\ Len(delivered) \in FrameEnds /\ PacketsAreFrames
      /\ TypeOK /\ TypeOK' /\ StreamPreserved' /\ LoopInv
  BY Zenon DEF FramesInv, FramingInv
<1>2. CASE PeerSends \/ PeerEnds \/ CloseSession \/ UNCHANGED vars
  <2>1. /\ UNCHANGED <<recvBufPos, readPos, pkgLen, delivered, cuts>>
        /\ pc' = pc \/ (pc' = "closed" /\ pc = "closing")
    BY <1>2, Zenon DEF PeerSends, PeerEnds, CloseSession, vars, recvVars, history
  <2>2. ClosedByPeer'
    <3>1. peer' = peer \/ peer' # "open"
      BY <1>2, Zenon DEF PeerSends, PeerEnds, CloseSession, vars
    <3>2. ClosedByPeer
      BY Zenon DEF FramesInv
    <3> QED
      BY <2>1, <3>1, <3>2, Zenon DEF ClosedByPeer
  <2>3. PacketsAreFrames' /\ Len(delivered') \in FrameEnds
    BY <1>1, <2>1, Zenon DEF PacketsAreFrames
  <2>4. /\ pc' = "loop" => pkgLen' <= recvBufPos' - readPos' /\ NextFrame(Len(delivered'), pkgLen')
        /\ pc' = "wait" => recvBufPos' < RecvBufSize
    BY <2>1, Zenon DEF FramesInv
  <2> QED
    BY <1>1, <2>2, <2>3, <2>4, Zenon DEF FramesInv
<1>3. CASE RecvEnds
  <2>1. /\ UNCHANGED <<delivered, cuts, peer>> /\ pc' = "closing" /\ recvBufPos < RecvBufSize
    BY <1>3, Zenon DEF RecvEnds, FramesInv, history
  <2>2. peer # "open"
    BY <1>1, <1>3, <2>1 DEF RecvEnds, recv_size, TypeOK
  <2>3. PacketsAreFrames' /\ Len(delivered') \in FrameEnds
    BY <1>1, <2>1, Zenon DEF PacketsAreFrames
  <2> QED
    BY <1>1, <2>1, <2>2, <2>3, Zenon DEF FramesInv, ClosedByPeer
<1>4. ASSUME NEW n \in 1..RecvBufSize, RecvData(n)
      PROVE  FramesInv'
  <2>1. /\ UNCHANGED <<delivered, cuts, peer>> /\ readPos' = 0 /\ recvBufPos' = recvBufPos + n
        /\ pkgLen' = ReadPacket(Cells(recvBuf', 0, recvBufPos'))
        /\ pc' = IF pkgLen' > 0 THEN "loop" ELSE "wait"
    BY <1>4, Zenon DEF RecvData, history
  <2>2. /\ recvBufPos' \in Nat /\ recvBufPos' > 0 /\ 0 + recvBufPos' <= RecvBufSize
        /\ recvBuf' \in [0..RecvBufSize-1 -> Bytes]
    BY <1>1, <1>4, <2>1 DEF TypeOK, Bytes
  <2>3. Len(delivered) + recvBufPos' <= MaxStream
    <3>1. /\ Len(delivered') + recvBufPos' - readPos' = received'
          /\ received' \in 0..wire' /\ wire' \in 0..MaxStream
      BY <1>1, Zenon DEF StreamPreserved, TypeOK
    <3> QED
      BY <1>1, <2>1, <2>2, <3>1
  <2>4. \A i \in 0..RecvBufSize-1 : 0 <= i /\ i < 0 + recvBufPos' =>
          recvBuf'[i] = Len(delivered) + 1 + i - 0
    <3>1. \A i \in 0..RecvBufSize-1 : readPos' <= i /\ i < recvBufPos' =>
            recvBuf'[i] = Len(delivered') + 1 + i - readPos'
      BY <1>1, Zenon DEF StreamPreserved
    <3> QED
      BY <2>1, <2>2, <3>1
  <2>5. /\ pkgLen' > 0 => pkgLen' <= recvBufPos' /\ NextFrame(Len(delivered), pkgLen')
        /\ pkgLen' <= 0 => recvBufPos' < RecvBufSize
    BY <1>1, <2>1, <2>2, <2>3, <2>4, NextPacket, Zenon
  <2>6. /\ pc' = "loop" => pkgLen' <= recvBufPos' - readPos' /\ NextFrame(Len(delivered'), pkgLen')
        /\ pc' = "wait" => recvBufPos' < RecvBufSize
    BY <1>1, <2>1, <2>2, <2>5 DEF TypeOK
  <2>7. PacketsAreFrames' /\ Len(delivered') \in FrameEnds /\ ClosedByPeer'
    BY <1>1, <2>1, Zenon DEF PacketsAreFrames, ClosedByPeer
  <2> QED
    BY <1>1, <2>6, <2>7, Zenon DEF FramesInv
<1>5. CASE LoopDrained
  <2>1. /\ pc = "loop" /\ Deliver /\ pc' = "wait" /\ recvBufPos' = 0
    BY <1>5, Zenon DEF LoopDrained
  <2>2. Len(delivered') \in FrameEnds /\ PacketsAreFrames'
    BY <2>1, DeliverFrame, Zenon
  <2> QED
    BY <1>1, <2>1, <2>2 DEF FramesInv, ClosedByPeer
<1>6. CASE LoopShifts
  <2>1. /\ pc = "loop" /\ Deliver /\ pc' = "wait" /\ recvBufPos' = recvBufPos - NextPos
    BY <1>6, Zenon DEF LoopShifts
  <2>2. /\ NextPos = readPos + pkgLen /\ NextPos > 0
        /\ Len(delivered') \in FrameEnds /\ PacketsAreFrames'
    BY <2>1, DeliverFrame, Zenon
  <2>3. recvBufPos' < RecvBufSize
    BY <1>1, <2>1, <2>2 DEF TypeOK
  <2> QED
    BY <1>1, <2>1, <2>2, <2>3, Zenon DEF FramesInv, ClosedByPeer
<1>7. CASE LoopContinues
  <2>1. /\ pc = "loop" /\ Deliver /\ pc' = "loop" /\ UNCHANGED <<recvBuf, recvBufPos>>
        /\ readPos' = NextPos /\ pkgLen' = Rest /\ NextPos < recvBufPos /\ Rest > 0
    BY <1>7, Zenon DEF LoopContinues
  <2>2. Len(delivered') \in FrameEnds /\ PacketsAreFrames'
    BY <2>1, DeliverFrame, Zenon
  <2> DEFINE n == recvBufPos - NextPos
  <2>3. /\ NextPos \in Nat /\ n \in Nat /\ n > 0 /\ NextPos + n <= RecvBufSize
        /\ recvBuf \in [0..RecvBufSize-1 -> Bytes]
    <3>1. readPos' \in 0..recvBufPos /\ recvBufPos \in 0..RecvBufSize
      BY <1>1, <2>1, Zenon DEF TypeOK
    <3>2. recvBuf \in [0..RecvBufSize-1 -> Bytes]
      BY <1>1, Zenon DEF TypeOK, Bytes
    <3> QED
      BY <2>1, <3>1, <3>2
  <2>4. Len(delivered') + n <= MaxStream
    <3>1. /\ Len(delivered') + recvBufPos' - readPos' = received'
          /\ received' \in 0..wire' /\ wire' \in 0..MaxStream /\ Len(delivered') \in Nat
      BY <1>1 DEF StreamPreserved, TypeOK
    <3> QED
      BY <1>1, <2>1, <2>3, <3>1 DEF TypeOK
  <2>5. \A i \in 0..RecvBufSize-1 : NextPos <= i /\ i < NextPos + n =>
          recvBuf[i] = Len(delivered') + 1 + i - NextPos
    <3>1. \A i \in 0..RecvBufSize-1 : readPos' <= i /\ i < recvBufPos' =>
            recvBuf'[i] = Len(delivered') + 1 + i - readPos'
      BY <1>1, Zenon DEF StreamPreserved
    <3>2. NextPos + n = recvBufPos
      BY <1>1, <2>3 DEF TypeOK
    <3> QED
      BY <2>1, <3>1, <3>2, Zenon
  <2>6. Rest = ReadPacket(Cells(recvBuf, NextPos, n))
    BY Zenon DEF Rest
  <2> HIDE DEF n
  <2>7. Rest <= n /\ NextFrame(Len(delivered'), Rest)
    BY <2>1, <2>2, <2>3, <2>4, <2>5, <2>6, NextPacket, Zenon
  <2>8. pkgLen' <= recvBufPos' - readPos' /\ NextFrame(Len(delivered'), pkgLen')
    BY <2>1, <2>7, Zenon DEF n
  <2> QED
    BY <1>1, <2>1, <2>2, <2>8, Zenon DEF FramesInv, ClosedByPeer
<1> QED
  BY <1>2, <1>3, <1>4, <1>5, <1>6, <1>7, Zenon DEF Next, Recv, Loop

LEMMA FramesAlways == ASSUME ReadPacketFrames PROVE Spec => []FramesInv
<1>1. FramingInv /\ FramingInv' /\ FramesInv /\ [Next]_vars => FramesInv'
  BY FramesStep, Zenon
<1>2. Init => FramesInv
  BY FramesInit, Zenon
<1> QED
  BY <1>1, <1>2, FramingAlways, PTL DEF Spec

\* For every packet format, buffer size and segmentation of the stream by recv: if
\* read_packet fits the peer's protocol and every packet fits recvBuf, on_recv is
\* given exactly the peer's packets, one by one.
THEOREM PacketsAreDelivered == ASSUME ReadPacketFrames PROVE Spec => []PacketsAreFrames
<1>1. FramesInv => PacketsAreFrames
  BY Zenon DEF FramesInv
<1> QED
  BY <1>1, FramesAlways, PTL

\* Under the same condition the receive buffer is never full when the processor calls
\* recv, so a result 0 is the end of the stream and only a peer that ended the
\* connection has its session closed here.
THEOREM PeerEndsSession == ASSUME ReadPacketFrames PROVE Spec => []ClosedByPeer
<1>1. FramesInv => ClosedByPeer
  BY Zenon DEF FramesInv
<1> QED
  BY <1>1, FramesAlways, PTL
=============================================================================
