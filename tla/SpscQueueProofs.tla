-------------------------- MODULE SpscQueueProofs ---------------------------
(***************************************************************************)
(* Proofs about SpscQueue for every number of slots and of items.          *)
(*                                                                         *)
(* The invariant ties the indexes to the history: the distance from        *)
(* readIndex to writeIndex is the number of items inside, the records from *)
(* readIndex on hold those items in order, and every other record is raw,  *)
(* except for the record one of the threads is working on.                 *)
(***************************************************************************)
EXTENDS SpscQueue, TLAPS

Inside == accepted - Len(delivered)

\* The record that holds the (j+1)-th item inside.
Slot(j) == IF readIndex + j < Size THEN readIndex + j ELSE readIndex + j - Size

Counted == Distance = Inside /\ Inside \in 0..Slots

Room == pcP # "idle" => Inside < Slots
Front == pcC # "idle" => Inside > 0

\* The records inside hold their items; the front is raw once it was taken.
Filled ==
  \A j \in 0..Slots : j < Inside /\ ~(j = 0 /\ pcC = "advance") =>
    records[Slot(j)] = Len(delivered) + 1 + j

\* The records outside are raw; the first one is filled before it is published.
Unused ==
  \A j \in 0..Slots : j >= Inside /\ ~(j = Inside /\ pcP = "publish") =>
    records[Slot(j)] = Raw

\* Once the front was taken its record is raw, also when the ring is full.
Emptied == pcC = "advance" => records[readIndex] = Raw

Constructed == pcP = "publish" => records[writeIndex] = accepted + 1
Taken == pcC = "advance" => record = Len(delivered) + 1

Checked ==
  /\ sawItem /\ pcC = "idle" => Inside > 0
  /\ sawRoom /\ pcP = "idle" => Inside < Slots
  /\ sawItem => pcC = "idle"
  /\ sawRoom => pcP = "idle"

Guessed ==
  /\ guessC # -1 => guessC <= Inside /\ pcC = "idle"
  /\ guessP # -1 => guessP >= Inside /\ pcP = "idle"

RingInv == TypeOK /\ Counted /\ Room /\ Front /\ Checked /\ Guessed
ContentInv == Filled /\ Unused /\ Emptied /\ Constructed /\ Taken
QueueInv == RingInv /\ ContentInv

-----------------------------------------------------------------------------
\* Init establishes the invariant: the ring is empty and every record raw.
LEMMA InitInv == Init => QueueInv
  <1> SUFFICES ASSUME Init PROVE QueueInv
    BY Zenon
  <1>1. Slots \in Nat \ {0} /\ Size = Slots + 1
    BY QueueAssumption, Zenon DEF Size
  <1>2. delivered = << >> /\ Len(delivered) = 0 /\ Inside = 0
    <2>1. delivered = << >>
      BY Zenon DEF Init
    <2>2. Len(delivered) = 0
      BY <2>1, Zenon
    <2>3. accepted = 0
      BY Zenon DEF Init
    <2>4. Inside = 0
      BY <2>2, <2>3 DEF Inside
    <2> QED
      BY <2>1, <2>2, <2>4, Zenon
  <1>3. TypeOK
    BY <1>1, <1>2 DEF Init, TypeOK, Raw
  <1>4. Counted
    BY <1>1, <1>2 DEF Init, Counted, Distance
  <1>5. Room /\ Front /\ Checked /\ Guessed
    BY Zenon DEF Init, Room, Front, Checked, Guessed
  <1>6. Filled /\ Emptied /\ Constructed /\ Taken
    BY <1>2 DEF Init, Filled, Emptied, Constructed, Taken
  <1>7. Unused
    BY <1>1 DEF Init, Unused, Slot
  <1> QED
    BY <1>3, <1>4, <1>5, <1>6, <1>7, Zenon DEF QueueInv, RingInv, ContentInv

\* The index part of the invariant is inductive on its own.
LEMMA RingStep == RingInv /\ [Next]_vars => RingInv'
  <1> SUFFICES ASSUME RingInv, [Next]_vars PROVE RingInv'
    BY Zenon
  <1>s. Slots \in Nat \ {0} /\ Size = Slots + 1
    BY QueueAssumption, Zenon DEF Size
  <1>t. /\ readIndex \in Int /\ 0 <= readIndex /\ readIndex <= Slots
        /\ writeIndex \in Int /\ 0 <= writeIndex /\ writeIndex <= Slots
        /\ accepted \in Nat /\ Len(delivered) \in Nat
        /\ delivered \in Seq(Nat)
    BY <1>s DEF RingInv, TypeOK
  <1>c. Distance = Inside /\ Inside \in Int /\ 0 <= Inside /\ Inside <= Slots
    BY <1>s DEF RingInv, Counted
  <1>1. CASE EnqueueTest
    <2>1. TypeOK'
      <3>1. -1 \in -1..Slots
        BY <1>s
      <3>2. refused' \in BOOLEAN /\ sawRoom' \in BOOLEAN /\ pcP' \in {"idle", "construct", "publish"}
        BY <1>1, Zenon DEF EnqueueTest
      <3>3. guessP' \in -1..Slots
        BY <1>1, <3>1, Zenon DEF EnqueueTest
      <3> QED
        BY <1>1, <3>2, <3>3, Zenon DEF RingInv, TypeOK, EnqueueTest, consumer
    <2>2. Inside' = Inside /\ Distance' = Distance
      BY <1>1, Zenon DEF Inside, Distance, EnqueueTest, consumer
    <2>3. Inside < Slots \/ Succ(writeIndex) = readIndex
      BY <1>s, <1>t, <1>c DEF Distance, Succ
    <2>4. Room'
      BY <1>1, <2>2, <2>3, Zenon DEF Room, EnqueueTest
    <2>5. (Counted /\ Front /\ Checked /\ Guessed)'
      BY <1>1, <2>2, Zenon DEF RingInv, Counted, Front, Checked, Guessed, EnqueueTest, consumer
    <2> QED
      BY <2>1, <2>4, <2>5, Zenon DEF RingInv
  <1>2. CASE Construct
    <2>1. TypeOK'
      BY <1>2, <1>t DEF RingInv, TypeOK, Construct, consumer
    <2>2. Inside' = Inside /\ Distance' = Distance
      BY <1>2, Zenon DEF Inside, Distance, Construct, consumer
    <2>3. (Counted /\ Room /\ Front /\ Checked /\ Guessed)'
      BY <1>2, <2>2, Zenon DEF RingInv, Counted, Room, Front, Checked, Guessed, Construct, consumer
    <2> QED
      BY <2>1, <2>3, Zenon DEF RingInv
  <1>3. CASE Publish
    <2>1. Succ(writeIndex) \in 0..Size-1
      BY <1>s, <1>t DEF Succ
    <2>2. TypeOK'
      BY <1>3, <2>1 DEF RingInv, TypeOK, Publish, consumer
    <2>3. Inside < Slots
      BY <1>3, Zenon DEF RingInv, Room, Publish
    <2>4. Inside' = Inside + 1
      BY <1>3, <1>t DEF Inside, Publish, consumer
    <2>5. Distance' = Distance + 1
      BY <1>3, <1>s, <1>t, <1>c, <2>3 DEF Distance, Publish, consumer, Succ
    <2>6. Counted'
      BY <1>s, <1>c, <2>3, <2>4, <2>5 DEF Counted
    <2>7. (Room /\ Front)'
      BY <1>3, <1>c, <2>4 DEF Room, Front, Publish
    <2>8. sawRoom = FALSE /\ guessP = -1
      BY <1>3, Zenon DEF RingInv, TypeOK, Checked, Guessed, Publish
    <2>9. Checked'
      BY <1>3, <1>c, <2>4, <2>8 DEF RingInv, Checked, Publish, consumer
    <2>10. guessC \in Int
      BY <1>s DEF RingInv, TypeOK
    <2>11. Guessed'
      BY <1>3, <1>c, <2>4, <2>8, <2>10 DEF RingInv, Guessed, Publish, consumer
    <2> QED
      BY <2>2, <2>6, <2>7, <2>9, <2>11, Zenon DEF RingInv
  <1>4. CASE IsFull
    <2>1. TypeOK'
      BY <1>4, Zenon DEF RingInv, TypeOK, IsFull, consumer
    <2>2. Inside' = Inside /\ Distance' = Distance
      BY <1>4, Zenon DEF Inside, Distance, IsFull, consumer
    <2>3. Inside < Slots \/ Succ(writeIndex) = readIndex
      BY <1>s, <1>t, <1>c DEF Distance, Succ
    <2>4. Checked'
      BY <1>4, <2>2, <2>3, Zenon DEF RingInv, Checked, IsFull, consumer
    <2>5. (Counted /\ Room /\ Front /\ Guessed)'
      BY <1>4, <2>2, Zenon DEF RingInv, Counted, Room, Front, Guessed, IsFull, consumer
    <2> QED
      BY <2>1, <2>4, <2>5, Zenon DEF RingInv
  <1>5. CASE SizeGuessProducer
    <2>1. Distance \in -1..Slots
      BY <1>s, <1>c
    <2>2. TypeOK'
      BY <1>5, <2>1, Zenon DEF RingInv, TypeOK, SizeGuessProducer, consumer
    <2>3. Inside' = Inside /\ Distance' = Distance
      BY <1>5, Zenon DEF Inside, Distance, SizeGuessProducer, consumer
    <2>4. Guessed'
      BY <1>5, <1>c, <2>3 DEF RingInv, Guessed, SizeGuessProducer, consumer
    <2>5. (Counted /\ Room /\ Front /\ Checked)'
      BY <1>5, <2>3, Zenon DEF RingInv, Counted, Room, Front, Checked, SizeGuessProducer, consumer
    <2> QED
      BY <2>2, <2>4, <2>5, Zenon DEF RingInv
  <1>6. CASE DequeueTest
    <2>1. TypeOK'
      <3>1. -1 \in -1..Slots
        BY <1>s
      <3>2. sawItem' \in BOOLEAN /\ pcC' \in {"idle", "take", "advance"}
        BY <1>6, Zenon DEF DequeueTest
      <3>3. guessC' \in -1..Slots
        BY <1>6, <3>1, Zenon DEF DequeueTest
      <3> QED
        BY <1>6, <3>2, <3>3, Zenon DEF RingInv, TypeOK, DequeueTest, producer
    <2>2. Inside' = Inside /\ Distance' = Distance
      BY <1>6, Zenon DEF Inside, Distance, DequeueTest, producer
    <2>3. Inside > 0 \/ readIndex = writeIndex
      BY <1>s, <1>t, <1>c DEF Distance
    <2>4. Front'
      BY <1>6, <2>2, <2>3, Zenon DEF Front, DequeueTest
    <2>5. (Counted /\ Room /\ Checked /\ Guessed)'
      BY <1>6, <2>2, Zenon DEF RingInv, Counted, Room, Checked, Guessed, DequeueTest, producer
    <2> QED
      BY <2>1, <2>4, <2>5, Zenon DEF RingInv
  <1>7. CASE Take
    <2>1. TypeOK'
      BY <1>7, <1>t, Zenon DEF RingInv, TypeOK, Take, producer, Raw
    <2>2. Inside' = Inside /\ Distance' = Distance
      BY <1>7, Zenon DEF Inside, Distance, Take, producer
    <2>3. (Counted /\ Room /\ Front /\ Checked /\ Guessed)'
      BY <1>7, <2>2, Zenon DEF RingInv, Counted, Room, Front, Checked, Guessed, Take, producer
    <2> QED
      BY <2>1, <2>3, Zenon DEF RingInv
  <1>8. CASE Advance
    <2>1. Succ(readIndex) \in 0..Size-1
      BY <1>s, <1>t DEF Succ
    <2>2. record \in Nat
      BY Zenon DEF RingInv, TypeOK
    <2>3. delivered' \in Seq(Nat) /\ Len(delivered') = Len(delivered) + 1
      BY <1>8, <1>t, <2>2 DEF Advance
    <2>4. TypeOK'
      BY <1>8, <2>1, <2>3, Zenon DEF RingInv, TypeOK, Advance, producer
    <2>5. Inside > 0
      BY <1>8, Zenon DEF RingInv, Front, Advance
    <2>6. Inside' = Inside - 1
      BY <1>8, <1>t, <2>3 DEF Inside, Advance, producer
    <2>7. Distance' = Distance - 1
      BY <1>8, <1>s, <1>t, <1>c, <2>5 DEF Distance, Advance, producer, Succ
    <2>8. Counted'
      BY <1>s, <1>c, <2>5, <2>6, <2>7 DEF Counted
    <2>9. (Room /\ Front)'
      BY <1>8, <1>c, <1>s, <2>6 DEF RingInv, Room, Front, Advance, producer
    <2>10. sawItem = FALSE /\ guessC = -1
      BY <1>8, Zenon DEF RingInv, TypeOK, Checked, Guessed, Advance
    <2>11. Checked'
      BY <1>8, <1>c, <1>s, <2>6, <2>10 DEF RingInv, Checked, Advance, producer
    <2>12. guessP \in Int
      BY <1>s DEF RingInv, TypeOK
    <2>13. Guessed'
      BY <1>8, <1>c, <2>6, <2>10, <2>12 DEF RingInv, Guessed, Advance, producer
    <2> QED
      BY <2>4, <2>8, <2>9, <2>11, <2>13, Zenon DEF RingInv
  <1>9. CASE IsEmpty
    <2>1. TypeOK'
      BY <1>9, Zenon DEF RingInv, TypeOK, IsEmpty, producer
    <2>2. Inside' = Inside /\ Distance' = Distance
      BY <1>9, Zenon DEF Inside, Distance, IsEmpty, producer
    <2>3. Inside > 0 \/ readIndex = writeIndex
      BY <1>s, <1>t, <1>c DEF Distance
    <2>4. Checked'
      BY <1>9, <2>2, <2>3, Zenon DEF RingInv, Checked, IsEmpty, producer
    <2>5. (Counted /\ Room /\ Front /\ Guessed)'
      BY <1>9, <2>2, Zenon DEF RingInv, Counted, Room, Front, Guessed, IsEmpty, producer
    <2> QED
      BY <2>1, <2>4, <2>5, Zenon DEF RingInv
  <1>10. CASE SizeGuessConsumer
    <2>1. Distance \in -1..Slots
      BY <1>s, <1>c
    <2>2. TypeOK'
      BY <1>10, <2>1, Zenon DEF RingInv, TypeOK, SizeGuessConsumer, producer
    <2>3. Inside' = Inside /\ Distance' = Distance
      BY <1>10, Zenon DEF Inside, Distance, SizeGuessConsumer, producer
    <2>4. Guessed'
      BY <1>10, <1>c, <2>3 DEF RingInv, Guessed, SizeGuessConsumer, producer
    <2>5. (Counted /\ Room /\ Front /\ Checked)'
      BY <1>10, <2>3, Zenon DEF RingInv, Counted, Room, Front, Checked, SizeGuessConsumer, producer
    <2> QED
      BY <2>2, <2>4, <2>5, Zenon DEF RingInv
  <1>11. CASE UNCHANGED vars
    <2>1. Inside' = Inside /\ Distance' = Distance
      BY <1>11, Zenon DEF vars, producer, consumer, Inside, Distance
    <2> QED
      BY Zenon, <1>11, <2>1 DEF vars, producer, consumer, RingInv, TypeOK, Counted, Room, Front,
                         Checked, Guessed
  <1> QED
    BY <1>1, <1>2, <1>3, <1>4, <1>5, <1>6, <1>7, <1>8, <1>9, <1>10, <1>11, Zenon
    DEF Next, Produce, Consume

\* The contents of the records follow.
LEMMA ContentStep == QueueInv /\ [Next]_vars => ContentInv'
  <1> SUFFICES ASSUME QueueInv, [Next]_vars PROVE ContentInv'
    BY Zenon
  <1>s. Slots \in Nat \ {0} /\ Size = Slots + 1
    BY QueueAssumption, Zenon DEF Size
  <1>t. /\ readIndex \in Int /\ 0 <= readIndex /\ readIndex <= Slots
        /\ writeIndex \in Int /\ 0 <= writeIndex /\ writeIndex <= Slots
        /\ accepted \in Nat /\ Len(delivered) \in Nat
        /\ delivered \in Seq(Nat)
        /\ records \in [0..Slots -> Nat]
    BY <1>s DEF QueueInv, RingInv, TypeOK
  <1>c. /\ Distance = Inside /\ Inside \in Int /\ 0 <= Inside /\ Inside <= Slots
        /\ Inside = accepted - Len(delivered)
    BY <1>s DEF QueueInv, RingInv, Counted, Inside
  <1>w. writeIndex = Slot(Inside) /\ readIndex = Slot(0)
    BY <1>s, <1>t, <1>c DEF Distance, Slot
  <1>j. \A j, k \in 0..Slots : /\ Slot(j) \in 0..Slots
                               /\ j # k => Slot(j) # Slot(k)
    <2>1. readIndex \in Int /\ 0 <= readIndex /\ readIndex <= Slots
      BY <1>t, Zenon
    <2>2. ASSUME NEW j \in 0..Slots, NEW k \in 0..Slots
          PROVE  Slot(j) \in 0..Slots /\ (j # k => Slot(j) # Slot(k))
      BY <1>s, <2>1 DEF Slot
    <2> QED
      BY <2>2, Zenon
  <1>1. CASE Construct
    <2>1. UNCHANGED <<readIndex, writeIndex, accepted, delivered, pcC, record>>
      BY <1>1, Zenon DEF Construct, consumer
    <2>2. Inside' = Inside /\ \A j \in 0..Slots : Slot(j)' = Slot(j)
      BY <2>1, Zenon DEF Inside, Slot
    <2>3. pcP' = "publish" /\ records' = [records EXCEPT ![Slot(Inside)] = accepted + 1]
      BY <1>1, <1>w, Zenon DEF Construct
    <2>4. ASSUME NEW j \in 0..Slots, j # Inside PROVE records'[Slot(j)] = records[Slot(j)]
      <3>1. Inside \in 0..Slots
        BY <1>c, <1>s
      <3>2. Slot(j) # Slot(Inside) /\ Slot(j) \in 0..Slots
        BY <3>1, <2>4, <1>j, Zenon
      <3> QED
        BY <3>2, <2>3, <1>t, Zenon
    <2>5. Filled'
      BY <1>c, <2>1, <2>2, <2>4 DEF QueueInv, ContentInv, Filled
    <2>6. Unused'
      BY <1>1, <1>c, <2>2, <2>3, <2>4, Zenon DEF QueueInv, ContentInv, Unused, Construct
    <2>7. Constructed' /\ Taken'
      <3>1. writeIndex \in 0..Slots /\ records'[writeIndex] = accepted + 1
        BY <1>s, <1>t, <1>w, <2>3
      <3> QED
        BY <3>1, <2>1, Zenon DEF QueueInv, ContentInv, Constructed, Taken
    <2>8. pcC = "advance" => Inside > 0
      BY Zenon DEF QueueInv, RingInv, Front
    <2>9. Emptied'
      BY <1>s, <1>w, <2>1, <2>4, <2>8 DEF QueueInv, ContentInv, Emptied
    <2> QED
      BY <2>5, <2>6, <2>7, <2>9, Zenon DEF ContentInv
  <1>2. CASE Publish
    <2>1. UNCHANGED <<readIndex, delivered, pcC, record, records>>
      BY <1>2, Zenon DEF Publish, consumer
    <2>2. Inside' = Inside + 1 /\ \A j \in 0..Slots : Slot(j)' = Slot(j)
      BY <1>2, <1>t, <2>1 DEF Inside, Slot, Publish
    <2>3. pcP = "publish" /\ pcP' = "idle" /\ records[Slot(Inside)] = accepted + 1
      BY <1>2, <1>w, Zenon DEF QueueInv, ContentInv, Constructed, Publish
    <2>4. accepted + 1 = Len(delivered) + 1 + Inside
      BY <1>c, <1>t
    <2>5. ASSUME NEW j \in 0..Slots, j < Inside + 1, ~(j = 0 /\ pcC = "advance")
          PROVE  records[Slot(j)] = Len(delivered) + 1 + j
      <3>1. CASE j = Inside
        BY <3>1, <2>3, <2>4, Zenon
      <3>2. CASE j < Inside
        BY <3>2, <2>5, Zenon DEF QueueInv, ContentInv, Filled
      <3> QED
        BY <3>1, <3>2, <2>5, <1>c
    <2>6. Filled'
      BY <2>1, <2>2, <2>5, Zenon DEF Filled
    <2>7. Unused'
      BY <2>1, <2>2, <2>3, <1>c DEF QueueInv, ContentInv, Unused
    <2>8. Emptied' /\ Constructed' /\ Taken'
      BY <2>1, <2>3, Zenon DEF QueueInv, ContentInv, Emptied, Constructed, Taken
    <2> QED
      BY <2>6, <2>7, <2>8, Zenon DEF ContentInv
  <1>3. CASE Take
    <2>1. UNCHANGED <<readIndex, writeIndex, accepted, delivered, pcP>>
      BY <1>3, Zenon DEF Take, producer
    <2>2. Inside' = Inside /\ \A j \in 0..Slots : Slot(j)' = Slot(j)
      BY <2>1, Zenon DEF Inside, Slot
    <2>3. /\ pcC = "take" /\ pcC' = "advance"
          /\ records' = [records EXCEPT ![Slot(0)] = Raw]
          /\ record' = records[Slot(0)]
      BY <1>3, <1>w, Zenon DEF Take
    <2>4. Inside > 0
      BY <2>3, Zenon DEF QueueInv, RingInv, Front
    <2>5. ASSUME NEW j \in 0..Slots, j # 0 PROVE records'[Slot(j)] = records[Slot(j)]
      BY <2>3, <2>5, <1>j, <1>s, <1>t
    <2>6. record' = Len(delivered) + 1
      BY <2>3, <2>4, <1>s, <1>t DEF QueueInv, ContentInv, Filled
    <2>7. Filled'
      BY <2>1, <2>2, <2>3, <2>5, Zenon DEF QueueInv, ContentInv, Filled
    <2>8. Unused'
      BY <2>1, <2>2, <2>4, <2>5, <1>c DEF QueueInv, ContentInv, Unused
    <2>9. writeIndex # Slot(0) \/ pcP # "publish"
      <3>1. pcP = "publish" => Inside < Slots
        BY Zenon DEF QueueInv, RingInv, Room
      <3> QED
        BY <3>1, <1>w, <1>j, <1>c, <1>s, <2>4
    <2>10. Constructed'
      BY <1>s, <1>t, <2>1, <2>3, <2>9 DEF QueueInv, ContentInv, Constructed
    <2>11. Taken'
      BY <2>1, <2>6, Zenon DEF Taken
    <2>12. Emptied'
      BY <1>t, <1>w, <2>1, <2>3 DEF Emptied
    <2> QED
      BY <2>7, <2>8, <2>10, <2>11, <2>12, Zenon DEF ContentInv
  <1>4. CASE Advance
    <2>1. UNCHANGED <<writeIndex, accepted, pcP, records, record>> /\ readIndex' = Succ(readIndex)
      BY <1>4, Zenon DEF Advance, producer
    <2>2. pcC = "advance" /\ pcC' = "idle" /\ Inside > 0
      BY <1>4, Zenon DEF Advance, QueueInv, RingInv, Front
    <2>3. Len(delivered') = Len(delivered) + 1
      BY <1>4, <1>t DEF Advance, QueueInv, RingInv, TypeOK
    <2>4. Inside' = Inside - 1
      BY <1>t, <2>1, <2>3 DEF Inside
    <2>5. \A j \in 0..Slots : j < Slots => Slot(j)' = Slot(j + 1)
      BY <1>s, <1>t, <2>1 DEF Slot, Succ, Size
    <2>6. Slot(Slots)' = Slot(0)
      BY <1>s, <1>t, <2>1 DEF Slot, Succ, Size
    <2>7. ASSUME NEW j \in 0..Slots, j < Inside - 1
          PROVE  records[Slot(j)'] = Len(delivered) + 1 + 1 + j
      <3>1. j + 1 \in 0..Slots /\ j + 1 < Inside /\ j + 1 # 0
        BY <2>7, <1>c, <1>s
      <3>2. records[Slot(j + 1)] = Len(delivered) + 1 + (j + 1)
        BY <3>1, Zenon DEF QueueInv, ContentInv, Filled
      <3> QED
        BY <3>1, <3>2, <2>5, <1>s, <1>t
    <2>8. Filled'
      BY <2>1, <2>3, <2>4, <2>7, <1>t, Zenon DEF Filled
    <2>9. ASSUME NEW j \in 0..Slots, j >= Inside - 1, ~(j = Inside - 1 /\ pcP = "publish")
          PROVE  records[Slot(j)'] = Raw
      <3>1. CASE j < Slots
        <4>1. j + 1 \in 0..Slots /\ j + 1 >= Inside /\ (j + 1 = Inside => j = Inside - 1)
          BY <3>1, <2>9, <1>c, <1>s
        <4>2. records[Slot(j + 1)] = Raw
          BY <4>1, <2>9, Zenon DEF QueueInv, ContentInv, Unused
        <4> QED
          BY <3>1, <4>2, <2>5, Zenon
      <3>2. CASE j = Slots
        BY <3>2, <2>2, <2>6, <1>w, Zenon DEF QueueInv, ContentInv, Emptied
      <3> QED
        BY <3>1, <3>2, <1>s
    <2>10. Unused'
      BY <2>1, <2>4, <2>9, Zenon DEF Unused
    <2>11. Emptied' /\ Constructed' /\ Taken'
      BY <2>1, <2>2, Zenon DEF QueueInv, ContentInv, Emptied, Constructed, Taken
    <2> QED
      BY <2>8, <2>10, <2>11, Zenon DEF ContentInv
  <1>5. CASE UNCHANGED <<records, readIndex, accepted, delivered, writeIndex, record>>
             /\ ((pcP' # "publish" /\ pcP # "publish") \/ UNCHANGED pcP)
             /\ ((pcC' # "advance" /\ pcC # "advance") \/ UNCHANGED pcC)
    <2>1. Inside' = Inside /\ \A j \in 0..Slots : Slot(j)' = Slot(j)
      BY <1>5, Zenon DEF Inside, Slot
    <2> QED
      BY <1>5, <2>1, Zenon DEF QueueInv, ContentInv, Filled, Unused, Emptied, Constructed, Taken
  <1>6. CASE EnqueueTest \/ IsFull \/ SizeGuessProducer
    BY <1>5, <1>6, Zenon DEF EnqueueTest, IsFull, SizeGuessProducer, consumer
  <1>7. CASE DequeueTest \/ IsEmpty \/ SizeGuessConsumer
    BY <1>5, <1>7, Zenon DEF DequeueTest, IsEmpty, SizeGuessConsumer, producer
  <1>8. CASE UNCHANGED vars
    BY <1>5, <1>8, Zenon DEF vars, producer, consumer
  <1> QED
    BY <1>1, <1>2, <1>3, <1>4, <1>6, <1>7, <1>8, Zenon DEF Next, Produce, Consume

\* The invariant holds in every reachable state.
LEMMA Invariance == Spec => []QueueInv
  <1>1. QueueInv /\ [Next]_vars => QueueInv'
    BY RingStep, ContentStep, Zenon DEF QueueInv
  <1> QED
    BY InitInv, <1>1, PTL DEF Spec

\* Type correctness of the queue for every number of slots.
THEOREM QueueTypes == Spec => []TypeOK
  BY Invariance, PTL DEF QueueInv, RingInv

\* Producer and consumer never work on the same record, the producer constructs
\* only in raw storage and the consumer takes only complete objects.
THEOREM SlotsAreExclusive == Spec => []NoSlotRace
  <1>1. QueueInv => NoSlotRace
    <2> SUFFICES ASSUME QueueInv PROVE NoSlotRace
      BY Zenon
    <2>s. Slots \in Nat \ {0} /\ Size = Slots + 1
      BY QueueAssumption, Zenon DEF Size
    <2>t. /\ readIndex \in Int /\ 0 <= readIndex /\ readIndex <= Slots
          /\ writeIndex \in Int /\ 0 <= writeIndex /\ writeIndex <= Slots
          /\ Len(delivered) \in Nat
      BY <2>s DEF QueueInv, RingInv, TypeOK
    <2>c. Distance = Inside /\ Inside \in Int /\ 0 <= Inside /\ Inside <= Slots
      BY <2>s DEF QueueInv, RingInv, Counted
    <2>w. writeIndex = Slot(Inside) /\ readIndex = Slot(0)
      BY <2>s, <2>t, <2>c DEF Distance, Slot
    <2>1. pcP = "construct" => records[writeIndex] = Raw
      BY <2>s, <2>c, <2>w DEF QueueInv, ContentInv, Unused
    <2>2. ASSUME pcC = "take" PROVE records[readIndex] # Raw
      <3>1. Inside > 0
        BY <2>2, Zenon DEF QueueInv, RingInv, Front
      <3>2. records[Slot(0)] = Len(delivered) + 1 + 0
        BY <3>1, <2>2, <2>s DEF QueueInv, ContentInv, Filled
      <3> QED
        BY <3>2, <2>w, <2>t DEF Raw
    <2>3. pcP # "idle" /\ pcC # "idle" => readIndex # writeIndex
      <3>1. pcC # "idle" => Inside > 0
        BY Zenon DEF QueueInv, RingInv, Front
      <3> QED
        BY <3>1, <2>s, <2>t, <2>c DEF Distance
    <2> QED
      BY <2>1, <2>2, <2>3, Zenon DEF NoSlotRace
  <1> QED
    BY Invariance, <1>1, PTL

\* What isEmpty or isFull told its caller stays true until the caller acts.
THEOREM ChecksStayTrue == Spec => []CheckStaysTrue
  <1>1. QueueInv => CheckStaysTrue
    <2> SUFFICES ASSUME QueueInv PROVE CheckStaysTrue
      BY Zenon
    <2>s. Slots \in Nat \ {0} /\ Size = Slots + 1
      BY QueueAssumption, Zenon DEF Size
    <2>t. /\ readIndex \in Int /\ 0 <= readIndex /\ readIndex <= Slots
          /\ writeIndex \in Int /\ 0 <= writeIndex /\ writeIndex <= Slots
      BY <2>s DEF QueueInv, RingInv, TypeOK
    <2>c. Distance = Inside /\ Inside \in Int
      BY <2>s DEF QueueInv, RingInv, Counted
    <2>1. Inside > 0 => readIndex # writeIndex
      BY <2>s, <2>t, <2>c DEF Distance
    <2>2. Inside < Slots => Succ(writeIndex) # readIndex
      BY <2>s, <2>t, <2>c DEF Distance, Succ
    <2> QED
      BY <2>1, <2>2, Zenon DEF QueueInv, RingInv, Checked, CheckStaysTrue
  <1> QED
    BY Invariance, <1>1, PTL

\* sizeGuess is a lower bound for the consumer and an upper bound for the
\* producer, as its comment says.
THEOREM GuessesAreBounds == Spec => []GuessIsBound
  <1>1. QueueInv => GuessIsBound
    BY Zenon DEF QueueInv, RingInv, Guessed, GuessIsBound, Inside
  <1> QED
    BY Invariance, <1>1, PTL

\* enqueue refuses an item only when the queue holds Slots items.
THEOREM RefusalsAreJustified == Spec => RefusedOnlyWhenFull
  <1>1. QueueInv /\ [Next]_vars =>
          [refused' /\ ~refused => accepted - Len(delivered) = Slots]_vars
    <2> SUFFICES ASSUME QueueInv, [Next]_vars, refused', ~refused
                 PROVE  Inside = Slots
      BY Zenon DEF Inside
    <2>s. Slots \in Nat \ {0} /\ Size = Slots + 1
      BY QueueAssumption, Zenon DEF Size
    <2>t. /\ readIndex \in Int /\ 0 <= readIndex /\ readIndex <= Slots
          /\ writeIndex \in Int /\ 0 <= writeIndex /\ writeIndex <= Slots
      BY <2>s DEF QueueInv, RingInv, TypeOK
    <2>c. Distance = Inside /\ Inside \in Int
      BY <2>s DEF QueueInv, RingInv, Counted
    <2>1. EnqueueTest
      BY Zenon DEF Next, Produce, Consume, Construct, Publish, IsFull, SizeGuessProducer, DequeueTest,
             Take, Advance, IsEmpty, SizeGuessConsumer, vars, producer, consumer
    <2>2. Succ(writeIndex) = readIndex
      BY <2>1, Zenon DEF EnqueueTest
    <2> QED
      BY <2>2, <2>s, <2>t, <2>c DEF Distance, Succ
  <1> QED
    BY Invariance, <1>1, PTL DEF Spec, RefusedOnlyWhenFull

\* The ring implements the bounded first-in first-out channel: publishing is
\* accepting one item, advancing is delivering the oldest, all else stutters.
THEOREM FifoRefinement == Spec => ImplementsFifo
  <1>1. Init => Fifo!Init
    BY Zenon DEF Init, Fifo!Init
  <1>2. QueueInv /\ [Next]_vars => [Fifo!Next]_<<accepted, delivered>>
    <2> SUFFICES ASSUME QueueInv, [Next]_vars PROVE [Fifo!Next]_<<accepted, delivered>>
      BY Zenon
    <2>s. Slots \in Nat \ {0}
      BY QueueAssumption, Zenon
    <2>t. accepted \in Nat /\ Len(delivered) \in Nat
      BY DEF QueueInv, RingInv, TypeOK
    <2>c. Inside \in Int /\ Inside <= Slots /\ Inside = accepted - Len(delivered)
      BY <2>s DEF QueueInv, RingInv, Counted, Inside
    <2>1. CASE Publish
      <3>1. Inside < Slots
        BY <2>1, Zenon DEF Publish, QueueInv, RingInv, Room
      <3>2. accepted' = accepted + 1 /\ UNCHANGED delivered /\ 1 \in 0..Slots
        BY <2>1, <2>s DEF Publish, consumer
      <3>3. accepted' - Len(delivered) <= Slots
        BY <3>1, <3>2, <2>s, <2>t, <2>c
      <3> QED
        BY <3>2, <3>3, Zenon DEF Fifo!Next, Fifo!Accept
    <2>2. CASE Advance
      <3>1. Inside > 0 /\ record = Len(delivered) + 1
        BY <2>2, Zenon DEF Advance, QueueInv, RingInv, Front, ContentInv, Taken
      <3>2. Len(delivered) < accepted
        BY <3>1, <2>t, <2>c
      <3>3. delivered' = Append(delivered, Len(delivered) + 1) /\ UNCHANGED accepted
        BY <2>2, <3>1, Zenon DEF Advance, producer
      <3> QED
        BY <3>2, <3>3, Zenon DEF Fifo!Next, Fifo!Deliver
    <2>3. CASE UNCHANGED <<accepted, delivered>>
      BY <2>3, Zenon
    <2>4. CASE EnqueueTest \/ Construct \/ IsFull \/ SizeGuessProducer
      BY <2>3, <2>4, Zenon DEF EnqueueTest, Construct, IsFull, SizeGuessProducer, consumer
    <2>5. CASE DequeueTest \/ Take \/ IsEmpty \/ SizeGuessConsumer
      BY <2>3, <2>5, Zenon DEF DequeueTest, Take, IsEmpty, SizeGuessConsumer, producer
    <2>6. CASE UNCHANGED vars
      BY <2>3, <2>6, Zenon DEF vars, producer, consumer
    <2> QED
      BY <2>1, <2>2, <2>4, <2>5, <2>6, Zenon DEF Next, Produce, Consume
  <1> QED
    BY <1>1, <1>2, Invariance, PTL DEF Spec, ImplementsFifo, Fifo!Spec
=============================================================================
