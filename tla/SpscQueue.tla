----------------------------- MODULE SpscQueue ------------------------------
(***************************************************************************)
(* utils::spscqueue (libs/spscqueue.hpp), the lock-free ring between a     *)
(* processor thread (producer) and the application thread (consumer).      *)
(*                                                                         *)
(* One action per access to shared memory: the load of the other thread's  *)
(* index, the access to the record, the store of the own index.  The       *)
(* acquire/release pairs of the code make these accesses sequentially      *)
(* consistent for one producer and one consumer.  Item k is represented by *)
(* k; Raw is storage that holds no object.                                 *)
(***************************************************************************)
EXTENDS Integers, Sequences

CONSTANTS
  Slots,      \* the constructor's size; one more record is allocated
  MaxItems    \* bound: items enqueued

ASSUME QueueAssumption == Slots \in Nat \ {0} /\ MaxItems \in Nat

Raw == 0
Size == Slots + 1    \* size_

VARIABLES
  records,                  \* records_
  readIndex, writeIndex,    \* readIndex_, writeIndex_
  pcP, pcC,                 \* control of the producer and of the consumer
  record,                   \* the consumer's copy of the front
  refused,                  \* the last enqueue returned false
  sawRoom, sawItem,         \* isFull / isEmpty returned false since the last call
  guessP, guessC,           \* last result of sizeGuess, -1 when it is outdated
  accepted, delivered       \* history

producer == <<writeIndex, pcP, refused, sawRoom, guessP, accepted>>
consumer == <<readIndex, pcC, record, sawItem, guessC, delivered>>
vars == <<records, producer, consumer>>

Init ==
  /\ records = [i \in 0..Size-1 |-> Raw]
  /\ readIndex = 0 /\ writeIndex = 0
  /\ pcP = "idle" /\ pcC = "idle"
  /\ record = Raw
  /\ refused = FALSE
  /\ sawRoom = FALSE /\ sawItem = FALSE
  /\ guessP = -1 /\ guessC = -1
  /\ accepted = 0 /\ delivered = << >>

\* index + 1, wrapped at size_.
BugSuccWrapsLate(i) == IF i + 1 = Size + 1 THEN 0 ELSE i + 1
Succ(i) == IF i + 1 = Size THEN 0 ELSE i + 1

\* writeIndex_ - readIndex_, made non-negative.
BugDistanceOneShort == IF writeIndex >= readIndex THEN writeIndex - readIndex
                                                  ELSE writeIndex - readIndex + Slots
Distance == IF writeIndex >= readIndex THEN writeIndex - readIndex
                                       ELSE writeIndex - readIndex + Size

-----------------------------------------------------------------------------
\* enqueue, up to the test for room.
BugEnqueueTestSparesTwo ==
  /\ pcP = "idle" /\ accepted < MaxItems
  /\ refused' = (readIndex \in {Succ(writeIndex), Succ(Succ(writeIndex))})
  /\ pcP' = IF refused' THEN "idle" ELSE "construct"
  /\ sawRoom' = FALSE
  /\ guessP' = -1
  /\ UNCHANGED <<records, writeIndex, accepted, consumer>>
EnqueueTest ==
  /\ pcP = "idle" /\ accepted < MaxItems
  /\ refused' = (Succ(writeIndex) = readIndex)
  /\ pcP' = IF refused' THEN "idle" ELSE "construct"
  /\ sawRoom' = FALSE
  /\ guessP' = -1
  /\ UNCHANGED <<records, writeIndex, accepted, consumer>>

Construct ==
  /\ pcP = "construct"
  /\ records' = [records EXCEPT ![writeIndex] = accepted + 1]
  /\ pcP' = "publish"
  /\ UNCHANGED <<writeIndex, refused, sawRoom, guessP, accepted, consumer>>

Publish ==
  /\ pcP = "publish"
  /\ writeIndex' = Succ(writeIndex)
  /\ accepted' = accepted + 1
  /\ pcP' = "idle"
  /\ UNCHANGED <<records, refused, sawRoom, guessP, consumer>>

BugIsFullAtWriteIndex ==
  /\ pcP = "idle"
  /\ sawRoom' = (Succ(writeIndex) # Succ(readIndex))
  /\ UNCHANGED <<records, writeIndex, pcP, refused, guessP, accepted, consumer>>
IsFull ==
  /\ pcP = "idle"
  /\ sawRoom' = (Succ(writeIndex) # readIndex)
  /\ UNCHANGED <<records, writeIndex, pcP, refused, guessP, accepted, consumer>>

SizeGuessProducer ==
  /\ pcP = "idle"
  /\ guessP' = Distance
  /\ UNCHANGED <<records, writeIndex, pcP, refused, sawRoom, accepted, consumer>>

-----------------------------------------------------------------------------
\* try_dequeue up to the test, and frontPtr: the front is there or the call
\* reports an empty queue and changes nothing.
BugDequeueTestUnchecked ==
  /\ pcC = "idle"
  /\ pcC' = "take"
  /\ sawItem' = FALSE
  /\ guessC' = -1
  /\ UNCHANGED <<records, readIndex, record, delivered, producer>>
BugDequeueTestKeepsOne ==
  /\ pcC = "idle"
  /\ pcC' = IF writeIndex \in {readIndex, Succ(readIndex)} THEN "idle" ELSE "take"
  /\ sawItem' = FALSE
  /\ guessC' = -1
  /\ UNCHANGED <<records, readIndex, record, delivered, producer>>
DequeueTest ==
  /\ pcC = "idle"
  /\ pcC' = IF readIndex = writeIndex THEN "idle" ELSE "take"
  /\ sawItem' = FALSE
  /\ guessC' = -1
  /\ UNCHANGED <<records, readIndex, record, delivered, producer>>

\* try_dequeue moves the record out and destroys it; so does the user of
\* frontPtr followed by popFront.
BugTakeFromWriteIndex ==
  /\ pcC = "take"
  /\ record' = records[writeIndex]
  /\ records' = [records EXCEPT ![readIndex] = Raw]
  /\ pcC' = "advance"
  /\ UNCHANGED <<readIndex, sawItem, guessC, delivered, producer>>
Take ==
  /\ pcC = "take"
  /\ record' = records[readIndex]
  /\ records' = [records EXCEPT ![readIndex] = Raw]
  /\ pcC' = "advance"
  /\ UNCHANGED <<readIndex, sawItem, guessC, delivered, producer>>

Advance ==
  /\ pcC = "advance"
  /\ readIndex' = Succ(readIndex)
  /\ delivered' = Append(delivered, record)
  /\ pcC' = "idle"
  /\ UNCHANGED <<records, record, sawItem, guessC, producer>>

IsEmpty ==
  /\ pcC = "idle"
  /\ sawItem' = (readIndex # writeIndex)
  /\ UNCHANGED <<records, readIndex, pcC, record, guessC, delivered, producer>>

SizeGuessConsumer ==
  /\ pcC = "idle"
  /\ guessC' = Distance
  /\ UNCHANGED <<records, readIndex, pcC, record, sawItem, delivered, producer>>

-----------------------------------------------------------------------------
Produce == EnqueueTest \/ Construct \/ Publish
Consume == DequeueTest \/ Take \/ Advance

Next ==
  \/ Produce \/ IsFull \/ SizeGuessProducer
  \/ Consume \/ IsEmpty \/ SizeGuessConsumer

Spec == Init /\ [][Next]_vars

\* The producer finishes a call it has begun, and the consumer polls: the loop
\* of app_run calls isEmpty and try_dequeue for ever.
FairSpec == Spec /\ WF_vars(Construct \/ Publish) /\ WF_vars(Consume)

-----------------------------------------------------------------------------
\* Every variable of the queue has its type.
TypeOK ==
  /\ records \in [0..Size-1 -> Nat]
  /\ readIndex \in 0..Size-1 /\ writeIndex \in 0..Size-1
  /\ pcP \in {"idle", "construct", "publish"}
  /\ pcC \in {"idle", "take", "advance"}
  /\ record \in Nat
  /\ refused \in BOOLEAN /\ sawRoom \in BOOLEAN /\ sawItem \in BOOLEAN
  /\ guessP \in -1..Slots /\ guessC \in -1..Slots
  /\ accepted \in Nat /\ delivered \in Seq(Nat)

\* The two threads never access the same record: the producer constructs only in
\* raw storage that the consumer cannot reach, and the consumer takes only a
\* complete object.
NoSlotRace ==
  /\ pcP = "construct" => records[writeIndex] = Raw
  /\ pcC = "take" => records[readIndex] # Raw
  /\ pcP # "idle" /\ pcC # "idle" => readIndex # writeIndex

\* enqueue returns false only when the queue holds its Slots items.
RefusedOnlyWhenFull ==
  [][refused' /\ ~refused => accepted - Len(delivered) = Slots]_vars

\* The check-then-act of app_run: after isEmpty returned false, try_dequeue
\* cannot fail; likewise enqueue after isFull returned false.
CheckStaysTrue ==
  /\ sawItem /\ pcC = "idle" => readIndex # writeIndex
  /\ sawRoom /\ pcP = "idle" => Succ(writeIndex) # readIndex

\* The comment on sizeGuess: called by the consumer the true size may only be
\* more, called by the producer it may only be less.
GuessIsBound ==
  /\ guessC # -1 => guessC <= accepted - Len(delivered)
  /\ guessP # -1 => guessP >= accepted - Len(delivered)

Fifo == INSTANCE BoundedFifo WITH Capacity <- Slots

\* The ring implements the bounded first-in first-out channel.
ImplementsFifo == Fifo!Spec

\* Everything that was enqueued is dequeued by a consumer that keeps polling.
AllConsumed == \A k \in 1..MaxItems : (accepted >= k) ~> (Len(delivered) >= k)
=============================================================================
