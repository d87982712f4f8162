---------------------------- MODULE SaveDataProofs ----------------------------
(***************************************************************************)
(* The data saver loses no frame for good and leaves nothing under way     *)
(* behind a stop, for every number and size of frames, items and workers.  *)
(*                                                                         *)
(* The argument for InUseIsPending: in a running stream the items queued   *)
(* or waiting are for different marked frames, none of them the current    *)
(* one, so there are fewer than Frames of them; every other item in use    *)
(* keeps a worker thread.  A frame that is full therefore finds an item.   *)
(***************************************************************************)
EXTENDS SaveData, Integers, FiniteSetTheorems, WellFoundedInduction, TLAPS

(* A nonempty set of natural numbers has a least element.                  *)
LEMMA LeastIn ==
  ASSUME NEW T, T \subseteq Nat, T # {}
  PROVE  Min(T) \in T
<1>1. PICK x \in T : \A y \in T : ~(<<y, x>> \in OpToRel(<, Nat))
  BY WFMin, NatLessThanWellFounded
<1>2. \A y \in T : <<y, x>> \in OpToRel(<, Nat) <=> y < x
  BY DEF OpToRel
<1>3. \A y \in T : x <= y
  <2>1. x \in Nat /\ \A y \in T : y \in Nat /\ ~(y < x)
    BY <1>1, <1>2
  <2>2. QED
    BY <2>1
<1>4. QED
  BY <1>3 DEF Min

(* Frame after frame, without the products.                                *)
LEMMA NextFrame ==
  ASSUME NEW i \in Nat, NEW F \in Nat
  PROVE  /\ i * F \in Nat
         /\ (i + 1) * F = i * F + F
         /\ (i + 2) * F = i * F + F + F
BY SMT

LEMMA FramesInOrder ==
  ASSUME NEW i \in Nat, NEW j \in Nat, NEW F \in Nat, i < j
  PROVE  i * F + F <= j * F
<1>1. PICK d \in Nat : j = i + 1 + d
  <2>1. j - i - 1 \in Nat /\ j = i + 1 + (j - i - 1)
    OBVIOUS
  <2>2. QED
    BY <2>1
<1>2. j * F = i * F + F + d * F /\ d * F \in Nat /\ i * F \in Nat /\ j * F \in Nat
  BY <1>1, SMT
<1>3. QED
  BY <1>2

-----------------------------------------------------------------------------
(* The inductive invariant.                                                *)

(* The queue holds the queued items, each once.                            *)
QueueOK ==
  /\ \A k \in 1 .. Len(queue) : item[queue[k]].at = "queued"
  /\ \A i \in ItemNumbers :
       item[i].at = "queued" => \E k \in 1 .. Len(queue) : queue[k] = i
  /\ \A k, l \in 1 .. Len(queue) : queue[k] = queue[l] => k = l

WorkersBounded == Cardinality(Threads) <= Workers

(* While the stream runs, the items under way are for different frames,    *)
(* and these are marked.                                                   *)
PendingApart ==
  stream = "running" =>
    \A i, j \in ItemNumbers :
      Pending(i) /\ Pending(j) =>
        /\ used[item[i].frame]
        /\ item[i].frame = item[j].frame => i = j

IInv ==
  /\ TypeOK /\ OffsetInFrame /\ QueueOK /\ WorkersBounded
  /\ PendingApart /\ InUseIsPending /\ StoppedIsQuiet

ItemRecords == [at : {"done", "queued", "waiting", "released"},
                frame : FrameNumbers, bytes : 0 .. FrameSize]

-----------------------------------------------------------------------------
LEMMA ThreadsFinite == IsFiniteSet(Threads)
<1>1. IsFiniteSet(ItemNumbers)
  BY FS_Interval, SaveDataAssumption DEF ItemNumbers
<1>2. Threads \in SUBSET ItemNumbers
  BY DEF Threads
<1>3. QED
  BY <1>1, <1>2, FS_Subset

(* A frame that is full always finds an item: the items under way are for  *)
(* other frames than the current one, and the released ones each keep a    *)
(* worker.                                                                 *)
LEMMA RoomForFrame ==
  ASSUME TypeOK, WorkersBounded, PendingApart,
         stream = "running", ~used[frame], Items >= Frames + Workers
  PROVE  Free # {}
<1> DEFINE P == {i \in ItemNumbers : Pending(i)}
           others == FrameNumbers \ {frame}
           f == [i \in P |-> item[i].frame]
<1>1. f \in Injection(P, others)
  <2>1. \A i \in P : item[i].frame \in others
    BY DEF TypeOK, PendingApart
  <2>2. \A i, j \in P : item[i].frame = item[j].frame => i = j
    BY DEF PendingApart
  <2>3. f \in [P -> others]
    BY <2>1
  <2>4. IsInjective(f)
    BY <2>2 DEF IsInjective
  <2>5. QED
    BY <2>3, <2>4 DEF Injection
<1>2. /\ IsFiniteSet(others)
      /\ Cardinality(others) = Frames - 1
  <2>1. /\ IsFiniteSet(FrameNumbers)
        /\ Cardinality(FrameNumbers) = Frames
    BY FS_Interval, SaveDataAssumption DEF FrameNumbers
  <2>2. QED
    BY <2>1, FS_RemoveElement DEF TypeOK
<1>3. /\ IsFiniteSet(P)
      /\ Cardinality(P) <= Frames - 1
  BY <1>1, <1>2, FS_Injection
<1>4. /\ IsFiniteSet(ItemNumbers)
      /\ Cardinality(ItemNumbers) = Items
  BY FS_Interval, SaveDataAssumption DEF ItemNumbers
<1>5. IsFiniteSet(Threads)
  BY ThreadsFinite
<1>6. /\ IsFiniteSet(P \cup Threads)
      /\ Cardinality(P \cup Threads) < Items
  <2>1. /\ Cardinality(P) \in Nat /\ Cardinality(Threads) \in Nat
        /\ Cardinality(P \cap Threads) \in Nat
    BY <1>3, <1>5, FS_CardinalityType, FS_Intersection
  <2>2. /\ IsFiniteSet(P \cup Threads)
        /\ Cardinality(P \cup Threads)
             = Cardinality(P) + Cardinality(Threads) - Cardinality(P \cap Threads)
    BY <1>3, <1>5, FS_Union
  <2> HIDE DEF P
  <2>3. QED
    BY <1>3, <2>1, <2>2, SaveDataAssumption DEF WorkersBounded
<1>7. SUFFICES ASSUME Free = {} PROVE FALSE
  OBVIOUS
<1>8. ItemNumbers = P \cup Threads
  BY <1>7 DEF Free, Threads, Pending, TypeOK
<1> HIDE DEF P
<1>9. Items < Items
  BY <1>4, <1>6, <1>8
<1>10. QED
  BY <1>9, SaveDataAssumption

(* A frame takes a free item to the end of the queue, or leaves all alone. *)
Enqueue(i, f, bytes) ==
  /\ item' = [item EXCEPT ![i] = [at |-> "queued", frame |-> f, bytes |-> bytes]]
  /\ queue' = Append(queue, i)

LEMMA SaveFrameTakes ==
  ASSUME NEW f, NEW bytes, SaveFrame(f, bytes)
  PROVE  \/ Free = {} /\ UNCHANGED <<item, queue>>
         \/ \E i \in Free : Enqueue(i, f, bytes)
<1>1. CASE Free = {}
  BY <1>1 DEF SaveFrame
<1>2. CASE Free # {}
  <2>1. Min(Free) \in Free
    BY <1>2, LeastIn DEF Free, ItemNumbers
  <2>2. Enqueue(Min(Free), f, bytes)
    BY <1>2 DEF SaveFrame, Enqueue
  <2>3. QED
    BY <2>1, <2>2
<1>3. QED
  BY <1>1, <1>2

LEMMA EnqueueKeeps ==
  ASSUME TypeOK, QueueOK, WorkersBounded,
         NEW i \in Free, NEW f \in FrameNumbers, NEW bytes \in 0 .. FrameSize,
         Enqueue(i, f, bytes)
  PROVE  /\ item' \in [ItemNumbers -> ItemRecords] /\ queue' \in Seq(ItemNumbers)
         /\ QueueOK' /\ WorkersBounded'
         /\ i \in ItemNumbers /\ ~Pending(i) /\ Pending(i)'
         /\ item'[i].frame = f /\ item'[i].bytes = bytes
         /\ \A j \in ItemNumbers \ {i} : item'[j] = item[j]
<1>1. /\ i \in ItemNumbers /\ item[i].at = "done"
      /\ item' = [item EXCEPT ![i] = [at |-> "queued", frame |-> f, bytes |-> bytes]]
      /\ queue' = Append(queue, i)
  BY DEF Free, Enqueue
<1>2. /\ item' \in [ItemNumbers -> ItemRecords] /\ queue' \in Seq(ItemNumbers)
      /\ item'[i] = [at |-> "queued", frame |-> f, bytes |-> bytes]
      /\ \A j \in ItemNumbers \ {i} : item'[j] = item[j]
  BY <1>1 DEF TypeOK, ItemRecords
<1>3. /\ Len(queue) \in Nat /\ Len(queue') = Len(queue) + 1
      /\ \A k \in 1 .. Len(queue) : queue'[k] = queue[k] /\ queue[k] \in ItemNumbers
      /\ queue'[Len(queue) + 1] = i
  BY <1>1 DEF TypeOK
<1>4. \A k \in 1 .. Len(queue) : queue[k] # i
  BY <1>1 DEF QueueOK
<1>5. QueueOK'
  <2>1. \A k \in 1 .. Len(queue') : item'[queue'[k]].at = "queued"
    BY <1>2, <1>3, <1>4 DEF QueueOK
  <2>2. ASSUME NEW j \in ItemNumbers, item'[j].at = "queued"
        PROVE  \E k \in 1 .. Len(queue') : queue'[k] = j
    <3>1. CASE j = i
      BY <3>1, <1>3
    <3>2. CASE j # i
      <4>1. PICK k \in 1 .. Len(queue) : queue[k] = j
        BY <3>2, <2>2, <1>2 DEF QueueOK
      <4>2. QED
        BY <4>1, <1>3
    <3>3. QED
      BY <3>1, <3>2
  <2>3. ASSUME NEW k \in 1 .. Len(queue'), NEW l \in 1 .. Len(queue'), queue'[k] = queue'[l]
        PROVE  k = l
    BY <2>3, <1>3, <1>4 DEF QueueOK
  <2>4. QED
    BY <2>1, <2>2, <2>3 DEF QueueOK
<1>6. Threads' = Threads
  BY <1>1, <1>2 DEF Threads
<1>7. QED
  BY <1>1, <1>2, <1>5, <1>6 DEF WorkersBounded, Pending

LEMMA SaveFrameKeeps ==
  ASSUME TypeOK, QueueOK, WorkersBounded,
         NEW f \in FrameNumbers, NEW bytes \in 0 .. FrameSize,
         SaveFrame(f, bytes)
  PROVE  /\ item' \in [ItemNumbers -> ItemRecords] /\ queue' \in Seq(ItemNumbers)
         /\ QueueOK' /\ WorkersBounded'
         /\ \A j \in ItemNumbers : Pending(j) => Pending(j)' /\ item'[j] = item[j]
         /\ \A j, k \in ItemNumbers :
              Pending(j)' /\ ~Pending(j) =>
                /\ item'[j].frame = f /\ item'[j].bytes = bytes
                /\ Pending(k)' /\ ~Pending(k) => j = k
         /\ Free # {} => \E i \in ItemNumbers : Pending(i)' /\ item'[i].frame = f
<1>1. CASE Free = {} /\ UNCHANGED <<item, queue>>
  BY <1>1 DEF TypeOK, QueueOK, WorkersBounded, Threads, Pending, ItemRecords
<1>2. ASSUME NEW i \in Free, Enqueue(i, f, bytes)
      PROVE  /\ item' \in [ItemNumbers -> ItemRecords] /\ queue' \in Seq(ItemNumbers)
             /\ QueueOK' /\ WorkersBounded'
             /\ i \in ItemNumbers /\ ~Pending(i) /\ Pending(i)'
             /\ item'[i].frame = f /\ item'[i].bytes = bytes
             /\ \A j \in ItemNumbers \ {i} : item'[j] = item[j]
  BY <1>2, EnqueueKeeps
<1>3. ASSUME NEW i \in Free, Enqueue(i, f, bytes)
      PROVE  \A j \in ItemNumbers \ {i} : Pending(j)' <=> Pending(j)
  BY <1>2, <1>3 DEF Pending
<1>4. QED
  BY <1>1, <1>2, <1>3, SaveFrameTakes

-----------------------------------------------------------------------------
(* The offsets of WriteData, with the products of the frame size taken out *)
(* of the arithmetic.                                                      *)

LEMMA SizeType == Size \in Nat /\ Size = Frames * FrameSize
  BY SaveDataAssumption, SMT DEF Size

(* Where the current frame begins and ends in the buffer.                  *)
LEMMA FrameBounds ==
  ASSUME NEW i \in FrameNumbers
  PROVE  /\ i * FrameSize \in Nat
         /\ (i + 1) * FrameSize = i * FrameSize + FrameSize
         /\ (i + 1) * FrameSize <= Size
         /\ i + 1 = Frames => (i + 1) * FrameSize = Size
         /\ i + 1 # Frames =>
              /\ i + 1 \in FrameNumbers
              /\ (i + 2) * FrameSize = i * FrameSize + FrameSize + FrameSize
              /\ (i + 2) * FrameSize <= Size
<1>1. /\ i \in Nat /\ Frames \in Nat /\ FrameSize \in Nat /\ i < Frames
      /\ i + 1 # Frames => i + 1 \in FrameNumbers /\ i + 1 \in Nat /\ i + 1 < Frames
  BY SaveDataAssumption DEF FrameNumbers
<1>2. /\ i * FrameSize \in Nat
      /\ (i + 1) * FrameSize = i * FrameSize + FrameSize
      /\ (i + 2) * FrameSize = i * FrameSize + FrameSize + FrameSize
  BY <1>1, NextFrame
<1>3. i * FrameSize + FrameSize <= Frames * FrameSize
  BY <1>1, FramesInOrder
<1>4. i + 1 # Frames => (i + 1) * FrameSize + FrameSize <= Frames * FrameSize
  BY <1>1, FramesInOrder
<1>5. QED
  BY <1>1, <1>2, <1>3, <1>4, SizeType

LEMMA NextIndex ==
  ASSUME NEW i \in FrameNumbers
  PROVE  (i + 1) % Frames = IF i + 1 = Frames THEN 0 ELSE i + 1
  BY SaveDataAssumption DEF FrameNumbers

(* What a call hands over is at most a frame, and not nothing.             *)
LEMMA WriteLength ==
  ASSUME NEW n \in WriteSizes
  PROVE  Least(n, FrameSize) \in 1 .. FrameSize
  BY SaveDataAssumption DEF Least

LEMMA StoreMoves ==
  ASSUME TypeOK, OffsetInFrame, NEW n \in 1 .. FrameSize, Store(n)
  PROVE  /\ taken' \in Nat /\ offset' \in Nat /\ frame' \in FrameNumbers
         /\ buffer' \in [0 .. Size - 1 -> Nat]
         /\ OffsetInFrame'
         /\ \/ used' = used /\ UNCHANGED <<item, queue>>
            \/ used' = [used EXCEPT ![frame] = TRUE] /\ SaveFrame(frame, FrameSize)
<1> DEFINE a == frame * FrameSize
           room == Least(n, Size - offset)
           end == offset + room
           full == Full(end)
           next == IF full THEN (frame + 1) % Frames ELSE frame
           start == IF end = Size THEN 0 ELSE end
           left == IF MarkUsed(full)[next] THEN 0 ELSE n - room
<1>1. /\ buffer' = Copy(Copy(buffer, offset, room, taken + 1), start, left, taken + 1 + room)
      /\ taken' = taken + room + left
      /\ offset' = start + left
      /\ frame' = next
      /\ used' = MarkUsed(full)
      /\ IF full THEN SaveFrame(frame, FrameSize) ELSE UNCHANGED <<item, queue>>
  BY DEF Store
<1>2. /\ frame \in FrameNumbers /\ offset \in Nat /\ taken \in Nat /\ a \in Nat
      /\ FrameSize \in Nat /\ n \in Nat /\ Size \in Nat
      /\ a <= offset /\ offset < a + FrameSize /\ a + FrameSize <= Size
      /\ frame + 1 = Frames => a + FrameSize = Size
      /\ frame + 1 # Frames => a + FrameSize + FrameSize <= Size
      /\ Full(end) <=> end >= a + FrameSize \/ end = Size
  BY FrameBounds, SizeType, SaveDataAssumption DEF TypeOK, OffsetInFrame, Full
<1>3. /\ next = IF ~full THEN frame ELSE IF frame + 1 = Frames THEN 0 ELSE frame + 1
      /\ next \in FrameNumbers
  BY <1>2, NextIndex, FrameBounds, SaveDataAssumption DEF FrameNumbers
<1>4. next * FrameSize =
        IF ~full THEN a ELSE IF frame + 1 = Frames THEN 0 ELSE a + FrameSize
  BY <1>2, <1>3, FrameBounds
<1>5. (next + 1) * FrameSize = next * FrameSize + FrameSize
  BY <1>3, FrameBounds
<1>6. left = 0 \/ left = n - room
  OBVIOUS
<1> HIDE DEF a, left, next
<1>7. /\ room \in Nat /\ room >= 1 /\ room <= n /\ end \in Nat /\ end <= Size
      /\ start \in Nat /\ left \in Nat /\ left < FrameSize
      /\ room = n \/ end = Size
  BY <1>2, <1>6 DEF Least
<1>8. /\ ~full => end < a + FrameSize /\ end # Size /\ left = 0
      /\ full /\ end = Size => frame + 1 = Frames
      /\ full /\ end # Size => /\ left = 0 /\ frame + 1 # Frames
                               /\ a + FrameSize <= end /\ end < a + FrameSize + FrameSize
  BY <1>2, <1>6, <1>7
<1>9. OffsetInFrame'
  <2>1. next * FrameSize <= start + left /\ start + left < next * FrameSize + FrameSize
    BY <1>2, <1>4, <1>7, <1>8
  <2>2. QED
    BY <2>1, <1>1, <1>5 DEF OffsetInFrame
<1>10. buffer' \in [0 .. Size - 1 -> Nat]
  <2>1. \A cells \in [0 .. Size - 1 -> Nat], s, m, first \in Nat :
          Copy(cells, s, m, first) \in [0 .. Size - 1 -> Nat]
    BY <1>2 DEF Copy
  <2>2. /\ buffer \in [0 .. Size - 1 -> Nat] /\ taken + 1 \in Nat
        /\ taken + 1 + room \in Nat /\ offset \in Nat
    BY <1>2, <1>7 DEF TypeOK
  <2> HIDE DEF room, start
  <2>3. Copy(buffer, offset, room, taken + 1) \in [0 .. Size - 1 -> Nat]
    BY <2>1, <2>2, <1>7
  <2>4. QED
    BY <2>1, <2>2, <2>3, <1>1, <1>7
<1>11. taken' \in Nat /\ offset' \in Nat /\ frame' \in FrameNumbers
  <2> HIDE DEF room, start
  <2>1. QED
    BY <1>1, <1>2, <1>3, <1>7
<1>12. \/ used' = used /\ UNCHANGED <<item, queue>>
       \/ used' = [used EXCEPT ![frame] = TRUE] /\ SaveFrame(frame, FrameSize)
  <2>1. CASE full
    BY <2>1, <1>1 DEF MarkUsed
  <2>2. CASE ~full
    BY <2>2, <1>1 DEF MarkUsed
  <2>3. QED
    BY <2>1, <2>2
<1>13. QED
  BY <1>9, <1>10, <1>11, <1>12

-----------------------------------------------------------------------------
(* One lemma per action, or per group of actions that touch the same.      *)

LEMMA InitIInv == Init => IInv
<1> SUFFICES ASSUME Init PROVE IInv
  OBVIOUS
<1> USE SaveDataAssumption DEF Init
<1>1. TypeOK
  <2>1. 0 \in FrameNumbers /\ 0 \in 0 .. FrameSize
    BY DEF FrameNumbers
  <2>2. item \in [ItemNumbers -> ItemRecords]
    BY <2>1 DEF Done, ItemRecords
  <2>3. queue \in Seq(ItemNumbers) /\ file \in Seq(Nat)
    OBVIOUS
  <2>4. QED
    BY <2>1, <2>2, <2>3 DEF TypeOK, ItemRecords
<1>2. OffsetInFrame
  <2>1. 0 * FrameSize = 0 /\ (0 + 1) * FrameSize = FrameSize
    BY SMT
  <2>2. QED
    BY <2>1 DEF OffsetInFrame
<1>3. QueueOK
  BY DEF QueueOK, Done
<1>4. WorkersBounded
  <2>1. Threads = {}
    BY DEF Threads, Done
  <2>2. QED
    BY <2>1, FS_EmptySet DEF WorkersBounded
<1>5. PendingApart /\ InUseIsPending /\ StoppedIsQuiet
  BY DEF PendingApart, Pending, InUseIsPending, StoppedIsQuiet, Done
<1>6. QED
  BY <1>1, <1>2, <1>3, <1>4, <1>5 DEF IInv

LEMMA WriteDataKeepsIInv ==
  ASSUME IInv, WriteData
  PROVE  IInv'
<1>1. PICK n \in WriteSizes : Store(Least(n, FrameSize))
  BY DEF WriteData
<1>2. /\ stream = "running" /\ ~used[frame] /\ frame \in FrameNumbers
      /\ UNCHANGED <<stream, disabled, partial, file>>
      /\ used \in [FrameNumbers -> BOOLEAN] /\ spilled' \in BOOLEAN
  BY <1>1 DEF WriteData, IInv, TypeOK, Store
<1>3. /\ taken' \in Nat /\ offset' \in Nat /\ frame' \in FrameNumbers
      /\ buffer' \in [0 .. Size - 1 -> Nat]
      /\ OffsetInFrame'
      /\ \/ used' = used /\ UNCHANGED <<item, queue>>
         \/ used' = [used EXCEPT ![frame] = TRUE] /\ SaveFrame(frame, FrameSize)
  BY <1>1, WriteLength, StoreMoves DEF IInv
<1>4. CASE used' = used /\ UNCHANGED <<item, queue>>
  BY <1>2, <1>3, <1>4
  DEF IInv, TypeOK, QueueOK, WorkersBounded, Threads, PendingApart, Pending, InUseIsPending,
      StoppedIsQuiet, Free
<1>5. CASE used' = [used EXCEPT ![frame] = TRUE] /\ SaveFrame(frame, FrameSize)
  <2>1. FrameSize \in 0 .. FrameSize
    BY SaveDataAssumption
  <2>2. /\ item' \in [ItemNumbers -> ItemRecords] /\ queue' \in Seq(ItemNumbers)
        /\ QueueOK' /\ WorkersBounded'
        /\ \A j \in ItemNumbers : Pending(j) => Pending(j)' /\ item'[j] = item[j]
        /\ \A j, k \in ItemNumbers :
             Pending(j)' /\ ~Pending(j) =>
               /\ item'[j].frame = frame
               /\ Pending(k)' /\ ~Pending(k) => j = k
        /\ Free # {} => \E i \in ItemNumbers : Pending(i)' /\ item'[i].frame = frame
    BY <1>2, <1>5, <2>1, SaveFrameKeeps DEF IInv
  <2>3. TypeOK'
    BY <1>2, <1>3, <1>5, <2>2 DEF IInv, TypeOK, ItemRecords
  <2>4. PendingApart'
    <3>1. \A j \in ItemNumbers : Pending(j) =>
            /\ item'[j].frame = item[j].frame /\ item[j].frame \in FrameNumbers
            /\ used[item[j].frame] /\ item[j].frame # frame
      BY <1>2, <2>2 DEF IInv, TypeOK, PendingApart
    <3>2. \A j \in ItemNumbers : Pending(j)' => used'[item'[j].frame]
      BY <1>2, <1>5, <2>2, <3>1
    <3>3. ASSUME NEW j \in ItemNumbers, NEW k \in ItemNumbers,
                 Pending(j)', Pending(k)', item'[j].frame = item'[k].frame
          PROVE  j = k
      <4>1. CASE Pending(j) /\ Pending(k)
        BY <1>2, <3>1, <3>3, <4>1 DEF IInv, PendingApart
      <4>2. CASE ~Pending(j) /\ Pending(k)
        BY <2>2, <3>1, <3>3, <4>2
      <4>3. CASE Pending(j) /\ ~Pending(k)
        BY <2>2, <3>1, <3>3, <4>3
      <4>4. CASE ~Pending(j) /\ ~Pending(k)
        BY <2>2, <3>3, <4>4
      <4>5. QED
        BY <4>1, <4>2, <4>3, <4>4
    <3>4. QED
      BY <3>2, <3>3 DEF PendingApart, Pending
  <2>5. InUseIsPending'
    <3>1. SUFFICES ASSUME Items >= Frames + Workers, NEW f \in FrameNumbers, used'[f]
                   PROVE  \E i \in ItemNumbers : Pending(i)' /\ item'[i].frame = f
      BY DEF InUseIsPending, Pending
    <3>2. Free # {}
      BY <1>2, <3>1, RoomForFrame DEF IInv
    <3>3. CASE f = frame
      BY <2>2, <3>2, <3>3
    <3>4. CASE f # frame
      <4>1. PICK i \in ItemNumbers : Pending(i) /\ item[i].frame = f
        BY <1>2, <1>5, <3>1, <3>4 DEF IInv, InUseIsPending
      <4>2. QED
        BY <2>2, <4>1
    <3>5. QED
      BY <3>3, <3>4
  <2>6. StoppedIsQuiet'
    BY <1>2 DEF StoppedIsQuiet
  <2>7. QED
    BY <1>3, <2>2, <2>3, <2>4, <2>5, <2>6 DEF IInv
<1>6. QED
  BY <1>3, <1>4, <1>5

LEMMA DequeueKeepsIInv ==
  ASSUME IInv, Dequeue
  PROVE  IInv'
<1> DEFINE h == Head(queue)
<1>1. /\ queue # << >> /\ Cardinality(Threads) < Workers
      /\ item' = [item EXCEPT ![h].at = "waiting"] /\ queue' = Tail(queue)
      /\ UNCHANGED <<stream, disabled, taken, offset, frame, spilled, partial, buffer, used, file>>
  BY DEF Dequeue, MoveTo, writer
<1>2. /\ Len(queue) \in Nat \ {0} /\ h = queue[1] /\ h \in ItemNumbers
      /\ queue' \in Seq(ItemNumbers) /\ Len(queue') = Len(queue) - 1
      /\ \A k \in 1 .. Len(queue') : queue'[k] = queue[k + 1] /\ k + 1 \in 1 .. Len(queue)
      /\ 1 \in 1 .. Len(queue)
  BY <1>1 DEF IInv, TypeOK
<1>3. item[h].at = "queued"
  BY <1>2 DEF IInv, QueueOK
<1>4. /\ item' \in [ItemNumbers -> ItemRecords]
      /\ item'[h].at = "waiting" /\ item'[h].frame = item[h].frame
      /\ \A j \in ItemNumbers \ {h} : item'[j] = item[j]
  BY <1>1, <1>2 DEF IInv, TypeOK, ItemRecords
<1>5. TypeOK'
  BY <1>1, <1>2, <1>4 DEF IInv, TypeOK, ItemRecords
<1>6. OffsetInFrame'
  BY <1>1 DEF IInv, OffsetInFrame
<1> HIDE DEF h
<1>7. QueueOK'
  <2>1. \A k \in 1 .. Len(queue') : queue'[k] # h
    BY <1>2 DEF IInv, QueueOK
  <2>2. \A k \in 1 .. Len(queue') : item'[queue'[k]].at = "queued"
    <3>1. \A k \in 1 .. Len(queue') : queue'[k] \in ItemNumbers
      BY <1>2
    <3>2. QED
      BY <1>2, <1>4, <2>1, <3>1 DEF IInv, QueueOK
  <2>3. ASSUME NEW j \in ItemNumbers, item'[j].at = "queued"
        PROVE  \E k \in 1 .. Len(queue') : queue'[k] = j
    <3>1. j # h /\ item[j].at = "queued"
      BY <1>4, <2>3
    <3>2. PICK k \in 1 .. Len(queue) : queue[k] = j
      BY <3>1 DEF IInv, QueueOK
    <3>3. k # 1 /\ k - 1 \in 1 .. Len(queue')
      BY <1>2, <3>1, <3>2
    <3>4. queue'[k - 1] = queue[k]
      BY <1>2, <3>3
    <3>5. QED
      BY <3>2, <3>3, <3>4
  <2>4. ASSUME NEW k \in 1 .. Len(queue'), NEW l \in 1 .. Len(queue'), queue'[k] = queue'[l]
        PROVE  k = l
    <3>1. k + 1 = l + 1
      BY <1>2, <2>4 DEF IInv, QueueOK
    <3>2. QED
      BY <3>1
  <2>5. QED
    BY <2>2, <2>3, <2>4 DEF QueueOK
<1>8. WorkersBounded'
  <2>1. IsFiniteSet(Threads)
    BY ThreadsFinite
  <2>2. Threads' = Threads \cup {h} /\ h \notin Threads
    BY <1>2, <1>3, <1>4 DEF Threads
  <2>3. Cardinality(Threads') = Cardinality(Threads) + 1 /\ Cardinality(Threads) \in Nat
    BY <2>1, <2>2, FS_AddElement, FS_CardinalityType
  <2>4. QED
    BY <1>1, <2>3, SaveDataAssumption DEF WorkersBounded
<1>9. \A j \in ItemNumbers : (Pending(j)' <=> Pending(j)) /\ item'[j].frame = item[j].frame
  BY <1>3, <1>4 DEF Pending
<1>10. PendingApart' /\ InUseIsPending'
  BY <1>1, <1>9 DEF IInv, PendingApart, InUseIsPending, Pending
<1>11. StoppedIsQuiet'
  BY <1>1 DEF IInv, StoppedIsQuiet
<1>12. QED
  BY <1>5, <1>6, <1>7, <1>8, <1>10, <1>11 DEF IInv

(* What is saved lies in the buffer.                                       *)
LEMMA ContentType ==
  ASSUME TypeOK, NEW i \in ItemNumbers
  PROVE  Content(i) \in Seq(Nat)
<1>1. /\ item[i].frame \in FrameNumbers /\ item[i].bytes \in Nat
      /\ item[i].bytes <= FrameSize /\ FrameSize \in Nat
      /\ buffer \in [0 .. Size - 1 -> Nat]
  BY SaveDataAssumption DEF TypeOK
<1> DEFINE a == item[i].frame * FrameSize
<1>2. a \in Nat /\ a + FrameSize <= Size /\ Size \in Nat
  BY <1>1, FrameBounds, SizeType
<1> HIDE DEF a
<1>3. \A k \in 1 .. item[i].bytes : a + k - 1 \in 0 .. Size - 1
  BY <1>1, <1>2
<1>4. \A k \in 1 .. item[i].bytes : buffer[a + k - 1] \in Nat
  BY <1>1, <1>3
<1>5. [k \in 1 .. item[i].bytes |-> buffer[a + k - 1]] \in Seq(Nat)
  BY <1>1, <1>4
<1>6. QED
  BY <1>5 DEF Content, a

LEMMA WorkerKeepsIInv ==
  ASSUME IInv, NEW i \in ItemNumbers, Worker(i)
  PROVE  IInv'
<1>0. /\ item \in [ItemNumbers -> ItemRecords] /\ used \in [FrameNumbers -> BOOLEAN]
      /\ 0 \in FrameNumbers /\ 0 \in 0 .. FrameSize
  BY SaveDataAssumption DEF IInv, TypeOK, ItemRecords, FrameNumbers
<1>1. /\ item[i].at \in {"waiting", "released"}
      /\ item' \in [ItemNumbers -> ItemRecords]
      /\ item'[i].at \in {"released", "done"}
      /\ \A j \in ItemNumbers \ {i} : item'[j] = item[j]
  <2>1. CASE SaveToFile(i)
    <3>1. item[i].at = "waiting" /\ item' = [item EXCEPT ![i].at = "released"]
      BY <2>1 DEF SaveToFile, MoveTo
    <3>2. item[i] \in ItemRecords /\ [item[i] EXCEPT !.at = "released"] \in ItemRecords
      BY <1>0 DEF ItemRecords
    <3>3. QED
      BY <1>0, <3>1, <3>2
  <2>2. CASE SetDone(i)
    <3>1. item[i].at = "released" /\ item' = [item EXCEPT ![i] = Done]
      BY <2>2 DEF SetDone
    <3>2. Done \in ItemRecords /\ Done.at = "done"
      BY <1>0 DEF ItemRecords, Done
    <3>3. QED
      BY <1>0, <3>1, <3>2
  <2>3. QED
    BY <2>1, <2>2 DEF Worker
<1>a. UNCHANGED <<stream, disabled, taken, offset, frame, spilled, partial, buffer, queue>>
  BY DEF Worker, SaveToFile, SetDone, writer
<1>2. \/ item[i].at = "waiting" /\ used' = [used EXCEPT ![item[i].frame] = FALSE]
      \/ item[i].at = "released" /\ used' = used
  BY DEF Worker, SaveToFile, SetDone, FreeFrame
<1>3. file' \in Seq(Nat)
  <2>1. file \in Seq(Nat) /\ Content(i) \in Seq(Nat)
    BY ContentType DEF IInv, TypeOK
  <2>2. file' = file \/ file' = file \o Content(i)
    BY DEF Worker, SaveToFile, SetDone
  <2>3. file \o Content(i) \in Seq(Nat)
    BY <2>1
  <2>4. QED
    BY <2>1, <2>2, <2>3
<1>4. TypeOK' /\ OffsetInFrame'
  BY <1>0, <1>1, <1>a, <1>2, <1>3 DEF IInv, TypeOK, OffsetInFrame, ItemRecords
<1>5. QueueOK'
  <2>1. \A j \in ItemNumbers : item'[j].at = "queued" <=> item[j].at = "queued"
    BY <1>1
  <2>2. \A k \in 1 .. Len(queue) : queue[k] \in ItemNumbers
    BY DEF IInv, TypeOK
  <2>3. QED
    BY <1>a, <2>1, <2>2 DEF IInv, QueueOK
<1>6. WorkersBounded'
  <2>1. IsFiniteSet(Threads) /\ Threads' \in SUBSET Threads
    BY <1>1, ThreadsFinite DEF Threads
  <2>2. /\ IsFiniteSet(Threads') /\ Cardinality(Threads') <= Cardinality(Threads)
        /\ Cardinality(Threads) \in Nat
    BY <2>1, FS_Subset, FS_CardinalityType
  <2>3. Cardinality(Threads') \in Nat
    BY <2>2, FS_CardinalityType
  <2>4. QED
    BY <2>2, <2>3, SaveDataAssumption DEF IInv, WorkersBounded
<1>7. \A j \in ItemNumbers :
        /\ Pending(j)' => Pending(j) /\ j # i /\ item'[j] = item[j]
        /\ Pending(j) /\ j # i => Pending(j)'
        /\ Pending(i) => item[i].at = "waiting"
  BY <1>1 DEF Pending
<1>8. PendingApart'
  <2>1. ASSUME stream = "running", NEW j \in ItemNumbers, Pending(j)'
        PROVE  used'[item'[j].frame]
    <3>1. /\ used[item[j].frame] /\ item'[j] = item[j] /\ item[j].frame \in FrameNumbers
          /\ Pending(j) /\ j # i
      BY <1>0, <1>7, <2>1 DEF IInv, PendingApart, ItemRecords
    <3>2. item[i].at = "waiting" => item[j].frame # item[i].frame
      BY <2>1, <3>1 DEF IInv, PendingApart, Pending
    <3>3. QED
      BY <1>0, <1>2, <3>1, <3>2
  <2>2. QED
    BY <1>1, <1>a, <1>7, <2>1 DEF IInv, PendingApart, Pending
<1>9. InUseIsPending'
  <2>1. SUFFICES ASSUME Items >= Frames + Workers, NEW f \in FrameNumbers, used'[f]
                 PROVE  \E j \in ItemNumbers : Pending(j)' /\ item'[j].frame = f
    BY DEF InUseIsPending, Pending
  <2>2. used[f] /\ (item[i].at = "waiting" => f # item[i].frame)
    BY <1>0, <1>2, <2>1
  <2>3. PICK j \in ItemNumbers : Pending(j) /\ item[j].frame = f
    BY <2>1, <2>2 DEF IInv, InUseIsPending
  <2>4. j # i
    BY <1>7, <2>2, <2>3
  <2>5. QED
    BY <1>1, <1>7, <2>3, <2>4
<1>10. StoppedIsQuiet'
  BY <1>1, <1>a DEF IInv, StoppedIsQuiet, Free
<1>11. QED
  BY <1>4, <1>5, <1>6, <1>8, <1>9, <1>10 DEF IInv

LEMMA BeginStopKeepsIInv ==
  ASSUME IInv, BeginStop
  PROVE  IInv'
<1>1. /\ stream = "running" /\ stream' = "stopping" /\ partial' \in BOOLEAN
      /\ UNCHANGED <<disabled, taken, offset, frame, spilled, buffer, used, file>>
      /\ frame \in FrameNumbers
  BY DEF BeginStop, IInv, TypeOK
<1>2. PendingApart' /\ StoppedIsQuiet'
  BY <1>1 DEF PendingApart, StoppedIsQuiet
<1>3. CASE UNCHANGED <<item, queue>>
  <2>1. TypeOK' /\ OffsetInFrame'
    BY <1>1, <1>3 DEF IInv, TypeOK, OffsetInFrame
  <2>2. QueueOK'
    BY <1>3 DEF IInv, QueueOK
  <2>3. WorkersBounded'
    BY <1>3 DEF IInv, WorkersBounded, Threads
  <2>4. InUseIsPending'
    BY <1>1, <1>3 DEF IInv, InUseIsPending, Pending
  <2>5. QED
    BY <1>2, <2>1, <2>2, <2>3, <2>4 DEF IInv
<1>4. CASE SaveFrame(frame, Begun)
  <2>1. Begun \in 0 .. FrameSize
    <3>1. /\ frame * FrameSize \in Nat /\ offset \in Nat /\ FrameSize \in Nat
          /\ frame * FrameSize <= offset /\ offset < frame * FrameSize + FrameSize
      BY <1>1, FrameBounds, SaveDataAssumption DEF IInv, TypeOK, OffsetInFrame
    <3>2. QED
      BY <3>1 DEF Begun
  <2>2. /\ item' \in [ItemNumbers -> ItemRecords] /\ queue' \in Seq(ItemNumbers)
        /\ QueueOK' /\ WorkersBounded'
        /\ \A j \in ItemNumbers : Pending(j) => Pending(j)' /\ item'[j] = item[j]
    BY <1>1, <1>4, <2>1, SaveFrameKeeps DEF IInv
  <2>3. TypeOK' /\ OffsetInFrame'
    BY <1>1, <2>2 DEF IInv, TypeOK, OffsetInFrame, ItemRecords
  <2>4. InUseIsPending'
    BY <1>1, <2>2 DEF IInv, InUseIsPending, Pending
  <2>5. QED
    BY <1>2, <2>2, <2>3, <2>4 DEF IInv
<1>5. QED
  BY <1>3, <1>4 DEF BeginStop

(* The steps of the stream that leave the buffer and its items alone.  A   *)
(* stream that has waited for all events has nothing in the queue.         *)
LEMMA EndStopKeepsIInv ==
  ASSUME IInv, EndStop
  PROVE  IInv'
<1>1. /\ Free = ItemNumbers /\ stream' = "stopped"
      /\ UNCHANGED <<disabled, taken, offset, frame, spilled, partial, buffer, used, item,
                     queue, file>>
  BY DEF EndStop
<1>2. queue = << >>
  <2>1. queue \in Seq(ItemNumbers)
    BY DEF IInv, TypeOK
  <2>2. SUFFICES ASSUME Len(queue) > 0 PROVE FALSE
    BY <2>1
  <2>3. 1 \in 1 .. Len(queue) /\ queue[1] \in ItemNumbers
    BY <2>1, <2>2
  <2>4. item[queue[1]].at = "queued" /\ item[queue[1]].at = "done"
    BY <1>1, <2>3 DEF IInv, QueueOK, Free
  <2>5. QED
    BY <2>4
<1>3. QED
  BY <1>1, <1>2
  DEF IInv, TypeOK, OffsetInFrame, QueueOK, WorkersBounded, Threads, InUseIsPending, Pending,
      PendingApart, StoppedIsQuiet, Free

LEMMA StreamKeepsIInv ==
  ASSUME IInv, Disable \/ Run \/ Close \/ UNCHANGED vars
  PROVE  IInv'
<1>1. /\ UNCHANGED <<taken, offset, frame, spilled, partial, buffer, used, item, queue, file>>
      /\ stream' \in {"running", "stopping", "stopped", "closed"} /\ disabled' \in BOOLEAN
      /\ \/ stream' = stream
         \/ stream = "stopped" /\ stream' \in {"running", "closed"}
  BY DEF Disable, Run, Close, vars, writer, IInv, TypeOK
<1>2. stream = "stopped" => \A i \in ItemNumbers : ~Pending(i)
  BY DEF IInv, StoppedIsQuiet, Free, Pending
<1>3. TypeOK' /\ OffsetInFrame' /\ QueueOK' /\ WorkersBounded' /\ InUseIsPending'
  BY <1>1 DEF IInv, TypeOK, OffsetInFrame, QueueOK, WorkersBounded, Threads, InUseIsPending,
              Pending
<1>4. PendingApart' /\ StoppedIsQuiet'
  BY <1>1, <1>2 DEF IInv, PendingApart, Pending, StoppedIsQuiet, Free
<1>5. QED
  BY <1>3, <1>4 DEF IInv

LEMMA NextKeepsIInv == IInv /\ [Next]_vars => IInv'
<1> SUFFICES ASSUME IInv, [Next]_vars PROVE IInv'
  OBVIOUS
<1>1. CASE WriteData
  BY <1>1, WriteDataKeepsIInv
<1>2. CASE Dequeue
  BY <1>2, DequeueKeepsIInv
<1>3. ASSUME NEW i \in ItemNumbers, Worker(i) PROVE IInv'
  BY <1>3, WorkerKeepsIInv
<1>4. CASE BeginStop
  BY <1>4, BeginStopKeepsIInv
<1>5. CASE EndStop
  BY <1>5, EndStopKeepsIInv
<1>6. CASE Disable \/ Run \/ Close \/ UNCHANGED vars
  BY <1>6, StreamKeepsIInv
<1>7. QED
  BY <1>1, <1>2, <1>3, <1>4, <1>5, <1>6 DEF Next

-----------------------------------------------------------------------------
(* No byte is saved twice.  A cell is live while it is still to be saved:  *)
(* its frame waits for a worker, or it is in the part of the current frame *)
(* that is filled.  While nothing has run over into a frame in use, and no *)
(* stop has saved a part of one, live cells hold different bytes, none of  *)
(* which is in the file.                                                   *)

Cells == 0 .. Size - 1

InFrame(c, f) == f * FrameSize <= c /\ c < f * FrameSize + FrameSize

Live(c) ==
  \/ \E i \in ItemNumbers : Pending(i) /\ InFrame(c, item[i].frame)
  \/ frame * FrameSize <= c /\ c < offset

(* Only full frames wait, each with one item, and marked.                  *)
WholeFrames ==
  /\ \A i \in ItemNumbers : Pending(i) => item[i].bytes = FrameSize /\ used[item[i].frame]
  /\ \A i, j \in ItemNumbers :
       Pending(i) /\ Pending(j) /\ item[i].frame = item[j].frame => i = j

(* A stream waits in front of a frame in use with nothing in it.           *)
WaitsInFront == used[frame] => offset = frame * FrameSize

LiveApart ==
  \A c, d \in Cells : Live(c) /\ Live(d) /\ buffer[c] = buffer[d] => c = d

LiveUnsaved ==
  \A c \in Cells, k \in 1 .. Len(file) : Live(c) => buffer[c] # file[k]

Numbered ==
  /\ \A c \in Cells : buffer[c] <= taken
  /\ \A k \in 1 .. Len(file) : file[k] <= taken

FileApart == \A k, l \in 1 .. Len(file) : file[k] = file[l] => k = l

OnceInv ==
  ~spilled /\ ~partial =>
    /\ WholeFrames /\ WaitsInFront /\ LiveApart /\ LiveUnsaved /\ Numbered /\ FileApart

LEMMA OneFrame ==
  ASSUME NEW c \in Nat, NEW f \in FrameNumbers, NEW g \in FrameNumbers,
         InFrame(c, f), InFrame(c, g)
  PROVE  f = g
<1>1. f \in Nat /\ g \in Nat /\ FrameSize \in Nat
  BY SaveDataAssumption DEF FrameNumbers
<1>2. f * FrameSize \in Nat /\ g * FrameSize \in Nat
  BY FrameBounds
<1>3. CASE f < g
  BY <1>1, <1>2, <1>3, FramesInOrder DEF InFrame
<1>4. CASE g < f
  BY <1>1, <1>2, <1>4, FramesInOrder DEF InFrame
<1>5. QED
  BY <1>1, <1>3, <1>4

(* What Store does to the cells: it numbers those it fills on from what    *)
(* has been taken, the rest of the current frame before it leaves it, and  *)
(* the next one as far as it comes.                                        *)
LEMMA StoreCells ==
  ASSUME TypeOK, OffsetInFrame, ~used[frame], Numbered, NEW n \in 1 .. FrameSize, Store(n)
  PROVE  /\ taken <= taken'
         /\ \A c \in Cells : buffer'[c] = buffer[c] \/ (taken < buffer'[c] /\ buffer'[c] <= taken')
         /\ \A c, d \in Cells : taken < buffer'[c] /\ buffer'[c] = buffer'[d] => c = d
         /\ \/ /\ frame' = frame /\ used' = used /\ UNCHANGED <<item, queue>>
               /\ \A c \in Cells : offset <= c /\ c < offset' => taken < buffer'[c]
            \/ /\ frame' # frame /\ used' = [used EXCEPT ![frame] = TRUE]
               /\ SaveFrame(frame, FrameSize)
               /\ \A c \in Cells : InFrame(c, frame) /\ offset <= c => taken < buffer'[c]
               /\ \A c \in Cells :
                    frame' * FrameSize <= c /\ c < offset' => taken < buffer'[c]
               /\ used[frame'] /\ ~spilled' => offset' = frame' * FrameSize
<1> DEFINE a == frame * FrameSize
           room == Least(n, Size - offset)
           end == offset + room
           full == Full(end)
           next == IF full THEN (frame + 1) % Frames ELSE frame
           start == IF end = Size THEN 0 ELSE end
           left == IF MarkUsed(full)[next] THEN 0 ELSE n - room
<1>1. /\ buffer' = Copy(Copy(buffer, offset, room, taken + 1), start, left, taken + 1 + room)
      /\ taken' = taken + room + left
      /\ offset' = start + left
      /\ frame' = next
      /\ used' = MarkUsed(full)
      /\ IF full THEN SaveFrame(frame, FrameSize) ELSE UNCHANGED <<item, queue>>
      /\ ~spilled' => ~(full /\ used[next] /\ end > (frame + 1) * FrameSize)
  BY DEF Store
<1>2. /\ frame \in FrameNumbers /\ offset \in Nat /\ taken \in Nat /\ a \in Nat
      /\ FrameSize \in Nat \ {0} /\ n \in Nat /\ Size \in Nat
      /\ a <= offset /\ offset < a + FrameSize /\ a + FrameSize <= Size
      /\ frame + 1 = Frames => a + FrameSize = Size
      /\ frame + 1 # Frames => a + FrameSize + FrameSize <= Size
      /\ Full(end) <=> end >= a + FrameSize \/ end = Size
      /\ (frame + 1) * FrameSize = a + FrameSize
  BY FrameBounds, SizeType, SaveDataAssumption DEF TypeOK, OffsetInFrame, Full
<1>3. /\ next = IF ~full THEN frame ELSE IF frame + 1 = Frames THEN 0 ELSE frame + 1
      /\ next \in FrameNumbers
      /\ full => next # frame
  BY <1>2, NextIndex, FrameBounds, SaveDataAssumption DEF FrameNumbers
<1>4. next * FrameSize =
        IF ~full THEN a ELSE IF frame + 1 = Frames THEN 0 ELSE a + FrameSize
  BY <1>2, <1>3, FrameBounds
<1>5. /\ full => used' = [used EXCEPT ![frame] = TRUE] /\ used'[next] = used[next]
      /\ ~full => used' = used /\ ~used'[next]
  BY <1>1, <1>3 DEF MarkUsed, TypeOK
<1>6. left = IF used'[next] THEN 0 ELSE n - room
  BY <1>1
<1>a. buffer \in [Cells -> Nat]
  BY DEF TypeOK, Cells
<1>b. \A c \in Cells :
        buffer'[c] = IF c \in start .. start + left - 1 THEN taken + 1 + room + (c - start)
                     ELSE IF c \in offset .. offset + room - 1 THEN taken + 1 + (c - offset)
                     ELSE buffer[c]
  BY <1>1, <1>a DEF Copy
<1> HIDE DEF a, left, next
<1>7. /\ room \in Nat /\ room >= 1 /\ room <= n /\ end \in Nat /\ end <= Size
      /\ start \in Nat /\ left \in Nat /\ left < FrameSize
      /\ room = n \/ end = Size
  BY <1>2, <1>6 DEF Least
<1>8. /\ ~full => end < a + FrameSize /\ end # Size /\ left = 0
      /\ full /\ end = Size => frame + 1 = Frames
      /\ full /\ end # Size => /\ left = 0 /\ frame + 1 # Frames
                               /\ a + FrameSize <= end /\ end < a + FrameSize + FrameSize
  BY <1>2, <1>6, <1>7
<1>9. \A c \in Cells : c \in Nat /\ c < Size /\ buffer[c] \in Nat /\ buffer[c] <= taken
  BY <1>2, <1>a DEF Cells, Numbered
<1>c. left > 0 => start = 0 /\ end = Size /\ left + room = n /\ left <= offset
  BY <1>2, <1>6, <1>7, <1>8
<1> HIDE DEF room, full
<1>10. \A c \in Cells :
         \/ /\ buffer'[c] = taken + 1 + room + c /\ c < left /\ c < offset
            /\ end = Size /\ start = 0
         \/ /\ buffer'[c] = taken + 1 + (c - offset) /\ offset <= c /\ c < offset + room
            /\ c >= left \/ start # 0
         \/ /\ buffer'[c] = buffer[c]
            /\ ~(offset <= c /\ c < offset + room) /\ ~(start <= c /\ c < start + left)
  BY <1>2, <1>7, <1>9, <1>b, <1>c
<1>11. /\ taken <= taken'
       /\ \A c \in Cells : buffer'[c] = buffer[c] \/ (taken < buffer'[c] /\ buffer'[c] <= taken')
  BY <1>1, <1>2, <1>7, <1>9, <1>10
<1>12. ASSUME NEW c \in Cells, NEW d \in Cells, taken < buffer'[c], buffer'[c] = buffer'[d]
       PROVE  c = d
  BY <1>2, <1>7, <1>9, <1>10, <1>12
<1>13. \A c \in Cells : offset <= c /\ c < end => taken < buffer'[c]
  BY <1>2, <1>7, <1>9, <1>10
<1>14. \A c \in Cells : start <= c /\ c < start + left => taken < buffer'[c]
  BY <1>2, <1>7, <1>9, <1>10
<1>15. CASE ~full
  <2>1. frame' = frame /\ used' = used /\ UNCHANGED <<item, queue>> /\ offset' = end
    BY <1>1, <1>3, <1>5, <1>7, <1>8, <1>15
  <2>2. QED
    BY <1>11, <1>12, <1>13, <2>1
<1>16. CASE full
  <2>1. /\ frame' # frame /\ used' = [used EXCEPT ![frame] = TRUE]
        /\ SaveFrame(frame, FrameSize) /\ frame' = next /\ offset' = start + left
    BY <1>1, <1>3, <1>5, <1>16
  <2>2. a + FrameSize <= end
    BY <1>2, <1>8, <1>16
  <2>3. \A c \in Cells : InFrame(c, frame) /\ offset <= c => taken < buffer'[c]
    BY <1>2, <1>7, <1>9, <1>13, <2>2 DEF InFrame, a
  <2>4. \A c \in Cells : frame' * FrameSize <= c /\ c < offset' => taken < buffer'[c]
    <3>1. CASE end = Size
      BY <1>4, <1>7, <1>8, <1>9, <1>14, <1>16, <2>1, <3>1
    <3>2. CASE end # Size
      BY <1>2, <1>4, <1>7, <1>8, <1>9, <1>13, <1>16, <2>1, <3>2
    <3>3. QED
      BY <3>1, <3>2
  <2>5. used[frame'] /\ ~spilled' => offset' = frame' * FrameSize
    <3>1. used[next] => left = 0
      BY <1>5, <1>6, <1>16
    <3>2. used[next] /\ ~spilled' => end = a + FrameSize
      <4>1. used[next] /\ ~spilled' => ~(end > (frame + 1) * FrameSize)
        BY <1>1, <1>16
      <4>2. QED
        BY <1>2, <1>7, <2>2, <4>1
    <3>3. QED
      BY <1>2, <1>4, <1>7, <1>8, <1>16, <2>1, <3>1, <3>2
  <2>6. QED
    BY <1>11, <1>12, <2>1, <2>3, <2>4, <2>5
<1>17. QED
  BY <1>15, <1>16

(* A cell that is live after a write was live before, or is new.           *)
LEMMA WriteDataKeepsOnce ==
  ASSUME IInv, OnceInv, WriteData
  PROVE  OnceInv'
<1>1. PICK n \in 1 .. FrameSize : Store(n)
  BY WriteLength DEF WriteData
<1>2. /\ ~used[frame] /\ frame \in FrameNumbers
      /\ UNCHANGED <<partial, file>>
      /\ used \in [FrameNumbers -> BOOLEAN]
      /\ ~spilled' => ~spilled
  BY <1>1 DEF WriteData, IInv, TypeOK, Store
<1>3. SUFFICES ASSUME ~spilled', ~partial'
               PROVE  /\ WholeFrames' /\ WaitsInFront' /\ LiveApart' /\ LiveUnsaved'
                      /\ Numbered' /\ FileApart'
  BY DEF OnceInv
<1>4. WholeFrames /\ WaitsInFront /\ LiveApart /\ LiveUnsaved /\ Numbered /\ FileApart
  BY <1>2, <1>3 DEF OnceInv
<1> DEFINE New(c) == taken < buffer'[c]
           Stays == /\ frame' = frame /\ used' = used /\ UNCHANGED <<item, queue>>
                    /\ \A c \in Cells : offset <= c /\ c < offset' => New(c)
           Leaves == /\ frame' # frame /\ used' = [used EXCEPT ![frame] = TRUE]
                     /\ SaveFrame(frame, FrameSize)
                     /\ \A c \in Cells : InFrame(c, frame) /\ offset <= c => New(c)
                     /\ \A c \in Cells : frame' * FrameSize <= c /\ c < offset' => New(c)
                     /\ used[frame'] /\ ~spilled' => offset' = frame' * FrameSize
<1>5. /\ taken <= taken'
      /\ \A c \in Cells : buffer'[c] = buffer[c] \/ (New(c) /\ buffer'[c] <= taken')
      /\ \A c, d \in Cells : New(c) /\ buffer'[c] = buffer'[d] => c = d
      /\ Stays \/ Leaves
  BY <1>1, <1>2, <1>4, StoreCells DEF IInv
<1>6. /\ taken \in Nat /\ offset \in Nat
      /\ \A c \in Cells : c \in Nat /\ buffer[c] \in Nat /\ buffer[c] <= taken
      /\ \A k \in 1 .. Len(file) : file[k] \in Nat /\ file[k] <= taken
  <2>1. taken \in Nat /\ offset \in Nat /\ buffer \in [Cells -> Nat] /\ file \in Seq(Nat)
    BY DEF IInv, TypeOK, Cells
  <2>2. \A c \in Cells : c \in Nat
    BY SizeType DEF Cells
  <2>3. \A k \in 1 .. Len(file) : file[k] \in Nat
    BY <2>1
  <2>4. QED
    BY <1>4, <2>1, <2>2, <2>3 DEF Numbered
<1>7. ASSUME Leaves
      PROVE  \A j \in ItemNumbers :
               /\ Pending(j) => Pending(j)' /\ item'[j] = item[j]
               /\ Pending(j)' /\ ~Pending(j) =>
                    /\ item'[j].frame = frame /\ item'[j].bytes = FrameSize
                    /\ \A k \in ItemNumbers : Pending(k)' /\ ~Pending(k) => j = k
  <2>1. FrameSize \in 0 .. FrameSize
    BY SaveDataAssumption
  <2>2. QED
    BY <1>2, <1>7, <2>1, SaveFrameKeeps DEF IInv
<1>8. ASSUME NEW c \in Cells, Live(c)'
      PROVE  New(c) \/ (Live(c) /\ buffer'[c] = buffer[c])
  <2>1. New(c) \/ buffer'[c] = buffer[c]
    BY <1>5
  <2>2. CASE Stays
    BY <1>6, <1>8, <2>1, <2>2 DEF Live, Pending
  <2>3. CASE Leaves
    <3>1. CASE frame' * FrameSize <= c /\ c < offset'
      BY <2>3, <3>1
    <3>2. ASSUME NEW j \in ItemNumbers, Pending(j)', InFrame(c, item'[j].frame)
          PROVE  New(c) \/ Live(c)
      <4>1. CASE Pending(j)
        BY <1>7, <2>3, <3>2, <4>1 DEF Live
      <4>2. CASE ~Pending(j)
        <5>1. InFrame(c, frame)
          BY <1>7, <2>3, <3>2, <4>2
        <5>2. CASE offset <= c
          BY <2>3, <5>1, <5>2
        <5>3. CASE c < offset
          BY <5>1, <5>3 DEF Live, InFrame
        <5>4. QED
          BY <1>6, <5>2, <5>3
      <4>3. QED
        BY <4>1, <4>2
    <3>3. QED
      BY <1>8, <2>1, <3>1, <3>2 DEF Live, InFrame, Pending
  <2>4. QED
    BY <1>5, <2>2, <2>3
<1>9. LiveApart'
  <2>1. SUFFICES ASSUME NEW c \in Cells, NEW d \in Cells, Live(c)', Live(d)',
                        buffer'[c] = buffer'[d]
                 PROVE  c = d
    BY DEF LiveApart, Cells, Live, InFrame, Pending
  <2>2. CASE New(c) \/ New(d)
    BY <1>5, <2>1, <2>2
  <2>3. CASE ~New(c) /\ ~New(d)
    BY <1>4, <1>8, <2>1, <2>3 DEF LiveApart
  <2>4. QED
    BY <2>2, <2>3
<1>10. LiveUnsaved'
  <2>1. SUFFICES ASSUME NEW c \in Cells, NEW k \in 1 .. Len(file), Live(c)'
                 PROVE  buffer'[c] # file[k]
    BY <1>2 DEF LiveUnsaved, Cells, Live, InFrame, Pending
  <2>2. CASE New(c)
    BY <1>6, <2>2
  <2>3. CASE Live(c) /\ buffer'[c] = buffer[c]
    BY <1>4, <2>3 DEF LiveUnsaved
  <2>4. QED
    BY <1>8, <2>1, <2>2, <2>3
<1>11. Numbered' /\ FileApart'
  <2>1. PICK t \in Nat : taken' = t
    BY <1>1, StoreMoves DEF IInv
  <2>2. \A c \in Cells : buffer'[c] <= taken'
    BY <1>5, <1>6, <2>1
  <2>3. \A k \in 1 .. Len(file) : file[k] <= taken'
    BY <1>5, <1>6, <2>1
  <2>4. QED
    BY <1>2, <1>4, <2>2, <2>3 DEF Numbered, FileApart, Cells
<1>12. WaitsInFront'
  <2>1. CASE Stays
    BY <1>2, <2>1 DEF WaitsInFront
  <2>2. CASE Leaves
    <3>1. frame' \in FrameNumbers
      BY <1>1, StoreMoves DEF IInv
    <3>2. used'[frame'] = used[frame']
      BY <1>2, <2>2, <3>1
    <3>3. QED
      BY <1>3, <2>2, <3>2 DEF WaitsInFront
  <2>3. QED
    BY <1>5, <2>1, <2>2
<1>13. WholeFrames'
  <2>1. CASE Stays
    BY <1>4, <2>1 DEF WholeFrames, Pending
  <2>2. CASE Leaves
    <3>1. \A j \in ItemNumbers : Pending(j) =>
            /\ item'[j] = item[j] /\ item[j].frame \in FrameNumbers
            /\ used[item[j].frame] /\ item[j].frame # frame /\ item[j].bytes = FrameSize
      BY <1>2, <1>4, <1>7, <2>2 DEF IInv, TypeOK, WholeFrames
    <3>2. \A j \in ItemNumbers : Pending(j)' =>
            item'[j].bytes = FrameSize /\ used'[item'[j].frame]
      BY <1>2, <1>7, <2>2, <3>1
    <3>3. ASSUME NEW j \in ItemNumbers, NEW k \in ItemNumbers,
                 Pending(j)', Pending(k)', item'[j].frame = item'[k].frame
          PROVE  j = k
      <4>1. CASE Pending(j) /\ Pending(k)
        BY <1>4, <3>1, <3>3, <4>1 DEF WholeFrames
      <4>2. CASE ~Pending(j) /\ Pending(k)
        BY <1>7, <2>2, <3>1, <3>3, <4>2
      <4>3. CASE Pending(j) /\ ~Pending(k)
        BY <1>7, <2>2, <3>1, <3>3, <4>3
      <4>4. CASE ~Pending(j) /\ ~Pending(k)
        BY <1>7, <2>2, <3>3, <4>4
      <4>5. QED
        BY <4>1, <4>2, <4>3, <4>4
    <3>4. QED
      BY <3>2, <3>3 DEF WholeFrames, Pending
  <2>3. QED
    BY <1>5, <2>1, <2>2
<1>14. QED
  BY <1>9, <1>10, <1>11, <1>12, <1>13

LEMMA Concatenation ==
  ASSUME NEW s \in Seq(Nat), NEW t \in Seq(Nat)
  PROVE  /\ Len(s \o t) = Len(s) + Len(t)
         /\ \A k \in 1 .. Len(s) + Len(t) :
              (s \o t)[k] = IF k <= Len(s) THEN s[k] ELSE t[k - Len(s)]
  OBVIOUS

(* A frame that is saved is not live any more; what it held was in no      *)
(* other live cell and not in the file.                                    *)
LEMMA SaveToFileKeepsOnce ==
  ASSUME IInv, OnceInv, NEW i \in ItemNumbers, SaveToFile(i)
  PROVE  OnceInv'
<1>1. SUFFICES ASSUME ~spilled, ~partial
               PROVE  /\ WholeFrames' /\ WaitsInFront' /\ LiveApart' /\ LiveUnsaved'
                      /\ Numbered' /\ FileApart'
  BY DEF OnceInv, SaveToFile, writer
<1>2. WholeFrames /\ WaitsInFront /\ LiveApart /\ LiveUnsaved /\ Numbered /\ FileApart
  BY <1>1 DEF OnceInv
<1> DEFINE f == item[i].frame
           a == f * FrameSize
<1>3. /\ item[i].at = "waiting" /\ Pending(i) /\ f \in FrameNumbers
      /\ item' = [item EXCEPT ![i].at = "released"]
      /\ used' = [used EXCEPT ![f] = FALSE] /\ used[f]
      /\ UNCHANGED <<taken, offset, frame, buffer, spilled, partial>>
      /\ used \in [FrameNumbers -> BOOLEAN] /\ frame \in FrameNumbers
      /\ item[i].bytes = FrameSize
  BY <1>2 DEF SaveToFile, MoveTo, FreeFrame, writer, Pending, WholeFrames, IInv, TypeOK
<1>4. \A j \in ItemNumbers :
        /\ item'[j].frame = item[j].frame /\ item'[j].bytes = item[j].bytes
        /\ Pending(j)' <=> Pending(j) /\ j # i
  <2>1. item \in [ItemNumbers -> ItemRecords]
    BY DEF IInv, TypeOK, ItemRecords
  <2>2. /\ item'[i] = [item[i] EXCEPT !.at = "released"]
        /\ \A j \in ItemNumbers \ {i} : item'[j] = item[j]
    BY <1>3, <2>1
  <2>3. QED
    BY <2>1, <2>2 DEF Pending, ItemRecords
<1>5. /\ a \in Nat /\ FrameSize \in Nat /\ a + FrameSize <= Size /\ Size \in Nat
      /\ frame * FrameSize \in Nat /\ offset \in Nat /\ offset < frame * FrameSize + FrameSize
  BY <1>3, FrameBounds, SizeType, SaveDataAssumption DEF IInv, TypeOK, OffsetInFrame
<1> HIDE DEF a
<1>6. \A m \in 1 .. FrameSize :
        a + m - 1 \in Cells /\ InFrame(a + m - 1, f) /\ Live(a + m - 1)
  <2>1. \A m \in 1 .. FrameSize : a + m - 1 \in Cells /\ InFrame(a + m - 1, f)
    BY <1>5 DEF Cells, InFrame, a
  <2>2. QED
    BY <1>3, <2>1 DEF Live
<1>7. ASSUME NEW c \in Cells, Live(c)'
      PROVE  Live(c) /\ ~InFrame(c, f)
  <2>1. c \in Nat
    BY SizeType DEF Cells
  <2>2. CASE frame * FrameSize <= c /\ c < offset
    <3>1. InFrame(c, frame)
      BY <1>5, <2>1, <2>2 DEF InFrame
    <3>2. ~used[frame]
      BY <1>2, <1>5, <2>1, <2>2 DEF WaitsInFront
    <3>3. QED
      BY <1>3, <2>1, <2>2, <3>1, <3>2, OneFrame DEF Live
  <2>3. ASSUME NEW j \in ItemNumbers, Pending(j)', InFrame(c, item'[j].frame)
        PROVE  Live(c) /\ ~InFrame(c, f)
    <3>1. Pending(j) /\ j # i /\ InFrame(c, item[j].frame) /\ item[j].frame \in FrameNumbers
      BY <1>4, <2>3 DEF IInv, TypeOK
    <3>2. item[j].frame # f
      BY <1>2, <1>3, <3>1 DEF WholeFrames
    <3>3. QED
      BY <1>3, <2>1, <3>1, <3>2, OneFrame DEF Live
  <2>4. QED
    BY <1>3, <1>7, <2>2, <2>3 DEF Live, InFrame, Pending
<1>8. WholeFrames'
  <2>1. \A j \in ItemNumbers : Pending(j) /\ j # i =>
          item[j].frame \in FrameNumbers /\ item[j].frame # f
    BY <1>2, <1>3 DEF WholeFrames, IInv, TypeOK
  <2>2. \A j \in ItemNumbers : Pending(j)' => used'[item'[j].frame]
    BY <1>2, <1>3, <1>4, <2>1 DEF WholeFrames
  <2>3. QED
    BY <1>2, <1>4, <2>2 DEF WholeFrames, Pending
<1>9. WaitsInFront'
  BY <1>2, <1>3 DEF WaitsInFront
<1>10. LiveApart'
  <2>1. SUFFICES ASSUME NEW c \in Cells, NEW d \in Cells, Live(c)', Live(d)', buffer[c] = buffer[d]
                 PROVE  c = d
    BY <1>3 DEF LiveApart, Cells, Live, InFrame, Pending
  <2>2. QED
    BY <1>2, <1>7, <2>1 DEF LiveApart
<1>11. /\ file \in Seq(Nat) /\ Len(file) \in Nat
       /\ file' = file \/ file' = file \o Content(i)
  BY DEF SaveToFile, IInv, TypeOK
<1>12. CASE file' = file
  <2>1. LiveUnsaved'
    <3>1. SUFFICES ASSUME NEW c \in Cells, NEW k \in 1 .. Len(file), Live(c)'
                   PROVE  buffer[c] # file[k]
      BY <1>3, <1>12 DEF LiveUnsaved, Cells, Live, InFrame, Pending
    <3>2. QED
      BY <1>2, <1>7, <3>1 DEF LiveUnsaved
  <2>2. QED
    BY <1>2, <1>3, <1>8, <1>9, <1>10, <1>12, <2>1 DEF Numbered, FileApart
<1>13. CASE file' = file \o Content(i)
  <2>1. /\ Content(i) \in Seq(Nat) /\ Len(Content(i)) = FrameSize
        /\ \A m \in 1 .. FrameSize : Content(i)[m] = buffer[a + m - 1]
    <3>1. Content(i) = [m \in 1 .. FrameSize |-> buffer[a + m - 1]]
      BY <1>3 DEF Content, a
    <3>2. Content(i) \in Seq(Nat)
      BY ContentType DEF IInv
    <3>3. /\ DOMAIN Content(i) = 1 .. FrameSize
          /\ \A m \in 1 .. FrameSize : Content(i)[m] = buffer[a + m - 1]
      BY <3>1
    <3> DEFINE C == Content(i)
    <3>4. C \in Seq(Nat) /\ DOMAIN C = 1 .. FrameSize
      BY <3>2, <3>3
    <3> HIDE DEF C
    <3>5. Len(C) = FrameSize
      BY <1>5, <3>4
    <3>6. QED
      BY <3>2, <3>3, <3>5 DEF C
  <2>2. /\ Len(file') = Len(file) + FrameSize
        /\ \A k \in 1 .. Len(file) : file'[k] = file[k]
        /\ \A k \in 1 .. Len(file') : k > Len(file) =>
             k - Len(file) \in 1 .. FrameSize /\ file'[k] = buffer[a + (k - Len(file)) - 1]
    <3> DEFINE C == Content(i)
    <3>0. file' = file \o C /\ C \in Seq(Nat) /\ Len(C) = FrameSize
      BY <1>13, <2>1
    <3>1. Len(file') = Len(file) + FrameSize
      <4> HIDE DEF C
      <4>1. Len(file \o C) = Len(file) + Len(C)
        BY <1>11, <3>0, Concatenation
      <4>2. QED
        BY <3>0, <4>1
    <3>2. \A k \in 1 .. Len(file') :
            file'[k] = IF k <= Len(file) THEN file[k] ELSE C[k - Len(file)]
      <4> HIDE DEF C
      <4>1. \A k \in 1 .. Len(file) + Len(C) :
              (file \o C)[k] = IF k <= Len(file) THEN file[k] ELSE C[k - Len(file)]
        BY <1>11, <3>0, Concatenation
      <4>2. QED
        BY <3>0, <3>1, <4>1
    <3>3. \A k \in 1 .. Len(file) : k \in 1 .. Len(file')
      BY <1>5, <1>11, <3>1
    <3>4. \A k \in 1 .. Len(file') : k > Len(file) => k - Len(file) \in 1 .. FrameSize
      BY <1>5, <1>11, <3>1
    <3>5. QED
      BY <1>11, <2>1, <3>1, <3>2, <3>3, <3>4
  <2>3. ASSUME NEW k \in 1 .. Len(file')
        PROVE  \/ k \in 1 .. Len(file) /\ file'[k] = file[k]
               \/ \E m \in 1 .. FrameSize : k = Len(file) + m /\ file'[k] = buffer[a + m - 1]
    <3>1. k \in Nat /\ (k \in 1 .. Len(file) \/ k > Len(file))
      BY <1>5, <1>11, <2>2
    <3>2. CASE k > Len(file)
      <4>1. /\ k - Len(file) \in 1 .. FrameSize /\ k = Len(file) + (k - Len(file))
            /\ file'[k] = buffer[a + (k - Len(file)) - 1]
        BY <1>11, <2>2, <3>1, <3>2
      <4>2. QED
        BY <4>1
    <3>3. QED
      BY <2>2, <3>1, <3>2
  <2>4. LiveUnsaved'
    <3>1. SUFFICES ASSUME NEW c \in Cells, NEW k \in 1 .. Len(file'), Live(c)'
                   PROVE  buffer[c] # file'[k]
      BY <1>3 DEF LiveUnsaved, Cells, Live, InFrame, Pending
    <3>2. Live(c) /\ ~InFrame(c, f)
      BY <1>7, <3>1
    <3>3. CASE k \in 1 .. Len(file) /\ file'[k] = file[k]
      BY <1>2, <3>2, <3>3 DEF LiveUnsaved
    <3>4. ASSUME NEW m \in 1 .. FrameSize, file'[k] = buffer[a + m - 1]
          PROVE  buffer[c] # file'[k]
      BY <1>2, <1>6, <3>2, <3>4 DEF LiveApart
    <3>5. QED
      BY <2>3, <3>3, <3>4
  <2>5. \A m \in 1 .. FrameSize : buffer[a + m - 1] <= taken
    BY <1>2, <1>6 DEF Numbered
  <2>6. Numbered'
    <3>1. \A k \in 1 .. Len(file') : file'[k] <= taken
      BY <1>2, <2>3, <2>5 DEF Numbered
    <3>2. QED
      BY <1>2, <1>3, <3>1 DEF Numbered, Cells
  <2>7. FileApart'
    <3>1. SUFFICES ASSUME NEW k \in 1 .. Len(file'), NEW l \in 1 .. Len(file'), file'[k] = file'[l]
                   PROVE  k = l
      BY DEF FileApart
    <3>2. ASSUME NEW m \in 1 .. FrameSize, NEW j \in 1 .. Len(file)
          PROVE  buffer[a + m - 1] # file[j]
      BY <1>2, <1>6, <3>2 DEF LiveUnsaved
    <3>3. ASSUME NEW m \in 1 .. FrameSize, NEW p \in 1 .. FrameSize,
                 buffer[a + m - 1] = buffer[a + p - 1]
          PROVE  m = p
      <4>1. a + m - 1 = a + p - 1
        BY <1>2, <1>6, <3>3 DEF LiveApart
      <4>2. QED
        BY <1>5, <4>1
    <3>4. CASE k \in 1 .. Len(file) /\ file'[k] = file[k]
      <4>1. CASE l \in 1 .. Len(file) /\ file'[l] = file[l]
        BY <1>2, <3>1, <3>4, <4>1 DEF FileApart
      <4>2. ASSUME NEW m \in 1 .. FrameSize, file'[l] = buffer[a + m - 1]
            PROVE  FALSE
        BY <3>1, <3>2, <3>4, <4>2
      <4>3. QED
        BY <2>3, <4>1, <4>2
    <3>5. ASSUME NEW m \in 1 .. FrameSize, k = Len(file) + m, file'[k] = buffer[a + m - 1]
          PROVE  k = l
      BY <2>3, <3>1, <3>2, <3>3, <3>5
    <3>6. QED
      BY <2>3, <3>4, <3>5
  <2>8. QED
    BY <1>8, <1>9, <1>10, <2>4, <2>6, <2>7
<1>14. QED
  BY <1>11, <1>12, <1>13

(* The other steps leave the waiting frames as they are, or make the       *)
(* partial frame of a stop.                                                *)
LEMMA OthersKeepOnce ==
  ASSUME OnceInv, ~partial' => ~partial,
         ~partial' => /\ UNCHANGED <<taken, buffer, offset, frame, used, file, spilled>>
                      /\ \A j \in ItemNumbers :
                           Pending(j)' => Pending(j) /\ item'[j].frame = item[j].frame
                                          /\ item'[j].bytes = item[j].bytes
  PROVE  OnceInv'
<1>1. SUFFICES ASSUME ~spilled', ~partial'
               PROVE  /\ WholeFrames' /\ WaitsInFront' /\ LiveApart' /\ LiveUnsaved'
                      /\ Numbered' /\ FileApart'
  BY DEF OnceInv
<1>2. /\ UNCHANGED <<taken, buffer, offset, frame, used, file, spilled>>
      /\ \A j \in ItemNumbers :
           Pending(j)' => Pending(j) /\ item'[j].frame = item[j].frame
                          /\ item'[j].bytes = item[j].bytes
  BY <1>1
<1>3. WholeFrames /\ WaitsInFront /\ LiveApart /\ LiveUnsaved /\ Numbered /\ FileApart
  BY <1>1, <1>2 DEF OnceInv
<1>4. ASSUME NEW c \in Cells, Live(c)' PROVE Live(c)
  BY <1>2, <1>4 DEF Live, InFrame, Pending
<1>5. LiveApart'
  <2>1. SUFFICES ASSUME NEW c \in Cells, NEW d \in Cells, Live(c)', Live(d)', buffer[c] = buffer[d]
                 PROVE  c = d
    BY <1>2 DEF LiveApart, Cells, Live, InFrame, Pending
  <2>2. QED
    BY <1>3, <1>4, <2>1 DEF LiveApart
<1>6. LiveUnsaved'
  <2>1. SUFFICES ASSUME NEW c \in Cells, NEW k \in 1 .. Len(file), Live(c)'
                 PROVE  buffer[c] # file[k]
    BY <1>2 DEF LiveUnsaved, Cells, Live, InFrame, Pending
  <2>2. QED
    BY <1>3, <1>4, <2>1 DEF LiveUnsaved
<1>7. WholeFrames'
  BY <1>2, <1>3 DEF WholeFrames, Pending
<1>8. QED
  BY <1>2, <1>3, <1>5, <1>6, <1>7 DEF WaitsInFront, Numbered, FileApart, Cells

LEMMA InitOnce == Init => OnceInv
<1> SUFFICES ASSUME Init PROVE OnceInv
  OBVIOUS
<1>1. \A i \in ItemNumbers : ~Pending(i)
  BY DEF Init, Done, Pending
<1>2. 0 * FrameSize = 0
  BY SaveDataAssumption
<1>3. frame * FrameSize = 0 /\ offset = 0
  BY <1>2 DEF Init
<1>4. \A c \in Cells : ~Live(c) /\ buffer[c] <= taken
  <2>1. \A c \in Cells : c \in Nat
    BY SizeType DEF Cells
  <2>2. \A c \in Cells : buffer[c] = 0 /\ taken = 0
    BY DEF Init, Cells
  <2>3. QED
    BY <1>1, <1>3, <2>1, <2>2 DEF Live
<1>5. file = << >>
  BY DEF Init
<1>6. QED
  BY <1>1, <1>3, <1>4, <1>5
  DEF OnceInv, WholeFrames, WaitsInFront, LiveApart, LiveUnsaved, Numbered, FileApart

LEMMA NextKeepsOnce == IInv /\ OnceInv /\ [Next]_vars => OnceInv'
<1> SUFFICES ASSUME IInv, OnceInv, [Next]_vars PROVE OnceInv'
  OBVIOUS
<1>1. CASE WriteData
  BY <1>1, WriteDataKeepsOnce
<1>2. CASE Dequeue
  <2>1. /\ UNCHANGED <<taken, buffer, offset, frame, used, file, spilled, partial>>
        /\ item' = [item EXCEPT ![Head(queue)].at = "waiting"]
    BY <1>2 DEF Dequeue, MoveTo, writer
  <2>2. Head(queue) \in ItemNumbers /\ item[Head(queue)].at = "queued"
    <3>1. queue \in Seq(ItemNumbers) /\ queue # << >>
      BY <1>2 DEF Dequeue, IInv, TypeOK
    <3>2. 1 \in 1 .. Len(queue) /\ Head(queue) = queue[1] /\ queue[1] \in ItemNumbers
      BY <3>1
    <3>3. QED
      BY <3>2 DEF IInv, QueueOK
  <2>3. \A j \in ItemNumbers :
          Pending(j)' => Pending(j) /\ item'[j].frame = item[j].frame
                         /\ item'[j].bytes = item[j].bytes
    BY <2>1, <2>2 DEF Pending, IInv, TypeOK
  <2>4. QED
    BY <2>1, <2>3, OthersKeepOnce
<1>3. ASSUME NEW i \in ItemNumbers, SaveToFile(i) PROVE OnceInv'
  BY <1>3, SaveToFileKeepsOnce
<1>4. ASSUME NEW i \in ItemNumbers, SetDone(i) PROVE OnceInv'
  <2>1. /\ UNCHANGED <<taken, buffer, offset, frame, used, file, spilled, partial>>
        /\ item' = [item EXCEPT ![i] = Done]
    BY <1>4 DEF SetDone, writer
  <2>2. \A j \in ItemNumbers :
          Pending(j)' => Pending(j) /\ item'[j].frame = item[j].frame
                         /\ item'[j].bytes = item[j].bytes
    BY <2>1 DEF Pending, Done, IInv, TypeOK
  <2>3. QED
    BY <2>1, <2>2, OthersKeepOnce
<1>5. CASE BeginStop
  <2>1. /\ UNCHANGED <<taken, buffer, offset, frame, used, file, spilled>>
        /\ partial' \/ UNCHANGED <<item, partial>>
    BY <1>5 DEF BeginStop
  <2>2. QED
    BY <2>1, OthersKeepOnce DEF Pending
<1>6. CASE EndStop \/ Disable \/ Run \/ Close \/ UNCHANGED vars
  <2>1. UNCHANGED <<taken, buffer, offset, frame, used, file, spilled, partial, item>>
    BY <1>6 DEF EndStop, Disable, Run, Close, vars, writer
  <2>2. QED
    BY <2>1, OthersKeepOnce DEF Pending
<1>7. QED
  BY <1>1, <1>2, <1>3, <1>4, <1>5, <1>6 DEF Next, Worker

-----------------------------------------------------------------------------

(* The inductive invariant holds in every state.                           *)
THEOREM SaveInvariant == Spec => []IInv
BY InitIInv, NextKeepsIInv, PTL DEF Spec

(* Types, and that no item saves more than a frame: what a stop saves of   *)
(* the frame begun never wraps below zero, nor reads beyond the buffer.    *)
THEOREM SaveTypeCorrect == Spec => []TypeOK
<1>1. IInv => TypeOK
  BY DEF IInv
<1>2. QED
  BY <1>1, SaveInvariant, PTL

(* The write offset is inside the current frame, for every number and size *)
(* of frames and every length of a write.                                  *)
THEOREM SaveOffsetInFrame == Spec => []OffsetInFrame
<1>1. IInv => OffsetInFrame
  BY DEF IInv
<1>2. QED
  BY <1>1, SaveInvariant, PTL

(* With an item for every frame and every worker, a marked frame always    *)
(* has an item that will free it.                                          *)
THEOREM SaveInUseIsPending == Spec => []InUseIsPending
<1>1. IInv => InUseIsPending
  BY DEF IInv
<1>2. QED
  BY <1>1, SaveInvariant, PTL

(* Nothing refers to a stream that has stopped, which is when the          *)
(* destructor may come.                                                    *)
THEOREM SaveStoppedIsQuiet == Spec => []StoppedIsQuiet
<1>1. IInv => StoppedIsQuiet
  BY DEF IInv
<1>2. QED
  BY <1>1, SaveInvariant, PTL

(* The file never holds a byte twice, unless a write has run over into a   *)
(* frame in use or the stream stopped inside a frame.                      *)
THEOREM SaveSavedOnce == Spec => []SavedOnce
<1>1. OnceInv => SavedOnce
  <2>1. IsInjective(file) <=> \A k, l \in DOMAIN file : file[k] = file[l] => k = l
    BY DEF IsInjective
  <2>2. QED
    BY <2>1 DEF OnceInv, SavedOnce, FileApart
<1>2. QED
  BY <1>1, InitIInv, NextKeepsIInv, InitOnce, NextKeepsOnce, PTL DEF Spec
=============================================================================
