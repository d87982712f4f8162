----------------------------- MODULE DriverRing -----------------------------
(***************************************************************************)
(* The kernel driver's PCM ring (EndpointsCommon/rifezpcmbuffer.cpp), as   *)
(* it runs once RifeZPcmBufferInitialize has returned.                     *)
(*                                                                         *)
(* Threads are the timer callbacks of the render streams, which write, and *)
(* the IOCTLs of the clients of the control device, which read, reset and  *)
(* query.  Every operation checks Initialized without the lock, spins for  *)
(* the lock, and works byte by byte while it holds it; one loop iteration  *)
(* of the C code is one step here.  DriverStartup adds how the ring comes  *)
(* into being.                                                             *)
(***************************************************************************)
EXTENDS Naturals, Sequences

CONSTANTS
  Streams,    \* render streams (CMiniportWaveRTStream)
  Clients,    \* openers of the control device
  Bytes,      \* byte values, Zero among them
  Zero,       \* what ExAllocatePool2 fills the pool block with
  Chunks,     \* the byte strings a stream may hand to RifeZPcmServiceWrite
  Requests,   \* the output lengths of READ_PCM
  Capacity,   \* CapacityBytes, 1024 * 1024 in the code
  Free        \* no thread: the spin lock is available

Threads == Streams \cup Clients

ASSUME RingAssumption ==
  /\ Capacity \in Nat \ {0}
  /\ Zero \in Bytes
  /\ Chunks \subseteq Seq(Bytes) \ {<< >>}
  /\ Requests \subseteq Nat \ {0}
  /\ Streams \cap Clients = {}
  /\ Free \notin Threads

VARIABLES
  buffer,       \* Buffer, indexed from 0
  capacity,     \* CapacityBytes
  readOffset,
  writeOffset,
  bufferedBytes,
  initialized,
  lock,         \* Lock, together with the thread that took it
  pc,           \* where each thread is: outside, spinning, or inside the lock
  op,           \* the operation it is in
  data,         \* Data of a writer
  want,         \* BufferCapacity of a reader, bytesToRead once inside
  idx,          \* i of the loops
  out,          \* the bytes a reader has copied out
  info          \* the answer to GET_PCM_INFO

ring == <<buffer, capacity, readOffset, writeOffset, bufferedBytes, initialized>>
vars == <<ring, lock, pc, op, data, want, idx, out, info>>

Ops == {"none", "write", "read", "reset", "query"}

NoBuffer == [i \in {} |-> Zero]

-----------------------------------------------------------------------------

(* Next slot, the (x + 1) % CapacityBytes of the loops.                    *)
Advance(offset) == (offset + 1) % capacity

LoopsIdle ==
  /\ lock = Free
  /\ pc = [t \in Threads |-> "outside"]
  /\ op = [t \in Threads |-> "none"]
  /\ data = [s \in Streams |-> << >>]
  /\ want = [c \in Clients |-> 0]
  /\ idx = [t \in Threads |-> 0]
  /\ out = [c \in Clients |-> << >>]
  /\ info = [c \in Clients |-> [capacity |-> 0, buffered |-> 0]]

Init ==
  /\ buffer = [i \in 0 .. Capacity - 1 |-> Zero]
  /\ capacity = Capacity
  /\ readOffset = 0
  /\ writeOffset = 0
  /\ bufferedBytes = 0
  /\ initialized = TRUE
  /\ LoopsIdle

-----------------------------------------------------------------------------
(* Entering an operation: the unlocked Initialized check and the wait for  *)
(* the lock.  A write to a ring that is not initialized returns at once    *)
(* and changes nothing.                                                    *)

Enter(t, o) ==
  /\ pc[t] = "outside"
  /\ initialized
  /\ pc' = [pc EXCEPT ![t] = "spinning"]
  /\ op' = [op EXCEPT ![t] = o]
  /\ idx' = [idx EXCEPT ![t] = 0]
  /\ UNCHANGED <<ring, lock>>

CallWrite(s, chunk) ==
  /\ Enter(s, "write")
  /\ data' = [data EXCEPT ![s] = chunk]
  /\ UNCHANGED <<want, out, info>>

CallRead(c, n) ==
  /\ Enter(c, "read")
  /\ want' = [want EXCEPT ![c] = n]
  /\ out' = [out EXCEPT ![c] = << >>]
  /\ UNCHANGED <<data, info>>

CallReset(c) ==
  /\ Enter(c, "reset")
  /\ UNCHANGED <<data, want, out, info>>

(* GET_PCM_INFO reads CapacityBytes before, and outside, the lock.         *)
CallGetInfo(c) ==
  /\ Enter(c, "query")
  /\ info' = [info EXCEPT ![c].capacity = capacity]
  /\ UNCHANGED <<data, want, out>>

(* A plausible slip: the operations are left without the lock.             *)
AcquireUnchecked(t) ==
  /\ pc[t] = "spinning"
  /\ lock' = t
  /\ pc' = [pc EXCEPT ![t] = "inside"]
  /\ UNCHANGED <<ring, op, data, want, idx, out, info>>

(* KeAcquireSpinLock.  A reader fixes bytesToRead as soon as it is inside. *)
Acquire(t) ==
  /\ pc[t] = "spinning"
  /\ lock = Free
  /\ lock' = t
  /\ pc' = [pc EXCEPT ![t] = "inside"]
  /\ want' = [c \in Clients |->
                IF c = t /\ op[t] = "read" /\ bufferedBytes < want[c]
                THEN bufferedBytes ELSE want[c]]
  /\ UNCHANGED <<ring, op, data, idx, out, info>>

(* KeReleaseSpinLock, which stores "free" whoever holds the lock, and the  *)
(* end of the function's locals.                                           *)
Release(t) ==
  /\ lock' = Free
  /\ pc' = [pc EXCEPT ![t] = "outside"]
  /\ op' = [op EXCEPT ![t] = "none"]
  /\ idx' = [idx EXCEPT ![t] = 0]
  /\ data' = [s \in Streams |-> IF s = t THEN << >> ELSE data[s]]
  /\ want' = [c \in Clients |-> IF c = t THEN 0 ELSE want[c]]
  /\ UNCHANGED out

Inside(t, o) == pc[t] = "inside" /\ op[t] = o

-----------------------------------------------------------------------------
(* RifeZPcmBufferWrite: one iteration, then the release.                   *)

(* Slips: a full ring is not noticed; a full ring loses the newest byte.   *)
WriteByteUncounted(s) ==
  /\ Inside(s, "write")
  /\ idx[s] < Len(data[s])
  /\ bufferedBytes' = bufferedBytes + 1
  /\ buffer' = [buffer EXCEPT ![writeOffset] = data[s][idx[s] + 1]]
  /\ writeOffset' = Advance(writeOffset)
  /\ idx' = [idx EXCEPT ![s] = @ + 1]
  /\ UNCHANGED <<capacity, readOffset, initialized, lock, pc, op, data, want, out, info>>

WriteByteDropsNewest(s) ==
  LET full == bufferedBytes = capacity
  IN  /\ Inside(s, "write")
      /\ idx[s] < Len(data[s])
      /\ bufferedBytes' = IF full THEN bufferedBytes ELSE bufferedBytes + 1
      /\ buffer' = IF full THEN buffer
                   ELSE [buffer EXCEPT ![writeOffset] = data[s][idx[s] + 1]]
      /\ writeOffset' = IF full THEN writeOffset ELSE Advance(writeOffset)
      /\ idx' = [idx EXCEPT ![s] = @ + 1]
      /\ UNCHANGED <<capacity, readOffset, initialized, lock, pc, op, data, want, out, info>>

WriteByte(s) ==
  LET full == bufferedBytes = capacity
  IN  /\ Inside(s, "write")
      /\ idx[s] < Len(data[s])
      /\ readOffset' = IF full THEN Advance(readOffset) ELSE readOffset
      /\ bufferedBytes' = IF full THEN bufferedBytes ELSE bufferedBytes + 1
      /\ buffer' = [buffer EXCEPT ![writeOffset] = data[s][idx[s] + 1]]
      /\ writeOffset' = Advance(writeOffset)
      /\ idx' = [idx EXCEPT ![s] = @ + 1]
      /\ UNCHANGED <<capacity, initialized, lock, pc, op, data, want, out, info>>

WriteDone(s) ==
  /\ Inside(s, "write")
  /\ idx[s] = Len(data[s])
  /\ Release(s)
  /\ UNCHANGED <<ring, info>>

(* RifeZPcmBufferRead: the count is only taken off after the loop.         *)
ReadByte(c) ==
  /\ Inside(c, "read")
  /\ idx[c] < want[c]
  /\ out' = [out EXCEPT ![c] = Append(@, buffer[readOffset])]
  /\ readOffset' = Advance(readOffset)
  /\ idx' = [idx EXCEPT ![c] = @ + 1]
  /\ UNCHANGED <<buffer, capacity, writeOffset, bufferedBytes, initialized>>
  /\ UNCHANGED <<lock, pc, op, data, want, info>>

ReadDone(c) ==
  /\ Inside(c, "read")
  /\ idx[c] = want[c]
  /\ bufferedBytes' = bufferedBytes - want[c]
  /\ Release(c)
  /\ UNCHANGED <<buffer, capacity, readOffset, writeOffset, initialized, info>>

(* RifeZPcmBufferReset.  Slips: one offset is forgotten; a path out of the *)
(* function keeps the lock.                                                *)
ResetRingHalf(c) ==
  /\ Inside(c, "reset")
  /\ readOffset' = 0
  /\ bufferedBytes' = 0
  /\ Release(c)
  /\ UNCHANGED <<buffer, capacity, writeOffset, initialized, info>>

ResetRingKeepsLock(c) ==
  /\ Inside(c, "reset")
  /\ readOffset' = 0
  /\ writeOffset' = 0
  /\ bufferedBytes' = 0
  /\ UNCHANGED <<buffer, capacity, initialized, lock, pc, op, data, want, idx, out, info>>

ResetRing(c) ==
  /\ Inside(c, "reset")
  /\ readOffset' = 0
  /\ writeOffset' = 0
  /\ bufferedBytes' = 0
  /\ Release(c)
  /\ UNCHANGED <<buffer, capacity, initialized, info>>

(* RifeZPcmBufferGetBufferedBytes.                                         *)
QueryDone(c) ==
  /\ Inside(c, "query")
  /\ info' = [info EXCEPT ![c].buffered = bufferedBytes]
  /\ Release(c)
  /\ UNCHANGED ring

-----------------------------------------------------------------------------

Call ==
  \/ \E s \in Streams, chunk \in Chunks : CallWrite(s, chunk)
  \/ \E c \in Clients, n \in Requests : CallRead(c, n)
  \/ \E c \in Clients : CallReset(c) \/ CallGetInfo(c)

Work(t) ==
  \/ t \in Streams /\ (WriteByte(t) \/ WriteDone(t))
  \/ t \in Clients /\ (ReadByte(t) \/ ReadDone(t) \/ ResetRing(t) \/ QueryDone(t))

Next ==
  \/ Call
  \/ \E t \in Threads : Acquire(t) \/ Work(t)

(* A thread that holds the lock runs at DISPATCH_LEVEL on its processor:   *)
(* nothing but its own code stops it.  Nothing is assumed of the order in  *)
(* which spinning threads get the lock.                                    *)
Fairness == \A t \in Threads : WF_vars(Work(t))

Spec == Init /\ [][Next]_vars /\ Fairness

-----------------------------------------------------------------------------
(* Reading the state as a queue.                                           *)

(* The slot k places after an offset, k at most the capacity.              *)
Slot(offset, k) ==
  IF offset + k < Capacity THEN offset + k ELSE offset + k - Capacity

(* The bytes a reader inside its loop has taken but not yet subtracted.    *)
Taken == IF lock # Free /\ op[lock] = "read" THEN idx[lock] ELSE 0

Live == bufferedBytes - Taken

Contents == [j \in 1 .. Live |-> buffer[Slot(readOffset, j - 1)]]

(* The thread inside the lock is in operation o.                           *)
Holding(o) == lock # Free /\ op[lock] = o

Newest(s) ==
  IF Len(s) <= Capacity THEN s ELSE SubSeq(s, Len(s) - Capacity + 1, Len(s))

(* An operation takes effect on the queue when it takes the lock: the rest *)
(* of a writer's chunk already counts, what a reader has still to copy no  *)
(* longer does and is already delivered.                                   *)
AbstractQueue ==
  CASE Holding("write") ->
         Newest(Contents \o SubSeq(data[lock], idx[lock] + 1, Len(data[lock])))
    [] Holding("read")  -> SubSeq(Contents, want[lock] - idx[lock] + 1, Live)
    [] Holding("reset") -> << >>
    [] OTHER            -> Contents

AbstractDelivered ==
  [c \in Clients |->
     IF lock = c /\ op[c] = "read"
     THEN out[c] \o SubSeq(Contents, 1, want[c] - idx[c])
     ELSE out[c]]

Fifo == INSTANCE PcmFifo WITH
  queue     <- AbstractQueue,
  delivered <- AbstractDelivered

-----------------------------------------------------------------------------
(* Type correctness of the ring and of the threads in it.                  *)
TypeOK ==
  /\ buffer \in [0 .. Capacity - 1 -> Bytes]
  /\ capacity = Capacity
  /\ readOffset \in 0 .. Capacity - 1
  /\ writeOffset \in 0 .. Capacity - 1
  /\ bufferedBytes \in 0 .. Capacity
  /\ initialized = TRUE
  /\ lock \in Threads \cup {Free}
  /\ pc \in [Threads -> {"outside", "spinning", "inside"}]
  /\ op \in [Threads -> Ops]
  /\ data \in [Streams -> Seq(Bytes)]
  /\ want \in [Clients -> Nat]
  /\ idx \in [Threads -> Nat]
  /\ out \in [Clients -> Seq(Bytes)]
  /\ info \in [Clients -> [capacity : {0, Capacity}, buffered : 0 .. Capacity]]

(* A thread is inside exactly when the lock names it, so never two are.    *)
LockOwned == \A t \in Threads : pc[t] = "inside" <=> lock = t

(* The two offsets and the count, three numbers updated one by one in two  *)
(* loops, never disagree: the write offset is always the live bytes ahead  *)
(* of the read offset, also in the middle of a read, of a write that wraps *)
(* and of one that overwrites the oldest bytes.                            *)
OffsetsAgree ==
  /\ Taken <= bufferedBytes
  /\ writeOffset = Slot(readOffset, Live)

(* What a client got is a contiguous run, oldest first, of what was        *)
(* written, and what was lost to a full ring was the oldest: the ring      *)
(* implements the atomic queue.                                            *)
ImplementsFifo == Fifo!Spec

(* KeAcquireSpinLock / KeReleaseSpinLock pairing: on every path through    *)
(* the four operations the lock is given back.                             *)
LockReleased == []<>(lock = Free)
=============================================================================
