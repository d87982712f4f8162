-------------------------- MODULE DriverRingProofs --------------------------
(***************************************************************************)
(* The PCM ring of the driver is correct for every capacity, every number  *)
(* of render streams and clients, every chunk and every request.           *)
(***************************************************************************)
EXTENDS DriverRing, TLAPS

(* Streams only write; clients only read, reset and query; a thread that   *)
(* waits for the lock has not begun its loop.                              *)
Roles ==
  /\ \A s \in Streams : op[s] \in {"none", "write"}
  /\ \A c \in Clients : op[c] \in {"none", "read", "reset", "query"}
  /\ \A t \in Threads : pc[t] = "spinning" => idx[t] = 0

(* A reader never copies more than was buffered when it took the lock, nor *)
(* a writer more than its chunk.                                           *)
LoopsBounded ==
  /\ \A c \in Clients :
       lock = c /\ op[c] = "read" => idx[c] <= want[c] /\ want[c] <= bufferedBytes
  /\ \A s \in Streams :
       lock = s /\ op[s] = "write" => idx[s] <= Len(data[s])

(* OffsetsAgree alone is not inductive: the end of a read keeps it only    *)
(* because the reader has taken exactly what it subtracts.                 *)
IInv == TypeOK /\ LockOwned /\ Roles /\ LoopsBounded /\ OffsetsAgree

-----------------------------------------------------------------------------

(* The modulo of the loops is a conditional reset to slot 0.               *)
LEMMA AdvanceWraps ==
  ASSUME capacity \in Nat \ {0}, NEW x \in 0 .. capacity - 1
  PROVE  Advance(x) = IF x + 1 = capacity THEN 0 ELSE x + 1
  BY DEF Advance

(* The k-th slot from here is the one before it from the next slot on.     *)
LEMMA SlotStep ==
  ASSUME NEW x \in 0 .. Capacity - 1, NEW k \in 1 .. Capacity
  PROVE  Slot(x, k) = Slot(IF x + 1 = Capacity THEN 0 ELSE x + 1, k - 1)
  BY RingAssumption DEF Slot

LEMMA InitIInv == Init => IInv
  BY RingAssumption
  DEF Init, LoopsIdle, IInv, TypeOK, LockOwned, Roles, LoopsBounded,
      OffsetsAgree, Taken, Live, Slot, Threads, Ops
(***************************************************************************)
(* One lemma per group of actions.  Entering an operation, taking and      *)
(* giving back the lock leave the ring alone; the loop bodies move it.     *)
(***************************************************************************)

(* A thread that enters an operation is not the one inside.                *)
LEMMA EnterKeepsThreads ==
  ASSUME IInv, NEW t \in Threads, NEW o \in Ops, Enter(t, o),
         t \in Streams => o = "write",
         t \in Clients => o \in {"read", "reset", "query"}
  PROVE  /\ pc' \in [Threads -> {"outside", "spinning", "inside"}]
         /\ op' \in [Threads -> Ops]
         /\ idx' \in [Threads -> Nat]
         /\ UNCHANGED <<ring, lock>> /\ lock # t
         /\ LockOwned' /\ Roles' /\ Taken' = Taken
  BY RingAssumption
  DEF IInv, Enter, TypeOK, LockOwned, Roles, Taken, Threads, Ops

LEMMA CallWriteKeepsIInv ==
  ASSUME IInv, NEW s \in Streams, NEW chunk \in Chunks, CallWrite(s, chunk)
  PROVE  IInv'
<1>1. s \in Threads /\ s \notin Clients /\ chunk \in Seq(Bytes) /\ "write" \in Ops
  BY RingAssumption DEF Threads, Ops
<1>2. Enter(s, "write")
  BY DEF CallWrite
<1>3. /\ pc' \in [Threads -> {"outside", "spinning", "inside"}]
      /\ op' \in [Threads -> Ops]
      /\ idx' \in [Threads -> Nat]
      /\ UNCHANGED <<ring, lock>> /\ lock # s
      /\ LockOwned' /\ Roles' /\ Taken' = Taken
  BY <1>1, <1>2, EnterKeepsThreads
<1>4. TypeOK'
  BY <1>1, <1>3 DEF IInv, TypeOK, CallWrite, ring
<1>5. LoopsBounded'
  BY <1>1, <1>3 DEF IInv, TypeOK, LoopsBounded, CallWrite, Enter, ring, Threads
<1>6. OffsetsAgree'
  BY <1>3 DEF IInv, OffsetsAgree, Live, Slot, ring
<1> QED
  BY <1>3, <1>4, <1>5, <1>6 DEF IInv

LEMMA CallByClientKeepsIInv ==
  ASSUME IInv, NEW c \in Clients,
         (\E n \in Requests : CallRead(c, n)) \/ CallReset(c) \/ CallGetInfo(c)
  PROVE  IInv'
<1>1. c \in Threads /\ c \notin Streams /\ {"read", "reset", "query"} \subseteq Ops
  BY RingAssumption DEF Threads, Ops
<1>2. PICK o \in {"read", "reset", "query"} : Enter(c, o)
  BY DEF CallRead, CallReset, CallGetInfo
<1>3. /\ pc' \in [Threads -> {"outside", "spinning", "inside"}]
      /\ op' \in [Threads -> Ops]
      /\ idx' \in [Threads -> Nat]
      /\ UNCHANGED <<ring, lock>> /\ lock # c
      /\ LockOwned' /\ Roles' /\ Taken' = Taken
  BY <1>1, <1>2, EnterKeepsThreads
<1>4. /\ data' = data
      /\ want' \in [Clients -> Nat]
      /\ \A d \in Clients \ {c} : want'[d] = want[d]
      /\ out' \in [Clients -> Seq(Bytes)]
      /\ info' \in [Clients -> [capacity : {0, Capacity}, buffered : 0 .. Capacity]]
  <2>1. CASE CallReset(c)
    BY <2>1 DEF IInv, TypeOK, CallReset
  <2>2. CASE CallGetInfo(c)
    BY <2>2 DEF IInv, TypeOK, CallGetInfo
  <2>3. ASSUME NEW n \in Requests, CallRead(c, n)
        PROVE  /\ data' = data /\ info' = info
               /\ want' \in [Clients -> Nat]
               /\ \A d \in Clients \ {c} : want'[d] = want[d]
               /\ out' \in [Clients -> Seq(Bytes)]
    BY <2>3, RingAssumption DEF IInv, TypeOK, CallRead
  <2> QED
    BY <2>1, <2>2, <2>3 DEF IInv, TypeOK
<1>5. TypeOK'
  BY <1>3, <1>4 DEF IInv, TypeOK, ring
<1>6. LoopsBounded'
  BY <1>1, <1>2, <1>3, <1>4 DEF IInv, TypeOK, LoopsBounded, Enter, ring, Threads
<1>7. OffsetsAgree'
  BY <1>3 DEF IInv, OffsetsAgree, Live, Slot, ring
<1> QED
  BY <1>3, <1>5, <1>6, <1>7 DEF IInv

LEMMA AcquireKeepsIInv ==
  ASSUME IInv, NEW t \in Threads, Acquire(t)
  PROVE  IInv'
<1> USE RingAssumption
<1>1. /\ lock = Free /\ lock' = t /\ t # Free /\ idx[t] = 0 /\ op' = op /\ idx' = idx
      /\ UNCHANGED ring
  BY DEF IInv, Roles, Acquire
<1>2. /\ want' \in [Clients -> Nat]
      /\ \A c \in Clients : op[c] = "read" /\ c = t => want'[c] <= bufferedBytes
  BY DEF IInv, TypeOK, Acquire
<1>3. TypeOK'
  BY <1>1, <1>2 DEF IInv, TypeOK, Acquire, ring
<1>4. LockOwned' /\ Roles'
  BY DEF IInv, TypeOK, LockOwned, Roles, Acquire
<1>5. LoopsBounded'
  BY <1>1, <1>2 DEF IInv, TypeOK, LoopsBounded, Acquire, ring
<1>6. Taken = 0 /\ Taken' = 0
  BY <1>1 DEF Taken
<1>7. OffsetsAgree'
  BY <1>1, <1>6 DEF IInv, OffsetsAgree, Live, Slot, ring
<1> QED
  BY <1>3, <1>4, <1>5, <1>7 DEF IInv

LEMMA WriteByteKeepsIInv ==
  ASSUME IInv, NEW s \in Streams, WriteByte(s)
  PROVE  IInv'
<1> USE RingAssumption DEF IInv, WriteByte, Inside
<1>0. /\ Advance(readOffset) = IF readOffset + 1 = Capacity THEN 0 ELSE readOffset + 1
      /\ Advance(writeOffset) = IF writeOffset + 1 = Capacity THEN 0 ELSE writeOffset + 1
  BY AdvanceWraps DEF TypeOK
<1>1. TypeOK'
  BY <1>0 DEF TypeOK, Threads, Ops
<1>2. LockOwned'
  BY DEF TypeOK, LockOwned, Threads
<1>3. lock = s /\ op[s] = "write" /\ Taken = 0 /\ Taken' = 0
  BY DEF TypeOK, LockOwned, Threads, Taken
<1>4. Roles' /\ LoopsBounded'
  BY <1>3 DEF TypeOK, Roles, LoopsBounded, Threads
<1>5. OffsetsAgree'
  BY <1>0, <1>3 DEF TypeOK, OffsetsAgree, Live, Slot
<1> QED
  BY <1>1, <1>2, <1>4, <1>5

LEMMA ReadByteKeepsIInv ==
  ASSUME IInv, NEW c \in Clients, ReadByte(c)
  PROVE  IInv'
<1> USE RingAssumption DEF IInv, ReadByte, Inside
<1>0. Advance(readOffset) = IF readOffset + 1 = Capacity THEN 0 ELSE readOffset + 1
  BY AdvanceWraps DEF TypeOK
<1>1. TypeOK'
  BY <1>0 DEF TypeOK, Threads, Ops
<1>2. LockOwned'
  BY DEF TypeOK, LockOwned, Threads
<1>3. lock = c /\ op[c] = "read" /\ Taken = idx[c] /\ Taken' = idx[c] + 1
  BY DEF TypeOK, LockOwned, Threads, Taken
<1>4. Roles' /\ LoopsBounded'
  BY <1>3 DEF TypeOK, Roles, LoopsBounded, Threads
<1>5. idx[c] \in Nat /\ idx[c] + 1 <= bufferedBytes
  BY <1>3 DEF TypeOK, LoopsBounded, Threads
<1>6. OffsetsAgree'
  <2>1. readOffset' = IF readOffset + 1 = Capacity THEN 0 ELSE readOffset + 1
    BY <1>0
  <2>2. Live = bufferedBytes - idx[c] /\ Live' = bufferedBytes - idx[c] - 1
    BY <1>3, <1>5 DEF TypeOK, Live
  <2>3. writeOffset' = Slot(readOffset, bufferedBytes - idx[c])
    BY <2>2 DEF OffsetsAgree
  <2>4. Slot(readOffset, bufferedBytes - idx[c])
          = Slot(readOffset', bufferedBytes - idx[c] - 1)
    <3>1. bufferedBytes - idx[c] \in 1 .. Capacity /\ readOffset \in 0 .. Capacity - 1
      BY <1>5 DEF TypeOK
    <3> QED
      BY <2>1, <3>1, SlotStep
  <2> QED
    BY <1>3, <1>5, <2>2, <2>3, <2>4 DEF TypeOK, OffsetsAgree, Slot
<1> QED
  BY <1>1, <1>2, <1>4, <1>6

(* Giving the lock back: the same argument for the four operations.        *)
LEMMA ReleaseKeepsThreads ==
  ASSUME IInv, NEW t \in Threads, pc[t] = "inside", Release(t)
  PROVE  /\ lock' \in Threads \cup {Free}
         /\ pc' \in [Threads -> {"outside", "spinning", "inside"}]
         /\ op' \in [Threads -> Ops]
         /\ data' \in [Streams -> Seq(Bytes)]
         /\ want' \in [Clients -> Nat]
         /\ idx' \in [Threads -> Nat]
         /\ LockOwned' /\ Roles' /\ LoopsBounded' /\ Taken' = 0
  BY RingAssumption
  DEF IInv, Release, TypeOK, LockOwned, Roles, LoopsBounded, Taken, Threads, Ops

LEMMA WriteDoneKeepsIInv ==
  ASSUME IInv, NEW s \in Streams, WriteDone(s)
  PROVE  IInv'
<1> USE RingAssumption DEF IInv, WriteDone, Inside, ring
<1>1. s \in Threads /\ lock = s /\ Taken = 0
  BY DEF TypeOK, LockOwned, Taken, Threads
<1>2. TypeOK' /\ LockOwned' /\ Roles' /\ LoopsBounded' /\ Taken' = 0
  BY <1>1, ReleaseKeepsThreads DEF TypeOK, Release
<1>3. OffsetsAgree'
  BY <1>1, <1>2 DEF TypeOK, OffsetsAgree, Live, Slot
<1> QED
  BY <1>2, <1>3

LEMMA ReadDoneKeepsIInv ==
  ASSUME IInv, NEW c \in Clients, ReadDone(c)
  PROVE  IInv'
<1> USE RingAssumption DEF ReadDone, Inside
<1>1. /\ c \in Threads /\ lock = c /\ Taken = want[c]
      /\ want[c] \in Nat /\ want[c] <= bufferedBytes
  BY DEF IInv, TypeOK, LockOwned, LoopsBounded, Taken, Threads
<1>2. /\ lock' \in Threads \cup {Free}
      /\ pc' \in [Threads -> {"outside", "spinning", "inside"}]
      /\ op' \in [Threads -> Ops]
      /\ data' \in [Streams -> Seq(Bytes)]
      /\ want' \in [Clients -> Nat]
      /\ idx' \in [Threads -> Nat]
      /\ LockOwned' /\ Roles' /\ LoopsBounded' /\ Taken' = 0
  BY <1>1, ReleaseKeepsThreads
<1>3. TypeOK'
  BY <1>1, <1>2 DEF IInv, TypeOK, Release
<1>4. OffsetsAgree'
  BY <1>1, <1>2 DEF IInv, TypeOK, OffsetsAgree, Live, Slot
<1> QED
  BY <1>2, <1>3, <1>4 DEF IInv

LEMMA ResetKeepsIInv ==
  ASSUME IInv, NEW c \in Clients, ResetRing(c)
  PROVE  IInv'
<1> USE RingAssumption DEF ResetRing, Inside
<1>1. c \in Threads
  BY DEF Threads
<1>2. /\ lock' \in Threads \cup {Free}
      /\ pc' \in [Threads -> {"outside", "spinning", "inside"}]
      /\ op' \in [Threads -> Ops]
      /\ data' \in [Streams -> Seq(Bytes)]
      /\ want' \in [Clients -> Nat]
      /\ idx' \in [Threads -> Nat]
      /\ LockOwned' /\ Roles' /\ LoopsBounded' /\ Taken' = 0
  BY <1>1, ReleaseKeepsThreads
<1>3. TypeOK'
  BY <1>2 DEF IInv, TypeOK, Release
<1>4. OffsetsAgree'
  BY <1>2 DEF IInv, TypeOK, OffsetsAgree, Live, Slot
<1> QED
  BY <1>2, <1>3, <1>4 DEF IInv

LEMMA QueryKeepsIInv ==
  ASSUME IInv, NEW c \in Clients, QueryDone(c)
  PROVE  IInv'
<1> USE RingAssumption DEF QueryDone, Inside, ring
<1>1. c \in Threads /\ lock = c /\ Taken = 0
  BY DEF IInv, TypeOK, LockOwned, Taken, Threads
<1>2. /\ lock' \in Threads \cup {Free}
      /\ pc' \in [Threads -> {"outside", "spinning", "inside"}]
      /\ op' \in [Threads -> Ops]
      /\ data' \in [Streams -> Seq(Bytes)]
      /\ want' \in [Clients -> Nat]
      /\ idx' \in [Threads -> Nat]
      /\ LockOwned' /\ Roles' /\ LoopsBounded' /\ Taken' = 0
  BY <1>1, ReleaseKeepsThreads
<1>3. info' \in [Clients -> [capacity : {0, Capacity}, buffered : 0 .. Capacity]]
  <2>1. bufferedBytes \in 0 .. Capacity
    BY DEF IInv, TypeOK
  <2> QED
    BY <2>1 DEF IInv, TypeOK
<1>4. TypeOK'
  BY <1>2, <1>3 DEF IInv, TypeOK, Release
<1>5. OffsetsAgree'
  BY <1>1, <1>2 DEF IInv, TypeOK, OffsetsAgree, Live, Slot
<1> QED
  BY <1>2, <1>4, <1>5 DEF IInv

LEMMA StutterKeepsIInv == IInv /\ UNCHANGED vars => IInv'
  BY DEF IInv, vars, ring, TypeOK, LockOwned, Roles, LoopsBounded, OffsetsAgree,
         Taken, Live

(* The inductive step: one case per action.                                *)
LEMMA NextKeepsIInv == IInv /\ [Next]_vars => IInv'
<1> SUFFICES ASSUME IInv, [Next]_vars PROVE IInv'
  OBVIOUS
<1>1. CASE Call
  BY <1>1, CallWriteKeepsIInv, CallByClientKeepsIInv DEF Call
<1>2. ASSUME NEW t \in Threads, Acquire(t) PROVE IInv'
  BY <1>2, AcquireKeepsIInv
<1>3. ASSUME NEW t \in Threads, Work(t) PROVE IInv'
  BY <1>3, WriteByteKeepsIInv, WriteDoneKeepsIInv, ReadByteKeepsIInv,
     ReadDoneKeepsIInv, ResetKeepsIInv, QueryKeepsIInv
  DEF Work
<1>4. CASE UNCHANGED vars
  BY <1>4, StutterKeepsIInv
<1> QED
  BY <1>1, <1>2, <1>3, <1>4 DEF Next

LEMMA Inductive == Spec => []IInv
  BY InitIInv, NextKeepsIInv, PTL DEF Spec

-----------------------------------------------------------------------------

(* Every variable of the ring keeps its range, the offsets in the buffer   *)
(* and the count within the capacity above all.                            *)
THEOREM RingTypeCorrect == Spec => []TypeOK
<1>1. IInv => TypeOK
  BY DEF IInv
<1> QED
  BY <1>1, Inductive, PTL

(* Never two threads inside the ring's lock.                               *)
THEOREM RingMutualExclusion == Spec => []LockOwned
<1>1. IInv => LockOwned
  BY DEF IInv
<1> QED
  BY <1>1, Inductive, PTL

(* The two offsets and the count agree at every step of every loop.        *)
THEOREM RingOffsetsAgree == Spec => []OffsetsAgree
<1>1. IInv => OffsetsAgree
  BY DEF IInv
<1> QED
  BY <1>1, Inductive, PTL
=============================================================================
