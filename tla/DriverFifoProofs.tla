-------------------------- MODULE DriverFifoProofs --------------------------
(***************************************************************************)
(* The driver's ring implements the bounded queue of PcmFifo: every        *)
(* operation takes effect at once when it takes the lock, and the loops it *)
(* runs byte by byte inside are invisible.                                 *)
(***************************************************************************)
EXTENDS DriverRingProofs, SequenceTheorems

(* What a caller brought with it, until it gets the lock.                  *)
Calls ==
  /\ \A t \in Threads : pc[t] # "outside" => op[t] # "none"
  /\ \A s \in Streams : pc[s] = "spinning" => data[s] \in Chunks
  /\ \A c \in Clients :
       pc[c] = "spinning" /\ op[c] = "read" => want[c] \in Requests /\ out[c] = << >>

FInv == IInv /\ Calls

LEMMA InitFInv == Init => FInv
  BY InitIInv DEF FInv, Calls, Init, LoopsIdle, Threads

LEMMA CallsKept ==
  ASSUME IInv, Calls, Next
  PROVE  Calls'
<1> USE RingAssumption DEF IInv, TypeOK, Calls, Threads
<1>1. ASSUME NEW s \in Streams, NEW chunk \in Chunks, CallWrite(s, chunk) PROVE Calls'
  BY <1>1 DEF CallWrite, Enter
<1>2. ASSUME NEW c \in Clients, NEW n \in Requests, CallRead(c, n) PROVE Calls'
  BY <1>2 DEF CallRead, Enter
<1>3. ASSUME NEW c \in Clients, CallReset(c) PROVE Calls'
  BY <1>3 DEF CallReset, Enter
<1>4. ASSUME NEW c \in Clients, CallGetInfo(c) PROVE Calls'
  BY <1>4 DEF CallGetInfo, Enter
<1>5. ASSUME NEW t \in Threads, Acquire(t) PROVE Calls'
  BY <1>5 DEF Acquire
<1>6. ASSUME NEW s \in Streams, WriteByte(s) PROVE Calls'
  BY <1>6 DEF WriteByte, Inside
<1>7. ASSUME NEW c \in Clients, ReadByte(c) PROVE Calls'
  BY <1>7 DEF ReadByte, Inside
<1>8. ASSUME NEW t \in Threads, Release(t) PROVE Calls'
  BY <1>8 DEF Release
<1> QED
  BY <1>1, <1>2, <1>3, <1>4, <1>5, <1>6, <1>7, <1>8
  DEF Next, Call, Work, WriteDone, ReadDone, ResetRing, QueryDone

LEMMA FInductive == Spec => []FInv
<1>1. FInv /\ [Next]_vars => FInv'
  <2>1. CASE UNCHANGED vars
    BY <2>1, StutterKeepsIInv DEF FInv, Calls, vars
  <2> QED
    BY <2>1, NextKeepsIInv, CallsKept DEF FInv
<1> QED
  BY <1>1, InitFInv, PTL DEF Spec

-----------------------------------------------------------------------------
(* Sequences: what the loops do to a queue at either end.                  *)

(* Appending an element shifts the border between two sequences.           *)
LEMMA BorderMoves ==
  ASSUME NEW S, NEW q \in Seq(S), NEW x \in S, NEW r \in Seq(S), NEW y, y = <<x>>
  PROVE  Append(q, x) \o r = q \o (y \o r)
<1>1. y \in Seq(S) /\ Append(q, x) = q \o y
  BY AppendIsConcat
<1>2. (q \o y) \o r = q \o (y \o r)
  BY <1>1, ConcatAssociative
<1> QED
  BY <1>1, <1>2

(* A writer moves the next byte of its chunk to the end of the queue.      *)
LEMMA AppendMoves ==
  ASSUME NEW S, NEW q \in Seq(S), NEW r \in Seq(S), NEW k \in 1 .. Len(r)
  PROVE  Append(q, r[k]) \o SubSeq(r, k + 1, Len(r)) = q \o SubSeq(r, k, Len(r))
<1>1. r[k] \in S /\ Len(r) \in Nat
  BY ElementOfSeq, LenProperties
<1>2. SubSeq(r, k + 1, Len(r)) \in Seq(S)
  BY <1>1, SubSeqProperties, ElementOfSeq
<1>3. SubSeq(r, k, Len(r)) = <<r[k]>> \o SubSeq(r, k + 1, Len(r))
  BY <1>1, SubSeqRecursiveFirst
<1>4. Append(q, r[k]) \o SubSeq(r, k + 1, Len(r))
        = q \o (<<r[k]>> \o SubSeq(r, k + 1, Len(r)))
  <2> DEFINE x == r[k]
             rest == SubSeq(r, k + 1, Len(r))
             one == <<x>>
  <2>1. x \in S /\ rest \in Seq(S)
    BY <1>1, <1>2
  <2>2. one = <<x>>
    OBVIOUS
  <2> HIDE DEF x, rest, one
  <2>3. Append(q, x) \o rest = q \o (one \o rest)
    BY <2>1, <2>2, BorderMoves
  <2> QED
    BY <2>3 DEF x, rest, one
<1> QED
  BY <1>3, <1>4, Zenon

LEMMA TailOfConcat ==
  ASSUME NEW S, NEW q \in Seq(S), NEW r \in Seq(S), q # << >>
  PROVE  Tail(q) \o r = Tail(q \o r)
<1>1. /\ Tail(q) \in Seq(S) /\ Len(Tail(q)) = Len(q) - 1 /\ Len(q) \in Nat \ {0}
      /\ \A i \in 1 .. Len(Tail(q)) : Tail(q)[i] = q[i + 1]
  BY HeadTailProperties, EmptySeq
<1>2. /\ q \o r \in Seq(S) /\ Len(q \o r) = Len(q) + Len(r) /\ Len(r) \in Nat
      /\ \A i \in 1 .. Len(q) + Len(r) :
           (q \o r)[i] = IF i <= Len(q) THEN q[i] ELSE r[i - Len(q)]
  BY ConcatProperties, LenProperties
<1>3. q \o r # << >>
  BY <1>1, <1>2, EmptySeq
<1>4. /\ Tail(q \o r) \in Seq(S) /\ Len(Tail(q \o r)) = Len(q) + Len(r) - 1
      /\ \A i \in 1 .. Len(Tail(q \o r)) : Tail(q \o r)[i] = (q \o r)[i + 1]
  BY <1>2, <1>3, HeadTailProperties
<1>5. /\ Tail(q) \o r \in Seq(S) /\ Len(Tail(q) \o r) = Len(q) - 1 + Len(r)
      /\ \A i \in 1 .. Len(q) - 1 + Len(r) :
           (Tail(q) \o r)[i] = IF i <= Len(q) - 1 THEN Tail(q)[i] ELSE r[i - (Len(q) - 1)]
  BY <1>1, ConcatProperties
<1>6. ASSUME NEW i \in 1 .. Len(q) - 1 + Len(r)
      PROVE  (Tail(q) \o r)[i] = Tail(q \o r)[i]
  <2>1. i + 1 \in 1 .. Len(q) + Len(r)
    BY <1>1, <1>2
  <2> QED
    BY <1>1, <1>2, <1>4, <1>5, <2>1
<1> QED
  BY <1>1, <1>2, <1>4, <1>5, <1>6, SeqEqual

(* From the second byte on: the tail seen as a part of the whole.          *)
LEMMA SubSeqOfTail ==
  ASSUME NEW S, NEW q \in Seq(S), NEW m \in 1 .. Len(q), NEW n \in 0 .. Len(q) - 1
  PROVE  SubSeq(Tail(q), m, n) = SubSeq(q, m + 1, n + 1)
<1>1. Len(q) \in Nat \ {0} /\ q # << >>
  BY LenProperties, EmptySeq
<1>2. Tail(q) = SubSeq(q, 2, Len(q))
  BY <1>1, TailIsSubSeq
<1>3. CASE m <= n
  <2>1. /\ 2 \in 1 .. Len(q) /\ Len(q) \in 1 .. Len(q)
        /\ m \in 1 .. Len(q) - 2 + 1 /\ n \in 1 .. Len(q) - 2 + 1
    BY <1>1, <1>3
  <2>2. SubSeq(SubSeq(q, 2, Len(q)), m, n) = SubSeq(q, 2 + m - 1, 2 + n - 1)
    BY <2>1, SubSeqOfSubSeq
  <2>3. 2 + m - 1 = m + 1 /\ 2 + n - 1 = n + 1
    BY <1>1
  <2> QED
    BY <1>2, <2>2, <2>3
<1>4. CASE n < m
  BY <1>1, <1>4, SubSeqEmpty
<1> QED
  BY <1>1, <1>3, <1>4

(* A reader moves the oldest byte of its share to the end of its answer.   *)
LEMMA TakeOne ==
  ASSUME NEW S, NEW o \in Seq(S), NEW q \in Seq(S), NEW k \in 1 .. Len(q)
  PROVE  Append(o, q[1]) \o SubSeq(Tail(q), 1, k - 1) = o \o SubSeq(q, 1, k)
<1>1. Len(q) \in Nat \ {0} /\ 1 \in 1 .. Len(q) /\ k - 1 \in 0 .. Len(q) - 1
  BY LenProperties
<1>2. SubSeq(Tail(q), 1, k - 1) = SubSeq(q, 2, k)
  BY <1>1, SubSeqOfTail
<1>3. q[1] \in S /\ SubSeq(q, 2, k) \in Seq(S)
  BY <1>1, ElementOfSeq, SubSeqProperties
<1>4. SubSeq(q, 1, k) = <<q[1]>> \o SubSeq(q, 2, k)
  BY <1>1, SubSeqRecursiveFirst
<1>5. Append(o, q[1]) \o SubSeq(q, 2, k) = o \o (<<q[1]>> \o SubSeq(q, 2, k))
  <2> DEFINE x == q[1]
             rest == SubSeq(q, 2, k)
             one == <<x>>
  <2>1. x \in S /\ rest \in Seq(S)
    BY <1>3
  <2>2. one = <<x>>
    OBVIOUS
  <2> HIDE DEF x, rest, one
  <2>3. Append(o, x) \o rest = o \o (one \o rest)
    BY <2>1, <2>2, BorderMoves
  <2> QED
    BY <2>3 DEF x, rest, one
<1> QED
  BY <1>2, <1>4, <1>5, Zenon

(* Dropping the oldest byte of a queue that is too long loses nothing more.*)
LEMMA NewestOfTail ==
  ASSUME NEW S, NEW q \in Seq(S), Len(q) > Capacity
  PROVE  Newest(Tail(q)) = Newest(q)
<1> USE RingAssumption
<1>1. Len(q) \in Nat \ {0} /\ q # << >>
  BY LenProperties, EmptySeq
<1>2. Tail(q) \in Seq(S) /\ Len(Tail(q)) = Len(q) - 1
  BY <1>1, HeadTailProperties
<1>3. Newest(q) = SubSeq(q, Len(q) - Capacity + 1, Len(q))
  BY <1>1 DEF Newest
<1>4. CASE Len(q) - 1 <= Capacity
  <2>1. Newest(Tail(q)) = Tail(q) /\ Len(q) - Capacity + 1 = 2
    BY <1>1, <1>2, <1>4 DEF Newest
  <2> QED
    BY <1>1, <1>3, <2>1, TailIsSubSeq
<1>5. CASE Len(q) - 1 > Capacity
  <2>1. Newest(Tail(q)) = SubSeq(Tail(q), Len(q) - Capacity, Len(q) - 1)
    <3>1. (Len(q) - 1) - Capacity + 1 = Len(q) - Capacity
      BY <1>1
    <3> QED
      BY <1>1, <1>2, <1>5, <3>1 DEF Newest
  <2>2. Len(q) - Capacity \in 1 .. Len(q) /\ Len(q) - 1 \in 0 .. Len(q) - 1
    BY <1>1, <1>5
  <2>3. (Len(q) - 1) + 1 = Len(q) /\ (Len(q) - Capacity) + 1 = Len(q) - Capacity + 1
    BY <1>1
  <2>4. SubSeq(Tail(q), Len(q) - Capacity, Len(q) - 1)
          = SubSeq(q, (Len(q) - Capacity) + 1, (Len(q) - 1) + 1)
    BY <2>2, SubSeqOfTail, Zenon
  <2> QED
    BY <1>3, <2>1, <2>3, <2>4
<1> QED
  BY <1>1, <1>4, <1>5

-----------------------------------------------------------------------------
(* Windows: n live bytes of a buffer from an offset on, around its end.    *)

IsWindow(w, buf, offset, n) ==
  /\ w \in Seq(Bytes)
  /\ Len(w) = n
  /\ \A j \in 1 .. n : w[j] = buf[Slot(offset, j - 1)]

After(offset) == IF offset + 1 = Capacity THEN 0 ELSE offset + 1

(* new is old with x stored at one place.                                  *)
Stores(new, old, at, x) ==
  \A i \in 0 .. Capacity - 1 : new[i] = IF i = at THEN x ELSE old[i]

LEMMA WindowUnique ==
  ASSUME NEW v, NEW w, NEW buf, NEW offset, NEW n,
         IsWindow(v, buf, offset, n), IsWindow(w, buf, offset, n)
  PROVE  v = w
<1>1. /\ v \in Seq(Bytes) /\ w \in Seq(Bytes) /\ Len(v) = Len(w)
      /\ \A j \in 1 .. Len(v) : v[j] = w[j]
  BY DEF IsWindow
<1> QED
  BY <1>1, SeqEqual

(* A byte written behind the window extends it.                            *)
LEMMA WindowGrows ==
  ASSUME NEW old, NEW buf, NEW buf2,
         NEW offset \in 0 .. Capacity - 1, NEW n \in 0 .. Capacity - 1, NEW x \in Bytes,
         IsWindow(old, buf, offset, n), Stores(buf2, buf, Slot(offset, n), x)
  PROVE  IsWindow(Append(old, x), buf2, offset, n + 1)
<1> USE RingAssumption
<1> DEFINE at  == Slot(offset, n)
           new == Append(old, x)
<1>1. at \in 0 .. Capacity - 1
  BY DEF Slot
<1>2. \A i \in 0 .. Capacity - 1 : buf2[i] = IF i = at THEN x ELSE buf[i]
  BY DEF Stores
<1>3. /\ old \in Seq(Bytes) /\ Len(old) = n
      /\ \A j \in 1 .. n : old[j] = buf[Slot(offset, j - 1)]
  BY DEF IsWindow
<1>4. /\ new \in Seq(Bytes) /\ Len(new) = n + 1
      /\ \A j \in 1 .. n : new[j] = old[j]
      /\ new[n + 1] = x
  BY <1>3, AppendProperties
<1>5. ASSUME NEW j \in 1 .. n + 1 PROVE new[j] = buf2[Slot(offset, j - 1)]
  <2>1. CASE j = n + 1
    <3>1. j - 1 = n /\ buf2[at] = x
      BY <1>1, <1>2, <2>1
    <3> QED
      BY <1>4, <2>1, <3>1
  <2>2. CASE j # n + 1
    <3>1. j \in 1 .. n /\ Slot(offset, j - 1) # at /\ Slot(offset, j - 1) \in 0 .. Capacity - 1
      BY <2>2 DEF Slot
    <3> QED
      BY <1>2, <1>3, <1>4, <3>1
  <2> QED
    BY <2>1, <2>2
<1> HIDE DEF new
<1>6. IsWindow(new, buf2, offset, n + 1)
  BY <1>4, <1>5 DEF IsWindow
<1> QED
  BY <1>6 DEF new

(* Moving the offset on drops the first byte.                              *)
LEMMA WindowShrinks ==
  ASSUME NEW old, NEW buf,
         NEW offset \in 0 .. Capacity - 1, NEW n \in 1 .. Capacity,
         IsWindow(old, buf, offset, n)
  PROVE  /\ IsWindow(Tail(old), buf, After(offset), n - 1)
         /\ old[1] = buf[offset]
         /\ old # << >>
<1> USE RingAssumption
<1> DEFINE new == Tail(old)
<1>1. /\ old \in Seq(Bytes) /\ Len(old) = n
      /\ \A j \in 1 .. n : old[j] = buf[Slot(offset, j - 1)]
  BY DEF IsWindow
<1>2. old[1] = buf[offset]
  BY <1>1 DEF Slot
<1>3. old # << >>
  BY <1>1, EmptySeq
<1>4. /\ new \in Seq(Bytes) /\ Len(new) = n - 1
      /\ \A j \in 1 .. n - 1 : new[j] = old[j + 1]
  BY <1>1, <1>3, HeadTailProperties
<1>5. ASSUME NEW j \in 1 .. n - 1 PROVE new[j] = buf[Slot(After(offset), j - 1)]
  <2>1. Slot(offset, j) = Slot(After(offset), j - 1)
    BY DEF Slot, After
  <2>2. j + 1 \in 1 .. n /\ (j + 1) - 1 = j
    OBVIOUS
  <2> QED
    BY <1>1, <1>4, <2>1, <2>2
<1> HIDE DEF new
<1>6. IsWindow(new, buf, After(offset), n - 1)
  BY <1>4, <1>5 DEF IsWindow
<1> QED
  BY <1>2, <1>3, <1>6 DEF new

-----------------------------------------------------------------------------
(* The queue as the threads see it.                                        *)

LEMMA ContentsIsWindow ==
  IInv => Live \in 0 .. Capacity /\ IsWindow(Contents, buffer, readOffset, Live)
<1> SUFFICES ASSUME IInv
             PROVE  Live \in 0 .. Capacity /\ IsWindow(Contents, buffer, readOffset, Live)
  OBVIOUS
<1> USE RingAssumption
<1>1. Live \in 0 .. Capacity
  BY DEF IInv, TypeOK, OffsetsAgree, Live, Taken
<1>2. buffer \in [0 .. Capacity - 1 -> Bytes] /\ readOffset \in 0 .. Capacity - 1
  BY DEF IInv, TypeOK
<1>3. ASSUME NEW j \in 1 .. Live PROVE Slot(readOffset, j - 1) \in 0 .. Capacity - 1
  BY <1>1, <1>2 DEF Slot
<1>4. Contents \in [1 .. Live -> Bytes] /\ Live \in Nat
  BY <1>1, <1>2, <1>3 DEF Contents
<1> QED
  BY <1>1, <1>4 DEF IsWindow, Contents

LEMMA ContentsFacts ==
  ASSUME IInv
  PROVE  Live \in 0 .. Capacity /\ Contents \in Seq(Bytes) /\ Len(Contents) = Live
  BY ContentsIsWindow DEF IsWindow

(* The window after a step, told from the state before it.                 *)
LEMMA ContentsNext ==
  ASSUME IInv', NEW w, NEW buf, NEW offset, NEW n,
         buffer' = buf, readOffset' = offset, Live' = n, IsWindow(w, buf, offset, n)
  PROVE  Contents' = w
<1>1. (IInv => Live \in 0 .. Capacity /\ IsWindow(Contents, buffer, readOffset, Live))'
  BY ContentsIsWindow, PTL
<1>2. IsWindow(Contents', buf, offset, n)
  BY <1>1
<1> QED
  BY <1>2, WindowUnique

(* Who holds the lock is in one of the four operations.                    *)
LEMMA HolderWorks ==
  ASSUME FInv, lock # Free
  PROVE  /\ lock \in Threads
         /\ op[lock] = "write" => lock \in Streams /\ lock \notin Clients
         /\ op[lock] \in {"read", "reset", "query"} => lock \in Clients
  BY RingAssumption DEF FInv, IInv, TypeOK, LockOwned, Roles, Calls, Threads

(* A step that leaves the ring and the operation of the lock's holder      *)
(* alone leaves the queue alone.                                           *)
LEMMA QueueUntouched ==
  ASSUME UNCHANGED <<ring, lock>>,
         lock # Free =>
           /\ op'[lock] = op[lock] /\ idx'[lock] = idx[lock]
           /\ op[lock] = "write" => data'[lock] = data[lock]
           /\ op[lock] = "read" => want'[lock] = want[lock]
  PROVE  AbstractQueue' = AbstractQueue /\ Contents' = Contents
<1>1. Taken' = Taken
  BY DEF Taken
<1>2. Live' = Live /\ Contents' = Contents
  BY <1>1 DEF Live, Contents, Slot, ring
<1> QED
  BY <1>2 DEF AbstractQueue, Holding, Newest

(* Entering an operation is invisible, but for a read, which starts from   *)
(* an empty answer.                                                        *)
LEMMA WriterEnters ==
  ASSUME FInv, NEW s \in Streams, NEW chunk \in Chunks, CallWrite(s, chunk)
  PROVE  UNCHANGED Fifo!vars
<1>1. s \in Threads /\ s # lock
  BY RingAssumption DEF FInv, IInv, LockOwned, CallWrite, Enter, Threads
<1>2. /\ UNCHANGED <<ring, lock, want, out>>
      /\ \A u \in Threads \ {s} : op'[u] = op[u] /\ idx'[u] = idx[u]
      /\ \A u \in Streams \ {s} : data'[u] = data[u]
  BY DEF FInv, IInv, TypeOK, CallWrite, Enter
<1>3. AbstractQueue' = AbstractQueue /\ Contents' = Contents
  BY <1>1, <1>2, HolderWorks, QueueUntouched
<1>4. AbstractDelivered' = AbstractDelivered
  BY <1>1, <1>2, <1>3 DEF AbstractDelivered, Threads
<1> QED
  BY <1>3, <1>4 DEF Fifo!vars

LEMMA ReaderEnters ==
  ASSUME FInv, NEW c \in Clients, NEW n \in Requests, CallRead(c, n)
  PROVE  Fifo!Issue(c)
<1>1. c \in Threads /\ c # lock
  BY RingAssumption DEF FInv, IInv, LockOwned, CallRead, Enter, Threads
<1>2. /\ UNCHANGED <<ring, lock, data>>
      /\ \A u \in Threads \ {c} : op'[u] = op[u] /\ idx'[u] = idx[u]
      /\ \A u \in Clients \ {c} : want'[u] = want[u] /\ out'[u] = out[u]
      /\ out'[c] = << >>
  BY DEF FInv, IInv, TypeOK, CallRead, Enter
<1>3. AbstractQueue' = AbstractQueue /\ Contents' = Contents
  BY <1>1, <1>2, HolderWorks, QueueUntouched
<1>4. AbstractDelivered' = [AbstractDelivered EXCEPT ![c] = << >>]
  BY <1>1, <1>2, <1>3 DEF AbstractDelivered, Threads
<1> QED
  BY <1>3, <1>4 DEF Fifo!Issue

LEMMA OthersEnter ==
  ASSUME FInv, NEW c \in Clients, CallReset(c) \/ CallGetInfo(c)
  PROVE  UNCHANGED Fifo!vars
<1>1. c \in Threads /\ c # lock
  BY RingAssumption DEF FInv, IInv, LockOwned, CallReset, CallGetInfo, Enter, Threads
<1>2. /\ UNCHANGED <<ring, lock, data, want, out>>
      /\ \A u \in Threads \ {c} : op'[u] = op[u] /\ idx'[u] = idx[u]
  BY DEF FInv, IInv, TypeOK, CallReset, CallGetInfo, Enter
<1>3. AbstractQueue' = AbstractQueue /\ Contents' = Contents
  BY <1>1, <1>2, HolderWorks, QueueUntouched
<1>4. AbstractDelivered' = AbstractDelivered
  BY <1>1, <1>2, <1>3 DEF AbstractDelivered, Threads
<1> QED
  BY <1>3, <1>4 DEF Fifo!vars

(* Taking the lock is where every operation takes effect.                  *)
LEMMA AcquireTakesEffect ==
  ASSUME FInv, NEW t \in Threads, Acquire(t)
  PROVE  [Fifo!Next]_(Fifo!vars)
<1> USE RingAssumption
<1>1. /\ lock = Free /\ lock' = t /\ t # Free /\ pc[t] = "spinning"
      /\ idx[t] = 0 /\ UNCHANGED <<ring, op, data, idx, out>>
  BY DEF FInv, IInv, Roles, Acquire
<1>2. Taken = 0 /\ Taken' = 0 /\ Live = bufferedBytes /\ Live' = Live
  BY <1>1 DEF FInv, IInv, TypeOK, Taken, Live, ring
<1>3. Contents' = Contents /\ AbstractQueue = Contents
  BY <1>1, <1>2 DEF Contents, Slot, ring, AbstractQueue, Holding
<1>4. Contents \in Seq(Bytes) /\ Len(Contents) = Live /\ Live \in 0 .. Capacity
  BY ContentsFacts DEF FInv
<1>5. \A c \in Clients : AbstractDelivered[c] = out[c]
  BY <1>1 DEF AbstractDelivered, Threads
<1>6. op[t] # "read" => AbstractDelivered' = AbstractDelivered
  BY <1>1 DEF AbstractDelivered, Threads
<1>7. CASE op[t] = "write"
  <2>1. t \in Streams /\ data[t] \in Chunks /\ data[t] \in Seq(Bytes)
    BY <1>1, <1>7 DEF FInv, IInv, TypeOK, Roles, Calls, Threads
  <2>2. AbstractQueue' = Newest(Contents \o SubSeq(data[t], 1, Len(data[t])))
    BY <1>1, <1>3, <1>7 DEF AbstractQueue, Holding, Newest
  <2>3. AbstractQueue' = Newest(Contents \o data[t])
    BY <2>1, <2>2, SubSeqFull
  <2>4. Fifo!Write(data[t])
    BY <1>3, <1>6, <1>7, <2>3 DEF Fifo!Write, Fifo!LastN, Newest
  <2> QED
    BY <2>1, <2>4 DEF Fifo!Next
<1>8. CASE op[t] = "read"
  <2>1. /\ t \in Clients /\ want[t] \in Requests /\ want[t] \in Nat /\ out[t] = << >>
    BY <1>1, <1>8 DEF FInv, IInv, TypeOK, Roles, Calls, Threads
  <2> DEFINE k == IF want[t] < bufferedBytes THEN want[t] ELSE bufferedBytes
  <2>2. want'[t] = k /\ k \in 0 .. bufferedBytes /\ bufferedBytes \in Nat
    BY <1>8, <2>1 DEF FInv, IInv, TypeOK, Acquire
  <2>3. k = Fifo!Smaller(want[t], Len(AbstractQueue))
    BY <1>2, <1>3, <1>4, <2>1, <2>2 DEF Fifo!Smaller
  <2>4. AbstractQueue' = SubSeq(Contents, k + 1, Len(Contents))
    <3>1. want'[t] - idx'[t] + 1 = k + 1
      BY <1>1, <2>2
    <3> QED
      BY <1>1, <1>2, <1>3, <1>4, <1>8, <3>1 DEF AbstractQueue, Holding
  <2>5. AbstractDelivered' = [AbstractDelivered EXCEPT ![t] = SubSeq(Contents, 1, k)]
    <3>1. SubSeq(Contents, 1, k) \in Seq(Bytes)
      BY <1>2, <1>4, <2>2, SubSeqProperties, ElementOfSeq
    <3>2. << >> \o SubSeq(Contents, 1, k) = SubSeq(Contents, 1, k)
      BY <3>1, ConcatEmptySeq
    <3>3. want'[t] - idx'[t] = k
      BY <1>1, <2>2
    <3>4. AbstractDelivered'[t] = SubSeq(Contents, 1, k)
      BY <1>1, <1>3, <1>8, <2>1, <3>2, <3>3 DEF AbstractDelivered
    <3>5. \A c \in Clients \ {t} : AbstractDelivered'[c] = AbstractDelivered[c]
      BY <1>1, <1>5 DEF AbstractDelivered
    <3> QED
      BY <3>4, <3>5 DEF AbstractDelivered
  <2>6. Fifo!Read(t, want[t])
    BY <1>3, <2>3, <2>4, <2>5 DEF Fifo!Read
  <2> QED
    BY <2>1, <2>6 DEF Fifo!Next
<1>9. CASE op[t] = "reset"
  <2>1. AbstractQueue' = << >>
    BY <1>1, <1>9 DEF AbstractQueue, Holding
  <2>2. Fifo!Reset
    BY <1>6, <1>9, <2>1 DEF Fifo!Reset
  <2> QED
    BY <2>2 DEF Fifo!Next
<1>10. CASE op[t] \notin {"write", "read", "reset"}
  <2>1. AbstractQueue' = Contents
    BY <1>1, <1>3, <1>10 DEF AbstractQueue, Holding
  <2> QED
    BY <1>3, <1>6, <1>10, <2>1 DEF Fifo!vars
<1> QED
  BY <1>7, <1>8, <1>9, <1>10

(* One iteration of the write loop moves a byte from the chunk into the    *)
(* buffer; on a full ring the oldest byte goes, which Newest had already   *)
(* left out.                                                               *)
LEMMA WriteByteInvisible ==
  ASSUME FInv, NEW s \in Streams, WriteByte(s)
  PROVE  UNCHANGED Fifo!vars
<1> USE RingAssumption
<1>1. /\ s \in Threads /\ s \notin Clients /\ s # Free
      /\ lock = s /\ lock' = s /\ op[s] = "write" /\ op' = op /\ data' = data
      /\ UNCHANGED <<out, want>>
  BY DEF FInv, IInv, LockOwned, WriteByte, Inside, Threads
<1>2. /\ capacity = Capacity /\ bufferedBytes \in 0 .. Capacity
      /\ readOffset \in 0 .. Capacity - 1 /\ writeOffset \in 0 .. Capacity - 1
      /\ buffer \in [0 .. Capacity - 1 -> Bytes]
      /\ data[s] \in Seq(Bytes) /\ Len(data[s]) \in Nat /\ idx[s] \in Nat
      /\ idx[s] + 1 \in 1 .. Len(data[s]) /\ idx'[s] = idx[s] + 1
  <2>1. data[s] \in Seq(Bytes) /\ Len(data[s]) \in Nat
    BY <1>1, LenProperties DEF FInv, IInv, TypeOK
  <2> QED
    BY <1>1, <2>1 DEF FInv, IInv, TypeOK, WriteByte
<1> DEFINE x    == data[s][idx[s] + 1]
           rest == SubSeq(data[s], idx[s] + 1, Len(data[s]))
           left == SubSeq(data[s], (idx[s] + 1) + 1, Len(data[s]))
<1>3. x \in Bytes /\ rest \in Seq(Bytes) /\ left \in Seq(Bytes) /\ Len(rest) > 0
  <2>1. x \in Bytes
    BY <1>2, ElementOfSeq
  <2>2. /\ \A i \in idx[s] + 1 .. Len(data[s]) : data[s][i] \in Bytes
        /\ \A i \in (idx[s] + 1) + 1 .. Len(data[s]) : data[s][i] \in Bytes
    BY <1>2, ElementOfSeq
  <2> QED
    BY <1>2, <2>1, <2>2, SubSeqProperties
<1>4. Taken = 0 /\ Taken' = 0 /\ Live = bufferedBytes /\ Live' = bufferedBytes'
  <2>1. Taken = 0 /\ Taken' = 0
    BY <1>1 DEF Taken
  <2>2. PICK n \in Nat : bufferedBytes' = n
    BY <1>2 DEF WriteByte
  <2>3. Live = bufferedBytes
    BY <1>2, <2>1 DEF Live
  <2>4. Live' = n - 0
    BY <2>1, <2>2 DEF Live
  <2> QED
    BY <2>1, <2>2, <2>3, <2>4
<1>5. /\ IsWindow(Contents, buffer, readOffset, bufferedBytes)
      /\ Contents \in Seq(Bytes) /\ Len(Contents) = bufferedBytes
      /\ IInv'
  BY <1>4, ContentsIsWindow, ContentsFacts, WriteByteKeepsIInv DEF FInv
<1>6. Append(Contents, x) \o left = Contents \o rest
  BY <1>2, <1>5, AppendMoves
<1>7. writeOffset = Slot(readOffset, bufferedBytes)
  BY <1>4 DEF FInv, IInv, OffsetsAgree
<1>8. /\ Stores(buffer', buffer, writeOffset, x)
      /\ buffer' \in [0 .. Capacity - 1 -> Bytes]
  BY <1>2, <1>3 DEF WriteByte, Stores
<1>9. /\ AbstractQueue = Newest(Contents \o rest)
      /\ AbstractQueue' = Newest(Contents' \o left)
  BY <1>1, <1>2 DEF AbstractQueue, Holding, Newest
<1> HIDE DEF x, rest, left
<1>10. CASE bufferedBytes # Capacity
  <2>1. readOffset' = readOffset /\ bufferedBytes' = bufferedBytes + 1
    BY <1>2, <1>10 DEF WriteByte
  <2>2. Contents' = Append(Contents, x)
    <3>1. bufferedBytes \in 0 .. Capacity - 1
      BY <1>2, <1>10
    <3>2. Stores(buffer', buffer, Slot(readOffset, bufferedBytes), x)
      BY <1>7, <1>8
    <3>3. IsWindow(Append(Contents, x), buffer', readOffset, bufferedBytes + 1)
      BY <1>2, <1>3, <1>5, <3>1, <3>2, WindowGrows
    <3> QED
      BY <1>4, <1>5, <2>1, <3>3, ContentsNext
  <2> QED
    BY <1>1, <1>6, <1>9, <2>2 DEF Fifo!vars, AbstractDelivered
<1>11. CASE bufferedBytes = Capacity
  <2>1. readOffset' = After(readOffset) /\ bufferedBytes' = Capacity
    BY <1>2, <1>11, AdvanceWraps DEF WriteByte, After
  <2>2. Contents' = Append(Tail(Contents), x) /\ Contents # << >>
    <3>1. /\ IsWindow(Tail(Contents), buffer, After(readOffset), Capacity - 1)
          /\ Contents # << >>
      <4>1. Capacity \in 1 .. Capacity
        OBVIOUS
      <4> QED
        BY <1>2, <1>5, <1>11, <4>1, WindowShrinks
    <3>2. After(readOffset) \in 0 .. Capacity - 1 /\ Capacity - 1 \in 0 .. Capacity - 1
      BY <1>2 DEF After
    <3>3. writeOffset = Slot(After(readOffset), Capacity - 1)
      <4>1. Slot(readOffset, Capacity) = Slot(After(readOffset), Capacity - 1)
        BY <1>2 DEF Slot, After
      <4> QED
        BY <1>7, <1>11, <4>1
    <3>4. Stores(buffer', buffer, Slot(After(readOffset), Capacity - 1), x)
      BY <1>8, <3>3
    <3>5. IsWindow(Append(Tail(Contents), x), buffer', After(readOffset), (Capacity - 1) + 1)
      BY <1>3, <3>1, <3>2, <3>4, WindowGrows
    <3>6. (Capacity - 1) + 1 = Capacity
      OBVIOUS
    <3> QED
      BY <1>4, <1>5, <2>1, <3>1, <3>5, <3>6, ContentsNext
  <2>3. /\ Append(Contents, x) \in Seq(Bytes) /\ Append(Contents, x) # << >>
        /\ Tail(Append(Contents, x)) = Append(Tail(Contents), x)
    BY <1>3, <1>5, <2>2, AppendProperties, HeadTailAppend
  <2>4. Contents' \o left = Tail(Contents \o rest)
    <3>1. Tail(Append(Contents, x)) \o left = Tail(Append(Contents, x) \o left)
      BY <1>3, <2>3, TailOfConcat
    <3> QED
      BY <1>6, <2>2, <2>3, <3>1
  <2>5. Contents \o rest \in Seq(Bytes) /\ Len(Contents \o rest) > Capacity
    <3>1. Len(rest) \in Nat
      BY <1>3, LenProperties
    <3> QED
      BY <1>3, <1>5, <1>11, <3>1, ConcatProperties
  <2> QED
    BY <1>1, <1>9, <2>4, <2>5, NewestOfTail DEF Fifo!vars, AbstractDelivered
<1> QED
  BY <1>10, <1>11

(* One iteration of the read loop moves a byte from the reader's share of  *)
(* the buffer into its answer.                                             *)
LEMMA ReadByteInvisible ==
  ASSUME FInv, NEW c \in Clients, ReadByte(c)
  PROVE  UNCHANGED Fifo!vars
<1> USE RingAssumption
<1>1. /\ c \in Threads /\ c # Free
      /\ lock = c /\ lock' = c /\ op[c] = "read" /\ op' = op
      /\ UNCHANGED <<data, want, buffer, bufferedBytes>>
      /\ \A d \in Clients \ {c} : out'[d] = out[d]
  BY DEF FInv, IInv, TypeOK, LockOwned, ReadByte, Inside, Threads
<1>2. /\ capacity = Capacity /\ bufferedBytes \in 0 .. Capacity
      /\ readOffset \in 0 .. Capacity - 1 /\ buffer \in [0 .. Capacity - 1 -> Bytes]
      /\ idx[c] \in Nat /\ want[c] \in Nat /\ idx'[c] = idx[c] + 1
      /\ idx[c] < want[c] /\ want[c] <= bufferedBytes
      /\ out[c] \in Seq(Bytes)
      /\ out'[c] = Append(out[c], buffer[readOffset])
  BY <1>1 DEF FInv, IInv, TypeOK, LoopsBounded, ReadByte
<1>3. readOffset' = After(readOffset)
  BY <1>2, AdvanceWraps DEF ReadByte, After
<1>4. Live = bufferedBytes - idx[c] /\ Live' = Live - 1
  <2>1. Taken = idx[c] /\ Taken' = idx[c] + 1
    BY <1>1, <1>2 DEF Taken
  <2> QED
    BY <1>1, <1>2, <2>1 DEF Live
<1> DEFINE k == want[c] - idx[c]
<1>5. /\ IsWindow(Contents, buffer, readOffset, Live) /\ Live \in 0 .. Capacity
      /\ Contents \in Seq(Bytes) /\ Len(Contents) = Live
      /\ IInv'
  BY ContentsIsWindow, ContentsFacts, ReadByteKeepsIInv DEF FInv
<1>6. k \in 1 .. Live /\ Live \in 1 .. Capacity
  <2>1. k \in Nat /\ 1 <= k /\ k <= bufferedBytes - idx[c]
    BY <1>2
  <2> QED
    BY <1>4, <1>5, <2>1
<1> HIDE DEF k
<1>7. Contents' = Tail(Contents) /\ Contents[1] = buffer[readOffset]
  <2>1. /\ IsWindow(Tail(Contents), buffer, After(readOffset), Live - 1)
        /\ Contents[1] = buffer[readOffset]
    BY <1>2, <1>5, <1>6, WindowShrinks
  <2> QED
    BY <1>1, <1>3, <1>4, <1>5, <2>1, ContentsNext
<1>8. AbstractQueue' = AbstractQueue
  <2>1. AbstractQueue = SubSeq(Contents, k + 1, Live)
    BY <1>1 DEF AbstractQueue, Holding, k
  <2>2. AbstractQueue' = SubSeq(Tail(Contents), k, Live - 1)
    <3>1. want'[c] - idx'[c] + 1 = k
      BY <1>1, <1>2 DEF k
    <3> QED
      BY <1>1, <1>4, <1>7, <3>1 DEF AbstractQueue, Holding
  <2>3. SubSeq(Tail(Contents), k, Live - 1) = SubSeq(Contents, k + 1, (Live - 1) + 1)
    <3>1. k \in 1 .. Len(Contents) /\ Live - 1 \in 0 .. Len(Contents) - 1
      BY <1>5, <1>6
    <3> QED
      BY <1>5, <3>1, SubSeqOfTail
  <2>4. (Live - 1) + 1 = Live
    BY <1>6
  <2> QED
    BY <2>1, <2>2, <2>3, <2>4
<1>9. AbstractDelivered' = AbstractDelivered
  <2>1. AbstractDelivered[c] = out[c] \o SubSeq(Contents, 1, k)
    BY <1>1 DEF AbstractDelivered, k
  <2>2. AbstractDelivered'[c] = Append(out[c], Contents[1]) \o SubSeq(Tail(Contents), 1, k - 1)
    <3>1. want'[c] - idx'[c] = k - 1
      BY <1>1, <1>2 DEF k
    <3> QED
      BY <1>1, <1>2, <1>7, <3>1 DEF AbstractDelivered
  <2>3. AbstractDelivered'[c] = AbstractDelivered[c]
    <3>1. k \in 1 .. Len(Contents)
      BY <1>5, <1>6
    <3>2. Append(out[c], Contents[1]) \o SubSeq(Tail(Contents), 1, k - 1)
            = out[c] \o SubSeq(Contents, 1, k)
      <4> DEFINE o == out[c]
                 q == Contents
      <4>1. o \in Seq(Bytes) /\ q \in Seq(Bytes) /\ k \in 1 .. Len(q)
        BY <1>2, <1>5, <3>1
      <4> HIDE DEF o, q
      <4>2. Append(o, q[1]) \o SubSeq(Tail(q), 1, k - 1) = o \o SubSeq(q, 1, k)
        BY <4>1, TakeOne
      <4> QED
        BY <4>2 DEF o, q
    <3> QED
      BY <2>1, <2>2, <3>2
  <2>4. \A d \in Clients \ {c} : AbstractDelivered'[d] = AbstractDelivered[d]
    BY <1>1 DEF AbstractDelivered
  <2> QED
    BY <2>3, <2>4 DEF AbstractDelivered
<1> QED
  BY <1>8, <1>9 DEF Fifo!vars

(* Giving the lock back: nothing is left of the operation.                 *)
LEMMA ReleaseDelivers ==
  ASSUME FInv, NEW t \in Threads, lock = t, Release(t),
         t \in Clients /\ op[t] = "read" =>
           out[t] \o SubSeq(Contents, 1, want[t] - idx[t]) = out[t]
  PROVE  /\ AbstractQueue' = Contents'
         /\ AbstractDelivered' = AbstractDelivered
<1>1. lock' = Free /\ out' = out
  BY DEF Release
<1>2. AbstractQueue' = Contents'
  BY <1>1 DEF AbstractQueue, Holding
<1>3. \A c \in Clients : AbstractDelivered[c] = out[c]
  BY DEF AbstractDelivered
<1>4. \A c \in Clients : AbstractDelivered'[c] = out[c]
  BY <1>1, RingAssumption DEF AbstractDelivered, Threads
<1> QED
  BY <1>2, <1>3, <1>4 DEF AbstractDelivered

LEMMA WriteDoneInvisible ==
  ASSUME FInv, NEW s \in Streams, WriteDone(s)
  PROVE  UNCHANGED Fifo!vars
<1> USE RingAssumption
<1>1. /\ s \in Threads /\ s \notin Clients /\ lock = s /\ lock # Free /\ op[s] = "write"
      /\ idx[s] = Len(data[s]) /\ UNCHANGED ring /\ Release(s)
  BY DEF FInv, IInv, LockOwned, WriteDone, Inside, Threads
<1>2. Taken = 0 /\ Taken' = 0
  BY <1>1 DEF Taken, Release
<1>3. Contents' = Contents
  BY <1>1, <1>2 DEF Contents, Live, Slot, ring
<1>4. SubSeq(data[s], idx[s] + 1, Len(data[s])) = << >>
  <2>1. Len(data[s]) \in Nat
    BY LenProperties DEF FInv, IInv, TypeOK
  <2> QED
    BY <1>1, <2>1, SubSeqEmpty
<1>5. Contents \o << >> = Contents /\ Newest(Contents) = Contents
  BY ContentsFacts, ConcatEmptySeq DEF FInv, Newest
<1>6. AbstractQueue = Contents
  BY <1>1, <1>4, <1>5 DEF AbstractQueue, Holding
<1> QED
  BY <1>1, <1>3, <1>6, ReleaseDelivers DEF Fifo!vars

LEMMA ReadDoneInvisible ==
  ASSUME FInv, NEW c \in Clients, ReadDone(c)
  PROVE  UNCHANGED Fifo!vars
<1> USE RingAssumption
<1>1. /\ c \in Threads /\ lock = c /\ lock # Free /\ op[c] = "read"
      /\ idx[c] = want[c] /\ UNCHANGED <<buffer, readOffset>> /\ Release(c)
      /\ bufferedBytes' = bufferedBytes - want[c]
  BY DEF FInv, IInv, LockOwned, ReadDone, Inside, Threads
<1>2. want[c] \in Nat /\ bufferedBytes \in Nat /\ out[c] \in Seq(Bytes)
  BY DEF FInv, IInv, TypeOK
<1>3. Live' = Live
  <2>1. Taken = want[c] /\ Taken' = 0
    BY <1>1 DEF Taken, Release
  <2>2. PICK n \in Int : n = bufferedBytes - want[c]
    BY <1>2
  <2>3. Live' = n - 0
    BY <1>1, <2>1, <2>2 DEF Live
  <2> QED
    BY <2>1, <2>2, <2>3 DEF Live
<1>4. Contents' = Contents
  BY <1>1, <1>3 DEF Contents, Slot
<1>5. Contents \in Seq(Bytes) /\ Len(Contents) = Live
  BY ContentsFacts DEF FInv
<1>6. want[c] - idx[c] = 0
  BY <1>1, <1>2
<1>7. AbstractQueue = Contents
  <2>1. AbstractQueue = SubSeq(Contents, 1, Len(Contents))
    BY <1>1, <1>5, <1>6 DEF AbstractQueue, Holding
  <2> QED
    BY <1>5, <2>1, SubSeqFull
<1>8. out[c] \o SubSeq(Contents, 1, want[c] - idx[c]) = out[c]
  <2>1. SubSeq(Contents, 1, want[c] - idx[c]) = << >>
    BY <1>6, SubSeqEmpty
  <2> QED
    BY <1>2, <2>1, ConcatEmptySeq
<1> QED
  BY <1>1, <1>4, <1>7, <1>8, ReleaseDelivers DEF Fifo!vars

LEMMA ResetInvisible ==
  ASSUME FInv, NEW c \in Clients, ResetRing(c)
  PROVE  UNCHANGED Fifo!vars
<1> USE RingAssumption
<1>1. /\ c \in Threads /\ lock = c /\ lock # Free /\ op[c] = "reset"
      /\ bufferedBytes' = 0 /\ Release(c)
  BY DEF FInv, IInv, LockOwned, ResetRing, Inside, Threads
<1>2. AbstractQueue = << >>
  BY <1>1 DEF AbstractQueue, Holding
<1>3. Contents' = << >>
  <2>1. Taken' = 0
    BY <1>1 DEF Taken, Release
  <2>2. Live' = 0
    BY <1>1, <2>1 DEF Live
  <2>3. Contents' = [j \in 1 .. 0 |-> buffer'[Slot(readOffset', j - 1)]]
    BY <2>2 DEF Contents, Slot
  <2> QED
    BY <2>3
<1> QED
  BY <1>1, <1>2, <1>3, ReleaseDelivers DEF Fifo!vars

LEMMA QueryInvisible ==
  ASSUME FInv, NEW c \in Clients, QueryDone(c)
  PROVE  UNCHANGED Fifo!vars
<1> USE RingAssumption
<1>1. /\ c \in Threads /\ lock = c /\ lock # Free /\ op[c] = "query"
      /\ UNCHANGED ring /\ Release(c)
  BY DEF FInv, IInv, LockOwned, QueryDone, Inside, Threads
<1>2. Taken = 0 /\ Taken' = 0
  BY <1>1 DEF Taken, Release
<1>3. Contents' = Contents
  BY <1>1, <1>2 DEF Contents, Live, Slot, ring
<1>4. AbstractQueue = Contents
  BY <1>1 DEF AbstractQueue, Holding
<1> QED
  BY <1>1, <1>3, <1>4, ReleaseDelivers DEF Fifo!vars

LEMMA StutterInvisible ==
  ASSUME UNCHANGED vars
  PROVE  UNCHANGED Fifo!vars
<1>1. AbstractQueue' = AbstractQueue /\ Contents' = Contents
  BY QueueUntouched DEF vars
<1>2. AbstractDelivered' = AbstractDelivered
  BY <1>1 DEF vars, AbstractDelivered
<1> QED
  BY <1>1, <1>2 DEF Fifo!vars

-----------------------------------------------------------------------------

LEMMA InitMaps == Init => Fifo!Init
<1> SUFFICES ASSUME Init PROVE Fifo!Init
  OBVIOUS
<1> USE RingAssumption
<1>1. lock = Free /\ bufferedBytes = 0 /\ out = [c \in Clients |-> << >>]
  BY DEF Init, LoopsIdle
<1>2. Live = 0
  BY <1>1 DEF Live, Taken
<1>3. Contents = << >>
  BY <1>2 DEF Contents
<1>4. AbstractQueue = << >>
  BY <1>1, <1>3 DEF AbstractQueue, Holding
<1>5. AbstractDelivered = [c \in Clients |-> << >>]
  BY <1>1 DEF AbstractDelivered, Threads
<1> QED
  BY <1>4, <1>5 DEF Fifo!Init

(* Every step of the ring is a step of the queue or invisible.             *)
LEMMA NextMaps == FInv /\ [Next]_vars => [Fifo!Next]_(Fifo!vars)
<1> SUFFICES ASSUME FInv, [Next]_vars PROVE [Fifo!Next]_(Fifo!vars)
  OBVIOUS
<1>1. CASE Call
  <2>1. ASSUME NEW c \in Clients, NEW n \in Requests, CallRead(c, n)
        PROVE  Fifo!Next
    BY <2>1, ReaderEnters DEF Fifo!Next
  <2> QED
    BY <1>1, <2>1, WriterEnters, OthersEnter DEF Call
<1>2. ASSUME NEW t \in Threads, Acquire(t) PROVE [Fifo!Next]_(Fifo!vars)
  BY <1>2, AcquireTakesEffect
<1>3. ASSUME NEW t \in Threads, Work(t) PROVE UNCHANGED Fifo!vars
  BY <1>3, WriteByteInvisible, WriteDoneInvisible, ReadByteInvisible,
     ReadDoneInvisible, ResetInvisible, QueryInvisible
  DEF Work
<1>4. CASE UNCHANGED vars
  BY <1>4, StutterInvisible
<1> QED
  BY <1>1, <1>2, <1>3, <1>4 DEF Next

(* What a client gets is, for every capacity and every interleaving of     *)
(* streams and clients, what an atomic bounded queue would have given it:  *)
(* a contiguous run of what was written, oldest first, and only the oldest *)
(* bytes are ever lost.                                                    *)
THEOREM RingImplementsFifo == Spec => ImplementsFifo
  BY InitMaps, NextMaps, FInductive, PTL DEF Spec, ImplementsFifo, Fifo!Spec
=============================================================================
