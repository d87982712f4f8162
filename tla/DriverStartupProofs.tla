------------------------ MODULE DriverStartupProofs ------------------------
(***************************************************************************)
(* The ring comes into being once and soundly, for every capacity and      *)
(* every number of streams and clients: the argument for DriverStartup.    *)
(*                                                                         *)
(* Two invariants.  FlagsInv is about the one-shot flags alone and holds   *)
(* in every run.  StartupInv carries the ring's own invariant across the   *)
(* moment the ring is published; it claims nothing of the ring once the    *)
(* lock was initialised under a thread that held it.  It also carries the  *)
(* refinement of PcmFifo: an idle driver is an empty queue, and so is a    *)
(* ring that was just published.                                           *)
(***************************************************************************)
EXTENDS DriverStartup, DriverFifoProofs

(* The stream that won the exchange and has not finished with it.          *)
Builder(s) == stage[s] \in {"building", "published"}

(* One stream at most ever builds; while it allocates there is no ring,    *)
(* and there is no ring later only if that one attempt failed.             *)
FlagsInv ==
  /\ built \in BOOLEAN /\ initialized \in BOOLEAN
  /\ failed \in BOOLEAN /\ reinit \in BOOLEAN
  /\ stage \in [Streams -> Stages]
  /\ ~built => ~initialized /\ \A s \in Streams : stage[s] = "closed"
  /\ built /\ ~initialized => failed \/ \E s \in Streams : stage[s] = "building"
  /\ \A s \in Streams : stage[s] = "building" => ~initialized
  /\ \A s \in Streams : stage[s] = "published" => initialized
  /\ \A s, u \in Streams : Builder(s) /\ Builder(u) => s = u

(* Before the ring is published nobody is inside its operations: a client  *)
(* that polls is turned away at the unlocked check.                        *)
Idle ==
  /\ lock = Free
  /\ pc = [t \in Threads |-> "outside"]
  /\ op = [t \in Threads |-> "none"]
  /\ data = [s \in Streams |-> << >>]
  /\ want = [c \in Clients |-> 0]
  /\ idx = [t \in Threads |-> 0]
  /\ capacity = 0
  /\ bufferedBytes = 0
  /\ out \in [Clients -> Seq(Bytes)]
  /\ info \in [Clients -> [capacity : {0, Capacity}, buffered : 0 .. Capacity]]

StartupInv ==
  /\ FlagsInv
  /\ ~initialized => Idle
  /\ initialized /\ ~reinit => FInv

-----------------------------------------------------------------------------
(* The flags.                                                              *)

LEMMA InitFlagsInv == StartupInit => FlagsInv
  BY DEF StartupInit, FlagsInv, Builder, Stages

(* What goes on in the ring touches neither the flags nor Initialized.     *)
LEMMA RingLeavesFlags ==
  ASSUME StreamWrites \/ ClientCalls \/ RingWorks
         \/ \E c \in Clients : ReadNotReady(c) \/ QueryNotReady(c)
  PROVE  UNCHANGED <<startup, initialized>>
<1>1. ASSUME StreamWrites PROVE UNCHANGED <<startup, initialized>>
  BY <1>1 DEF StreamWrites, CallWrite, Enter, ring
<1>2. ASSUME ClientCalls PROVE UNCHANGED <<startup, initialized>>
  BY <1>2 DEF ClientCalls, CallRead, CallReset, CallGetInfo, Enter, ring
<1>3. ASSUME RingWorks PROVE UNCHANGED <<startup, initialized>>
  BY <1>3 DEF RingWorks, Acquire, Work, WriteByte, WriteDone, ReadByte, ReadDone,
              ResetRing, QueryDone, ring
<1>4. ASSUME NEW c \in Clients, ReadNotReady(c) \/ QueryNotReady(c)
      PROVE  UNCHANGED <<startup, initialized>>
  BY <1>4 DEF ReadNotReady, QueryNotReady, ring
<1> QED
  BY <1>1, <1>2, <1>3, <1>4

LEMMA SameFlags ==
  ASSUME FlagsInv, UNCHANGED <<startup, initialized>>
  PROVE  FlagsInv'
  BY DEF FlagsInv, Builder, startup

(* One case per step of a stream's life; the exchange of OpenStream is     *)
(* what keeps the builder alone.                                           *)
LEMMA NextKeepsFlagsInv == FlagsInv /\ [StartupNext]_allVars => FlagsInv'
<1> SUFFICES ASSUME FlagsInv, [StartupNext]_allVars PROVE FlagsInv'
  OBVIOUS
<1>1. ASSUME NEW s \in Streams, OpenStream(s) PROVE FlagsInv'
  BY <1>1 DEF FlagsInv, Builder, Stages, OpenStream, vars, ring
<1>2. ASSUME NEW s \in Streams, BuildFails(s) PROVE FlagsInv'
  BY <1>2 DEF FlagsInv, Builder, Stages, BuildFails
<1>3. ASSUME NEW s \in Streams, Publish(s) PROVE FlagsInv'
  BY <1>3 DEF FlagsInv, Builder, Stages, Publish
<1>4. ASSUME NEW s \in Streams, InitializeLock(s) PROVE FlagsInv'
  BY <1>4 DEF FlagsInv, Builder, Stages, InitializeLock, ring
<1>5. ASSUME NEW s \in Streams, CloseStream(s) PROVE FlagsInv'
  BY <1>5 DEF FlagsInv, Builder, Stages, CloseStream, vars, ring
<1>6. CASE UNCHANGED allVars
  BY <1>6, SameFlags DEF allVars, vars, ring
<1>7. CASE \/ StreamWrites \/ ClientCalls \/ RingWorks
           \/ \E c \in Clients : ReadNotReady(c) \/ QueryNotReady(c)
  BY <1>7, RingLeavesFlags, SameFlags
<1> QED
  BY <1>1, <1>2, <1>3, <1>4, <1>5, <1>6, <1>7 DEF StartupNext

LEMMA FlagsInductive == StartupSpec => []FlagsInv
  BY InitFlagsInv, NextKeepsFlagsInv, PTL DEF StartupSpec

-----------------------------------------------------------------------------
(* The ring.                                                               *)

LEMMA InitStartupInv == StartupInit => StartupInv
  BY InitFlagsInv, RingAssumption
  DEF StartupInit, StartupInv, LoopsIdle, Idle

(* An idle driver and a fresh block make a sound ring.                     *)
LEMMA PublishMakesRing ==
  ASSUME Idle, NEW s \in Streams, Publish(s)
  PROVE  FInv'
<1> USE RingAssumption DEF Idle, Publish
<1>1. TypeOK'
  BY DEF TypeOK, Threads, Ops
<1>2. LockOwned' /\ Roles' /\ LoopsBounded'
  BY DEF LockOwned, Roles, LoopsBounded, Threads
<1>3. OffsetsAgree'
  BY DEF OffsetsAgree, Taken, Live, Slot
<1>4. Calls'
  <2>1. \A t \in Threads : pc'[t] = "outside"
    OBVIOUS
  <2> QED
    BY <2>1 DEF Calls, Threads
<1> QED
  BY <1>1, <1>2, <1>3, <1>4 DEF FInv, IInv

(* While there is no ring a step of the ring's operations is a client      *)
(* being turned away.                                                      *)
LEMMA IdleStaysIdle ==
  ASSUME Idle, ~initialized,
         \/ StreamWrites \/ ClientCalls \/ RingWorks
         \/ \E c \in Clients : ReadNotReady(c) \/ QueryNotReady(c)
  PROVE  Idle'
<1>1. ~StreamWrites
  BY DEF StreamWrites, CallWrite, Enter
<1>2. ~ClientCalls
  BY DEF ClientCalls, CallRead, CallReset, CallGetInfo, Enter
<1>3. ~RingWorks
  BY DEF RingWorks, Idle, Acquire, Work, WriteByte, WriteDone, ReadByte, ReadDone,
         ResetRing, QueryDone, Inside, Threads
<1>4. ASSUME NEW c \in Clients, ReadNotReady(c) PROVE Idle'
  BY <1>4 DEF ReadNotReady, Idle, ring
<1>5. ASSUME NEW c \in Clients, QueryNotReady(c) PROVE Idle'
  BY <1>5, RingAssumption DEF QueryNotReady, Idle, ring
<1> QED
  BY <1>1, <1>2, <1>3, <1>4, <1>5

(* Once there is one, it is a step of DriverRing.                          *)
LEMMA RingStepIsNext ==
  ASSUME initialized,
         \/ StreamWrites \/ ClientCalls \/ RingWorks
         \/ \E c \in Clients : ReadNotReady(c) \/ QueryNotReady(c)
  PROVE  Next
  BY DEF StreamWrites, ClientCalls, RingWorks, ReadNotReady, QueryNotReady, Next, Call

LEMMA RingKeepsFInv == FInv /\ [Next]_vars => FInv'
<1>1. CASE UNCHANGED vars
  BY <1>1, StutterKeepsIInv DEF FInv, Calls, vars
<1> QED
  BY <1>1, NextKeepsIInv, CallsKept DEF FInv

LEMMA NextKeepsStartupInv == StartupInv /\ [StartupNext]_allVars => StartupInv'
<1> SUFFICES ASSUME StartupInv, [StartupNext]_allVars PROVE StartupInv'
  OBVIOUS
<1>0. FlagsInv'
  BY NextKeepsFlagsInv DEF StartupInv
<1>1. ASSUME UNCHANGED <<vars, reinit>> PROVE StartupInv'
  BY <1>0, <1>1, RingKeepsFInv DEF StartupInv, Idle, vars, ring
<1>2. ASSUME NEW s \in Streams, BuildFails(s) PROVE StartupInv'
  BY <1>0, <1>2 DEF StartupInv, FlagsInv, Idle, BuildFails
<1>3. ASSUME NEW s \in Streams, Publish(s) PROVE StartupInv'
  <2>1. ~initialized /\ initialized'
    BY <1>3 DEF StartupInv, FlagsInv, Publish
  <2> QED
    BY <1>0, <1>3, <2>1, PublishMakesRing DEF StartupInv
<1>4. ASSUME NEW s \in Streams, InitializeLock(s) PROVE StartupInv'
  <2>1. initialized /\ initialized'
    BY <1>4 DEF StartupInv, FlagsInv, InitializeLock, ring
  <2>2. ~reinit' => ~reinit /\ UNCHANGED vars
    BY <1>4 DEF InitializeLock, StartupInv, FlagsInv, vars
  <2> QED
    BY <1>0, <2>1, <2>2, RingKeepsFInv DEF StartupInv
<1>5. CASE \/ StreamWrites \/ ClientCalls \/ RingWorks
           \/ \E c \in Clients : ReadNotReady(c) \/ QueryNotReady(c)
  <2>1. initialized' = initialized /\ reinit' = reinit
    BY <1>5, RingLeavesFlags DEF startup
  <2>2. ~initialized => Idle'
    BY <1>5, IdleStaysIdle DEF StartupInv
  <2>3. initialized /\ ~reinit => FInv'
    BY <1>5, RingStepIsNext, RingKeepsFInv DEF StartupInv
  <2> QED
    BY <1>0, <2>1, <2>2, <2>3 DEF StartupInv
<1> QED
  BY <1>1, <1>2, <1>3, <1>4, <1>5
  DEF StartupNext, OpenStream, CloseStream, allVars, startup

LEMMA StartupInductive == StartupSpec => []StartupInv
  BY InitStartupInv, NextKeepsStartupInv, PTL DEF StartupSpec

-----------------------------------------------------------------------------
(* The refinement.                                                         *)

LEMMA EmptyQueue ==
  ASSUME lock = Free, bufferedBytes = 0, out \in [Clients -> Seq(Bytes)]
  PROVE  AbstractQueue = << >> /\ AbstractDelivered = out
<1>1. Live = 0
  BY DEF Live, Taken
<1>2. Contents = << >>
  BY <1>1 DEF Contents
<1>3. AbstractQueue = << >>
  BY <1>2 DEF AbstractQueue, Holding
<1>4. AbstractDelivered = [c \in Clients |-> out[c]]
  BY RingAssumption DEF AbstractDelivered, Threads
<1> QED
  BY <1>3, <1>4

LEMMA StartupInitMaps == StartupInit => Fifo!Init
<1> SUFFICES ASSUME StartupInit PROVE Fifo!Init
  OBVIOUS
<1>1. /\ lock = Free /\ bufferedBytes = 0
      /\ out = [c \in Clients |-> << >>] /\ out \in [Clients -> Seq(Bytes)]
  BY DEF StartupInit, LoopsIdle
<1> QED
  BY <1>1, EmptyQueue DEF Fifo!Init

(* Before there is a ring: only a READ_PCM is seen.                        *)
LEMMA IdleMaps ==
  ASSUME FlagsInv, Idle, ~initialized, [StartupNext]_allVars
  PROVE  [Fifo!Next]_(Fifo!vars)
<1>0. AbstractQueue = << >> /\ AbstractDelivered = out /\ out \in [Clients -> Seq(Bytes)]
  BY EmptyQueue DEF Idle
<1>1. ASSUME lock' = Free, bufferedBytes' = 0, out' \in [Clients -> Seq(Bytes)]
      PROVE  AbstractQueue' = << >> /\ AbstractDelivered' = out'
  <2>1. (lock = Free /\ bufferedBytes = 0 /\ out \in [Clients -> Seq(Bytes)]
           => AbstractQueue = << >> /\ AbstractDelivered = out)'
    BY EmptyQueue, PTL
  <2> QED
    BY <1>1, <2>1
<1>2. ASSUME lock' = Free, bufferedBytes' = 0, out' = out PROVE UNCHANGED Fifo!vars
  BY <1>0, <1>1, <1>2 DEF Fifo!vars
<1>3. CASE UNCHANGED vars
  BY <1>3, StutterInvisible
<1>4. ASSUME NEW s \in Streams, BuildFails(s) \/ Publish(s) PROVE UNCHANGED Fifo!vars
  BY <1>2, <1>4 DEF BuildFails, Publish, Idle
<1>5. ASSUME NEW s \in Streams PROVE ~InitializeLock(s)
  BY DEF FlagsInv, InitializeLock
<1>6. ~StreamWrites /\ ~ClientCalls /\ ~RingWorks
  BY DEF StreamWrites, CallWrite, ClientCalls, CallRead, CallReset, CallGetInfo, Enter,
         RingWorks, Idle, Acquire, Work, WriteByte, WriteDone, ReadByte, ReadDone,
         ResetRing, QueryDone, Inside, Threads
<1>7. ASSUME NEW c \in Clients, ReadNotReady(c) PROVE Fifo!Next
  <2>1. lock' = Free /\ bufferedBytes' = 0 /\ out' = [out EXCEPT ![c] = << >>]
    BY <1>7 DEF ReadNotReady, Idle, ring
  <2>2. out' \in [Clients -> Seq(Bytes)]
    BY <1>0, <2>1
  <2>3. Fifo!Issue(c)
    BY <1>0, <1>1, <2>1, <2>2 DEF Fifo!Issue
  <2> QED
    BY <2>3 DEF Fifo!Next
<1>8. ASSUME NEW c \in Clients, QueryNotReady(c) PROVE UNCHANGED Fifo!vars
  BY <1>2, <1>8 DEF QueryNotReady, Idle, ring
<1> QED
  BY <1>3, <1>4, <1>5, <1>6, <1>7, <1>8
  DEF StartupNext, OpenStream, CloseStream, allVars

(* Once there is one, a stream's life is invisible and the rest is the     *)
(* ring's own refinement.                                                  *)
LEMMA InitializedMaps ==
  ASSUME FlagsInv, FInv, initialized, [StartupNext]_allVars, ~reinit'
  PROVE  [Fifo!Next]_(Fifo!vars)
<1>1. ASSUME NEW s \in Streams PROVE ~BuildFails(s) /\ ~Publish(s)
  BY DEF FlagsInv, BuildFails, Publish
<1>2. ASSUME NEW s \in Streams, InitializeLock(s) PROVE UNCHANGED vars
  BY <1>2 DEF FlagsInv, InitializeLock, vars
<1>3. CASE UNCHANGED vars
  BY <1>3, StutterInvisible
<1>4. CASE \/ StreamWrites \/ ClientCalls \/ RingWorks
           \/ \E c \in Clients : ReadNotReady(c) \/ QueryNotReady(c)
  BY <1>4, RingStepIsNext, NextMaps
<1> QED
  BY <1>1, <1>2, <1>3, <1>4 DEF StartupNext, OpenStream, CloseStream, allVars

LEMMA StartupStepMaps ==
  StartupInv /\ [StartupNext]_allVars => (~reinit' => [Fifo!Next]_(Fifo!vars))
<1> SUFFICES ASSUME StartupInv, [StartupNext]_allVars, ~reinit'
             PROVE  [Fifo!Next]_(Fifo!vars)
  OBVIOUS
<1>1. FlagsInv
  BY DEF StartupInv
<1>2. ~reinit
  <2>1. ASSUME NEW s \in Streams, InitializeLock(s) PROVE ~reinit
    BY <1>1, <2>1 DEF InitializeLock, FlagsInv
  <2>2. CASE reinit' = reinit
    BY <2>2
  <2> QED
    BY <2>1, <2>2, RingLeavesFlags
    DEF StartupNext, OpenStream, BuildFails, Publish, CloseStream, startup, allVars
<1> QED
  BY <1>1, <1>2, IdleMaps, InitializedMaps DEF StartupInv

-----------------------------------------------------------------------------

(* Two streams opened at the same time never build the ring twice: no step *)
(* replaces the storage of a ring that is initialized.                     *)
THEOREM StartupBuildsOnce == StartupSpec => RingBuiltOnce
<1>1. FlagsInv => \A s \in Streams : ~(initialized /\ (Publish(s) \/ BuildFails(s)))
  BY DEF FlagsInv, Publish, BuildFails
<1> QED
  BY <1>1, FlagsInductive, PTL DEF RingBuiltOnce

(* From the moment Initialized is set the ring is consistent and its lock  *)
(* exclusive, unless KeInitializeSpinLock hit a lock that was held.        *)
THEOREM StartupSound == StartupSpec => []SoundUnlessReinitialised
<1>1. StartupInv => SoundUnlessReinitialised
  BY DEF StartupInv, FInv, IInv, LockOwned, SoundUnlessReinitialised
<1> QED
  BY <1>1, StartupInductive, PTL

(* A stream runs without a ring only while another builds it, or after the *)
(* one attempt failed.                                                     *)
THEOREM StartupRinglessOnlyAfterFailure == StartupSpec => []RinglessOnlyAfterFailure
<1>1. FlagsInv => RinglessOnlyAfterFailure
  BY DEF FlagsInv, RinglessOnlyAfterFailure
<1> QED
  BY <1>1, FlagsInductive, PTL

(* From the loading of the driver on, whatever its clients ask and however *)
(* many streams are opened at once, every step is a step of the atomic     *)
(* queue or invisible to it, until KeInitializeSpinLock hits a held lock.  *)
THEOREM StartupImplementsFifo == StartupSpec => FifoUnlessReinitialised
  BY StartupInitMaps, StartupStepMaps, StartupInductive, PTL
  DEF StartupSpec, FifoUnlessReinitialised
=============================================================================
