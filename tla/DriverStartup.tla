--------------------------- MODULE DriverStartup ----------------------------
(***************************************************************************)
(* How the PCM ring comes into being while it is already in use.           *)
(*                                                                         *)
(* The control device exists from DriverEntry on, so a client may read,    *)
(* reset or query before any audio stream was opened.  The first render    *)
(* stream to be opened builds the ring in CMiniportWaveRTStream::Init,     *)
(* behind two one-shot flags; the streams opened meanwhile do not wait for *)
(* it.  RifeZPcmBufferInitialize sets Initialized BEFORE it initialises    *)
(* the spin lock, and a failed allocation leaves both flags set.           *)
(***************************************************************************)
EXTENDS DriverRing

VARIABLES
  built,     \* g_RifeZBufferInitialized and g_RifeZPcmServiceInitialized:
             \*   the first is only set on the way to the second
  stage,     \* stage[s]: where stream s is in its life
  failed,    \* history: the one allocation of the ring has failed
  reinit     \* history: the lock was initialised while a thread held it

startup == <<built, stage, failed, reinit>>
allVars == <<vars, startup>>

Stages == {"closed", "building", "published", "open"}

(* The globals of a freshly loaded driver are zero; a zero lock is free.   *)
StartupInit ==
  /\ buffer = NoBuffer
  /\ capacity = 0
  /\ readOffset = 0
  /\ writeOffset = 0
  /\ bufferedBytes = 0
  /\ initialized = FALSE
  /\ LoopsIdle
  /\ built = FALSE
  /\ stage = [s \in Streams |-> "closed"]
  /\ failed = FALSE
  /\ reinit = FALSE

-----------------------------------------------------------------------------

(* A slip: testing the flag without InterlockedCompareExchange lets every  *)
(* opener that saw it clear build the ring.                                *)
OpenStreamUnlocked(s) ==
  /\ stage[s] = "closed"
  /\ stage' = [stage EXCEPT ![s] = "building"]
  /\ built' = TRUE
  /\ UNCHANGED <<vars, failed, reinit>>

(* The exchange lets one stream pass; the others are open at once.         *)
OpenStream(s) ==
  /\ stage[s] = "closed"
  /\ stage' = [stage EXCEPT ![s] = IF built THEN "open" ELSE "building"]
  /\ built' = TRUE
  /\ UNCHANGED <<vars, failed, reinit>>

(* STATUS_INSUFFICIENT_RESOURCES: the stream is refused, the flags stay.   *)
BuildFails(s) ==
  /\ stage[s] = "building"
  /\ stage' = [stage EXCEPT ![s] = "closed"]
  /\ buffer' = NoBuffer
  /\ capacity' = 0
  /\ readOffset' = 0
  /\ writeOffset' = 0
  /\ bufferedBytes' = 0
  /\ initialized' = FALSE
  /\ failed' = TRUE
  /\ UNCHANGED <<lock, pc, op, data, want, idx, out, info, built, reinit>>

(* Everything but the lock, Initialized included.                          *)
Publish(s) ==
  /\ stage[s] = "building"
  /\ stage' = [stage EXCEPT ![s] = "published"]
  /\ buffer' = [i \in 0 .. Capacity - 1 |-> Zero]
  /\ capacity' = Capacity
  /\ readOffset' = 0
  /\ writeOffset' = 0
  /\ bufferedBytes' = 0
  /\ initialized' = TRUE
  /\ UNCHANGED <<lock, pc, op, data, want, idx, out, info, built, failed, reinit>>

(* KeInitializeSpinLock, after the fact.                                   *)
InitializeLock(s) ==
  /\ stage[s] = "published"
  /\ stage' = [stage EXCEPT ![s] = "open"]
  /\ lock' = Free
  /\ reinit' = (reinit \/ lock # Free)
  /\ UNCHANGED <<ring, pc, op, data, want, idx, out, info, built, failed>>

(* The stream's timer is cancelled and drained before it goes away.  The   *)
(* ring outlives it: this slip tears it down and leaves the flags.         *)
CloseStreamFreesRing(s) ==
  /\ stage[s] = "open"
  /\ pc[s] = "outside"
  /\ stage' = [stage EXCEPT ![s] = "closed"]
  /\ initialized' = FALSE
  /\ UNCHANGED <<buffer, capacity, readOffset, writeOffset, bufferedBytes, lock, pc>>
  /\ UNCHANGED <<op, data, want, idx, out, info, built, failed, reinit>>

(* A slip: the ring is emptied with the stream, without its lock.          *)
CloseStreamEmptiesRing(s) ==
  /\ stage[s] = "open"
  /\ pc[s] = "outside"
  /\ stage' = [stage EXCEPT ![s] = "closed"]
  /\ readOffset' = 0
  /\ writeOffset' = 0
  /\ bufferedBytes' = 0
  /\ UNCHANGED <<buffer, capacity, initialized, lock, pc, op, data, want, idx, out>>
  /\ UNCHANGED <<info, built, failed, reinit>>

CloseStream(s) ==
  /\ stage[s] = "open"
  /\ pc[s] = "outside"
  /\ stage' = [stage EXCEPT ![s] = "closed"]
  /\ UNCHANGED <<vars, built, failed, reinit>>

-----------------------------------------------------------------------------

StreamWrites ==
  /\ \E s \in Streams, chunk \in Chunks : stage[s] = "open" /\ CallWrite(s, chunk)
  /\ UNCHANGED startup

(* READ_PCM on a ring that is not there yet answers zero bytes and         *)
(* STATUS_SUCCESS.                                                         *)
ReadNotReady(c) ==
  /\ pc[c] = "outside"
  /\ ~initialized
  /\ out' = [out EXCEPT ![c] = << >>]
  /\ UNCHANGED <<ring, lock, pc, op, data, want, idx, info, startup>>

QueryNotReady(c) ==
  /\ pc[c] = "outside"
  /\ ~initialized
  /\ info' = [info EXCEPT ![c] = [capacity |-> capacity, buffered |-> 0]]
  /\ UNCHANGED <<ring, lock, pc, op, data, want, idx, out, startup>>

ClientCalls ==
  /\ \E c \in Clients :
       \/ \E n \in Requests : CallRead(c, n)
       \/ CallReset(c)
       \/ CallGetInfo(c)
  /\ UNCHANGED startup

RingWorks ==
  /\ \E t \in Threads : Acquire(t) \/ Work(t)
  /\ UNCHANGED startup

StartupNext ==
  \/ \E s \in Streams :
       OpenStream(s) \/ BuildFails(s) \/ Publish(s) \/ InitializeLock(s) \/ CloseStream(s)
  \/ \E c \in Clients : ReadNotReady(c) \/ QueryNotReady(c)
  \/ StreamWrites
  \/ ClientCalls
  \/ RingWorks

StartupSpec == StartupInit /\ [][StartupNext]_allVars

-----------------------------------------------------------------------------
(* The one-shot flags against streams opened at the same time: the ring's  *)
(* storage is never replaced under the threads that work in it.            *)
RingBuiltOnce == [][\A s \in Streams : ~(initialized /\ (Publish(s) \/ BuildFails(s)))]_allVars

(* From the moment Initialized is set, before the lock is initialised and  *)
(* with clients polling since before the ring existed: the ring is         *)
(* consistent and its lock exclusive, EXCEPT in the runs in which          *)
(* KeInitializeSpinLock hits the lock while a client holds it.             *)
SoundUnlessReinitialised ==
  initialized /\ ~reinit =>
    /\ OffsetsAgree
    /\ \A t, u \in Threads : pc[t] = "inside" /\ pc[u] = "inside" => t = u

(* What a client gets from the moment the driver is loaded, before there   *)
(* is a ring, while it is published and in all its life: what the atomic   *)
(* queue of PcmFifo would give it, EXCEPT after such a hit.  A reader that *)
(* is turned away has asked an empty queue; the publication changes        *)
(* nothing anybody can see.                                                *)
FifoUnlessReinitialised ==
  /\ Fifo!Init
  /\ [][~reinit' => [Fifo!Next]_(Fifo!vars)]_allVars

(* Who loses audio: a stream runs without a ring only while the first      *)
(* stream is still building it, or after that one attempt failed.          *)
RinglessOnlyAfterFailure ==
  \A s \in Streams :
    stage[s] = "open" /\ ~initialized =>
      failed \/ \E u \in Streams \ {s} : stage[u] = "building"
=============================================================================
