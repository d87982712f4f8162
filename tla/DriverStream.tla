----------------------------- MODULE DriverStream -----------------------------
(***************************************************************************)
(* A WaveRT stream of the kernel driver (EndpointsCommon/                  *)
(* minwavertstream.cpp, MiniportStreamAudioEngineNode.cpp) in event-driven *)
(* mode: a circular buffer of count packets, a position that is computed   *)
(* from the clock whenever somebody asks, and a 1 ms timer that stands for *)
(* the hardware, counts packets and signals the audio engine.              *)
(*                                                                         *)
(* Two measures of the same clock run side by side, each with its own      *)
(* remainder carried forward: the bytes fetched (sinceDma, hnsCarry,       *)
(* byteCarry) and the packets completed (sinceDpc, dpcCarry).  Timestamps  *)
(* are kept as the time since they were taken.                             *)
(*                                                                         *)
(* What runs under m_PositionSpinLock is one step.  SetState takes no lock *)
(* around its changes: the start and the pause of the timer are several.   *)
(***************************************************************************)
EXTENDS Naturals, Sequences, SequencesExt

CONSTANTS
  Requests,      \* buffer sizes the port driver may ask for
  Counts,        \* NotificationCount_ of those requests
  BlockAlign,    \* bytes per frame
  Rate,          \* m_ulDmaMovementRate, bytes per second
  MsPerSecond,   \* 1000 in the code
  HnsPerMs,      \* 10000 in the code
  Offsets,       \* positions the engine sets on an offloaded stream
  MaxLate,       \* bound: how late, in hns, a timer callback may be
  MaxLag,        \* bound: hns between two readings of the clock
  MaxLinear,     \* bound: bytes after which the clock stops, unless the
                 \* stream is on its way to an end inside the buffer
  NoCall         \* no SetWritePacket under way

ASSUME StreamAssumption ==
  /\ Requests \subseteq Nat
  /\ Counts \subseteq Nat
  /\ BlockAlign \in Nat \ {0}
  /\ Rate \in Nat \ {0}
  /\ MsPerSecond \in Nat \ {0}
  /\ HnsPerMs \in Nat \ {0}
  /\ Offsets \subseteq Nat
  /\ MaxLate \in Nat
  /\ MaxLag \in Nat
  /\ MaxLinear \in Nat
  /\ NoCall \notin Nat

VARIABLES
  size,            \* m_ulDmaBufferSize
  count,           \* m_ulNotificationsPerBuffer
  interval,        \* m_ulNotificationIntervalMs
  capture,         \* m_bCapture
  ksState,         \* m_KsState
  step,            \* how far SetState is between RUN and PAUSE
  armed,           \* m_pNotificationTimer is set
  dpc,             \* a timer callback is queued
  packetCounter,   \* m_llPacketCounter
  writePosition,   \* m_ullWritePosition = m_ullPlayPosition
  linear,          \* m_ullLinearPosition
  sinceDma,        \* now - m_ullDmaTimeStamp
  hnsCarry,        \* m_hnsElapsedTimeCarryForward
  byteCarry,       \* m_byteDisplacementCarryForward
  sinceDpc,        \* now - m_ullLastDPCTimeStamp
  dpcCarry,        \* m_hnsDPCTimeCarryForward
  currentWrite,    \* m_ulCurrentWritePosition
  eos,             \* m_bEoSReceived
  rendered,        \* m_bLastBufferRendered
  lastRead,        \* m_ulLastOsReadPacket + 1: 0 stands for ULONG_MAX
  writer,          \* packet counter a SetWritePacket has read, or NoCall
  clean,           \* history: the last STOP left no time in dpcCarry
  eosAt            \* history: linear position of the end of the stream

geometry == <<size, count, interval, capture>>
clock == <<sinceDma, sinceDpc>>
position == <<writePosition, linear, sinceDma, hnsCarry, byteCarry, rendered>>
packets == <<packetCounter, sinceDpc, dpcCarry>>
os == <<currentWrite, eos, lastRead, writer, eosAt>>
vars == <<geometry, ksState, step, armed, dpc, position, packets, os, clean>>

-----------------------------------------------------------------------------
(* AllocateBufferWithNotification: the notification count must divide the  *)
(* requested size, which is then cut to whole frames; the notification     *)
(* interval is the duration of a packet in whole milliseconds.             *)

Allocatable(request, n) ==
  /\ request >= BlockAlign
  /\ n > 0
  /\ request % n = 0

RoundedSize(request) == request - (request % BlockAlign)

IntervalOf(bytes, n) == ((bytes * MsPerSecond) \div Rate) \div n

PacketSize == size \div count

IntervalHns == interval * HnsPerMs

(* The port driver of the audio engine does not run a buffer shorter than  *)
(* the timer's period.                                                     *)
Init ==
  /\ \E request \in Requests, n \in Counts :
       /\ Allocatable(request, n)
       /\ size = RoundedSize(request)
       /\ count = n
       /\ interval = IntervalOf(size, n)
       /\ interval > 0
  /\ capture \in BOOLEAN
  /\ ksState = "STOP" /\ step = "none"
  /\ armed = FALSE /\ dpc = FALSE
  /\ packetCounter = 0 /\ writePosition = 0 /\ linear = 0
  /\ sinceDma = 0 /\ hnsCarry = 0 /\ byteCarry = 0
  /\ sinceDpc = 0 /\ dpcCarry = 0
  /\ currentWrite = 0 /\ eos = FALSE /\ rendered = FALSE
  /\ lastRead = 0 /\ writer = NoCall
  /\ clean = TRUE /\ eosAt = 0

-----------------------------------------------------------------------------
(* UpdatePosition: the bytes the DMA engine would have moved since the     *)
(* last update, cut off at the end of the stream.                          *)

ElapsedMs == (sinceDma + hnsCarry) \div HnsPerMs

Moved == (Rate * ElapsedMs + byteCarry) \div MsPerSecond

After(bytes) == (writePosition + bytes) % size

Least(a, b) == IF a < b THEN a ELSE b

(* Slip: the wrap on the way to the end is forgotten.                      *)
CutAtEosUnwrapped ==
  IF writePosition <= currentWrite
  THEN Least(Moved, currentWrite - writePosition)
  ELSE Moved

CutAtEos ==
  IF writePosition <= currentWrite
  THEN Least(Moved, currentWrite - writePosition)
  ELSE IF currentWrite < After(Moved) /\ After(Moved) < writePosition
       THEN Moved - (After(Moved) - currentWrite)
       ELSE Moved

Displacement == IF eos /\ ~capture THEN CutAtEos ELSE Moved

(* The loop of ReadBytes and of WriteBytes: with so many bytes left and at *)
(* this offset, a run of contiguous bytes, cut at the end of the buffer,   *)
(* and then the loop again.                                                *)
Fetch(offset, bytes) ==
  LET Runs[left \in 0 .. bytes] ==
        [at \in 0 .. size - 1 |->
           IF left = 0 THEN << >>
           ELSE LET run == Least(left, size - at)
                IN  <<[offset |-> at, length |-> run]>>
                      \o Runs[left - run][(at + run) % size]]
  IN  Runs[bytes][offset]

(* What the update hands on, to the ring and to the file (DriverRing and   *)
(* SaveData take it from there), or fills with the tone of a capture       *)
(* stream.                                                                 *)
HandedOn == Fetch(linear % size, Displacement)

(* Slip: the end is looked for where the uncut displacement would lead.    *)
UpdatePositionOvershoots ==
  /\ hnsCarry' = (sinceDma + hnsCarry) % HnsPerMs
  /\ byteCarry' = (Rate * ElapsedMs + byteCarry) % MsPerSecond
  /\ sinceDma' = 0
  /\ rendered' = (rendered \/ (eos /\ ~capture /\ After(Moved) = currentWrite))
  /\ writePosition' = After(Displacement)
  /\ linear' = linear + Displacement

(* Slip: what a division leaves over is not carried forward.               *)
UpdatePositionRounds ==
  /\ hnsCarry' = (sinceDma + hnsCarry) % HnsPerMs
  /\ byteCarry' = 0
  /\ sinceDma' = 0
  /\ rendered' = (rendered \/ (eos /\ ~capture /\ After(Displacement) = currentWrite))
  /\ writePosition' = After(Displacement)
  /\ linear' = linear + Displacement

UpdatePosition ==
  /\ hnsCarry' = (sinceDma + hnsCarry) % HnsPerMs
  /\ byteCarry' = (Rate * ElapsedMs + byteCarry) % MsPerSecond
  /\ sinceDma' = 0
  /\ rendered' = (rendered \/ (eos /\ ~capture /\ After(Displacement) = currentWrite))
  /\ writePosition' = After(Displacement)
  /\ linear' = linear + Displacement

NoUpdate == UNCHANGED position

(* GetPosition, GetPositions, GetPacketCount in RUN; in the other states   *)
(* they change nothing.                                                    *)
GetPosition ==
  /\ ksState = "RUN"
  /\ UpdatePosition
  /\ UNCHANGED <<geometry, ksState, step, armed, dpc, packets, os, clean>>

-----------------------------------------------------------------------------
(* The clock, and TimerNotifyRT.  Time matters from the start of the timer *)
(* to the end of the pause.                                                *)

Tick ==
  /\ ksState = "RUN" \/ step = "starting"
  /\ armed => sinceDpc + dpcCarry < IntervalHns + MaxLate
  /\ sinceDma < MaxLag /\ sinceDpc + dpcCarry < MaxLag
  /\ linear < MaxLinear \/ (eos /\ currentWrite < size)
  /\ sinceDma' = sinceDma + 1
  /\ sinceDpc' = sinceDpc + 1
  /\ UNCHANGED <<geometry, ksState, step, armed, dpc, packetCounter, dpcCarry, os,
                 writePosition, linear, hnsCarry, byteCarry, rendered, clean>>

Fire ==
  /\ armed /\ ~dpc
  /\ dpc' = TRUE
  /\ NoUpdate
  /\ UNCHANGED <<geometry, ksState, step, armed, packets, os, clean>>

BufferCompleted == (sinceDpc + dpcCarry) \div HnsPerMs >= interval

(* Slip: an interval is taken off the carry at every update.               *)
CarryForwardAlways ==
  /\ dpcCarry' = sinceDpc + dpcCarry - IntervalHns
  /\ sinceDpc' = 0

CarryForward ==
  IF BufferCompleted
  THEN /\ dpcCarry' = sinceDpc + dpcCarry - IntervalHns
       /\ sinceDpc' = 0
  ELSE UNCHANGED <<dpcCarry, sinceDpc>>

TimerTooEarly ==
  /\ dpc /\ ~BufferCompleted /\ ~eos
  /\ dpc' = FALSE
  /\ NoUpdate
  /\ UNCHANGED <<geometry, ksState, step, armed, packets, os, clean>>

TimerNotify ==
  /\ dpc /\ (BufferCompleted \/ eos)
  /\ dpc' = FALSE
  /\ CarryForward
  /\ UpdatePosition
  /\ packetCounter' = IF eos THEN packetCounter ELSE packetCounter + 1
  /\ armed' = (armed /\ ~(ksState = "RUN" /\ rendered'))
  /\ UNCHANGED <<geometry, ksState, step, os, clean>>

-----------------------------------------------------------------------------
(* SetState.  The audio engine walks STOP, ACQUIRE, PAUSE, RUN and back.   *)

Rest == step = "none"

ChangeState(from, to) ==
  /\ Rest /\ ksState = from
  /\ ksState' = to
  /\ NoUpdate
  /\ UNCHANGED <<geometry, step, armed, dpc, packets, os, clean>>

Acquire == ChangeState("STOP", "ACQUIRE") \/ ChangeState("PAUSE", "ACQUIRE")

Pause == ChangeState("ACQUIRE", "PAUSE")

(* Slip: the linear position is not reset.                                 *)
StopKeepsLinear ==
  /\ Rest /\ ksState = "ACQUIRE" /\ writer = NoCall
  /\ ksState' = "STOP"
  /\ packetCounter' = 0
  /\ writePosition' = 0
  /\ lastRead' = 0 /\ currentWrite' = 0
  /\ eos' = FALSE /\ rendered' = FALSE
  /\ clean' = (dpcCarry = 0)
  /\ eosAt' = 0
  /\ UNCHANGED <<geometry, step, armed, dpc, clock, hnsCarry, byteCarry, dpcCarry,
                 linear, writer>>

(* STOP resets the positions and the counters, and none of the three       *)
(* remainders.  The audio engine's own call has returned by then.          *)
Stop ==
  /\ Rest /\ ksState = "ACQUIRE" /\ writer = NoCall
  /\ ksState' = "STOP"
  /\ packetCounter' = 0
  /\ writePosition' = 0 /\ linear' = 0
  /\ lastRead' = 0 /\ currentWrite' = 0
  /\ eos' = FALSE /\ rendered' = FALSE
  /\ clean' = (dpcCarry = 0)
  /\ eosAt' = 0
  /\ UNCHANGED <<geometry, step, armed, dpc, clock, hnsCarry, byteCarry, dpcCarry, writer>>

StartDma ==
  /\ Rest /\ ksState = "PAUSE"
  /\ step' = "starting"
  /\ sinceDma' = 0 /\ sinceDpc' = 0
  /\ armed' = TRUE
  /\ UNCHANGED <<geometry, ksState, dpc, writePosition, linear, hnsCarry, byteCarry,
                 rendered, packetCounter, dpcCarry, os, clean>>

EnterRun ==
  /\ step = "starting"
  /\ step' = "none" /\ ksState' = "RUN"
  /\ NoUpdate
  /\ UNCHANGED <<geometry, armed, dpc, packets, os, clean>>

CancelTimer ==
  /\ Rest /\ ksState = "RUN"
  /\ step' = "flushing"
  /\ armed' = FALSE
  /\ NoUpdate
  /\ UNCHANGED <<geometry, ksState, dpc, packets, os, clean>>

(* Slip: a callback may still be queued.                                   *)
FlushNothing ==
  /\ step = "flushing"
  /\ step' = "pausing"
  /\ dpcCarry' = sinceDpc + dpcCarry
  /\ sinceDpc' = 0
  /\ NoUpdate
  /\ UNCHANGED <<geometry, ksState, armed, dpc, packetCounter, os, clean>>

(* KeFlushQueuedDpcs returns; the time since the last notification is kept *)
(* for the next RUN.                                                       *)
FlushDpcs ==
  /\ step = "flushing" /\ ~dpc
  /\ step' = "pausing"
  /\ dpcCarry' = sinceDpc + dpcCarry
  /\ sinceDpc' = 0
  /\ NoUpdate
  /\ UNCHANGED <<geometry, ksState, armed, dpc, packetCounter, os, clean>>

(* Slip: the position is not brought up to date.                           *)
EnterPauseBehind ==
  /\ step = "pausing"
  /\ step' = "none" /\ ksState' = "PAUSE"
  /\ NoUpdate
  /\ UNCHANGED <<geometry, armed, dpc, packets, os, clean>>

(* GetPositions with the state still RUN, then m_KsState = KSSTATE_PAUSE.  *)
EnterPause ==
  /\ step = "pausing"
  /\ step' = "none" /\ ksState' = "PAUSE"
  /\ UpdatePosition
  /\ UNCHANGED <<geometry, armed, dpc, packets, os, clean>>

-----------------------------------------------------------------------------
(* The audio engine's calls about its own position in the buffer.          *)

(* Where the fetching will have reached the given offset.                  *)
Upcoming(offset) ==
  IF writePosition <= offset THEN linear + (offset - writePosition)
  ELSE linear + (size - writePosition) + offset

WritePositionTo(offset) ==
  /\ ~eos /\ offset <= size
  /\ currentWrite' = offset
  /\ UNCHANGED <<eos, eosAt>>

LastBufferTo(offset) ==
  /\ ~eos /\ offset <= size
  /\ currentWrite' = offset
  /\ eos' = TRUE
  /\ eosAt' = Upcoming(offset)

(* SetWritePacket reads the packet counter under the lock ...              *)
BeginWritePacket ==
  /\ ~capture /\ ksState \in {"PAUSE", "RUN"}
  /\ writer = NoCall /\ ~eos
  /\ writer' = packetCounter
  /\ NoUpdate
  /\ UNCHANGED <<geometry, ksState, step, armed, dpc, packets, clean,
                 currentWrite, eos, lastRead, eosAt>>

(* ... and accepts the one packet that number calls for, under the lock    *)
(* again.  Any other is late or too early, and refused.                    *)
(* Slip: the engine is let one packet further ahead.                       *)
ExpectedPacketFurther == IF ksState = "RUN" THEN writer + 2 ELSE writer + 1

ExpectedPacket == IF ksState = "RUN" THEN writer + 1 ELSE writer

PacketOffset(packet) == (packet % count) * PacketSize

EndWritePacket ==
  /\ writer # NoCall
  /\ writer' = NoCall
  /\ \/ WritePositionTo(PacketOffset(ExpectedPacket))
     \/ \E length \in 0 .. PacketSize : LastBufferTo(PacketOffset(ExpectedPacket) + length)
  /\ NoUpdate
  /\ UNCHANGED <<geometry, ksState, step, armed, dpc, packets, lastRead, clean>>

(* SetStreamCurrentWritePosition(ForLastBuffer) of an offloaded stream.    *)
SetWritePosition ==
  /\ ~capture /\ ksState \in {"PAUSE", "RUN"} /\ writer = NoCall
  /\ \E offset \in Offsets : (offset > 0 /\ WritePositionTo(offset)) \/ LastBufferTo(offset)
  /\ NoUpdate
  /\ UNCHANGED <<geometry, ksState, step, armed, dpc, packets, lastRead, writer, clean>>

(* The newest completed packet, once.                                      *)
GetReadPacket ==
  /\ capture /\ ksState \in {"PAUSE", "RUN"}
  /\ packetCounter # lastRead
  /\ lastRead' = packetCounter
  /\ NoUpdate
  /\ UNCHANGED <<geometry, ksState, step, armed, dpc, packets, clean,
                 currentWrite, eos, writer, eosAt>>

-----------------------------------------------------------------------------

SetState ==
  \/ Acquire \/ Pause \/ Stop
  \/ StartDma \/ EnterRun
  \/ CancelTimer \/ FlushDpcs \/ EnterPause

Timer == Fire \/ TimerTooEarly \/ TimerNotify

Engine ==
  \/ GetPosition \/ GetReadPacket
  \/ BeginWritePacket \/ EndWritePacket \/ SetWritePosition

Next == Tick \/ Timer \/ SetState \/ Engine

(* Time passes, the timer fires, and a queued callback runs.               *)
Fairness == WF_vars(Tick) /\ WF_vars(Fire) /\ WF_vars(TimerTooEarly \/ TimerNotify)

Spec == Init /\ [][Next]_vars /\ Fairness

-----------------------------------------------------------------------------

KsStates == {"STOP", "ACQUIRE", "PAUSE", "RUN"}

(* Every variable of the stream keeps its type; no unsigned field that the *)
(* code subtracts from goes below zero.                                    *)
TypeOK ==
  /\ size \in Nat \ {0} /\ count \in Nat \ {0} /\ interval \in Nat \ {0}
  /\ capture \in BOOLEAN
  /\ ksState \in KsStates
  /\ step \in {"none", "starting", "flushing", "pausing"}
  /\ armed \in BOOLEAN /\ dpc \in BOOLEAN
  /\ packetCounter \in Nat /\ writePosition \in 0 .. size - 1 /\ linear \in Nat
  /\ sinceDma \in Nat /\ hnsCarry \in 0 .. HnsPerMs - 1
  /\ byteCarry \in 0 .. MsPerSecond - 1
  /\ sinceDpc \in Nat /\ dpcCarry \in Nat
  /\ currentWrite \in 0 .. size
  /\ eos \in BOOLEAN /\ rendered \in BOOLEAN
  /\ lastRead \in Nat /\ writer \in Nat \cup {NoCall}
  /\ clean \in BOOLEAN /\ eosAt \in Nat

(* The bytes moved and those due, in the smallest unit the two divisions   *)
(* leave over: what a reading of the clock does not yet turn into whole    *)
(* milliseconds and whole bytes it carries forward.                        *)
Progress == HnsPerMs * (MsPerSecond * linear + byteCarry) + Rate * (hnsCarry + sinceDma)

(* "so we don't fall behind with our position": only the clock moves the   *)
(* position on, by the rate.  However often it is asked for, and through   *)
(* callbacks, pauses and restarts, nothing is lost or gained, until a STOP *)
(* resets it or the end of the stream cuts it off.                         *)
NoDrift ==
  [][ Displacement = Moved /\ ksState' # "STOP"
      => Progress' = Progress + (IF sinceDma' > sinceDma THEN Rate ELSE 0) ]_vars

(* The offset the DMA engine is at, which UpdatePosition advances modulo   *)
(* the buffer, and the linear position, from which ReadBytes computes the  *)
(* offset it reads at, are the same place, across every stop and restart.  *)
PositionsAgree == writePosition = linear % size

(* A packet is a whole number of milliseconds long and the packets fill    *)
(* the buffer: the interval has lost nothing to the two divisions.         *)
WholeInterval == Rate * interval = PacketSize * MsPerSecond /\ PacketSize * count = size

(* A packet counted as completed has been fetched to its last byte: the    *)
(* two clocks with their three remainders never let the packet count get   *)
(* ahead of the bytes, through pauses and restarts, late callbacks and     *)
(* position queries in between, unless a stop has left time over in        *)
(* m_hnsDPCTimeCarryForward or the interval is not exact.                  *)
BufferCompletionIsReal == packetCounter * PacketSize <= linear

CompletedIsConsumed == clean /\ WholeInterval => BufferCompletionIsReal

(* With two packets or more, the part of the buffer that a running stream  *)
(* has just handed to the audio engine by accepting its packet holds       *)
(* nothing that is still to be fetched.                                    *)
AcceptedIsFree ==
  [][ writer # NoCall /\ writer' = NoCall /\ ksState = "RUN" /\ step = "none"
        /\ clean /\ WholeInterval /\ count > 1
      => (ExpectedPacket + 1) * PacketSize <= linear + size ]_vars

(* "Not to read data beyond EOS position": whatever the position was when  *)
(* the end of the stream was announced, and however often the timer fires  *)
(* or the position is asked for, fetching stops at the announced byte --   *)
(* unless that byte is the last of the buffer.                             *)
EosRespected == eos /\ ~capture => linear <= eosAt

NothingPastEos == currentWrite < size => EosRespected

(* The clock is read before the buffer has gone round: not even with what  *)
(* both remainders of an earlier reading add does an update overtake a     *)
(* position from behind.                                                   *)
MostMs == (MaxLag + HnsPerMs - 1) \div HnsPerMs

LagBelowBuffer ==
  \A request \in Requests : request >= BlockAlign =>
    Rate * MostMs + MsPerSecond - 1 < MsPerSecond * RoundedSize(request)

(* ReadBytes and WriteBytes: an update at this moment hands on exactly the *)
(* bytes the position moves over, in order and once, whatever the size of  *)
(* the displacement and the number of times it wraps, though the offset is *)
(* computed from the linear position and the move from the other one.      *)
Slots(run) == [i \in 1 .. run.length |-> run.offset + i - 1]

FetchedOnce ==
  FlattenSeq([i \in DOMAIN HandedOn |-> Slots(HandedOn[i])])
    = [i \in 1 .. Displacement |-> (writePosition + i - 1) % size]

(* Between a pause and the next start no timer callback is on its way to   *)
(* the stream: SetState returns only when the queued ones have run.        *)
QuietWhenPaused == Rest /\ ksState # "RUN" => ~armed /\ ~dpc

(* A running stream whose end has been announced gets there: the last      *)
(* buffer is reported and the timer cancelled, or the stream is paused.    *)
LastBufferSignalled ==
  eos /\ currentWrite < size /\ ksState = "RUN" ~> ~armed

=============================================================================
