# Verification of the RifeZ audio bridge

The bridge sends the sound of a Windows PC to an Android phone over Wi-Fi. This
directory holds TLA+ models of its stateful parts, the TLC configurations that
check them, and TLAPS proofs about all of them. Every definition is translated
from the sources; `PROJECT.json` gives, for each definition, the lines it stands
for, for each property a slip of the code that breaks it, and the list of
hazards the properties are aimed at.

Paths below are relative to the repository. `windows/tray-app/RifeZPhoneBridge.`
is shortened to `~`.

## 1. The system

| Part | State | Operations | Interacts through | What is hard |
|---|---|---|---|---|
| Driver ring (`RifeZPcmBuffer.cpp`, `RifeZPcmService.cpp`) | buffer, two offsets, a count, `Initialized`, a spin lock, two one-shot flags | initialize, write, read, reset, query | render streams write from a timer, clients read with IOCTLs | concurrent loops over three numbers; initialisation while in use; a failed allocation |
| Render stream (`minwavertstream.cpp`) | DMA position, linear position, packet count, three remainders, timer | init, set state, timer, `UpdatePosition`, `ReadBytes`, packet and write position calls | hands bytes to the ring and to the saver | two clocks with remainders of their own, wraps, a timer beside `SetState` |
| Data saver (`savedata.cpp`) | buffer of frames, flags, work items, file | write, disable, worker callback, wait | called by the stream, served by system threads | items and frames that run out, what survives a stop |
| Control device (`RifeZControlDevice.cpp`) | device object | three IOCTLs | reads the ring | exists before the ring does |
| `~Host` `BridgeHost`, `BridgeCommandService`; `~App` `BridgeAppController` | `CurrentState` record, `_streamTask`, `_streamCts`, `_activeConfig`, a gate | Initialize, Start, Stop, Shutdown, Reconnect; the stream task | the menu, a timer, the phone's two servers | tasks that outlive their stop, unlocked read-modify-write of the state, state tested by one layer and the task by another |
| `ReceiverSessionManager`, `FlatBufferHelloClient` | the control client | resolve, connect with retries, configure, disconnect | TCP 49522 | requests without a timeout |
| `AudioStreamingCoordinator`, `AudioPcmClient` | `_activeClient`, a TCP client | run, abort, send loop | TCP 49523 | one slot for the client, two tasks that may use it |
| Audio sources (`~Capture`, `~Host/Sources`) | bounded capture buffers | start, read a frame | the stream task | `ReadFrame` that loops while nothing plays |
| Tray (`~App/TrayApplicationContext.cs`) | armed timer, command-running flag | menu items, warm start, timer, exit | `BridgeAppController` | dropped commands, a late first attempt, a cached address, exit beside a running command |
| Driver companion (`~DriverCompanion`) | ring, producer | start, stop, read | driver IOCTLs, named pipe | a stop that gives up, a restart beside the old loop |
| Android service (`ReceiverForegroundService.kt`) | `recoveryInProgress`, `manualSessionDisconnectInProgress` | start, stop, disconnect, recycle | owns the servers and their callbacks | a recycle run by the coroutine it cancels, or by the main thread; a start of the running service beside it |
| Android servers (`FlatBufferHelloServer.kt`, `AudioPcmServer.kt`) | server socket, client socket, job, flag; output, `playbackActive` | start, accept, serve, stop | the PC, the service | successive coroutines, a recycle and a restart share the fields of one object without a lock; `stop()` does not wait |
| State repository (`ReceiverStateRepository.kt`) | one `StateFlow` | some twenty updates | everyone writes, the UI reads | unlocked read-modify-write |
| Wire formats | - | length prefix, FlatBuffers, PCM header | both ends | framing |
| Discovery, UI, settings, metrics, logging, installers, SYSVAD sample code | - | - | - | - |

What makes each part correct:

- **ring**: a client gets a contiguous run of what was written, oldest first;
  only the oldest bytes are lost; the lock always comes free; the ring is built
  once.
- **stream**: the two positions are one place; no packet counts as played before
  its bytes are fetched; nothing is fetched past an announced end; no callback
  outlives a pause.
- **saver**: no byte is saved twice; a frame in use is on its way to the file and
  comes free; nothing is under way for a stopped stream.
- **host**: one sender at a time; an abort reaches the socket in use; a stop
  ends, and ends its stream; every command leaves a state from which menu and
  timer can act; Streaming and a live task go together; Idle holds nothing.
- **tray**: a stopped stream stays stopped; the timer ends in a stream; a command
  can hang on nothing but a silent receiver.
- **receiver**: a loss of the session ends in two servers that accept again; a
  listening socket always has an accept loop; the live client of a server is the
  one its field names, so that a stop can sever it; an `AudioTrack` does not outlive
  its session, nor is it lost to an older one.

## 2. Modules

| Module | Models | Lines it stands for |
|---|---|---|
| `PcmFifo` | the promise of the ring: one bounded queue, whole operations at once, drop-oldest | abstract |
| `DriverRing` | the ring's operations, one step per loop iteration, under the spin lock; refines `PcmFifo` | `RifeZPcmBuffer.cpp`, `RifeZPcmService.cpp`, the IOCTL dispatch, `ReadBytes` as the caller |
| `DriverRingProofs` | the inductive invariant of `DriverRing` | |
| `DriverFifoProofs` | that every step of `DriverRing` is a step of `PcmFifo` or a stutter | |
| `DriverStartup` | `DriverRing` from driver load on: one-shot flags, failing allocation, `Initialized` before `KeInitializeSpinLock`, streams opened and closed; refines `PcmFifo` until a held lock is re-initialised | `CMiniportWaveRTStream::Init`, `RifeZPcmBufferInitialize` |
| `DriverStartupProofs` | the invariant of the one-shot flags, the ring's own from the moment it exists, and the refinement of `PcmFifo` from driver load on | |
| `DriverStream` | a WaveRT stream: positions, packets, timer, end of stream | `minwavertstream.cpp`, `MiniportStreamAudioEngineNode.cpp` |
| `DriverStreamProofs` | its inductive invariant, a second one for the end of the stream, and what the loop of `ReadBytes` hands on | |
| `SaveData` | frames, work items, worker threads, stop | `savedata.cpp` |
| `SaveDataProofs` | its inductive invariant, and a second one for the bytes of the file | |
| `BridgeHost` | commands under the gate, and stream tasks | `BridgeHost.cs`, `BridgeCommandService.cs`, `BridgeAppController.cs`, coordinator, PCM client |
| `BridgeHostProofs` | its three inductive invariants | |
| `Tray` | the tray application around `BridgeHost`, which it extends | `TrayApplicationContext.cs`, and the address and the silence of the receiver |
| `TrayProofs` | that the tray application refines the host, and what a Stop means to it | |
| `ReceiverSession` | the Android service's recycle, its start while it runs, and the generations of its two servers | `ReceiverForegroundService.kt`, `FlatBufferHelloServer.kt`, `AudioPcmServer.kt` |
| `ReceiverSessionProofs` | its inductive invariant | |
| `MC...` | constants for TLC | |

### DriverRing

Threads are `Streams` (timer DPCs that call `RifeZPcmServiceWrite` with a chunk)
and `Clients` (IOCTL callers). A thread is outside, spinning on the lock, or
inside; `Acquire` does everything up to the loop (clamping a read to what is
buffered, `want`), `WriteByte`/`ReadByte` are loop iterations, `WriteDone`,
`ReadDone`, `ResetRing`, `QueryDone` leave the lock. A byte value is data: the
small set `Bytes` with a `Zero` for a cleared slot. Capacity (1 MiB) is a
constant. The lock is a real one: nothing in the model forbids two threads
inside but `Acquire`'s guard.

The refinement reads the state as a queue. A write, read or reset takes effect
in `PcmFifo` when the lock is **acquired**: while the lock is held the abstract
queue is the one the operation will leave behind (the rest of the chunk appended
and the overflow cut off; the bytes a reader has still to copy removed), so the
loop iterations are stutters.

### DriverStartup

Adds, per stream, closed / building / published / open, and the two history
variables `failed` (the allocation has failed) and `reinit`
(`KeInitializeSpinLock` hit a held lock). The two one-shot flags of the source
are one, `built`: the second is set only on the way through the first.

### DriverStream

`UpdatePosition` computes how many bytes a DMA engine would have moved since the
last call, from whoever asks: `GetPosition`, the packet calls, a pause, the
timer. The timer, once a millisecond, counts packets from another time stamp.
Each division leaves a remainder that is carried forward (`hnsCarry`,
`byteCarry`, `dpcCarry`). Time stamps are kept as the time since they were taken
(`sinceDma`, `sinceDpc`), and `Tick` ages both. Bodies under
`m_PositionSpinLock` are one step. `SetState` takes no such lock: it is two
steps to RUN (`StartDma`, `EnterRun`) and three to PAUSE (`CancelTimer`,
`FlushDpcs`, which waits for a queued callback, `EnterPause`),
and `SetWritePacket`, which lets go of the lock in the middle, is two
(`writer` holds the count it has read). A pause in the middle of a packet leaves
the packet count behind, so the packet under way is asked for again; that is
the code's (`minwavertstream.cpp:1050`). The buffer's geometry is chosen in
`Init` as `AllocateBufferWithNotification` computes it. Presentation positions,
the ETW events, keyword pins, and the sideband calls of `SetState` are left out;
a displacement of the buffer's size or more is not reached within the bounds.

`clean` and `eosAt` are history variables. Two promises are not unconditional in
the code and are named parts of the properties: `BufferCompletionIsReal` fails
when a STOP, which resets the positions and the packet count, leaves time over in
`m_hnsDPCTimeCarryForward`, and `EosRespected` fails when the end is the last byte of the
buffer: the position wraps to 0 and never equals it
(`minwavertstream.cpp:1453`-`1457`).

### SaveData

`WriteData` is one step: the stream holds its position lock around it. A worker
takes an item from the queue (`Dequeue`), writes the file and frees the frame
under the mutex (`SaveToFile`: any of open, write, close may fail, the frame is
freed either way), then sets the item's event (`SetDone`). `BeginStop` is the
first half of `WaitAllWorkItems`, `EndStop` the wait. Bytes are numbered as they
are taken, so that a byte saved twice shows. The wave header is not part of
`file`. The component is off unless the registry says otherwise
(`g_DoNotCreateDataFiles`, `adapter.cpp:254`).

### BridgeHost

The gate admits one command at a time, so there is one `command` with a `step`;
`Reconnect` is a shutdown, then a start. Stream tasks are the elements of
`Tasks`, several because a stop gives up after three seconds and the next start
launches another beside the abandoned one. A task's body is: dequeued, open the
source, `SetState` Streaming in its two halves (read the record, write it back),
register with the coordinator, connect, send loop (check the token, read a
frame, write it), leave the coordinator, act on the outcome, and in an error
again the two halves of a `SetState`. The command's own `SetState` calls are
one step: what a task would write between the halves is overwritten, as if it
had been written before. The receiver answers, refuses or breaks any exchange.

`SourceStalls` says whether the source may hold a task for longer than the stop
waits. It is a real behaviour: `WasapiLoopbackPcmSource.ReadFrame` loops until
the loopback device has captured a frame, and Windows delivers nothing while
nothing plays. With the driver-companion source, which answers silence, it is
false.

### Tray

All of it runs on the UI thread, so an event is a step; commands are awaited, and
the host's steps and other events come in between. `_commandInProgress` admits
one command (`Run`; others are dropped without a word). The module adds to the
host's steps what the tray knows of the receiver: `cached` (the options hold the
host of an earlier session, and the discovery is skipped), and `receiver`, which
may move or fall silent. `Fault` bounds how often something fails by chance.
The Initialize item is created and never put into the menu, so nobody clicks it.
The exit, after which the process ends within two seconds, is left out.

### ReceiverSession

Each server is one Kotlin object that `start()`/`stop()` reuse, and a
*generation* is one coroutine launched by `start()`. `flag`, `listener`,
`client`, `job`, `scope`, `output`, `playback` are the fields of the objects,
shared by all generations; `pc`, `on`, `conn`, `track`, `thrown`, `expected`,
`bound` belong to a generation (a socket or an `AudioTrack` is named by the
generation that created it). A `Gens` element is used again when nobody refers
to it.

No lock guards the fields, and up to three kinds of threads work on them at
once: generations, the thread that runs a recycle, and the main thread in
`startReceiverService`. A step is therefore **one access to one field**, with the
call made through the value read. `serverSocket?.close(); serverSocket = null` is
`CloseListener`, then `ClearListener`; `scope = CoroutineScope(...); serverJob =
scope?.launch {...}` is `NewScope`, `Launch`, `StoreJob`; `serverSocket =
ServerSocket(port)` is `Bind`, then `Store`; `serverSocket?.accept()` is `Fetch`,
then `Accept`; the identity test of a `finally` and the assignment after it are
`Forget` and `Clear`; `output?.stop()` and `output = null` are `Silence` and
`Discard` in a generation, `StopTrack` and `ClearOutput` in a `stop()`. A stopper,
`"recycle"` or `"restart"`, runs the same lines of `stop()` and `start()`, with a
`line` of its own; the servers it calls one after the other are in `step` and `main`.

Two places are coarser. `Report` reads `manual` and `recovery` in one step,
where the code reads the one and then takes the lock of the other. A generation
that finds `manual` false and then `recovery` false behaves as if it had read
both at its first read, or, when a whole recycle has passed in between, at its
second. `HearDisconnect` sets the flag, answers, and lets
the PC close, since the PC closes on the answer.

The model is sequentially consistent, which is an assumption: `serverSocket`,
`serverJob`, `scope` and `output` are plain fields (the two client sockets, the flags
and `playbackActive` are `@Volatile`), so a thread may in principle read an older
value of them than the model lets it.

An exception on its way out of the session (`thrown`) goes through the same
`finally`; a `SocketException` then ends the generation in silence, any other
goes through `Report` a second time, from the outer `catch`.

At this grain some promises do not hold of the code, and `mishaps`, a history
variable, records for each server when one of four things has happened:

| Mishap | What has happened | What it may lead to in the code |
|---|---|---|
| `bind` | a `ServerSocket` was stored after a stop had looked for it, or by a generation cancelled before or between bind and store | a listening socket without an accept loop, a successor whose bind fails in silence |
| `end` | a generation that was not cancelled has ended with an exception (a DISCONNECT whose answer cannot be sent; a `SocketException` while a stale `manual` holds the recycle back) | no accept loop, and a socket nobody closes |
| `client` | a client was stored between another thread's look at the field (`close()`, the identity test) and that thread's own assignment of it | a live client no field names: a stop does not sever it |
| `output` | the same of the `AudioTrack` | a track that is dropped without being stopped |

Each property names the mishaps it does not survive (`Unharmed`), and no more:
everything else that happens in the same behaviour is inside it. A mishap of one
server does not excuse the other.

`MainActivity.onCreate` sends ACTION_START whenever the activity is created
(`Reopen`). The running service then starts both servers (`RestartStep`, on the
main thread), outside the lock that keeps recycles apart, so it may cut into a
recycle between any two accesses. ACTION_STOP has a handler and no sender.

The PC is the environment: it connects to a port that is open, sends
DISCONNECT, closes, or vanishes. A behaviour belongs to one of `Scenes`, a
record of what may happen in it: `servers` (the servers looked at; the steps of
a recycle skip the other), `pcVanishes`, `sessionsThrow`, and `acts`, how often the PC
connects, the user disconnects and the activity comes back.

## 3. Runs

Deadlock is checked in every run but `savedata`, where a stream that is closed is
the end, and those of the receiver, which rests in `accept()` once the scene's
acts are used up.

| Run | Instance | Distinct states | Shows |
|---|---|---|---|
| `ring` | 2 streams, 1 client, 3 slots, chunks of 1, 2 and 4 bytes over 2 values, requests of 1 and 3 | 345,528 | `TypeOK`, `OffsetsAgree`; `ImplementsFifo` (refinement); `LockReleased` (liveness) |
| `startup` | 2 streams, 1 client, 2 slots | 197,637 | `SoundUnlessReinitialised`, `RinglessOnlyAfterFailure`, `RingBuiltOnce`; `FifoUnlessReinitialised` (refinement) |
| `stream` | 2 packets in 6 bytes | 1,185,833 | `TypeOK`, `CompletedIsConsumed`, `NothingPastEos`, `QuietWhenPaused`, `FetchedOnce`, `AcceptedIsFree`, `NoDrift`; `LastBufferSignalled` (liveness) |
| `savedata` | 2 frames of 2 bytes, 4 items, 2 workers | 272,286 | `TypeOK`, `OffsetInFrame`, `InUseIsPending`, `SavedOnce`, `StoppedIsQuiet`; `FramesReturn` (liveness) |
| `host` | 2 tasks, source answers | 15,561 | `TypeOK`, `StreamingIsLive`, `AbortReachesSender`, `StoppedIsOver` |
| `host_stall` | 2 tasks, source may stall | 919,043 | `OneSender`, `NeverLockedOut`, `IdleHoldsNothing`; `StopReturns` (liveness) |
| `tray` | 2 tasks, source answers, 2 faults | 244,701 | `StopSticks`; `CommandsEnd`, `RestoreEnds` (liveness) |
| `receiver` | 3 generations, each server alone: two audio sessions with a Disconnect between them; two sessions with exceptions (and, in the control server, a PC that vanishes); a control session with these and a Disconnect; a session with a restart | 825,904 | `TypeOK`, `ListenersServed`, `ServersUp`, `ClientKnown`, `OutputReleased` |
| `receiver_live` | 3 generations, each server alone: two sessions, or one and a Disconnect | 61,993 | `Reconnectable`, `RecycleEnds` (liveness) |
| `host_race`, `receiver_vanish`, `receiver_output` | as their passing runs | - | one documented promise each that the code does not keep (section 5) |

Why the bounds are enough to be worth checking:

- `ring`: the chunks are shorter than, and longer than, the ring, so a write
  overwrites others' bytes and its own; three slots make the offsets wrap at
  every phase; two writers and a reader contend for the lock. One client
  suffices because clients differ only in the private `out`; the proofs hold for
  any number.
- `startup`: two streams race for the one-shot flag; the client polls from
  before the ring exists.
- `stream`: units are scaled (a rate of 3 bytes in 2 "ms", each of 2 "hns"), so
  that bytes, milliseconds and clock ticks do not divide one another and every
  remainder is met; a callback may be one unit late, the clock may be read after
  up to five, and the stream runs past a whole buffer, with ends inside a
  packet, at its boundary and at the end of the buffer. A displacement can span a packet and
  wrap, but not go round the buffer; the MC module has this as an assumption
  (`ClockIsRead`), which TLC evaluates. `MaxLinear` stops the clock, except on the way to an announced end.
- `savedata`: the smallest numbers with `Items >= Frames + Workers`; the code has
  4 frames, 8 items and whatever number of threads Windows gives the critical
  work queue. Writes of one and two bytes end before, at and behind the end of a
  frame, in the middle and at the end of the buffer. With fewer items than
  that a full frame may find none, and is then marked for good; the hazards say
  so, and the properties state the condition. Nine bytes go through the buffer
  twice.
- `tray`: two faults suffice for a start that fails and a retry that fails; a
  stalled source and the tasks a stop gives up on are in `host_stall`. With
  `AutoStartStreaming` off the timer only initialises the host and never sees
  the Streaming that disarms it; only TRUE is checked.
- `host`, `host_stall`: one task given up on and one successor is the smallest
  instance in which the two meet. `Tasks` is also a limit: a start for which no
  task is free waits. The proofs are for every `Tasks`.
- `receiver`: one generation that ends late and its successor is the smallest
  instance in which two share the fields; a third is the one that a restart
  launches beside a recycle's. A launch for which no generation is free waits;
  that is a restriction of the instance. One server at a time: the servers meet
  only in the recycle, the restart and two flags of the service. With both, with
  exceptions beside a restart, or with more sessions in one behaviour, the steps
  of this grain are beyond TLC here and are what section 6 proves: the theorems are about every
  scene and any set of generations. The PC vanishes from the control server only,
  whose callback precedes a recycle in the same way, and whose reads are the ones
  that never end. The run is reduced by symmetry: a `CHOOSE` takes one of several
  unused generations, which nothing tells apart, and the run has no liveness
  property.
- `receiver_live`: no restart and no exceptions; sessions end by the PC, a
  DISCONNECT, a recycle or the button. Three generations, so that a recycle may
  start another while two older ones are still in their `finally`.

### Fairness

- `DriverRing`: weak fairness of a thread that is inside: at `DISPATCH_LEVEL`
  nothing but its own code stops it. None for spinning threads: the spin lock
  promises no order, and no caller is obliged to call.
- `DriverStream`: time passes, an armed timer fires, a queued callback runs. None
  of the audio engine's calls.
- `SaveData`: the work queue is served, a worker goes on, the wait ends when all
  events are set. None of the stream.
- `Tray`: timers fire and continuations run; a task takes its steps; a command goes
  on unless it awaits an answer of a silent receiver (`AwaitsReceiver`: HELLO,
  configuration, START_STREAM, and the DISCONNECT of a shutdown or of the `catch` of
  a failed Initialize, `BridgeHost.cs:95`, none of which has a timeout). None of the user, the
  network's failures or the receiver's whereabouts.
- `BridgeHost`: weak fairness of the stop routine (its timer fires) and of a
  task whose token is cancelled, since its awaits then end whatever the receiver
  does. None of a `ReadFrame` that may stall, none of the user, none of the
  receiver's answers (the control client has no timeout).
- `ReceiverSession`: weak fairness of each generation (`Dispatchers.IO` runs
  it), of the main thread's callback, of the recycle and of the service's start. None of the PC and the
  user, so a session may last for ever, and must not be needed to end.

## 4. Properties worth a word

- `OffsetsAgree`: write offset = read offset + live bytes modulo capacity, at
  every loop iteration, where "live" discounts what a reader has copied and not
  yet subtracted.
- `SoundUnlessReinitialised` states the one way in which the late
  `KeInitializeSpinLock` can hurt: everything is sound until a client holds the
  lock at that moment. `FifoUnlessReinitialised` says the same of what a client
  gets: a driver without a ring is an empty queue to it, publishing the ring
  changes nothing it can see, and from driver load on every answer is one of
  `PcmFifo`, with that one step exempted.
- `CompletedIsConsumed`: the packet count, which the engine trusts, comes from one
  clock with one remainder, the bytes from another with two. Nothing in the code
  compares them. `AcceptedIsFree` is the same hazard from the other end: the
  count that `SetWritePacket` has read is stale when it sets the position.
- `FetchedOnce`: the offset of `ReadBytes` is computed from the linear position,
  its length from the other; what is handed on must be the moved-over bytes in
  order, however often they wrap. Where bytes are moved it implies that the two
  positions agree (`PositionsAgree`, a theorem).
- `NoDrift`: bytes moved and bytes due are equal to the last remainder, however
  often and by whomever the clock is read, since what one division leaves over
  is carried into the next. In the code this holds while the 32-bit products of
  `UpdatePosition` do not wrap: at 192,000 bytes a second, when the clock is read
  at least every 22 seconds. The timer of a running stream does so once a packet.
  The model's numbers have no width; `MaxLag` is far below that.
- `InUseIsPending` needs an argument about counting: a worker frees the frame
  before the item, so a new frame may be full while both are busy.
- `SavedOnce` names the two ways in which the code does save a byte twice or
  overwrite one that waits: what runs over into a frame still in use, and the
  partial frame of a stop, which is saved again when it is full.
- `StopSticks`: stop disarms the timer, but the first attempt after the launch
  comes three seconds later whatever the user did in them.
- `RestoreEnds` lists what keeps the armed timer from its stream: a silent
  receiver, one that has moved from the cached address, and a record without an
  endpoint that a failed task has written over the new one.
- `OneSender` in `host_stall` is the one that needed thought: abandoned tasks
  are alive beside their successor, and only the order of cancel, dispose and
  registration keeps them off the wire.
- `ListenersServed`, `ServersUp`: the recycle's early return, the flag that
  `stop()` sets and `start()` clears before a late `finally` reads it, and the
  `manual` flag that an early return leaves set all lead to a recycle too many or
  one too few. A restart beside the recycle cancels the other's job and scope,
  launches into a scope that is gone, or finds the port taken. Both servers still come
  back, because the stopper that ends last has launched after its own stop; the
  exceptions are the mishaps `bind` and `end`.
- `ClientKnown`: a client that a stop has passed by, between its `accept()` and
  the field, is served by a cancelled generation; only the identity test of the
  older `finally` (`Forget`) keeps its name in the field, where the next stop
  finds it. Between that test and the assignment (`Clear`) it is not safe: `client`.
- `OutputReleased` is about the `AudioTrack` itself, not the field that names it.
  A session's `finally` stops whatever track the field holds, so a track is only
  released because nobody has taken the field from it without stopping it.
- `CommandsEnd` has the silent receiver on its right-hand side, in every place
  where the code awaits it: the command hangs there until the receiver's TCP
  connection breaks.

## 5. What the code does not keep

| Run, property | Promise | What happens |
|---|---|---|
| `host_race`, `SendingIsPublished` | `TrayApplicationContext.cs:173` "Stop retrying once streaming is active." | a second Start meets the failure of the first stream between two tests; the new stream runs while the host waits for a receiver and retries |
| `receiver_vanish`, `Reconnectable` | `docs/ARCHITECTURE.md:172,182` recovery after session loss | no read timeout: after a power cut the control server stays with the dead connection, and the PC that returns waits in the backlog |
| `receiver_output`, `KeepsOutput` | `docs/ARCHITECTURE.md:173` proper reconnect after manual disconnect | the late `finally` of the old audio generation stops the new session's output |

## 6. Proofs

All proofs are checked by TLAPS and hold for every value of the constants. Assumed
of them is `RingAssumption`, `StreamAssumption`, `SaveDataAssumption`,
`HostAssumption`, `TrayAssumption` and `ReceiverAssumption`: types, sizes that
are not zero, and markers such as `None` that are not elements of the sets they
mark. `ReceiverAssumption` also has `Gens # {}`, since the service is modelled from
the launch of its first generation on. Beyond that, three theorems on the host and
`TrayStopSticks` suppose a source that answers (`SourceStalls = FALSE`), and one on the
stream a clock that is read in time (`LagBelowBuffer`); each is stated as a
hypothesis of its theorem and explained there.

Each invariant that strengthens a property was model-checked before it was
proved. A theorem `Spec => []P` comes from an inductive invariant; what follows
is why `P` alone is not one.

### `DriverRingProofs`

`RingTypeCorrect`, `RingMutualExclusion`, `RingOffsetsAgree`. `OffsetsAgree` is
not inductive: the end of a read subtracts `want`, which is right only because
the reader has taken exactly `want` bytes (`LoopsBounded`), is the only one
inside (`LockOwned`), and is a reader (`Roles`). `IInv` is the conjunction with
`TypeOK`; each operation has its lemma. The modulo of the loops is replaced by a
conditional reset (`AdvanceWraps`), which the SMT solver handles.

### `DriverFifoProofs`

`RingImplementsFifo`: the ring, byte by byte, refines the atomic queue `PcmFifo`.
The operation takes effect when the lock is acquired; from then on the abstract
queue is the one it will leave behind. Initial states map to initial states
(`InitMaps`), and each step to a step of the queue or a stutter (`NextMaps`):
`Acquire` to the write, read or reset, every iteration of a loop and every release of
the lock to a stutter. `FInv` adds to `IInv` what a caller brought with it
(`Calls`). The rest is about sequences: the live bytes of the buffer are a
*window* (`IsWindow`), which is unique, grows at its end when a byte is stored
and shrinks at its front when one is overwritten or taken, wraps included; and
a queue that is too long keeps its newest bytes when it loses its oldest one
(`NewestOfTail`). `PcmFifo` states no fairness, so the refinement is all of its specification.

### `DriverStartupProofs`

`StartupBuildsOnce`, `StartupSound`, `StartupRinglessOnlyAfterFailure`. `FlagsInv`
says who may be building: at most one stream is between the won exchange and the
end of `Init`, while it allocates there is no ring, and if there is none later
that one attempt has failed. `StartupInv` adds that nobody is inside the ring
before it is published (`Idle`), and that from then on `FInv` of the ring holds
until `KeInitializeSpinLock` hits a held lock. All operations of the ring keep `FInv`
by the lemmas of `DriverRingProofs` and `DriverFifoProofs`.

`StartupImplementsFifo` carries the refinement back to driver load: as long as
there is no ring the abstract queue is empty (`EmptyQueue`), a reader that is
turned away is the read of an empty queue (`IdleMaps`), and building, publishing,
opening and closing are stutters (`StartupStepMaps`); the operations of the ring map
by `NextMaps`. The theorem has no hypothesis; the exempted step is in the property.

### `DriverStreamProofs`

`StreamTypeCorrect`, `StreamPositionsAgree`, `StreamCompletedIsConsumed`,
`StreamQuietWhenPaused`, `StreamAcceptedIsFree`, `StreamNothingPastEos`,
`StreamFetchedOnce`, `StreamNoDrift`.
`CompletedIsConsumed` is not inductive, since the two clocks round at different
moments. `Paced` compares them in whole milliseconds: there is a number of
milliseconds fetched, and all the time the timer has counted, in packets and in
its carry, lies within them. `WriterBehind` carries the count of a
`SetWritePacket` under way, `TimerInStep` says in which steps of `SetState` the
timer may be armed or queued. The quotients are handled by lemmas on division
(`DivMod` ... `DivBelow`) that the solver proves once.

`NothingPastEos` compares the linear position with the end, but the code cuts by
offsets in the buffer. `EndAhead` ties them: the end is where the offset it was
announced at comes up next. An update keeps that true if it moves by less than
the buffer. Otherwise it may go round and past an offset that was behind it, and
the code does not notice. So the theorem has the hypothesis `LagBelowBuffer`: the
longest time between two readings of the clock (`MaxLag`), with both remainders
of the earlier readings, is worth less than the buffer. In the code the timer
reads the clock every millisecond once the end is announced, and once a packet
before that.

`FetchedOnce` compares the loop of `ReadBytes`, a recursive function of the bytes left and
the offset (`Fetch`), with the slots of the bytes the position moves over
(`Slots`), and takes no bound on the displacement. Everything about it takes an
induction over the bytes, and the library's induction theorems, which have an
operator as a parameter, cannot be used. The induction is therefore by the least
counterexample: the set-based `WFMin` gives every non-empty set of naturals a
least element (`LeastNatural`), so a set closed under "all smaller ones are in
it" has no counterexample (`NoCounterexample`). The set may be that of the
lengths at which a function restricted to fewer bytes is defined, which yields
the defining equations of the loop (`LoopDefined`) and of `FlattenSeq`
(`FlattenDefined`). Then one run and the rest of the loop `Covers` the
displacement (`LoopCovers`), and the runs in order are a `Stretch` of
consecutive offsets modulo the buffer (`CoveredFlattens`). `PositionsAgree` puts its
start where the bytes are.

`NoDrift` rests on both divisions being exact with their remainders
(`UpdateKeepsProgress`), and on `TimerInStep` for the start of the timer, which sets the
time stamp of a stream for which no time has passed.

### `SaveDataProofs`

`SaveTypeCorrect`, `SaveOffsetInFrame`, `SaveInUseIsPending`,
`SaveStoppedIsQuiet`, `SaveSavedOnce`. For a full frame to find an item: in a
running stream the items queued or waiting are for different marked frames
(`PendingApart`), none of them the current one, so there are fewer than
`Frames`; each other item in use keeps a worker thread (`WorkersBounded`). The
queue holds each queued item once (`QueueOK`), so a `Dequeue` takes one away.

`SavedOnce` needs to know what is still to be saved. A cell of the buffer is
*live* if its frame waits for a worker or it is in the filled part of the
current one. `OnceInv` says that live cells hold different bytes (`LiveApart`),
none of which is in the file (`LiveUnsaved`), and that only whole frames wait,
each with one item (`WholeFrames`). The next byte has a number above all others
(`Numbered`), and is stored in a cell that is not live because a stream waits in
front of a frame in use with nothing in it (`WaitsInFront`); that is what a
spill or a partial save breaks.

### `BridgeHostProofs`

`HInv`, whatever the source does, gives `HostTypeCorrect`, `HostOneSender`,
`HostNeverLockedOut`, `HostIdleHoldsNothing`. Its heart is `StraysCancelled`: a
live task the host has lost sight of has been cancelled first, and so has the
host's own from the abort on; a cancelled task cannot pass the token test again,
and its write is cut by the disposal. `QInv` on top of it, for
`SourceStalls = FALSE`, gives `HostStoppedIsOver` and `HostStreamingIsLive`: no
live task but the host's, and none survives the stop. `HostAbortReachesSender`
needs `OpenIsActive` as well: a task is the active client from before it
connects until its connection is cut, and by `QInv` no other registers over it.

### `TrayProofs`

`TrayImplementsHost`, whether the source stalls or not: every step of the tray
application is a step of the host or leaves the host alone
(`TrayStepIsHostStep`), so `HInv` and `QInv`, and every safety property proved of
`BridgeHost`, hold under it. `TrayStopSticks`, for a source that answers: `StopInv` follows a Stop from the click to its end: the
timer is off, the Stop is the host's last command, and if it returns at once
because the state is not Streaming, no task was left.

### `ReceiverSessionProofs`

`ReceiverTypes`, `ReceiverClientKnown`, `ReceiverOutputReleased`,
`ReceiverListenersServed`, `ReceiverServersUp`, `ReceiverStopFreesPort`, in every
scene, with both servers, exceptions and restarts, and for every set of
generations, finite or not: the scenes TLC cannot explore. There is no
hypothesis; the mishaps are part of the properties.

`SessionInv` is a conjunction, and each part says where the threads that share a
field are when it holds a certain value.

- `Types`, and `LineInv`: a stopper in the middle of a `stop()` or `start()` is in
  that of a server that is looked at.
- `ClientInv`: from `Claim` to the end of the read, a generation with an open
  connection is the one in the field, and no other generation or stopper is between
  its own look at the field and its assignment, unless the mishap is recorded.
  Without the second half a `Clear` that follows an old look would break the first.
- `OutputInv`: the same for the track: while it is live the field names it, its
  session is on its way to `Silence`, and nobody is between `output?.stop()` and the
  assignment that follows it (`OutputHeld`).
- `SocketInv`: `GenOk` places the generations on the way to their first
  `accept()`; of these none has been cancelled between bind and store, and an open
  `ServerSocket` that has been stored is the one in the field and no stop has
  passed it by (`SocketOk`, until `bind`); its generation is not cancelled, not over,
  and in `accept()` waits on that very socket and not on one of the past
  (`LoopOk`, until `bind` or `end`).
- `UpInv`: a server has an open socket or a generation about to bind one, or some
  stopper has yet to finish a start of it (`UpOk`); a scope that is not active belongs to a
  stopper on its way to a new one (`ScopeOk`), so a launch into a null or
  cancelled scope is never the last.

`ReceiverStopFreesPort` is an action property: the `close()` of a stop leaves no
open `ServerSocket` except one whose generation has yet to store it, unless `bind`
has happened. So a socket that no field names comes from that mishap alone.

### Only model-checked

- Liveness (`LockReleased`, `LastBufferSignalled`, `FramesReturn`, `StopReturns`,
  `CommandsEnd`, `RestoreEnds`, `Reconnectable`, `RecycleEnds`): fairness and
  `ENABLED` are outside the prover.

Every other property of a passing run is a theorem.

## 7. Plan

In this order; 1 to 5 exist.

1. *Ring*: `PcmFifo`, `DriverRing`, `DriverStartup`, proofs and both refinements.
2. *Host*: `BridgeHost`, proofs. Next: what survives of `StreamingIsLive` with a
   source that stalls.
3. *Receiver*: `ReceiverSession`, with the service started while it runs, proofs.
4. *Stream*: `DriverStream`, `SaveData`, proofs.
5. *Tray*: `Tray`, proofs. Next: its exit beside a running command.
6. *Repository*: lost updates of the receiver's displayed state, the streaming
   time-out of the watchdog.
7. *Buffers*: playback queue, companion ring and producer, loopback clamp, as
   bounded drop-oldest or drop-newest queues next to `PcmFifo`.
8. *Wire*: length prefix and the order of control requests as pure operators.
9. *Session*: an abstract session (idle, connected, streaming) that both
   `BridgeHost` and `ReceiverSession` refine, and their composition.

## 8. Not modelled, and why

- The SYSVAD sample driver around the audio path, the APOs and WIL: vendored. They
  are nine tenths of the C and C++ lines of the repository (WIL's headers and the
  Bluetooth, USB and topology code of the sample), so the models stand for a
  small share of its lines and for most of the project's own control flow.
- The producer of the driver companion: no provider of the host starts it.
- A second `SetMaxWriteSize`, which would replace the saver's buffer: a stream
  allocates its buffer once.
- Sound: resampling, levels, pacing to the nanosecond; no decision depends on it.
- Metrics, settings, logs, start-up registration, user interfaces, installers:
  no control decision reads them, except `LastReceiverHost` (a hazard).
- mDNS: a discovery finds a receiver or none.
- The legacy text protocol (`ReceiverTcpServer`, `TcpPhoneClient`): the tray does
  not use it. The recycle stops and starts it between the two servers; it shares
  no state with them.
- `BridgeHost` treats the retry ladder of the control connection as one step
  with two outcomes.
