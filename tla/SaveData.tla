------------------------------- MODULE SaveData -------------------------------
(***************************************************************************)
(* CSaveData of the kernel driver (sysvad/savedata.cpp): what a render     *)
(* stream plays is collected in a buffer of frames, and full frames are    *)
(* appended to a file by work items on system worker threads.              *)
(*                                                                         *)
(* WriteData runs under the position spin lock of the stream, one call at  *)
(* a time, and is one step.  The workers run beside it and beside each     *)
(* other; a mutex covers the file.  WaitAllWorkItems runs when the stream  *)
(* stops.  Bytes are numbered in the order they are taken; the wave header *)
(* is left out of the file.                                                *)
(***************************************************************************)
EXTENDS Sequences, FiniteSetsExt

CONSTANTS
  Frames,      \* m_ulFrameCount, 4
  FrameSize,   \* m_ulFrameSize, four times the DMA buffer
  Items,       \* MAX_WORKER_ITEM_COUNT, 8
  Workers,     \* threads that serve the critical work queue
  WriteSizes,  \* bytes handed to WriteData in one call
  MaxBytes,    \* bound: bytes taken
  MaxFile      \* bound: bytes in the file after which a stream is not restarted

ASSUME SaveDataAssumption ==
  /\ Frames \in Nat \ {0, 1}
  /\ FrameSize \in Nat \ {0}
  /\ Items \in Nat \ {0}
  /\ Workers \in Nat \ {0}
  /\ WriteSizes \subseteq Nat \ {0}
  /\ MaxBytes \in Nat
  /\ MaxFile \in Nat

VARIABLES
  stream,      \* the stream's state, as far as this object is concerned
  disabled,    \* m_fWriteDisabled
  taken,       \* bytes taken into the buffer: the number of the last one
  buffer,      \* m_pDataBuffer, the numbers of its bytes
  offset,      \* m_ulBufferOffset
  frame,       \* m_ulFrameIndex
  used,        \* m_fFrameUsed
  item,        \* m_pWorkItems: where each is, and what it is to save
  queue,       \* the work queue
  file,        \* the file's data, of which m_pFilePtr is the end
  spilled,     \* history: a write has run over into a frame in use
  partial      \* history: a stop has saved a frame that was not full

writer == <<stream, disabled, taken, offset, frame, spilled, partial>>
vars == <<writer, buffer, used, item, queue, file>>

FrameNumbers == 0 .. Frames - 1
ItemNumbers == 1 .. Items
Size == Frames * FrameSize

(* EventDone is set.                                                       *)
Done == [at |-> "done", frame |-> 0, bytes |-> 0]

(* SetMaxWriteSize and Initialize.                                         *)
Init ==
  /\ stream = "running" /\ disabled = FALSE
  /\ taken = 0
  /\ buffer = [c \in 0 .. Size - 1 |-> 0]
  /\ offset = 0 /\ frame = 0
  /\ used = [f \in FrameNumbers |-> FALSE]
  /\ item = [i \in ItemNumbers |-> Done] /\ queue = << >>
  /\ file = << >>
  /\ spilled = FALSE /\ partial = FALSE

-----------------------------------------------------------------------------
(* GetNewWorkItem and SaveFrame: the first item whose event is set.  If    *)
(* there is none the frame is not saved, and stays in use.                 *)

Free == {i \in ItemNumbers : item[i].at = "done"}

(* Slip: what is less than a frame takes an item and is not queued.        *)
SaveFullFrame(f, bytes) ==
  IF Free = {}
  THEN UNCHANGED <<item, queue>>
  ELSE /\ item' = [item EXCEPT ![Min(Free)] = [at |-> "queued", frame |-> f, bytes |-> bytes]]
       /\ queue' = IF bytes < FrameSize THEN queue ELSE Append(queue, Min(Free))

SaveFrame(f, bytes) ==
  IF Free = {}
  THEN UNCHANGED <<item, queue>>
  ELSE /\ item' = [item EXCEPT ![Min(Free)] = [at |-> "queued", frame |-> f, bytes |-> bytes]]
       /\ queue' = Append(queue, Min(Free))

(* The buffer with the bytes from number first on in n cells from start.   *)
Copy(cells, start, n, first) ==
  [c \in DOMAIN cells |-> IF c \in start .. start + n - 1 THEN first + (c - start) ELSE cells[c]]

Least(a, b) == IF a < b THEN a ELSE b

-----------------------------------------------------------------------------
(* WriteData.                                                              *)

(* Slip: the frame counts as full one byte late.                           *)
FullLate(end) == end > (frame + 1) * FrameSize \/ end = Size

(* The current frame is full when the copy ends at end.                    *)
Full(end) == end >= (frame + 1) * FrameSize \/ end = Size

(* Slip: a full frame is not marked.                                       *)
MarkNothing(full) == used

MarkUsed(full) == IF full THEN [used EXCEPT ![frame] = TRUE] ELSE used

(* The current frame is free.  What does not fit in front of the end of    *)
(* the buffer goes to its start if the next frame is free, or is dropped;  *)
(* what runs over the end of a frame elsewhere goes to the next one        *)
(* unasked.                                                                *)
Store(n) ==
  LET room == Least(n, Size - offset)
      end == offset + room
      full == Full(end)
      next == IF full THEN (frame + 1) % Frames ELSE frame
      start == IF end = Size THEN 0 ELSE end
      left == IF MarkUsed(full)[next] THEN 0 ELSE n - room
  IN  /\ buffer' = Copy(Copy(buffer, offset, room, taken + 1), start, left, taken + 1 + room)
      /\ taken' = taken + room + left
      /\ offset' = start + left
      /\ frame' = next
      /\ used' = MarkUsed(full)
      /\ IF full THEN SaveFrame(frame, FrameSize) ELSE UNCHANGED <<item, queue>>
      /\ spilled' = (spilled \/ (full /\ used[next] /\ end > (frame + 1) * FrameSize))

(* While the stream is disabled, or its current frame is in use, the bytes *)
(* are dropped.                                                            *)
WriteData ==
  /\ stream = "running" /\ ~disabled /\ ~used[frame]
  /\ \E n \in WriteSizes : taken + n <= MaxBytes /\ Store(Least(n, FrameSize))
  /\ UNCHANGED <<stream, disabled, partial, file>>

(* The rights of the content change.                                       *)
Disable ==
  /\ stream # "closed"
  /\ disabled' = ~disabled
  /\ UNCHANGED <<stream, taken, offset, frame, spilled, partial, buffer, used, item,
                 queue, file>>

-----------------------------------------------------------------------------
(* SaveFrameWorkerCallback, on one of the worker threads.                  *)

Threads == {i \in ItemNumbers : item[i].at \in {"waiting", "released"}}

MoveTo(i, where) == item' = [item EXCEPT ![i].at = where]

Dequeue ==
  /\ queue # << >> /\ Cardinality(Threads) < Workers
  /\ MoveTo(Head(queue), "waiting")
  /\ queue' = Tail(queue)
  /\ UNCHANGED <<writer, buffer, used, file>>

Content(i) == [k \in 1 .. item[i].bytes |-> buffer[item[i].frame * FrameSize + k - 1]]

(* Slip: a frame that could not be written stays marked.                   *)
FreeWhenWritten(i, written) == [used EXCEPT ![item[i].frame] = ~written]

FreeFrame(i, written) == [used EXCEPT ![item[i].frame] = FALSE]

(* Under the mutex: the file is opened, written behind what it holds, and  *)
(* closed, any of which may fail; the frame is free either way.            *)
SaveToFile(i) ==
  /\ item[i].at = "waiting"
  /\ \E written \in BOOLEAN :
       /\ file' = IF written THEN file \o Content(i) ELSE file
       /\ used' = FreeFrame(i, written)
  /\ MoveTo(i, "released")
  /\ UNCHANGED <<writer, buffer, queue>>

SetDone(i) ==
  /\ item[i].at = "released"
  /\ item' = [item EXCEPT ![i] = Done]
  /\ UNCHANGED <<writer, buffer, used, queue, file>>

-----------------------------------------------------------------------------
(* The stream: WaitAllWorkItems at the transition to STOP, and the         *)
(* destructor, which the port driver comes to from STOP only.              *)

(* Slip: counted from the start of the buffer.                             *)
FromTheStart == offset

(* What the current frame holds.                                           *)
Begun == offset - frame * FrameSize

(* The frame the stream stops in is saved as far as it goes; it is neither *)
(* marked nor left.                                                        *)
BeginStop ==
  /\ stream = "running"
  /\ stream' = "stopping"
  /\ IF offset > frame * FrameSize
     THEN /\ SaveFrame(frame, Begun)
          /\ partial' = TRUE
     ELSE UNCHANGED <<item, queue, partial>>
  /\ UNCHANGED <<disabled, taken, offset, frame, spilled, buffer, used, file>>

(* Slip: the items are looked at, and not waited for.                      *)
EndStopAtOnce ==
  /\ stream = "stopping"
  /\ stream' = "stopped"
  /\ UNCHANGED <<disabled, taken, offset, frame, spilled, partial, buffer, used, item,
                 queue, file>>

EndStop ==
  /\ stream = "stopping" /\ Free = ItemNumbers
  /\ stream' = "stopped"
  /\ UNCHANGED <<disabled, taken, offset, frame, spilled, partial, buffer, used, item,
                 queue, file>>

Run ==
  /\ stream = "stopped" /\ Len(file) < MaxFile
  /\ stream' = "running"
  /\ UNCHANGED <<disabled, taken, offset, frame, spilled, partial, buffer, used, item,
                 queue, file>>

Close ==
  /\ stream = "stopped"
  /\ stream' = "closed"
  /\ UNCHANGED <<disabled, taken, offset, frame, spilled, partial, buffer, used, item,
                 queue, file>>

-----------------------------------------------------------------------------

Worker(i) == SaveToFile(i) \/ SetDone(i)

Next ==
  \/ WriteData \/ Disable
  \/ Dequeue \/ \E i \in ItemNumbers : Worker(i)
  \/ BeginStop \/ EndStop \/ Run \/ Close

(* The work queue is served, a worker that runs goes on, the mutex is      *)
(* handed to who waits for it, and the wait ends when all events are set.  *)
Fairness ==
  /\ WF_vars(Dequeue)
  /\ \A i \in ItemNumbers : WF_vars(Worker(i))
  /\ WF_vars(EndStop)

Spec == Init /\ [][Next]_vars /\ Fairness

-----------------------------------------------------------------------------

Pending(i) == item[i].at \in {"queued", "waiting"}

(* Every variable keeps its type; no item saves more than a frame.         *)
TypeOK ==
  /\ stream \in {"running", "stopping", "stopped", "closed"}
  /\ disabled \in BOOLEAN /\ spilled \in BOOLEAN /\ partial \in BOOLEAN
  /\ taken \in Nat /\ offset \in Nat /\ frame \in FrameNumbers
  /\ buffer \in [0 .. Size - 1 -> Nat]
  /\ used \in [FrameNumbers -> BOOLEAN]
  /\ item \in [ItemNumbers -> [at : {"done", "queued", "waiting", "released"},
                              frame : FrameNumbers, bytes : 0 .. FrameSize]]
  /\ queue \in Seq(ItemNumbers)
  /\ file \in Seq(Nat)

(* The write offset is always inside the current frame, so a copy starts   *)
(* in the frame whose flag was looked at, and what runs over ends in the   *)
(* next one: through wraps, spills, dropped writes, stops and restarts.    *)
OffsetInFrame == frame * FrameSize <= offset /\ offset < (frame + 1) * FrameSize

(* A frame marked as in use is on its way to the file and will be freed:   *)
(* with an item for every frame and every worker thread there is always    *)
(* one to take, though a worker frees the frame before the item.           *)
InUseIsPending ==
  Items >= Frames + Workers =>
    \A f \in FrameNumbers : used[f] => \E i \in ItemNumbers : Pending(i) /\ item[i].frame = f

(* No byte comes into the file twice, as it would if a frame were filled   *)
(* again before it is saved -- unless a write has run over into a frame in *)
(* use, or the stream stopped in the middle of a frame.                    *)
SavedOnce == ~spilled /\ ~partial => IsInjective(file)

(* "All write activity is done at this point (see acquire->stop stream     *)
(* transition)": nothing refers to a stream that has stopped, which is     *)
(* when it may be destroyed.                                               *)
StoppedIsQuiet ==
  stream \in {"stopped", "closed"} => Free = ItemNumbers /\ queue = << >>

(* A frame in use becomes free again, whatever fails while it is saved,    *)
(* and WaitAllWorkItems returns.                                           *)
FramesReturn ==
  /\ Items >= Frames + Workers => \A f \in FrameNumbers : used[f] ~> ~used[f]
  /\ stream = "stopping" ~> stream # "stopping"

=============================================================================
