------------------------------- MODULE PcmFifo -------------------------------
(***************************************************************************)
(* What the driver's PCM ring promises its users: one bounded queue of     *)
(* bytes on which whole operations take effect at once.                    *)
(*                                                                         *)
(* A render stream appends a chunk; when the queue would outgrow its       *)
(* capacity the OLDEST bytes are lost, never the newest.  A client reads   *)
(* the oldest bytes, as many as it asked for or as there are.  A client    *)
(* may empty the queue.  DriverRing implements this with two offsets, a    *)
(* byte count and a spin lock.                                             *)
(***************************************************************************)
EXTENDS Naturals, Sequences

CONSTANTS
  Clients,    \* openers of the control device \\.\RifeZAudioBridge
  Chunks,     \* the byte strings a render stream may write
  Requests,   \* the buffer lengths a client may pass to READ_PCM
  Capacity    \* 1024 * 1024 in the code

VARIABLES
  queue,      \* the bytes buffered, oldest first
  delivered   \* delivered[c]: the bytes of client c's current READ_PCM

vars == <<queue, delivered>>

LastN(s, n) ==
  IF Len(s) <= n THEN s ELSE SubSeq(s, Len(s) - n + 1, Len(s))

Smaller(a, b) == IF a < b THEN a ELSE b

Init ==
  /\ queue = << >>
  /\ delivered = [c \in Clients |-> << >>]

Write(chunk) ==
  /\ queue' = LastN(queue \o chunk, Capacity)
  /\ UNCHANGED delivered

(* READ_PCM starts from an empty answer ...                                *)
Issue(c) ==
  /\ delivered' = [delivered EXCEPT ![c] = << >>]
  /\ UNCHANGED queue

(* ... and takes a prefix of the queue, in order, in one step.             *)
Read(c, n) ==
  LET k == Smaller(n, Len(queue))
  IN  /\ delivered' = [delivered EXCEPT ![c] = SubSeq(queue, 1, k)]
      /\ queue' = SubSeq(queue, k + 1, Len(queue))

Reset ==
  /\ queue' = << >>
  /\ UNCHANGED delivered

Next ==
  \/ \E chunk \in Chunks : Write(chunk)
  \/ \E c \in Clients : Issue(c)
  \/ \E c \in Clients, n \in Requests : Read(c, n)
  \/ Reset

Spec == Init /\ [][Next]_vars
=============================================================================
