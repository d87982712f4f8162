-------------------------- MODULE DriverStreamProofs --------------------------
(***************************************************************************)
(* The stream of the driver keeps its two clocks together for every buffer *)
(* size, packet count, rate and lateness of the timer.                     *)
(***************************************************************************)
EXTENDS DriverStream, Integers, WellFoundedInduction, SequenceTheorems, TLAPS

-----------------------------------------------------------------------------
(* Division with remainder.                                                *)

LEMMA DivMod ==
  ASSUME NEW a \in Nat, NEW n \in Nat \ {0}
  PROVE  /\ a \div n \in Nat
         /\ a % n \in 0 .. n - 1
         /\ a = n * (a \div n) + (a % n)
  OBVIOUS

LEMMA Quotient ==
  ASSUME NEW n \in Nat \ {0}, NEW p \in Int, NEW q \in Int,
         NEW r \in 0 .. n - 1, NEW s \in 0 .. n - 1, n * p + r = n * q + s
  PROVE  p = q /\ r = s
<1>1. CASE p < q
  <2>1. n * (p + 1) <= n * q
    BY <1>1
  <2> QED
    BY <2>1
<1>2. CASE q < p
  <2>1. n * (q + 1) <= n * p
    BY <1>2
  <2> QED
    BY <2>1
<1> QED
  BY <1>1, <1>2

LEMMA Distribute ==
  ASSUME NEW n \in Int, NEW p \in Int, NEW q \in Int
  PROVE  n * (p + q) = n * p + n * q
  OBVIOUS

(* Whole turns around the buffer do not change the place.                  *)
LEMMA WholeTurns ==
  ASSUME NEW n \in Nat \ {0}, NEW k \in Nat, NEW b \in Nat
  PROVE  (n * k + b) % n = b % n
<1> DEFINE c == n * k + b
<1>1. n * k \in Nat /\ c \in Nat
  OBVIOUS
<1>2. /\ b = n * (b \div n) + (b % n) /\ b % n \in 0 .. n - 1 /\ b \div n \in Nat
      /\ c = n * (c \div n) + (c % n) /\ c % n \in 0 .. n - 1 /\ c \div n \in Nat
  BY <1>1, DivMod
<1>3. c = n * k + b
  OBVIOUS
<1>4. n * (k + (b \div n)) = n * k + n * (b \div n)
  BY <1>2, Distribute
<1> DEFINE p == k + (b \div n)
           q == c \div n
           r == b % n
           t == c % n
<1>5. n * p + r = n * q + t
  BY <1>2, <1>3, <1>4, <1>1
<1>6. p \in Int /\ q \in Int /\ r \in 0 .. n - 1 /\ t \in 0 .. n - 1
  BY <1>2
<1> HIDE DEF c, p, q, r, t
<1>7. t = r
  BY <1>5, <1>6, Quotient
<1> QED
  BY <1>7 DEF c, r, t

LEMMA ModAdd ==
  ASSUME NEW a \in Nat, NEW d \in Nat, NEW n \in Nat \ {0}
  PROVE  ((a % n) + d) % n = (a + d) % n
<1> DEFINE q == a \div n
           b == (a % n) + d
<1>1. q \in Nat /\ b \in Nat /\ a + d = n * q + b
  BY DivMod
<1> HIDE DEF q, b
<1>2. (n * q + b) % n = b % n
  BY <1>1, WholeTurns
<1> QED
  BY <1>1, <1>2 DEF b

LEMMA DivBelow ==
  ASSUME NEW a \in Nat, NEW n \in Nat \ {0}, NEW k \in Nat, a \div n >= k
  PROVE  a >= k * n
<1>1. a >= n * (a \div n) /\ a \div n \in Nat
  BY DivMod
<1>2. n * (a \div n) >= n * k
  BY <1>1
<1> QED
  BY <1>1, <1>2

-----------------------------------------------------------------------------
(* UpdatePosition.                                                         *)

LEMMA CutLeavesNat ==
  ASSUME TypeOK, Moved \in Nat
  PROVE  Displacement \in Nat
<1> DEFINE a == writePosition + Moved
<1>1. /\ size \in Nat \ {0} /\ writePosition \in 0 .. size - 1
      /\ currentWrite \in Nat /\ a \in Nat
  BY DEF TypeOK
<1>2. CASE currentWrite < After(Moved) /\ After(Moved) < writePosition
  <2>1. /\ a = size * (a \div size) + After(Moved)
        /\ a \div size \in Nat /\ After(Moved) \in 0 .. size - 1
    BY <1>1, DivMod DEF After
  <2>2. a >= writePosition
    BY <1>1
  <2> DEFINE q == a \div size
  <2>3. q # 0
    BY <1>1, <1>2, <2>1, <2>2
  <2>4. q \in Nat /\ size * q >= size
    <3> HIDE DEF q
    <3>1. q \in Nat
      BY <2>1 DEF q
    <3>2. q >= 1
      BY <3>1, <2>3
    <3> QED
      BY <3>1, <3>2, <1>1
  <2>5. Moved >= After(Moved)
    BY <1>1, <2>1, <2>4
  <2>6. Moved - (After(Moved) - currentWrite) \in Nat
    BY <1>1, <1>2, <2>1, <2>5
  <2> QED
    BY <1>1, <2>6 DEF Displacement, CutAtEos, Least
<1>3. CASE ~(currentWrite < After(Moved) /\ After(Moved) < writePosition)
  BY <1>1, <1>3 DEF Displacement, CutAtEos, Least
<1> QED
  BY <1>2, <1>3

LEMMA MovesNat ==
  ASSUME TypeOK
  PROVE  /\ ElapsedMs \in Nat /\ Moved \in Nat /\ Displacement \in Nat
         /\ (sinceDma + hnsCarry) % HnsPerMs \in 0 .. HnsPerMs - 1
         /\ (Rate * ElapsedMs + byteCarry) % MsPerSecond \in 0 .. MsPerSecond - 1
         /\ sinceDma + hnsCarry = HnsPerMs * ElapsedMs + ((sinceDma + hnsCarry) % HnsPerMs)
         /\ Rate * ElapsedMs + byteCarry
              = MsPerSecond * Moved + ((Rate * ElapsedMs + byteCarry) % MsPerSecond)
<1>1. sinceDma + hnsCarry \in Nat /\ HnsPerMs \in Nat \ {0}
  BY StreamAssumption DEF TypeOK
<1>2. ElapsedMs \in Nat
  BY <1>1, DivMod DEF ElapsedMs
<1>3. Rate * ElapsedMs + byteCarry \in Nat /\ MsPerSecond \in Nat \ {0}
  BY <1>2, StreamAssumption DEF TypeOK
<1>4. Moved \in Nat
  BY <1>3, DivMod DEF Moved
<1>5. Displacement \in Nat
  BY <1>4, CutLeavesNat
<1>6. /\ (sinceDma + hnsCarry) % HnsPerMs \in 0 .. HnsPerMs - 1
      /\ sinceDma + hnsCarry = HnsPerMs * ElapsedMs + ((sinceDma + hnsCarry) % HnsPerMs)
  BY <1>1, DivMod DEF ElapsedMs
<1>7. /\ (Rate * ElapsedMs + byteCarry) % MsPerSecond \in 0 .. MsPerSecond - 1
      /\ Rate * ElapsedMs + byteCarry
           = MsPerSecond * Moved + ((Rate * ElapsedMs + byteCarry) % MsPerSecond)
  BY <1>3, DivMod DEF Moved
<1> QED
  BY <1>2, <1>4, <1>5, <1>6, <1>7

(* The types after an update, and that both positions move alike.          *)
LEMMA UpdateKeepsPlace ==
  ASSUME TypeOK, UpdatePosition, UNCHANGED geometry
  PROVE  /\ writePosition' \in 0 .. size - 1 /\ linear' \in Nat /\ linear' >= linear
         /\ hnsCarry' \in 0 .. HnsPerMs - 1 /\ byteCarry' \in 0 .. MsPerSecond - 1
         /\ sinceDma' = 0 /\ rendered' \in BOOLEAN
         /\ PositionsAgree => PositionsAgree'
<1>1. /\ Displacement \in Nat /\ linear \in Nat /\ size \in Nat \ {0}
      /\ writePosition \in 0 .. size - 1
  BY MovesNat DEF TypeOK
<1>2. writePosition' = (writePosition + Displacement) % size
      /\ linear' = linear + Displacement
  BY DEF UpdatePosition, After
<1>3. writePosition' \in 0 .. size - 1
  BY <1>1, <1>2, DivMod
<1>4. hnsCarry' \in 0 .. HnsPerMs - 1 /\ byteCarry' \in 0 .. MsPerSecond - 1
  BY MovesNat DEF UpdatePosition
<1>5. sinceDma' = 0 /\ rendered' \in BOOLEAN
  BY DEF UpdatePosition, TypeOK
<1>6. PositionsAgree => PositionsAgree'
  <2> SUFFICES ASSUME PositionsAgree PROVE PositionsAgree'
    OBVIOUS
  <2>1. ((linear % size) + Displacement) % size = (linear + Displacement) % size
    BY <1>1, ModAdd
  <2>2. size' = size
    BY DEF geometry
  <2> QED
    BY <1>2, <2>1, <2>2 DEF PositionsAgree
<1>7. linear' \in Nat /\ linear' >= linear
  BY <1>1, <1>2
<1> QED
  BY <1>3, <1>4, <1>5, <1>6, <1>7

-----------------------------------------------------------------------------
(* The inductive invariant.                                                *)

(* Where SetState, the timer and its queued callback can be together.      *)
TimerInStep ==
  /\ step = "starting" => ksState = "PAUSE"
  /\ step \in {"flushing", "pausing"} => ksState = "RUN" /\ ~armed
  /\ step = "pausing" => ~dpc
  /\ QuietWhenPaused
  /\ Rest /\ ksState # "RUN" => sinceDma = 0

(* A SetWritePacket under way has read a counter that only grows.          *)
WriterBehind == writer # NoCall => writer <= packetCounter

(* The time the packets counted so far and the one under way stand for.    *)
(* What has passed since the last notification is forgotten at a start.    *)
Since == IF Rest /\ ksState # "RUN" THEN 0 ELSE sinceDpc

Notified == packetCounter * IntervalHns + dpcCarry + Since

(* m whole milliseconds have been turned into bytes, and they and the      *)
(* rest are not behind the packets.                                        *)
Fetched(m) ==
  /\ Rate * m <= MsPerSecond * linear + byteCarry
  /\ Notified <= HnsPerMs * m + hnsCarry + sinceDma

(* CompletedIsConsumed alone is not inductive: what keeps the packets      *)
(* behind the bytes is the time both stand for.  At the end of a stream    *)
(* the bytes stop short of the time, and the packets are counted no more.  *)
Paced == clean /\ WholeInterval /\ ~eos => \E m \in Nat : Fetched(m)

IInv == /\ TypeOK /\ TimerInStep /\ PositionsAgree /\ WriterBehind
        /\ Paced /\ CompletedIsConsumed

LEMMA InitIInv == Init => IInv
<1> SUFFICES ASSUME Init PROVE IInv
  OBVIOUS
<1>1. TypeOK
  <2>1. PICK request \in Requests, n \in Counts :
          Allocatable(request, n) /\ size = RoundedSize(request) /\ count = n
    BY DEF Init
  <2>2. request \in Nat /\ BlockAlign \in Nat \ {0} /\ request >= BlockAlign
    BY <2>1, StreamAssumption DEF Allocatable
  <2>3. request % BlockAlign \in 0 .. BlockAlign - 1
    BY <2>2, DivMod
  <2>4. size \in Nat \ {0}
    BY <2>1, <2>2, <2>3 DEF RoundedSize
  <2>5. count \in Nat \ {0}
    BY <2>1, StreamAssumption DEF Allocatable
  <2>6. interval \in Nat \ {0}
    <3> DEFINE b == size * MsPerSecond
    <3>1. b \in Nat /\ Rate \in Nat \ {0}
      BY <2>4, StreamAssumption
    <3>2. b \div Rate \in Nat
      BY <3>1, DivMod
    <3>3. (b \div Rate) \div count \in Nat
      BY <3>2, <2>5, DivMod
    <3> QED
      BY <3>3 DEF Init, IntervalOf
  <2>7. /\ hnsCarry \in 0 .. HnsPerMs - 1 /\ byteCarry \in 0 .. MsPerSecond - 1
        /\ writePosition \in 0 .. size - 1 /\ currentWrite \in 0 .. size
    BY <2>4, StreamAssumption DEF Init
  <2>8. /\ packetCounter \in Nat /\ linear \in Nat /\ sinceDma \in Nat /\ sinceDpc \in Nat
        /\ dpcCarry \in Nat /\ lastRead \in Nat /\ eosAt \in Nat
        /\ writer \in Nat \cup {NoCall}
    BY DEF Init
  <2> QED
    BY <2>4, <2>5, <2>6, <2>7, <2>8 DEF Init, TypeOK, KsStates
<1>2. TimerInStep /\ WriterBehind
  BY DEF Init, TimerInStep, QuietWhenPaused, Rest, WriterBehind
<1>3. PositionsAgree
  <2>1. size \in Nat \ {0} /\ linear = 0 /\ writePosition = 0
    BY <1>1 DEF Init, TypeOK
  <2> QED
    BY <2>1 DEF PositionsAgree
<1>4. Fetched(0)
  BY <1>1, StreamAssumption DEF Init, TypeOK, Fetched, Notified, Since, Rest, IntervalHns
<1>5. CompletedIsConsumed
  <2>1. packetCounter * PacketSize = 0
    <3>1. PacketSize \in Nat
      BY <1>1, DivMod DEF TypeOK, PacketSize
    <3> QED
      BY <3>1 DEF Init
  <2> QED
    BY <2>1 DEF Init, CompletedIsConsumed, BufferCompletionIsReal
<1> QED
  BY <1>1, <1>2, <1>3, <1>4, <1>5 DEF IInv, Paced

-----------------------------------------------------------------------------
(* The two clocks.                                                         *)

(* A carry moves with what is counted.                                     *)
LEMMA Transfer ==
  ASSUME NEW a \in Nat, NEW b \in Nat, NEW c \in Nat, NEW d \in Nat,
         NEW old \in Nat, NEW new \in Nat,
         c + old = d + new, a <= b + old
  PROVE  a + c <= b + d + new
  OBVIOUS

LEMMA TransferAll ==
  ASSUME NEW a \in Nat, NEW b \in Nat, NEW d \in Nat,
         NEW old \in Nat, NEW more \in Nat, NEW new \in Nat,
         more + old = d + new, a <= b + old + more
  PROVE  a <= b + d + new + 0
  OBVIOUS

(* An update moves whole milliseconds from the time to the bytes.          *)
LEMMA UpdateKeepsPace ==
  ASSUME TypeOK, UpdatePosition, ~eos,
         NEW m \in Nat, NEW b \in Nat,
         Rate * m <= MsPerSecond * linear + byteCarry,
         b <= HnsPerMs * m + hnsCarry + sinceDma
  PROVE  /\ m + ElapsedMs \in Nat
         /\ Rate * (m + ElapsedMs) <= MsPerSecond * linear' + byteCarry'
         /\ b <= HnsPerMs * (m + ElapsedMs) + hnsCarry' + sinceDma'
<1> DEFINE e == ElapsedMs
           v == Moved
<1>1. /\ e \in Nat /\ v \in Nat /\ Rate \in Nat /\ MsPerSecond \in Nat /\ HnsPerMs \in Nat
      /\ linear \in Nat /\ byteCarry \in Nat /\ hnsCarry \in Nat /\ sinceDma \in Nat
  BY MovesNat, StreamAssumption DEF TypeOK
<1>2. /\ sinceDma + hnsCarry = HnsPerMs * e + hnsCarry'
      /\ Rate * e + byteCarry = MsPerSecond * v + byteCarry'
      /\ hnsCarry' \in Nat /\ byteCarry' \in Nat /\ sinceDma' = 0
  BY MovesNat DEF UpdatePosition
<1>3. linear' = linear + v
  BY DEF UpdatePosition, Displacement
<1> DEFINE rm == Rate * m              re == Rate * e
           sl == MsPerSecond * linear  sv == MsPerSecond * v
           hm == HnsPerMs * m          he == HnsPerMs * e
<1> HIDE DEF e, v
<1>4. /\ Rate * (m + e) = rm + re
      /\ MsPerSecond * linear' = sl + sv
      /\ HnsPerMs * (m + e) = hm + he
  BY <1>1, <1>3, Distribute
<1>5. rm \in Nat /\ re \in Nat /\ sl \in Nat /\ sv \in Nat /\ hm \in Nat /\ he \in Nat
  BY <1>1
<1>6. /\ sinceDma + hnsCarry = he + hnsCarry' /\ re + byteCarry = sv + byteCarry'
      /\ rm <= sl + byteCarry /\ b <= hm + hnsCarry + sinceDma
  BY <1>2
<1> HIDE DEF rm, re, sl, sv, hm, he
<1>7. rm + re <= sl + sv + byteCarry'
  BY <1>1, <1>2, <1>5, <1>6, Transfer
<1>9. b <= hm + he + hnsCarry' + 0
  BY <1>1, <1>2, <1>5, <1>6, TransferAll
<1>10. Rate * (m + e) <= MsPerSecond * linear' + byteCarry'
  BY <1>4, <1>7
<1>11. b <= HnsPerMs * (m + e) + hnsCarry' + sinceDma'
  BY <1>2, <1>4, <1>9
<1>8. m + e \in Nat
  BY <1>1
<1> QED
  BY <1>8, <1>10, <1>11 DEF e

(* Below a multiple and a remainder is below the multiple.                 *)
LEMMA WholeBelow ==
  ASSUME NEW n \in Nat \ {0}, NEW p \in Nat, NEW q \in Nat, NEW r \in 0 .. n - 1,
         n * p <= n * q + r
  PROVE  p <= q
<1> SUFFICES ASSUME q < p PROVE FALSE
  OBVIOUS
<1>1. n * (q + 1) <= n * p
  OBVIOUS
<1>2. n * (q + 1) = n * q + n
  OBVIOUS
<1> QED
  BY <1>1, <1>2

(* At the moment of an update the packets stand for whole milliseconds     *)
(* that have all been turned into bytes.                                   *)
LEMMA PacketsAreFetched ==
  ASSUME NEW k \in Nat, NEW m \in Nat, NEW bytes \in Nat,
         NEW h \in 0 .. HnsPerMs - 1, NEW c \in 0 .. MsPerSecond - 1,
         TypeOK, WholeInterval,
         k * IntervalHns <= HnsPerMs * m + h,
         Rate * m <= MsPerSecond * bytes + c
  PROVE  k * PacketSize <= bytes
<1>1. /\ interval \in Nat /\ HnsPerMs \in Nat \ {0} /\ MsPerSecond \in Nat \ {0}
      /\ Rate \in Nat /\ PacketSize \in Nat
  BY StreamAssumption, DivMod DEF TypeOK, PacketSize
<1> DEFINE n == k * interval
           s == k * PacketSize
<1>2. n \in Nat /\ s \in Nat
  BY <1>1
<1>3. k * IntervalHns = HnsPerMs * n
  BY <1>1 DEF IntervalHns
<1>4. Rate * n = MsPerSecond * s
  <2>1. Rate * interval = PacketSize * MsPerSecond
    BY DEF WholeInterval
  <2>2. Rate * n = k * (Rate * interval)
    BY <1>1
  <2>3. MsPerSecond * s = k * (PacketSize * MsPerSecond)
    BY <1>1
  <2> QED
    BY <2>1, <2>2, <2>3
<1> HIDE DEF n, s
<1>5. n <= m
  BY <1>1, <1>2, <1>3, WholeBelow
<1>6. Rate * n <= Rate * m
  BY <1>1, <1>2, <1>5
<1>7. MsPerSecond * s <= MsPerSecond * bytes + c
  BY <1>1, <1>2, <1>4, <1>6
<1>8. s <= bytes
  BY <1>1, <1>2, <1>7, WholeBelow
<1> QED
  BY <1>8 DEF s

LEMMA NotifiedNat ==
  ASSUME TypeOK
  PROVE  /\ IntervalHns \in Nat /\ packetCounter * IntervalHns \in Nat /\ Since \in Nat
         /\ Notified \in Nat /\ packetCounter * IntervalHns <= Notified
<1>1. IntervalHns \in Nat /\ packetCounter \in Nat /\ Since \in Nat /\ dpcCarry \in Nat
  BY StreamAssumption DEF TypeOK, IntervalHns, Since
<1>2. packetCounter * IntervalHns \in Nat
  BY <1>1
<1> QED
  BY <1>1, <1>2 DEF Notified

LEMMA NotLater ==
  ASSUME NEW now \in Nat, NEW before \in Nat, NEW t \in Nat,
         NEW h \in Nat, NEW d \in Nat, NEW h1 \in Nat, NEW d1 \in Nat,
         now + h + d <= before + h1 + d1, before <= t + h + d
  PROVE  now <= t + h1 + d1
  OBVIOUS

LEMMA LessInSum ==
  ASSUME NEW a \in Nat, NEW b \in Nat, NEW now \in Nat, NEW before \in Nat, now <= before
  PROVE  /\ a + b + now \in Nat /\ a + b + now <= a + b + before
         /\ now + a + b <= before + a + b
  OBVIOUS

LEMMA NotLaterEither ==
  ASSUME NEW u \in Nat, NEW v \in Nat, NEW t \in Nat, NEW h \in Nat, NEW d \in Nat,
         u <= v, v <= t + h + d, d = 0
  PROVE  u <= t + h
  OBVIOUS

(* A step that moves no bytes may only add to the time of the bytes.       *)
LEMMA PaceKept ==
  ASSUME TypeOK, TypeOK', Paced, CompletedIsConsumed,
         UNCHANGED <<geometry, linear, packetCounter, byteCarry, clean>>,
         eos => eos',
         Notified' \in Nat,
         Notified' + hnsCarry + sinceDma <= Notified + hnsCarry' + sinceDma'
  PROVE  Paced' /\ CompletedIsConsumed'
<1>1. WholeInterval' = WholeInterval /\ BufferCompletionIsReal' = BufferCompletionIsReal
  BY DEF WholeInterval, BufferCompletionIsReal, PacketSize, geometry
<1>2. CompletedIsConsumed'
  BY <1>1 DEF CompletedIsConsumed
<1>3. Paced'
  <2> SUFFICES ASSUME clean', WholeInterval', ~eos' PROVE \E m \in Nat : Fetched(m)'
    BY DEF Paced
  <2>1. PICK m \in Nat : Fetched(m)
    BY <1>1 DEF Paced
  <2>2. Rate * m <= MsPerSecond * linear' + byteCarry'
    BY <2>1 DEF Fetched
  <2>3. Notified' <= HnsPerMs * m + hnsCarry' + sinceDma'
    <3> DEFINE t == HnsPerMs * m
    <3>1. t \in Nat
      BY StreamAssumption
    <3>2. Notified <= t + hnsCarry + sinceDma
      BY <2>1 DEF Fetched
    <3>3. Notified \in Nat
      BY NotifiedNat
    <3>4. /\ hnsCarry \in Nat /\ sinceDma \in Nat /\ hnsCarry' \in Nat /\ sinceDma' \in Nat
      BY DEF TypeOK
    <3> HIDE DEF t
    <3>5. Notified' <= t + hnsCarry' + sinceDma'
      BY <3>1, <3>2, <3>3, <3>4, NotLater
    <3> QED
      BY <3>5 DEF t
  <2>4. Fetched(m)'
    BY <2>2, <2>3 DEF Fetched
  <2> QED
    BY <2>4
<1> QED
  BY <1>2, <1>3

(* An update does, when the packets keep their time.                       *)
LEMMA PaceUpdated ==
  ASSUME TypeOK, TypeOK', Paced, CompletedIsConsumed, UpdatePosition,
         UNCHANGED <<geometry, clean, eos>>,
         eos => packetCounter' = packetCounter,
         ~eos => Notified' <= Notified,
         packetCounter' * IntervalHns <= Notified', Notified' \in Nat
  PROVE  Paced' /\ CompletedIsConsumed'
<1>1. /\ WholeInterval' = WholeInterval
      /\ PacketSize' = PacketSize /\ PacketSize \in Nat
  BY DivMod DEF WholeInterval, PacketSize, geometry, TypeOK
<1>2. /\ linear' \in Nat /\ linear' >= linear /\ sinceDma' = 0 /\ linear \in Nat
      /\ hnsCarry' \in 0 .. HnsPerMs - 1 /\ byteCarry' \in 0 .. MsPerSecond - 1
      /\ packetCounter' \in Nat
  BY UpdateKeepsPlace DEF TypeOK
<1>3. CASE eos
  <2>1. Paced'
    BY <1>3 DEF Paced
  <2>2. CompletedIsConsumed'
    <3> SUFFICES ASSUME clean, WholeInterval PROVE packetCounter' * PacketSize <= linear'
      BY <1>1 DEF CompletedIsConsumed, BufferCompletionIsReal
    <3>1. packetCounter * PacketSize <= linear
      BY DEF CompletedIsConsumed, BufferCompletionIsReal
    <3>2. packetCounter * PacketSize \in Nat
      BY <1>1 DEF TypeOK
    <3>3. packetCounter * PacketSize <= linear'
      BY <1>2, <3>1, <3>2
    <3> QED
      BY <1>3, <3>3
  <2> QED
    BY <2>1, <2>2
<1>4. CASE ~eos /\ clean /\ WholeInterval
  <2>1. PICK m \in Nat : Fetched(m)
    BY <1>4 DEF Paced
  <2>2. Notified' <= HnsPerMs * m + hnsCarry + sinceDma
    <3> DEFINE t == HnsPerMs * m + hnsCarry + sinceDma
    <3>1. t \in Nat
      BY StreamAssumption DEF TypeOK
    <3>2. Notified <= t /\ Notified \in Nat /\ Notified' <= Notified
      BY <1>4, <2>1, NotifiedNat DEF Fetched
    <3> HIDE DEF t
    <3>3. Notified' <= t
      BY <3>1, <3>2
    <3> QED
      BY <3>3 DEF t
  <2>3. PICK n \in Nat :
          /\ Rate * n <= MsPerSecond * linear' + byteCarry'
          /\ Notified' <= HnsPerMs * n + hnsCarry' + sinceDma'
    BY <1>4, <2>1, <2>2, UpdateKeepsPace DEF Fetched
  <2>4. Paced'
    <3>1. Fetched(n)'
      BY <2>3 DEF Fetched
    <3> QED
      BY <3>1 DEF Paced
  <2>5. packetCounter' * IntervalHns <= HnsPerMs * n + hnsCarry'
    <3> DEFINE t == HnsPerMs * n
               u == packetCounter' * IntervalHns
    <3>1. t \in Nat /\ u \in Nat
      BY <1>2, StreamAssumption, NotifiedNat
    <3>2. u <= Notified' /\ Notified' <= t + hnsCarry' + sinceDma'
      BY <2>3
    <3>3. hnsCarry' \in Nat /\ sinceDma' \in Nat
      BY <1>2
    <3> HIDE DEF t, u
    <3>4. u <= t + hnsCarry'
      BY <1>2, <3>1, <3>2, <3>3, NotLaterEither
    <3> QED
      BY <3>4 DEF t, u
  <2>6. packetCounter' * PacketSize <= linear'
    BY <1>2, <1>4, <2>3, <2>5, PacketsAreFetched
  <2>7. CompletedIsConsumed'
    BY <1>1, <2>6 DEF CompletedIsConsumed, BufferCompletionIsReal
  <2> QED
    BY <2>4, <2>7
<1>5. CASE ~(clean /\ WholeInterval)
  BY <1>1, <1>5 DEF Paced, CompletedIsConsumed
<1> QED
  BY <1>3, <1>4, <1>5

(* A step that neither moves bytes nor counts packets nor changes a carry. *)
LEMMA PlaceKept ==
  ASSUME IInv, TypeOK', UNCHANGED <<geometry, position, packets, clean>>,
         eos => eos', Since' <= Since
  PROVE  Paced' /\ CompletedIsConsumed' /\ PositionsAgree'
<1>1. IntervalHns' = IntervalHns
  BY DEF IntervalHns, geometry
<1>2. /\ packetCounter * IntervalHns \in Nat /\ Since \in Nat /\ Notified \in Nat
      /\ dpcCarry \in Nat /\ hnsCarry \in Nat /\ sinceDma \in Nat /\ Since' \in Nat
  BY NotifiedNat DEF IInv, TypeOK, Since
<1>3. packetCounter' = packetCounter /\ dpcCarry' = dpcCarry
  BY DEF packets
<1> DEFINE k == packetCounter * IntervalHns
<1>4. Notified = k + dpcCarry + Since /\ Notified' = k + dpcCarry + Since'
  BY <1>1, <1>3 DEF Notified
<1> HIDE DEF k
<1>5. k \in Nat
  BY <1>2 DEF k
<1>6. Notified' \in Nat /\ Notified' <= Notified
  <2>1. dpcCarry \in Nat /\ Since \in Nat /\ Since' \in Nat
    BY <1>2
  <2> QED
    BY <1>4, <1>5, <2>1, LessInSum
<1>7. /\ linear' = linear /\ byteCarry' = byteCarry /\ hnsCarry' = hnsCarry
      /\ sinceDma' = sinceDma /\ writePosition' = writePosition
  BY DEF position
<1>8. Notified' + hnsCarry + sinceDma <= Notified + hnsCarry' + sinceDma'
  <2>1. Notified \in Nat /\ hnsCarry \in Nat /\ sinceDma \in Nat
    BY <1>2
  <2>2. Notified' + hnsCarry + sinceDma <= Notified + hnsCarry + sinceDma
    BY <1>6, <2>1, LessInSum
  <2> QED
    BY <1>7, <2>2
<1>9. UNCHANGED <<geometry, linear, packetCounter, byteCarry, clean>>
  BY <1>3, <1>7
<1>10. Paced' /\ CompletedIsConsumed'
  BY <1>6, <1>8, <1>9, PaceKept DEF IInv
<1>11. PositionsAgree'
  BY <1>7 DEF IInv, PositionsAgree, geometry
<1> QED
  BY <1>10, <1>11

-----------------------------------------------------------------------------
(* One lemma per action.                                                   *)

LEMMA UpdatedTypes ==
  ASSUME TypeOK, UpdatePosition, UNCHANGED <<geometry, os, clean>>,
         ksState' \in KsStates, step' \in {"none", "starting", "flushing", "pausing"},
         armed' \in BOOLEAN, dpc' \in BOOLEAN,
         packetCounter' \in Nat, sinceDpc' \in Nat, dpcCarry' \in Nat
  PROVE  TypeOK'
  BY UpdateKeepsPlace DEF TypeOK, geometry, os

LEMMA GetPositionKeepsIInv ==
  ASSUME IInv, GetPosition PROVE IInv'
<1>1. TypeOK /\ UpdatePosition /\ UNCHANGED geometry
  BY DEF IInv, GetPosition
<1>2. TypeOK'
  BY <1>1, UpdateKeepsPlace DEF GetPosition, TypeOK, geometry, packets, os
<1>3. TimerInStep' /\ WriterBehind'
  BY DEF IInv, GetPosition, TimerInStep, QuietWhenPaused, Rest, WriterBehind, packets, os
<1>4. Notified' = Notified
  BY DEF GetPosition, Notified, Since, Rest, IntervalHns, packets, geometry
<1>5. /\ Notified' \in Nat /\ Notified' <= Notified
      /\ packetCounter' * IntervalHns <= Notified'
  BY <1>1, <1>4, NotifiedNat DEF GetPosition, packets
<1>6. Paced' /\ CompletedIsConsumed'
  BY <1>1, <1>2, <1>5, PaceUpdated DEF IInv, GetPosition, packets, os
<1>7. PositionsAgree'
  BY <1>1, UpdateKeepsPlace DEF IInv
<1> QED
  BY <1>2, <1>3, <1>6, <1>7 DEF IInv

LEMMA EnterPauseKeepsIInv ==
  ASSUME IInv, EnterPause PROVE IInv'
<1>1. TypeOK /\ UpdatePosition /\ UNCHANGED geometry
  BY DEF IInv, EnterPause
<1>2. TypeOK'
  BY <1>1, UpdateKeepsPlace DEF EnterPause, TypeOK, KsStates, geometry, packets, os
<1>3. TimerInStep' /\ WriterBehind'
  BY DEF IInv, EnterPause, UpdatePosition, TimerInStep, QuietWhenPaused, Rest, WriterBehind, packets, os
<1>4. /\ packetCounter * IntervalHns \in Nat /\ Since \in Nat /\ dpcCarry \in Nat
      /\ packetCounter' = packetCounter /\ dpcCarry' = dpcCarry /\ Since' = 0
      /\ IntervalHns' = IntervalHns
  BY <1>1, NotifiedNat DEF TypeOK, EnterPause, Since, Rest, IntervalHns, packets, geometry
<1>5. /\ Notified' \in Nat /\ Notified' <= Notified
      /\ packetCounter' * IntervalHns <= Notified'
  <2> DEFINE k == packetCounter * IntervalHns
  <2>1. /\ Notified = k + dpcCarry + Since /\ Notified' = k + dpcCarry + 0
        /\ packetCounter' * IntervalHns = k /\ k \in Nat
    BY <1>4 DEF Notified
  <2> HIDE DEF k
  <2> QED
    BY <1>4, <2>1
<1>6. Paced' /\ CompletedIsConsumed'
  BY <1>1, <1>2, <1>5, PaceUpdated DEF IInv, EnterPause, packets, os
<1>7. PositionsAgree'
  BY <1>1, UpdateKeepsPlace DEF IInv
<1> QED
  BY <1>2, <1>3, <1>6, <1>7 DEF IInv

LEMMA TimerNotifyKeepsIInv ==
  ASSUME IInv, TimerNotify PROVE IInv'
<1>1. TypeOK /\ UpdatePosition /\ UNCHANGED geometry
  BY DEF IInv, TimerNotify
<1>2. ~Rest \/ ksState = "RUN"
  BY DEF IInv, TimerNotify, TimerInStep, QuietWhenPaused
<1>3. Since = sinceDpc /\ Since' = sinceDpc'
  BY <1>2 DEF TimerNotify, Since, Rest
<1>0. /\ ksState' \in KsStates /\ step' \in {"none", "starting", "flushing", "pausing"}
      /\ armed' \in BOOLEAN /\ dpc' \in BOOLEAN /\ eos' = eos
      /\ UNCHANGED <<geometry, os, clean>>
  BY <1>1 DEF TimerNotify, TypeOK, os
<1>4. ASSUME BufferCompleted
      PROVE  TypeOK' /\ Paced' /\ CompletedIsConsumed' /\ WriterBehind'
  <2>1. sinceDpc + dpcCarry \in Nat /\ HnsPerMs \in Nat \ {0} /\ interval \in Nat
        /\ packetCounter \in Nat /\ dpcCarry \in Nat /\ sinceDpc \in Nat
    BY <1>1, StreamAssumption DEF TypeOK
  <2>2. IntervalHns <= sinceDpc + dpcCarry
    BY <1>4, <2>1, DivBelow DEF BufferCompleted, IntervalHns
  <2>3. /\ dpcCarry' = sinceDpc + dpcCarry - IntervalHns /\ sinceDpc' = 0
        /\ packetCounter' = IF eos THEN packetCounter ELSE packetCounter + 1
    BY <1>4 DEF TimerNotify, CarryForward
  <2>4. IntervalHns \in Nat /\ IntervalHns' = IntervalHns /\ packetCounter * IntervalHns \in Nat
    BY <1>1, NotifiedNat DEF IntervalHns, geometry
  <2>5. dpcCarry' \in Nat /\ sinceDpc' \in Nat /\ packetCounter' \in Nat
    BY <2>1, <2>2, <2>3, <2>4
  <2>6. TypeOK'
    BY <1>0, <1>1, <2>5, UpdatedTypes
  <2> DEFINE k == packetCounter * IntervalHns
  <2>7. ~eos => packetCounter' * IntervalHns = k + IntervalHns
    BY <2>1, <2>3, <2>4
  <2>8. eos => packetCounter' * IntervalHns = k
    BY <2>3
  <2>9. /\ Notified = k + dpcCarry + sinceDpc
        /\ Notified' = packetCounter' * IntervalHns + dpcCarry' + 0
    BY <1>3, <2>3, <2>4 DEF Notified
  <2> HIDE DEF k
  <2>10. k \in Nat
    BY <2>4 DEF k
  <2>11. /\ Notified' \in Nat
         /\ ~eos => Notified' <= Notified
         /\ packetCounter' * IntervalHns <= Notified'
    <3>1. CASE eos
      BY <2>1, <2>2, <2>3, <2>4, <2>5, <2>8, <2>9, <2>10, <3>1
    <3>2. CASE ~eos
      BY <2>1, <2>2, <2>3, <2>4, <2>5, <2>7, <2>9, <2>10, <3>2
    <3> QED
      BY <3>1, <3>2
  <2>12. Paced' /\ CompletedIsConsumed'
    <3>1. eos => packetCounter' = packetCounter
      BY <2>3
    <3>2. UNCHANGED <<geometry, clean, eos>>
      BY <1>0
    <3> QED
      BY <1>1, <2>6, <2>11, <3>1, <3>2, PaceUpdated DEF IInv
  <2>13. WriterBehind'
    <3>1. writer' = writer /\ packetCounter' >= packetCounter /\ writer \in Nat \cup {NoCall}
      BY <1>1, <2>1, <2>3 DEF TimerNotify, os, TypeOK
    <3> QED
      BY <2>1, <2>5, <3>1 DEF IInv, WriterBehind
  <2> QED
    BY <2>6, <2>12, <2>13
<1>5. ASSUME ~BufferCompleted
      PROVE  TypeOK' /\ Paced' /\ CompletedIsConsumed' /\ WriterBehind'
  <2>1. eos /\ UNCHANGED <<packetCounter, dpcCarry, sinceDpc>>
    BY <1>5 DEF TimerNotify, CarryForward
  <2>2. TypeOK'
    BY <1>0, <1>1, <2>1, UpdatedTypes DEF TypeOK
  <2>3. Notified' = Notified
    BY <1>1, <1>3, <2>1 DEF Notified, IntervalHns, geometry
  <2>4. Notified' \in Nat /\ packetCounter' * IntervalHns <= Notified'
    BY <1>1, <2>1, <2>3, NotifiedNat
  <2>5. Paced' /\ CompletedIsConsumed'
    BY <1>0, <1>1, <2>1, <2>2, <2>4, PaceUpdated DEF IInv
  <2>6. WriterBehind'
    BY <2>1 DEF IInv, WriterBehind, TimerNotify, os
  <2> QED
    BY <2>2, <2>5, <2>6
<1>6. TimerInStep'
  BY <1>2 DEF IInv, TimerNotify, UpdatePosition, TimerInStep, QuietWhenPaused, Rest
<1>7. PositionsAgree'
  BY <1>1, UpdateKeepsPlace DEF IInv
<1> QED
  BY <1>4, <1>5, <1>6, <1>7 DEF IInv

LEMMA TickKeepsIInv ==
  ASSUME IInv, Tick PROVE IInv'
<1>1. TypeOK
  BY DEF IInv
<1>2. /\ sinceDma' = sinceDma + 1 /\ sinceDpc' = sinceDpc + 1
      /\ UNCHANGED <<geometry, ksState, step, armed, dpc, packetCounter, dpcCarry, os,
                     writePosition, linear, hnsCarry, byteCarry, rendered, clean>>
      /\ ksState = "RUN" \/ step = "starting"
  BY DEF Tick
<1>3. TypeOK'
  BY <1>1, <1>2 DEF TypeOK, geometry, os
<1>4. TimerInStep' /\ WriterBehind' /\ PositionsAgree'
  BY <1>2 DEF IInv, TimerInStep, QuietWhenPaused, Rest, WriterBehind, PositionsAgree, geometry, os
<1>5. Since = sinceDpc /\ Since' = sinceDpc + 1
  BY <1>2 DEF Since, Rest
<1> DEFINE k == packetCounter * IntervalHns
<1>6. /\ k \in Nat /\ dpcCarry \in Nat /\ sinceDpc \in Nat
      /\ hnsCarry \in Nat /\ sinceDma \in Nat
  BY <1>1, NotifiedNat DEF TypeOK
<1>7. Notified = k + dpcCarry + sinceDpc /\ Notified' = k + dpcCarry + (sinceDpc + 1)
  BY <1>2, <1>5 DEF Notified, IntervalHns, geometry
<1> HIDE DEF k
<1>8. Notified' \in Nat /\ Notified' = Notified + 1
  BY <1>6, <1>7
<1>9. Notified' + hnsCarry + sinceDma <= Notified + hnsCarry' + sinceDma'
  <2>1. Notified \in Nat /\ hnsCarry' = hnsCarry
    BY <1>1, <1>2, NotifiedNat
  <2> QED
    BY <1>2, <1>6, <1>8, <2>1
<1>10. Paced' /\ CompletedIsConsumed'
  BY <1>1, <1>2, <1>3, <1>8, <1>9, PaceKept DEF IInv, os
<1> QED
  BY <1>3, <1>4, <1>10 DEF IInv

(* The callback is queued, comes too early, or SetState takes a step that  *)
(* touches no position.                                                    *)
LEMMA QuietTimerKeepsIInv ==
  ASSUME IInv, Fire \/ TimerTooEarly \/ Acquire \/ Pause \/ EnterRun \/ CancelTimer
  PROVE  IInv'
<1>1. UNCHANGED <<geometry, position, packets, os, clean>>
  BY DEF Fire, TimerTooEarly, Acquire, Pause, ChangeState, EnterRun, CancelTimer, NoUpdate
<1>2. TypeOK'
  <2>1. /\ ksState' \in KsStates /\ step' \in {"none", "starting", "flushing", "pausing"}
        /\ armed' \in BOOLEAN /\ dpc' \in BOOLEAN
    BY DEF IInv, TypeOK, KsStates, Fire, TimerTooEarly, Acquire, Pause, ChangeState, EnterRun,
           CancelTimer
  <2> QED
    BY <1>1, <2>1 DEF IInv, TypeOK, geometry, position, packets, os
<1>3. TimerInStep'
  BY <1>1 DEF IInv, TimerInStep, QuietWhenPaused, Rest, position, Fire, TimerTooEarly, Acquire,
              Pause, ChangeState, EnterRun, CancelTimer
<1>4. WriterBehind'
  BY <1>1 DEF IInv, WriterBehind, os, packets
<1>5. Since' <= Since
  <2>1. sinceDpc' = sinceDpc /\ sinceDpc \in Nat
    BY <1>1 DEF IInv, TypeOK, packets
  <2> QED
    BY <2>1 DEF Since, Rest, Fire, TimerTooEarly, Acquire, Pause, ChangeState, EnterRun, CancelTimer
<1>6. eos' = eos
  BY <1>1 DEF os
<1>7. Paced' /\ CompletedIsConsumed' /\ PositionsAgree'
  BY <1>1, <1>2, <1>5, <1>6, PlaceKept
<1> QED
  BY <1>2, <1>3, <1>4, <1>7 DEF IInv

LEMMA StopKeepsIInv ==
  ASSUME IInv, Stop PROVE IInv'
<1>1. /\ TypeOK /\ sinceDma = 0
      /\ packetCounter' = 0 /\ linear' = 0 /\ writePosition' = 0
      /\ UNCHANGED <<geometry, sinceDma, hnsCarry, byteCarry, dpcCarry, writer>>
      /\ writer = NoCall /\ clean' = (dpcCarry = 0)
  BY DEF IInv, Stop, TimerInStep, clock
<1>2. TypeOK'
  <2>1. clean' \in BOOLEAN /\ ksState' \in KsStates /\ eos' \in BOOLEAN /\ rendered' \in BOOLEAN
    BY <1>1 DEF Stop, KsStates
  <2>2. /\ packetCounter' \in Nat /\ writePosition' \in 0 .. size - 1 /\ linear' \in Nat
        /\ lastRead' \in Nat /\ currentWrite' \in 0 .. size /\ eosAt' \in Nat
    BY <1>1 DEF TypeOK, Stop
  <2>3. UNCHANGED <<size, count, interval, capture, step, armed, dpc, sinceDma, sinceDpc, hnsCarry,
                    byteCarry, dpcCarry, writer>>
    BY DEF Stop, geometry, clock
  <2> QED
    BY <1>1, <2>1, <2>2, <2>3 DEF TypeOK
<1>3. TimerInStep' /\ WriterBehind'
  BY <1>1 DEF IInv, TimerInStep, QuietWhenPaused, Rest, WriterBehind, Stop
<1>4. PositionsAgree'
  BY <1>1 DEF PositionsAgree, TypeOK, geometry
<1>5. /\ IntervalHns' = IntervalHns /\ PacketSize' = PacketSize
      /\ 0 * IntervalHns = 0 /\ 0 * PacketSize = 0
  <2>1. IntervalHns \in Nat /\ PacketSize \in Nat
    BY <1>1, NotifiedNat, DivMod DEF TypeOK, PacketSize
  <2> QED
    BY <1>1, <2>1 DEF IntervalHns, PacketSize, geometry
<1>6. Paced'
  <2> SUFFICES ASSUME clean' PROVE Fetched(0)'
    BY DEF Paced
  <2>1. dpcCarry' = 0 /\ Since' = 0
    BY <1>1 DEF Stop, Since, Rest
  <2>2. packetCounter' * IntervalHns' = 0
    BY <1>1, <1>5
  <2>3. Notified' = 0
    BY <2>1, <2>2 DEF Notified
  <2>4. Rate * 0 = 0 /\ HnsPerMs * 0 = 0 /\ MsPerSecond * 0 = 0
    BY StreamAssumption
  <2>5. byteCarry' \in Nat /\ hnsCarry' \in Nat /\ sinceDma' \in Nat
    BY <1>2 DEF TypeOK
  <2> QED
    BY <1>1, <2>3, <2>4, <2>5 DEF Fetched
<1>7. CompletedIsConsumed'
  <2>1. packetCounter' * PacketSize' = 0
    BY <1>1, <1>5
  <2> QED
    BY <1>1, <2>1 DEF CompletedIsConsumed, BufferCompletionIsReal
<1> QED
  BY <1>2, <1>3, <1>4, <1>6, <1>7 DEF IInv

LEMMA StartDmaKeepsIInv ==
  ASSUME IInv, StartDma PROVE IInv'
<1>1. /\ TypeOK /\ sinceDma = 0 /\ Rest /\ ksState = "PAUSE"
      /\ sinceDma' = 0 /\ sinceDpc' = 0 /\ step' = "starting"
      /\ UNCHANGED <<geometry, ksState, dpc, writePosition, linear, hnsCarry, byteCarry,
                     rendered, packetCounter, dpcCarry, os, clean>>
  BY DEF IInv, StartDma, TimerInStep
<1>2. TypeOK'
  BY <1>1 DEF TypeOK, StartDma, geometry, os
<1>3. TimerInStep' /\ WriterBehind' /\ PositionsAgree'
  BY <1>1 DEF IInv, TimerInStep, QuietWhenPaused, Rest, WriterBehind, PositionsAgree, geometry, os
<1>4. Since = 0 /\ Since' = 0
  BY <1>1 DEF Since, Rest
<1>5. Notified' = Notified
  BY <1>1, <1>4 DEF Notified, IntervalHns, geometry
<1>6. Notified' \in Nat /\ Notified' + hnsCarry + sinceDma <= Notified + hnsCarry' + sinceDma'
  <2>1. Notified \in Nat /\ hnsCarry \in Nat /\ sinceDma \in Nat
    BY <1>1, NotifiedNat DEF TypeOK
  <2> QED
    BY <1>1, <1>5, <2>1
<1>7. Paced' /\ CompletedIsConsumed'
  BY <1>1, <1>2, <1>6, PaceKept DEF IInv, os
<1> QED
  BY <1>2, <1>3, <1>7 DEF IInv

LEMMA FlushDpcsKeepsIInv ==
  ASSUME IInv, FlushDpcs PROVE IInv'
<1>1. /\ TypeOK /\ ~Rest /\ step' = "pausing" /\ ~dpc /\ ~armed /\ ksState = "RUN"
      /\ dpcCarry' = sinceDpc + dpcCarry /\ sinceDpc' = 0
      /\ UNCHANGED <<geometry, ksState, armed, dpc, packetCounter, os, clean, position>>
  BY DEF IInv, FlushDpcs, TimerInStep, Rest, NoUpdate
<1>2. TypeOK'
  BY <1>1 DEF TypeOK, geometry, os, position
<1>3. TimerInStep' /\ WriterBehind' /\ PositionsAgree'
  BY <1>1 DEF IInv, TimerInStep, QuietWhenPaused, Rest, WriterBehind, PositionsAgree, geometry,
              os, position
<1> DEFINE k == packetCounter * IntervalHns
<1>4. k \in Nat /\ dpcCarry \in Nat /\ sinceDpc \in Nat
  BY <1>1, NotifiedNat DEF TypeOK
<1>5. Notified = k + dpcCarry + sinceDpc /\ Notified' = k + (sinceDpc + dpcCarry) + 0
  BY <1>1 DEF Notified, Since, Rest, IntervalHns, geometry
<1> HIDE DEF k
<1>6. Notified' \in Nat /\ Notified' = Notified
  BY <1>4, <1>5
<1>7. Notified' + hnsCarry + sinceDma <= Notified + hnsCarry' + sinceDma'
  <2>1. hnsCarry \in Nat /\ sinceDma \in Nat /\ hnsCarry' = hnsCarry /\ sinceDma' = sinceDma
    BY <1>1 DEF TypeOK, position
  <2> QED
    BY <1>6, <2>1
<1>8. Paced' /\ CompletedIsConsumed'
  BY <1>1, <1>2, <1>6, <1>7, PaceKept DEF IInv, os, position
<1> QED
  BY <1>2, <1>3, <1>8 DEF IInv

(* What the audio engine says of its own position is inside the buffer.    *)
LEMMA OffsetTyped ==
  ASSUME TypeOK, NEW offset \in Nat, WritePositionTo(offset) \/ LastBufferTo(offset)
  PROVE  currentWrite' \in 0 .. size /\ eos' \in BOOLEAN /\ eosAt' \in Nat /\ ~eos
<1>1. currentWrite' \in 0 .. size /\ ~eos
  BY DEF TypeOK, WritePositionTo, LastBufferTo
<1>2. Upcoming(offset) \in Nat
  BY DEF TypeOK, Upcoming
<1>3. eos' \in BOOLEAN /\ eosAt' \in Nat
  BY <1>2 DEF TypeOK, WritePositionTo, LastBufferTo
<1> QED
  BY <1>1, <1>3

LEMMA EngineTyped ==
  ASSUME TypeOK, EndWritePacket \/ SetWritePosition
  PROVE  currentWrite' \in 0 .. size /\ eos' \in BOOLEAN /\ eosAt' \in Nat /\ ~eos
<1>1. \E offset \in Nat : WritePositionTo(offset) \/ LastBufferTo(offset)
  <2>1. CASE EndWritePacket
    <3>1. PacketSize \in Nat
      BY DivMod DEF TypeOK, PacketSize
    <3>2. ExpectedPacket \in Nat
      BY <2>1 DEF TypeOK, ExpectedPacket, EndWritePacket
    <3>3. ExpectedPacket % count \in Nat
      BY <3>2, DivMod DEF TypeOK
    <3>4. PacketOffset(ExpectedPacket) \in Nat
      BY <3>1, <3>3 DEF PacketOffset
    <3>5. \A length \in 0 .. PacketSize : PacketOffset(ExpectedPacket) + length \in Nat
      BY <3>1, <3>4
    <3>6. \/ WritePositionTo(PacketOffset(ExpectedPacket))
          \/ \E length \in 0 .. PacketSize : LastBufferTo(PacketOffset(ExpectedPacket) + length)
      BY <2>1 DEF EndWritePacket
    <3> QED
      BY <3>4, <3>5, <3>6
  <2>2. CASE SetWritePosition
    BY <2>2, StreamAssumption DEF SetWritePosition
  <2> QED
    BY <2>1, <2>2
<1> QED
  BY <1>1, OffsetTyped

LEMMA EngineKeepsIInv ==
  ASSUME IInv, BeginWritePacket \/ EndWritePacket \/ SetWritePosition \/ GetReadPacket
  PROVE  IInv'
<1>1. UNCHANGED <<geometry, ksState, step, armed, dpc, position, packets, clean>>
  BY DEF BeginWritePacket, EndWritePacket, SetWritePosition, GetReadPacket, NoUpdate
<1>2. /\ currentWrite' \in 0 .. size /\ eos' \in BOOLEAN /\ eosAt' \in Nat
      /\ eos => eos'
  BY EngineTyped DEF IInv, TypeOK, BeginWritePacket, GetReadPacket
<1>3. lastRead' \in Nat /\ writer' \in {writer, packetCounter, NoCall}
  BY DEF BeginWritePacket, EndWritePacket, SetWritePosition, GetReadPacket, IInv, TypeOK
<1>4. TypeOK'
  BY <1>1, <1>2, <1>3 DEF IInv, TypeOK, geometry, position, packets
<1>5. TimerInStep'
  BY <1>1 DEF IInv, TimerInStep, QuietWhenPaused, Rest, position
<1>6. WriterBehind'
  BY <1>1, <1>3 DEF IInv, TypeOK, WriterBehind, packets
<1>7. Since' <= Since
  BY <1>1 DEF IInv, TypeOK, Since, Rest, packets
<1>8. Paced' /\ CompletedIsConsumed' /\ PositionsAgree'
  BY <1>1, <1>2, <1>4, <1>7, PlaceKept
<1> QED
  BY <1>4, <1>5, <1>6, <1>8 DEF IInv

-----------------------------------------------------------------------------

LEMMA NextKeepsIInv == IInv /\ [Next]_vars => IInv'
<1> SUFFICES ASSUME IInv, [Next]_vars PROVE IInv'
  OBVIOUS
<1>1. CASE Tick
  BY <1>1, TickKeepsIInv
<1>2. CASE Fire \/ TimerTooEarly \/ Acquire \/ Pause \/ EnterRun \/ CancelTimer
  BY <1>2, QuietTimerKeepsIInv
<1>3. CASE TimerNotify
  BY <1>3, TimerNotifyKeepsIInv
<1>4. CASE Stop
  BY <1>4, StopKeepsIInv
<1>5. CASE StartDma
  BY <1>5, StartDmaKeepsIInv
<1>6. CASE FlushDpcs
  BY <1>6, FlushDpcsKeepsIInv
<1>7. CASE EnterPause
  BY <1>7, EnterPauseKeepsIInv
<1>8. CASE GetPosition
  BY <1>8, GetPositionKeepsIInv
<1>9. CASE BeginWritePacket \/ EndWritePacket \/ SetWritePosition \/ GetReadPacket
  BY <1>9, EngineKeepsIInv
<1>10. CASE UNCHANGED vars
  <2>1. UNCHANGED <<geometry, ksState, step, armed, dpc, position, packets, os, clean>>
    BY <1>10 DEF vars
  <2>2. TypeOK' /\ TimerInStep' /\ WriterBehind'
    BY <2>1 DEF IInv, TypeOK, TimerInStep, QuietWhenPaused, Rest, WriterBehind, geometry,
                position, packets, os
  <2>3. Since' <= Since /\ eos' = eos
    BY <2>1 DEF IInv, TypeOK, Since, Rest, packets, os
  <2> QED
    BY <2>1, <2>2, <2>3, PlaceKept DEF IInv
<1> QED
  BY <1>1, <1>2, <1>3, <1>4, <1>5, <1>6, <1>7, <1>8, <1>9, <1>10
  DEF Next, Timer, SetState, Engine

(* The inductive invariant holds in every state.                           *)
THEOREM StreamInvariant == Spec => []IInv
  BY InitIInv, NextKeepsIInv, PTL DEF Spec

(* Every field keeps its type, whatever the sizes, the rate and the delays:*)
(* none of the subtractions of minwavertstream.cpp goes below zero.        *)
THEOREM StreamTypeCorrect == Spec => []TypeOK
<1>1. IInv => TypeOK
  BY DEF IInv
<1> QED
  BY <1>1, StreamInvariant, PTL

(* The offset of the DMA engine and the linear position are the same place *)
(* for every buffer size and every displacement, across ends of streams,   *)
(* stops and restarts.                                                     *)
THEOREM StreamPositionsAgree == Spec => []PositionsAgree
<1>1. IInv => PositionsAgree
  BY DEF IInv
<1> QED
  BY <1>1, StreamInvariant, PTL

(* However late the timer and however often the position is asked for, no  *)
(* packet is counted before its last byte has been fetched.                *)
THEOREM StreamCompletedIsConsumed == Spec => []CompletedIsConsumed
<1>1. IInv => CompletedIsConsumed
  BY DEF IInv
<1> QED
  BY <1>1, StreamInvariant, PTL

(* A paused stream has no timer and no callback on its way.                *)
THEOREM StreamQuietWhenPaused == Spec => []QuietWhenPaused
<1>1. IInv => QuietWhenPaused
  BY DEF IInv, TimerInStep
<1> QED
  BY <1>1, StreamInvariant, PTL

(* The packet SetWritePacket accepts lies where nothing is still to be     *)
(* fetched, though the timer may run between its two holds of the lock.    *)
THEOREM StreamAcceptedIsFree == Spec => AcceptedIsFree
<1>1. ASSUME IInv, writer # NoCall, ksState = "RUN", clean, WholeInterval, count > 1
      PROVE  (ExpectedPacket + 1) * PacketSize <= linear + size
  <2>1. /\ writer \in Nat /\ packetCounter \in Nat /\ count \in Nat /\ linear \in Nat
        /\ writer <= packetCounter /\ ExpectedPacket = writer + 1 /\ PacketSize \in Nat
        /\ size \in Nat
    BY <1>1, DivMod DEF IInv, TypeOK, WriterBehind, ExpectedPacket, PacketSize
  <2>2. packetCounter * PacketSize <= linear
    BY <1>1 DEF IInv, CompletedIsConsumed, BufferCompletionIsReal
  <2>3. PacketSize * count = size
    BY <1>1 DEF WholeInterval
  <2>4. writer * PacketSize <= packetCounter * PacketSize
    BY <2>1
  <2>5. PacketSize * 2 <= PacketSize * count
    BY <1>1, <2>1
  <2>6. (ExpectedPacket + 1) * PacketSize = writer * PacketSize + PacketSize * 2
    BY <2>1
  <2> DEFINE w == writer * PacketSize
             p == packetCounter * PacketSize
  <2>7. w \in Nat /\ p \in Nat /\ w <= p /\ p <= linear /\ PacketSize * 2 <= size
        /\ (ExpectedPacket + 1) * PacketSize = w + PacketSize * 2
    BY <2>1, <2>2, <2>3, <2>4, <2>5, <2>6
  <2> HIDE DEF w, p
  <2> QED
    BY <2>1, <2>7
<1>2. IInv => (writer # NoCall /\ writer' = NoCall /\ ksState = "RUN" /\ step = "none"
                 /\ clean /\ WholeInterval /\ count > 1
               => (ExpectedPacket + 1) * PacketSize <= linear + size)
  BY <1>1
<1> QED
  BY <1>2, StreamInvariant, PTL DEF AcceptedIsFree

-----------------------------------------------------------------------------
(* No drift.                                                               *)

(* What the two divisions take from the time they give to the position,    *)
(* and the rest they carry.                                                *)
LEMMA UpdateKeepsProgress ==
  ASSUME TypeOK, UpdatePosition, Displacement = Moved
  PROVE  Progress' = Progress
<1>1. /\ ElapsedMs \in Nat /\ Moved \in Nat
      /\ Rate \in Nat /\ MsPerSecond \in Nat /\ HnsPerMs \in Nat
      /\ linear \in Nat /\ byteCarry \in Nat /\ hnsCarry \in Nat /\ sinceDma \in Nat
  BY MovesNat, StreamAssumption DEF TypeOK
<1>2. PICK h \in Nat : h = hnsCarry' /\ sinceDma + hnsCarry = HnsPerMs * ElapsedMs + h
  BY MovesNat DEF UpdatePosition
<1>3. PICK b \in Nat : b = byteCarry' /\ Rate * ElapsedMs + byteCarry = MsPerSecond * Moved + b
  BY MovesNat DEF UpdatePosition
<1>4. linear' = linear + Moved /\ sinceDma' = 0
  BY DEF UpdatePosition
<1> DEFINE e == ElapsedMs
           v == Moved
           R == Rate
           M == MsPerSecond
           H == HnsPerMs
<1>5. Progress' = H * (M * (linear + v) + b) + R * (h + 0)
  BY <1>2, <1>3, <1>4 DEF Progress
<1>6. Progress = H * (M * linear + byteCarry) + R * (hnsCarry + sinceDma)
  BY DEF Progress
<1>7. /\ e \in Nat /\ v \in Nat /\ R \in Nat /\ M \in Nat /\ H \in Nat
      /\ hnsCarry + sinceDma = H * e + h /\ R * e + byteCarry = M * v + b
  <2>1. hnsCarry + sinceDma = sinceDma + hnsCarry
    BY <1>1
  <2>2. e \in Nat /\ v \in Nat /\ R \in Nat /\ M \in Nat /\ H \in Nat
    BY <1>1
  <2>3. sinceDma + hnsCarry = H * e + h /\ R * e + byteCarry = M * v + b
    BY <1>2, <1>3
  <2> QED
    BY <2>1, <2>2, <2>3
<1> HIDE DEF e, v, R, M, H
<1>8. H * (M * (linear + v) + b) = H * (M * linear) + H * (M * v + b)
  BY <1>1, <1>7
<1>9. H * (M * linear + byteCarry) = H * (M * linear) + H * byteCarry
  BY <1>1, <1>7
<1>10. H * (M * v + b) = H * (R * e) + H * byteCarry
  BY <1>1, <1>7
<1>11. R * (hnsCarry + sinceDma) = R * (H * e) + R * h /\ H * (R * e) = R * (H * e)
  BY <1>1, <1>7
<1>12. R * (h + 0) = R * h
  BY <1>7
<1> DEFINE p == H * (M * linear)
           q == H * byteCarry
           r == R * (H * e)
           t == R * h
<1>13. p \in Nat /\ q \in Nat /\ r \in Nat /\ t \in Nat
  BY <1>1, <1>7
<1>14. Progress' = p + (r + q) + t
  BY <1>5, <1>8, <1>10, <1>11, <1>12
<1>15. Progress = (p + q) + (r + t)
  BY <1>6, <1>9, <1>11
<1> HIDE DEF p, q, r, t
<1> QED
  BY <1>13, <1>14, <1>15

(* The position is the rate times the time that has passed in RUN, to the  *)
(* last remainder: no reading of the clock, no callback, pause or restart  *)
(* loses or gains any of it.                                               *)
THEOREM StreamNoDrift == Spec => NoDrift
<1>1. ASSUME IInv, [Next]_vars, Displacement = Moved, ksState' # "STOP"
      PROVE  Progress' = Progress + (IF sinceDma' > sinceDma THEN Rate ELSE 0)
  <2>0. /\ TypeOK /\ TimerInStep
        /\ Rate \in Nat /\ MsPerSecond \in Nat /\ HnsPerMs \in Nat
        /\ linear \in Nat /\ byteCarry \in Nat /\ hnsCarry \in Nat /\ sinceDma \in Nat
    BY <1>1, StreamAssumption DEF IInv, TypeOK
  <2>1. Progress \in Nat
    BY <2>0 DEF Progress
  <2>2. CASE UpdatePosition
    <3>1. Progress' = Progress /\ sinceDma' = 0
      BY <1>1, <2>0, <2>2, UpdateKeepsProgress DEF UpdatePosition
    <3> QED
      BY <2>0, <2>1, <3>1
  <2>3. CASE UNCHANGED <<linear, byteCarry, hnsCarry, sinceDma>>
    <3>1. Progress' = Progress
      BY <2>3 DEF Progress
    <3> QED
      BY <2>0, <2>1, <2>3, <3>1
  <2>4. CASE Tick
    <3>1. /\ UNCHANGED <<linear, byteCarry, hnsCarry>> /\ sinceDma' = sinceDma + 1
      BY <2>4 DEF Tick
    <3> DEFINE p == HnsPerMs * (MsPerSecond * linear + byteCarry)
               n == hnsCarry + sinceDma
    <3>2. Progress' = p + Rate * (n + 1) /\ Progress = p + Rate * n
      <4>1. hnsCarry + (sinceDma + 1) = n + 1
        BY <2>0
      <4>2. Progress' = p + Rate * (hnsCarry + (sinceDma + 1))
        BY <3>1 DEF Progress
      <4> QED
        BY <4>1, <4>2 DEF Progress
    <3>3. p \in Nat /\ n \in Nat
      BY <2>0
    <3> HIDE DEF p, n
    <3>4. Rate * (n + 1) = Rate * n + Rate /\ Rate * n \in Nat
      BY <2>0, <3>3
    <3>5. Progress' = Progress + Rate
      BY <2>0, <3>2, <3>3, <3>4
    <3> QED
      BY <2>0, <3>1, <3>5
  <2>5. CASE StartDma
    <3>1. UNCHANGED <<linear, byteCarry, hnsCarry>> /\ sinceDma = 0 /\ sinceDma' = 0
      BY <2>0, <2>5 DEF StartDma, TimerInStep
    <3> QED
      BY <2>3, <3>1
  <2>6. ~Stop
    BY <1>1 DEF Stop
  <2>7. CASE GetPosition \/ TimerNotify \/ EnterPause
    BY <2>2, <2>7 DEF GetPosition, TimerNotify, EnterPause
  <2>8. CASE \/ Fire \/ TimerTooEarly \/ Acquire \/ Pause \/ EnterRun \/ CancelTimer
             \/ FlushDpcs \/ GetReadPacket \/ BeginWritePacket \/ EndWritePacket
             \/ SetWritePosition
    BY <2>3, <2>8
    DEF Fire, TimerTooEarly, Acquire, Pause, ChangeState, EnterRun, CancelTimer, FlushDpcs,
        GetReadPacket, BeginWritePacket, EndWritePacket, SetWritePosition, NoUpdate, position
  <2>9. CASE UNCHANGED vars
    BY <2>3, <2>9 DEF vars, position
  <2> QED
    BY <1>1, <2>4, <2>5, <2>6, <2>7, <2>8, <2>9 DEF Next, Timer, SetState, Engine
<1> QED
  BY <1>1, StreamInvariant, PTL DEF Spec, NoDrift

-----------------------------------------------------------------------------
(* The end of a stream.                                                    *)

(* What LagBelowBuffer says of the buffer that was allocated.              *)
Roomy == Rate * MostMs + MsPerSecond - 1 < MsPerSecond * size

(* NothingPastEos alone is not inductive: an update compares offsets and   *)
(* never looks at the linear position.  While the end is ahead, it is at   *)
(* the offset where the engine announced it, less than a turn away.        *)
EndAhead == eos /\ ~capture /\ currentWrite < size => eosAt = Upcoming(currentWrite)

EosInv == sinceDma <= MaxLag /\ Roomy /\ EndAhead

LEMMA MovedBelowSize ==
  ASSUME TypeOK, sinceDma <= MaxLag, Roomy
  PROVE  Moved \in Nat /\ Moved < size
<1> DEFINE e == ElapsedMs
           m == MostMs
           v == Moved
           r == (sinceDma + hnsCarry) % HnsPerMs
           c == (Rate * ElapsedMs + byteCarry) % MsPerSecond
           l == MaxLag + HnsPerMs - 1
<1>1. /\ HnsPerMs \in Nat \ {0} /\ MsPerSecond \in Nat \ {0} /\ Rate \in Nat
      /\ MaxLag \in Nat /\ size \in Nat /\ sinceDma \in Nat
      /\ hnsCarry \in 0 .. HnsPerMs - 1 /\ byteCarry \in 0 .. MsPerSecond - 1
  BY StreamAssumption DEF TypeOK
<1>2. /\ e \in Nat /\ v \in Nat /\ r \in 0 .. HnsPerMs - 1 /\ c \in 0 .. MsPerSecond - 1
      /\ sinceDma + hnsCarry = HnsPerMs * e + r
      /\ Rate * e + byteCarry = MsPerSecond * v + c
  BY MovesNat
<1>3. l \in Nat /\ sinceDma + hnsCarry <= l
  BY <1>1
<1>4. m \in Nat /\ l % HnsPerMs \in 0 .. HnsPerMs - 1 /\ l = HnsPerMs * m + (l % HnsPerMs)
  BY <1>1, <1>3, DivMod DEF MostMs
<1> DEFINE he == HnsPerMs * e
           hm == HnsPerMs * m
           q == l % HnsPerMs
<1>5. he <= hm + q
  <2>1. he \in Nat /\ hm \in Nat /\ q \in Nat
    BY <1>1, <1>2, <1>4
  <2> HIDE DEF he, hm, q, l, r, e, m
  <2>2. sinceDma + hnsCarry = he + r /\ l = hm + q
    BY <1>2, <1>4 DEF he, hm, q
  <2> QED
    BY <1>1, <1>2, <1>3, <2>1, <2>2
<1>6. e <= m
  <2> HIDE DEF q, l, r, e, m
  <2> QED
    BY <1>1, <1>2, <1>4, <1>5, WholeBelow DEF q
<1>7. Rate * e <= Rate * m
  <2> HIDE DEF e, m
  <2> QED
    BY <1>1, <1>2, <1>4, <1>6
<1> DEFINE re == Rate * e
           rm == Rate * m
           sv == MsPerSecond * v
           ss == MsPerSecond * size
<1>8. sv < ss
  <2>1. re \in Nat /\ rm \in Nat /\ sv \in Nat /\ ss \in Nat
    BY <1>1, <1>2, <1>4
  <2>2. rm + MsPerSecond - 1 < ss
    BY DEF Roomy
  <2>3. re + byteCarry = sv + c /\ re <= rm
    BY <1>2, <1>7
  <2> HIDE DEF re, rm, sv, ss, c
  <2> QED
    BY <1>1, <1>2, <2>1, <2>2, <2>3 DEF c
<1>9. v < size
  <2> HIDE DEF v
  <2>1. CASE size <= v
    <3>1. MsPerSecond * size <= MsPerSecond * v
      BY <1>1, <1>2, <2>1
    <3> QED
      BY <1>1, <1>2, <1>8, <3>1
  <2> QED
    BY <1>1, <1>2, <2>1
<1> QED
  BY <1>2, <1>9

(* Less than a turn, an offset wraps at most once.                         *)
LEMMA WrapsOnce ==
  ASSUME NEW n \in Nat \ {0}, NEW w \in 0 .. n - 1, NEW d \in 0 .. n - 1
  PROVE  (w + d) % n = IF w + d < n THEN w + d ELSE w + d - n
<1>1. /\ w + d = n * ((w + d) \div n) + ((w + d) % n)
      /\ (w + d) % n \in 0 .. n - 1 /\ (w + d) \div n \in Nat
  <2>1. w + d \in Nat
    OBVIOUS
  <2> QED
    BY <2>1, DivMod
<1> DEFINE q == (w + d) \div n
           r == (w + d) % n
<1>2. CASE w + d < n
  <2>1. n * q + r = n * 0 + (w + d)
    BY <1>1
  <2>2. q \in Int /\ 0 \in Int /\ r \in 0 .. n - 1 /\ w + d \in 0 .. n - 1
    BY <1>1, <1>2
  <2> HIDE DEF q, r
  <2>3. r = w + d
    BY <2>1, <2>2, Quotient
  <2> QED
    BY <1>2, <2>3 DEF r
<1>3. CASE w + d >= n
  <2>1. n * q + r = n * 1 + (w + d - n)
    BY <1>1
  <2>2. q \in Int /\ 1 \in Int /\ r \in 0 .. n - 1 /\ w + d - n \in 0 .. n - 1
    BY <1>1, <1>3
  <2> HIDE DEF q, r
  <2>3. r = w + d - n
    BY <2>1, <2>2, Quotient
  <2> QED
    BY <1>3, <2>3 DEF r
<1> QED
  BY <1>2, <1>3

(* An update goes towards the end, on the same turn or over the wrap, and  *)
(* not past it.                                                            *)
LEMMA UpdateKeepsEndAhead ==
  ASSUME TypeOK, EndAhead, sinceDma <= MaxLag, Roomy, UpdatePosition, UNCHANGED <<geometry, os>>
  PROVE  EndAhead'
<1> SUFFICES ASSUME eos, ~capture, currentWrite < size PROVE eosAt' = Upcoming(currentWrite)'
  BY DEF EndAhead, geometry, os
<1> DEFINE v == Moved
           w == writePosition
           k == currentWrite
<1>1. /\ size \in Nat \ {0} /\ w \in 0 .. size - 1 /\ k \in 0 .. size - 1
      /\ linear \in Nat /\ v \in 0 .. size - 1 /\ eosAt \in Nat
  BY MovedBelowSize DEF TypeOK
<1>2. /\ eosAt' = eosAt /\ currentWrite' = k /\ size' = size
      /\ eosAt = Upcoming(currentWrite)
  BY DEF EndAhead, os, geometry
<1>3. /\ writePosition' = (w + CutAtEos) % size
      /\ linear' = linear + CutAtEos
  BY DEF UpdatePosition, Displacement, After
<1>4. CASE w <= k
  <2>1. CutAtEos \in 0 .. size - 1 /\ CutAtEos <= k - w
    BY <1>1, <1>4 DEF CutAtEos, Least
  <2>2. writePosition' = w + CutAtEos
    <3> DEFINE d == CutAtEos
    <3>1. size \in Nat \ {0} /\ w \in 0 .. size - 1 /\ d \in 0 .. size - 1
      BY <1>1, <2>1
    <3> HIDE DEF d, w
    <3>2. (w + d) % size = IF w + d < size THEN w + d ELSE w + d - size
      BY <3>1, WrapsOnce
    <3>3. writePosition' = (w + d) % size
      BY <1>3 DEF d
    <3>4. w + d < size
      BY <1>1, <1>4, <2>1 DEF d
    <3> QED
      BY <3>2, <3>3, <3>4 DEF d
  <2> HIDE DEF CutAtEos
  <2> QED
    BY <1>1, <1>2, <1>3, <1>4, <2>1, <2>2 DEF Upcoming
<1>5. CASE k < w
  <2>1. After(Moved) = IF w + v < size THEN w + v ELSE w + v - size
    BY <1>1, WrapsOnce DEF After
  <2>7. (w + v) % size = IF w + v < size THEN w + v ELSE w + v - size
    BY <1>1, WrapsOnce
  <2>2. CutAtEos = IF k < After(Moved) /\ After(Moved) < w
                   THEN v - (After(Moved) - k) ELSE v
    BY <1>1, <1>5 DEF CutAtEos
  <2>3. eosAt = linear + (size - w) + k
    BY <1>1, <1>2, <1>5 DEF Upcoming
  <2> HIDE DEF v
  <2>4. CASE w + v < size
    <3>1. CutAtEos = v /\ writePosition' = w + v
      BY <1>1, <1>3, <2>1, <2>2, <2>4, <2>7
    <3> QED
      BY <1>1, <1>2, <1>3, <1>5, <2>3, <2>4, <3>1 DEF Upcoming
  <2>5. CASE w + v >= size /\ w + v - size <= k
    <3>1. CutAtEos = v /\ writePosition' = w + v - size
      BY <1>1, <1>3, <2>1, <2>2, <2>5, <2>7
    <3> QED
      BY <1>1, <1>2, <1>3, <1>5, <2>3, <2>5, <3>1 DEF Upcoming
  <2>6. CASE w + v >= size /\ w + v - size > k
    <3>1. CutAtEos = size - w + k
      BY <1>1, <2>1, <2>2, <2>6
    <3>2. CutAtEos \in 0 .. size - 1
      BY <1>1, <1>5, <3>1
    <3>3. writePosition' = k
      BY <1>1, <1>3, <1>5, <3>1, <3>2, WrapsOnce
    <3> QED
      BY <1>1, <1>2, <1>3, <1>5, <2>3, <3>1, <3>3 DEF Upcoming
  <2> QED
    BY <1>1, <2>4, <2>5, <2>6
<1> QED
  BY <1>1, <1>4, <1>5

LEMMA InitEosInv ==
  ASSUME LagBelowBuffer
  PROVE  Init => EosInv
<1> SUFFICES ASSUME Init PROVE EosInv
  OBVIOUS
<1>1. sinceDma <= MaxLag
  BY StreamAssumption DEF Init
<1>2. Roomy
  BY DEF Init, Allocatable, LagBelowBuffer, Roomy
<1>3. EndAhead
  BY DEF Init, EndAhead
<1> QED
  BY <1>1, <1>2, <1>3 DEF EosInv

LEMMA NextKeepsEosInv == IInv /\ EosInv /\ [Next]_vars => EosInv'
<1> SUFFICES ASSUME IInv, EosInv, [Next]_vars PROVE EosInv'
  OBVIOUS
<1>0. TypeOK /\ sinceDma <= MaxLag /\ Roomy /\ EndAhead
  BY DEF IInv, EosInv
<1>1. UNCHANGED geometry
  BY DEF Next, Tick, Timer, Fire, TimerTooEarly, TimerNotify, SetState, Acquire, Pause,
         ChangeState, Stop, StartDma, EnterRun, CancelTimer, FlushDpcs, EnterPause,
         Engine, GetPosition, GetReadPacket, BeginWritePacket, EndWritePacket,
         SetWritePosition, vars
<1>2. Roomy'
  BY <1>0, <1>1 DEF Roomy, geometry, MostMs
<1>3. CASE GetPosition \/ EnterPause \/ TimerNotify
  <2>1. UpdatePosition /\ UNCHANGED <<geometry, os>>
    BY <1>3 DEF GetPosition, EnterPause, TimerNotify
  <2>2. EndAhead'
    BY <1>0, <2>1, UpdateKeepsEndAhead
  <2>3. sinceDma' = 0 /\ MaxLag \in Nat
    BY <2>1, StreamAssumption DEF UpdatePosition
  <2> QED
    BY <1>2, <2>2, <2>3 DEF EosInv
<1>4. CASE Tick
  <2>1. sinceDma' <= MaxLag
    BY <1>0, <1>4, StreamAssumption DEF Tick, TypeOK
  <2>2. EndAhead'
    BY <1>0, <1>1, <1>4 DEF Tick, EndAhead, Upcoming, geometry, os
  <2> QED
    BY <1>2, <2>1, <2>2 DEF EosInv
<1>5. CASE Stop
  <2>1. EndAhead' /\ sinceDma' = sinceDma
    BY <1>5 DEF Stop, EndAhead, clock
  <2> QED
    BY <1>0, <1>2, <2>1 DEF EosInv
<1>6. CASE StartDma
  <2>1. EndAhead'
    BY <1>0, <1>1, <1>6 DEF StartDma, EndAhead, Upcoming, geometry, os
  <2>2. sinceDma' = 0 /\ MaxLag \in Nat
    BY <1>6, StreamAssumption DEF StartDma
  <2> QED
    BY <1>2, <2>1, <2>2 DEF EosInv
<1>7. CASE EndWritePacket \/ SetWritePosition
  <2>1. UNCHANGED position /\ \E offset : WritePositionTo(offset) \/ LastBufferTo(offset)
    BY <1>7 DEF EndWritePacket, SetWritePosition, NoUpdate
  <2>2. PICK offset : WritePositionTo(offset) \/ LastBufferTo(offset)
    BY <2>1
  <2>3. EndAhead'
    BY <1>1, <2>1, <2>2
    DEF EndAhead, Upcoming, WritePositionTo, LastBufferTo, geometry, position
  <2>4. sinceDma' = sinceDma
    BY <2>1 DEF position
  <2> QED
    BY <1>0, <1>2, <2>3, <2>4 DEF EosInv
<1>8. CASE UNCHANGED <<geometry, position, currentWrite, eos, eosAt>>
  <2>1. EndAhead' /\ sinceDma' = sinceDma
    BY <1>0, <1>8 DEF EndAhead, Upcoming, geometry, position
  <2> QED
    BY <1>0, <1>2, <2>1 DEF EosInv
<1>9. CASE \/ Fire \/ TimerTooEarly \/ Acquire \/ Pause \/ EnterRun \/ CancelTimer \/ FlushDpcs
           \/ BeginWritePacket \/ GetReadPacket \/ UNCHANGED vars
  <2>1. UNCHANGED <<geometry, position, currentWrite, eos, eosAt>>
    BY <1>9
    DEF Fire, TimerTooEarly, Acquire, Pause, ChangeState, EnterRun, CancelTimer, FlushDpcs,
        BeginWritePacket, GetReadPacket, NoUpdate, vars, os
  <2> QED
    BY <1>8, <2>1
<1> QED
  BY <1>3, <1>4, <1>5, <1>6, <1>7, <1>9 DEF Next, Timer, SetState, Engine

(* Fetching stops at the byte announced as the end, for every buffer and   *)
(* however often and from wherever the position is asked for, as long as   *)
(* the clock is read before the buffer has gone round, and the end is not  *)
(* the last byte of the buffer.                                            *)
THEOREM StreamNothingPastEos ==
  ASSUME LagBelowBuffer
  PROVE  Spec => []NothingPastEos
<1>1. Spec => []EosInv
  <2>1. Init => EosInv
    BY InitEosInv
  <2> QED
    BY <2>1, NextKeepsEosInv, StreamInvariant, PTL DEF Spec
<1>2. IInv /\ EosInv => NothingPastEos
  BY DEF IInv, TypeOK, EosInv, EndAhead, Upcoming, NothingPastEos, EosRespected
<1> QED
  BY <1>1, <1>2, StreamInvariant, PTL

-----------------------------------------------------------------------------
(* What is handed on.  The loop and the flattening are recursive, so their *)
(* proofs are by induction: a set of numbers has a least one, and a least  *)
(* counterexample would have a smaller one.                                *)

LEMMA LeastNatural ==
  ASSUME NEW T \in SUBSET Nat, T # {}
  PROVE  \E n \in T : \A m \in T : n <= m
<1> DEFINE R == OpToRel(<, Nat)
<1>1. IsWellFoundedOn(R, Nat)
  BY NatLessThanWellFounded
<1>2. \A x, y \in Nat : x < y => <<x, y>> \in R
  BY DEF OpToRel
<1> HIDE DEF R
<1>3. PICK n \in T : \A m \in T : ~(<<m, n>> \in R)
  BY <1>1, WFMin
<1>4. ASSUME NEW m \in T PROVE n <= m
  <2>1. ~(m < n)
    BY <1>2, <1>3
  <2> QED
    BY <2>1
<1> QED
  BY <1>4

LEMMA NoCounterexample ==
  ASSUME NEW Holds, \A n \in Nat : (\A m \in 0 .. n - 1 : m \in Holds) => n \in Holds
  PROVE  \A n \in Nat : n \in Holds
<1> DEFINE T == {n \in Nat : n \notin Holds}
<1> SUFFICES ASSUME T # {} PROVE FALSE
  OBVIOUS
<1>1. PICK n \in T : \A m \in T : n <= m
  BY LeastNatural
<1>2. \A m \in 0 .. n - 1 : m \in Holds
  BY <1>1
<1> QED
  BY <1>1, <1>2

(* FlattenSeq.                                                             *)

Flattens(f, s, n) == f = [i \in 1 .. n |-> IF i = 1 THEN s[i] ELSE f[i - 1] \o s[i]]

LEMMA FlattenDefined ==
  ASSUME NEW s
  PROVE  \A n \in Nat : \E f : Flattens(f, s, n)
<1> DEFINE Holds == {n \in Nat : \E f : Flattens(f, s, n)}
<1>1. ASSUME NEW n \in Nat, \A m \in 0 .. n - 1 : m \in Holds
      PROVE  n \in Holds
  <2>1. CASE n = 0
    <3>1. Flattens([i \in 1 .. 0 |-> 0], s, 0)
      BY DEF Flattens
    <3> QED
      BY <2>1, <3>1
  <2>2. CASE n > 0
    <3>1. n - 1 \in Holds
      BY <1>1, <2>2
    <3>2. PICK f : Flattens(f, s, n - 1)
      BY <3>1
    <3> DEFINE g == [i \in 1 .. n |-> IF i < n THEN f[i]
                                      ELSE IF i = 1 THEN s[i] ELSE f[i - 1] \o s[i]]
               h == [i \in 1 .. n |-> IF i = 1 THEN s[i] ELSE g[i - 1] \o s[i]]
    <3>3. ASSUME NEW i \in 1 .. n PROVE g[i] = h[i]
      <4>1. CASE i < n
        <5>1. i \in 1 .. n - 1 /\ g[i] = f[i]
          BY <2>2, <4>1
        <5>2. f[i] = IF i = 1 THEN s[i] ELSE f[i - 1] \o s[i]
          BY <3>2, <5>1 DEF Flattens
        <5>3. i # 1 => g[i - 1] = f[i - 1]
          BY <2>2, <4>1
        <5>4. h[i] = IF i = 1 THEN s[i] ELSE g[i - 1] \o s[i]
          OBVIOUS
        <5> QED
          BY <5>1, <5>2, <5>3, <5>4
      <4>2. CASE i = n
        <5>1. i # 1 => g[i - 1] = f[i - 1]
          BY <2>2, <4>2
        <5>2. g[i] = IF i = 1 THEN s[i] ELSE f[i - 1] \o s[i]
          BY <4>2
        <5>3. h[i] = IF i = 1 THEN s[i] ELSE g[i - 1] \o s[i]
          OBVIOUS
        <5> QED
          BY <5>1, <5>2, <5>3
      <4> QED
        BY <4>1, <4>2
    <3>4. g = h
      BY <3>3
    <3>5. Flattens(g, s, n)
      BY <3>4 DEF Flattens
    <3> QED
      BY <3>5
  <2> QED
    BY <2>1, <2>2
<1> HIDE DEF Holds
<1>2. \A n \in Nat : n \in Holds
  BY <1>1, NoCounterexample
<1> QED
  BY <1>2 DEF Holds

LEMMA FlattenIs ==
  ASSUME NEW s, NEW n \in Nat \ {0}, Len(s) = n
  PROVE  \E f : Flattens(f, s, n) /\ FlattenSeq(s) = f[n]
<1> DEFINE f == CHOOSE g : Flattens(g, s, n)
<1>1. Flattens(f, s, n)
  <2>1. \E g : Flattens(g, s, n)
    BY FlattenDefined
  <2> QED
    BY <2>1
<1>2. FlattenSeq(s) = f[n]
  BY DEF FlattenSeq, Flattens
<1> QED
  BY <1>1, <1>2

-----------------------------------------------------------------------------
(* The loop.                                                               *)

Loops(f, bytes) ==
  f = [left \in 0 .. bytes |->
        [at \in 0 .. size - 1 |->
           IF left = 0 THEN << >>
           ELSE LET run == Least(left, size - at)
                IN  <<[offset |-> at, length |-> run]>>
                      \o f[left - run][(at + run) % size]]]

LEMMA RunTyped ==
  ASSUME size \in Nat \ {0}, NEW left \in Nat \ {0}, NEW at \in 0 .. size - 1
  PROVE  /\ Least(left, size - at) \in 1 .. left
         /\ at + Least(left, size - at) \in 1 .. size
         /\ left - Least(left, size - at) \in 0 .. left - 1
         /\ (at + Least(left, size - at)) % size \in 0 .. size - 1
<1>1. /\ Least(left, size - at) \in 1 .. left
      /\ at + Least(left, size - at) \in 1 .. size
  BY DEF Least
<1> HIDE DEF Least
<1>2. (at + Least(left, size - at)) % size \in 0 .. size - 1
  <2> DEFINE a == at + Least(left, size - at)
  <2>1. a \in Nat
    BY <1>1
  <2> HIDE DEF a
  <2>2. a % size \in 0 .. size - 1
    BY <2>1, DivMod
  <2> QED
    BY <2>2 DEF a
<1> QED
  BY <1>1, <1>2

LEMMA LoopDefined ==
  ASSUME size \in Nat \ {0}
  PROVE  \A n \in Nat : \E f : Loops(f, n)
<1> DEFINE Holds == {n \in Nat : \E f : Loops(f, n)}
<1>1. ASSUME NEW n \in Nat, \A m \in 0 .. n - 1 : m \in Holds
      PROVE  n \in Holds
  <2>1. CASE n = 0
    <3> DEFINE g == [left \in 0 .. 0 |-> [at \in 0 .. size - 1 |-> << >>]]
    <3>1. Loops(g, 0)
      BY DEF Loops
    <3> QED
      BY <2>1, <3>1
  <2>2. CASE n > 0
    <3>1. n - 1 \in Holds
      BY <1>1, <2>2
    <3>2. PICK f : Loops(f, n - 1)
      BY <3>1
    <3> DEFINE Body(k, left) ==
          [at \in 0 .. size - 1 |->
             IF left = 0 THEN << >>
             ELSE LET run == Least(left, size - at)
                  IN  <<[offset |-> at, length |-> run]>>
                        \o k[left - run][(at + run) % size]]
    <3> DEFINE g == [left \in 0 .. n |-> IF left < n THEN f[left] ELSE Body(f, left)]
    <3>3. ASSUME NEW left \in 0 .. n PROVE g[left] = Body(g, left)
      <4>1. g[left] = Body(f, left)
        <5>1. CASE left < n
          <6>1. left \in 0 .. n - 1
            BY <2>2, <5>1
          <6>2. f[left] = Body(f, left)
            BY <3>2, <6>1, Zenon DEF Loops
          <6> QED
            BY <5>1, <6>2
        <5>2. CASE left = n
          BY <5>2
        <5> QED
          BY <5>1, <5>2
      <4>2. ASSUME NEW at \in 0 .. size - 1 PROVE Body(f, left)[at] = Body(g, left)[at]
        <5>1. CASE left = 0
          BY <5>1
        <5>2. CASE left # 0
          <6>0. left \in Nat \ {0}
            BY <5>2
          <6>1. left - Least(left, size - at) \in 0 .. left - 1
            BY <6>0, RunTyped
          <6> HIDE DEF Least
          <6>2. g[left - Least(left, size - at)] = f[left - Least(left, size - at)]
            BY <6>1
          <6> HIDE DEF g
          <6> QED
            BY <5>2, <6>2
        <5> QED
          BY <5>1, <5>2
      <4>3. Body(f, left) = Body(g, left)
        BY <4>2
      <4> QED
        BY <4>1, <4>3
    <3> HIDE DEF Body
    <3>4. g = [left \in 0 .. n |-> Body(g, left)]
      <4>1. g = [left \in 0 .. n |-> g[left]]
        OBVIOUS
      <4> HIDE DEF g
      <4> QED
        BY <3>3, <4>1
    <3> HIDE DEF g
    <3>5. Loops(g, n)
      BY <3>4 DEF Loops, Body
    <3> QED
      BY <3>5
  <2> QED
    BY <2>1, <2>2
<1> HIDE DEF Holds
<1>2. \A n \in Nat : n \in Holds
  BY <1>1, NoCounterexample
<1> QED
  BY <1>2 DEF Holds

(* done[i] of the bytes are handed on in the first i runs, from where the  *)
(* offset says on, and no run crosses the end of the buffer.               *)
Covers(runs, done, at, bytes) ==
  /\ runs \in Seq([offset : 0 .. size - 1, length : Nat])
  /\ done \in [0 .. Len(runs) -> Nat]
  /\ done[0] = 0 /\ done[Len(runs)] = bytes
  /\ \A i \in 1 .. Len(runs) :
       /\ done[i] = done[i - 1] + runs[i].length
       /\ runs[i].offset = (at + done[i - 1]) % size
       /\ runs[i].offset + runs[i].length <= size

(* What is done after a run more: everything shifts by one place.          *)
Shifted(done, k, run) == [i \in 0 .. k + 1 |-> IF i = 0 THEN 0 ELSE run + done[i - 1]]

LEMMA DoneShifts ==
  ASSUME NEW k \in Nat, NEW run \in Nat, NEW done \in [0 .. k -> Nat], done[0] = 0
  PROVE  /\ Shifted(done, k, run) \in [0 .. k + 1 -> Nat]
         /\ Shifted(done, k, run)[0] = 0
         /\ Shifted(done, k, run)[1] = run
         /\ Shifted(done, k, run)[k + 1] = run + done[k]
         /\ \A j \in 1 .. k : /\ Shifted(done, k, run)[j + 1] = run + done[j]
                              /\ Shifted(done, k, run)[j] = run + done[j - 1]
<1>1. ASSUME NEW i \in 0 .. k + 1
      PROVE  (IF i = 0 THEN 0 ELSE run + done[i - 1]) \in Nat
  <2>1. CASE i = 0
    BY <2>1
  <2>2. CASE i # 0
    <3>1. i - 1 \in 0 .. k
      BY <2>2
    <3>2. done[i - 1] \in Nat
      BY <3>1
    <3> QED
      BY <2>2, <3>2
  <2> QED
    BY <2>1, <2>2
<1>2. ASSUME NEW j \in 0 .. k PROVE Shifted(done, k, run)[j + 1] = run + done[j]
  <2>1. j + 1 \in 0 .. k + 1 /\ j + 1 # 0 /\ (j + 1) - 1 = j
    OBVIOUS
  <2> QED
    BY <2>1 DEF Shifted
<1>3. Shifted(done, k, run)[1] = run
  <2>1. 0 \in 0 .. k /\ 0 + 1 = 1 /\ run + 0 = run
    OBVIOUS
  <2> QED
    BY <1>2, <2>1
<1>4. ASSUME NEW j \in 1 .. k PROVE Shifted(done, k, run)[j] = run + done[j - 1]
  <2>1. j \in 0 .. k + 1 /\ j # 0
    OBVIOUS
  <2> QED
    BY <2>1 DEF Shifted
<1>5. Shifted(done, k, run)[0] = 0 /\ k \in 0 .. k
  BY DEF Shifted
<1>6. Shifted(done, k, run) \in [0 .. k + 1 -> Nat]
  BY <1>1 DEF Shifted
<1>7. \A j \in 1 .. k : j \in 0 .. k
  OBVIOUS
<1> QED
  BY <1>2, <1>3, <1>4, <1>5, <1>6, <1>7

LEMMA OneMoreRun ==
  ASSUME size \in Nat \ {0}, NEW at \in 0 .. size - 1, NEW run \in Nat, NEW left \in Nat,
         at + run <= size,
         NEW runs, NEW done, Covers(runs, done, (at + run) % size, left)
  PROVE  \E d : Covers(<<[offset |-> at, length |-> run]>> \o runs, d, at, run + left)
<1> DEFINE first == [offset |-> at, length |-> run]
           R == [offset : 0 .. size - 1, length : Nat]
           all == <<first>> \o runs
           n == Len(runs)
           d == Shifted(done, n, run)
<1>1. /\ runs \in Seq(R) /\ first \in R
      /\ done \in [0 .. Len(runs) -> Nat] /\ done[0] = 0 /\ done[Len(runs)] = left
  BY DEF Covers
<1>2. Len(runs) \in Nat
  BY <1>1, LenProperties
<1>3. /\ all \in Seq(R) /\ Len(all) = Len(runs) + 1
      /\ all[1] = first
      /\ \A i \in 1 .. Len(runs) : all[i + 1] = runs[i]
  <2> HIDE DEF R, first
  <2>1. <<first>> \in Seq(R) /\ Len(<<first>>) = 1 /\ <<first>>[1] = first
    BY <1>1
  <2> DEFINE f == <<first>>
  <2> HIDE DEF f
  <2>2. f \in Seq(R) /\ Len(f) = 1 /\ f[1] = first
    BY <2>1 DEF f
  <2>3. /\ f \o runs \in Seq(R) /\ Len(f \o runs) = 1 + Len(runs)
        /\ \A i \in 1 .. 1 + Len(runs) :
             (f \o runs)[i] = IF i <= 1 THEN f[i] ELSE runs[i - 1]
    BY <1>1, <2>2, ConcatProperties
  <2> HIDE DEF all
  <2>4. all = f \o runs
    BY DEF all, f
  <2>5. \A i \in 1 .. Len(runs) : i + 1 \in 1 .. 1 + Len(runs) /\ ~(i + 1 <= 1) /\ (i + 1) - 1 = i
    BY <1>2
  <2> QED
    BY <1>2, <2>2, <2>3, <2>4, <2>5
<1> HIDE DEF all
<1>n. n \in Nat /\ done \in [0 .. n -> Nat] /\ done[0] = 0 /\ done[n] = left
  BY <1>1, <1>2
<1> HIDE DEF n
<1>4. /\ d \in [0 .. n + 1 -> Nat] /\ d[0] = 0 /\ d[1] = run /\ d[n + 1] = run + left
      /\ \A j \in 1 .. n : d[j + 1] = run + done[j] /\ d[j] = run + done[j - 1]
  <2> HIDE DEF d
  <2>1. /\ d \in [0 .. n + 1 -> Nat] /\ d[0] = 0 /\ d[1] = run /\ d[n + 1] = run + done[n]
        /\ \A j \in 1 .. n : d[j + 1] = run + done[j] /\ d[j] = run + done[j - 1]
    <3>1. \A k, r \in Nat : \A g \in [0 .. k -> Nat] : g[0] = 0 =>
            /\ Shifted(g, k, r) \in [0 .. k + 1 -> Nat]
            /\ Shifted(g, k, r)[0] = 0
            /\ Shifted(g, k, r)[1] = r
            /\ Shifted(g, k, r)[k + 1] = r + g[k]
            /\ \A j \in 1 .. k : /\ Shifted(g, k, r)[j + 1] = r + g[j]
                                 /\ Shifted(g, k, r)[j] = r + g[j - 1]
      BY DoneShifts, Zenon
    <3> QED
      <4>1. /\ Shifted(done, n, run) \in [0 .. n + 1 -> Nat]
            /\ Shifted(done, n, run)[0] = 0
            /\ Shifted(done, n, run)[1] = run
            /\ Shifted(done, n, run)[n + 1] = run + done[n]
            /\ \A j \in 1 .. n : /\ Shifted(done, n, run)[j + 1] = run + done[j]
                                 /\ Shifted(done, n, run)[j] = run + done[j - 1]
        <5>1. n \in Nat
          BY <1>n
        <5>2. done \in [0 .. n -> Nat]
          BY <1>n
        <5>3. done[0] = 0
          BY <1>n
        <5> QED
          BY <5>1, <5>2, <5>3, <3>1, Zenon
      <4>2. d = Shifted(done, n, run)
        BY DEF d
      <4> QED
        BY <4>1, <4>2, Zenon
  <2> QED
    BY <1>n, <2>1
<1> HIDE DEF d
<1>5. ASSUME NEW i \in 1 .. n + 1
      PROVE  /\ d[i] = d[i - 1] + all[i].length
             /\ all[i].offset = (at + d[i - 1]) % size
             /\ all[i].offset + all[i].length <= size
  <2>1. CASE i = 1
    <3>1. all[1].offset = at /\ all[1].length = run
      BY <1>3
    <3>2. at % size = at /\ at + 0 = at /\ 0 + run = run /\ 1 - 1 = 0
      OBVIOUS
    <3> QED
      BY <1>4, <2>1, <3>1, <3>2
  <2>2. CASE i # 1
    <3> DEFINE j == i - 1
    <3>1. j \in 1 .. n /\ i = j + 1 /\ n \in Nat
      BY <1>2, <2>2 DEF n
    <3> HIDE DEF j
    <3>2. j - 1 \in 0 .. n /\ j \in 0 .. n /\ i - 1 = j
      BY <3>1
    <3>3. all[i] = runs[j]
      BY <1>3, <3>1 DEF n
    <3>4. /\ done[j] = done[j - 1] + runs[j].length
          /\ runs[j].offset = (((at + run) % size) + done[j - 1]) % size
          /\ runs[j].offset + runs[j].length <= size
      BY <3>1 DEF Covers, n
    <3>5. d[i] = run + done[j] /\ d[i - 1] = run + done[j - 1]
      BY <1>4, <3>1, <3>2
    <3>6. runs[j].length \in Nat
      <4>1. runs[j] \in R
        BY <1>1, <3>1, ElementOfSeq DEF n
      <4> QED
        BY <4>1
    <3> DEFINE e == done[j - 1]
               a == at + run
               l == runs[j].length
    <3>7. e \in Nat /\ a \in Nat
      BY <1>n, <3>2
    <3>8. a + e = at + (run + e)
      BY <3>7
    <3> HIDE DEF a, e
    <3>9. ((a % size) + e) % size = (a + e) % size
      BY <3>7, ModAdd
    <3>10. runs[j].offset = (at + (run + e)) % size
      BY <3>4, <3>8, <3>9 DEF a, e
    <3>11. run + done[j] = (run + e) + l
      <4>1. done[j] = e + l /\ l \in Nat
        BY <3>4, <3>6 DEF e
      <4> HIDE DEF l
      <4> QED
        BY <3>7, <4>1
    <3>12. d[i - 1] = run + e
      BY <3>5 DEF e
    <3> QED
      BY <3>3, <3>4, <3>5, <3>10, <3>11, <3>12
  <2> QED
    BY <2>1, <2>2
<1>6. Covers(all, d, at, run + left)
  <2>1. Len(all) = n + 1 /\ n \in Nat
    BY <1>2, <1>3 DEF n
  <2> QED
    BY <1>3, <1>4, <1>5, <2>1 DEF Covers
<1> QED
  BY <1>6 DEF all

LEMMA LoopCovers ==
  ASSUME size \in Nat \ {0}, NEW n \in Nat, NEW f, Loops(f, n)
  PROVE  \A left \in 0 .. n, at \in 0 .. size - 1 : \E d : Covers(f[left][at], d, at, left)
<1> DEFINE Holds == {left \in Nat : left \in 0 .. n =>
                       \A at \in 0 .. size - 1 : \E d : Covers(f[left][at], d, at, left)}
<1>1. ASSUME NEW left \in Nat, \A m \in 0 .. left - 1 : m \in Holds
      PROVE  left \in Holds
  <2> SUFFICES ASSUME left \in 0 .. n, NEW at \in 0 .. size - 1
               PROVE  \E d : Covers(f[left][at], d, at, left)
    OBVIOUS
  <2>1. f[left][at] =
          IF left = 0 THEN << >>
          ELSE LET run == Least(left, size - at)
               IN  <<[offset |-> at, length |-> run]>>
                     \o f[left - run][(at + run) % size]
    <3> DEFINE Body(x) ==
          IF left = 0 THEN << >>
          ELSE LET run == Least(left, size - x)
               IN  <<[offset |-> x, length |-> run]>>
                     \o f[left - run][(x + run) % size]
    <3>1. f[left] = [x \in 0 .. size - 1 |-> Body(x)]
      BY Zenon DEF Loops
    <3> HIDE DEF Body
    <3>2. f[left][at] = Body(at)
      BY <3>1
    <3> QED
      BY <3>2 DEF Body
  <2>2. CASE left = 0
    <3> DEFINE d == [i \in 0 .. 0 |-> 0]
    <3>1. f[left][at] = << >> /\ Len(<< >>) = 0
      BY <2>1, <2>2
    <3>2. Covers(<< >>, d, at, 0)
      BY DEF Covers
    <3> QED
      BY <2>2, <3>1, <3>2
  <2>3. CASE left # 0
    <3> DEFINE run == Least(left, size - at)
               rest == left - run
               next == (at + run) % size
    <3>1. /\ run \in 1 .. left /\ at + run \in 1 .. size
          /\ rest \in 0 .. left - 1 /\ next \in 0 .. size - 1
      BY <2>3, RunTyped
    <3>2. f[left][at] = <<[offset |-> at, length |-> run]>> \o f[rest][next]
      BY <2>1, <2>3
    <3> HIDE DEF run, next
    <3>3. rest \in Holds /\ rest \in 0 .. n /\ rest \in Nat /\ run + rest = left
      BY <1>1, <3>1
    <3> HIDE DEF rest
    <3>4. PICK d : Covers(f[rest][next], d, next, rest)
      BY <3>1, <3>3
    <3>5. Covers(f[rest][next], d, (at + run) % size, rest)
      BY <3>4 DEF next
    <3>6. \E e : Covers(<<[offset |-> at, length |-> run]>> \o f[rest][next], e, at, run + rest)
      <4>1. run \in Nat /\ rest \in Nat /\ at + run <= size
        BY <3>1, <3>3
      <4> QED
        BY <3>5, <4>1, OneMoreRun
    <3> QED
      BY <3>2, <3>3, <3>6
  <2> QED
    BY <2>2, <2>3
<1> HIDE DEF Holds
<1>2. \A left \in Nat : left \in Holds
  BY <1>1, NoCounterexample
<1>3. \A left \in 0 .. n : left \in Nat
  OBVIOUS
<1> QED
  BY <1>2, <1>3 DEF Holds

LEMMA FetchCovers ==
  ASSUME size \in Nat \ {0}, NEW at \in 0 .. size - 1, NEW bytes \in Nat
  PROVE  \E d : Covers(Fetch(at, bytes), d, at, bytes)
<1> DEFINE f == CHOOSE g : Loops(g, bytes)
<1>1. Loops(f, bytes)
  <2>1. \E g : Loops(g, bytes)
    BY LoopDefined
  <2> QED
    BY <2>1
<1>2. Fetch(at, bytes) = f[bytes][at]
  BY DEF Fetch, Loops
<1> HIDE DEF f
<1> QED
  BY <1>1, <1>2, LoopCovers

-----------------------------------------------------------------------------
(* Runs that cover a stretch are, one after the other, that stretch.       *)

Stretch(at, bytes) == [j \in 1 .. bytes |-> (at + j - 1) % size]

Ascending(o, l) == [j \in 1 .. l |-> o + j - 1]

LEMMA StretchGrows ==
  ASSUME size \in Nat \ {0}, NEW at \in 0 .. size - 1, NEW n \in Nat, NEW l \in Nat,
         NEW o \in 0 .. size - 1, o = (at + n) % size, o + l <= size
  PROVE  Stretch(at, n) \o Ascending(o, l) = Stretch(at, n + l)
<1> DEFINE s == Stretch(at, n)
           t == Ascending(o, l)
           u == Stretch(at, n + l)
<1>0. \A j \in Nat \ {0} : (at + j - 1) % size \in Nat
  <2> SUFFICES ASSUME NEW j \in Nat \ {0} PROVE (at + j - 1) % size \in Nat
    OBVIOUS
  <2> DEFINE a == at + j - 1
  <2>1. a \in Nat
    OBVIOUS
  <2> HIDE DEF a
  <2>2. a % size \in Nat
    BY <2>1, DivMod
  <2> QED
    BY <2>2 DEF a
<1>1. s \in Seq(Nat) /\ Len(s) = n /\ u \in Seq(Nat) /\ Len(u) = n + l
  BY <1>0 DEF Stretch
<1>2. t \in Seq(Nat) /\ Len(t) = l
  BY DEF Ascending
<1>3. ASSUME NEW j \in 1 .. n + l
      PROVE  (IF j <= n THEN s[j] ELSE t[j - n]) = u[j]
  <2>1. CASE j <= n
    BY <2>1 DEF Stretch
  <2>2. CASE j > n
    <3> DEFINE k == j - n - 1
    <3>1. k \in Nat /\ k < l /\ j - n \in 1 .. l /\ o + k \in 0 .. size - 1
      BY <2>2
    <3>2. t[j - n] = o + k
      BY <3>1 DEF Ascending
    <3>3. u[j] = ((at + n) + k) % size
      <4>1. at + j - 1 = (at + n) + k
        OBVIOUS
      <4>2. u[j] = (at + j - 1) % size
        BY DEF Stretch
      <4> QED
        BY <4>1, <4>2
    <3>4. ((at + n) + k) % size = (o + k) % size
      <4> HIDE DEF k
      <4>1. at + n \in Nat
        OBVIOUS
      <4> QED
        BY <3>1, <4>1, ModAdd
    <3>5. (o + k) % size = o + k
      BY <3>1
    <3> QED
      BY <2>2, <3>2, <3>3, <3>4, <3>5
  <2> QED
    BY <2>1, <2>2
<1> HIDE DEF s, t, u
<1>4. /\ s \o t \in Seq(Nat) /\ Len(s \o t) = n + l
      /\ \A j \in 1 .. n + l : (s \o t)[j] = IF j <= n THEN s[j] ELSE t[j - n]
  BY <1>1, <1>2, ConcatProperties
<1>5. s \o t = u
  BY <1>1, <1>3, <1>4, SeqEqual
<1> QED
  BY <1>5 DEF s, t, u

LEMMA CoveredFlattens ==
  ASSUME size \in Nat \ {0}, NEW at \in 0 .. size - 1, NEW bytes \in Nat,
         NEW runs, NEW d, Covers(runs, d, at, bytes)
  PROVE  FlattenSeq([i \in DOMAIN runs |-> Slots(runs[i])]) = Stretch(at, bytes)
<1> DEFINE n == Len(runs)
           s == [i \in DOMAIN runs |-> Slots(runs[i])]
<1>1. /\ n \in Nat /\ DOMAIN runs = 1 .. n /\ Len(s) = n
      /\ \A i \in 1 .. n : runs[i] \in [offset : 0 .. size - 1, length : Nat]
      /\ d \in [0 .. n -> Nat] /\ d[0] = 0 /\ d[n] = bytes
  <2> DEFINE R == [offset : 0 .. size - 1, length : Nat]
  <2>1. runs \in Seq(R) /\ d \in [0 .. n -> Nat] /\ d[0] = 0 /\ d[n] = bytes
    BY DEF Covers
  <2> HIDE DEF R
  <2>2. n \in Nat /\ DOMAIN runs = 1 .. n
    BY <2>1, LenProperties
  <2>3. \A i \in 1 .. n : runs[i] \in R
    BY <2>1, <2>2, ElementOfSeq
  <2> HIDE DEF n
  <2>4. Len(s) = n
    BY <2>2
  <2> QED
    BY <2>1, <2>2, <2>3, <2>4 DEF R
<1>2. CASE n = 0
  <2>1. s = << >> /\ Stretch(at, bytes) = << >>
    BY <1>1, <1>2 DEF Stretch
  <2>2. FlattenSeq(s) = s
    BY <1>1, <1>2 DEF FlattenSeq
  <2> QED
    BY <2>1, <2>2
<1>3. CASE n # 0
  <2>1. PICK f : Flattens(f, s, n) /\ FlattenSeq(s) = f[n]
    BY <1>1, <1>3, FlattenIs
  <2> DEFINE Holds == {i \in Nat : i \in 1 .. n => f[i] = Stretch(at, d[i])}
  <2>2. ASSUME NEW i \in Nat, \A m \in 0 .. i - 1 : m \in Holds PROVE i \in Holds
    <3> SUFFICES ASSUME i \in 1 .. n PROVE f[i] = Stretch(at, d[i])
      OBVIOUS
    <3>1. f[i] = IF i = 1 THEN s[i] ELSE f[i - 1] \o s[i]
      BY <2>1, Zenon DEF Flattens
    <3>2. s[i] = [j \in 1 .. runs[i].length |-> runs[i].offset + j - 1]
      BY <1>1 DEF Slots
    <3>3. /\ d[i] = d[i - 1] + runs[i].length
          /\ runs[i].offset = (at + d[i - 1]) % size
          /\ runs[i].offset + runs[i].length <= size
      BY DEF Covers
    <3>4. d[i - 1] \in Nat /\ runs[i].length \in Nat /\ runs[i].offset \in 0 .. size - 1
      <4>1. i - 1 \in 0 .. n
        BY <1>1
      <4> QED
        BY <1>1, <4>1
    <3> HIDE DEF s
    <3>5. Stretch(at, d[i - 1]) \o s[i] = Stretch(at, d[i])
      <4> DEFINE o == runs[i].offset
                 l == runs[i].length
                 e == d[i - 1]
      <4>1. e \in Nat /\ l \in Nat /\ o \in 0 .. size - 1 /\ o = (at + e) % size /\ o + l <= size
        BY <3>3, <3>4
      <4>2. s[i] = Ascending(o, l) /\ d[i] = e + l
        BY <3>2, <3>3 DEF Ascending
      <4> HIDE DEF o, l, e
      <4>3. Stretch(at, e) \o Ascending(o, l) = Stretch(at, e + l)
        <5>1. \A x, y \in Nat, z \in 0 .. size - 1 :
                z = (at + x) % size /\ z + y <= size
                  => Stretch(at, x) \o Ascending(z, y) = Stretch(at, x + y)
          BY StretchGrows, Zenon
        <5> QED
          BY <4>1, <5>1, Zenon
      <4> QED
        BY <4>2, <4>3 DEF e
    <3>6. CASE i = 1
      <4>1. d[i - 1] = 0
        BY <1>1, <3>6
      <4>2. s[i] \in Seq(Int)
        <5> DEFINE o == runs[i].offset
                   l == runs[i].length
        <5>1. o \in Nat /\ l \in Nat
          BY <3>4
        <5>2. s[i] = [j \in 1 .. l |-> o + j - 1]
          BY <3>2
        <5> HIDE DEF o, l
        <5>3. [j \in 1 .. l |-> o + j - 1] \in Seq(Int)
          BY <5>1
        <5> QED
          BY <5>2, <5>3
      <4>3. Stretch(at, 0) = << >>
        BY DEF Stretch
      <4>4. << >> \o s[i] = s[i]
        BY <4>2, ConcatEmptySeq
      <4> QED
        BY <3>1, <3>5, <3>6, <4>1, <4>3, <4>4
    <3>7. CASE i # 1
      <4>1. i - 1 \in 0 .. i - 1 /\ i - 1 \in 1 .. n
        BY <3>7
      <4>2. f[i - 1] = Stretch(at, d[i - 1])
        BY <2>2, <4>1
      <4> QED
        BY <3>1, <3>5, <3>7, <4>2
    <3> QED
      BY <3>6, <3>7
  <2> HIDE DEF Holds
  <2>3. \A i \in Nat : i \in Holds
    BY <2>2, NoCounterexample
  <2>4. f[n] = Stretch(at, d[n])
    BY <1>1, <1>3, <2>3 DEF Holds
  <2> QED
    BY <1>1, <2>1, <2>4
<1> QED
  BY <1>2, <1>3

(* Whatever the displacement and however often it wraps, an update hands   *)
(* on the bytes the position moves over, in order and once.                *)
THEOREM StreamFetchedOnce == Spec => []FetchedOnce
<1>1. ASSUME IInv PROVE FetchedOnce
  <2>1. /\ size \in Nat \ {0} /\ writePosition \in 0 .. size - 1
        /\ writePosition = linear % size /\ Displacement \in Nat
    BY <1>1, MovesNat DEF IInv, TypeOK, PositionsAgree
  <2>2. HandedOn = Fetch(writePosition, Displacement)
    BY <2>1 DEF HandedOn
  <2>3. PICK d : Covers(HandedOn, d, writePosition, Displacement)
    BY <2>1, <2>2, FetchCovers
  <2>4. FlattenSeq([i \in DOMAIN HandedOn |-> Slots(HandedOn[i])])
          = Stretch(writePosition, Displacement)
    BY <2>1, <2>3, CoveredFlattens
  <2> QED
    BY <2>4 DEF FetchedOnce, Stretch
<1> QED
  BY <1>1, StreamInvariant, PTL
=============================================================================
