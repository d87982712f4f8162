--------------------------- MODULE BridgeHostProofs ---------------------------
(***************************************************************************)
(* The session lifecycle of the tray application is safe for every number  *)
(* of stream tasks alive at a time.  Two inductive invariants: HInv, which *)
(* holds whatever the audio source does, and QInv on top of it, when no    *)
(* stop is ever given up.                                                  *)
(***************************************************************************)
EXTENDS BridgeHost, TLAPS

Settled == Restartable \cup {"StreamConfigured", "Streaming"}

(* A task the host has lost sight of has been cancelled first.             *)
StraysCancelled ==
  /\ \A t \in Tasks : Alive(t) /\ t # streamTask => cancelled[t]
  /\ /\ StreamAlive
     /\ step \in {"abort", "await", "teardown", "disconnect"}
     => cancelled[streamTask]

(* Between the routines of a command, too, the state is a settled one.     *)
SettledBetween == step \in {"idle", "begin", "check", "launch"} => state \in Settled

(* Idle holds nothing, in the middle of a command as well.                 *)
IdleClean == state = "Idle" => ~control /\ ~config /\ ~endpoint /\ streamTask = None

HInv == TypeOK /\ StraysCancelled /\ SettledBetween /\ IdleClean

(* Without time-outs the host's task is the only one; it is cancelled only *)
(* inside the stop that waits for it, and leaves a Streaming state behind  *)
(* only there.                                                             *)
QInv ==
  /\ \A t \in Tasks : Alive(t) => t = streamTask
  /\ \A t \in Tasks : outcome[t] = "cancelled" => cancelled[t]
  /\ StreamAlive => step \notin {"teardown", "disconnect"}
  /\ StreamAlive /\ cancelled[streamTask] => step \in {"abort", "await"}
  /\ state = "Streaming" => StreamAlive \/ step \in {"abort", "await"}

(* Without time-outs a task whose connection is open is the one an abort   *)
(* would reach, from before it connects.                                   *)
OpenIsActive ==
  \A t \in Tasks :
    taskPc[t] \in SendLoop \cup {"connecting"} /\ ~severed[t] => activeClient = t
-------------------------------------------------------------------------------
(* HInv is inductive *)

LEMMA InitHInv == Init => HInv
  BY HostAssumption
  DEF Init, HInv, TypeOK, StraysCancelled, SettledBetween, IdleClean, Settled,
      Restartable, StreamStates, Commands, Steps, TaskSteps, Alive, StreamAlive

(* The command's thread, outside of the launch and of the stop, changes no *)
(* task: only where it is and what it publishes is to be looked at.        *)
LEMMA CommandKeepsHInv ==
  ASSUME HInv,
         \/ \E c \in Commands : Issue(c)
         \/ BeginInitialize \/ BeginElsewhere \/ BeginStop \/ SkipShutdown
         \/ Resolve \/ Connect \/ Configure \/ GiveUp \/ Check
         \/ TearDown \/ Disconnect
  PROVE  HInv'
<1> USE DEF HInv, TypeOK, StraysCancelled, SettledBetween, IdleClean, Settled,
            Restartable, StreamStates, Commands, Steps, Alive, StreamAlive,
            taskVars, AfterInitialize, AfterStop, GoOn
<1>1. ASSUME NEW c \in Commands, Issue(c) PROVE HInv'
  BY <1>1 DEF Issue
<1>2. CASE BeginInitialize
  BY <1>2 DEF BeginInitialize
<1>3. CASE BeginElsewhere
  BY <1>3 DEF BeginElsewhere
<1>4. CASE BeginStop
  BY <1>4, HostAssumption DEF BeginStop
<1>5. CASE SkipShutdown
  BY <1>5 DEF SkipShutdown
<1>6. CASE Resolve
  <2>1. CASE step' = "connect"
    BY <1>6, <2>1 DEF Resolve
  <2>2. CASE UNCHANGED <<state, endpoint>> /\ step' = "giveUp"
    BY <1>6, <2>2 DEF Resolve
  <2> QED
    BY <1>6, <2>1, <2>2 DEF Resolve
<1>7. CASE Connect
  BY <1>7 DEF Connect
<1>8. CASE Configure
  <2>1. CASE config' = TRUE /\ state' = "StreamConfigured"
    BY <1>8, <2>1 DEF Configure
  <2>2. CASE UNCHANGED <<config, state>> /\ step' = "giveUp"
    BY <1>8, <2>2 DEF Configure
  <2> QED
    BY <1>8, <2>1, <2>2 DEF Configure
<1>9. CASE GiveUp
  BY <1>9 DEF GiveUp
<1>10. CASE Check
  BY <1>10 DEF Check
<1>11. CASE TearDown
  BY <1>11 DEF TearDown
<1>12. CASE Disconnect
  BY <1>12, HostAssumption DEF Disconnect
<1> QED
  BY <1>1, <1>2, <1>3, <1>4, <1>5, <1>6, <1>7, <1>8, <1>9, <1>10, <1>11, <1>12

(* A task is launched only when the host's last one is over or cancelled.  *)
LEMMA LaunchKeepsHInv ==
  ASSUME HInv, Launch
  PROVE  HInv'
<1> USE DEF HInv, TypeOK, StraysCancelled, SettledBetween, IdleClean, Settled,
            Restartable, StreamStates, Steps, TaskSteps, Alive, StreamAlive,
            taskVars
<1>1. CASE UNCHANGED <<streamTask, taskVars>>
  BY <1>1 DEF Launch
<1>2. ASSUME NEW t \in Tasks, StartTask(t), endpoint, config, ~StreamAlive
      PROVE  HInv'
  <2>1. TypeOK'
    BY <1>2, HostAssumption DEF Launch, StartTask
  <2>2. StraysCancelled'
    BY <1>2 DEF Launch, StartTask
  <2>3. SettledBetween' /\ IdleClean'
    BY <1>2 DEF Launch, StartTask
  <2> QED
    BY <2>1, <2>2, <2>3
<1> QED
  BY <1>1, <1>2 DEF Launch

(* The stop cancels before it gives up or goes on.                         *)
LEMMA StopKeepsHInv ==
  ASSUME HInv, StopRoutine
  PROVE  HInv'
<1> USE DEF HInv, TypeOK, StraysCancelled, SettledBetween, IdleClean, Settled,
            Restartable, StreamStates, Steps, Alive, StreamAlive, taskVars,
            AfterStop
<1>1. CASE Cancel
  BY <1>1 DEF Cancel
<1>2. CASE Abort
  BY <1>2 DEF Abort
<1>3. CASE AwaitStopped
  BY <1>3, HostAssumption DEF AwaitStopped
<1>4. CASE AwaitTimesOut
  BY <1>4 DEF AwaitTimesOut
<1> QED
  BY <1>1, <1>2, <1>3, <1>4 DEF StopRoutine

(* A step of a task wakes no task, cancels none, and publishes, if         *)
(* anything, a settled state other than Idle.                              *)
LEMMA TaskKeepsHInv ==
  ASSUME HInv, NEW t \in Tasks, SourceStep(t) \/ PlainStep(t)
  PROVE  HInv'
<1> USE DEF HInv, TypeOK, TaskSteps, GoTo, hostVars
<1>1. /\ Alive(t)
      /\ \A u \in Tasks \ {t} : Alive(u)' = Alive(u)
      /\ UNCHANGED <<config, control, streamTask, command, step, cancelled>>
      /\ taskPc' \in [Tasks -> TaskSteps]
  BY DEF SourceStep, PlainStep, OpenSource, ReadFrame, Dequeue, ReadState,
         WriteState, Register, ConnectAudio, CheckToken, WriteFrame, Leave,
         Finish, Alive
<1>2. /\ outcome' \in [Tasks -> {"normal", "cancelled", "error"}]
      /\ activeClient' \in Tasks \cup {None}
      /\ severed' \in [Tasks -> BOOLEAN]
      /\ seen' \in [Tasks -> BOOLEAN]
      /\ \/ UNCHANGED <<state, endpoint>>
         \/ state' \in {"Streaming", "WaitingForReceiver"} /\ endpoint' \in BOOLEAN
  BY DEF SourceStep, PlainStep, OpenSource, ReadFrame, Dequeue, ReadState,
         WriteState, Register, ConnectAudio, CheckToken, WriteFrame, Leave,
         Finish
<1>3. TypeOK'
  BY <1>1, <1>2 DEF StreamStates
<1>4. StraysCancelled'
  BY <1>1 DEF StraysCancelled, StreamAlive
<1>5. SettledBetween' /\ IdleClean'
  BY <1>1, <1>2 DEF SettledBetween, IdleClean, Settled, Restartable
<1> QED
  BY <1>3, <1>4, <1>5

LEMMA NextKeepsHInv == HInv /\ [Next]_vars => HInv'
<1> SUFFICES ASSUME HInv, [Next]_vars PROVE HInv'
  OBVIOUS
<1>1. CASE CommandStep
  BY <1>1, CommandKeepsHInv, LaunchKeepsHInv, StopKeepsHInv DEF CommandStep
<1>2. ASSUME NEW t \in Tasks, SourceStep(t) \/ PlainStep(t) PROVE HInv'
  BY <1>2, TaskKeepsHInv
<1>3. CASE UNCHANGED vars
  BY <1>3 DEF vars, hostVars, taskVars, HInv, TypeOK, StraysCancelled,
              SettledBetween, IdleClean, Alive, StreamAlive
<1> QED
  BY <1>1, <1>2, <1>3 DEF Next

LEMMA HInductive == Spec => []HInv
  BY InitHInv, NextKeepsHInv, PTL DEF Spec

-------------------------------------------------------------------------------
(* What holds whatever the source does *)

(* Never two tasks that can put frames on the wire, however many stops     *)
(* have given up: what the host no longer knows of is cancelled.           *)
THEOREM HostOneSender == Spec => []OneSender
<1>1. HInv => OneSender
  BY DEF HInv, StraysCancelled, OneSender, CanWrite, SendLoop, Alive
<1> QED
  BY <1>1, HInductive, PTL

(* No command ends in a state that disables the menu and the timer.        *)
THEOREM HostNeverLockedOut == Spec => []NeverLockedOut
<1>1. HInv => NeverLockedOut
  BY DEF HInv, SettledBetween, Settled, NeverLockedOut
<1> QED
  BY <1>1, HInductive, PTL

(* A host that says Idle has let go of everything.                         *)
THEOREM HostIdleHoldsNothing == Spec => []IdleHoldsNothing
<1>1. HInv => IdleHoldsNothing
  BY DEF HInv, IdleClean, IdleHoldsNothing
<1> QED
  BY <1>1, HInductive, PTL

(* Types, and a task for the stop routine to stop.                         *)
THEOREM HostTypeCorrect == Spec => []TypeOK
<1>1. HInv => TypeOK
  BY DEF HInv
<1> QED
  BY <1>1, HInductive, PTL
-------------------------------------------------------------------------------
(* What holds when every stop waits for its task *)

LEMMA InitQInv == Init => QInv
  BY HostAssumption DEF Init, QInv, Alive, StreamAlive

LEMMA CommandKeepsQInv ==
  ASSUME HInv, QInv,
         \/ \E c \in Commands : Issue(c)
         \/ BeginInitialize \/ BeginElsewhere \/ BeginStop \/ SkipShutdown
         \/ Resolve \/ Connect \/ Configure \/ GiveUp \/ Check
         \/ TearDown \/ Disconnect
  PROVE  QInv'
<1> USE DEF HInv, TypeOK, QInv, Steps, Alive, StreamAlive, taskVars,
            AfterInitialize, AfterStop, GoOn
<1>1. CASE \E c \in Commands : Issue(c)
  BY <1>1 DEF Issue
<1>2. CASE BeginInitialize \/ BeginElsewhere
  BY <1>2 DEF BeginInitialize, BeginElsewhere
<1>3. CASE BeginStop \/ SkipShutdown
  BY <1>3, HostAssumption DEF BeginStop, SkipShutdown
<1>4. CASE Resolve \/ Connect
  BY <1>4 DEF Resolve, Connect
<1>5. CASE Configure
  BY <1>5 DEF Configure
<1>6. CASE GiveUp \/ Check
  BY <1>6 DEF GiveUp, Check
<1>7. CASE TearDown
  BY <1>7 DEF TearDown
<1>8. CASE Disconnect
  BY <1>8, HostAssumption DEF Disconnect
<1> QED
  BY <1>1, <1>2, <1>3, <1>4, <1>5, <1>6, <1>7, <1>8

LEMMA LaunchKeepsQInv ==
  ASSUME HInv, QInv, Launch
  PROVE  QInv'
<1> USE DEF HInv, TypeOK, QInv, Steps, Alive, StreamAlive, taskVars
<1>1. CASE UNCHANGED <<streamTask, taskVars>>
  BY <1>1 DEF Launch
<1>2. ASSUME NEW t \in Tasks, StartTask(t), endpoint, config, ~StreamAlive
      PROVE  QInv'
  BY <1>2, HostAssumption DEF Launch, StartTask
<1> QED
  BY <1>1, <1>2 DEF Launch

(* The one place where the assumption is used: the wait has no other end.  *)
LEMMA StopKeepsQInv ==
  ASSUME SourceStalls = FALSE, HInv, QInv, StopRoutine
  PROVE  QInv'
<1> USE DEF HInv, TypeOK, QInv, Steps, Alive, StreamAlive, taskVars, AfterStop
<1>1. CASE Cancel
  BY <1>1 DEF Cancel
<1>2. CASE Abort
  BY <1>2 DEF Abort
<1>3. CASE AwaitStopped
  BY <1>3, HostAssumption DEF AwaitStopped
<1>4. CASE AwaitTimesOut
  BY <1>4 DEF AwaitTimesOut
<1> QED
  BY <1>1, <1>2, <1>3, <1>4 DEF StopRoutine

(* A task that ends without reporting has been cancelled, so that the stop *)
(* is waiting for it; any other withdraws the Streaming it has published.  *)
LEMMA TaskKeepsQInv ==
  ASSUME HInv, QInv, NEW t \in Tasks, SourceStep(t) \/ PlainStep(t)
  PROVE  QInv'
<1> USE DEF HInv, TypeOK, GoTo, hostVars
<1>1. /\ Alive(t) /\ t = streamTask /\ StreamAlive
      /\ \A u \in Tasks \ {t} : Alive(u)' = Alive(u)
      /\ UNCHANGED <<streamTask, step, cancelled>>
  BY DEF QInv, SourceStep, PlainStep, OpenSource, ReadFrame, Dequeue, ReadState,
         WriteState, Register, ConnectAudio, CheckToken, WriteFrame, Leave,
         Finish, Alive, StreamAlive
<1>2. \A u \in Tasks : outcome'[u] = "cancelled" => cancelled'[u]
  BY <1>1 DEF QInv, SourceStep, PlainStep, OpenSource, ReadFrame, Dequeue,
         ReadState, WriteState, Register, ConnectAudio, CheckToken, WriteFrame,
         Leave, Finish
<1>3. \/ Alive(t)'
      \/ cancelled[t]
      \/ state' = "WaitingForReceiver"
  BY DEF QInv, SourceStep, PlainStep, OpenSource, ReadFrame, Dequeue, ReadState,
         WriteState, Register, ConnectAudio, CheckToken, WriteFrame, Leave,
         Finish, Alive
<1>4. state' = "Streaming" => StreamAlive' \/ step' \in {"abort", "await"}
  BY <1>1, <1>3 DEF QInv, StreamAlive
<1> QED
  BY <1>1, <1>2, <1>4 DEF QInv, StreamAlive

LEMMA NextKeepsQInv ==
  ASSUME SourceStalls = FALSE
  PROVE  HInv /\ QInv /\ [Next]_vars => QInv'
<1> SUFFICES ASSUME HInv, QInv, [Next]_vars PROVE QInv'
  OBVIOUS
<1>1. CASE CommandStep
  BY <1>1, CommandKeepsQInv, LaunchKeepsQInv, StopKeepsQInv DEF CommandStep
<1>2. ASSUME NEW t \in Tasks, SourceStep(t) \/ PlainStep(t) PROVE QInv'
  BY <1>2, TaskKeepsQInv
<1>3. CASE UNCHANGED vars
  BY <1>3 DEF vars, hostVars, taskVars, QInv, Alive, StreamAlive
<1> QED
  BY <1>1, <1>2, <1>3 DEF Next

LEMMA QInductive ==
  ASSUME SourceStalls = FALSE
  PROVE  Spec => []QInv
<1>1. HInv /\ QInv /\ [Next]_vars => QInv'
  BY NextKeepsQInv
<1> QED
  BY <1>1, InitQInv, HInductive, PTL DEF Spec

(* After a stop or a shutdown has returned, no task is running.            *)
THEOREM HostStoppedIsOver ==
  ASSUME SourceStalls = FALSE
  PROVE  Spec => []StoppedIsOver
<1>1. HInv /\ QInv => StoppedIsOver
  BY HostAssumption DEF HInv, TypeOK, QInv, StoppedIsOver
<1> QED
  BY <1>1, HInductive, QInductive, PTL

(* A host that says Streaming between commands has a live task.            *)
THEOREM HostStreamingIsLive ==
  ASSUME SourceStalls = FALSE
  PROVE  Spec => []StreamingIsLive
<1>1. QInv => StreamingIsLive
  BY DEF QInv, StreamingIsLive
<1> QED
  BY <1>1, QInductive, PTL
-------------------------------------------------------------------------------
(* The client an abort would dispose *)

(* A command's step either leaves clients alone or severs the active one.  *)
LEMMA CommandKeepsOpenIsActive ==
  ASSUME HInv, OpenIsActive, CommandStep
  PROVE  OpenIsActive'
<1> USE DEF HInv, TypeOK, OpenIsActive, SendLoop, taskVars
<1>1. CASE UNCHANGED <<activeClient, taskPc, severed>>
  BY <1>1
<1>2. CASE Launch
  BY <1>2 DEF Launch, StartTask
<1>3. CASE Abort
  BY <1>3 DEF Abort
<1> QED
  BY <1>1, <1>2, <1>3
  DEF CommandStep, Issue, BeginInitialize, BeginElsewhere, BeginStop, SkipShutdown,
      Resolve, Connect, Configure, GiveUp, Check, StopRoutine, Cancel, AwaitStopped,
      AwaitTimesOut, TearDown, Disconnect

(* A task registers before it connects; that no other one registers over   *)
(* it is QInv.                                                             *)
LEMMA TaskKeepsOpenIsActive ==
  ASSUME HInv, QInv, OpenIsActive, NEW t \in Tasks, SourceStep(t) \/ PlainStep(t)
  PROVE  OpenIsActive'
<1> USE DEF HInv, TypeOK, OpenIsActive, SendLoop, GoTo
<1>1. \A u \in Tasks \ {t} : taskPc[u] = "done" /\ taskPc'[u] = "done"
  BY DEF QInv, Alive, SourceStep, PlainStep, OpenSource, ReadFrame, Dequeue, ReadState,
         WriteState, Register, ConnectAudio, CheckToken, WriteFrame, Leave, Finish
<1>2. taskPc'[t] \in SendLoop \cup {"connecting"} /\ ~severed'[t] => activeClient' = t
  BY DEF SourceStep, PlainStep, OpenSource, ReadFrame, Dequeue, ReadState,
         WriteState, Register, ConnectAudio, CheckToken, WriteFrame, Leave, Finish
<1> QED
  BY <1>1, <1>2

(* While a task can put frames on the wire the coordinator's active client *)
(* is its own, so that the abort of a stop reaches the socket in use.      *)
THEOREM HostAbortReachesSender ==
  ASSUME SourceStalls = FALSE
  PROVE  Spec => []AbortReachesSender
<1>1. Init => OpenIsActive
  BY DEF Init, OpenIsActive, SendLoop
<1>2. HInv /\ QInv /\ OpenIsActive /\ [Next]_vars => OpenIsActive'
  <2> SUFFICES ASSUME HInv, QInv, OpenIsActive, [Next]_vars PROVE OpenIsActive'
    OBVIOUS
  <2>1. CASE UNCHANGED vars
    BY <2>1 DEF vars, taskVars, OpenIsActive
  <2> QED
    BY <2>1, CommandKeepsOpenIsActive, TaskKeepsOpenIsActive DEF Next
<1>3. OpenIsActive => AbortReachesSender
  BY DEF OpenIsActive, AbortReachesSender, CanWrite
<1> QED
  BY <1>1, <1>2, <1>3, HInductive, QInductive, PTL DEF Spec
===============================================================================
