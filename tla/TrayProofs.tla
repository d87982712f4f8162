------------------------------ MODULE TrayProofs ------------------------------
(***************************************************************************)
(* A stream the user has stopped stays stopped, for every number of stream *)
(* tasks and of failures, when the source never outlasts a stop.  Every    *)
(* step of the tray application is a step of its host or invisible to it,  *)
(* so that the invariants of BridgeHostProofs hold here too.               *)
(***************************************************************************)
EXTENDS Tray, BridgeHostProofs

StopSteps == {"idle", "begin", "cancel", "abort", "await"}

(* From the click on Stop on the Stop is the host's last command: the      *)
(* timer is off, and the first attempt, if it comes that late, ends the    *)
(* claim.  A Stop that returns at once has found a stream that was over;   *)
(* that is why a state other than Streaming has to mean, from the click    *)
(* on, that no task is left.                                               *)
StopInv ==
  /\ armed \in BOOLEAN /\ inProgress \in BOOLEAN /\ stopped \in BOOLEAN
  /\ ~inProgress => step = "idle"
  /\ stopped =>
       /\ ~armed
       /\ command = "Stop" /\ step \in StopSteps
       /\ step = "idle" => ~StreamAlive
       /\ step = "begin" => state = "Streaming" \/ ~StreamAlive

-----------------------------------------------------------------------------
(* The host inside the tray application.                                   *)

LEMMA TrayStepIsHostStep == TrayNext => [Next]_vars
<1> SUFFICES ASSUME TrayNext PROVE [Next]_vars
  OBVIOUS
<1>0. {"Start", "Stop", "Reconnect", RestoreCommand} \subseteq Commands
  BY DEF Commands, RestoreCommand
<1>1. CASE Ui
  BY <1>0, <1>1
  DEF Ui, CommandEnds, ClickStart, ClickStop, ClickReconnect, WarmStart, Disarm,
      Restore, Run, Next, CommandStep
<1>2. CASE HostStep
  BY <1>2
  DEF HostStep, ResolveAddress, ConnectThere, ConfigureThere, PlainCommandStep,
      Next, CommandStep
<1>3. CASE Move \/ FallSilent
  BY <1>3 DEF Move, FallSilent
<1>4. ASSUME NEW t \in Tasks, TaskStep(t) PROVE Next
  BY <1>4 DEF TaskStep, Next
<1> QED
  BY <1>1, <1>2, <1>3, <1>4 DEF TrayNext

(* The menu, the timers, the address of the receiver and its failures only *)
(* choose among the behaviours of the host: what is proved of BridgeHost   *)
(* holds under the tray application, whether the source stalls or not.     *)
THEOREM TrayImplementsHost == TraySpec => Init /\ [][Next]_vars
<1>1. TrayInit => Init
  BY DEF TrayInit
<1>2. [TrayNext]_trayVars => [Next]_vars
  BY TrayStepIsHostStep DEF trayVars
<1> QED
  BY <1>1, <1>2, PTL DEF TraySpec

LEMMA TrayHostInvariants ==
  ASSUME SourceStalls = FALSE
  PROVE  TraySpec => [](HInv /\ QInv)
<1>1. TrayInit => HInv /\ QInv
  BY InitHInv, InitQInv DEF TrayInit
<1>2. HInv /\ QInv /\ [TrayNext]_trayVars => (HInv /\ QInv)'
  BY TrayStepIsHostStep, NextKeepsHInv, NextKeepsQInv DEF trayVars
<1> QED
  BY <1>1, <1>2, PTL DEF TraySpec

-----------------------------------------------------------------------------

LEMMA InitStopInv == TrayInit => StopInv
  BY DEF TrayInit, Init, StopInv

(* What the user and the timers do: only a click on Stop begins the claim. *)
LEMMA UiKeepsStopInv ==
  ASSUME HInv, StopInv, Ui
  PROVE  StopInv'
<1> USE DEF StopInv, StopSteps, StreamAlive, Alive, vars, hostVars, taskVars
<1>1. CASE CommandEnds
  BY <1>1 DEF CommandEnds
<1>2. CASE ClickStart
  BY <1>2 DEF ClickStart, Run, Issue
<1>3. CASE ClickStop
  BY <1>3 DEF ClickStop, Run, Issue
<1>4. CASE ClickReconnect
  BY <1>4 DEF ClickReconnect, Run, Issue
<1>5. CASE WarmStart
  BY <1>5 DEF WarmStart, Run, Issue
<1>6. CASE Disarm
  BY <1>6 DEF Disarm
<1>7. CASE Restore
  BY <1>7 DEF Restore, Run, Issue
<1> QED
  BY <1>1, <1>2, <1>3, <1>4, <1>5, <1>6, <1>7 DEF Ui

(* While the claim holds the command is a Stop, and a Stop starts no task. *)
LEMMA HostKeepsStopInv ==
  ASSUME SourceStalls = FALSE, HInv, StopInv, HostStep
  PROVE  StopInv'
<1>1. UNCHANGED uiVars /\ step # "idle" /\ CommandStep
  BY DEF HostStep, ResolveAddress, ConnectThere, ConfigureThere, PlainCommandStep,
         CommandStep, Resolve, Connect, Configure
<1>2. CASE ~stopped
  BY <1>1, <1>2 DEF StopInv, uiVars
<1>3. CASE stopped
  <2>1. command = "Stop" /\ step \in {"begin", "cancel", "abort", "await"}
    BY <1>1, <1>3 DEF StopInv, StopSteps
  <2>2. \/ BeginElsewhere \/ BeginStop \/ Cancel \/ Abort \/ AwaitStopped \/ AwaitTimesOut
    BY <1>1, <2>1
    DEF CommandStep, Issue, BeginInitialize, SkipShutdown, Resolve, Connect, Configure,
        GiveUp, Check, Launch, StopRoutine, TearDown, Disconnect
  <2> USE <1>1, <1>3, <2>1 DEF StopInv, StopSteps, uiVars, AfterStop, StreamAlive, Alive
  <2>3. CASE BeginElsewhere
    BY <2>3, HostAssumption DEF BeginElsewhere, taskVars
  <2>4. CASE BeginStop
    BY <2>4 DEF BeginStop, taskVars
  <2>5. CASE Cancel
    BY <2>5 DEF Cancel
  <2>6. CASE Abort
    BY <2>6 DEF Abort
  <2>7. CASE AwaitStopped
    BY <2>7, HostAssumption DEF AwaitStopped, taskVars
  <2>8. CASE AwaitTimesOut
    BY <2>8 DEF AwaitTimesOut, taskVars
  <2> QED
    BY <2>2, <2>3, <2>4, <2>5, <2>6, <2>7, <2>8
<1> QED
  BY <1>2, <1>3 DEF StopInv

(* A task withdraws Streaming only with its last step.                     *)
LEMMA TaskKeepsStopInv ==
  ASSUME HInv, QInv, StopInv, NEW t \in Tasks, TaskStep(t)
  PROVE  StopInv'
<1> USE DEF HInv, TypeOK, GoTo, hostVars
<1>1. UNCHANGED uiVars /\ (SourceStep(t) \/ PlainStep(t))
  BY DEF TaskStep
<1>2. /\ Alive(t) /\ t = streamTask /\ StreamAlive
      /\ \A u \in Tasks \ {t} : Alive(u)' = Alive(u)
      /\ UNCHANGED <<streamTask, step, command>>
  BY <1>1
  DEF QInv, SourceStep, PlainStep, OpenSource, ReadFrame, Dequeue, ReadState,
      WriteState, Register, ConnectAudio, CheckToken, WriteFrame, Leave, Finish,
      Alive, StreamAlive
<1>3. state = "Streaming" => state' = "Streaming" \/ ~Alive(t)'
  BY <1>1
  DEF SourceStep, PlainStep, OpenSource, ReadFrame, Dequeue, ReadState,
      WriteState, Register, ConnectAudio, CheckToken, WriteFrame, Leave, Finish, Alive
<1> QED
  BY <1>1, <1>2, <1>3 DEF StopInv, uiVars, StreamAlive

LEMMA NextKeepsStopInv ==
  ASSUME SourceStalls = FALSE
  PROVE  HInv /\ QInv /\ StopInv /\ [TrayNext]_trayVars => StopInv'
<1> SUFFICES ASSUME HInv, QInv, StopInv, [TrayNext]_trayVars PROVE StopInv'
  OBVIOUS
<1>1. CASE UNCHANGED <<vars, uiVars>>
  BY <1>1 DEF StopInv, vars, hostVars, taskVars, uiVars, StreamAlive, Alive
<1> QED
  BY <1>1, UiKeepsStopInv, HostKeepsStopInv, TaskKeepsStopInv
  DEF TrayNext, trayVars, Move, FallSilent

(* A stream the user has stopped stays stopped until the user asks for one *)
(* again, or the first attempt after the launch comes that late.           *)
THEOREM TrayStopSticks ==
  ASSUME SourceStalls = FALSE
  PROVE  TraySpec => []StopSticks
<1>1. QInv /\ StopInv => StopSticks
  BY DEF QInv, StopInv, StopSticks, StreamAlive, Alive, CanWrite, SendLoop
<1> QED
  BY <1>1, InitStopInv, NextKeepsStopInv, TrayHostInvariants, PTL DEF TraySpec
===============================================================================
