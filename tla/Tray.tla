--------------------------------- MODULE Tray ---------------------------------
(***************************************************************************)
(* The tray application around its BridgeHost: the commands of the menu,   *)
(* the first attempt after the launch and the auto-restore timer           *)
(* (TrayApplicationContext), and the address the host is told to look for  *)
(* the receiver at (BridgeAppController, ReceiverSessionManager).          *)
(*                                                                         *)
(* All of it runs on the UI thread, an event at a time; a command is       *)
(* awaited, so other events come in while it runs.  _commandInProgress     *)
(* admits one command, which makes the lifecycle gate free whenever one    *)
(* asks for it.  The auto-restore timer runs just when it is armed, and    *)
(* _autoRestoreAttemptInFlight is set only within its command.             *)
(***************************************************************************)
EXTENDS BridgeHost

CONSTANTS AutoStartStreaming,  \* the setting
          MaxFaults            \* bound: how often the network or the source fails

ASSUME TrayAssumption == AutoStartStreaming \in BOOLEAN /\ MaxFaults \in Nat

VARIABLES
  armed,       \* _autoRestoreArmed
  inProgress,  \* _commandInProgress
  warm,        \* whether the first attempt is still to come
  stopped,     \* history: the user has stopped the stream, and has not asked since
  cached,      \* whether the options hold the host of an earlier session
  receiver,    \* whether it is where they have it, and whether it answers
  faults       \* how often something has failed

uiVars == <<armed, inProgress, warm, stopped>>
placeVars == <<cached, receiver, faults>>
trayVars == <<vars, uiVars, placeVars>>

(* AutoConnectOnLaunch arms the timer.                                     *)
TrayInit ==
  /\ Init
  /\ armed \in BOOLEAN /\ warm = armed
  /\ inProgress = FALSE /\ stopped = FALSE
  /\ cached \in BOOLEAN /\ receiver = "there" /\ faults = 0

-----------------------------------------------------------------------------
(* RunCommandAsync: one command at a time, others are dropped.             *)

Run(c) ==
  IF inProgress
  THEN UNCHANGED <<vars, inProgress>>
  ELSE Issue(c) /\ inProgress' = TRUE

CommandEnds ==
  /\ inProgress /\ step = "idle"
  /\ inProgress' = FALSE
  /\ UNCHANGED <<vars, armed, warm, stopped, placeVars>>

(* The menu: no item is enabled while a command runs, and the state picks  *)
(* them.  A click on an item that lags behind a task's change of state     *)
(* finds the guards of the command itself.                                 *)
ClickStart ==
  /\ ~inProgress /\ state \in Restartable \cup {"StreamConfigured"}
  /\ Run("Start")
  /\ stopped' = FALSE
  /\ UNCHANGED <<armed, warm, placeVars>>

(* Slip: the timer is left running.                                        *)
ClickStopArmed ==
  /\ ~inProgress /\ state = "Streaming"
  /\ Run("Stop")
  /\ stopped' = TRUE
  /\ UNCHANGED <<armed, warm, placeVars>>

ClickStop ==
  /\ ~inProgress /\ state = "Streaming"
  /\ armed' = FALSE
  /\ Run("Stop")
  /\ stopped' = TRUE
  /\ UNCHANGED <<warm, placeVars>>

ClickReconnect ==
  /\ ~inProgress /\ state \notin {"Discovering", "Stopping"}
  /\ armed' = TRUE
  /\ Run("Reconnect")
  /\ stopped' = FALSE
  /\ UNCHANGED <<warm, placeVars>>

RestoreCommand == IF AutoStartStreaming THEN "Start" ELSE "Initialize"

(* WarmStartAsync after its three seconds, whatever the user did in them.  *)
WarmStart ==
  /\ warm
  /\ warm' = FALSE
  /\ Run(RestoreCommand)
  /\ stopped' = (stopped /\ inProgress)
  /\ UNCHANGED <<armed, placeVars>>

(* AutoRestoreTickAsync.                                                   *)
Disarm ==
  /\ armed /\ ~inProgress /\ state = "Streaming"
  /\ armed' = FALSE
  /\ UNCHANGED <<vars, inProgress, warm, stopped, placeVars>>

(* Slip: only a host that has been reset is restored.                      *)
RestoreIdle ==
  /\ armed /\ ~inProgress /\ state \in {"Idle", "Faulted"}
  /\ Run(RestoreCommand)
  /\ UNCHANGED <<armed, warm, stopped, placeVars>>

Restore ==
  /\ armed /\ ~inProgress /\ state \notin {"Streaming", "Discovering", "Stopping"}
  /\ Run(RestoreCommand)
  /\ UNCHANGED <<armed, warm, stopped, placeVars>>

-----------------------------------------------------------------------------
(* The command at work.  The options are copied once: a host found in an   *)
(* earlier session is taken without looking for the receiver.              *)

Silent == receiver = "silent"
Moved == receiver = "moved"

(* At most MaxFaults outcomes are failures of the moment, those of a        *)
(* receiver that has moved or fallen silent not among them.                *)
Fault(failed) ==
  IF failed THEN faults < MaxFaults /\ faults' = faults + 1
  ELSE UNCHANGED faults

ResolveAddress ==
  /\ Resolve
  /\ cached => step' = "connect"
  /\ Fault(step' # "connect")
  /\ UNCHANGED <<uiVars, cached, receiver>>

ConnectThere ==
  /\ Connect
  /\ step' = "configure" => ~Moved /\ ~Silent
  /\ Fault(step' # "configure" /\ receiver = "there")
  /\ UNCHANGED <<uiVars, cached, receiver>>

ConfigureThere ==
  /\ Configure
  /\ step' # "giveUp" => ~Moved /\ ~Silent
  /\ Fault(step' = "giveUp" /\ receiver = "there")
  /\ UNCHANGED <<uiVars, cached, receiver>>

PlainCommandStep ==
  /\ step \notin {"idle", "resolve", "connect", "configure"}
  /\ CommandStep
  /\ command' \in {command, RestoreCommand}
  /\ UNCHANGED <<uiVars, placeVars>>

TaskStep(t) ==
  /\ SourceStep(t) \/ PlainStep(t)
  /\ Fault(outcome'[t] = "error" /\ outcome[t] # "error")
  /\ UNCHANGED <<uiVars, cached, receiver>>

(* The receiver gets another address than the options have; it goes on     *)
(* accepting connections and answers nothing any more.                     *)
Move ==
  /\ cached /\ receiver = "there" /\ receiver' = "moved"
  /\ UNCHANGED <<vars, uiVars, cached, faults>>

FallSilent ==
  /\ receiver = "there" /\ receiver' = "silent"
  /\ UNCHANGED <<vars, uiVars, cached, faults>>

-----------------------------------------------------------------------------

HostStep == ResolveAddress \/ ConnectThere \/ ConfigureThere \/ PlainCommandStep

Ui ==
  \/ CommandEnds
  \/ ClickStart \/ ClickStop \/ ClickReconnect
  \/ WarmStart \/ Disarm \/ Restore

TrayNext ==
  \/ Ui \/ HostStep \/ Move \/ FallSilent
  \/ \E t \in Tasks : TaskStep(t)

(* Where a command waits for an answer of the receiver, without a timeout: *)
(* to a HELLO, a configuration or START_STREAM and, while there is a      *)
(* control client, to the DISCONNECT of a shutdown or of a failed attempt. *)
AwaitsReceiver == \/ step \in {"connect", "configure"}
                  \/ step \in {"giveUp", "disconnect"} /\ control

(* Timers fire and continuations run; a command goes on unless it waits    *)
(* for a receiver that is silent, and a task's own steps are taken.        *)
TrayFairness ==
  /\ WF_trayVars(WarmStart) /\ WF_trayVars(Disarm) /\ WF_trayVars(Restore)
  /\ WF_trayVars(CommandEnds)
  /\ WF_trayVars(~(Silent /\ AwaitsReceiver) /\ HostStep)
  /\ \A t \in Tasks : WF_trayVars(TaskStep(t))

TraySpec == TrayInit /\ [][TrayNext]_trayVars /\ TrayFairness

-----------------------------------------------------------------------------

(* A stream the user has stopped stays stopped until the user asks for one *)
(* again, or the first attempt after the launch comes that late.           *)
StopSticks == stopped /\ ~inProgress => \A t \in Tasks : ~CanWrite(t)

(* The one thing a command can hang on is a receiver that accepts and does *)
(* not answer: everything else it awaits comes to an end.                  *)
CommandsEnd == inProgress ~> ~inProgress \/ (Silent /\ AwaitsReceiver)

(* What the armed timer is for: sooner or later a stream is up, or the     *)
(* user has stopped or reconnected it, unless the receiver is silent, or   *)
(* no longer where the options of an earlier session have it, or a task    *)
(* that failed has written an old record, without the endpoint, over the   *)
(* one of a host that is then configured.                                  *)
Up == state = "Streaming" \/ \E t \in Tasks : CanWrite(t)

EndpointLost == state = "StreamConfigured" /\ ~endpoint

RestoreEnds ==
  armed ~> ~armed \/ command = "Reconnect" \/ Up \/ Silent \/ Moved \/ EndpointLost
=============================================================================
