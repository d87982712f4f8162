------------------------------ MODULE BridgeHost ------------------------------
(***************************************************************************)
(* The session lifecycle of the Windows tray application: BridgeHost,      *)
(* driven through BridgeCommandService, with ReceiverSessionManager (the   *)
(* control connection) and AudioStreamingCoordinator (the audio one).      *)
(*                                                                         *)
(* One command runs at a time: BridgeAppController holds _lifecycleGate    *)
(* for the whole of it, and the pipe server of the console host reads the  *)
(* next request only after answering the last.  Concurrently run the       *)
(* stream tasks started by Task.Run.  A stop waits three seconds for the   *)
(* task and then gives up, so a task may outlive the command that          *)
(* cancelled it and meet its successors: that is why there are Tasks, and  *)
(* not one task.                                                           *)
(*                                                                         *)
(* A step is the code between two points where another thread can be seen. *)
(* SetState(CurrentState with { ... }) reads the record and writes it back *)
(* unlocked; the two halves are separate steps where a task does it.  The  *)
(* command's own are one step: a task's write between its halves is        *)
(* overwritten, as if it had come before them.                             *)
(***************************************************************************)
EXTENDS Naturals, FiniteSets

CONSTANTS Tasks,         \* stream tasks that may be alive at the same time
          None,          \* the null reference
          SourceStalls   \* whether the audio source may keep a task for longer
                         \* than the three seconds a stop waits

ASSUME HostAssumption == None \notin Tasks /\ SourceStalls \in BOOLEAN

VARIABLES state,       \* CurrentState.State
          endpoint,    \* whether CurrentState.SelectedEndpoint is set
          config,      \* whether _activeConfig is set
          control,     \* whether the session manager holds a control client
          streamTask,  \* _streamTask
          activeClient,\* the task whose audio client is _activeClient
          command,     \* the command that has the gate
          step,        \* where it is
          taskPc,      \* where each stream task is
          outcome,     \* how its RunAsync ended, until the body has acted on it
          cancelled,   \* whether its token is cancelled
          severed,     \* whether its audio client is disposed
          seen         \* the endpoint its SetState has read

hostVars == <<state, endpoint, config, control, streamTask, command, step>>
taskVars == <<taskPc, outcome, cancelled, severed, seen>>
vars == <<hostVars, activeClient, taskVars>>

Commands == {"Initialize", "Start", "Stop", "Shutdown", "Reconnect"}

StreamStates == {"Idle", "Discovering", "ReceiverSelected", "ControlConnected",
                 "StreamConfigured", "Streaming", "Stopping",
                 "WaitingForReceiver", "Faulted"}

\* The states from which InitializeAsync starts over.
Restartable == {"Idle", "WaitingForReceiver", "Faulted"}

Steps == {"idle", "begin", "resolve", "connect", "configure", "giveUp", "check",
          "launch", "cancel", "abort", "await", "teardown", "disconnect"}

TaskSteps == {"done", "queued", "opening", "announce", "announcing", "register",
              "connecting", "sending", "reading", "writing", "leaving",
              "finishing", "report", "reporting"}

SendLoop == {"sending", "reading", "writing"}

Alive(t) == taskPc[t] # "done"
StreamAlive == streamTask \in Tasks /\ Alive(streamTask)

Init == /\ state = "Idle"
        /\ endpoint = FALSE /\ config = FALSE /\ control = FALSE
        /\ streamTask = None /\ activeClient = None
        /\ command = "Initialize" /\ step = "idle"
        /\ taskPc = [t \in Tasks |-> "done"]
        /\ outcome = [t \in Tasks |-> "normal"]
        /\ cancelled = [t \in Tasks |-> FALSE]
        /\ severed = [t \in Tasks |-> TRUE]
        /\ seen = [t \in Tasks |-> FALSE]

-------------------------------------------------------------------------------
(* The command's thread *)

\* A menu item, the warm start, the auto-restore timer or a pipe request.
Issue(c) == /\ step = "idle"
            /\ command' = c /\ step' = "begin"
            /\ UNCHANGED <<state, endpoint, config, control, streamTask,
                           activeClient, taskVars>>

\* The step after the stop routine, and after the initialize routine.
AfterStop == IF command = "Stop" THEN "idle" ELSE "teardown"
AfterInitialize == IF command = "Start" THEN "check" ELSE "idle"

\* InitializeAsync, up to its first await.
BeginInitialize ==
    /\ step = "begin"
    /\ command \in {"Initialize", "Start"} /\ state \in Restartable
    /\ state' = "Discovering" /\ step' = "resolve"
    /\ UNCHANGED <<endpoint, config, control, streamTask, command,
                   activeClient, taskVars>>

\* The early returns of the command service, and Start's way past Initialize.
BeginElsewhere ==
    /\ step = "begin"
    /\ \/ /\ command \in {"Initialize", "Start"} /\ state \notin Restartable
          /\ step' = IF state = "Streaming" THEN "idle" ELSE AfterInitialize
       \/ /\ command = "Stop" /\ (state # "Streaming" \/ streamTask = None)
          /\ step' = "idle"
       \/ /\ command \in {"Shutdown", "Reconnect"}
          /\ state # "Idle" /\ ~StreamAlive
          /\ step' = "teardown"
    /\ UNCHANGED <<state, endpoint, config, control, streamTask, command,
                   activeClient, taskVars>>

\* Mutant: a shutdown stops the stream without asking whether there is one.
BeginStopUnguarded ==
    /\ step = "begin"
    /\ \/ command = "Stop" /\ state = "Streaming"
       \/ command \in {"Shutdown", "Reconnect"} /\ state # "Idle"
    /\ state' = "Stopping" /\ step' = "cancel"
    /\ UNCHANGED <<endpoint, config, control, streamTask, command,
                   activeClient, taskVars>>

\* StopStreamingAsync, called by Stop or by a shutdown that finds a live task.
BeginStop ==
    /\ step = "begin"
    /\ \/ command = "Stop" /\ state = "Streaming" /\ streamTask # None
       \/ command \in {"Shutdown", "Reconnect"} /\ state # "Idle" /\ StreamAlive
    /\ state' = "Stopping" /\ step' = "cancel"
    /\ UNCHANGED <<endpoint, config, control, streamTask, command,
                   activeClient, taskVars>>

\* After its shutdown a reconnect goes on as a Start or, when AutoStartStreaming
\* is off, as an Initialize; the other commands are over.
GoOn == IF command = "Reconnect"
        THEN step' = "begin" /\ command' \in {"Start", "Initialize"}
        ELSE step' = "idle" /\ UNCHANGED command

\* ShutdownAsync of the command service, in a host that is Idle.
SkipShutdown ==
    /\ step = "begin" /\ command \in {"Shutdown", "Reconnect"} /\ state = "Idle"
    /\ GoOn
    /\ UNCHANGED <<state, endpoint, config, control, streamTask, activeClient,
                   taskVars>>

Resolve ==
    /\ step = "resolve"
    /\ \/ /\ state' = "ReceiverSelected" /\ endpoint' = TRUE /\ step' = "connect"
       \/ /\ step' = "giveUp"
          /\ UNCHANGED <<state, endpoint>>
    /\ UNCHANGED <<config, control, streamTask, command, activeClient, taskVars>>

\* ConnectAsync: the retry ladder ends in a connected client or in none.
Connect ==
    /\ step = "connect"
    /\ \/ control' = TRUE /\ state' = "ControlConnected" /\ step' = "configure"
       \/ control' = FALSE /\ step' = "giveUp" /\ UNCHANGED state
    /\ UNCHANGED <<endpoint, config, streamTask, command, activeClient, taskVars>>

Configure ==
    /\ step = "configure"
    /\ \/ /\ config' = TRUE /\ state' = "StreamConfigured"
          /\ step' = AfterInitialize
       \/ /\ step' = "giveUp"
          /\ UNCHANGED <<config, state>>
    /\ UNCHANGED <<endpoint, control, streamTask, command, activeClient, taskVars>>

\* The catch of InitializeAsync; rethrowing ends the command.
GiveUp ==
    /\ step = "giveUp"
    /\ control' = FALSE /\ config' = FALSE /\ endpoint' = FALSE
    /\ state' = "WaitingForReceiver" /\ step' = "idle"
    /\ UNCHANGED <<streamTask, command, activeClient, taskVars>>

Check ==
    /\ step = "check"
    /\ step' = IF state = "StreamConfigured" THEN "launch" ELSE "idle"
    /\ UNCHANGED <<state, endpoint, config, control, streamTask, command,
                   activeClient, taskVars>>

\* Task.Run: t is a new task, or one that is over and that nobody refers to.
StartTask(t) ==
    /\ ~Alive(t) /\ t # activeClient /\ t # streamTask
    /\ streamTask' = t
    /\ taskPc' = [taskPc EXCEPT ![t] = "queued"]
    /\ outcome' = [outcome EXCEPT ![t] = "normal"]
    /\ cancelled' = [cancelled EXCEPT ![t] = FALSE]
    /\ severed' = [severed EXCEPT ![t] = FALSE]
    /\ seen' = [seen EXCEPT ![t] = FALSE]

\* Mutant: StartStreamingAsync does not look at the task it already has.
LaunchRegardless ==
    /\ step = "launch" /\ step' = "idle"
    /\ IF endpoint /\ config
       THEN \E t \in Tasks : StartTask(t)
       ELSE UNCHANGED <<streamTask, taskVars>>
    /\ UNCHANGED <<state, endpoint, config, control, command, activeClient>>

\* StartStreamingAsync: two exceptions, an early return, or a new task.
Launch ==
    /\ step = "launch" /\ step' = "idle"
    /\ IF endpoint /\ config /\ ~StreamAlive
       THEN \E t \in Tasks : StartTask(t)
       ELSE UNCHANGED <<streamTask, taskVars>>
    /\ UNCHANGED <<state, endpoint, config, control, command, activeClient>>

Cancel ==
    /\ step = "cancel" /\ step' = "abort"
    /\ cancelled' = [cancelled EXCEPT ![streamTask] = TRUE]
    /\ UNCHANGED <<state, endpoint, config, control, streamTask, command,
                   activeClient, taskPc, outcome, severed, seen>>

\* AbortCurrentStreamAsync takes the client out of the coordinator, disposes it.
Abort ==
    /\ step = "abort" /\ step' = "await"
    /\ activeClient' = None
    /\ severed' = [t \in Tasks |-> severed[t] \/ t = activeClient]
    /\ UNCHANGED <<state, endpoint, config, control, streamTask, command,
                   taskPc, outcome, cancelled, seen>>

\* Mutant: the stop does not wait for the task it has cancelled.
AwaitNothing ==
    /\ step = "await"
    /\ streamTask' = None
    /\ state' = "StreamConfigured" /\ step' = AfterStop
    /\ UNCHANGED <<endpoint, config, control, command, activeClient, taskVars>>

AwaitStopped ==
    /\ step = "await" /\ ~Alive(streamTask)
    /\ streamTask' = None
    /\ state' = "StreamConfigured" /\ step' = AfterStop
    /\ UNCHANGED <<endpoint, config, control, command, activeClient, taskVars>>

\* Mutant: giving up the wait leaves the state the stop began with.
AwaitTimesOutSilently ==
    /\ step = "await" /\ SourceStalls /\ Alive(streamTask)
    /\ step' = AfterStop
    /\ UNCHANGED <<state, endpoint, config, control, streamTask, command,
                   activeClient, taskVars>>

\* Mutant: the wait has no three-second limit.
AwaitForever == FALSE /\ UNCHANGED vars

\* The three seconds pass first: the task and its token source stay behind.
AwaitTimesOut ==
    /\ step = "await" /\ SourceStalls /\ Alive(streamTask)
    /\ state' = "Faulted" /\ step' = AfterStop
    /\ UNCHANGED <<endpoint, config, control, streamTask, command,
                   activeClient, taskVars>>

TearDown ==
    /\ step = "teardown"
    /\ state' = "Stopping" /\ step' = "disconnect"
    /\ UNCHANGED <<endpoint, config, control, streamTask, command,
                   activeClient, taskVars>>

\* Mutant: a shutdown keeps the configuration of the session it ends.
DisconnectKeepsConfig ==
    /\ step = "disconnect"
    /\ control' = FALSE /\ endpoint' = FALSE
    /\ streamTask' = None /\ state' = "Idle"
    /\ GoOn
    /\ UNCHANGED <<config, activeClient, taskVars>>

\* The rest of ShutdownAsync, from DisconnectAsync on.
Disconnect ==
    /\ step = "disconnect"
    /\ control' = FALSE /\ config' = FALSE /\ endpoint' = FALSE
    /\ streamTask' = None /\ state' = "Idle"
    /\ GoOn
    /\ UNCHANGED <<activeClient, taskVars>>

-------------------------------------------------------------------------------
(* A stream task *)

GoTo(t, pc) == taskPc' = [taskPc EXCEPT ![t] = pc]

\* The thread pool does not run a body whose token is already cancelled.
Dequeue(t) ==
    /\ taskPc[t] = "queued"
    /\ GoTo(t, IF cancelled[t] THEN "done" ELSE "opening")
    /\ UNCHANGED <<hostVars, activeClient, outcome, cancelled, severed, seen>>

\* CreateProvider and CreateSource; an exception goes to the generic catch.
OpenSource(t) ==
    /\ taskPc[t] = "opening"
    /\ \/ GoTo(t, "announce") /\ UNCHANGED outcome
       \/ /\ GoTo(t, "finishing")
          /\ outcome' = [outcome EXCEPT ![t] = "error"]
    /\ UNCHANGED <<hostVars, activeClient, cancelled, severed, seen>>

\* The halves of a task's SetState: it reads the record, and writes it back
\* with a new State, undoing what happened to the endpoint in between.
ReadState(t) ==
    /\ \/ taskPc[t] = "announce" /\ GoTo(t, "announcing")
       \/ taskPc[t] = "report" /\ GoTo(t, "reporting")
    /\ seen' = [seen EXCEPT ![t] = endpoint]
    /\ UNCHANGED <<hostVars, activeClient, outcome, cancelled, severed>>

WriteState(t) ==
    /\ \/ /\ taskPc[t] = "announcing" /\ GoTo(t, "register")
          /\ state' = "Streaming"
       \/ /\ taskPc[t] = "reporting" /\ GoTo(t, "done")
          /\ state' = "WaitingForReceiver"
    /\ endpoint' = seen[t]
    /\ seen' = [seen EXCEPT ![t] = FALSE]
    /\ UNCHANGED <<config, control, streamTask, command, step, activeClient,
                   outcome, cancelled, severed>>

\* RunAsync publishes its client before it connects it.
Register(t) ==
    /\ taskPc[t] = "register" /\ GoTo(t, "connecting")
    /\ activeClient' = t
    /\ UNCHANGED <<hostVars, outcome, cancelled, severed, seen>>

\* The audio connection is made, refused, cancelled, or disposed under way.
ConnectAudio(t) ==
    /\ taskPc[t] = "connecting"
    /\ \/ ~severed[t] /\ GoTo(t, "sending") /\ UNCHANGED outcome
       \/ /\ GoTo(t, "leaving")
          /\ \/ outcome' = [outcome EXCEPT ![t] = "error"]
             \/ cancelled[t] /\ outcome' = [outcome EXCEPT ![t] = "cancelled"]
    /\ UNCHANGED <<hostVars, activeClient, cancelled, severed, seen>>

\* Mutant: the loop leaves it to the write to notice the cancellation.
CheckNothing(t) ==
    /\ taskPc[t] = "sending"
    /\ GoTo(t, "reading")
    /\ UNCHANGED <<hostVars, activeClient, outcome, cancelled, severed, seen>>

\* The head of the send loop; RunAsync swallows the cancellation it throws.
CheckToken(t) ==
    /\ taskPc[t] = "sending"
    /\ GoTo(t, IF cancelled[t] THEN "leaving" ELSE "reading")
    /\ UNCHANGED <<hostVars, activeClient, outcome, cancelled, severed, seen>>

\* ReadFrame returns a frame, nothing yet, the end of the source or an I/O
\* error (swallowed), or throws something else.
ReadFrame(t) ==
    /\ taskPc[t] = "reading"
    /\ \/ \E pc \in {"writing", "sending", "leaving"} : GoTo(t, pc) /\ UNCHANGED outcome
       \/ GoTo(t, "leaving") /\ outcome' = [outcome EXCEPT ![t] = "error"]
    /\ UNCHANGED <<hostVars, activeClient, cancelled, severed, seen>>

\* Whether task t can still put a frame on the wire.
CanWrite(t) == taskPc[t] \in SendLoop /\ ~cancelled[t] /\ ~severed[t]

\* The frame goes out, or the loop ends: cancelled, disposed or peer gone.
WriteFrame(t) ==
    /\ taskPc[t] = "writing"
    /\ \/ CanWrite(t) /\ GoTo(t, "sending")
       \/ GoTo(t, "leaving")
    /\ UNCHANGED <<hostVars, activeClient, outcome, cancelled, severed, seen>>

\* RunAsync's finally: only its own client is taken out of the coordinator.
Leave(t) ==
    /\ taskPc[t] = "leaving" /\ GoTo(t, "finishing")
    /\ activeClient' = IF activeClient = t THEN None ELSE activeClient
    /\ severed' = [severed EXCEPT ![t] = TRUE]
    /\ UNCHANGED <<hostVars, outcome, cancelled, seen>>

\* Mutant: a loop that ends on its own is not reported.
FinishSilently(t) ==
    /\ taskPc[t] = "finishing"
    /\ GoTo(t, IF outcome[t] = "error" THEN "report" ELSE "done")
    /\ outcome' = [outcome EXCEPT ![t] = "normal"]
    /\ UNCHANGED <<hostVars, activeClient, cancelled, severed, seen>>

\* The catches and the finally of the task's body.
Finish(t) ==
    /\ taskPc[t] = "finishing"
    /\ GoTo(t, IF \/ outcome[t] = "error"
                  \/ outcome[t] = "normal" /\ ~cancelled[t]
               THEN "report" ELSE "done")
    /\ outcome' = [outcome EXCEPT ![t] = "normal"]
    /\ UNCHANGED <<hostVars, activeClient, cancelled, severed, seen>>

-------------------------------------------------------------------------------
StopRoutine == Cancel \/ Abort \/ AwaitStopped \/ AwaitTimesOut

CommandStep ==
    \/ \E c \in Commands : Issue(c)
    \/ BeginInitialize \/ BeginElsewhere \/ BeginStop \/ SkipShutdown
    \/ Resolve \/ Connect \/ Configure \/ GiveUp \/ Check \/ Launch
    \/ StopRoutine \/ TearDown \/ Disconnect

\* What a task does with the audio source, and everything else it does.
SourceStep(t) == OpenSource(t) \/ ReadFrame(t)
PlainStep(t) == \/ Dequeue(t) \/ ReadState(t) \/ WriteState(t) \/ Register(t)
                \/ ConnectAudio(t) \/ CheckToken(t) \/ WriteFrame(t)
                \/ Leave(t) \/ Finish(t)

Next == CommandStep \/ \E t \in Tasks : SourceStep(t) \/ PlainStep(t)

\* The stop's own code runs on and its timer fires.  Once a token is cancelled
\* everything its task awaits comes to an end, whatever the receiver does; so
\* does what it asks of a source that does not stall.
Fairness ==
    /\ WF_vars(StopRoutine)
    /\ \A t \in Tasks :
         WF_vars(cancelled[t] /\ (PlainStep(t) \/ (~SourceStalls /\ SourceStep(t))))

Spec == Init /\ [][Next]_vars /\ Fairness

-------------------------------------------------------------------------------
(* Properties *)

\* Types; and the stop routine, which dereferences _streamTask, has one.
TypeOK == /\ state \in StreamStates
          /\ endpoint \in BOOLEAN /\ config \in BOOLEAN /\ control \in BOOLEAN
          /\ streamTask \in Tasks \cup {None}
          /\ activeClient \in Tasks \cup {None}
          /\ command \in Commands /\ step \in Steps
          /\ taskPc \in [Tasks -> TaskSteps]
          /\ outcome \in [Tasks -> {"normal", "cancelled", "error"}]
          /\ cancelled \in [Tasks -> BOOLEAN]
          /\ severed \in [Tasks -> BOOLEAN]
          /\ seen \in [Tasks -> BOOLEAN]
          /\ step \in {"cancel", "abort", "await"} => streamTask # None

\* At most one task can put frames on the wire, however many stops have given
\* up on a task that is still alive: the receiver never hears two streams
\* interleaved.
OneSender == \A s, t \in Tasks : CanWrite(s) /\ CanWrite(t) => s = t

\* Whatever a command ran into, it leaves a state in which the menu and the
\* auto-restore timer can act: in Discovering and Stopping UpdateMenuState
\* disables every command and AutoRestoreTickAsync returns at once, for good.
NeverLockedOut ==
    step = "idle" => state \in Restartable \cup {"StreamConfigured", "Streaming"}

\* A host that says Idle holds nothing of the session that ended: no control
\* connection, no configuration, no endpoint and no stream of its own.
IdleHoldsNothing ==
    step = "idle" /\ state = "Idle" =>
        ~control /\ ~config /\ ~endpoint /\ streamTask = None

\* A stop comes to an end: because the cancelled task does, or, when the source
\* holds the task for good, because the stop gives up.
StopReturns == step = "cancel" ~> step \in {"idle", "teardown"}

\* A host that says Streaming between commands has a live task: the state a
\* stream leaves behind never outlives it, or Start would do nothing for good.
StreamingIsLive == step = "idle" /\ state = "Streaming" => StreamAlive

\* TrayApplicationContext.cs:173, "Stop retrying once streaming is active": the
\* timer looks at the published state, which therefore has to say Streaming
\* whenever a task is sending.
SendingIsPublished ==
    step = "idle" => \A t \in Tasks : CanWrite(t) => state = "Streaming"

\* The coordinator's active client is the sending task's, so that an abort
\* reaches the socket that is in use.
AbortReachesSender == \A t \in Tasks : CanWrite(t) => activeClient = t

\* After a stop has returned nothing of the stream is left running.
StoppedIsOver == step = "idle" /\ streamTask = None => \A t \in Tasks : ~Alive(t)
===============================================================================
