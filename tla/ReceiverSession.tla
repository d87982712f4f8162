---------------------------- MODULE ReceiverSession ----------------------------
(***************************************************************************)
(* Sessions on the Android receiver: ReceiverForegroundService and its two *)
(* servers, FlatBufferHelloServer (control) and AudioPcmServer (audio).    *)
(*                                                                         *)
(* Each server is one object that start() and stop() reuse.  start()       *)
(* launches a coroutine - a generation - that binds a ServerSocket, stores *)
(* it in a field of the object and accepts clients one after the other.    *)
(* stop() closes the sockets the fields name and cancels the job, but      *)
(* waits for nothing: a generation may still be in its finally, reading    *)
(* and writing the same fields, when the next one runs.                    *)
(*                                                                         *)
(* When a session ends unexpectedly the generation that noticed recycles   *)
(* both servers, itself included, from its callback; the user's Disconnect *)
(* does so from the main thread.  One recycle runs at a time.  But the     *)
(* activity starts the service when it is created, and an ACTION_START on  *)
(* the running service starts both servers once more, beside the recycle.  *)
(* ACTION_STOP is sent by nobody.                                          *)
(*                                                                         *)
(* No lock guards the fields, so a step is one access to one of them, with *)
(* the call made through the value read (field?.close()).  Any thread may  *)
(* come between two accesses of another.                                   *)
(*                                                                         *)
(* The repository of displayed state is left out: nothing here reads it.   *)
(***************************************************************************)
EXTENDS Naturals, FiniteSets

CONSTANTS Gens,     \* bound: generations of a server that may exist at a time
          None,     \* the null reference
          Scenes    \* what may happen: a behaviour is of one scene

Servers == {"control", "audio"}
Stoppers == {"recycle", "restart"}
Acts == {"connect", "disconnect", "reopen"}

\* servers        those to look at: one the PC never connects to may be left out
\* pcVanishes     the PC may go without closing its sockets
\* sessionsThrow  an exception may end a session: a frame that does not parse, a
\*                write that fails, no AudioTrack
\* acts           bound: how often the PC connects, the user disconnects, and the
\*                activity is created again beside the running service
ASSUME ReceiverAssumption ==
    /\ None \notin Gens /\ Gens # {}
    /\ Scenes \subseteq [servers : SUBSET Servers, pcVanishes : BOOLEAN,
                         sessionsThrow : BOOLEAN, acts : [Acts -> Nat]]

VARIABLES
    flag,       \* manualDisconnectRequested of each server
    listener,   \* its serverSocket: the generation that bound it
    client,     \* its current client socket: the generation that accepted it
    job,        \* its serverJob
    scope,      \* its scope: null, active or cancelled
    output,     \* AudioPcmServer.output: the generation that created it
    playback,   \* AudioPcmServer.playbackActive
    pc,         \* where each generation is
    cancelled,  \* whether its job is cancelled
    child,      \* whether it was launched in the scope the field names
    bound,      \* whether the ServerSocket it created is open
    on,         \* the generation on whose ServerSocket it accepts
    conn,       \* the client connection it serves
    track,      \* its AudioTrackOutput: none, new, or with an AudioTrack
    thrown,     \* the exception on its way out of its session
    expected,   \* the argument of the callback it is about to make
    scene,      \* which scene this is
    peer,       \* what the PC has: nothing, a place in the backlog, a session
    acts,       \* how often the PC and the user may still do each
    recovery,   \* recoveryInProgress
    manual,     \* manualSessionDisconnectInProgress
    main,       \* the main thread, in disconnectCurrentSession or startReceiverService
    step,       \* where the recycle is
    line,       \* where it, or the restart, is in a stop() or start()
    made,       \* the job it has launched and not yet stored
    mishaps     \* history: which accesses of two threads have crossed

serverVars == <<flag, listener, client, job, scope, output, playback>>
genVars == <<pc, cancelled, child, bound, on, conn, track, thrown, expected>>
callVars == <<line, made>>
serviceVars == <<scene, acts, recovery, manual, main, step, callVars>>
vars == <<serverVars, genVars, peer, serviceVars, mishaps>>

GenSteps == {"done", "launched", "binding", "storing", "loop", "fetch", "accept",
             "accepted", "drop", "unhook", "claim", "play", "unflag", "open", "build",
             "create", "serve", "unplay", "closing", "forget", "clear", "silence", "discard", "ask",
             "report", "recycling", "after"}

Lines == {"setFlag", "stopPlayback", "closeClient", "clearClient", "stopOutput", "clearOutput",
          "closeListener", "clearListener", "cancelJob", "clearJob", "cancelScope",
          "clearScope", "clearFlag", "newScope", "launch", "storeJob"}

RecycleSteps == {"idle", "stopAudio", "stopControl", "startControl", "startAudio",
                 "clear", "end"}
MainSteps == {"idle", "asked", "recycling", "startControl", "startAudio"}

Conns == {"none", "open", "ended", "lost", "severed"}

\* "last": reported by the outer catch, after the finally's report.
Exceptions == {"no", "socket", "other", "last"}

\* bind    a ServerSocket was stored after a stop had looked for it, or by a
\*         generation that had been cancelled
\* end     a generation that was not cancelled has ended with an exception
\* client, output   an assignment of the field came between another thread's
\*         look at it and that thread's own assignment
Mishaps == {"bind", "end", "client", "output"}

\* A generation nobody refers to any more, which a launch may use again; all of
\* them are alike, so it does not matter which one a launch takes.
Unused(s, g) == /\ pc[s][g] = "done" /\ ~bound[s][g]
                /\ \A h \in Gens : on[s][h] # g
                /\ g \notin {listener[s], client[s], job[s]}
                /\ s = "audio" => g # output /\ track[g] = "none"
                /\ \A t \in Stoppers : made[t] # <<s, g>>

Set(f, s, g, v) == [f EXCEPT ![s][g] = v]

\* A generation that is over is forgotten, with its cancellation.
GoTo(s, g, p) == /\ pc' = Set(pc, s, g, p)
                 /\ cancelled' = Set(cancelled, s, g, p # "done" /\ cancelled[s][g])
                 /\ child' = Set(child, s, g, p # "done" /\ child[s][g])

\* The service right after startReceiverService: a generation of each launched.
Init ==
    LET first(s) == IF s \in scene.servers THEN CHOOSE g \in Gens : TRUE ELSE None
        each(v) == [s \in Servers |-> [g \in Gens |-> v]]
    IN  /\ scene \in Scenes /\ acts = scene.acts
        /\ flag = [s \in Servers |-> FALSE]
        /\ listener = [s \in Servers |-> None] /\ client = listener
        /\ job = [s \in Servers |-> first(s)]
        /\ scope = [s \in Servers |-> "active"]
        /\ output = None /\ playback = FALSE
        /\ pc = [s \in Servers |-> [g \in Gens |->
                   IF g = first(s) THEN "launched" ELSE "done"]]
        /\ child = [s \in Servers |-> [g \in Gens |-> g = first(s)]]
        /\ cancelled = each(FALSE) /\ bound = each(FALSE) /\ on = each(None)
        /\ conn = each("none") /\ thrown = each("no") /\ expected = each(FALSE)
        /\ track = [g \in Gens |-> "none"]
        /\ peer = [s \in Servers |-> "off"]
        /\ recovery = FALSE /\ manual = FALSE /\ main = "idle" /\ step = "idle"
        /\ line = [t \in Stoppers |-> "setFlag"]
        /\ made = [t \in Stoppers |-> <<>>]
        /\ mishaps = {}

-------------------------------------------------------------------------------
(* Threads between a look at a field and their own assignment of it. *)

\* The call a stopper is in, stop() or start(), and of which server.
Call(t) == IF t = "recycle" THEN step ELSE main
Starts(t) == Call(t) \in {"startControl", "startAudio"}
Busy(t, s) == Call(t) \in [control |-> {"stopControl", "startControl"},
                           audio |-> {"stopAudio", "startAudio"}][s]

StopsAt(s, lines) == \E t \in Stoppers : Busy(t, s) /\ line[t] \in lines

ClientHeld(s, g) ==
    \/ \E h \in Gens \ {g} : pc[s][h] \in {"drop", "unhook", "claim", "clear"}
    \/ StopsAt(s, {"clearClient"})

OutputHeld(g) ==
    \/ \E h \in Gens \ {g} :
         pc["audio"][h] \in {"unhook", "claim", "play", "unflag", "open", "build",
                             "discard"}
    \/ StopsAt("audio", {"clearOutput"})

\* A stop that has looked for the ServerSocket and has yet to cancel the job.
ListenerPassed(s) ==
    StopsAt(s, {"clearListener", "cancelJob", "clearJob", "cancelScope"})

Mishap(s, kind, happens) ==
    mishaps' = IF happens THEN mishaps \cup {<<s, kind>>} ELSE mishaps

-------------------------------------------------------------------------------
(* A generation *)

\* A coroutine cancelled before it was dispatched never runs.
Dispatch(s, g) ==
    /\ pc[s][g] = "launched"
    /\ GoTo(s, g, IF cancelled[s][g] THEN "done" ELSE "binding")
    /\ UNCHANGED <<serverVars, bound, on, conn, track, thrown, expected, peer,
                   serviceVars, mishaps>>

\* ServerSocket(port).  The BindException of a port still in use is a
\* SocketException: swallowed.
Bind(s, g) ==
    /\ pc[s][g] = "binding"
    /\ IF \E h \in Gens : bound[s][h]
       THEN GoTo(s, g, "done") /\ UNCHANGED bound
       ELSE GoTo(s, g, "storing") /\ bound' = Set(bound, s, g, TRUE)
    /\ UNCHANGED <<serverVars, on, conn, track, thrown, expected, peer, serviceVars,
                   mishaps>>

Store(s, g) ==
    /\ pc[s][g] = "storing" /\ GoTo(s, g, "loop")
    /\ listener' = [listener EXCEPT ![s] = g]
    /\ Mishap(s, "bind", ListenerPassed(s))
    /\ UNCHANGED <<flag, client, job, scope, output, playback, bound, on, conn, track,
                   thrown, expected, peer, serviceVars>>

\* while (isActive)
Loop(s, g) ==
    /\ pc[s][g] = "loop"
    /\ GoTo(s, g, IF cancelled[s][g] THEN "done" ELSE "fetch")
    /\ UNCHANGED <<serverVars, bound, on, conn, track, thrown, expected, peer,
                   serviceVars, mishaps>>

\* serverSocket?.accept() ?: break.  The field may by now hold the socket of
\* another generation.
Fetch(s, g) ==
    /\ pc[s][g] = "fetch"
    /\ GoTo(s, g, IF listener[s] = None THEN "done" ELSE "accept")
    /\ on' = Set(on, s, g, listener[s])
    /\ UNCHANGED <<serverVars, bound, conn, track, thrown, expected, peer,
                   serviceVars, mishaps>>

\* accept() on a socket that has been closed throws a SocketException.
AcceptFails(s, g) ==
    /\ pc[s][g] = "accept" /\ ~bound[s][on[s][g]]
    /\ GoTo(s, g, "done") /\ on' = Set(on, s, g, None)
    /\ UNCHANGED <<serverVars, bound, conn, track, thrown, expected, peer,
                   serviceVars, mishaps>>

\* accept() returns.  Until the claim no field names the socket.
Accept(s, g) ==
    /\ pc[s][g] = "accept" /\ bound[s][on[s][g]] /\ peer[s] = "waiting"
    /\ GoTo(s, g, "accepted") /\ on' = Set(on, s, g, None)
    /\ conn' = Set(conn, s, g, "open")
    /\ peer' = [peer EXCEPT ![s] = "served"]
    /\ UNCHANGED <<serverVars, bound, track, thrown, expected, serviceVars, mishaps>>

\* currentControlSocket?.close(), currentClientSocket?.close()
CloseClient(s) ==
    /\ conn' = [conn EXCEPT ![s] = [g \in Gens |->
                  IF g = client[s] /\ @[g] # "none" THEN "severed" ELSE @[g]]]
    /\ peer' = [peer EXCEPT ![s] =
                  IF @ = "served" /\ client[s] # None /\ conn[s][client[s]] = "open"
                  THEN "off" ELSE @]

Supersede(s, g) ==
    /\ pc[s][g] = "accepted"
    /\ GoTo(s, g, IF s = "audio" THEN "drop" ELSE "claim")
    /\ CloseClient(s)
    /\ UNCHANGED <<serverVars, bound, on, track, thrown, expected, serviceVars, mishaps>>

\* output?.stop() releases the AudioTrack, if it has been created by then.
StopOutput == track' = [g \in Gens |->
                IF g = output /\ track[g] = "live" THEN "none" ELSE track[g]]

\* In front of a new session and in the finally of an old one.
Silence(g) ==
    /\ \/ pc["audio"][g] = "drop" /\ GoTo("audio", g, "unhook")
       \/ pc["audio"][g] = "silence" /\ GoTo("audio", g, "discard")
    /\ StopOutput
    /\ UNCHANGED <<serverVars, bound, on, conn, thrown, expected, peer, serviceVars,
                   mishaps>>

Discard(g) ==
    /\ \/ pc["audio"][g] = "unhook" /\ GoTo("audio", g, "claim")
       \/ pc["audio"][g] = "discard" /\ GoTo("audio", g, "ask")
    /\ output' = None
    /\ UNCHANGED <<flag, listener, client, job, scope, playback, bound, on, conn, track,
                   thrown, expected, peer, serviceVars, mishaps>>

Claim(s, g) ==
    /\ pc[s][g] = "claim" /\ GoTo(s, g, IF s = "audio" THEN "play" ELSE "unflag")
    /\ client' = [client EXCEPT ![s] = g]
    /\ Mishap(s, "client", ClientHeld(s, g))
    /\ UNCHANGED <<flag, listener, job, scope, output, playback, bound, on, conn, track,
                   thrown, expected, peer, serviceVars>>

Play(g) ==
    /\ pc["audio"][g] = "play" /\ GoTo("audio", g, "unflag")
    /\ playback' = TRUE
    /\ UNCHANGED <<flag, listener, client, job, scope, output, bound, on, conn, track,
                   thrown, expected, peer, serviceVars, mishaps>>

Unflag(s, g) ==
    /\ pc[s][g] = "unflag" /\ GoTo(s, g, "open")
    /\ flag' = [flag EXCEPT ![s] = FALSE]
    /\ UNCHANGED <<listener, client, job, scope, output, playback, bound, on, conn,
                   track, thrown, expected, peer, serviceVars, mishaps>>

\* Where the finally begins.
Ending(s) == IF s = "audio" THEN "unplay" ELSE "closing"

\* getInputStream of a socket that somebody has closed throws a SocketException.
Open(s, g) ==
    /\ pc[s][g] = "open"
    /\ IF conn[s][g] = "severed"
       THEN GoTo(s, g, Ending(s)) /\ thrown' = Set(thrown, s, g, "socket")
       ELSE GoTo(s, g, IF s = "audio" THEN "build" ELSE "serve") /\ UNCHANGED thrown
    /\ UNCHANGED <<serverVars, bound, on, conn, track, expected, peer, serviceVars,
                   mishaps>>

\* output = outputTrack, which has no AudioTrack before ensureCreated.
Build(g) ==
    /\ pc["audio"][g] = "build" /\ GoTo("audio", g, "create")
    /\ output' = g /\ track' = [track EXCEPT ![g] = "new"]
    /\ UNCHANGED <<flag, listener, client, job, scope, playback, bound, on, conn,
                   thrown, expected, peer, serviceVars, mishaps>>

Create(g) ==
    /\ pc["audio"][g] = "create"
    /\ \/ /\ GoTo("audio", g, "serve") /\ track' = [track EXCEPT ![g] = "live"]
          /\ Mishap("audio", "output", output # g \/ OutputHeld(g))
          /\ UNCHANGED thrown
       \/ /\ scene.sessionsThrow
          /\ GoTo("audio", g, "unplay") /\ track' = [track EXCEPT ![g] = "none"]
          /\ thrown' = Set(thrown, "audio", g, "other")
          /\ UNCHANGED mishaps
    /\ UNCHANGED <<serverVars, bound, on, conn, expected, peer, serviceVars>>

\* A control frame that does not parse, an answer that cannot be written (any more).
Throw(g) ==
    /\ scene.sessionsThrow
    /\ pc["control"][g] = "serve" /\ conn["control"][g] \in {"open", "severed"}
    /\ GoTo("control", g, "closing")
    /\ \E e \in {"socket", "other"} : thrown' = Set(thrown, "control", g, e)
    /\ UNCHANGED <<serverVars, bound, on, conn, track, expected, peer, serviceVars,
                   mishaps>>

\* The read loop ends: end of stream, a closed socket, or, on the next frame,
\* a playbackActive that somebody has cleared.
Hear(s, g) ==
    /\ pc[s][g] = "serve"
    /\ \/ conn[s][g] \in {"ended", "severed"}
       \/ s = "audio" /\ ~playback /\ conn[s][g] = "open"
    /\ GoTo(s, g, Ending(s))
    /\ UNCHANGED <<serverVars, bound, on, conn, track, thrown, expected, peer,
                   serviceVars, mishaps>>

\* DISCONNECT: the PC waits for the answer, if there is one, and closes.
HearDisconnect(g) ==
    /\ pc["control"][g] = "serve" /\ conn["control"][g] = "open"
    /\ GoTo("control", g, "closing")
    /\ flag' = [flag EXCEPT !["control"] = TRUE]
    /\ peer' = [peer EXCEPT !["control"] = "off"]
    /\ conn' = Set(conn, "control", g, "ended")
    /\ \/ UNCHANGED thrown
       \/ scene.sessionsThrow /\ thrown' = Set(thrown, "control", g, "socket")
    /\ UNCHANGED <<listener, client, job, scope, output, playback, bound, on, track,
                   expected, serviceVars, mishaps>>

\* The finally, in the audio server after the playback worker is over.
Unplay(g) ==
    /\ pc["audio"][g] = "unplay" /\ GoTo("audio", g, "closing")
    /\ playback' = FALSE
    /\ UNCHANGED <<flag, listener, client, job, scope, output, bound, on, conn, track,
                   thrown, expected, peer, serviceVars, mishaps>>

\* It closes its own socket.
Close(s, g) ==
    /\ pc[s][g] = "closing" /\ GoTo(s, g, "forget")
    /\ conn' = Set(conn, s, g, "none")
    /\ peer' = [peer EXCEPT ![s] = IF conn[s][g] = "open" THEN "off" ELSE @]
    /\ UNCHANGED <<serverVars, bound, on, track, thrown, expected, serviceVars, mishaps>>

\* if (currentControlSocket === socket) currentControlSocket = null
AfterForget(s) == IF s = "audio" THEN "silence" ELSE "ask"

\* Mutant: without the test.
ForgetAny(s, g) ==
    /\ pc[s][g] = "forget" /\ GoTo(s, g, "clear")
    /\ UNCHANGED <<serverVars, bound, on, conn, track, thrown, expected, peer,
                   serviceVars, mishaps>>

Forget(s, g) ==
    /\ pc[s][g] = "forget"
    /\ GoTo(s, g, IF client[s] = g THEN "clear" ELSE AfterForget(s))
    /\ UNCHANGED <<serverVars, bound, on, conn, track, thrown, expected, peer,
                   serviceVars, mishaps>>

Clear(s, g) ==
    /\ pc[s][g] = "clear" /\ GoTo(s, g, AfterForget(s))
    /\ client' = [client EXCEPT ![s] = None]
    /\ UNCHANGED <<flag, listener, job, scope, output, playback, bound, on, conn, track,
                   thrown, expected, peer, serviceVars, mishaps>>

\* The argument of the callback.
Ask(s, g) ==
    /\ pc[s][g] = "ask" /\ GoTo(s, g, "report")
    /\ expected' = Set(expected, s, g, flag[s])
    /\ UNCHANGED <<serverVars, bound, on, conn, track, thrown, peer, serviceVars, mishaps>>

\* onControlDisconnected, onAudioSessionEnded.
Report(s, g) ==
    /\ pc[s][g] = "report"
    /\ expected' = Set(expected, s, g, FALSE)
    /\ IF ~expected[s][g] /\ ~manual /\ ~recovery
       THEN recovery' = TRUE /\ step' = "stopAudio" /\ GoTo(s, g, "recycling")
       ELSE GoTo(s, g, "after") /\ UNCHANGED <<recovery, step>>
    /\ UNCHANGED <<serverVars, bound, on, conn, track, thrown, peer, scene, acts, manual,
                   main, callVars, mishaps>>

\* Mutant: an accept loop of one turn.
AfterFirst(s, g) ==
    /\ pc[s][g] = "after" /\ GoTo(s, g, "done")
    /\ thrown' = Set(thrown, s, g, "no")
    /\ flag' = [flag EXCEPT ![s] = FALSE]
    /\ UNCHANGED <<listener, client, job, scope, output, playback, bound, on, conn,
                   track, expected, peer, serviceVars, mishaps>>

\* The rest of the finally.  A SocketException ends the generation in silence,
\* any other is reported again.
After(s, g) ==
    /\ pc[s][g] = "after"
    /\ flag' = [flag EXCEPT ![s] = thrown[s][g] = "last" /\ @]
    /\ \/ thrown[s][g] = "no" /\ GoTo(s, g, "loop") /\ UNCHANGED <<thrown, mishaps>>
       \/ /\ thrown[s][g] \in {"socket", "last"} /\ GoTo(s, g, "done")
          /\ thrown' = Set(thrown, s, g, "no")
          /\ Mishap(s, "end", ~cancelled[s][g])
       \/ /\ thrown[s][g] = "other" /\ GoTo(s, g, "report")
          /\ thrown' = Set(thrown, s, g, "last") /\ UNCHANGED mishaps
    /\ UNCHANGED <<listener, client, job, scope, output, playback, bound, on, conn,
                   track, expected, peer, serviceVars>>

-------------------------------------------------------------------------------
(* stop() and start() of a server, by a recycle or by startReceiverService *)

Access(t, s, from, to) ==
    /\ Busy(t, s) /\ s \in scene.servers /\ line[t] = from
    /\ line' = [line EXCEPT ![t] = to]
    /\ UNCHANGED <<scene, acts, recovery, manual>>

Goes == UNCHANGED <<main, step>>

\* The call is over; the calls of the recycle and of startReceiverService.
Returns(t) ==
    IF t = "recycle"
    THEN /\ step' = [stopAudio |-> "stopControl", stopControl |-> "startControl",
                     startControl |-> "startAudio", startAudio |-> "clear"][step]
         /\ UNCHANGED main
    ELSE /\ main' = IF main = "startControl" THEN "startAudio" ELSE "idle"
         /\ UNCHANGED step

\* A server that is not looked at.
Skip(t, s) ==
    /\ Busy(t, s) /\ s \notin scene.servers /\ Returns(t)
    /\ UNCHANGED <<serverVars, genVars, peer, scene, acts, recovery, manual, callVars,
                   mishaps>>

SetFlag(t, s) ==
    /\ Access(t, s, "setFlag", IF s = "audio" THEN "stopPlayback" ELSE "closeClient")
    /\ Goes
    /\ flag' = [flag EXCEPT ![s] = TRUE]
    /\ UNCHANGED <<listener, client, job, scope, output, playback, genVars, peer, made,
                   mishaps>>

StopPlayback(t) ==
    /\ Access(t, "audio", "stopPlayback", "closeClient") /\ Goes
    /\ playback' = FALSE
    /\ UNCHANGED <<flag, listener, client, job, scope, output, genVars, peer, made,
                   mishaps>>

StopClient(t, s) ==
    /\ Access(t, s, "closeClient", "clearClient") /\ Goes
    /\ CloseClient(s)
    /\ UNCHANGED <<serverVars, pc, cancelled, child, bound, on, track, thrown, expected,
                   made, mishaps>>

ClearClient(t, s) ==
    /\ Access(t, s, "clearClient", IF s = "audio" THEN "stopOutput" ELSE "closeListener")
    /\ Goes
    /\ client' = [client EXCEPT ![s] = None]
    /\ UNCHANGED <<flag, listener, job, scope, output, playback, genVars, peer, made,
                   mishaps>>

\* Mutant: the output is forgotten, and goes on playing.
LeaveTrack(t) ==
    /\ Access(t, "audio", "stopOutput", "clearOutput") /\ Goes
    /\ UNCHANGED <<serverVars, genVars, peer, made, mishaps>>

StopTrack(t) ==
    /\ Access(t, "audio", "stopOutput", "clearOutput") /\ Goes
    /\ StopOutput
    /\ UNCHANGED <<serverVars, pc, cancelled, child, bound, on, conn, thrown, expected,
                   peer, made, mishaps>>

ClearOutput(t) ==
    /\ Access(t, "audio", "clearOutput", "closeListener") /\ Goes
    /\ output' = None
    /\ UNCHANGED <<flag, listener, client, job, scope, playback, genVars, peer, made,
                   mishaps>>

\* Mutant: the field is cleared, the socket left to the collector.
LeaveListener(t, s) ==
    /\ Access(t, s, "closeListener", "clearListener") /\ Goes
    /\ UNCHANGED <<serverVars, genVars, peer, made, mishaps>>

CloseListener(t, s) ==
    /\ Access(t, s, "closeListener", "clearListener") /\ Goes
    /\ bound' = [bound EXCEPT ![s] = [g \in Gens |-> g # listener[s] /\ @[g]]]
    /\ peer' = [peer EXCEPT ![s] =
                  IF @ = "waiting" /\ listener[s] # None /\ bound[s][listener[s]]
                  THEN "off" ELSE @]
    /\ UNCHANGED <<serverVars, pc, cancelled, child, on, conn, track, thrown, expected,
                   made, mishaps>>

ClearListener(t, s) ==
    /\ Access(t, s, "clearListener", "cancelJob") /\ Goes
    /\ listener' = [listener EXCEPT ![s] = None]
    /\ UNCHANGED <<flag, client, job, scope, output, playback, genVars, peer, made,
                   mishaps>>

Cancel(s, group) ==
    /\ cancelled' = [cancelled EXCEPT ![s] = [g \in Gens |->
                       @[g] \/ (g \in group /\ pc[s][g] # "done")]]
    /\ Mishap(s, "bind", \E g \in group : pc[s][g] \in {"binding", "storing"})

CancelJob(t, s) ==
    /\ Access(t, s, "cancelJob", "clearJob") /\ Goes
    /\ Cancel(s, {g \in Gens : g = job[s]})
    /\ UNCHANGED <<serverVars, pc, child, bound, on, conn, track, thrown, expected, peer,
                   made>>

ClearJob(t, s) ==
    /\ Access(t, s, "clearJob", "cancelScope") /\ Goes
    /\ job' = [job EXCEPT ![s] = None]
    /\ UNCHANGED <<flag, listener, client, scope, output, playback, genVars, peer, made,
                   mishaps>>

CancelScope(t, s) ==
    /\ Access(t, s, "cancelScope", "clearScope") /\ Goes
    /\ scope' = [scope EXCEPT ![s] = IF @ = "active" THEN "cancelled" ELSE @]
    /\ Cancel(s, {g \in Gens : child[s][g]})
    /\ UNCHANGED <<flag, listener, client, job, output, playback, pc, child, bound, on,
                   conn, track, thrown, expected, peer, made>>

NoChild(s) == child' = [child EXCEPT ![s] = [g \in Gens |-> FALSE]]

ClearScope(t, s) ==
    /\ IF Starts(t) THEN Access(t, s, "clearScope", "clearFlag") /\ Goes
                    ELSE Access(t, s, "clearScope", "setFlag") /\ Returns(t)
    /\ scope' = [scope EXCEPT ![s] = "null"] /\ NoChild(s)
    /\ UNCHANGED <<flag, listener, client, job, output, playback, pc, cancelled, bound,
                   on, conn, track, thrown, expected, peer, made, mishaps>>

ClearFlag(t, s) ==
    /\ Access(t, s, "clearFlag", "newScope") /\ Goes
    /\ flag' = [flag EXCEPT ![s] = FALSE]
    /\ UNCHANGED <<listener, client, job, scope, output, playback, genVars, peer, made,
                   mishaps>>

\* Mutant: the scope that a stop has cancelled is not replaced.
KeepScope(t, s) ==
    /\ Access(t, s, "newScope", "launch") /\ Goes
    /\ UNCHANGED <<serverVars, genVars, peer, made, mishaps>>

NewScope(t, s) ==
    /\ Access(t, s, "newScope", "launch") /\ Goes
    /\ scope' = [scope EXCEPT ![s] = "active"] /\ NoChild(s)
    /\ UNCHANGED <<flag, listener, client, job, output, playback, pc, cancelled, bound,
                   on, conn, track, thrown, expected, peer, made, mishaps>>

\* scope?.launch { ... }: a coroutine of a cancelled scope is never dispatched.
Launch(t, s) ==
    /\ Access(t, s, "launch", "storeJob") /\ Goes
    /\ IF scope[s] = "active"
       THEN \E g \in Gens :
              /\ Unused(s, g) /\ g = CHOOSE h \in Gens : Unused(s, h)
              /\ pc' = Set(pc, s, g, "launched")
              /\ child' = Set(child, s, g, TRUE)
              /\ made' = [made EXCEPT ![t] = <<s, g>>]
       ELSE UNCHANGED <<pc, child, made>>
    /\ UNCHANGED <<serverVars, cancelled, bound, on, conn, track, thrown, expected, peer,
                   mishaps>>

\* serverJob = ...
StoreJob(t, s) ==
    /\ Access(t, s, "storeJob", "setFlag") /\ Returns(t)
    /\ job' = [job EXCEPT ![s] = IF made[t] = <<>> THEN None ELSE made[t][2]]
    /\ made' = [made EXCEPT ![t] = <<>>]
    /\ UNCHANGED <<flag, listener, client, scope, output, playback, genVars, peer,
                   mishaps>>

Step(t, s) ==
    \/ Skip(t, s) \/ SetFlag(t, s) \/ StopClient(t, s) \/ ClearClient(t, s)
    \/ s = "audio" /\ (StopPlayback(t) \/ StopTrack(t) \/ ClearOutput(t))
    \/ CloseListener(t, s) \/ ClearListener(t, s)
    \/ CancelJob(t, s) \/ ClearJob(t, s) \/ CancelScope(t, s) \/ ClearScope(t, s)
    \/ ClearFlag(t, s) \/ NewScope(t, s) \/ Launch(t, s) \/ StoreJob(t, s)

-------------------------------------------------------------------------------
(* The service *)

Act(a) == acts[a] > 0 /\ acts' = [acts EXCEPT ![a] = @ - 1]

\* The Disconnect button, on the main thread.
DisconnectSession ==
    /\ main = "idle" /\ main' = "asked" /\ manual' = TRUE /\ Act("disconnect")
    /\ UNCHANGED <<serverVars, genVars, peer, scene, recovery, step, callVars, mishaps>>

\* A recycle under way makes recycleReceiverSessionToReady return at once.
EnterRecycle ==
    /\ main = "asked"
    /\ IF recovery THEN main' = "idle" /\ UNCHANGED <<recovery, step>>
       ELSE main' = "recycling" /\ recovery' = TRUE /\ step' = "stopAudio"
    /\ UNCHANGED <<serverVars, genVars, peer, scene, acts, manual, callVars, mishaps>>

\* The finally, and the return to the thread that ran the recycle.
RecycleClear ==
    /\ step = "clear" /\ step' = "end" /\ manual' = FALSE
    /\ UNCHANGED <<serverVars, genVars, peer, scene, acts, recovery, main, callVars,
                   mishaps>>

\* Mutant: recoveryInProgress is not reset.
RecycleEndKeepsRecovery ==
    /\ step = "end" /\ step' = "idle"
    /\ main' = IF main = "recycling" THEN "idle" ELSE main
    /\ pc' = [s \in Servers |-> [g \in Gens |->
                IF pc[s][g] = "recycling" THEN "after" ELSE pc[s][g]]]
    /\ UNCHANGED <<serverVars, cancelled, child, bound, on, conn, track, thrown, expected,
                   peer, scene, acts, recovery, manual, callVars, mishaps>>

RecycleEnd ==
    /\ step = "end" /\ step' = "idle" /\ recovery' = FALSE
    /\ main' = IF main = "recycling" THEN "idle" ELSE main
    /\ pc' = [s \in Servers |-> [g \in Gens |->
                IF pc[s][g] = "recycling" THEN "after" ELSE pc[s][g]]]
    /\ UNCHANGED <<serverVars, cancelled, child, bound, on, conn, track, thrown, expected,
                   peer, scene, acts, manual, callVars, mishaps>>

RecycleStep == \/ \E s \in Servers : Step("recycle", s)
               \/ RecycleClear \/ RecycleEnd

\* ACTION_START on the running service: the activity starts the service whenever
\* it is created, on a rotation too.  It does not take the recycle's lock.
Reopen ==
    /\ main = "idle" /\ main' = "startControl" /\ Act("reopen")
    /\ UNCHANGED <<serverVars, genVars, peer, scene, recovery, manual, step, callVars,
                   mishaps>>

RestartStep == \E s \in Servers : Step("restart", s)

-------------------------------------------------------------------------------
(* The PC *)

Knock(s) ==
    /\ peer[s] = "off" /\ \E g \in Gens : bound[s][g]
    /\ peer' = [peer EXCEPT ![s] = "waiting"] /\ Act("connect")
    /\ UNCHANGED <<serverVars, genVars, scene, recovery, manual, main, step, callVars,
                   mishaps>>

PcCloses(s) ==
    /\ peer[s] = "served" /\ peer' = [peer EXCEPT ![s] = "off"]
    /\ conn' = [conn EXCEPT ![s] = [g \in Gens |-> IF @[g] = "open" THEN "ended" ELSE @[g]]]
    /\ UNCHANGED <<serverVars, pc, cancelled, child, bound, on, track, thrown, expected,
                   serviceVars, mishaps>>

\* Power loss, or the network gone: no segment ever says so.
PcGoes ==
    /\ scene.pcVanishes /\ \E s \in Servers : peer[s] = "served"
    /\ peer' = [s \in Servers |-> "off"]
    /\ conn' = [s \in Servers |-> [g \in Gens |->
                  IF conn[s][g] = "open" THEN "lost" ELSE conn[s][g]]]
    /\ UNCHANGED <<serverVars, pc, cancelled, child, bound, on, track, thrown, expected,
                   serviceVars, mishaps>>

-------------------------------------------------------------------------------
GenStep(s, g) ==
    \/ Dispatch(s, g) \/ Bind(s, g) \/ Store(s, g) \/ Loop(s, g) \/ Fetch(s, g)
    \/ AcceptFails(s, g) \/ Accept(s, g)
    \/ Supersede(s, g) \/ Claim(s, g) \/ Unflag(s, g) \/ Open(s, g)
    \/ s = "audio" /\ \/ Silence(g) \/ Discard(g)
                      \/ Play(g) \/ Build(g) \/ Create(g) \/ Unplay(g)
    \/ Hear(s, g) \/ Close(s, g) \/ Forget(s, g) \/ Clear(s, g) \/ Ask(s, g)
    \/ Report(s, g) \/ After(s, g)

Next ==
    \/ \E s \in Servers, g \in Gens : GenStep(s, g)
    \/ \E g \in Gens : HearDisconnect(g) \/ Throw(g)
    \/ DisconnectSession \/ EnterRecycle \/ RecycleStep
    \/ Reopen \/ RestartStep
    \/ \E s \in Servers : Knock(s) \/ PcCloses(s)
    \/ PcGoes

\* Dispatchers.IO runs every coroutine and the main looper its callback; the
\* user and the PC owe nothing.
Fairness == /\ \A s \in Servers, g \in Gens : WF_vars(GenStep(s, g))
            /\ WF_vars(EnterRecycle) /\ WF_vars(RecycleStep) /\ WF_vars(RestartStep)

Spec == Init /\ [][Next]_vars /\ Fairness

-------------------------------------------------------------------------------
(* Properties *)

\* Types.
TypeOK ==
    /\ flag \in [Servers -> BOOLEAN]
    /\ {listener, client, job} \subseteq [Servers -> Gens \cup {None}]
    /\ scope \in [Servers -> {"null", "active", "cancelled"}]
    /\ output \in Gens \cup {None} /\ playback \in BOOLEAN
    /\ pc \in [Servers -> [Gens -> GenSteps]]
    /\ {cancelled, child, bound, expected} \subseteq [Servers -> [Gens -> BOOLEAN]]
    /\ on \in [Servers -> [Gens -> Gens \cup {None}]]
    /\ conn \in [Servers -> [Gens -> Conns]]
    /\ track \in [Gens -> {"none", "new", "live"}]
    /\ thrown \in [Servers -> [Gens -> Exceptions]]
    /\ scene \in Scenes /\ acts \in [Acts -> Nat] /\ peer \in [Servers -> {"off", "waiting", "served"}]
    /\ recovery \in BOOLEAN /\ manual \in BOOLEAN
    /\ main \in MainSteps
    /\ step \in RecycleSteps /\ (step # "idle" <=> recovery)
    /\ line \in [Stoppers -> Lines]
    /\ made \in [Stoppers -> {<<>>} \cup Servers \X Gens]
    /\ mishaps \subseteq Servers \X Mishaps

Unharmed(s, kinds) == \A k \in kinds : <<s, k>> \notin mishaps

\* A ServerSocket that is open has a generation that comes back to accept on
\* it (otherwise the PC connects, its HELLO is never read, and the port is
\* taken), EXCEPT where a stop has overtaken a bind or a generation that was not
\* cancelled has ended with an exception.
ListenersServed ==
    \A s \in Servers, g \in Gens :
      bound[s][g] /\ Unharmed(s, {"bind", "end"}) =>
        \E h \in Gens : ~cancelled[s][h] /\ pc[s][h] \notin {"done", "launched", "binding"}

\* When nobody recycles or restarts them both servers have, or are about to have,
\* an accept loop, with the same two exceptions, however two starts have mixed.
ServersUp ==
    ~recovery /\ main \in {"idle", "asked"} =>
      \A s \in scene.servers : Unharmed(s, {"bind", "end"}) =>
        \E g \in Gens : ~cancelled[s][g] /\ pc[s][g] # "done"

\* The live client of a server is the one its field names, whatever older
\* generations end meanwhile: a stop, or the next client, can sever it, EXCEPT
\* where it was stored between another thread's look at the field and that
\* thread's own assignment.
ClientKnown ==
    \A s \in Servers, g \in Gens :
      pc[s][g] = "serve" /\ conn[s][g] = "open" /\ Unharmed(s, {"client"}) =>
        client[s] = g

\* An AudioTrack never outlives the session that created it, EXCEPT where it was
\* created between such a look and such an assignment of the output.
OutputReleased ==
    Unharmed("audio", {"output"}) =>
      \A g \in Gens : track[g] = "live" =>
        pc["audio"][g] \in {"serve", "unplay", "closing", "forget", "clear", "silence"}

\* ARCHITECTURE.md: a session loss leads to "a clean reconnectable receiver
\* state": a PC in the backlog is served, or told that the socket is gone,
\* with the exceptions of ListenersServed.
Reconnectable ==
    \A s \in Servers :
      peer[s] = "waiting" ~> peer[s] # "waiting" \/ ~Unharmed(s, {"bind", "end"})

\* A recycle comes to an end.
RecycleEnds == recovery ~> ~recovery

\* ARCHITECTURE.md, "proper reconnect after manual disconnect": when the recycle
\* is over, a PC that has reconnected to the new generation keeps the output it
\* plays on until its session ends, with the exceptions of ClientKnown and of
\* OutputReleased.
KeepsOutput ==
    ~recovery /\ Unharmed("audio", {"client", "output"}) =>
      \A g \in Gens :
        /\ pc["audio"][g] = "serve" /\ conn["audio"][g] = "open"
        /\ ~cancelled["audio"][g]
        => output = g
===============================================================================
