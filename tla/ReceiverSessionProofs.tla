------------------------- MODULE ReceiverSessionProofs -------------------------
(***************************************************************************)
(* The sessions of the Android receiver, for every number of generations   *)
(* and in every scene: what a PC connects to has a generation that comes   *)
(* back to accept on it, a live client can be severed, and an AudioTrack   *)
(* ends with its session, wherever the accesses of two threads have not    *)
(* crossed in one of the ways that mishaps records.                        *)
(***************************************************************************)
EXTENDS ReceiverSession, TLAPS

(* TypeOK, one variable at a time.                                         *)
Types ==
    /\ flag \in [Servers -> BOOLEAN]
    /\ listener \in [Servers -> Gens \cup {None}]
    /\ client \in [Servers -> Gens \cup {None}]
    /\ job \in [Servers -> Gens \cup {None}]
    /\ scope \in [Servers -> {"null", "active", "cancelled"}]
    /\ output \in Gens \cup {None} /\ playback \in BOOLEAN
    /\ pc \in [Servers -> [Gens -> GenSteps]]
    /\ cancelled \in [Servers -> [Gens -> BOOLEAN]]
    /\ child \in [Servers -> [Gens -> BOOLEAN]]
    /\ bound \in [Servers -> [Gens -> BOOLEAN]]
    /\ expected \in [Servers -> [Gens -> BOOLEAN]]
    /\ on \in [Servers -> [Gens -> Gens \cup {None}]]
    /\ conn \in [Servers -> [Gens -> Conns]]
    /\ track \in [Gens -> {"none", "new", "live"}]
    /\ thrown \in [Servers -> [Gens -> Exceptions]]
    /\ scene \in Scenes /\ acts \in [Acts -> Nat]
    /\ peer \in [Servers -> {"off", "waiting", "served"}]
    /\ recovery \in BOOLEAN /\ manual \in BOOLEAN
    /\ main \in MainSteps
    /\ step \in RecycleSteps /\ (step # "idle" <=> recovery)
    /\ line \in [Stoppers -> Lines]
    /\ made \in [Stoppers -> {<<>>} \cup Servers \X Gens]
    /\ mishaps \subseteq Servers \X Mishaps

LEMMA TypesIsTypeOK == TypeOK <=> Types
  BY DEF TypeOK, Types

-----------------------------------------------------------------------------
(* One entry of a table of generations.                                    *)

LEMMA SetType ==
  ASSUME NEW T, NEW f \in [Servers -> [Gens -> T]], NEW s \in Servers,
         NEW g \in Gens, NEW v \in T
  PROVE  Set(f, s, g, v) \in [Servers -> [Gens -> T]]
  BY DEF Set

LEMMA RowType ==
  ASSUME NEW T, NEW f \in [Servers -> [Gens -> T]], NEW s \in Servers,
         NEW r \in [Gens -> T]
  PROVE  [f EXCEPT ![s] = r] \in [Servers -> [Gens -> T]]
  OBVIOUS

LEMMA SetEntry ==
  ASSUME NEW T, NEW f \in [Servers -> [Gens -> T]], NEW s \in Servers,
         NEW g \in Gens, NEW v, NEW t \in Servers, NEW h \in Gens
  PROVE  Set(f, s, g, v)[t][h] = IF t = s /\ h = g THEN v ELSE f[t][h]
  BY DEF Set

LEMMA GoToTypes ==
  ASSUME Types, NEW s \in Servers, NEW g \in Gens, NEW p \in GenSteps,
         GoTo(s, g, p)
  PROVE  /\ pc' \in [Servers -> [Gens -> GenSteps]]
         /\ cancelled' \in [Servers -> [Gens -> BOOLEAN]]
         /\ child' \in [Servers -> [Gens -> BOOLEAN]]
         /\ \A t \in Servers, h \in Gens :
              /\ pc'[t][h] = IF t = s /\ h = g THEN p ELSE pc[t][h]
              /\ cancelled'[t][h] =
                   IF t = s /\ h = g THEN p # "done" /\ cancelled[s][g]
                                     ELSE cancelled[t][h]
  BY DEF GoTo, Set, Types

LEMMA MishapType ==
  ASSUME Types, NEW s \in Servers, NEW k \in Mishaps, NEW b, Mishap(s, k, b)
  PROVE  mishaps' \subseteq Servers \X Mishaps /\ mishaps \subseteq mishaps'
  BY DEF Mishap, Types

(* What the closing of a client, of an output and of a job do to a row.    *)
LEMMA CloseClientType ==
  ASSUME Types, NEW s \in Servers, CloseClient(s)
  PROVE  /\ conn' \in [Servers -> [Gens -> Conns]]
         /\ peer' \in [Servers -> {"off", "waiting", "served"}]
         /\ \A t \in Servers, g \in Gens :
              conn'[t][g] = IF t = s /\ g = client[s] /\ conn[t][g] # "none"
                            THEN "severed" ELSE conn[t][g]
<1> DEFINE row == [g \in Gens |-> IF g = client[s] /\ conn[s][g] # "none"
                                  THEN "severed" ELSE conn[s][g]]
<1>1. row \in [Gens -> Conns]
  BY DEF Types, Conns
<1>2. conn' = [conn EXCEPT ![s] = row]
  BY DEF CloseClient, Types
<1>3. conn' \in [Servers -> [Gens -> Conns]]
  BY <1>1, <1>2, RowType DEF Types
<1>4. peer' \in [Servers -> {"off", "waiting", "served"}]
  BY DEF CloseClient, Types
<1> QED
  BY <1>2, <1>3, <1>4 DEF Types

LEMMA StopOutputType ==
  ASSUME Types, StopOutput
  PROVE  track' \in [Gens -> {"none", "new", "live"}]
  BY DEF StopOutput, Types

LEMMA CancelType ==
  ASSUME Types, NEW s \in Servers, NEW group, Cancel(s, group)
  PROVE  /\ cancelled' \in [Servers -> [Gens -> BOOLEAN]]
         /\ mishaps' \subseteq Servers \X Mishaps /\ mishaps \subseteq mishaps'
         /\ \A t \in Servers, g \in Gens :
              cancelled'[t][g] <=> cancelled[t][g]
                                   \/ (t = s /\ g \in group /\ pc[s][g] # "done")
<1> DEFINE row == [g \in Gens |-> cancelled[s][g] \/ (g \in group /\ pc[s][g] # "done")]
<1>1. row \in [Gens -> BOOLEAN]
  BY DEF Types
<1>2. cancelled' = [cancelled EXCEPT ![s] = row]
  BY DEF Cancel, Types
<1>3. cancelled' \in [Servers -> [Gens -> BOOLEAN]]
  BY <1>1, <1>2, RowType DEF Types
<1>4. mishaps' \subseteq Servers \X Mishaps /\ mishaps \subseteq mishaps'
  BY MishapType DEF Cancel, Mishaps
<1> QED
  BY <1>2, <1>3, <1>4 DEF Types

-----------------------------------------------------------------------------
(* Types.                                                                  *)

LEMMA InitTypes == Init => Types
<1> SUFFICES ASSUME Init PROVE Types
  OBVIOUS
<1> DEFINE G == CHOOSE g \in Gens : TRUE
           first(s) == IF s \in scene.servers THEN G ELSE None
<1>1. G \in Gens
  BY ReceiverAssumption
<1>2. \A s \in Servers : first(s) \in Gens \cup {None}
  BY <1>1
<1>3. scene \in Scenes /\ scene.acts \in [Acts -> Nat]
  BY ReceiverAssumption DEF Init
<1>4. /\ acts = scene.acts
      /\ flag = [s \in Servers |-> FALSE]
      /\ listener = [s \in Servers |-> None] /\ client = listener
      /\ job = [s \in Servers |-> first(s)]
      /\ scope = [s \in Servers |-> "active"]
      /\ output = None /\ playback = FALSE
      /\ pc = [s \in Servers |-> [g \in Gens |->
                 IF g = first(s) THEN "launched" ELSE "done"]]
      /\ child = [s \in Servers |-> [g \in Gens |-> g = first(s)]]
      /\ cancelled = [s \in Servers |-> [g \in Gens |-> FALSE]]
      /\ bound = [s \in Servers |-> [g \in Gens |-> FALSE]]
      /\ on = [s \in Servers |-> [g \in Gens |-> None]]
      /\ conn = [s \in Servers |-> [g \in Gens |-> "none"]]
      /\ thrown = [s \in Servers |-> [g \in Gens |-> "no"]]
      /\ expected = [s \in Servers |-> [g \in Gens |-> FALSE]]
      /\ track = [g \in Gens |-> "none"]
      /\ peer = [s \in Servers |-> "off"]
      /\ recovery = FALSE /\ manual = FALSE /\ main = "idle" /\ step = "idle"
      /\ line = [t \in Stoppers |-> "setFlag"] /\ made = [t \in Stoppers |-> <<>>]
      /\ mishaps = {}
  BY DEF Init
<1> HIDE DEF first
<1> QED
  BY <1>2, <1>3, <1>4 DEF Types, GenSteps, Conns, Exceptions, MainSteps, RecycleSteps,
                          Lines

(* A generation's step, by what it changes besides its place.              *)
LEMMA GenStepKeepsTypes ==
  ASSUME Types, NEW s \in Servers, NEW g \in Gens, GenStep(s, g)
  PROVE  Types'
<1> DEFINE Places == /\ pc' \in [Servers -> [Gens -> GenSteps]]
                     /\ cancelled' \in [Servers -> [Gens -> BOOLEAN]]
                     /\ child' \in [Servers -> [Gens -> BOOLEAN]]
<1>0. ASSUME NEW p \in GenSteps, GoTo(s, g, p) PROVE Places
  BY <1>0, GoToTypes
<1>a. /\ \A v \in BOOLEAN : Set(expected, s, g, v) \in [Servers -> [Gens -> BOOLEAN]]
      /\ \A v \in BOOLEAN : Set(bound, s, g, v) \in [Servers -> [Gens -> BOOLEAN]]
      /\ \A v \in Gens \cup {None} :
           Set(on, s, g, v) \in [Servers -> [Gens -> Gens \cup {None}]]
      /\ \A v \in Conns : Set(conn, s, g, v) \in [Servers -> [Gens -> Conns]]
      /\ \A v \in Exceptions :
           Set(thrown, s, g, v) \in [Servers -> [Gens -> Exceptions]]
  BY SetType DEF Types
<1>b. s = "audio" \/ s = "control"
  BY DEF Servers
<1> USE DEF serverVars, serviceVars, callVars
<1>1. CASE Dispatch(s, g) \/ Loop(s, g)
  <2>1. Places
    BY <1>0, <1>1 DEF Dispatch, Loop, GenSteps
  <2> QED
    BY <1>1, <2>1 DEF Dispatch, Loop, Types
<1>2. CASE Bind(s, g)
  <2>1. Places
    BY <1>0, <1>2 DEF Bind, GenSteps
  <2> QED
    BY <1>2, <2>1, <1>a DEF Bind, Types
<1>3. CASE Store(s, g)
  <2>1. Places /\ mishaps' \subseteq Servers \X Mishaps
    BY <1>0, <1>3, MishapType DEF Store, GenSteps, Mishaps
  <2> QED
    BY <1>3, <2>1 DEF Store, Types
<1>4. CASE Fetch(s, g)
  <2>1. Places
    BY <1>0, <1>4 DEF Fetch, GenSteps
  <2>2. listener[s] \in Gens \cup {None}
    BY DEF Types
  <2> QED
    BY <1>4, <2>1, <2>2, <1>a DEF Fetch, Types
<1>5. CASE AcceptFails(s, g)
  <2>1. Places
    BY <1>0, <1>5 DEF AcceptFails, GenSteps
  <2> QED
    BY <1>5, <2>1, <1>a DEF AcceptFails, Types
<1>6. CASE Accept(s, g)
  <2>1. Places
    BY <1>0, <1>6 DEF Accept, GenSteps
  <2> QED
    BY <1>6, <2>1, <1>a DEF Accept, Types, Conns
<1>7. CASE Supersede(s, g)
  <2>1. Places
    BY <1>0, <1>7 DEF Supersede, GenSteps
  <2> QED
    BY <1>7, <2>1, CloseClientType DEF Supersede, Types
<1>8. CASE s = "audio" /\ (Silence(g) \/ Discard(g))
  <2>1. Places
    BY <1>0, <1>8 DEF Silence, Discard, GenSteps
  <2>2. CASE Silence(g)
    BY <2>1, <2>2, StopOutputType DEF Silence, Types
  <2>3. CASE Discard(g)
    BY <2>1, <2>3 DEF Discard, Types
  <2> QED
    BY <1>8, <2>2, <2>3
<1>9. CASE Claim(s, g)
  <2>1. Places /\ mishaps' \subseteq Servers \X Mishaps
    BY <1>0, <1>9, MishapType DEF Claim, GenSteps, Mishaps
  <2> QED
    BY <1>9, <2>1 DEF Claim, Types
<1>10. CASE s = "audio" /\ (Play(g) \/ Unplay(g))
  <2>1. Places
    BY <1>0, <1>10 DEF Play, Unplay, GenSteps
  <2>2. playback' \in BOOLEAN
    BY <1>10 DEF Play, Unplay
  <2>3. UNCHANGED <<flag, listener, client, job, scope, output, bound, on, conn, track,
                    thrown, expected, peer, serviceVars, mishaps>>
    BY <1>10 DEF Play, Unplay
  <2> QED
    BY <2>1, <2>2, <2>3 DEF Types
<1>11. CASE Unflag(s, g)
  <2>1. Places
    BY <1>0, <1>11 DEF Unflag, GenSteps
  <2> QED
    BY <1>11, <2>1 DEF Unflag, Types
<1>12. CASE Open(s, g)
  <2>1. Places
    BY <1>0, <1>12 DEF Open, Ending, GenSteps
  <2> QED
    BY <1>12, <2>1, <1>a DEF Open, Types, Exceptions
<1>13. CASE s = "audio" /\ Build(g)
  <2>1. Places
    BY <1>0, <1>13 DEF Build, GenSteps
  <2> QED
    BY <1>13, <2>1 DEF Build, Types
<1>14. CASE s = "audio" /\ Create(g)
  <2>1. Places
    BY <1>0, <1>14 DEF Create, GenSteps
  <2>2. mishaps' \subseteq Servers \X Mishaps
    BY <1>14, MishapType DEF Create, Mishaps, Types
  <2>3. thrown' \in [Servers -> [Gens -> Exceptions]]
    BY <1>14, <1>a DEF Create, Types, Exceptions
  <2>4. track' \in [Gens -> {"none", "new", "live"}]
    BY <1>14 DEF Create, Types
  <2> QED
    BY <1>14, <2>1, <2>2, <2>3, <2>4 DEF Create, Types
<1>15. CASE Hear(s, g)
  <2>1. Places
    BY <1>0, <1>15 DEF Hear, Ending, GenSteps
  <2> QED
    BY <1>15, <2>1 DEF Hear, Types
<1>16. CASE Close(s, g)
  <2>1. Places
    BY <1>0, <1>16 DEF Close, GenSteps
  <2> QED
    BY <1>16, <2>1, <1>a DEF Close, Types, Conns
<1>17. CASE Forget(s, g) \/ Clear(s, g)
  <2>1. Places
    BY <1>0, <1>17 DEF Forget, Clear, AfterForget, GenSteps
  <2>2. client' \in [Servers -> Gens \cup {None}]
    BY <1>17 DEF Forget, Clear, Types
  <2> QED
    BY <1>17, <2>1, <2>2 DEF Forget, Clear, Types
<1>18. CASE Ask(s, g)
  <2>1. Places
    BY <1>0, <1>18 DEF Ask, GenSteps
  <2>2. flag[s] \in BOOLEAN
    BY DEF Types
  <2>3. expected' \in [Servers -> [Gens -> BOOLEAN]]
    BY <1>18, <2>2, <1>a DEF Ask
  <2> QED
    BY <1>18, <2>1, <2>3 DEF Ask, Types
<1>19. CASE Report(s, g)
  <2>1. Places
    BY <1>0, <1>19 DEF Report, GenSteps
  <2> QED
    BY <1>19, <2>1, <1>a DEF Report, Types, RecycleSteps
<1>20. CASE After(s, g)
  <2>1. Places
    BY <1>0, <1>20 DEF After, GenSteps
  <2>2. thrown' \in [Servers -> [Gens -> Exceptions]]
    BY <1>20, <1>a DEF After, Types, Exceptions
  <2>3. flag' \in [Servers -> BOOLEAN]
    BY <1>20 DEF After, Types
  <2>4. mishaps' \subseteq Servers \X Mishaps
    BY <1>20, MishapType DEF After, Mishaps, Types
  <2> QED
    BY <1>20, <2>1, <2>2, <2>3, <2>4 DEF After, Types
<1> QED
  BY <1>1, <1>2, <1>3, <1>4, <1>5, <1>6, <1>7, <1>8, <1>9, <1>10, <1>11, <1>12, <1>13,
     <1>14, <1>15, <1>16, <1>17, <1>18, <1>19, <1>20 DEF GenStep

(* A line of stop() or start(): where its caller goes on.                  *)
LEMMA AccessTypes ==
  ASSUME Types, NEW t \in Stoppers, NEW s \in Servers, NEW from, NEW to \in Lines,
         Access(t, s, from, to), Goes \/ Returns(t)
  PROVE  /\ line' \in [Stoppers -> Lines]
         /\ scene' \in Scenes /\ acts' \in [Acts -> Nat]
         /\ recovery' \in BOOLEAN /\ manual' \in BOOLEAN
         /\ main' \in MainSteps
         /\ step' \in RecycleSteps /\ (step' # "idle" <=> recovery')
<1>1. /\ line' \in [Stoppers -> Lines]
      /\ scene' \in Scenes /\ acts' \in [Acts -> Nat]
      /\ recovery' = recovery /\ manual' \in BOOLEAN
  BY DEF Access, Types
<1>2. Busy(t, s)
  BY DEF Access
<1>3. CASE Goes
  BY <1>1, <1>3 DEF Goes, Types
<1>4. CASE Returns(t) /\ t = "recycle"
  <2>1. step \in {"stopAudio", "stopControl", "startControl", "startAudio"}
    BY <1>2, <1>4 DEF Busy, Call, Servers
  <2> QED
    BY <1>1, <1>4, <2>1 DEF Returns, Types, RecycleSteps
<1>5. CASE Returns(t) /\ t # "recycle"
  BY <1>1, <1>5 DEF Returns, Types, MainSteps
<1> QED
  BY <1>3, <1>4, <1>5

LEMMA StepKeepsTypes ==
  ASSUME Types, NEW t \in Stoppers, NEW s \in Servers, Step(t, s)
  PROVE  Types'
<1> DEFINE Calls == /\ line' \in [Stoppers -> Lines]
                    /\ scene' \in Scenes /\ acts' \in [Acts -> Nat]
                    /\ recovery' \in BOOLEAN /\ manual' \in BOOLEAN
                    /\ main' \in MainSteps
                    /\ step' \in RecycleSteps /\ (step' # "idle" <=> recovery')
<1>0. ASSUME NEW from, NEW to \in Lines, NEW r \in Servers, Access(t, r, from, to),
             Goes \/ Returns(t)
      PROVE  Calls
  BY <1>0, AccessTypes
<1>a. "audio" \in Servers
  BY DEF Servers
<1> USE DEF serverVars, genVars, callVars
<1>1. CASE Skip(t, s)
  <2>1. main' \in MainSteps /\ step' \in RecycleSteps /\ (step' # "idle" <=> recovery)
    BY <1>1 DEF Skip, Returns, Busy, Call, Types, MainSteps, RecycleSteps, Servers
  <2> QED
    BY <1>1, <2>1 DEF Skip, Types
<1>2. CASE SetFlag(t, s)
  <2>1. Calls
    BY <1>0, <1>2 DEF SetFlag, Lines
  <2> QED
    BY <1>2, <2>1 DEF SetFlag, Types
<1>3. CASE StopClient(t, s)
  <2>1. Calls
    BY <1>0, <1>3 DEF StopClient, Lines
  <2> QED
    BY <1>3, <2>1, CloseClientType DEF StopClient, Types
<1>4. CASE ClearClient(t, s)
  <2>1. Calls
    BY <1>0, <1>4 DEF ClearClient, Lines
  <2> QED
    BY <1>4, <2>1 DEF ClearClient, Types
<1>5. CASE StopPlayback(t) \/ ClearOutput(t)
  <2>1. Calls
    BY <1>0, <1>5, <1>a DEF StopPlayback, ClearOutput, Lines
  <2> QED
    BY <1>5, <2>1 DEF StopPlayback, ClearOutput, Types
<1>6. CASE StopTrack(t)
  <2>1. Calls
    BY <1>0, <1>6, <1>a DEF StopTrack, Lines
  <2> QED
    BY <1>6, <2>1, StopOutputType DEF StopTrack, Types
<1>7. CASE CloseListener(t, s)
  <2>1. Calls
    BY <1>0, <1>7 DEF CloseListener, Lines
  <2>2. bound' \in [Servers -> [Gens -> BOOLEAN]]
    <3> DEFINE row == [g \in Gens |-> g # listener[s] /\ bound[s][g]]
    <3>1. row \in [Gens -> BOOLEAN]
      BY DEF Types
    <3>2. bound' = [bound EXCEPT ![s] = row]
      BY <1>7 DEF CloseListener, Types
    <3> QED
      BY <3>1, <3>2, RowType DEF Types
  <2>3. peer' \in [Servers -> {"off", "waiting", "served"}]
    BY <1>7 DEF CloseListener, Types
  <2> QED
    BY <1>7, <2>1, <2>2, <2>3 DEF CloseListener, Types
<1>8. CASE ClearListener(t, s)
  <2>1. Calls
    BY <1>0, <1>8 DEF ClearListener, Lines
  <2> QED
    BY <1>8, <2>1 DEF ClearListener, Types
<1>9. CASE CancelJob(t, s)
  <2>1. Calls
    BY <1>0, <1>9 DEF CancelJob, Lines
  <2> QED
    BY <1>9, <2>1, CancelType DEF CancelJob, Types
<1>10. CASE ClearJob(t, s)
  <2>1. Calls
    BY <1>0, <1>10 DEF ClearJob, Lines
  <2> QED
    BY <1>10, <2>1 DEF ClearJob, Types
<1>11. CASE CancelScope(t, s)
  <2>1. Calls
    BY <1>0, <1>11 DEF CancelScope, Lines
  <2> QED
    BY <1>11, <2>1, CancelType DEF CancelScope, Types
<1>b. ASSUME NoChild(s) PROVE child' \in [Servers -> [Gens -> BOOLEAN]]
  BY <1>b, RowType DEF NoChild, Types
<1>12. CASE ClearScope(t, s)
  <2>1. Calls
    BY <1>0, <1>12 DEF ClearScope, Lines
  <2> QED
    BY <1>12, <2>1, <1>b DEF ClearScope, Types
<1>13. CASE ClearFlag(t, s)
  <2>1. Calls
    BY <1>0, <1>13 DEF ClearFlag, Lines
  <2> QED
    BY <1>13, <2>1 DEF ClearFlag, Types
<1>14. CASE NewScope(t, s)
  <2>1. Calls
    BY <1>0, <1>14 DEF NewScope, Lines
  <2> QED
    BY <1>14, <2>1, <1>b DEF NewScope, Types
<1>15. CASE Launch(t, s)
  <2>1. Calls
    BY <1>0, <1>15 DEF Launch, Lines
  <2>2. /\ pc' \in [Servers -> [Gens -> GenSteps]]
        /\ child' \in [Servers -> [Gens -> BOOLEAN]]
        /\ made' \in [Stoppers -> {<<>>} \cup Servers \X Gens]
    <3>1. CASE scope[s] = "active"
      <4>1. PICK g \in Gens : /\ pc' = Set(pc, s, g, "launched")
                              /\ child' = Set(child, s, g, TRUE)
                              /\ made' = [made EXCEPT ![t] = <<s, g>>]
        BY <1>15, <3>1 DEF Launch
      <4>2. "launched" \in GenSteps
        BY DEF GenSteps
      <4>3. /\ pc' \in [Servers -> [Gens -> GenSteps]]
            /\ child' \in [Servers -> [Gens -> BOOLEAN]]
        BY <4>1, <4>2, SetType DEF Types
      <4> QED
        BY <4>1, <4>3 DEF Types
    <3>2. CASE scope[s] # "active"
      BY <1>15, <3>2 DEF Launch, Types
    <3> QED
      BY <3>1, <3>2
  <2> QED
    BY <1>15, <2>1, <2>2 DEF Launch, Types
<1>16. CASE StoreJob(t, s)
  <2>1. Calls
    BY <1>0, <1>16 DEF StoreJob, Lines
  <2>2. job' \in [Servers -> Gens \cup {None}]
    <3>1. made[t] = <<>> \/ made[t][2] \in Gens
      BY DEF Types
    <3> QED
      BY <1>16, <3>1 DEF StoreJob, Types
  <2> QED
    BY <1>16, <2>1, <2>2 DEF StoreJob, Types
<1> QED
  BY <1>1, <1>2, <1>3, <1>4, <1>5, <1>6, <1>7, <1>8, <1>9, <1>10, <1>11, <1>12, <1>13,
     <1>14, <1>15, <1>16 DEF Step

(* The service, the end of a session, the user and the PC.                 *)
Others == \/ DisconnectSession \/ EnterRecycle \/ RecycleClear \/ RecycleEnd \/ Reopen
          \/ \E g \in Gens : HearDisconnect(g) \/ Throw(g)
          \/ \E s \in Servers : Knock(s) \/ PcCloses(s)
          \/ PcGoes

LEMMA NextCases ==
  ASSUME [Next]_vars
  PROVE  \/ \E s \in Servers, g \in Gens : GenStep(s, g)
         \/ \E t \in Stoppers, s \in Servers : Step(t, s)
         \/ Others \/ UNCHANGED vars
<1>1. "recycle" \in Stoppers /\ "restart" \in Stoppers
  BY DEF Stoppers
<1> QED
  BY <1>1 DEF Next, RecycleStep, RestartStep, Others

LEMMA OthersKeepTypes ==
  ASSUME Types, Others
  PROVE  Types'
<1> USE DEF serverVars, genVars, serviceVars, callVars, MainSteps, RecycleSteps
<1>a. "control" \in Servers
  BY DEF Servers
<1>b. ASSUME NEW a \in Acts, Act(a) PROVE acts' \in [Acts -> Nat]
  BY <1>b DEF Act, Types
<1>c. \A a \in {"connect", "disconnect", "reopen"} : a \in Acts
  BY DEF Acts
<1>1. CASE DisconnectSession
  BY <1>1, <1>b, <1>c DEF DisconnectSession, Types
<1>2. CASE EnterRecycle
  BY <1>2 DEF EnterRecycle, Types
<1>3. CASE RecycleClear
  BY <1>3 DEF RecycleClear, Types
<1>4. CASE RecycleEnd
  <2>1. pc' \in [Servers -> [Gens -> GenSteps]]
    BY <1>4 DEF RecycleEnd, Types, GenSteps
  <2> QED
    BY <1>4, <2>1 DEF RecycleEnd, Types
<1>5. CASE Reopen
  BY <1>5, <1>b, <1>c DEF Reopen, Types
<1>d. /\ \A v \in Conns, g \in Gens :
           Set(conn, "control", g, v) \in [Servers -> [Gens -> Conns]]
      /\ \A v \in Exceptions, g \in Gens :
           Set(thrown, "control", g, v) \in [Servers -> [Gens -> Exceptions]]
  BY <1>a, SetType DEF Types
<1>6. ASSUME NEW g \in Gens, HearDisconnect(g) PROVE Types'
  <2>1. /\ pc' \in [Servers -> [Gens -> GenSteps]]
        /\ cancelled' \in [Servers -> [Gens -> BOOLEAN]]
        /\ child' \in [Servers -> [Gens -> BOOLEAN]]
    BY <1>6, <1>a, GoToTypes DEF HearDisconnect, GenSteps
  <2>a. "ended" \in Conns /\ "socket" \in Exceptions
    BY DEF Conns, Exceptions
  <2>b. conn' \in [Servers -> [Gens -> Conns]]
    BY <1>6, <1>d, <2>a DEF HearDisconnect
  <2>c. thrown' \in [Servers -> [Gens -> Exceptions]]
    <3>1. thrown' = thrown \/ thrown' = Set(thrown, "control", g, "socket")
      BY <1>6 DEF HearDisconnect
    <3> QED
      BY <3>1, <1>d, <2>a DEF Types
  <2>2. peer' \in [Servers -> {"off", "waiting", "served"}] /\ flag' \in [Servers -> BOOLEAN]
    BY <1>6 DEF HearDisconnect, Types
  <2> QED
    BY <1>6, <2>1, <2>b, <2>c, <2>2 DEF HearDisconnect, Types
<1>7. ASSUME NEW g \in Gens, Throw(g) PROVE Types'
  <2>1. /\ pc' \in [Servers -> [Gens -> GenSteps]]
        /\ cancelled' \in [Servers -> [Gens -> BOOLEAN]]
        /\ child' \in [Servers -> [Gens -> BOOLEAN]]
    BY <1>7, <1>a, GoToTypes DEF Throw, GenSteps
  <2>2. thrown' \in [Servers -> [Gens -> Exceptions]]
    BY <1>7, <1>d DEF Throw, Exceptions, Types
  <2> QED
    BY <1>7, <2>1, <2>2 DEF Throw, Types
<1>8. ASSUME NEW s \in Servers, Knock(s) PROVE Types'
  BY <1>8, <1>b, <1>c DEF Knock, Types
<1>9. ASSUME NEW s \in Servers, PcCloses(s) PROVE Types'
  <2> DEFINE row == [g \in Gens |-> IF conn[s][g] = "open" THEN "ended" ELSE conn[s][g]]
  <2>1. row \in [Gens -> Conns]
    BY DEF Types, Conns
  <2>2. conn' = [conn EXCEPT ![s] = row]
    BY <1>9 DEF PcCloses, Types
  <2>3. conn' \in [Servers -> [Gens -> Conns]]
    BY <2>1, <2>2, RowType DEF Types
  <2> QED
    BY <1>9, <2>3 DEF PcCloses, Types
<1>10. CASE PcGoes
  BY <1>10 DEF PcGoes, Types, Conns
<1> QED
  BY <1>1, <1>2, <1>3, <1>4, <1>5, <1>6, <1>7, <1>8, <1>9, <1>10 DEF Others

LEMMA NextKeepsTypes == Types /\ [Next]_vars => Types'
<1>1. ASSUME Types, UNCHANGED vars PROVE Types'
  BY <1>1 DEF vars, serverVars, genVars, serviceVars, callVars, Types
<1> QED
  BY <1>1, NextCases, GenStepKeepsTypes, StepKeepsTypes, OthersKeepTypes

-----------------------------------------------------------------------------
(* Where the stoppers are.                                                 *)

(* A call under way is of a server that is looked at; every call starts at *)
(* the first line.                                                         *)
LineInv == \A t \in Stoppers : line[t] # "setFlag" => \E s \in scene.servers : Busy(t, s)

SceneType == scene.servers \subseteq Servers

LEMMA SceneServers == Types => SceneType
  BY ReceiverAssumption DEF Types, SceneType

LEMMA BusyOnce ==
  ASSUME NEW t \in Stoppers, NEW s \in Servers, NEW r \in Servers, Busy(t, s), Busy(t, r)
  PROVE  s = r
  BY DEF Busy, Servers

(* What the return from a call does to the calls of the two.               *)
LEMMA ReturnsBusy ==
  ASSUME NEW t \in Stoppers, NEW u \in Stoppers, u # t, NEW s \in Servers, Returns(t)
  PROVE  Busy(u, s)' <=> Busy(u, s)
  BY DEF Returns, Busy, Call, Stoppers

LEMMA GoesBusy ==
  ASSUME NEW t \in Stoppers, NEW s \in Servers, Goes
  PROVE  Busy(t, s)' <=> Busy(t, s)
  BY DEF Goes, Busy, Call

(* A step of a stopper reaches at most the line it names.                  *)
LEMMA AccessStops ==
  ASSUME Types, NEW t \in Stoppers, NEW s \in Servers, NEW from, NEW to \in Lines,
         Access(t, s, from, to), Goes \/ (to = "setFlag" /\ Returns(t)),
         NEW r \in Servers, NEW L, "setFlag" \notin L, StopsAt(r, L)'
  PROVE  StopsAt(r, L) \/ (r = s /\ to \in L)
<1>1. PICK u \in Stoppers : Busy(u, r)' /\ line'[u] \in L
  BY DEF StopsAt
<1>2. line' = [line EXCEPT ![t] = to] /\ line \in [Stoppers -> Lines] /\ Busy(t, s)
  BY DEF Access, Types
<1>3. CASE u # t
  BY <1>1, <1>2, <1>3, ReturnsBusy, GoesBusy DEF StopsAt
<1>4. CASE u = t
  <2>1. to \in L /\ Goes
    BY <1>1, <1>2, <1>4
  <2>2. Busy(t, r)
    BY <1>1, <1>4, <2>1, GoesBusy
  <2> QED
    BY <1>2, <2>1, <2>2, BusyOnce
<1> QED
  BY <1>3, <1>4

LEMMA SkipStops ==
  ASSUME Types, LineInv, NEW t \in Stoppers, NEW s \in Servers, Skip(t, s),
         NEW r \in Servers, NEW L, "setFlag" \notin L, StopsAt(r, L)'
  PROVE  StopsAt(r, L)
<1>1. PICK u \in Stoppers : Busy(u, r)' /\ line'[u] \in L
  BY DEF StopsAt
<1>2. line' = line /\ Busy(t, s) /\ s \notin scene.servers /\ Returns(t)
  BY DEF Skip, callVars
<1>3. line[t] = "setFlag"
  BY <1>2, BusyOnce, SceneServers DEF LineInv, SceneType
<1>4. u # t
  BY <1>1, <1>2, <1>3
<1> QED
  BY <1>1, <1>2, <1>4, ReturnsBusy DEF StopsAt

(* Nobody else moves a stopper, but for a recycle that begins or ends.     *)
LEMMA RestCalls ==
  ASSUME Types,
         \/ \E s \in Servers, g \in Gens : GenStep(s, g)
         \/ Others \/ UNCHANGED vars
  PROVE  /\ UNCHANGED <<line, scene>>
         /\ step' = step \/ step \in {"idle", "clear", "end"}
         /\ main' = main \/ main \in {"idle", "asked", "recycling"}
<1> USE DEF serviceVars, callVars
<1>1. ASSUME NEW s \in Servers, NEW g \in Gens, GenStep(s, g), ~Report(s, g)
      PROVE  UNCHANGED <<line, scene, step, main>>
  BY <1>1 DEF GenStep, Dispatch, Bind, Store, Loop, Fetch, AcceptFails, Accept, Supersede,
     Silence, Discard, Claim, Play, Unflag, Open, Build, Create, Hear, Unplay, Close,
     Forget, Clear, Ask, After
<1>2. ASSUME NEW s \in Servers, NEW g \in Gens, Report(s, g)
      PROVE  UNCHANGED <<line, scene, main>> /\ (step' = step \/ step = "idle")
  BY <1>2 DEF Report, Types
<1>3. CASE DisconnectSession \/ EnterRecycle \/ RecycleClear \/ RecycleEnd \/ Reopen
  BY <1>3 DEF DisconnectSession, EnterRecycle, RecycleClear, RecycleEnd, Reopen, Types
<1>4. CASE \/ \E g \in Gens : HearDisconnect(g) \/ Throw(g)
           \/ \E s \in Servers : Knock(s) \/ PcCloses(s)
           \/ PcGoes \/ UNCHANGED vars
  BY <1>4 DEF HearDisconnect, Throw, Knock, PcCloses, PcGoes, vars
<1> QED
  BY <1>1, <1>2, <1>3, <1>4 DEF Others

LEMMA RestStops ==
  ASSUME Types, LineInv,
         \/ \E s \in Servers, g \in Gens : GenStep(s, g)
         \/ Others \/ UNCHANGED vars
  PROVE  /\ LineInv'
         /\ \A r \in Servers : \A L : "setFlag" \notin L /\ StopsAt(r, L)' => StopsAt(r, L)
<1>1. /\ UNCHANGED <<line, scene>>
      /\ step' = step \/ step \in {"idle", "clear", "end"}
      /\ main' = main \/ main \in {"idle", "asked", "recycling"}
  BY RestCalls
<1>2. ASSUME NEW t \in Stoppers, NEW s \in Servers, line[t] # "setFlag"
      PROVE  Busy(t, s)' <=> Busy(t, s)
  <2>1. PICK r \in Servers : Busy(t, r)
    BY <1>2, SceneServers DEF LineInv, SceneType
  <2>2. Call(t)' = Call(t)
    BY <1>1, <2>1 DEF Busy, Call, Servers
  <2> QED
    BY <2>2 DEF Busy
<1> QED
  BY <1>1, <1>2, SceneServers DEF LineInv, StopsAt, SceneType

(* The lines of a stop() and a start().                                    *)
LEMMA StepLines ==
  ASSUME NEW t \in Stoppers, NEW s \in Servers, Step(t, s)
  PROVE  \/ Skip(t, s)
         \/ \E from, to \in Lines : /\ Access(t, s, from, to)
                                    /\ Goes \/ (to = "setFlag" /\ Returns(t))
<1> USE DEF Lines
<1>1. CASE \/ SetFlag(t, s) \/ StopClient(t, s) \/ ClearClient(t, s)
           \/ CloseListener(t, s) \/ ClearListener(t, s) \/ CancelJob(t, s)
  BY <1>1 DEF SetFlag, StopClient, ClearClient, CloseListener, ClearListener, CancelJob
<1>2. CASE \/ ClearJob(t, s) \/ CancelScope(t, s) \/ ClearScope(t, s)
           \/ ClearFlag(t, s) \/ NewScope(t, s) \/ Launch(t, s) \/ StoreJob(t, s)
  BY <1>2 DEF ClearJob, CancelScope, ClearScope, ClearFlag, NewScope, Launch, StoreJob
<1>3. CASE s = "audio" /\ (StopPlayback(t) \/ StopTrack(t) \/ ClearOutput(t))
  BY <1>3 DEF StopPlayback, StopTrack, ClearOutput
<1> QED
  BY <1>1, <1>2, <1>3 DEF Step

LEMMA NextKeepsLineInv == Types /\ LineInv /\ [Next]_vars => LineInv'
<1> SUFFICES ASSUME Types, LineInv, NEW t \in Stoppers, NEW s \in Servers, Step(t, s)
             PROVE  LineInv'
  BY RestStops, NextCases
<1>a. ASSUME NEW u \in Stoppers, u # t, line'[u] # "setFlag", line'[u] = line[u],
             Goes \/ Returns(t), scene' = scene
      PROVE  \E r \in scene'.servers : Busy(u, r)'
  BY <1>a, ReturnsBusy, GoesBusy, SceneServers DEF LineInv, SceneType
<1>1. CASE Skip(t, s)
  <2>1. line' = line /\ scene' = scene /\ Busy(t, s) /\ s \notin scene.servers /\ Returns(t)
    BY <1>1 DEF Skip, callVars
  <2>2. line[t] = "setFlag"
    BY <2>1, BusyOnce, SceneServers DEF LineInv, SceneType
  <2> QED
    BY <1>a, <2>1, <2>2 DEF LineInv
<1>2. CASE \E from, to \in Lines : /\ Access(t, s, from, to)
                                   /\ Goes \/ (to = "setFlag" /\ Returns(t))
  <2>1. PICK from, to \in Lines : /\ Access(t, s, from, to)
                                  /\ Goes \/ (to = "setFlag" /\ Returns(t))
    BY <1>2
  <2>2. /\ line' = [line EXCEPT ![t] = to] /\ line \in [Stoppers -> Lines]
        /\ Busy(t, s) /\ s \in scene.servers /\ scene' = scene
    BY <2>1 DEF Access, Types
  <2>3. to # "setFlag" => Busy(t, s)'
    BY <2>1, <2>2, GoesBusy
  <2> QED
    BY <1>a, <2>1, <2>2, <2>3 DEF LineInv
<1> QED
  BY <1>1, <1>2, StepLines

-----------------------------------------------------------------------------
(* The live client.                                                        *)

ClientOf(s, g) == /\ pc[s][g] \in {"play", "unflag", "open", "build", "create", "serve"}
                  /\ conn[s][g] = "open"

(* No thread stands between a look at the field and its own assignment of  *)
(* it while a client is live, unless that is the recorded mishap.          *)
ClientInv ==
    \A s \in Servers : Unharmed(s, {"client"}) =>
      \A g \in Gens : ClientOf(s, g) => client[s] = g /\ ~ClientHeld(s, g)

Holding == {"drop", "unhook", "claim", "clear"}

(* A step that makes no client live, and puts nobody between.              *)
LEMMA ClientFrame ==
  ASSUME ClientInv, mishaps \subseteq mishaps',
         \A s \in Servers, g \in Gens : ClientOf(s, g)' =>
           ClientOf(s, g) /\ client'[s] = client[s],
         \A s \in Servers, g \in Gens, h \in Gens :
           ClientOf(s, g)' /\ h # g /\ pc'[s][h] \in Holding => pc[s][h] \in Holding,
         \A s \in Servers, g \in Gens :
           ClientOf(s, g)' /\ StopsAt(s, {"clearClient"})' => StopsAt(s, {"clearClient"})
  PROVE  ClientInv'
<1> SUFFICES ASSUME NEW s \in Servers, Unharmed(s, {"client"})', NEW g \in Gens,
                    ClientOf(s, g)'
             PROVE  client'[s] = g /\ ~ClientHeld(s, g)'
  BY DEF ClientInv
<1>1. Unharmed(s, {"client"})
  BY DEF Unharmed
<1>2. client[s] = g /\ ~ClientHeld(s, g)
  BY <1>1 DEF ClientInv
<1> QED
  BY <1>2 DEF ClientHeld, Holding

LEMMA GenStepKeepsClient ==
  ASSUME Types, LineInv, ClientInv, NEW s \in Servers, NEW g \in Gens, GenStep(s, g)
  PROVE  ClientInv'
<1>a. \A r \in Servers : StopsAt(r, {"clearClient"})' => StopsAt(r, {"clearClient"})
  BY RestStops
<1>b. s = "audio" \/ s = "control"
  BY DEF Servers
<1> DEFINE From(A, B) == /\ pc[s][g] \in A /\ pc'[s][g] \in B
                         /\ \A r \in Servers, h \in Gens :
                              ~(r = s /\ h = g) => pc'[r][h] = pc[r][h]
           Live == {"play", "unflag", "open", "build", "create", "serve"}
<1>0. ASSUME NEW p \in GenSteps, GoTo(s, g, p)
      PROVE  /\ pc'[s][g] = p
             /\ \A r \in Servers, h \in Gens :
                  ~(r = s /\ h = g) => pc'[r][h] = pc[r][h]
  BY <1>0, GoToTypes
<1>c. ASSUME mishaps' = mishaps \/ mishaps \subseteq mishaps', client' = client,
             \A r \in Servers, h \in Gens : conn'[r][h] = "open" /\ pc'[r][h] \in Live =>
               conn[r][h] = "open",
             \/ From(GenSteps, GenSteps \ (Live \cup Holding))
             \/ From(Live, Live) \/ From(Holding, Holding)
      PROVE  ClientInv'
  BY <1>a, <1>c, ClientFrame DEF ClientOf, Holding
<1> HIDE DEF From
<1>1. CASE Dispatch(s, g) \/ Loop(s, g) \/ Ask(s, g)
  <2>1. From(GenSteps, GenSteps \ (Live \cup Holding))
    BY <1>1, <1>0 DEF Dispatch, Loop, Ask, GenSteps, Holding, From, Types
  <2> QED
    BY <1>1, <1>c, <2>1 DEF Dispatch, Loop, Ask, serverVars
<1>2. CASE Bind(s, g) \/ Fetch(s, g) \/ AcceptFails(s, g)
  <2>1. From(GenSteps, GenSteps \ (Live \cup Holding))
    BY <1>2, <1>0 DEF Bind, Fetch, AcceptFails, GenSteps, Holding, From, Types
  <2> QED
    BY <1>2, <1>c, <2>1 DEF Bind, Fetch, AcceptFails, serverVars
<1>3. CASE Store(s, g)
  <2>1. From(GenSteps, GenSteps \ (Live \cup Holding))
    BY <1>3, <1>0 DEF Store, GenSteps, Holding, From, Types
  <2>2. mishaps \subseteq mishaps'
    BY <1>3, MishapType DEF Store, Mishaps
  <2> QED
    BY <1>3, <1>c, <2>1, <2>2 DEF Store
<1>4. CASE Accept(s, g)
  <2>1. From(GenSteps, GenSteps \ (Live \cup Holding))
    BY <1>4, <1>0 DEF Accept, GenSteps, Holding, From, Types
  <2>2. \A r \in Servers, h \in Gens : conn'[r][h] = "open" /\ pc'[r][h] \in Live =>
          conn[r][h] = "open"
    <3>1. conn' = Set(conn, s, g, "open") /\ pc'[s][g] \notin Live
      BY <1>4, <2>1 DEF Accept, From
    <3>2. \A r \in Servers, h \in Gens :
            conn'[r][h] = IF r = s /\ h = g THEN "open" ELSE conn[r][h]
      BY <3>1 DEF Set, Types
    <3> QED
      BY <3>1, <3>2
  <2> QED
    BY <1>4, <1>c, <2>1, <2>2 DEF Accept, serverVars
<1>5. CASE Supersede(s, g)
  <2>1. From({"accepted"}, Holding)
    BY <1>5, <1>0 DEF Supersede, GenSteps, Holding, From
  <2>2. \A h \in Gens : conn'[s][h] = "open" => h # client[s]
    BY <1>5, CloseClientType DEF Supersede
  <2>3. \A r \in Servers, h \in Gens : ClientOf(r, h)' => ClientOf(r, h)
    BY <1>5, <2>1, CloseClientType DEF Supersede, From, Holding, ClientOf
  <2>4. /\ mishaps' = mishaps /\ client' = client
        /\ \A r \in Servers, h \in Gens : h # g \/ r # s => pc'[r][h] = pc[r][h]
    BY <1>5, <2>1 DEF Supersede, serverVars, From
  <2>5. ASSUME NEW h \in Gens, ClientOf(s, h)', Unharmed(s, {"client"})'
        PROVE  FALSE
    <3>1. client[s] = h
      BY <2>3, <2>4, <2>5 DEF ClientInv, Unharmed
    <3> QED
      BY <2>2, <2>5, <3>1 DEF ClientOf
  <2>6. ASSUME NEW r \in Servers, r # s, NEW h \in Gens, ClientOf(r, h)',
               Unharmed(r, {"client"})'
        PROVE  client'[r] = h /\ ~ClientHeld(r, h)'
    <3>1. client[r] = h /\ ~ClientHeld(r, h)
      BY <2>3, <2>4, <2>6 DEF ClientInv, Unharmed
    <3> QED
      BY <2>4, <2>6, <3>1, <1>a DEF ClientHeld
  <2> QED
    BY <2>5, <2>6 DEF ClientInv
<1>6. CASE s = "audio" /\ Silence(g)
  <2>1. \/ From(Holding, Holding)
        \/ From(GenSteps, GenSteps \ (Live \cup Holding))
    BY <1>6, <1>0 DEF Silence, GenSteps, Holding, From
  <2> QED
    BY <1>6, <1>c, <2>1 DEF Silence, serverVars
<1>7. CASE s = "audio" /\ Discard(g)
  <2>1. \/ From(Holding, Holding)
        \/ From(GenSteps, GenSteps \ (Live \cup Holding))
    BY <1>7, <1>0 DEF Discard, GenSteps, Holding, From
  <2> QED
    BY <1>7, <1>c, <2>1 DEF Discard
<1>8. CASE Claim(s, g)
  <2>1. From({"claim"}, Live)
    BY <1>8, <1>0 DEF Claim, GenSteps, From
  <2>2. /\ client' = [client EXCEPT ![s] = g]
        /\ Mishap(s, "client", ClientHeld(s, g)) /\ conn' = conn
    BY <1>8 DEF Claim
  <2>3. mishaps \subseteq mishaps'
    BY <2>2, MishapType DEF Mishaps
  <2>4. ASSUME NEW r \in Servers, NEW h \in Gens, ClientOf(r, h)', Unharmed(r, {"client"})'
        PROVE  client'[r] = h /\ ~ClientHeld(r, h)'
    <3>0. Unharmed(r, {"client"})
      BY <2>3, <2>4 DEF Unharmed
    <3>1. CASE r = s /\ h = g
      <4>1. ~ClientHeld(s, g)
        BY <2>2, <2>4, <3>1 DEF Unharmed, Mishap
      <4>2. client'[s] = g
        BY <2>2 DEF Types
      <4> QED
        BY <1>a, <2>1, <3>1, <4>1, <4>2 DEF ClientHeld, From
    <3>2. CASE ~(r = s /\ h = g)
      <4>1. ClientOf(r, h)
        BY <2>1, <2>2, <2>4, <3>2 DEF From, ClientOf
      <4>2. client[r] = h /\ ~ClientHeld(r, h)
        BY <3>0, <4>1 DEF ClientInv
      <4>3. r # s
        BY <2>1, <3>2, <4>2 DEF ClientHeld, From
      <4> QED
        BY <1>a, <2>1, <2>2, <4>2, <4>3 DEF ClientHeld, From, Types
    <3> QED
      BY <3>1, <3>2
  <2> QED
    BY <2>4 DEF ClientInv
<1>9. CASE s = "audio" /\ (Play(g) \/ Build(g))
  <2>1. From(Live, Live)
    BY <1>9, <1>0 DEF Play, Build, GenSteps, From
  <2> QED
    BY <1>9, <1>c, <2>1 DEF Play, Build
<1>10. CASE Unflag(s, g)
  <2>1. From(Live, Live)
    BY <1>10, <1>0 DEF Unflag, GenSteps, From
  <2> QED
    BY <1>10, <1>c, <2>1 DEF Unflag
<1>11. CASE Open(s, g)
  <2>1. From(Live, Live) \/ From(GenSteps, GenSteps \ (Live \cup Holding))
    BY <1>11, <1>0 DEF Open, Ending, GenSteps, Holding, From
  <2> QED
    BY <1>11, <1>c, <2>1 DEF Open, serverVars
<1>12. CASE s = "audio" /\ Create(g)
  <2>1. From(Live, Live) \/ From(GenSteps, GenSteps \ (Live \cup Holding))
    BY <1>12, <1>0 DEF Create, GenSteps, Holding, From
  <2>2. mishaps \subseteq mishaps'
    BY <1>12, MishapType DEF Create, Mishaps
  <2> QED
    BY <1>12, <1>c, <2>1, <2>2 DEF Create, serverVars
<1>13. CASE Hear(s, g) \/ (s = "audio" /\ Unplay(g))
  <2>1. From(GenSteps, GenSteps \ (Live \cup Holding))
    BY <1>13, <1>0 DEF Hear, Unplay, Ending, GenSteps, Holding, From
  <2> QED
    BY <1>13, <1>c, <2>1 DEF Hear, Unplay, serverVars
<1>14. CASE Close(s, g)
  <2>1. From(GenSteps, GenSteps \ (Live \cup Holding))
    BY <1>14, <1>0 DEF Close, GenSteps, Holding, From
  <2>2. \A r \in Servers, h \in Gens : conn'[r][h] = "open" => conn[r][h] = "open"
    <3>1. conn' = Set(conn, s, g, "none")
      BY <1>14 DEF Close
    <3>2. \A r \in Servers, h \in Gens :
            conn'[r][h] = IF r = s /\ h = g THEN "none" ELSE conn[r][h]
      BY <3>1 DEF Set, Types
    <3> QED
      BY <3>2
  <2> QED
    BY <1>14, <1>c, <2>1, <2>2 DEF Close, serverVars
<1>15. CASE Forget(s, g)
  <2>1. CASE client[s] # g
    <3>1. From(GenSteps, GenSteps \ (Live \cup Holding))
      BY <1>15, <2>1, <1>0 DEF Forget, AfterForget, GenSteps, Holding, From
    <3> QED
      BY <1>15, <1>c, <3>1 DEF Forget, serverVars
  <2>2. CASE client[s] = g
    <3>1. From({"forget"}, {"clear"})
      BY <1>15, <2>2, <1>0 DEF Forget, GenSteps, From
    <3>2. UNCHANGED <<client, conn, mishaps>>
      BY <1>15 DEF Forget, serverVars
    <3>3. ASSUME NEW r \in Servers, NEW h \in Gens, ClientOf(r, h)',
                 Unharmed(r, {"client"})'
          PROVE  client'[r] = h /\ ~ClientHeld(r, h)'
      <4>1. ClientOf(r, h) /\ ~(r = s /\ h = g)
        BY <3>1, <3>2, <3>3 DEF From, ClientOf
      <4>2. client[r] = h /\ ~ClientHeld(r, h)
        BY <3>2, <3>3, <4>1 DEF ClientInv, Unharmed
      <4>3. r # s
        BY <2>2, <4>1, <4>2
      <4> QED
        BY <1>a, <3>1, <3>2, <4>2, <4>3 DEF ClientHeld, From
    <3> QED
      BY <3>3 DEF ClientInv
  <2> QED
    BY <2>1, <2>2
<1>16. CASE Clear(s, g)
  <2>1. From({"clear"}, GenSteps \ (Live \cup Holding))
    BY <1>16, <1>0 DEF Clear, AfterForget, GenSteps, Holding, From
  <2>2. client' = [client EXCEPT ![s] = None] /\ UNCHANGED <<conn, mishaps>>
    BY <1>16 DEF Clear
  <2>3. ASSUME NEW r \in Servers, NEW h \in Gens, ClientOf(r, h)', Unharmed(r, {"client"})'
        PROVE  client'[r] = h /\ ~ClientHeld(r, h)'
    <3>1. ClientOf(r, h) /\ ~(r = s /\ h = g)
      BY <2>1, <2>2, <2>3 DEF From, ClientOf
    <3>2. client[r] = h /\ ~ClientHeld(r, h)
      BY <2>2, <2>3, <3>1 DEF ClientInv, Unharmed
    <3>3. r # s
      BY <2>1, <3>1, <3>2 DEF ClientHeld, From
    <3> QED
      BY <1>a, <2>1, <2>2, <3>2, <3>3 DEF ClientHeld, From, Types
  <2> QED
    BY <2>3 DEF ClientInv
<1>17. CASE Report(s, g)
  <2>1. From(GenSteps, GenSteps \ (Live \cup Holding))
    BY <1>17, <1>0 DEF Report, GenSteps, Holding, From
  <2> QED
    BY <1>17, <1>c, <2>1 DEF Report, serverVars
<1>18. CASE After(s, g)
  <2>1. From(GenSteps, GenSteps \ (Live \cup Holding))
    BY <1>18, <1>0 DEF After, GenSteps, Holding, From
  <2>2. mishaps \subseteq mishaps'
    BY <1>18, MishapType DEF After, Mishaps
  <2> QED
    BY <1>18, <1>c, <2>1, <2>2 DEF After
<1> QED
  BY <1>1, <1>2, <1>3, <1>4, <1>5, <1>6, <1>7, <1>8, <1>9, <1>10, <1>11, <1>12, <1>13,
     <1>14, <1>15, <1>16, <1>17, <1>18 DEF GenStep

(* A launch touches one generation, and that one was nobody's.             *)
Launched(t, s, g) ==
    /\ scope[s] = "active" /\ Unused(s, g)
    /\ made'[t] = <<s, g>>
    /\ \A r \in Servers, h \in Gens :
         /\ r = s /\ h = g => pc'[r][h] = "launched"
         /\ ~(r = s /\ h = g) => pc'[r][h] = pc[r][h]

LEMMA LaunchMoves ==
  ASSUME Types, NEW t \in Stoppers, NEW s \in Servers, Launch(t, s)
  PROVE  \/ scope[s] # "active" /\ pc' = pc
         \/ \E g \in Gens : Launched(t, s, g)
<1>1. CASE scope[s] = "active"
  <2>1. PICK g \in Gens : /\ Unused(s, g)
                          /\ pc' = Set(pc, s, g, "launched")
                          /\ made' = [made EXCEPT ![t] = <<s, g>>]
    BY <1>1 DEF Launch
  <2>2. \A r \in Servers, h \in Gens :
          /\ r = s /\ h = g => pc'[r][h] = "launched"
          /\ ~(r = s /\ h = g) => pc'[r][h] = pc[r][h]
    BY <2>1 DEF Set, Types
  <2>3. made'[t] = <<s, g>>
    BY <2>1 DEF Types
  <2> QED
    BY <1>1, <2>1, <2>2, <2>3 DEF Launched
<1>2. CASE scope[s] # "active"
  BY <1>2 DEF Launch
<1> QED
  BY <1>1, <1>2

(* No line of a stop() or a start() but these three touches a client.      *)
LEMMA StepKeepsClient ==
  ASSUME Types, LineInv, ClientInv, NEW t \in Stoppers, NEW s \in Servers, Step(t, s)
  PROVE  ClientInv'
<1>c. ASSUME mishaps \subseteq mishaps', UNCHANGED <<client, conn>>,
             \A r \in Servers, h \in Gens : pc'[r][h] = pc[r][h] \/ pc'[r][h] = "launched",
             \A r \in Servers : StopsAt(r, {"clearClient"})' => StopsAt(r, {"clearClient"})
      PROVE  ClientInv'
  BY <1>c, ClientFrame DEF ClientOf, Holding
<1>d. ASSUME NEW from, NEW to \in Lines \ {"clearClient"}, NEW r \in Servers,
             Access(t, r, from, to), Goes \/ (to = "setFlag" /\ Returns(t)),
             mishaps \subseteq mishaps', UNCHANGED <<client, conn>>,
             \A q \in Servers, h \in Gens : pc'[q][h] = pc[q][h] \/ pc'[q][h] = "launched"
      PROVE  ClientInv'
  <2>1. ASSUME NEW q \in Servers, StopsAt(q, {"clearClient"})'
        PROVE  StopsAt(q, {"clearClient"})
    BY <1>d, <2>1, AccessStops
  <2> QED
    BY <1>c, <1>d, <2>1
<1>e. "audio" \in Servers
  BY DEF Servers
<1> USE DEF Lines, serverVars, genVars
<1>1. CASE Skip(t, s)
  BY <1>1, <1>c, SkipStops DEF Skip
<1>2. CASE SetFlag(t, s)
  BY <1>2, <1>d DEF SetFlag
<1>3. CASE StopClient(t, s)
  <2>1. /\ UNCHANGED <<client, pc, mishaps>> /\ CloseClient(s)
        /\ Access(t, s, "closeClient", "clearClient") /\ Goes
    BY <1>3 DEF StopClient
  <2>2. ASSUME NEW r \in Servers, NEW h \in Gens, ClientOf(r, h)', Unharmed(r, {"client"})'
        PROVE  client'[r] = h /\ ~ClientHeld(r, h)'
    <3>1. ClientOf(r, h)
      BY <2>1, <2>2, CloseClientType DEF ClientOf
    <3>2. client[r] = h /\ ~ClientHeld(r, h)
      BY <2>1, <2>2, <3>1 DEF ClientInv, Unharmed
    <3>3. r # s
      BY <2>1, <2>2, <3>1, <3>2, CloseClientType DEF ClientOf
    <3>4. StopsAt(r, {"clearClient"})' => StopsAt(r, {"clearClient"})
      BY <2>1, <3>3, AccessStops
    <3> QED
      BY <2>1, <3>2, <3>4 DEF ClientHeld
  <2> QED
    BY <2>2 DEF ClientInv
<1>4. CASE ClearClient(t, s)
  <2>1. /\ UNCHANGED <<conn, pc, mishaps>> /\ client' = [client EXCEPT ![s] = None]
        /\ StopsAt(s, {"clearClient"})
    BY <1>4 DEF ClearClient, StopsAt, Access
  <2>2. \A r \in Servers : StopsAt(r, {"clearClient"})' => StopsAt(r, {"clearClient"})
    BY <1>4, AccessStops DEF ClearClient
  <2>3. ASSUME NEW r \in Servers, NEW h \in Gens, ClientOf(r, h)', Unharmed(r, {"client"})'
        PROVE  client'[r] = h /\ ~ClientHeld(r, h)'
    <3>1. ClientOf(r, h)
      BY <2>1, <2>3 DEF ClientOf
    <3>2. client[r] = h /\ ~ClientHeld(r, h)
      BY <2>1, <2>3, <3>1 DEF ClientInv, Unharmed
    <3>3. r # s
      BY <2>1, <3>2 DEF ClientHeld
    <3> QED
      BY <2>1, <2>2, <3>2, <3>3 DEF ClientHeld, Types
  <2> QED
    BY <2>3 DEF ClientInv
<1>5. CASE s = "audio" /\ (StopPlayback(t) \/ ClearOutput(t))
  BY <1>5, <1>d, <1>e DEF StopPlayback, ClearOutput
<1>6. CASE s = "audio" /\ StopTrack(t)
  BY <1>6, <1>d, <1>e DEF StopTrack
<1>7. CASE CloseListener(t, s)
  BY <1>7, <1>d DEF CloseListener
<1>8. CASE ClearListener(t, s)
  BY <1>8, <1>d DEF ClearListener
<1>9. CASE CancelJob(t, s)
  BY <1>9, <1>d, CancelType DEF CancelJob
<1>10. CASE ClearJob(t, s)
  BY <1>10, <1>d DEF ClearJob
<1>11. CASE CancelScope(t, s)
  BY <1>11, <1>d, CancelType DEF CancelScope
<1>12. CASE ClearScope(t, s)
  BY <1>12, <1>d DEF ClearScope
<1>13. CASE ClearFlag(t, s)
  BY <1>13, <1>d DEF ClearFlag
<1>14. CASE NewScope(t, s)
  BY <1>14, <1>d DEF NewScope
<1>15. CASE Launch(t, s)
  <2>1. \A q \in Servers, h \in Gens : pc'[q][h] = pc[q][h] \/ pc'[q][h] = "launched"
    BY <1>15, LaunchMoves DEF Launched
  <2> QED
    BY <1>15, <2>1, <1>d DEF Launch
<1>16. CASE StoreJob(t, s)
  BY <1>16, <1>d DEF StoreJob
<1> QED
  BY <1>1, <1>2, <1>3, <1>4, <1>5, <1>6, <1>7, <1>8, <1>9, <1>10, <1>11, <1>12, <1>13,
     <1>14, <1>15, <1>16 DEF Step

(* The others end connections, and move generations to the end of a        *)
(* session or of a recycle.                                                *)
LEMMA OthersMove ==
  ASSUME Types, Others \/ UNCHANGED vars
  PROVE  /\ UNCHANGED <<listener, client, job, scope, output, cancelled, bound, on, track,
                        scene, line, made, mishaps>>
         /\ \A s \in Servers, g \in Gens :
              /\ conn'[s][g] = "open" => conn[s][g] = "open"
              /\ \/ pc'[s][g] = pc[s][g]
                 \/ pc[s][g] = "serve" /\ pc'[s][g] = "closing"
                 \/ pc[s][g] = "recycling" /\ pc'[s][g] = "after"
<1> USE DEF serverVars, genVars, serviceVars, callVars
<1>a. "control" \in Servers
  BY DEF Servers
<1>1. CASE \/ DisconnectSession \/ EnterRecycle \/ RecycleClear \/ Reopen
           \/ \E s \in Servers : Knock(s)
           \/ UNCHANGED vars
  BY <1>1 DEF DisconnectSession, EnterRecycle, RecycleClear, Reopen, Knock, vars
<1>2. CASE RecycleEnd
  BY <1>2 DEF RecycleEnd, Types
<1>3. ASSUME NEW g \in Gens, HearDisconnect(g) \/ Throw(g)
      PROVE  /\ UNCHANGED <<listener, client, job, scope, output, cancelled, bound, on,
                            track, scene, line, made, mishaps>>
             /\ \A s \in Servers, h \in Gens :
                  /\ conn'[s][h] = "open" => conn[s][h] = "open"
                  /\ \/ pc'[s][h] = pc[s][h]
                     \/ pc[s][h] = "serve" /\ pc'[s][h] = "closing"
  <2>1. pc["control"][g] = "serve" /\ GoTo("control", g, "closing")
    BY <1>3 DEF HearDisconnect, Throw
  <2>2. cancelled' = cancelled
    BY <1>a, <2>1 DEF GoTo, Set, Types
  <2>3. \A s \in Servers, h \in Gens : \/ pc'[s][h] = pc[s][h]
                                       \/ pc[s][h] = "serve" /\ pc'[s][h] = "closing"
    BY <1>a, <2>1 DEF GoTo, Set, Types
  <2>4. \A s \in Servers, h \in Gens : conn'[s][h] = "open" => conn[s][h] = "open"
    <3>1. conn' = conn \/ conn' = Set(conn, "control", g, "ended")
      BY <1>3 DEF HearDisconnect, Throw
    <3>2. CASE conn' = Set(conn, "control", g, "ended")
      <4>1. \A s \in Servers, h \in Gens :
              conn'[s][h] = IF s = "control" /\ h = g THEN "ended" ELSE conn[s][h]
        BY <1>a, <3>2 DEF Set, Types
      <4> QED
        BY <4>1
    <3> QED
      BY <3>1, <3>2
  <2>5. UNCHANGED <<listener, client, job, scope, output, bound, on, track, scene, line,
                    made, mishaps>>
    BY <1>3 DEF HearDisconnect, Throw
  <2> QED
    BY <2>2, <2>3, <2>4, <2>5
<1>4. CASE \E s \in Servers : PcCloses(s)
  <2>1. PICK s \in Servers : PcCloses(s)
    BY <1>4
  <2>2. \A r \in Servers, g \in Gens : conn'[r][g] = "open" => conn[r][g] = "open"
    BY <2>1 DEF PcCloses, Types
  <2> QED
    BY <2>1, <2>2 DEF PcCloses
<1>5. CASE PcGoes
  <2>1. \A r \in Servers, g \in Gens : conn'[r][g] = "open" => conn[r][g] = "open"
    BY <1>5 DEF PcGoes, Types
  <2> QED
    BY <1>5, <2>1 DEF PcGoes
<1> QED
  BY <1>1, <1>2, <1>3, <1>4, <1>5 DEF Others

LEMMA NextKeepsClient == Types /\ LineInv /\ ClientInv /\ [Next]_vars => ClientInv'
<1>1. ASSUME Types, LineInv, ClientInv, Others \/ UNCHANGED vars
      PROVE  ClientInv'
  BY <1>1, OthersMove, RestStops, ClientFrame DEF ClientOf, Holding
<1> QED
  BY <1>1, NextCases, GenStepKeepsClient, StepKeepsClient


-----------------------------------------------------------------------------
(* The output.                                                             *)

Sounding == {"serve", "unplay", "closing", "forget", "clear", "silence"}
Between == {"unhook", "claim", "play", "unflag", "open", "build", "discard"}

(* A live AudioTrack is the one the field names, its session is on its     *)
(* way, and no thread stands between a look at the field and its own       *)
(* assignment of it, unless that is the recorded mishap.                   *)
OutputInv ==
    Unharmed("audio", {"output"}) =>
      \A g \in Gens : track[g] = "live" =>
        output = g /\ ~OutputHeld(g) /\ pc["audio"][g] \in Sounding

(* A step that makes no AudioTrack live, and puts nobody between.          *)
LEMMA OutputFrame ==
  ASSUME OutputInv, mishaps \subseteq mishaps', output' = output,
         \A g \in Gens : track'[g] = "live" => track[g] = "live",
         \A g \in Gens : pc["audio"][g] \in Sounding => pc'["audio"][g] \in Sounding,
         \A g \in Gens : pc'["audio"][g] \in Between => pc["audio"][g] \in Between,
         StopsAt("audio", {"clearOutput"})' => StopsAt("audio", {"clearOutput"})
  PROVE  OutputInv'
<1> SUFFICES ASSUME Unharmed("audio", {"output"})', NEW g \in Gens, track'[g] = "live"
             PROVE  output' = g /\ ~OutputHeld(g)' /\ pc'["audio"][g] \in Sounding
  BY DEF OutputInv
<1>1. Unharmed("audio", {"output"})
  BY DEF Unharmed
<1>2. output = g /\ ~OutputHeld(g) /\ pc["audio"][g] \in Sounding
  BY <1>1 DEF OutputInv
<1> QED
  BY <1>2 DEF OutputHeld, Between

(* After a StopOutput nothing sounds, and nothing does while somebody      *)
(* stands between.                                                         *)
LEMMA StopOutputSilences ==
  ASSUME Types, OutputInv, StopOutput, mishaps' = mishaps
  PROVE  OutputInv'
  BY DEF StopOutput, OutputInv, Unharmed, Types

LEMMA HeldIsSilent ==
  ASSUME OutputInv, Unharmed("audio", {"output"}), NEW h \in Gens,
         \/ pc["audio"][h] \in Between
         \/ StopsAt("audio", {"clearOutput"}),
         NEW g \in Gens
  PROVE  track[g] # "live"
  BY DEF OutputInv, OutputHeld, Between, Sounding

LEMMA GenStepKeepsOutput ==
  ASSUME Types, LineInv, OutputInv, NEW s \in Servers, NEW g \in Gens, GenStep(s, g)
  PROVE  OutputInv'
<1>a. StopsAt("audio", {"clearOutput"})' => StopsAt("audio", {"clearOutput"})
  BY RestStops DEF Servers
<1>b. s = "audio" \/ s = "control"
  BY DEF Servers
<1> DEFINE From(A, B) == /\ pc[s][g] \in A /\ pc'[s][g] \in B
                         /\ \A r \in Servers, h \in Gens :
                              ~(r = s /\ h = g) => pc'[r][h] = pc[r][h]
           Quiet == GenSteps \ (Sounding \cup Between)
<1>0. ASSUME NEW p \in GenSteps, GoTo(s, g, p)
      PROVE  /\ pc'[s][g] = p
             /\ \A r \in Servers, h \in Gens :
                  ~(r = s /\ h = g) => pc'[r][h] = pc[r][h]
  BY <1>0, GoToTypes
<1>c. ASSUME mishaps \subseteq mishaps', UNCHANGED <<output, track>>,
             \/ s = "control" /\ From(GenSteps, GenSteps)
             \/ From(Quiet \cup Between, Quiet) \/ From(Quiet \cup Between, Sounding)
             \/ From(Sounding, Sounding) \/ From(Between, Between)
             \/ From(Between, {"unplay"})
      PROVE  OutputInv'
  <2>1. "audio" \in Servers
    BY DEF Servers
  <2>2. \A h \in Gens :
          /\ pc["audio"][h] \in Sounding => pc'["audio"][h] \in Sounding
          /\ pc'["audio"][h] \in Between => pc["audio"][h] \in Between
    BY <1>c, <2>1 DEF Sounding, Between
  <2> QED
    BY <1>a, <1>c, <2>2, OutputFrame
<1> HIDE DEF From
<1>1. CASE Dispatch(s, g) \/ Loop(s, g)
  <2>1. From(Quiet \cup Between, Quiet)
    BY <1>1, <1>0 DEF Dispatch, Loop, GenSteps, Sounding, Between, From
  <2> QED
    BY <1>1, <1>c, <2>1 DEF Dispatch, Loop, serverVars
<1>2. CASE Bind(s, g) \/ Fetch(s, g)
  <2>1. From(Quiet \cup Between, Quiet)
    BY <1>2, <1>0 DEF Bind, Fetch, GenSteps, Sounding, Between, From
  <2> QED
    BY <1>2, <1>c, <2>1 DEF Bind, Fetch, serverVars
<1>3. CASE Store(s, g)
  <2>1. From(Quiet \cup Between, Quiet)
    BY <1>3, <1>0 DEF Store, GenSteps, Sounding, Between, From
  <2>2. mishaps \subseteq mishaps'
    BY <1>3, MishapType DEF Store, Mishaps
  <2> QED
    BY <1>3, <1>c, <2>1, <2>2 DEF Store
<1>4. CASE AcceptFails(s, g) \/ Accept(s, g)
  <2>1. From(Quiet \cup Between, Quiet)
    BY <1>4, <1>0 DEF AcceptFails, Accept, GenSteps, Sounding, Between, From
  <2> QED
    BY <1>4, <1>c, <2>1 DEF AcceptFails, Accept, serverVars
<1>5. CASE Supersede(s, g)
  <2>1. From(GenSteps, GenSteps) /\ (s = "audio" => From(Quiet \cup Between, Quiet))
    BY <1>5, <1>0 DEF Supersede, GenSteps, Sounding, Between, From
  <2> QED
    BY <1>5, <1>b, <1>c, <2>1 DEF Supersede, serverVars
<1>6. CASE s = "audio" /\ Silence(g)
  BY <1>6, StopOutputSilences DEF Silence
<1>7. CASE s = "audio" /\ Discard(g)
  <2>1. pc["audio"][g] \in Between /\ UNCHANGED <<mishaps, track>>
    BY <1>7 DEF Discard, Between
  <2> QED
    BY <2>1, HeldIsSilent DEF OutputInv, Unharmed
<1>8. CASE Claim(s, g)
  <2>1. From(GenSteps, GenSteps) /\ (s = "audio" => From(Between, Between))
    BY <1>8, <1>0 DEF Claim, GenSteps, Between, From
  <2>2. mishaps \subseteq mishaps'
    BY <1>8, MishapType DEF Claim, Mishaps
  <2> QED
    BY <1>8, <1>b, <1>c, <2>1, <2>2 DEF Claim
<1>9. CASE s = "audio" /\ Play(g)
  <2>1. From(Between, Between)
    BY <1>9, <1>0 DEF Play, GenSteps, Between, From
  <2> QED
    BY <1>9, <1>c, <2>1 DEF Play
<1>10. CASE Unflag(s, g)
  <2>1. From(Between, Between)
    BY <1>10, <1>0 DEF Unflag, GenSteps, Between, From
  <2> QED
    BY <1>10, <1>c, <2>1 DEF Unflag
<1>11. CASE Open(s, g)
  <2>1. From(GenSteps, GenSteps)
        /\ (s = "audio" => From(Between, Between) \/ From(Between, {"unplay"}))
    BY <1>11, <1>0 DEF Open, Ending, GenSteps, Between, From
  <2> QED
    BY <1>11, <1>b, <1>c, <2>1 DEF Open, serverVars
<1>12. CASE s = "audio" /\ Build(g)
  <2>1. pc["audio"][g] \in Between /\ mishaps' = mishaps
        /\ track' = [track EXCEPT ![g] = "new"]
    BY <1>12 DEF Build, Between
  <2> QED
    BY <2>1, HeldIsSilent DEF OutputInv, Unharmed, Types
<1>13. CASE s = "audio" /\ Create(g)
  <2>1. /\ pc["audio"][g] = "create" /\ output' = output
        /\ pc'["audio"][g] \in {"serve", "unplay"}
        /\ \A h \in Gens \ {g} : pc'["audio"][h] = pc["audio"][h]
    BY <1>13, <1>0 DEF Create, GenSteps, serverVars
  <2>2. mishaps \subseteq mishaps'
    BY <1>13, MishapType DEF Create, Mishaps
  <2>3. \A h \in Gens : OutputHeld(h)' => OutputHeld(h)
    BY <1>a, <2>1 DEF OutputHeld
  <2> SUFFICES ASSUME Unharmed("audio", {"output"})', NEW h \in Gens, track'[h] = "live"
               PROVE  /\ output' = h /\ ~OutputHeld(h)'
                      /\ pc'["audio"][h] \in Sounding
    BY DEF OutputInv
  <2>4. Unharmed("audio", {"output"})
    BY <2>2 DEF Unharmed
  <2>5. CASE h = g
    <3>1. pc'["audio"][g] = "serve" /\ Mishap("audio", "output", output # g \/ OutputHeld(g))
      BY <1>13, <2>1, <2>5, <1>0 DEF Create, Types, GenSteps
    <3>2. output = g /\ ~OutputHeld(g)
      BY <3>1 DEF Mishap, Unharmed
    <3> QED
      BY <2>1, <2>3, <2>5, <3>1, <3>2 DEF Sounding
  <2>6. CASE h # g
    <3>1. track[h] = "live"
      BY <1>13, <2>6 DEF Create, Types
    <3>2. output = h /\ ~OutputHeld(h) /\ pc["audio"][h] \in Sounding
      BY <2>4, <3>1 DEF OutputInv
    <3> QED
      BY <2>1, <2>3, <2>6, <3>2
  <2> QED
    BY <2>5, <2>6
<1>14. CASE Hear(s, g) \/ (s = "audio" /\ Unplay(g)) \/ Close(s, g)
  <2>1. From(Sounding, Sounding)
    BY <1>14, <1>0 DEF Hear, Unplay, Close, Ending, GenSteps, Sounding, From
  <2> QED
    BY <1>14, <1>c, <2>1 DEF Hear, Unplay, Close, serverVars
<1>15. CASE Forget(s, g) \/ Clear(s, g)
  <2>1. From(GenSteps, GenSteps) /\ (s = "audio" => From(Sounding, Sounding))
    BY <1>15, <1>0 DEF Forget, Clear, AfterForget, GenSteps, Sounding, From
  <2> QED
    BY <1>15, <1>b, <1>c, <2>1 DEF Forget, Clear, serverVars
<1>16. CASE Ask(s, g) \/ Report(s, g)
  <2>1. From(Quiet \cup Between, Quiet)
    BY <1>16, <1>0 DEF Ask, Report, GenSteps, Sounding, Between, From
  <2> QED
    BY <1>16, <1>c, <2>1 DEF Ask, Report, serverVars
<1>17. CASE After(s, g)
  <2>1. From(Quiet \cup Between, Quiet)
    BY <1>17, <1>0 DEF After, GenSteps, Sounding, Between, From
  <2>2. mishaps \subseteq mishaps'
    BY <1>17, MishapType DEF After, Mishaps
  <2> QED
    BY <1>17, <1>c, <2>1, <2>2 DEF After
<1> QED
  BY <1>1, <1>2, <1>3, <1>4, <1>5, <1>6, <1>7, <1>8, <1>9, <1>10, <1>11, <1>12, <1>13,
     <1>14, <1>15, <1>16, <1>17 DEF GenStep

LEMMA StepKeepsOutput ==
  ASSUME Types, LineInv, OutputInv, NEW t \in Stoppers, NEW s \in Servers, Step(t, s)
  PROVE  OutputInv'
<1>a. "audio" \in Servers
  BY DEF Servers
<1>c. ASSUME mishaps \subseteq mishaps', UNCHANGED <<output, track, pc>>,
             StopsAt("audio", {"clearOutput"})' => StopsAt("audio", {"clearOutput"})
      PROVE  OutputInv'
  BY <1>c, OutputFrame
<1>d. ASSUME NEW from, NEW to \in Lines \ {"clearOutput"}, NEW r \in Servers,
             Access(t, r, from, to), Goes \/ (to = "setFlag" /\ Returns(t)),
             mishaps \subseteq mishaps', UNCHANGED <<output, track, pc>>
      PROVE  OutputInv'
  <2>1. StopsAt("audio", {"clearOutput"})' => StopsAt("audio", {"clearOutput"})
    BY <1>a, <1>d, AccessStops
  <2> QED
    BY <1>c, <1>d, <2>1
<1> USE DEF Lines, serverVars, genVars
<1>1. CASE Skip(t, s)
  BY <1>1, <1>a, <1>c, SkipStops DEF Skip
<1>2. CASE SetFlag(t, s)
  BY <1>2, <1>d DEF SetFlag
<1>3. CASE StopClient(t, s)
  BY <1>3, <1>d DEF StopClient
<1>4. CASE ClearClient(t, s)
  BY <1>4, <1>d DEF ClearClient
<1>5. CASE s = "audio" /\ StopPlayback(t)
  BY <1>5, <1>d DEF StopPlayback
<1>6. CASE s = "audio" /\ StopTrack(t)
  BY <1>6, StopOutputSilences DEF StopTrack
<1>7. CASE s = "audio" /\ ClearOutput(t)
  <2>1. StopsAt("audio", {"clearOutput"}) /\ UNCHANGED <<mishaps, track>>
    BY <1>7 DEF ClearOutput, StopsAt, Access
  <2> QED
    BY <2>1, HeldIsSilent DEF OutputInv, Unharmed
<1>8. CASE CloseListener(t, s)
  BY <1>8, <1>d DEF CloseListener
<1>9. CASE ClearListener(t, s)
  BY <1>9, <1>d DEF ClearListener
<1>10. CASE CancelJob(t, s)
  BY <1>10, <1>d, CancelType DEF CancelJob
<1>11. CASE ClearJob(t, s)
  BY <1>11, <1>d DEF ClearJob
<1>12. CASE CancelScope(t, s)
  BY <1>12, <1>d, CancelType DEF CancelScope
<1>13. CASE ClearScope(t, s)
  BY <1>13, <1>d DEF ClearScope
<1>14. CASE ClearFlag(t, s)
  BY <1>14, <1>d DEF ClearFlag
<1>15. CASE NewScope(t, s)
  BY <1>15, <1>d DEF NewScope
<1>16. CASE Launch(t, s)
  <2>1. \A h \in Gens :
          /\ pc["audio"][h] \in Sounding => pc'["audio"][h] \in Sounding
          /\ pc'["audio"][h] \in Between => pc["audio"][h] \in Between
    BY <1>16, <1>a, LaunchMoves DEF Launched, Unused, Sounding, Between
  <2>2. UNCHANGED <<output, track, mishaps>>
    BY <1>16 DEF Launch
  <2>3. StopsAt("audio", {"clearOutput"})' => StopsAt("audio", {"clearOutput"})
    BY <1>16, <1>a, AccessStops DEF Launch
  <2> QED
    BY <2>1, <2>2, <2>3, OutputFrame
<1>17. CASE StoreJob(t, s)
  BY <1>17, <1>d DEF StoreJob
<1> QED
  BY <1>1, <1>2, <1>3, <1>4, <1>5, <1>6, <1>7, <1>8, <1>9, <1>10, <1>11, <1>12, <1>13,
     <1>14, <1>15, <1>16, <1>17 DEF Step

LEMMA NextKeepsOutput == Types /\ LineInv /\ OutputInv /\ [Next]_vars => OutputInv'
<1>1. ASSUME Types, LineInv, OutputInv, Others \/ UNCHANGED vars
      PROVE  OutputInv'
  <2>1. "audio" \in Servers
    BY DEF Servers
  <2> QED
    BY <1>1, <2>1, OthersMove, RestStops, OutputFrame DEF Sounding, Between
<1> QED
  BY <1>1, NextCases, GenStepKeepsOutput, StepKeepsOutput

-----------------------------------------------------------------------------
(* The server sockets.                                                     *)

Early == {"done", "launched", "binding", "storing"}

(* A generation on its way to its first accept().                          *)
GenOk(s, g) ==
    /\ pc[s][g] = "done" => ~cancelled[s][g]
    /\ pc[s][g] \in {"launched", "binding", "storing"} => listener[s] # g
    /\ pc[s][g] \in {"launched", "binding"} => ~bound[s][g]
    /\ pc[s][g] = "storing" => bound[s][g]
    /\ \A h \in Gens : bound[s][g] /\ bound[s][h] => g = h

(* An open ServerSocket is the one the field names, and no stop has passed *)
(* it by; nor is a generation cancelled that is about to open one.         *)
SocketOk(s, g) ==
    Unharmed(s, {"bind"}) =>
      /\ bound[s][g] /\ pc[s][g] # "storing" => listener[s] = g /\ ~ListenerPassed(s)
      /\ pc[s][g] \in {"binding", "storing"} => ~cancelled[s][g]

(* Its generation is the one that accepts on it.                           *)
LoopOk(s, g) ==
    Unharmed(s, {"bind", "end"}) /\ bound[s][g] =>
      /\ ~cancelled[s][g] /\ pc[s][g] # "done"
      /\ pc[s][g] = "accept" => on[s][g] = g

Sockets(s, g) == GenOk(s, g) /\ SocketOk(s, g) /\ LoopOk(s, g)

SocketInv == \A s \in Servers, g \in Gens : Sockets(s, g)

(* A generation that stays where it is, or is between two accept() calls.  *)
LEMMA SocketFrame ==
  ASSUME NEW s \in Servers, NEW g \in Gens, Sockets(s, g), mishaps \subseteq mishaps',
         listener'[s] = listener[s], bound'[s] = bound[s],
         cancelled'[s][g] = cancelled[s][g],
         \/ pc'[s][g] = pc[s][g] /\ on'[s][g] = on[s][g]
         \/ pc[s][g] \notin Early /\ pc'[s][g] \notin Early \cup {"accept"},
         ListenerPassed(s)' => ListenerPassed(s)
  PROVE  Sockets(s, g)'
<1>1. GenOk(s, g)'
  BY DEF Sockets, GenOk, Early
<1>2. SocketOk(s, g)'
  BY DEF Sockets, SocketOk, Unharmed, Early
<1>3. LoopOk(s, g)'
  BY DEF Sockets, LoopOk, Unharmed, Early
<1> QED
  BY <1>1, <1>2, <1>3 DEF Sockets

LEMMA RestPasses ==
  ASSUME Types, LineInv,
         \/ \E s \in Servers, g \in Gens : GenStep(s, g)
         \/ Others \/ UNCHANGED vars,
         NEW r \in Servers, ListenerPassed(r)'
  PROVE  ListenerPassed(r)
<1>1. "setFlag" \notin {"clearListener", "cancelJob", "clearJob", "cancelScope"}
  OBVIOUS
<1> QED
  BY <1>1, RestStops DEF ListenerPassed

LEMMA GenStepKeepsSockets ==
  ASSUME Types, LineInv, SocketInv, NEW s \in Servers, NEW g \in Gens, GenStep(s, g)
  PROVE  SocketInv'
<1>a. \A r \in Servers : ListenerPassed(r)' => ListenerPassed(r)
  BY RestPasses
<1>b. s = "audio" \/ s = "control"
  BY DEF Servers
<1> DEFINE Elsewhere == \A r \in Servers, h \in Gens : ~(r = s /\ h = g) => on'[r][h] = on[r][h]
<1>0. ASSUME NEW p \in GenSteps, GoTo(s, g, p)
      PROVE  /\ pc'[s][g] = p
             /\ p = "done" => cancelled'[s][g] = FALSE
             /\ p # "done" => cancelled'[s][g] = cancelled[s][g]
             /\ \A r \in Servers, h \in Gens : ~(r = s /\ h = g) =>
                  pc'[r][h] = pc[r][h] /\ cancelled'[r][h] = cancelled[r][h]
  <2>1. cancelled[s][g] \in BOOLEAN
    BY DEF Types
  <2>2. /\ pc'[s][g] = p
        /\ cancelled'[s][g] = (p # "done" /\ cancelled[s][g])
        /\ \A r \in Servers, h \in Gens : ~(r = s /\ h = g) =>
             pc'[r][h] = pc[r][h] /\ cancelled'[r][h] = cancelled[r][h]
    BY <1>0, GoToTypes
  <2>3. (p # "done" /\ cancelled[s][g]) = IF p = "done" THEN FALSE ELSE cancelled[s][g]
    BY <2>1
  <2> QED
    BY <2>2, <2>3
(* The generations that do not move. *)
<1>o. ASSUME NEW p \in GenSteps, GoTo(s, g, p), UNCHANGED <<listener, bound>>, Elsewhere,
             mishaps \subseteq mishaps', Sockets(s, g)'
      PROVE  SocketInv'
  <2> SUFFICES ASSUME NEW r \in Servers, NEW h \in Gens, ~(r = s /\ h = g)
               PROVE  Sockets(r, h)'
    BY <1>o DEF SocketInv
  <2>1. pc'[r][h] = pc[r][h] /\ cancelled'[r][h] = cancelled[r][h]
    BY <1>o, <1>0
  <2> QED
    BY <1>o, <1>a, <2>1, SocketFrame DEF SocketInv
<1>m. ASSUME NEW p \in GenSteps \ (Early \cup {"accept"}), GoTo(s, g, p),
             pc[s][g] \notin Early,
             UNCHANGED <<listener, bound>>, Elsewhere, mishaps \subseteq mishaps'
      PROVE  SocketInv'
  <2>1. pc'[s][g] = p /\ cancelled'[s][g] = cancelled[s][g]
    BY <1>m, <1>0 DEF Early, Types
  <2>2. Sockets(s, g)'
    BY <1>m, <1>a, <2>1, SocketFrame DEF SocketInv
  <2> QED
    BY <1>m, <1>o, <2>2
<1>s. Sockets(s, g) /\ \A h \in Gens : Sockets(s, h)
  BY DEF SocketInv
<1> HIDE DEF Elsewhere
<1>n. ASSUME on' = on PROVE Elsewhere
  BY <1>n DEF Elsewhere
<1>t. ASSUME NEW v, on' = Set(on, s, g, v) PROVE Elsewhere
  BY <1>t DEF Elsewhere, Set, Types
<1> USE DEF serverVars
<1>1. CASE Dispatch(s, g)
  <2> DEFINE p == IF cancelled[s][g] THEN "done" ELSE "binding"
  <2>0. \/ cancelled[s][g] = TRUE /\ p = "done"
        \/ cancelled[s][g] = FALSE /\ p = "binding"
    BY DEF Types
  <2>1. /\ p \in GenSteps /\ GoTo(s, g, p) /\ pc[s][g] = "launched"
        /\ UNCHANGED <<listener, bound, on, mishaps>>
    BY <1>1 DEF Dispatch, GenSteps
  <2>2. pc'[s][g] = p /\ cancelled'[s][g] = FALSE
    <3> HIDE DEF p
    <3>1. pc'[s][g] = p /\ (p = "done" => cancelled'[s][g] = FALSE)
          /\ (p # "done" => cancelled'[s][g] = cancelled[s][g])
      BY <1>0, <2>1
    <3> QED
      BY <2>0, <3>1
  <2>3. ~bound[s][g] /\ listener[s] # g
    BY <1>s, <2>1 DEF Sockets, GenOk
  <2>4. Sockets(s, g)'
    BY <2>1, <2>2, <2>3 DEF Sockets, GenOk, SocketOk, LoopOk
  <2> QED
    BY <1>o, <1>n, <2>1, <2>4
<1>2. CASE Bind(s, g)
  <2>1. pc[s][g] = "binding" /\ UNCHANGED <<listener, on, mishaps>>
    BY <1>2 DEF Bind
  <2>2. ~bound[s][g] /\ listener[s] # g
    BY <1>s, <2>1 DEF Sockets, GenOk
  <2>3. CASE \E h \in Gens : bound[s][h]
    <3>1. GoTo(s, g, "done") /\ UNCHANGED bound /\ "done" \in GenSteps
      BY <1>2, <2>3 DEF Bind, GenSteps
    <3>2. pc'[s][g] = "done" /\ cancelled'[s][g] = FALSE
      BY <1>0, <3>1
    <3>3. Sockets(s, g)'
      BY <2>1, <2>2, <3>1, <3>2 DEF Sockets, GenOk, SocketOk, LoopOk
    <3> QED
      BY <1>o, <1>n, <2>1, <3>1, <3>3
  <2>4. CASE ~\E h \in Gens : bound[s][h]
    <3>1. GoTo(s, g, "storing") /\ bound' = Set(bound, s, g, TRUE) /\ "storing" \in GenSteps
      BY <1>2, <2>4 DEF Bind, GenSteps
    <3>2. /\ pc'[s][g] = "storing" /\ cancelled'[s][g] = cancelled[s][g]
          /\ \A r \in Servers, h \in Gens : ~(r = s /\ h = g) =>
               pc'[r][h] = pc[r][h] /\ cancelled'[r][h] = cancelled[r][h]
      BY <1>0, <3>1 DEF Types
    <3>3. /\ bound'[s][g]
          /\ \A h \in Gens \ {g} : ~bound'[s][h]
          /\ \A r \in Servers \ {s} : bound'[r] = bound[r]
      BY <2>4, <3>1 DEF Set, Types
    <3>4. Unharmed(s, {"bind"}) => ~cancelled[s][g]
      BY <1>s, <2>1 DEF Sockets, SocketOk
    <3>5. Unharmed(s, {"bind", "end"}) => Unharmed(s, {"bind"})
      BY DEF Unharmed
    <3>6. Sockets(s, g)'
      BY <2>1, <2>2, <3>2, <3>3, <3>4, <3>5 DEF Sockets, GenOk, SocketOk, LoopOk, Unharmed
    <3>7. ASSUME NEW h \in Gens \ {g} PROVE Sockets(s, h)'
      <4>1. ~bound[s][h] /\ ~bound'[s][h] /\ Sockets(s, h)
        BY <2>4, <1>s, <3>3
      <4>2. pc'[s][h] = pc[s][h] /\ cancelled'[s][h] = cancelled[s][h]
        BY <3>2
      <4> QED
        BY <2>1, <4>1, <4>2 DEF Sockets, GenOk, SocketOk, LoopOk, Unharmed
    <3>8. ASSUME NEW r \in Servers \ {s}, NEW h \in Gens PROVE Sockets(r, h)'
      BY <1>a, <2>1, <3>2, <3>3, <3>8, SocketFrame DEF SocketInv
    <3> QED
      BY <3>6, <3>7, <3>8 DEF SocketInv
  <2> QED
    BY <2>3, <2>4
<1>3. CASE Store(s, g)
  <2>1. /\ pc[s][g] = "storing" /\ GoTo(s, g, "loop") /\ "loop" \in GenSteps
        /\ listener' = [listener EXCEPT ![s] = g]
        /\ Mishap(s, "bind", ListenerPassed(s)) /\ UNCHANGED <<bound, on>>
    BY <1>3 DEF Store, GenSteps
  <2>2. mishaps \subseteq mishaps'
    BY <2>1, MishapType DEF Mishaps
  <2>3. /\ pc'[s][g] = "loop" /\ cancelled'[s][g] = cancelled[s][g]
        /\ \A r \in Servers, h \in Gens : ~(r = s /\ h = g) =>
             pc'[r][h] = pc[r][h] /\ cancelled'[r][h] = cancelled[r][h]
    BY <1>0, <2>1 DEF Types
  <2>4. bound[s][g] /\ \A h \in Gens \ {g} : ~bound[s][h]
    BY <1>s, <2>1 DEF Sockets, GenOk
  <2>5. listener'[s] = g /\ \A r \in Servers \ {s} : listener'[r] = listener[r]
    BY <2>1 DEF Types
  <2>6. Sockets(s, g)'
    <3>1. GenOk(s, g)'
      BY <1>s, <2>1, <2>3 DEF Sockets, GenOk
    <3>2. SocketOk(s, g)'
      <4>1. Unharmed(s, {"bind"})' => ~ListenerPassed(s)
        BY <2>1 DEF Mishap, Unharmed
      <4> QED
        BY <1>a, <2>3, <2>5, <4>1 DEF SocketOk
    <3>3. LoopOk(s, g)'
      <4>1. Unharmed(s, {"bind", "end"})' => Unharmed(s, {"bind"})
        BY <2>2 DEF Unharmed
      <4> QED
        BY <1>s, <2>1, <2>3, <4>1 DEF Sockets, SocketOk, LoopOk
    <3> QED
      BY <3>1, <3>2, <3>3 DEF Sockets
  <2>7. ASSUME NEW h \in Gens \ {g} PROVE Sockets(s, h)'
    <3>1. ~bound[s][h] /\ bound' = bound /\ Sockets(s, h) /\ pc[s][h] # "storing"
      BY <1>s, <2>1, <2>4 DEF Sockets, GenOk
    <3>2. pc'[s][h] = pc[s][h] /\ cancelled'[s][h] = cancelled[s][h]
      BY <2>3
    <3> QED
      BY <2>2, <2>5, <3>1, <3>2 DEF Sockets, GenOk, SocketOk, LoopOk, Unharmed
  <2>8. ASSUME NEW r \in Servers \ {s}, NEW h \in Gens PROVE Sockets(r, h)'
    BY <1>a, <2>1, <2>2, <2>3, <2>5, <2>8, SocketFrame DEF SocketInv
  <2> QED
    BY <2>6, <2>7, <2>8 DEF SocketInv
<1>4. CASE Loop(s, g)
  <2> DEFINE p == IF cancelled[s][g] THEN "done" ELSE "fetch"
  <2>0. \/ cancelled[s][g] = TRUE /\ p = "done"
        \/ cancelled[s][g] = FALSE /\ p = "fetch"
    BY DEF Types
  <2>1. /\ p \in GenSteps /\ GoTo(s, g, p) /\ pc[s][g] = "loop"
        /\ UNCHANGED <<listener, bound, on, mishaps>>
    BY <1>4 DEF Loop, GenSteps
  <2>2. pc'[s][g] = p /\ cancelled'[s][g] = FALSE
    <3> HIDE DEF p
    <3>1. pc'[s][g] = p /\ (p = "done" => cancelled'[s][g] = FALSE)
          /\ (p # "done" => cancelled'[s][g] = cancelled[s][g])
      BY <1>0, <2>1
    <3> QED
      BY <2>0, <3>1
  <2>3. Sockets(s, g)'
    <3>1. GenOk(s, g)'
      BY <1>s, <2>1, <2>2 DEF Sockets, GenOk
    <3>2. SocketOk(s, g)'
      BY <1>s, <1>a, <2>1, <2>2 DEF Sockets, SocketOk, Unharmed
    <3>3. LoopOk(s, g)'
      BY <1>s, <2>1, <2>2 DEF Sockets, LoopOk, Unharmed
    <3> QED
      BY <3>1, <3>2, <3>3 DEF Sockets
  <2> QED
    BY <1>o, <1>n, <2>1, <2>3
<1>5. CASE Fetch(s, g)
  <2>1. /\ pc[s][g] = "fetch" /\ on' = Set(on, s, g, listener[s])
        /\ UNCHANGED <<listener, bound, mishaps>>
    BY <1>5 DEF Fetch
  <2>2. CASE listener[s] = None
    <3>1. GoTo(s, g, "done") /\ "done" \in GenSteps
      BY <1>5, <2>2 DEF Fetch, GenSteps
    <3>2. pc'[s][g] = "done" /\ cancelled'[s][g] = FALSE
      BY <1>0, <3>1
    <3>3. listener[s] # g
      BY <2>2, ReceiverAssumption
    <3>4. GenOk(s, g)'
      BY <1>s, <2>1, <3>2 DEF Sockets, GenOk
    <3>5. SocketOk(s, g)'
      BY <1>s, <1>a, <2>1, <3>2 DEF Sockets, SocketOk, Unharmed
    <3>6. LoopOk(s, g)'
      BY <1>s, <2>1, <3>3 DEF Sockets, SocketOk, LoopOk, Unharmed
    <3> QED
      BY <1>o, <1>t, <2>1, <3>1, <3>4, <3>5, <3>6 DEF Sockets
  <2>3. CASE listener[s] # None
    <3>1. GoTo(s, g, "accept") /\ "accept" \in GenSteps
      BY <1>5, <2>3 DEF Fetch, GenSteps
    <3>2. /\ pc'[s][g] = "accept" /\ cancelled'[s][g] = cancelled[s][g]
          /\ on'[s][g] = listener[s]
      BY <1>0, <2>1, <3>1 DEF Set, Types
    <3>3. GenOk(s, g)'
      BY <1>s, <2>1, <3>2 DEF Sockets, GenOk
    <3>4. SocketOk(s, g)'
      BY <1>s, <1>a, <2>1, <3>2 DEF Sockets, SocketOk, Unharmed
    <3>5. LoopOk(s, g)'
      <4>1. Unharmed(s, {"bind", "end"})' /\ bound'[s][g] => listener[s] = g /\ ~cancelled[s][g]
        BY <1>s, <2>1 DEF Sockets, SocketOk, LoopOk, Unharmed
      <4> QED
        BY <3>2, <4>1 DEF LoopOk
    <3> QED
      BY <1>o, <1>t, <2>1, <3>1, <3>3, <3>4, <3>5 DEF Sockets
  <2> QED
    BY <2>2, <2>3
<1>6. CASE AcceptFails(s, g)
  <2>1. /\ GoTo(s, g, "done") /\ "done" \in GenSteps /\ pc[s][g] = "accept"
        /\ ~bound[s][on[s][g]] /\ on' = Set(on, s, g, None)
        /\ UNCHANGED <<listener, bound, mishaps>>
    BY <1>6 DEF AcceptFails, GenSteps
  <2>2. pc'[s][g] = "done" /\ cancelled'[s][g] = FALSE
    BY <1>0, <2>1
  <2>3. Sockets(s, g)'
    <3>1. GenOk(s, g)'
      BY <1>s, <2>1, <2>2 DEF Sockets, GenOk
    <3>2. SocketOk(s, g)'
      BY <1>s, <1>a, <2>1, <2>2 DEF Sockets, SocketOk, Unharmed
    <3>3. LoopOk(s, g)'
      BY <1>s, <2>1, <2>2 DEF Sockets, LoopOk, Unharmed
    <3> QED
      BY <3>1, <3>2, <3>3 DEF Sockets
  <2> QED
    BY <1>o, <1>t, <2>1, <2>3
<1>7. CASE Accept(s, g)
  BY <1>7, <1>m, <1>t DEF Accept, Early, GenSteps
<1>8. CASE Supersede(s, g) \/ Close(s, g)
  BY <1>8, <1>m, <1>n, <1>b DEF Supersede, Close, Early, GenSteps
<1>9. CASE s = "audio" /\ (Silence(g) \/ Discard(g))
  BY <1>9, <1>m, <1>n DEF Silence, Discard, Early, GenSteps
<1>10. CASE Claim(s, g)
  <2>1. mishaps \subseteq mishaps'
    BY <1>10, MishapType DEF Claim, Mishaps
  <2> QED
    BY <1>10, <2>1, <1>m, <1>n, <1>b DEF Claim, Early, GenSteps
<1>11. CASE s = "audio" /\ (Play(g) \/ Build(g) \/ Unplay(g))
  BY <1>11, <1>m, <1>n DEF Play, Build, Unplay, Early, GenSteps
<1>12. CASE Unflag(s, g) \/ Hear(s, g) \/ Ask(s, g)
  BY <1>12, <1>m, <1>n, <1>b DEF Unflag, Hear, Ask, Ending, Early, GenSteps
<1>13. CASE Open(s, g) \/ Forget(s, g) \/ Clear(s, g)
  BY <1>13, <1>m, <1>n, <1>b DEF Open, Forget, Clear, AfterForget, Ending, Early, GenSteps
<1>14. CASE s = "audio" /\ Create(g)
  <2>1. mishaps \subseteq mishaps'
    BY <1>14, MishapType DEF Create, Mishaps
  <2> QED
    BY <1>14, <2>1, <1>m, <1>n DEF Create, Early, GenSteps
<1>15. CASE Report(s, g)
  BY <1>15, <1>m, <1>n DEF Report, Early, GenSteps
<1>16. CASE After(s, g)
  <2>1. /\ mishaps \subseteq mishaps' /\ pc[s][g] = "after"
        /\ UNCHANGED <<listener, bound, on>>
    BY <1>16, MishapType DEF After, Mishaps
  <2>2. CASE thrown[s][g] \in {"no", "other"}
    BY <1>16, <2>1, <2>2, <1>m, <1>n DEF After, Early, GenSteps
  <2>3. CASE thrown[s][g] \notin {"no", "other"}
    <3>1. GoTo(s, g, "done") /\ "done" \in GenSteps /\ Mishap(s, "end", ~cancelled[s][g])
      BY <1>16, <2>3 DEF After, GenSteps
    <3>2. pc'[s][g] = "done" /\ cancelled'[s][g] = FALSE
      BY <1>0, <3>1
    <3>3. GenOk(s, g)'
      BY <1>s, <2>1, <3>2 DEF Sockets, GenOk
    <3>4. SocketOk(s, g)'
      BY <1>s, <1>a, <2>1, <3>2 DEF Sockets, SocketOk, Unharmed
    <3>5. LoopOk(s, g)'
      <4>1. Unharmed(s, {"bind", "end"})' => Unharmed(s, {"bind", "end"}) /\ cancelled[s][g]
        BY <3>1 DEF Unharmed, Mishap
      <4> QED
        BY <1>s, <2>1, <4>1 DEF Sockets, LoopOk
    <3> QED
      BY <1>o, <1>n, <2>1, <3>1, <3>3, <3>4, <3>5 DEF Sockets
  <2> QED
    BY <2>2, <2>3
<1> QED
  BY <1>1, <1>2, <1>3, <1>4, <1>5, <1>6, <1>7, <1>8, <1>9, <1>10, <1>11, <1>12, <1>13,
     <1>14, <1>15, <1>16 DEF GenStep

Passing == {"clearListener", "cancelJob", "clearJob", "cancelScope"}

LEMMA AccessPasses ==
  ASSUME Types, NEW t \in Stoppers, NEW s \in Servers, NEW from, NEW to \in Lines,
         Access(t, s, from, to), Goes \/ (to = "setFlag" /\ Returns(t)),
         from \in Passing \/ to \notin Passing,
         NEW r \in Servers, ListenerPassed(r)'
  PROVE  ListenerPassed(r)
<1>1. StopsAt(r, Passing)' /\ "setFlag" \notin Passing
  BY DEF ListenerPassed, Passing
<1>2. StopsAt(r, Passing) \/ (r = s /\ to \in Passing)
  BY <1>1, AccessStops
<1>3. from \in Passing => StopsAt(s, Passing)
  BY DEF Access, StopsAt
<1> QED
  BY <1>2, <1>3 DEF ListenerPassed, Passing

(* A job or a scope is cancelled after the listener was looked for.        *)
LEMMA CancelKeepsSockets ==
  ASSUME Types, SocketInv, NEW s \in Servers, NEW group, Cancel(s, group),
         ListenerPassed(s), UNCHANGED <<listener, bound, pc, on>>,
         \A r \in Servers : ListenerPassed(r)' => ListenerPassed(r)
  PROVE  SocketInv'
<1>1. /\ mishaps \subseteq mishaps'
      /\ \A r \in Servers, h \in Gens :
           cancelled'[r][h] <=> cancelled[r][h]
                                \/ (r = s /\ h \in group /\ pc[s][h] # "done")
      /\ cancelled' \in [Servers -> [Gens -> BOOLEAN]]
  BY CancelType
<1>2. ASSUME NEW h \in Gens, Unharmed(s, {"bind"})', pc[s][h] \in {"binding", "storing"}
      PROVE  h \notin group
  BY <1>2 DEF Cancel, Mishap, Unharmed
<1>3. ASSUME NEW h \in Gens PROVE Sockets(s, h)'
  <2>1. Sockets(s, h) /\ cancelled[s][h] \in BOOLEAN
    BY DEF SocketInv, Types
  <2>2. GenOk(s, h)'
    BY <1>1, <2>1 DEF Sockets, GenOk
  <2>3. SocketOk(s, h)'
    BY <1>1, <1>2, <2>1 DEF Sockets, SocketOk, Unharmed
  <2>4. LoopOk(s, h)'
    <3>1. Unharmed(s, {"bind", "end"})' =>
            Unharmed(s, {"bind", "end"}) /\ Unharmed(s, {"bind"})'
      BY <1>1 DEF Unharmed
    <3>2. Unharmed(s, {"bind", "end"})' /\ bound[s][h] => pc[s][h] = "storing"
      BY <1>1, <2>1, <3>1 DEF Sockets, SocketOk, Unharmed
    <3> QED
      BY <1>1, <1>2, <2>1, <3>1, <3>2 DEF Sockets, LoopOk
  <2> QED
    BY <2>2, <2>3, <2>4 DEF Sockets
<1>4. ASSUME NEW r \in Servers \ {s}, NEW h \in Gens PROVE Sockets(r, h)'
  <2>1. cancelled'[r][h] = cancelled[r][h]
    BY <1>4 DEF Cancel, Types
  <2> QED
    BY <1>1, <1>4, <2>1, SocketFrame DEF SocketInv
<1> QED
  BY <1>3, <1>4 DEF SocketInv

LEMMA StepKeepsSockets ==
  ASSUME Types, LineInv, SocketInv, NEW t \in Stoppers, NEW s \in Servers, Step(t, s)
  PROVE  SocketInv'
<1>c. ASSUME mishaps \subseteq mishaps', UNCHANGED <<listener, bound, pc, cancelled, on>>,
             \A r \in Servers : ListenerPassed(r)' => ListenerPassed(r)
      PROVE  SocketInv'
  BY <1>c, SocketFrame DEF SocketInv
<1>d. ASSUME NEW from, NEW to \in Lines, NEW q \in Servers,
             Access(t, q, from, to), Goes \/ (to = "setFlag" /\ Returns(t)),
             from \in Passing \/ to \notin Passing,
             mishaps \subseteq mishaps', UNCHANGED <<listener, bound, pc, cancelled, on>>
      PROVE  SocketInv'
  <2>1. ASSUME NEW r \in Servers, ListenerPassed(r)' PROVE ListenerPassed(r)
    BY <1>d, <2>1, AccessPasses
  <2> QED
    BY <1>c, <1>d, <2>1
<1> USE DEF Lines, serverVars, genVars
<1>1. CASE Skip(t, s)
  <2>1. ASSUME NEW r \in Servers, ListenerPassed(r)' PROVE ListenerPassed(r)
    <3>1. StopsAt(r, Passing)' /\ "setFlag" \notin Passing
      BY <2>1 DEF ListenerPassed, Passing
    <3> QED
      BY <1>1, <3>1, SkipStops DEF ListenerPassed, Passing
  <2> QED
    BY <1>1, <1>c, <2>1 DEF Skip
<1>2. CASE SetFlag(t, s)
  BY <1>2, <1>d DEF SetFlag, Passing
<1>3. CASE StopClient(t, s)
  BY <1>3, <1>d DEF StopClient, Passing
<1>4. CASE ClearClient(t, s)
  BY <1>4, <1>d DEF ClearClient, Passing
<1>5. CASE s = "audio" /\ (StopPlayback(t) \/ StopTrack(t) \/ ClearOutput(t))
  BY <1>5, <1>d DEF StopPlayback, StopTrack, ClearOutput, Passing
<1>6. CASE CloseListener(t, s)
  <2>1. /\ UNCHANGED <<listener, pc, cancelled, on, mishaps>>
        /\ Access(t, s, "closeListener", "clearListener") /\ Goes
    BY <1>6 DEF CloseListener
  <2>2. /\ \A g \in Gens : bound'[s][g] <=> g # listener[s] /\ bound[s][g]
        /\ \A r \in Servers \ {s} : bound'[r] = bound[r]
    BY <1>6 DEF CloseListener, Types
  <2>3. ASSUME NEW g \in Gens PROVE Sockets(s, g)'
    <3>1. Sockets(s, g)
      BY DEF SocketInv
    <3>2. GenOk(s, g)'
      BY <2>1, <2>2, <3>1 DEF Sockets, GenOk
    <3>3. SocketOk(s, g)'
      BY <2>1, <2>2, <3>1 DEF Sockets, SocketOk, Unharmed
    <3>4. LoopOk(s, g)'
      BY <2>1, <2>2, <3>1 DEF Sockets, LoopOk, Unharmed
    <3> QED
      BY <3>2, <3>3, <3>4 DEF Sockets
  <2>4. ASSUME NEW r \in Servers \ {s}, NEW g \in Gens PROVE Sockets(r, g)'
    <3>1. ListenerPassed(r)' => ListenerPassed(r)
      <4>1. ASSUME StopsAt(r, Passing)' PROVE StopsAt(r, Passing)
        BY <2>1, <4>1, AccessStops DEF Passing
      <4> QED
        BY <4>1 DEF ListenerPassed, Passing
    <3> QED
      BY <2>1, <2>2, <3>1, SocketFrame DEF SocketInv
  <2> QED
    BY <2>3, <2>4 DEF SocketInv
<1>7. CASE ClearListener(t, s)
  <2>1. /\ UNCHANGED <<bound, pc, cancelled, on, mishaps>>
        /\ Access(t, s, "clearListener", "cancelJob") /\ Goes
        /\ listener' = [listener EXCEPT ![s] = None]
    BY <1>7 DEF ClearListener
  <2>2. \A r \in Servers : ListenerPassed(r)' => ListenerPassed(r)
    BY <2>1, AccessPasses DEF Passing
  <2>3. listener'[s] = None /\ \A r \in Servers \ {s} : listener'[r] = listener[r]
    BY <2>1 DEF Types
  <2>4. ListenerPassed(s)
    BY <2>1 DEF Access, ListenerPassed, StopsAt
  <2>5. ASSUME NEW g \in Gens PROVE Sockets(s, g)'
    <3>1. Sockets(s, g) /\ g # None
      BY ReceiverAssumption DEF SocketInv
    <3>2. GenOk(s, g)'
      BY <2>1, <2>3, <3>1 DEF Sockets, GenOk
    <3>3. SocketOk(s, g)'
      BY <2>1, <2>4, <3>1 DEF Sockets, SocketOk, Unharmed
    <3>4. LoopOk(s, g)'
      BY <2>1, <3>1 DEF Sockets, LoopOk, Unharmed
    <3> QED
      BY <3>2, <3>3, <3>4 DEF Sockets
  <2>6. ASSUME NEW r \in Servers \ {s}, NEW g \in Gens PROVE Sockets(r, g)'
    BY <2>1, <2>2, <2>3, SocketFrame DEF SocketInv
  <2> QED
    BY <2>5, <2>6 DEF SocketInv
<1>8. CASE CancelJob(t, s)
  <2>1. /\ Access(t, s, "cancelJob", "clearJob") /\ Goes
        /\ Cancel(s, {g \in Gens : g = job[s]}) /\ UNCHANGED <<listener, bound, pc, on>>
    BY <1>8 DEF CancelJob
  <2>2. ListenerPassed(s)
    BY <2>1 DEF Access, ListenerPassed, StopsAt
  <2>3. \A r \in Servers : ListenerPassed(r)' => ListenerPassed(r)
    BY <2>1, AccessPasses DEF Passing
  <2> QED
    BY <2>1, <2>2, <2>3, CancelKeepsSockets
<1>9. CASE ClearJob(t, s)
  BY <1>9, <1>d DEF ClearJob, Passing
<1>10. CASE CancelScope(t, s)
  <2>1. /\ Access(t, s, "cancelScope", "clearScope") /\ Goes
        /\ Cancel(s, {g \in Gens : child[s][g]}) /\ UNCHANGED <<listener, bound, pc, on>>
    BY <1>10 DEF CancelScope
  <2>2. ListenerPassed(s)
    BY <2>1 DEF Access, ListenerPassed, StopsAt
  <2>3. \A r \in Servers : ListenerPassed(r)' => ListenerPassed(r)
    BY <2>1, AccessPasses DEF Passing
  <2> QED
    BY <2>1, <2>2, <2>3, CancelKeepsSockets
<1>11. CASE ClearScope(t, s)
  BY <1>11, <1>d DEF ClearScope, Passing
<1>12. CASE ClearFlag(t, s)
  BY <1>12, <1>d DEF ClearFlag, Passing
<1>13. CASE NewScope(t, s)
  BY <1>13, <1>d DEF NewScope, Passing
<1>14. CASE Launch(t, s)
  <2>1. /\ UNCHANGED <<listener, bound, cancelled, on, mishaps>>
        /\ Access(t, s, "launch", "storeJob") /\ Goes
    BY <1>14 DEF Launch
  <2>2. \A r \in Servers : ListenerPassed(r)' => ListenerPassed(r)
    BY <2>1, AccessPasses DEF Passing
  <2>3. CASE pc' = pc
    BY <2>1, <2>2, <2>3, <1>c
  <2>4. CASE pc' # pc
    <3>1. PICK g \in Gens : Launched(t, s, g)
      BY <1>14, <2>4, LaunchMoves
    <3>2. /\ pc'[s][g] = "launched" /\ pc[s][g] = "done" /\ ~bound[s][g]
          /\ listener[s] # g
          /\ \A r \in Servers, h \in Gens : ~(r = s /\ h = g) => pc'[r][h] = pc[r][h]
      BY <3>1 DEF Launched, Unused
    <3>3. Sockets(s, g)'
      <4>1. Sockets(s, g)
        BY DEF SocketInv
      <4> QED
        BY <2>1, <3>2, <4>1 DEF Sockets, GenOk, SocketOk, LoopOk, Unharmed
    <3>4. ASSUME NEW r \in Servers, NEW h \in Gens, ~(r = s /\ h = g) PROVE Sockets(r, h)'
      BY <2>1, <2>2, <3>2, <3>4, SocketFrame DEF SocketInv
    <3> QED
      BY <3>3, <3>4 DEF SocketInv
  <2> QED
    BY <2>3, <2>4
<1>15. CASE StoreJob(t, s)
  BY <1>15, <1>d DEF StoreJob, Passing
<1> QED
  BY <1>1, <1>2, <1>3, <1>4, <1>5, <1>6, <1>7, <1>8, <1>9, <1>10, <1>11, <1>12, <1>13,
     <1>14, <1>15 DEF Step

LEMMA NextKeepsSockets == Types /\ LineInv /\ SocketInv /\ [Next]_vars => SocketInv'
<1>1. ASSUME Types, LineInv, SocketInv, Others \/ UNCHANGED vars
      PROVE  SocketInv'
  <2>1. \A r \in Servers : ListenerPassed(r)' => ListenerPassed(r)
    BY <1>1, RestPasses
  <2> QED
    BY <1>1, <2>1, OthersMove, SocketFrame DEF SocketInv, Early
<1> QED
  BY <1>1, NextCases, GenStepKeepsSockets, StepKeepsSockets

-----------------------------------------------------------------------------
(* What a start() owes.                                                    *)

(* A stopper on its way to a start() of server s, before the lines given.  *)
Begun(t, s, lines) ==
    IF t = "recycle"
    THEN \/ step \in {"stopAudio", "stopControl"}
         \/ step = "startControl" /\ (s = "audio" \/ line[t] \notin lines)
         \/ step = "startAudio" /\ s = "audio" /\ line[t] \notin lines
    ELSE \/ main = "startControl" /\ (s = "audio" \/ line[t] \notin lines)
         \/ main = "startAudio" /\ s = "audio" /\ line[t] \notin lines

Unlaunched(s) == \E t \in Stoppers : Begun(t, s, {"launch", "storeJob"})

(* A scope that is not active is about to be replaced; a server is about   *)
(* to be launched, or has a generation before its bind or an open socket.  *)
ScopeOk(s) == scope[s] # "active" => Unlaunched(s)

UpOk(s) == \/ \E t \in Stoppers : Begun(t, s, {"storeJob"})
           \/ \E g \in Gens : \/ pc[s][g] \in {"launched", "binding"} /\ ~cancelled[s][g]
                              \/ bound[s][g]

UpInv == \A s \in scene.servers : ScopeOk(s) /\ UpOk(s)

LEMMA RestBegun ==
  ASSUME Types,
         \/ \E s \in Servers, g \in Gens : GenStep(s, g)
         \/ Others \/ UNCHANGED vars,
         NEW t \in Stoppers, NEW s \in Servers, NEW L, Begun(t, s, L)
  PROVE  Begun(t, s, L)'
  BY RestCalls DEF Begun

LEMMA HereBegun ==
  ASSUME Types, NEW t \in Stoppers, NEW s \in Servers, NEW from, NEW to,
         Access(t, s, from, to), Goes, NEW L, to \notin L
  PROVE  Begun(t, s, L)'
<1>1. /\ Busy(t, s) /\ line'[t] = to /\ UNCHANGED <<main, step>>
      /\ main \notin {"stopAudio", "stopControl"}
  BY DEF Access, Types, Goes, MainSteps
<1>2. t = "recycle" \/ t = "restart"
  BY DEF Stoppers
<1>3. s = "audio" \/ s = "control"
  BY DEF Servers
<1> QED
  BY <1>1, <1>2, <1>3 DEF Busy, Call, Begun

(* Only by passing its lines, or by returning from them, is a start()      *)
(* under way over.                                                         *)
LEMMA AccessBegun ==
  ASSUME Types, NEW t \in Stoppers, NEW s \in Servers, NEW from, NEW to,
         Access(t, s, from, to), NEW L, "setFlag" \notin L,
         \/ Goes /\ (from \in L \/ to \notin L)
         \/ Returns(t) /\ to = "setFlag" /\ (from \in L \/ ~Starts(t)),
         NEW u \in Stoppers, NEW r \in Servers, Begun(u, r, L)
  PROVE  Begun(u, r, L)'
<1>1. /\ Busy(t, s) /\ line[t] = from /\ line'[t] = to
      /\ \A v \in Stoppers \ {t} : line'[v] = line[v]
  BY DEF Access, Types
<1>2. (t = "recycle" \/ t = "restart") /\ (u = "recycle" \/ u = "restart")
  BY DEF Stoppers
<1>3. (s = "audio" \/ s = "control") /\ (r = "audio" \/ r = "control")
  BY DEF Servers
<1>4. CASE u # t
  BY <1>1, <1>2, <1>4 DEF Begun, Goes, Returns
<1>5. CASE u = t /\ Goes
  BY <1>1, <1>2, <1>3, <1>5 DEF Begun, Goes, Busy, Call
<1>6. CASE u = t /\ Returns(t) /\ t = "recycle" /\ ~Goes
  BY <1>1, <1>3, <1>6 DEF Begun, Returns, Busy, Call, Starts
<1>7. CASE u = t /\ Returns(t) /\ t = "restart" /\ ~Goes
  BY <1>1, <1>3, <1>7 DEF Begun, Returns, Busy, Call, Starts
<1> QED
  BY <1>2, <1>4, <1>5, <1>6, <1>7

LEMMA ElsewhereBegun ==
  ASSUME Types, NEW t \in Stoppers, NEW s \in Servers, NEW from, NEW to,
         Access(t, s, from, to), Goes,
         NEW L, NEW u \in Stoppers, NEW r \in Servers, r # s, Begun(u, r, L)
  PROVE  Begun(u, r, L)'
<1>1. /\ Busy(t, s) /\ UNCHANGED <<main, step>>
      /\ \A v \in Stoppers \ {t} : line'[v] = line[v]
  BY DEF Access, Types, Goes
<1>2. (t = "recycle" \/ t = "restart") /\ (u = "recycle" \/ u = "restart")
  BY DEF Stoppers
<1>3. (s = "audio" \/ s = "control") /\ (r = "audio" \/ r = "control")
  BY DEF Servers
<1>4. CASE u # t
  BY <1>1, <1>4 DEF Begun
<1>5. CASE u = t
  BY <1>1, <1>2, <1>3, <1>5 DEF Begun, Busy, Call
<1> QED
  BY <1>4, <1>5

LEMMA SkipBegun ==
  ASSUME Types, LineInv, NEW t \in Stoppers, NEW s \in Servers, Skip(t, s),
         NEW L, "setFlag" \notin L, NEW u \in Stoppers, NEW r \in scene.servers,
         Begun(u, r, L)
  PROVE  Begun(u, r, L)'
<1>1. line' = line /\ Busy(t, s) /\ s \notin scene.servers /\ Returns(t)
  BY DEF Skip, callVars
<1>2. line[t] = "setFlag"
  BY <1>1, BusyOnce, SceneServers DEF LineInv, SceneType
<1>3. r # s /\ r \in Servers
  BY <1>1, SceneServers DEF SceneType
<1>4. (t = "recycle" \/ t = "restart") /\ (u = "recycle" \/ u = "restart")
  BY DEF Stoppers
<1>5. (s = "audio" \/ s = "control") /\ (r = "audio" \/ r = "control")
  BY <1>3 DEF Servers
<1>6. CASE u # t
  BY <1>1, <1>4, <1>6 DEF Begun, Returns
<1>7. CASE u = t /\ t = "recycle"
  BY <1>1, <1>2, <1>3, <1>5, <1>7 DEF Begun, Returns, Busy, Call
<1>8. CASE u = t /\ t = "restart"
  BY <1>1, <1>2, <1>3, <1>5, <1>8 DEF Begun, Returns, Busy, Call
<1> QED
  BY <1>4, <1>6, <1>7, <1>8

-----------------------------------------------------------------------------
LEMMA GenStepKeepsUp ==
  ASSUME Types, UpInv, NEW s \in Servers, NEW g \in Gens, GenStep(s, g)
  PROVE  UpInv'
<1>a. \A t \in Stoppers, r \in Servers : \A L : Begun(t, r, L) => Begun(t, r, L)'
  BY RestBegun
<1>b. s = "audio" \/ s = "control"
  BY DEF Servers
<1>c. scene' = scene /\ scope' = scope
  <2>1. scene' = scene
    BY RestCalls
  <2>2. scope' = scope
    BY DEF GenStep, Dispatch, Bind, Store, Loop, Fetch, AcceptFails, Accept, Supersede,
       Silence, Discard, Claim, Play, Unflag, Open, Build, Create, Hear, Unplay, Close,
       Forget, Clear, Ask, Report, After, serverVars
  <2> QED
    BY <2>1, <2>2
<1>0. ASSUME NEW p \in GenSteps, GoTo(s, g, p)
      PROVE  /\ pc'[s][g] = p
             /\ p # "done" => (cancelled'[s][g] <=> cancelled[s][g])
             /\ \A r \in Servers, h \in Gens : ~(r = s /\ h = g) =>
                  pc'[r][h] = pc[r][h] /\ cancelled'[r][h] = cancelled[r][h]
  BY <1>0, GoToTypes
<1>d. ASSUME \A r \in Servers : UpOk(r) => UpOk(r)' PROVE UpInv'
  BY <1>a, <1>c, <1>d, SceneServers DEF UpInv, ScopeOk, Unlaunched, SceneType
<1>1. ASSUME bound' = bound, NEW p \in GenSteps, GoTo(s, g, p),
             pc[s][g] \notin {"launched", "binding"}
      PROVE  UpInv'
  BY <1>a, <1>0, <1>1, <1>d DEF UpOk
<1>2. CASE Dispatch(s, g)
  <2>1. CASE cancelled[s][g]
    <3>1. GoTo(s, g, "done") /\ "done" \in GenSteps /\ bound' = bound
      BY <1>2, <2>1 DEF Dispatch, GenSteps
    <3> QED
      BY <1>a, <1>0, <2>1, <3>1, <1>d DEF UpOk
  <2>2. CASE ~cancelled[s][g]
    <3>1. GoTo(s, g, "binding") /\ "binding" \in GenSteps /\ bound' = bound
      BY <1>2, <2>2 DEF Dispatch, GenSteps
    <3> QED
      BY <1>a, <1>0, <2>2, <3>1, <1>d DEF UpOk
  <2> QED
    BY <2>1, <2>2
<1>3. CASE Bind(s, g)
  <2>1. \A r \in Servers \ {s}, h \in Gens : /\ pc'[r][h] = pc[r][h]
                                             /\ cancelled'[r][h] = cancelled[r][h]
                                             /\ bound'[r][h] = bound[r][h]
    BY <1>3, <1>0 DEF Bind, Set, Types, GenSteps
  <2>2. \E h \in Gens : bound'[s][h]
    BY <1>3 DEF Bind, Set, Types
  <2> QED
    BY <1>a, <2>1, <2>2, <1>d DEF UpOk
<1>4. CASE Store(s, g) \/ Loop(s, g) \/ Fetch(s, g) \/ AcceptFails(s, g) \/ Accept(s, g)
  BY <1>4, <1>1 DEF Store, Loop, Fetch, AcceptFails, Accept, GenSteps
<1>5. CASE Supersede(s, g) \/ Claim(s, g) \/ Unflag(s, g) \/ Open(s, g)
  BY <1>5, <1>b, <1>1 DEF Supersede, Claim, Unflag, Open, Ending, GenSteps
<1>6. CASE s = "audio" /\ (Silence(g) \/ Discard(g) \/ Play(g))
  BY <1>6, <1>1 DEF Silence, Discard, Play, GenSteps
<1>7. CASE s = "audio" /\ (Build(g) \/ Create(g) \/ Unplay(g))
  BY <1>7, <1>1 DEF Build, Create, Unplay, GenSteps
<1>8. CASE Hear(s, g) \/ Close(s, g) \/ Forget(s, g) \/ Clear(s, g)
  BY <1>8, <1>b, <1>1 DEF Hear, Close, Forget, Clear, Ending, AfterForget, GenSteps
<1>9. CASE Ask(s, g) \/ Report(s, g) \/ After(s, g)
  BY <1>9, <1>1 DEF Ask, Report, After, GenSteps
<1> QED
  BY <1>2, <1>3, <1>4, <1>5, <1>6, <1>7, <1>8, <1>9 DEF GenStep

LEMMA StepKeepsUp ==
  ASSUME Types, LineInv, SocketInv, UpInv, NEW t \in Stoppers, NEW s \in Servers,
         Step(t, s)
  PROVE  UpInv'
<1> DEFINE LS == {"launch", "storeJob"}
           Kept(L) == \A u \in Stoppers, r \in scene.servers : Begun(u, r, L) => Begun(u, r, L)'
<1>a. scene.servers \subseteq Servers
  BY SceneServers DEF SceneType
<1>c. ASSUME Kept(LS), Kept({"storeJob"}), UNCHANGED <<scene, scope, pc, cancelled, bound>>
      PROVE  UpInv'
  BY <1>c DEF UpInv, ScopeOk, Unlaunched, UpOk
<1>d. ASSUME NEW from, NEW to \in Lines, NEW q \in Servers, Access(t, q, from, to),
             \/ Goes /\ to \notin LS
             \/ Returns(t) /\ to = "setFlag" /\ from = "storeJob"
      PROVE  Kept(LS) /\ Kept({"storeJob"}) /\ scene' = scene
  <2>1. scene' = scene
    BY <1>d DEF Access
  <2>2. Kept(LS)
    BY <1>a, <1>d, AccessBegun
  <2>3. Kept({"storeJob"})
    BY <1>a, <1>d, AccessBegun
  <2> QED
    BY <2>1, <2>2, <2>3
(* The steps after which t itself is on its way to the start() of s. *)
<1>e. ASSUME NEW from, NEW to \in Lines \ LS, Access(t, s, from, to), Goes,
             scope' = scope \/ \A r \in Servers \ {s} : scope'[r] = scope[r],
             \A r \in Servers \ {s}, h \in Gens :
               /\ pc'[r][h] = pc[r][h] /\ cancelled'[r][h] = cancelled[r][h]
               /\ bound'[r][h] = bound[r][h]
      PROVE  UpInv'
  <2>1. Begun(t, s, LS)' /\ Begun(t, s, {"storeJob"})'
    BY <1>e, HereBegun
  <2>2. Kept(LS) /\ Kept({"storeJob"}) /\ scene' = scene
    BY <1>d, <1>e
  <2>3. ScopeOk(s)' /\ UpOk(s)'
    BY <2>1 DEF ScopeOk, Unlaunched, UpOk
  <2>4. ASSUME NEW r \in scene.servers, r # s PROVE ScopeOk(r)' /\ UpOk(r)'
    <3>1. ScopeOk(r) /\ UpOk(r) /\ r \in Servers \ {s}
      BY <1>a, <2>4 DEF UpInv
    <3>2. scope'[r] = scope[r]
      BY <1>e, <3>1
    <3>3. ScopeOk(r)'
      BY <2>2, <3>1, <3>2 DEF ScopeOk, Unlaunched
    <3>4. UpOk(r)'
      BY <1>e, <2>2, <3>1 DEF UpOk
    <3> QED
      BY <3>3, <3>4
  <2> QED
    BY <2>2, <2>3, <2>4 DEF UpInv
<1> HIDE DEF Kept
<1> USE DEF Lines, serverVars, genVars
<1>1. CASE Skip(t, s)
  <2>1. Kept(LS) /\ Kept({"storeJob"})
    BY <1>1, SkipBegun DEF Kept
  <2> QED
    BY <1>1, <1>c, <2>1 DEF Skip
<1>2. CASE SetFlag(t, s)
  BY <1>2, <1>c, <1>d DEF SetFlag
<1>3. CASE StopClient(t, s) \/ ClearClient(t, s)
  BY <1>3, <1>c, <1>d DEF StopClient, ClearClient
<1>4. CASE s = "audio" /\ (StopPlayback(t) \/ StopTrack(t) \/ ClearOutput(t))
  BY <1>4, <1>c, <1>d DEF StopPlayback, StopTrack, ClearOutput
<1>5. CASE CloseListener(t, s)
  <2>1. /\ Access(t, s, "closeListener", "clearListener") /\ Goes
        /\ UNCHANGED <<scope, pc, cancelled>>
        /\ \A r \in Servers \ {s} : bound'[r] = bound[r]
    BY <1>5 DEF CloseListener, Types
  <2> QED
    BY <1>e, <2>1
<1>6. CASE ClearListener(t, s) \/ ClearJob(t, s) \/ ClearFlag(t, s)
  BY <1>6, <1>c, <1>d DEF ClearListener, ClearJob, ClearFlag
<1>7. CASE CancelJob(t, s)
  <2>1. /\ Access(t, s, "cancelJob", "clearJob") /\ Goes
        /\ UNCHANGED <<scope, pc, bound>>
        /\ \A r \in Servers \ {s} : cancelled'[r] = cancelled[r]
    BY <1>7 DEF CancelJob, Cancel, Types
  <2> QED
    BY <1>e, <2>1
<1>8. CASE CancelScope(t, s)
  <2>1. /\ Access(t, s, "cancelScope", "clearScope") /\ Goes
        /\ UNCHANGED <<pc, bound>>
        /\ \A r \in Servers \ {s} : cancelled'[r] = cancelled[r] /\ scope'[r] = scope[r]
    BY <1>8 DEF CancelScope, Cancel, Types
  <2> QED
    BY <1>e, <2>1
<1>9. CASE ClearScope(t, s) /\ Starts(t)
  <2>1. /\ Access(t, s, "clearScope", "clearFlag") /\ Goes
        /\ UNCHANGED <<pc, cancelled, bound>>
        /\ \A r \in Servers \ {s} : scope'[r] = scope[r]
    BY <1>9 DEF ClearScope, Types
  <2> QED
    BY <1>e, <2>1
<1>10. CASE ClearScope(t, s) /\ ~Starts(t)
  <2>1. /\ Access(t, s, "clearScope", "setFlag") /\ Returns(t)
        /\ UNCHANGED <<pc, cancelled, bound, scene>>
        /\ \A r \in Servers \ {s} : scope'[r] = scope[r]
    BY <1>10 DEF ClearScope, Access, Types
  <2>2. Kept(LS) /\ Kept({"storeJob"})
    BY <1>a, <1>10, <2>1, AccessBegun DEF Kept
  <2>3. Begun(t, s, LS)'
    <3>1. Call(t) \in {"stopAudio", "stopControl"} /\ t = "recycle" /\ line'[t] = "setFlag"
      <4>1. Busy(t, s) /\ line'[t] = "setFlag"
        BY <2>1 DEF Access, Types
      <4> QED
        <5>1. Call(t) \in {"stopAudio", "stopControl"}
          BY <1>10, <4>1 DEF Busy, Starts, Servers
        <5>2. main \notin {"stopAudio", "stopControl"}
          BY DEF Types, MainSteps
        <5> QED
          BY <4>1, <5>1, <5>2 DEF Call, Stoppers
    <3>2. step \in {"stopAudio", "stopControl"}
      BY <3>1 DEF Call
    <3> QED
      BY <2>1, <3>1, <3>2 DEF Begun, Returns
  <2>4. ASSUME NEW r \in scene.servers PROVE ScopeOk(r)' /\ UpOk(r)'
    <3>1. ScopeOk(r) /\ UpOk(r) /\ r \in Servers
      BY <1>a DEF UpInv
    <3>2. UpOk(r)'
      BY <2>1, <2>2, <3>1 DEF UpOk, Kept
    <3>3. CASE r = s
      BY <2>3, <3>2, <3>3 DEF ScopeOk, Unlaunched
    <3>4. CASE r # s
      BY <2>1, <2>2, <3>1, <3>2, <3>4 DEF ScopeOk, Unlaunched, Kept
    <3> QED
      BY <3>3, <3>4
  <2> QED
    BY <2>1, <2>4 DEF UpInv
<1>11. CASE NewScope(t, s)
  <2>1. /\ Access(t, s, "newScope", "launch") /\ Goes
        /\ UNCHANGED <<pc, cancelled, bound, scene>>
        /\ scope'[s] = "active" /\ \A r \in Servers \ {s} : scope'[r] = scope[r]
    BY <1>11 DEF NewScope, Access, Types
  <2>2. Kept({"storeJob"})
    BY <1>a, <2>1, AccessBegun DEF Kept
  <2>3. ASSUME NEW r \in scene.servers, r # s, Unlaunched(r) PROVE Unlaunched(r)'
    <3>1. PICK u \in Stoppers : Begun(u, r, LS)
      BY <2>3 DEF Unlaunched
    <3>2. Begun(u, r, LS)'
      BY <1>a, <2>1, <2>3, <3>1, ElsewhereBegun
    <3> QED
      BY <3>2 DEF Unlaunched
  <2>4. ASSUME NEW r \in scene.servers PROVE ScopeOk(r)' /\ UpOk(r)'
    <3>1. ScopeOk(r) /\ UpOk(r) /\ r \in Servers
      BY <1>a DEF UpInv
    <3>2. UpOk(r)'
      BY <2>1, <2>2, <3>1 DEF UpOk, Kept
    <3>3. ScopeOk(r)'
      BY <2>1, <2>3, <3>1 DEF ScopeOk
    <3> QED
      BY <3>2, <3>3
  <2> QED
    BY <2>1, <2>4 DEF UpInv
<1>12. CASE Launch(t, s)
  <2>1. /\ Access(t, s, "launch", "storeJob") /\ Goes
        /\ UNCHANGED <<scope, cancelled, bound, scene>>
    BY <1>12 DEF Launch, Access
  <2>2. Kept(LS)
    BY <1>a, <2>1, AccessBegun DEF Kept
  <2>3. ASSUME NEW r \in scene.servers PROVE ScopeOk(r)'
    BY <2>1, <2>2 DEF UpInv, ScopeOk, Unlaunched, Kept
  <2>4. ASSUME NEW u \in Stoppers, NEW r \in Servers, Begun(u, r, LS)
        PROVE  Begun(u, r, {"storeJob"})
    BY <2>4 DEF Begun
  <2>5. ASSUME NEW r \in scene.servers, Unlaunched(r) PROVE UpOk(r)'
    <3>1. PICK u \in Stoppers : Begun(u, r, LS)
      BY <2>5 DEF Unlaunched
    <3>2. Begun(u, r, LS)'
      BY <2>2, <3>1 DEF Kept
    <3>3. Begun(u, r, {"storeJob"})'
      BY <3>2 DEF Begun
    <3> QED
      BY <3>3 DEF UpOk
  <2>6. CASE pc' = pc
    <3>1. scope[s] # "active"
      <4>1. ASSUME NEW g \in Gens, Launched(t, s, g) PROVE FALSE
        BY <2>6, <4>1 DEF Launched, Unused
      <4> QED
        BY <1>12, <4>1, LaunchMoves
    <3>2. ASSUME NEW r \in scene.servers, r # s PROVE UpOk(r)'
      <4>1. UpOk(r) /\ r \in Servers
        BY <1>a DEF UpInv
      <4>2. ASSUME NEW u \in Stoppers, Begun(u, r, {"storeJob"})
            PROVE  Begun(u, r, {"storeJob"})'
        BY <1>a, <2>1, <3>2, <4>2, ElsewhereBegun
      <4> QED
        BY <2>1, <2>6, <4>1, <4>2 DEF UpOk
    <3>3. ASSUME NEW r \in scene.servers, r = s PROVE UpOk(r)'
      BY <2>5, <3>1, <3>3 DEF UpInv, ScopeOk
    <3> QED
      BY <2>1, <2>3, <3>2, <3>3 DEF UpInv
  <2>7. CASE pc' # pc
    <3>1. PICK g \in Gens : Launched(t, s, g)
      BY <1>12, <2>7, LaunchMoves
    <3>2. pc'[s][g] = "launched" /\ ~cancelled'[s][g]
      BY <2>1, <3>1 DEF Launched, Unused, SocketInv, Sockets, GenOk
    <3>3. ASSUME NEW r \in scene.servers, r # s PROVE UpOk(r)'
      <4>1. UpOk(r) /\ r \in Servers
        BY <1>a DEF UpInv
      <4>2. \A h \in Gens : pc'[r][h] = pc[r][h]
        BY <3>1, <3>3, <4>1 DEF Launched
      <4>3. ASSUME NEW u \in Stoppers, Begun(u, r, {"storeJob"})
            PROVE  Begun(u, r, {"storeJob"})'
        BY <1>a, <2>1, <3>3, <4>3, ElsewhereBegun
      <4> QED
        BY <2>1, <4>1, <4>2, <4>3 DEF UpOk
    <3>4. ASSUME NEW r \in scene.servers, r = s PROVE UpOk(r)'
      BY <3>2, <3>4 DEF UpOk
    <3> QED
      BY <2>1, <2>3, <3>3, <3>4 DEF UpInv
  <2> QED
    BY <2>6, <2>7
<1>13. CASE StoreJob(t, s)
  BY <1>13, <1>c, <1>d DEF StoreJob
<1> QED
  BY <1>1, <1>2, <1>3, <1>4, <1>5, <1>6, <1>7, <1>8, <1>9, <1>10, <1>11, <1>12, <1>13
     DEF Step

LEMMA NextKeepsUp == Types /\ LineInv /\ SocketInv /\ UpInv /\ [Next]_vars => UpInv'
<1>1. ASSUME Types, LineInv, UpInv, Others \/ UNCHANGED vars
      PROVE  UpInv'
  <2>1. \A t \in Stoppers, r \in Servers : \A L : Begun(t, r, L) => Begun(t, r, L)'
    BY <1>1, RestBegun
  <2>2. UNCHANGED <<scope, cancelled, bound, scene>>
    BY <1>1, OthersMove
  <2>3. \A r \in Servers, g \in Gens :
          pc[r][g] \in {"launched", "binding"} => pc'[r][g] = pc[r][g]
    BY <1>1, OthersMove
  <2>4. \A r \in Servers : UpOk(r) => UpOk(r)'
    BY <2>1, <2>2, <2>3 DEF UpOk
  <2>5. \A r \in Servers : ScopeOk(r) => ScopeOk(r)'
    BY <2>1, <2>2 DEF ScopeOk, Unlaunched
  <2> QED
    BY <1>1, <2>2, <2>4, <2>5, SceneServers DEF UpInv, SceneType
<1> QED
  BY <1>1, NextCases, GenStepKeepsUp, StepKeepsUp

-----------------------------------------------------------------------------
(* The invariant.                                                          *)

SessionInv == Types /\ LineInv /\ ClientInv /\ OutputInv /\ SocketInv /\ UpInv

LEMMA InitSessionInv == Init => SessionInv
<1> SUFFICES ASSUME Init PROVE SessionInv
  OBVIOUS
<1> DEFINE G == CHOOSE g \in Gens : TRUE
           first(s) == IF s \in scene.servers THEN G ELSE None
<1>1. Types
  BY InitTypes
<1>2. /\ G \in Gens /\ None \notin Gens
      /\ scene.servers \subseteq Servers
  BY <1>1, ReceiverAssumption, SceneServers DEF SceneType
<1>3. /\ scope = [s \in Servers |-> "active"]
      /\ listener = [s \in Servers |-> None]
      /\ pc = [s \in Servers |-> [g \in Gens |->
                 IF g = first(s) THEN "launched" ELSE "done"]]
      /\ cancelled = [s \in Servers |-> [g \in Gens |-> FALSE]]
      /\ bound = [s \in Servers |-> [g \in Gens |-> FALSE]]
      /\ track = [g \in Gens |-> "none"]
      /\ line = [t \in Stoppers |-> "setFlag"]
  BY DEF Init
<1>4. \A s \in Servers, g \in Gens :
        /\ pc[s][g] \in {"launched", "done"} /\ ~cancelled[s][g] /\ ~bound[s][g]
        /\ listener[s] = None /\ scope[s] = "active" /\ track[g] = "none"
        /\ s \in scene.servers /\ g = G => pc[s][g] = "launched"
  BY <1>3
<1>5. \A t \in Stoppers : line[t] = "setFlag"
  BY <1>3
<1> HIDE DEF G
<1>6. LineInv
  BY <1>5 DEF LineInv
<1>7. ClientInv
  BY <1>4 DEF ClientInv, ClientOf
<1>8. OutputInv
  BY <1>4 DEF OutputInv, Servers
<1>9. SocketInv
  BY <1>2, <1>4 DEF SocketInv, Sockets, GenOk, SocketOk, LoopOk
<1>10. UpInv
  BY <1>2, <1>4 DEF UpInv, ScopeOk, UpOk
<1> QED
  BY <1>1, <1>6, <1>7, <1>8, <1>9, <1>10 DEF SessionInv

LEMMA NextKeepsSessionInv == SessionInv /\ [Next]_vars => SessionInv'
  BY NextKeepsTypes, NextKeepsLineInv, NextKeepsClient, NextKeepsOutput, NextKeepsSockets,
     NextKeepsUp DEF SessionInv

LEMMA SessionsInvariant == Spec => []SessionInv
  BY InitSessionInv, NextKeepsSessionInv, PTL DEF Spec

-----------------------------------------------------------------------------
(* The theorems.                                                           *)

(* Every variable of the receiver keeps its type, and a recycle is under   *)
(* way exactly while recoveryInProgress says so: nobody else resets it.    *)
THEOREM ReceiverTypes == Spec => []TypeOK
<1>1. SessionInv => TypeOK
  BY TypesIsTypeOK DEF SessionInv
<1> QED
  BY <1>1, SessionsInvariant, PTL

(* In every scene, with every interleaving of the accesses of two stops    *)
(* and of any number of generations, the live client of a server is the    *)
(* one its field names, unless it was stored between another thread's look *)
(* at the field and that thread's own assignment of it.                    *)
THEOREM ReceiverClientKnown == Spec => []ClientKnown
<1>1. SessionInv => ClientKnown
  BY DEF SessionInv, ClientInv, ClientKnown, ClientOf
<1> QED
  BY <1>1, SessionsInvariant, PTL

(* In every scene an AudioTrack, and not only the field that names it,     *)
(* ends with the session that created it, unless it was created between    *)
(* another thread's output?.stop() and that thread's output = null, or     *)
(* after another session's output had taken its place.                     *)
THEOREM ReceiverOutputReleased == Spec => []OutputReleased
<1>1. SessionInv => OutputReleased
  BY DEF SessionInv, OutputInv, OutputReleased, Sounding
<1> QED
  BY <1>1, SessionsInvariant, PTL

(* In every scene the close() of a stop leaves its server no open          *)
(* ServerSocket but one that its generation has yet to store: no socket is *)
(* ever open that no field names and no later stop closes, unless a        *)
(* ServerSocket was stored, or a generation about to bind cancelled, after *)
(* a stop had looked for it.                                               *)
THEOREM ReceiverStopFreesPort ==
  Spec => [][\A t \in Stoppers, s \in Servers :
               CloseListener(t, s) /\ Unharmed(s, {"bind"}) =>
                 \A g \in Gens : bound'[s][g] => pc[s][g] = "storing"]_vars
<1>1. ASSUME SessionInv, NEW t \in Stoppers, NEW s \in Servers, CloseListener(t, s),
             Unharmed(s, {"bind"}), NEW g \in Gens, bound'[s][g]
      PROVE  pc[s][g] = "storing"
  <2>1. bound'[s][g] <=> g # listener[s] /\ bound[s][g]
    BY <1>1 DEF SessionInv, Types, CloseListener
  <2> QED
    BY <1>1, <2>1 DEF SessionInv, SocketInv, Sockets, SocketOk
<1>2. SessionInv =>
        \A t \in Stoppers, s \in Servers :
          CloseListener(t, s) /\ Unharmed(s, {"bind"}) =>
            \A g \in Gens : bound'[s][g] => pc[s][g] = "storing"
  BY <1>1
<1> QED
  BY <1>2, SessionsInvariant, PTL

(* However the lines of a recycle and of a restart meet, an open           *)
(* ServerSocket has a generation that comes back to accept on it, unless a *)
(* stop has overtaken a bind or a generation that was not cancelled has    *)
(* ended with an exception.                                                *)
THEOREM ReceiverListenersServed == Spec => []ListenersServed
<1>1. SessionInv => ListenersServed
  <2> SUFFICES ASSUME SessionInv, NEW s \in Servers, NEW g \in Gens, bound[s][g],
                      Unharmed(s, {"bind", "end"})
               PROVE  ~cancelled[s][g] /\ pc[s][g] \notin {"done", "launched", "binding"}
    BY DEF ListenersServed
  <2>1. GenOk(s, g) /\ LoopOk(s, g)
    BY DEF SessionInv, SocketInv, Sockets
  <2> QED
    BY <2>1 DEF GenOk, LoopOk
<1> QED
  BY <1>1, SessionsInvariant, PTL

(* After a recycle and after a restart, however their lines have mixed,    *)
(* both servers have an accept loop again or soon will, with the same two  *)
(* exceptions.                                                             *)
THEOREM ReceiverServersUp == Spec => []ServersUp
<1>1. SessionInv => ServersUp
  <2> SUFFICES ASSUME SessionInv, ~recovery, main \in {"idle", "asked"},
                      NEW s \in scene.servers, Unharmed(s, {"bind", "end"})
               PROVE  \E g \in Gens : ~cancelled[s][g] /\ pc[s][g] # "done"
    BY DEF ServersUp
  <2>1. s \in Servers
    BY SceneServers DEF SessionInv, SceneType
  <2>2. \A t \in Stoppers : \A L : ~Begun(t, s, L)
    BY DEF SessionInv, Types, Begun
  <2>3. PICK g \in Gens : \/ pc[s][g] \in {"launched", "binding"} /\ ~cancelled[s][g]
                          \/ bound[s][g]
    BY <2>2 DEF SessionInv, UpInv, UpOk
  <2>4. bound[s][g] => ~cancelled[s][g] /\ pc[s][g] # "done"
    BY <2>1 DEF SessionInv, SocketInv, Sockets, LoopOk
  <2> QED
    BY <2>3, <2>4
<1> QED
  BY <1>1, SessionsInvariant, PTL
=============================================================================
