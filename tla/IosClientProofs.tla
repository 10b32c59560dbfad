-------------------------- MODULE IosClientProofs --------------------------
(***************************************************************************)
(* Theorems of IosClient, for any number of sockets, sessions, runs and    *)
(* bubbles and any bounds on the queues.                                   *)
(***************************************************************************)
EXTENDS IosClient, GatewayProofs

(***************************************************************************)
(* Type correctness                                                        *)
(***************************************************************************)

\* A transcript saved leaves the cache well typed.
LEMMA SaveType ==
  ASSUME cache \in [Session -> Transcript], selectedSession \in Session,
         messages' \in Transcript, Save
  PROVE  cache' \in [Session -> Transcript]
BY DEF Save

\* Hydrating sends a request or nothing.
LEMMA HydrateType ==
  ASSUME GatewayTypeOK, NEW state, NEW s \in Session, Hydrate(state, s)
  PROVE  outbox' \in [Socket -> Seq(RequestFrame)]
<1>1. "history" \in RequestType
  BY DEF RequestType
<1> QED BY <1>1, TransmitKeepsType DEF Hydrate, Request, GatewayTypeOK

\* Cancelling leaves the first frame of the socket or none.
LEMMA CancelType ==
  ASSUME GatewayTypeOK, socket \in Socket \cup {NoSocket}, CancelTraffic
  PROVE  /\ inbox' \in [Socket -> Seq(Frame)]
         /\ outbox' \in [Socket -> Seq(RequestFrame)]
<1>1. CASE socket = NoSocket
  BY <1>1 DEF CancelTraffic, GatewayTypeOK
<1>2. CASE socket # NoSocket
  <2>1. socket \in Socket
    BY <1>2
  <2>2. ASSUME NEW rest \in Leftovers(socket)
        PROVE  rest \in Seq(Frame)
    <3>1. CASE rest = <<>>
      BY <3>1
    <3>2. CASE /\ inbox[socket] # <<>>
               /\ rest = <<Head(inbox[socket])>>
      <4>1. Head(inbox[socket]) \in Frame
        BY <2>1, <3>2, HeadIsFrame
      <4> QED BY <3>2, <4>1
    <3> QED BY <3>1, <3>2 DEF Leftovers
  <2>3. PICK rest \in Leftovers(socket) :
          inbox' = [inbox EXCEPT ![socket] = rest]
    BY <1>2 DEF CancelTraffic
  <2>4. inbox' \in [Socket -> Seq(Frame)]
    BY <2>1, <2>2, <2>3 DEF GatewayTypeOK
  <2>5. <<>> \in Seq(RequestFrame)
    OBVIOUS
  <2>6. outbox' \in [Socket -> Seq(RequestFrame)]
    BY <1>2, <2>1, <2>5 DEF CancelTraffic, GatewayTypeOK
  <2> QED BY <2>4, <2>6
<1> QED BY <1>1, <1>2

\* connect() keeps every type, whoever calls it.
LEMMA ConnectType ==
  ASSUME IosTypeOK, NEW w \in Socket, Connect(w), firing' \in BOOLEAN
  PROVE  IosTypeOK'
<1>1. /\ inbox' \in [Socket -> Seq(Frame)]
      /\ outbox' \in [Socket -> Seq(RequestFrame)]
  BY CancelType DEF Connect, IosTypeOK
<1>2. sock' \in [Socket -> SocketState]
  <2>1. HungUp \in [Socket -> SocketState]
    BY DEF HungUp, IosTypeOK, GatewayTypeOK, SocketState
  <2> QED BY <2>1 DEF Connect, SocketState
<1>3. loop' \in [Socket -> {"none", "starting", "waiting", "done"}]
  BY DEF Connect, IosTypeOK
<1>4. GatewayTypeOK'
  BY <1>1, <1>2 DEF Connect, IosTypeOK, GatewayTypeOK, gateway
<1> QED BY <1>3, <1>4 DEF Connect, IosTypeOK, streamFields, chatFields

\* So do the frames a loop handles.
LEMMA ReadType ==
  ASSUME GatewayAssumption, IosTypeOK, NEW w \in Socket, LoopReads(w)
  PROVE  IosTypeOK'
<1> DEFINE m == Head(inbox[w])
<1>0. GatewayTypeOK
  BY DEF IosTypeOK
<1>1. m \in Frame /\ Tail(inbox[w]) \in Seq(Frame) /\ MainSession \in Session
  BY <1>0, HeadIsFrame DEF LoopReads, GatewayAssumption
<1>2. /\ m.session \in Session /\ m.run \in Run \cup {NoRun} /\ m.seq \in Nat
  BY <1>1 DEF Frame
<1>3. /\ inbox' \in [Socket -> Seq(Frame)]
      /\ loop' \in [Socket -> {"none", "starting", "waiting", "done"}]
      /\ UNCHANGED <<retries, firing, sock, gateway>>
  BY <1>1 DEF LoopReads, IosTypeOK, GatewayTypeOK
<1> HIDE DEF m
<1>4. SUFFICES ASSUME /\ outbox' \in [Socket -> Seq(RequestFrame)]
                      /\ missed' \in SUBSET Nat
                      => GatewayTypeOK'
               PROVE  IosTypeOK'
  BY <1>3 DEF IosTypeOK, GatewayTypeOK, gateway
<1> USE DEF IosTypeOK, linkFields, streamFields, chatFields
<1>5. missed \in SUBSET Nat /\ outbox \in [Socket -> Seq(RequestFrame)]
  BY DEF GatewayTypeOK
<1>6. CASE OnChallenge(w, m)
  <2>1. {"connect", "badConnect"} \subseteq RequestType
    BY DEF RequestType
  <2>2. outbox' \in [Socket -> Seq(RequestFrame)]
    BY <1>1, <1>5, <1>6, <2>1, TransmitKeepsType DEF OnChallenge, Request
  <2> QED BY <1>3, <1>4, <1>5, <1>6, <2>2 DEF OnChallenge
<1>7. CASE OnConnectOk(w, m)
  <2>1. outbox' \in [Socket -> Seq(RequestFrame)]
    BY <1>0, <1>7, HydrateType DEF OnConnectOk
  <2> QED BY <1>3, <1>4, <1>5, <1>7, <2>1 DEF OnConnectOk
<1>8. CASE OnPairingRequired(w, m)
  BY <1>3, <1>4, <1>5, <1>8 DEF OnPairingRequired
<1>9. CASE OnSendOk(w, m)
  BY <1>2, <1>3, <1>4, <1>5, <1>9 DEF OnSendOk
<1>10. ASSUME NEW b, FinishStreaming(b)
       PROVE  /\ messages' \in Transcript /\ cache' \in [Session -> Transcript]
              /\ streamingMessageId' \in Bubble \cup {NoBubble}
              /\ selectedSession' \in Session
  <2>1. messages' \in Transcript
    BY <1>10 DEF FinishStreaming, Transcript
  <2> QED BY <1>10, <2>1, SaveType DEF FinishStreaming
<1>11. CASE OnAbortOk(w, m)
  BY <1>3, <1>4, <1>5, <1>10, <1>11 DEF OnAbortOk
<1>12. CASE OnHistory(w, m)
  <2>1. /\ messages' \in Transcript /\ cache' \in [Session -> Transcript]
        /\ streamingMessageId' \in Bubble \cup {NoBubble}
        /\ selectedSession' \in Session
    <3> DEFINE fresh == IF m.type = "historyFull" THEN Saved(m.session)
                                                  ELSE Blank
    <3>1. fresh \in Transcript
      BY <1>2 DEF Saved, Blank, Transcript
    <3>2. \/ /\ messages' = fresh /\ streamingMessageId' = NoBubble
             /\ Save /\ UNCHANGED selectedSession
          \/ UNCHANGED chatFields
      BY <1>12 DEF OnHistory, ParseHistory
    <3> HIDE DEF fresh
    <3>3. CASE UNCHANGED chatFields
      BY <3>3
    <3>4. CASE /\ messages' = fresh /\ streamingMessageId' = NoBubble
               /\ Save /\ UNCHANGED selectedSession
      BY <3>1, <3>4, SaveType
    <3> QED BY <3>2, <3>3, <3>4
  <2> QED BY <1>3, <1>4, <1>5, <1>12, <2>1 DEF OnHistory
<1>13. CASE OnIgnored(w, m)
  BY <1>3, <1>4, <1>5, <1>13 DEF OnIgnored
<1>14. CASE OnEvent(w, m)
  <2>1. outbox' \in [Socket -> Seq(RequestFrame)]
    BY <1>0, <1>5, <1>14, HydrateType DEF OnEvent
  <2>2. CASE Stale(m)
    BY <1>3, <1>4, <1>5, <1>14, <2>1, <2>2 DEF OnEvent
  <2>3. CASE ~Stale(m)
    <3>1. /\ lastSeq' \in Nat \cup {NoSeq}
          /\ activeRunId' \in Run \cup {NoRun}
          /\ ended' \in SUBSET (Run \cup {NoRun})
          /\ missed' \in SUBSET Nat
      BY <1>2, <1>5, <1>14, <2>3 DEF OnEvent, SeesNumber
    <3>2. /\ messages' \in Transcript /\ cache' \in [Session -> Transcript]
          /\ streamingMessageId' \in Bubble \cup {NoBubble}
          /\ selectedSession' \in Session
      <4>1. CASE m.type = "delta"
        <5>1. AppendAssistantDelta(m)
          BY <1>14, <2>3, <4>1 DEF OnEvent
        <5>2. messages' \in Transcript
              /\ streamingMessageId' \in Bubble \cup {NoBubble}
          BY <1>2, <5>1 DEF AppendAssistantDelta, JoinBubble, Transcript
        <5> QED BY <5>1, <5>2, SaveType DEF AppendAssistantDelta
      <4>2. CASE m.type # "delta"
        BY <1>10, <1>14, <2>3, <4>2 DEF OnEvent
      <4> QED BY <4>1, <4>2
    <3> QED BY <1>3, <1>4, <1>14, <2>1, <3>1, <3>2 DEF OnEvent
  <2> QED BY <2>2, <2>3
<1> QED BY <1>6, <1>7, <1>8, <1>9, <1>11, <1>12, <1>13, <1>14
        DEF LoopReads, m

\* So do the user's calls.
LEMMA CallType ==
  ASSUME IosTypeOK,
         (\E s \in Session : SelectSession(s)) \/ SendChat \/ PauseOrStop
  PROVE  IosTypeOK'
<1> USE DEF IosTypeOK, clientState, linkFields, streamFields, chatFields,
            tasks, gateway
<1>0. GatewayTypeOK /\ {"send", "abort"} \subseteq RequestType
  BY DEF RequestType
<1>1. ASSUME NEW s \in Session, SelectSession(s)
      PROVE  IosTypeOK'
  <2>1. outbox' \in [Socket -> Seq(RequestFrame)]
    BY <1>0, <1>1, HydrateType DEF SelectSession
  <2>2. messages' \in Transcript
    BY <1>1 DEF SelectSession
  <2> QED BY <1>1, <2>1, <2>2 DEF SelectSession, GatewayTypeOK
<1>2. CASE SendChat
  <2>1. outbox' \in [Socket -> Seq(RequestFrame)]
    BY <1>0, <1>2, TransmitKeepsType DEF SendChat, Request, GatewayTypeOK
  <2>2. messages' \in Transcript
    BY <1>2 DEF SendChat, Transcript
  <2>3. cache' \in [Session -> Transcript]
    BY <1>2, <2>2, SaveType DEF SendChat
  <2> QED BY <1>2, <2>1, <2>2, <2>3 DEF SendChat, GatewayTypeOK
<1>3. CASE PauseOrStop
  <2>1. outbox' \in [Socket -> Seq(RequestFrame)]
    BY <1>0, <1>3, TransmitKeepsType DEF PauseOrStop, Request, GatewayTypeOK
  <2> QED BY <1>3, <2>1 DEF PauseOrStop, GatewayTypeOK
<1> QED BY <1>1, <1>2, <1>3

\* Every step keeps every type.
LEMMA IosTypeStep ==
  ASSUME IosTypeOK, [ClientNext]_clientVars
  PROVE  IosTypeOK'
<1> USE DEF clientState, linkFields, streamFields, chatFields, tasks
<1>1. CASE UNCHANGED clientVars
  BY <1>1 DEF clientVars, gatewayVars, wire, gateway, IosTypeOK, GatewayTypeOK
<1>2. CASE FarEnd
  <2>1. GatewayTypeOK'
    BY <1>2, GatewayAssumption, GatewayTypeStep DEF FarEnd, IosTypeOK
  <2> QED BY <1>2, <2>1 DEF FarEnd, IosTypeOK
<1>3. ASSUME NEW w \in Socket, UserConnects(w) \/ RetryFires(w)
      PROVE  IosTypeOK'
  <2>1. Connect(w) /\ firing' \in BOOLEAN
    BY <1>3 DEF UserConnects, RetryFires, IosTypeOK
  <2> QED BY <2>1, ConnectType
<1>4. ASSUME NEW w \in Socket, LoopStarts(w)
      PROVE  IosTypeOK'
  BY <1>4 DEF LoopStarts, IosTypeOK, gatewayVars, wire, gateway, GatewayTypeOK
<1>5. ASSUME NEW w \in Socket, LoopFails(w)
      PROVE  IosTypeOK'
  <2>1. sock' \in [Socket -> SocketState]
    BY <1>5 DEF LoopFails, IosTypeOK, GatewayTypeOK, SocketState
  <2>2. GatewayTypeOK'
    BY <1>5, <2>1 DEF LoopFails, IosTypeOK, GatewayTypeOK, gateway
  <2> QED BY <1>5, <2>2 DEF LoopFails, ScheduleReconnect, IosTypeOK
<1>6. CASE RetryWakes
  <2>1. retries' \in {0, 1}
    BY <1>6 DEF RetryWakes, IosTypeOK
  <2> QED BY <1>6, <2>1 DEF RetryWakes, IosTypeOK, gatewayVars, wire, gateway,
             GatewayTypeOK
<1>7. CASE Close
  <2>1. /\ inbox' \in [Socket -> Seq(Frame)]
        /\ outbox' \in [Socket -> Seq(RequestFrame)]
    BY <1>7, CancelType DEF Close, IosTypeOK
  <2>2. sock' \in [Socket -> SocketState]
    BY <1>7 DEF Close, HungUp, IosTypeOK, GatewayTypeOK, SocketState
  <2>3. GatewayTypeOK'
    BY <1>7, <2>1, <2>2 DEF Close, IosTypeOK, GatewayTypeOK, gateway
  <2> QED BY <1>7, <2>3 DEF Close, IosTypeOK
<1> QED BY <1>1, <1>2, <1>3, <1>4, <1>5, <1>6, <1>7, GatewayAssumption,
           ReadType, CallType DEF ClientNext

\* Every field, task, bubble and file keeps its type, and no more than one
\* reconnect task is ever asleep, whatever the numbers of sockets, sessions
\* and runs.
THEOREM IosTypeCorrect == ClientSpec => []IosTypeOK
<1>1. ClientInit => IosTypeOK
  <2> SUFFICES ASSUME ClientInit PROVE IosTypeOK
    OBVIOUS
  <2>1. GatewayTypeOK
    BY GatewayTypeInit DEF ClientInit
  <2>2. MainSession \in Session
    BY GatewayAssumption DEF GatewayAssumption
  <2>3. cache \in [Session -> Transcript]
    BY DEF ClientInit, Blank, Saved, Transcript
  <2> QED BY <2>1, <2>2, <2>3 DEF ClientInit, IosTypeOK
<1>2. IosTypeOK /\ [ClientNext]_clientVars => IosTypeOK'
  BY IosTypeStep
<1> QED BY <1>1, <1>2, PTL DEF ClientSpec

(***************************************************************************)
(* Never stranded                                                          *)
(***************************************************************************)

\* A client that was started and not closed has a loop on its current socket
\* or a reconnect under way, in whatever order the main actor runs the loops,
\* tasks and calls that are ready.
THEOREM NeverStrandedAlways == ClientSpec => []NeverStranded
<1>1. ClientInit => NeverStranded
  BY DEF ClientInit, NeverStranded
<1>2. IosTypeOK /\ NeverStranded /\ [ClientNext]_clientVars => NeverStranded'
  <2> SUFFICES ASSUME IosTypeOK, NeverStranded, [ClientNext]_clientVars
               PROVE  NeverStranded'
    OBVIOUS
  <2> USE DEF IosTypeOK, NeverStranded, linkFields, tasks, clientState
  <2>1. CASE UNCHANGED <<socket, closing, tasks>>
    BY <2>1
  <2>2. ASSUME NEW w \in Socket, UserConnects(w) \/ RetryFires(w)
        PROVE  NeverStranded'
    <3>1. socket' = w /\ loop' = [loop EXCEPT ![w] = "starting"]
      BY <2>2 DEF UserConnects, RetryFires, Connect
    <3> QED BY <3>1
  <2>3. ASSUME NEW w \in Socket, LoopStarts(w)
        PROVE  NeverStranded'
    BY <2>3 DEF LoopStarts
  <2>4. ASSUME NEW w \in Socket, LoopReads(w)
        PROVE  NeverStranded'
    <3>1. UNCHANGED <<socket, closing, retries, firing>>
      BY <2>4 DEF LoopReads, OnChallenge, OnConnectOk, OnPairingRequired,
         OnSendOk, OnAbortOk, OnHistory, OnIgnored, OnEvent
    <3>2. loop' = IF w = socket THEN loop ELSE [loop EXCEPT ![w] = "done"]
      BY <2>4 DEF LoopReads
    <3> QED BY <3>1, <3>2
  <2>5. ASSUME NEW w \in Socket, LoopFails(w)
        PROVE  NeverStranded'
    BY <2>5 DEF LoopFails, ScheduleReconnect
  <2>6. CASE RetryWakes
    BY <2>6 DEF RetryWakes
  <2>7. CASE Close
    BY <2>7 DEF Close
  <2>8. CASE \/ \E s \in Session : SelectSession(s)
             \/ SendChat \/ PauseOrStop \/ FarEnd \/ UNCHANGED clientVars
    BY <2>1, <2>8 DEF SelectSession, SendChat, PauseOrStop, FarEnd, clientVars
  <2> QED BY <2>2, <2>3, <2>4, <2>5, <2>6, <2>7, <2>8 DEF ClientNext
<1> QED BY <1>1, <1>2, IosTypeCorrect, PTL DEF ClientSpec

(***************************************************************************)
(* The cache mirrors the transcript                                        *)
(***************************************************************************)

\* The file of the session on screen is what is on screen after every step:
\* every delta, end of run, reload, switch and message is saved.
THEOREM TranscriptOnDiskAlways == ClientSpec => []TranscriptOnDisk
<1>1. ClientInit => TranscriptOnDisk
  BY DEF ClientInit, TranscriptOnDisk
<1>2. IosTypeOK /\ TranscriptOnDisk /\ [ClientNext]_clientVars
        => TranscriptOnDisk'
  <2> SUFFICES ASSUME IosTypeOK, TranscriptOnDisk, [ClientNext]_clientVars
               PROVE  TranscriptOnDisk'
    OBVIOUS
  <2> USE DEF IosTypeOK, TranscriptOnDisk, chatFields, clientState
  <2>1. CASE UNCHANGED chatFields
    BY <2>1
  <2>2. CASE Save /\ UNCHANGED selectedSession
    BY <2>2 DEF Save
  <2>3. ASSUME NEW w \in Socket, LoopReads(w)
        PROVE  TranscriptOnDisk'
    <3> DEFINE m == Head(inbox[w])
    <3> HIDE DEF m
    <3>1. CASE \/ OnChallenge(w, m) \/ OnConnectOk(w, m)
               \/ OnPairingRequired(w, m) \/ OnSendOk(w, m) \/ OnIgnored(w, m)
      BY <2>1, <3>1 DEF OnChallenge, OnConnectOk, OnPairingRequired, OnSendOk,
         OnIgnored
    <3>2. CASE OnAbortOk(w, m)
      BY <2>2, <3>2 DEF OnAbortOk, FinishStreaming
    <3>3. CASE OnHistory(w, m)
      BY <2>1, <2>2, <3>3 DEF OnHistory, ParseHistory
    <3>4. CASE OnEvent(w, m)
      BY <2>1, <2>2, <3>4 DEF OnEvent, AppendAssistantDelta, FinishStreaming
    <3> QED BY <2>3, <3>1, <3>2, <3>3, <3>4 DEF LoopReads, m
  <2>4. ASSUME NEW s \in Session, SelectSession(s)
        PROVE  TranscriptOnDisk'
    BY <2>4 DEF SelectSession
  <2>5. CASE SendChat
    BY <2>2, <2>5 DEF SendChat
  <2>6. ASSUME NEW w \in Socket,
               \/ UserConnects(w) \/ RetryFires(w) \/ LoopStarts(w)
               \/ LoopFails(w)
        PROVE  TranscriptOnDisk'
    BY <2>1, <2>6 DEF UserConnects, RetryFires, Connect, LoopStarts, LoopFails
  <2>7. CASE \/ RetryWakes \/ Close \/ PauseOrStop \/ FarEnd
             \/ UNCHANGED clientVars
    BY <2>1, <2>7 DEF RetryWakes, Close, PauseOrStop, FarEnd, clientVars
  <2> QED BY <2>3, <2>4, <2>5, <2>6, <2>7 DEF ClientNext
<1> QED BY <1>1, <1>2, IosTypeCorrect, PTL DEF ClientSpec
(***************************************************************************)
(* From one socket to the next                                             *)
(***************************************************************************)

Live == {"opening", "open", "halfClosed", "closing", "failed"}

\* What only a device that asked to connect is sent.
Answer == EventType \cup (ReplyType \ {"error"})

\* A socket has nothing of the kind on its way; nothing is on its way on any
\* other; it was asked to let the device in, or has been.
Plain(w) == ~Has(inbox[w], Answer)
Alone(w) == \A x \in Socket \ {w} : inbox[x] = <<>>
Asked(w) == w \in accepted \/ Has(outbox[w], {"connect"}) \/ ~Plain(w)

\* A socket replaced leaves one frame at most, and those left are read before
\* the next one asks to connect.
Handover ==
  /\ \A w \in Socket : sock[w] \in Live => w = socket
  /\ \A w \in Socket : sock[w] = "unused" =>
       /\ w # socket /\ w \notin accepted
       /\ inbox[w] = <<>> /\ outbox[w] = <<>>
  /\ \A w \in Socket \ {socket} : Len(inbox[w]) <= 1
  /\ socket \in Socket /\ Asked(socket) =>
       connectId = socket /\ Alone(socket)
  /\ \A w, x \in Socket : w # x => Plain(w) \/ Plain(x)
  /\ connectionState = "connected" =>
       \A w \in Socket \ {socket} : Plain(w)
  /\ socket = NoSocket /\ ~closing =>
       /\ connectionState = "disconnected"
       /\ \A w \in Socket : sock[w] = "unused"

\* The Gateway answers on no socket it was not asked on.
LEMMA GatewayAsks ==
  ASSUME GatewayAssumption, GatewayTypeOK, NEW w \in Socket, GatewayMoves(w),
         ~Asked(w)
  PROVE  ~Asked(w)'
<1> USE DEF gateway
<1>0. /\ w \notin accepted /\ ~Has(outbox[w], {"connect"}) /\ Plain(w)
      /\ inbox[w] \in Seq(Frame) /\ outbox[w] \in Seq(RequestFrame)
      /\ MainSession \in Session
  BY DEF Asked, GatewayTypeOK, GatewayAssumption
<1>1. ASSUME NEW f \in Frame, f.type \notin Answer, Deliver(w, f)
      PROVE  Plain(w)'
  <2>1. inbox'[w] = Append(inbox[w], f)
    BY <1>1 DEF Deliver, GatewayTypeOK
  <2> QED BY <1>0, <1>1, <2>1, AppendShake DEF Plain, Quieter
<1>2. CASE Opens(w)
  <2>1. PICK c \in {"challenge", "badChallenge"} :
               Deliver(w, Reply(c, MainSession, NoRun))
    BY <1>2 DEF Opens
  <2>2. /\ Reply(c, MainSession, NoRun) \in Frame
        /\ Reply(c, MainSession, NoRun).type \notin Answer
    BY <1>0, ReplyIsFrame DEF Reply, Answer, EventType, ReplyType
  <2>3. Plain(w)' /\ UNCHANGED <<accepted, outbox>>
    BY <1>1, <1>2, <2>1, <2>2 DEF Opens
  <2> QED BY <1>0, <2>3 DEF Asked, Plain
<1>3. CASE Serve(w)
  <2> DEFINE q == Head(outbox[w])
  <2>1. /\ outbox[w] # <<>> /\ outbox'[w] = Tail(outbox[w])
        /\ q \in RequestFrame
    BY <1>0, <1>3 DEF Serve, ServeConnect, ServeHistory, ServeSend,
       ServeAbort, ServeError, Answers, GatewayTypeOK
  <2>2. q.type # "connect" /\ ~Has(outbox'[w], {"connect"})
    BY <1>0, <2>1, TailShake DEF Quieter
  <2>3. ServeError(w, q)
    BY <1>0, <1>3, <2>2 DEF Serve, ServeConnect, ServeHistory, ServeSend,
       ServeAbort
  <2>4. /\ Deliver(w, Reply("error", q.session, NoRun))
        /\ UNCHANGED accepted /\ q.session \in Session
    BY <2>1, <2>3 DEF ServeError, Answers, RequestFrame
  <2>5. /\ Reply("error", q.session, NoRun) \in Frame
        /\ Reply("error", q.session, NoRun).type \notin Answer
    BY <2>4, ReplyIsFrame DEF Reply, Answer, EventType, ReplyType
  <2>6. Plain(w)'
    BY <1>1, <2>4, <2>5
  <2> QED BY <1>0, <2>2, <2>4, <2>6 DEF Asked, Plain
<1>4. CASE \/ Resend(w)
           \/ \E r \in Run, t \in EventType :
                EmitEvent(w, r, t) \/ EmitUnnumbered(w, r, t)
  BY <1>0, <1>4 DEF Resend, EmitEvent, EmitUnnumbered, RunEmits, Streams
<1>5. CASE NetworkFails(w)
  <2>1. /\ inbox'[w] = <<>> /\ outbox'[w] = <<>> /\ accepted' = accepted
    BY <1>5 DEF NetworkFails, GatewayTypeOK
  <2> QED BY <1>0, <2>1 DEF Asked, Plain, Has
<1>6. CASE ServerCloses(w)
  BY <1>0, <1>6 DEF ServerCloses, Asked, Plain
<1> QED BY <1>2, <1>3, <1>4, <1>5, <1>6 DEF GatewayMoves

\* The far end moves on the current socket.
LEMMA FarEndMoves ==
  ASSUME IosTypeOK, Handover, FarEnd
  PROVE  \E w \in Socket :
           /\ GatewayMoves(w) /\ w = socket
           /\ sock'[w] \in {"open", "halfClosed", "failed"}
           /\ sock'[w] = "open" => sock[w] \in {"opening", "open"}
           /\ \A x \in Socket \ {w} :
                /\ inbox'[x] = inbox[x] /\ outbox'[x] = outbox[x]
                /\ sock'[x] = sock[x] /\ (x \in accepted' <=> x \in accepted)
<1>1. GatewayTypeOK /\ GatewayNext
  BY DEF IosTypeOK, FarEnd
<1>2. PICK w \in Socket :
        /\ GatewayMoves(w)
        /\ sock[w] \in {"opening", "open", "halfClosed", "closing"}
        /\ sock'[w] \in {"open", "halfClosed", "failed"}
        /\ sock'[w] = "open" => sock[w] \in {"opening", "open"}
        /\ \A x \in Socket \ {w} :
             /\ inbox'[x] = inbox[x] /\ outbox'[x] = outbox[x]
             /\ sock'[x] = sock[x] /\ (x \in accepted' <=> x \in accepted)
  BY <1>1, OneMoves
<1>3. w = socket
  BY <1>2 DEF Handover, Live
<1> QED BY <1>2, <1>3

\* It leaves the handover as it is.
LEMMA FarEndHandover ==
  ASSUME GatewayAssumption, IosAssumption, IosTypeOK, Handover, FarEnd
  PROVE  Handover'
<1>1. PICK w \in Socket :
        /\ GatewayMoves(w) /\ w = socket
        /\ sock'[w] \in {"open", "halfClosed", "failed"}
        /\ \A x \in Socket \ {w} :
             /\ inbox'[x] = inbox[x] /\ outbox'[x] = outbox[x]
             /\ sock'[x] = sock[x] /\ (x \in accepted' <=> x \in accepted)
  BY FarEndMoves
<1>2. /\ GatewayTypeOK /\ w # NoSocket
      /\ UNCHANGED <<socket, connectId, closing, connectionState>>
  BY <1>1 DEF IosTypeOK, IosAssumption, FarEnd, clientState, linkFields
<1>3. Asked(w)' => Asked(w)
  BY <1>1, <1>2, GatewayAsks
<1>4. \A x \in Socket \ {w} : Plain(x) => Plain(x)'
  BY <1>1 DEF Plain
<1>5. Asked(w)' => connectId = w /\ Alone(w)' /\ Alone(w)
  BY <1>1, <1>3 DEF Handover, Alone
<1>6. ASSUME NEW x \in Socket, NEW y \in Socket, x # y
      PROVE  Plain(x)' \/ Plain(y)'
  <2>1. CASE x # w /\ y # w
    BY <1>4, <1>6, <2>1 DEF Handover
  <2>2. ASSUME NEW z \in Socket \ {w}
        PROVE  Plain(w)' \/ Plain(z)'
    <3>1. CASE Asked(w)'
      BY <1>5, <2>2, <3>1 DEF Alone, Plain, Has
    <3>2. CASE ~Asked(w)'
      BY <3>2 DEF Asked
    <3> QED BY <3>1, <3>2
  <2> QED BY <1>6, <2>1, <2>2
<1>7. /\ \A x \in Socket : sock'[x] \in Live => x = socket
      /\ \A x \in Socket : sock'[x] = "unused" =>
           /\ x # socket /\ x \notin accepted'
           /\ inbox'[x] = <<>> /\ outbox'[x] = <<>>
      /\ \A x \in Socket \ {socket} : Len(inbox'[x]) <= 1
  BY <1>1 DEF Handover
<1>8. connectionState = "connected" => \A x \in Socket \ {socket} : Plain(x)'
  BY <1>1, <1>4 DEF Handover
<1> QED BY <1>1, <1>2, <1>5, <1>6, <1>7, <1>8 DEF Handover

\* What is sent while a frame of a socket is handled, and where.
Sends(t) == \E s \in Session : Transmit(socket, t, s)

\* A frame is handled: it leaves its inbox, and a request at most goes to the
\* current socket.
LEMMA ReadFrame ==
  ASSUME GatewayAssumption, IosTypeOK, NEW w \in Socket, LoopReads(w),
         NEW m, m = Head(inbox[w])
  PROVE  /\ inbox[w] \in Seq(Frame) /\ inbox[w] # <<>> /\ m \in Frame
         /\ inbox'[w] = Tail(inbox[w])
         /\ \A x \in Socket \ {w} : inbox'[x] = inbox[x]
         /\ w = socket => Alone(w)
         /\ UNCHANGED <<sock, gateway, socket, closing>>
         /\ \/ UNCHANGED outbox
            \/ \E t \in RequestType \ {"connect"} : Sends(t)
            \/ /\ w = socket /\ connectId' = w /\ Sends("connect")
               /\ m.type = "challenge"
         /\ connectId' = connectId \/ m.type = "challenge"
<1> USE DEF linkFields
<1>1. /\ inbox[w] \in Seq(Frame) /\ inbox[w] # <<>>
      /\ inbox' = [inbox EXCEPT ![w] = Tail(@)]
      /\ inbox \in [Socket -> Seq(Frame)]
      /\ UNCHANGED <<sock, gateway>>
      /\ w = socket => Alone(w)
  BY DEF LoopReads, IosTypeOK, GatewayTypeOK, Alone
<1>2. m \in Frame
  BY <1>1
<1>3. \/ OnChallenge(w, m) \/ OnConnectOk(w, m) \/ OnPairingRequired(w, m)
      \/ OnSendOk(w, m) \/ OnAbortOk(w, m) \/ OnHistory(w, m)
      \/ OnIgnored(w, m) \/ OnEvent(w, m)
  BY DEF LoopReads
<1>4. /\ UNCHANGED <<socket, closing>>
      /\ connectId' = connectId \/ m.type = "challenge"
  BY <1>3 DEF OnChallenge, OnConnectOk, OnPairingRequired, OnSendOk,
     OnAbortOk, OnHistory, OnIgnored, OnEvent
<1>5. /\ MainSession \in Session /\ selectedSession \in Session
      /\ "history" \in RequestType \ {"connect"}
      /\ "badConnect" \in RequestType \ {"connect"}
  BY DEF GatewayAssumption, IosTypeOK, RequestType
<1>6. \/ UNCHANGED outbox
      \/ \E t \in RequestType \ {"connect"} : Sends(t)
      \/ /\ w = socket /\ connectId' = w /\ Sends("connect")
         /\ m.type = "challenge"
  <2>1. CASE OnChallenge(w, m)
    BY <1>5, <2>1 DEF OnChallenge, Request, Sends
  <2>2. CASE \/ OnPairingRequired(w, m) \/ OnSendOk(w, m) \/ OnAbortOk(w, m)
             \/ OnHistory(w, m) \/ OnIgnored(w, m)
    BY <2>2 DEF OnPairingRequired, OnSendOk, OnAbortOk, OnHistory, OnIgnored
  <2>3. CASE OnConnectOk(w, m) \/ OnEvent(w, m)
    <3>1. UNCHANGED outbox \/ Request("history", selectedSession)
      BY <2>3 DEF OnConnectOk, OnEvent, Hydrate
    <3> QED BY <1>5, <3>1 DEF Request, Sends
  <2> QED BY <1>3, <2>1, <2>2, <2>3
<1> QED BY <1>1, <1>2, <1>4, <1>6

\* A request goes to the current socket only; one that is not to connect
\* asks for nothing.
LEMMA SendsThere ==
  ASSUME GatewayTypeOK, NEW t \in RequestType, Sends(t)
  PROVE  /\ \A x \in Socket \ {socket} : outbox'[x] = outbox[x]
         /\ t # "connect" => \A x \in Socket :
              Quieter(outbox[x], outbox'[x], {"connect"})
<1>1. PICK s \in Session : Transmit(socket, t, s)
  BY DEF Sends
<1>2. ASSUME NEW x \in Socket \ {socket}
      PROVE  outbox'[x] = outbox[x]
  BY <1>1 DEF Transmit, GatewayTypeOK
<1>3. ASSUME t # "connect", NEW x \in Socket
      PROVE  Quieter(outbox[x], outbox'[x], {"connect"})
  BY <1>1, <1>3, TransmitShake
<1> QED BY <1>2, <1>3

\* The frame a socket left behind is read before the next one asks.
LEMMA LeftoverFirst ==
  ASSUME Handover, NEW w \in Socket \ {socket}, inbox[w] # <<>>,
         socket \in Socket
  PROVE  ~Asked(socket)
BY DEF Handover, Alone

\* Reading keeps the handover.
LEMMA ReadHandover ==
  ASSUME GatewayAssumption, IosAssumption, IosTypeOK, Handover,
         NEW w \in Socket, LoopReads(w)
  PROVE  Handover'
<1>0. PICK m : m = Head(inbox[w])
  OBVIOUS
<1>1. /\ inbox[w] \in Seq(Frame) /\ inbox[w] # <<>> /\ m \in Frame
      /\ inbox'[w] = Tail(inbox[w])
      /\ \A x \in Socket \ {w} : inbox'[x] = inbox[x]
      /\ w = socket => Alone(w)
      /\ UNCHANGED <<sock, gateway, socket, closing>>
      /\ connectId' = connectId \/ m.type = "challenge"
  BY <1>0, ReadFrame
<1>2. \/ UNCHANGED outbox
      \/ \E t \in RequestType \ {"connect"} : Sends(t)
      \/ /\ w = socket /\ connectId' = w /\ Sends("connect")
         /\ m.type = "challenge"
  BY <1>0, ReadFrame
<1>3. GatewayTypeOK /\ "connect" \in RequestType /\ accepted' = accepted
  BY <1>1 DEF IosTypeOK, RequestType, gateway
<1>4. /\ Len(inbox'[w]) <= Len(inbox[w])
      /\ Plain(w) => Plain(w)'
      /\ Len(inbox[w]) <= 1 => inbox'[w] = <<>>
  <2>1. Quieter(inbox[w], inbox'[w], Answer)
    BY <1>1, TailShake
  <2> QED BY <1>1, <2>1 DEF Plain, Quieter
<1>5. \A x \in Socket : Plain(x) => Plain(x)'
  BY <1>1, <1>4 DEF Plain
<1>6. /\ \A x \in Socket \ {socket} : outbox'[x] = outbox[x]
      /\ w # socket \/ m.type # "challenge"
           => \A x \in Socket : Has(outbox'[x], {"connect"})
                                  => Has(outbox[x], {"connect"})
  BY <1>2, <1>3, SendsThere DEF Quieter
<1>a. ASSUME socket \in Socket, ~Asked(socket),
             Has(outbox'[socket], {"connect"})
               => Has(outbox[socket], {"connect"})
      PROVE  ~Asked(socket)'
  <2>1. PICK c \in Socket : c = socket
    BY <1>a
  <2>2. c \notin accepted' /\ ~Has(outbox'[c], {"connect"}) /\ Plain(c)'
    BY <1>3, <1>5, <1>a, <2>1 DEF Asked
  <2>3. ~Asked(c)'
    BY <2>2 DEF Asked, Plain
  <2> QED BY <1>1, <2>1, <2>3 DEF Asked, Plain
<1>7. socket \in Socket /\ Asked(socket)' =>
        connectId' = socket /\ Alone(socket)'
  <2>1. CASE w = socket
    <3>1. Alone(socket)'
      BY <1>1, <2>1 DEF Alone
    <3>2. Asked(socket)' => connectId' = socket
      <4>1. CASE Asked(socket)
        <5>1. connectId = socket
          BY <2>1, <4>1 DEF Handover
        <5> QED BY <1>0, <1>1, <2>1, <5>1 DEF LoopReads, OnChallenge,
                OnConnectOk, OnPairingRequired, OnSendOk, OnAbortOk,
                OnHistory, OnIgnored, OnEvent, linkFields
      <4>2. CASE ~Asked(socket) /\ m.type # "challenge"
        BY <1>6, <1>a, <2>1, <4>2
      <4>3. CASE ~Asked(socket) /\ m.type = "challenge"
        <5>1. \/ UNCHANGED outbox \/ connectId' = w
              \/ \E t \in RequestType \ {"connect"} : Sends(t)
          BY <1>2
        <5>2. CASE \E t \in RequestType \ {"connect"} : Sends(t)
          BY <1>3, <1>a, <2>1, <4>3, <5>2, SendsThere DEF Quieter
        <5>3. CASE UNCHANGED outbox
          BY <1>a, <2>1, <4>3, <5>3
        <5> QED BY <2>1, <5>1, <5>2, <5>3
      <4> QED BY <4>1, <4>2, <4>3
    <3> QED BY <3>1, <3>2
  <2>2. CASE w # socket /\ socket \in Socket
    <3>1. ~Asked(socket)
      BY <1>1, <2>2, LeftoverFirst
    <3>2. ~Asked(socket)'
      BY <1>6, <1>a, <2>2, <3>1
    <3> QED BY <3>2
  <2> QED BY <2>1, <2>2
<1>8. connectionState' = "connected" =>
        \A x \in Socket \ {socket} : Plain(x)'
  <2>1. CASE OnConnectOk(w, m)
    <3>1. ~Plain(w)
      <4>1. m.type \in Answer
        BY <2>1 DEF OnConnectOk, Answer, ReplyType
      <4> QED BY <1>0, <1>1, <4>1, TailShake DEF Plain
    <3>2. \A x \in Socket \ {w} : Plain(x)
      BY <3>1 DEF Handover
    <3>3. w # socket => inbox'[w] = <<>>
      BY <1>4 DEF Handover
    <3> QED BY <1>5, <3>2, <3>3 DEF Plain, Has
  <2>2. CASE connectionState' = connectionState
    BY <1>5, <2>2 DEF Handover
  <2>3. CASE connectionState' # "connected"
    BY <2>3
  <2> QED BY <1>0, <2>1, <2>2, <2>3 DEF LoopReads, OnChallenge,
          OnPairingRequired, OnSendOk, OnAbortOk, OnHistory, OnIgnored,
          OnEvent, linkFields
<1>9. /\ \A x \in Socket : sock'[x] \in Live => x = socket'
      /\ \A x \in Socket : sock'[x] = "unused" =>
           /\ x # socket' /\ x \notin accepted'
           /\ inbox'[x] = <<>> /\ outbox'[x] = <<>>
      /\ \A x \in Socket \ {socket'} : Len(inbox'[x]) <= 1
  <2>1. sock[w] # "unused"
    BY <1>1 DEF Handover
  <2>2. /\ \A x \in Socket : sock'[x] \in Live => x = socket'
        /\ \A x \in Socket : sock'[x] = "unused" =>
             /\ x # socket' /\ x \notin accepted'
             /\ inbox'[x] = <<>> /\ outbox'[x] = <<>>
    BY <1>1, <1>3, <1>6, <2>1 DEF Handover
  <2>3. ASSUME NEW x \in Socket \ {socket'}
        PROVE  Len(inbox'[x]) <= 1
    <3>1. CASE x = w
      <4>1. inbox'[x] = <<>>
        BY <1>1, <1>4, <2>3, <3>1 DEF Handover
      <4> QED BY <4>1
    <3>2. CASE x # w
      BY <1>1, <2>3, <3>2 DEF Handover
    <3> QED BY <3>1, <3>2
  <2> QED BY <2>2, <2>3
<1>10. ~(socket = NoSocket /\ ~closing)
  BY <1>1 DEF Handover
<1>11. \A x, y \in Socket : x # y => Plain(x)' \/ Plain(y)'
  BY <1>5 DEF Handover
<1> QED BY <1>1, <1>7, <1>8, <1>9, <1>10, <1>11 DEF Handover

\* Cancelling a socket leaves its loop the first frame or none, and the other
\* sockets as they are.
LEMMA HangsUp ==
  ASSUME IosTypeOK, CancelTraffic
  PROVE  /\ \A x \in Socket \ {socket} :
              inbox'[x] = inbox[x] /\ outbox'[x] = outbox[x]
         /\ socket \in Socket =>
              /\ outbox'[socket] = <<>> /\ Len(inbox'[socket]) <= 1
              /\ \A i \in DOMAIN inbox'[socket] :
                   /\ i = 1 /\ 1 \in DOMAIN inbox[socket]
                   /\ inbox'[socket][1] = inbox[socket][1]
<1>1. /\ inbox \in [Socket -> Seq(Frame)]
      /\ outbox \in [Socket -> Seq(RequestFrame)]
      /\ socket = NoSocket => UNCHANGED <<inbox, outbox>>
  BY DEF IosTypeOK, GatewayTypeOK, CancelTraffic
<1>2. CASE socket = NoSocket
  BY <1>1, <1>2, IosAssumption DEF IosAssumption
<1>3. CASE socket # NoSocket
  <2>1. socket \in Socket /\ inbox[socket] \in Seq(Frame)
    BY <1>1, <1>3 DEF IosTypeOK
  <2>2. PICK rest \in Leftovers(socket) :
          inbox' = [inbox EXCEPT ![socket] = rest]
    BY <1>3 DEF CancelTraffic
  <2>3. \/ rest = <<>>
        \/ inbox[socket] # <<>> /\ rest = <<Head(inbox[socket])>>
    BY <2>2 DEF Leftovers
  <2>4. /\ Len(rest) <= 1
        /\ \A i \in DOMAIN rest : /\ i = 1 /\ 1 \in DOMAIN inbox[socket]
                                  /\ rest[1] = inbox[socket][1]
    <3>1. CASE rest = <<>>
      BY <3>1
    <3>2. CASE inbox[socket] # <<>> /\ rest = <<Head(inbox[socket])>>
      <4>1. /\ 1 \in DOMAIN inbox[socket]
            /\ Head(inbox[socket]) = inbox[socket][1]
        BY <2>1, <3>2
      <4> QED BY <3>2, <4>1
    <3> QED BY <2>3, <3>1, <3>2
  <2>5. inbox'[socket] = rest /\ outbox'[socket] = <<>>
    BY <1>1, <1>3, <2>1, <2>2 DEF CancelTraffic
  <2>6. \A x \in Socket \ {socket} :
          inbox'[x] = inbox[x] /\ outbox'[x] = outbox[x]
    BY <1>1, <1>3, <2>2 DEF CancelTraffic
  <2> QED BY <2>4, <2>5, <2>6
<1> QED BY <1>2, <1>3

\* So what a socket has nothing of, it has nothing of when it is cancelled.
LEMMA HangsUpPlain ==
  ASSUME IosTypeOK, CancelTraffic, NEW x \in Socket
  PROVE  /\ Plain(x) => Plain(x)'
         /\ x # socket => Len(inbox'[x]) = Len(inbox[x])
<1>1. CASE x = socket
  BY <1>1, HangsUp DEF Plain, Has
<1>2. CASE x # socket
  BY <1>2, HangsUp DEF Plain
<1> QED BY <1>1, <1>2

\* connect() keeps the handover: the new socket has not asked yet.
LEMMA ConnectHandover ==
  ASSUME IosTypeOK, Handover, NEW w \in Socket, Connect(w)
  PROVE  Handover'
<1>1. /\ sock[w] = "unused" /\ w # socket /\ w # NoSocket
      /\ socket' = w /\ connectionState' = "connecting"
      /\ CancelTraffic /\ accepted' = accepted
      /\ sock' = [HungUp EXCEPT ![w] = "opening"]
  BY IosAssumption DEF Connect, Handover, gateway, IosAssumption
<1>2. \A x \in Socket : sock'[x] = IF x = w THEN "opening"
                                   ELSE IF x = socket THEN "dead" ELSE sock[x]
  BY <1>1 DEF HungUp
<1>3. \A x \in Socket : Plain(x) => Plain(x)'
  BY <1>1, HangsUpPlain
<1>4. \A x \in Socket \ {socket} :
        inbox'[x] = inbox[x] /\ outbox'[x] = outbox[x]
  BY <1>1, HangsUp
<1>5. /\ w \notin accepted /\ inbox[w] = <<>> /\ outbox[w] = <<>>
      /\ inbox'[w] = <<>> /\ outbox'[w] = <<>>
  BY <1>1, <1>4 DEF Handover
<1>6. ~Asked(w)'
  BY <1>1, <1>5 DEF Asked, Plain, Has
<1>7. ~Asked(socket)'
  BY <1>1, <1>6 DEF Asked, Plain
<1>8. \A x \in Socket : sock'[x] \in Live => x = socket'
  BY <1>1, <1>2 DEF Handover, Live
<1>9. \A x \in Socket : sock'[x] = "unused" =>
        /\ x # socket' /\ x \notin accepted'
        /\ inbox'[x] = <<>> /\ outbox'[x] = <<>>
  BY <1>1, <1>2, <1>4 DEF Handover
<1>10. ASSUME NEW x \in Socket \ {w}
       PROVE  Len(inbox'[x]) <= 1
  <2>1. CASE x = socket
    BY <1>1, <2>1, HangsUp
  <2>2. CASE x # socket
    BY <1>4, <2>2 DEF Handover
  <2> QED BY <2>1, <2>2
<1>11. \A x, y \in Socket : x # y => Plain(x)' \/ Plain(y)'
  BY <1>3 DEF Handover
<1> QED BY <1>1, <1>7, <1>8, <1>9, <1>10, <1>11 DEF Handover

\* close() keeps it too: no socket is current then.
LEMMA CloseHandover ==
  ASSUME IosTypeOK, Handover, Close
  PROVE  Handover'
<1>1. /\ socket \in Socket /\ socket' = NoSocket /\ NoSocket \notin Socket
      /\ connectionState' = "disconnected" /\ closing'
      /\ CancelTraffic /\ accepted' = accepted /\ sock' = HungUp
  BY IosAssumption DEF Close, IosTypeOK, gateway, IosAssumption
<1>2. \A x \in Socket : sock'[x] = IF x = socket THEN "dead" ELSE sock[x]
  BY <1>1 DEF HungUp
<1>3. \A x \in Socket : Plain(x) => Plain(x)'
  BY <1>1, HangsUpPlain
<1>4. \A x \in Socket \ {socket} :
        inbox'[x] = inbox[x] /\ outbox'[x] = outbox[x]
  BY <1>1, HangsUp
<1>5. \A x \in Socket : sock'[x] \notin Live
  BY <1>1, <1>2 DEF Handover, Live
<1>6. \A x \in Socket : sock'[x] = "unused" =>
        /\ x # socket' /\ x \notin accepted'
        /\ inbox'[x] = <<>> /\ outbox'[x] = <<>>
  BY <1>1, <1>2, <1>4 DEF Handover
<1>7. ASSUME NEW x \in Socket
      PROVE  Len(inbox'[x]) <= 1
  <2>1. CASE x = socket
    BY <1>1, <2>1, HangsUp
  <2>2. CASE x # socket
    BY <1>4, <2>2 DEF Handover
  <2> QED BY <2>1, <2>2
<1>8. \A x, y \in Socket : x # y => Plain(x)' \/ Plain(y)'
  BY <1>3 DEF Handover
<1> QED BY <1>1, <1>5, <1>6, <1>7, <1>8 DEF Handover

\* A step that reads nothing and replaces no socket.
Calm ==
  /\ UNCHANGED <<inbox, gateway, socket, connectId, closing>>
  /\ \/ UNCHANGED outbox
     \/ \E t \in RequestType \ {"connect"} : Sends(t)
  /\ \A x \in Socket : \/ sock'[x] = sock[x]
                       \/ sock[x] # "unused" /\ sock'[x] = "dead"
  /\ \/ connectionState' = connectionState
     \/ /\ connectionState' = "reconnecting"
        /\ \E x \in Socket : sock[x] # "unused"

\* A call, a retry that wakes up, a loop that starts or ends is one.
LEMMA CalmSteps ==
  ASSUME IosTypeOK,
         \/ \E w \in Socket : LoopStarts(w) \/ LoopFails(w)
         \/ RetryWakes \/ SendChat \/ PauseOrStop
         \/ \E s \in Session : SelectSession(s)
         \/ UNCHANGED clientVars
  PROVE  Calm /\ UNCHANGED <<lastSeq, activeRunId, ended, missed>>
<1> USE DEF linkFields, streamFields, clientState, gatewayVars, wire, gateway
<1>1. {"history", "send", "abort"} \subseteq RequestType \ {"connect"}
  BY DEF RequestType
<1>2. ASSUME NEW w \in Socket, LoopStarts(w)
      PROVE  Calm /\ UNCHANGED <<lastSeq, activeRunId, ended, missed>>
  BY <1>2 DEF LoopStarts, Calm
<1>3. ASSUME NEW w \in Socket, LoopFails(w)
      PROVE  Calm /\ UNCHANGED <<lastSeq, activeRunId, ended, missed>>
  <2>1. /\ sock[w] # "unused" /\ sock' = [sock EXCEPT ![w] = "dead"]
        /\ connectionState' \in {connectionState, "reconnecting"}
        /\ UNCHANGED <<lastSeq, activeRunId, ended, missed>>
        /\ UNCHANGED <<inbox, outbox, gateway, socket, connectId, closing>>
    BY <1>3 DEF LoopFails, ScheduleReconnect
  <2>2. \A x \in Socket : \/ sock'[x] = sock[x]
                          \/ sock[x] # "unused" /\ sock'[x] = "dead"
    BY <2>1 DEF IosTypeOK, GatewayTypeOK
  <2> QED BY <2>1, <2>2 DEF Calm
<1>4. CASE RetryWakes \/ UNCHANGED clientVars
  BY <1>4 DEF RetryWakes, clientVars, Calm
<1>5. ASSUME NEW s \in Session, SelectSession(s)
      PROVE  Calm /\ UNCHANGED <<lastSeq, activeRunId, ended, missed>>
  <2>1. UNCHANGED outbox \/ \E t \in RequestType \ {"connect"} : Sends(t)
    BY <1>1, <1>5 DEF SelectSession, Hydrate, Request, Sends
  <2> QED BY <1>5, <2>1 DEF SelectSession, Calm
<1>6. CASE SendChat \/ PauseOrStop
  <2>1. \E t \in RequestType \ {"connect"} : Sends(t)
    BY <1>1, <1>6 DEF SendChat, PauseOrStop, Request, Sends, IosTypeOK
  <2> QED BY <1>6, <2>1 DEF SendChat, PauseOrStop, Calm
<1> QED BY <1>2, <1>3, <1>4, <1>5, <1>6

\* What it sends adds to no handshake, and to no inbox.
LEMMA CalmQueues ==
  ASSUME IosTypeOK, Calm, NEW w \in Socket
  PROVE  /\ Quieter(outbox[w], outbox'[w], {"connect"})
         /\ Has(outbox[w], {"history"}) => Has(outbox'[w], {"history"})
         /\ w # socket => outbox'[w] = outbox[w]
         /\ sock'[w] = "open" => sock[w] = "open"
         /\ sock'[w] \in {"unused", "opening"} => sock'[w] = sock[w]
<1>1. GatewayTypeOK
  BY DEF IosTypeOK
<1>2. CASE UNCHANGED outbox
  BY <1>2, SameShake DEF Calm
<1>3. ASSUME NEW t \in RequestType \ {"connect"}, Sends(t)
      PROVE  /\ Quieter(outbox[w], outbox'[w], {"connect"})
             /\ Has(outbox[w], {"history"}) => Has(outbox'[w], {"history"})
             /\ w # socket => outbox'[w] = outbox[w]
  <2>1. PICK s \in Session : Transmit(socket, t, s)
    BY <1>3 DEF Sends
  <2>2. Has(outbox[w], {"history"}) => Has(outbox'[w], {"history"})
    BY <1>1, <2>1, TransmitAdds
  <2> QED BY <1>1, <1>3, <2>2, SendsThere
<1> QED BY <1>2, <1>3 DEF Calm

\* And it keeps the handover.
LEMMA CalmHandover ==
  ASSUME IosTypeOK, Handover, Calm
  PROVE  Handover'
<1>1. /\ UNCHANGED <<inbox, socket, connectId, closing>>
      /\ accepted' = accepted
  BY DEF Calm, gateway
<1>2. \A x \in Socket : /\ Has(outbox'[x], {"connect"})
                              => Has(outbox[x], {"connect"})
                        /\ x # socket => outbox'[x] = outbox[x]
  BY CalmQueues DEF Quieter
<1>3. Plain(socket)' <=> Plain(socket)
  BY <1>1 DEF Plain
<1>4. socket \in Socket /\ Asked(socket)' => Asked(socket)
  <2>1. ASSUME NEW c, c = socket, c \in Socket
        PROVE  Asked(c)' => Asked(c)
    BY <1>1, <1>2, <2>1 DEF Asked, Plain
  <2>2. Asked(socket)' => \E c : c = socket /\ Asked(c)'
    BY <1>1 DEF Asked, Plain
  <2> QED BY <2>1, <2>2
<1>5. Alone(socket)' <=> Alone(socket)
  BY <1>1 DEF Alone
<1>6. /\ \A x \in Socket : sock'[x] \in Live => x = socket
      /\ \A x \in Socket : sock'[x] = "unused" =>
           /\ x # socket /\ x \notin accepted'
           /\ inbox'[x] = <<>> /\ outbox'[x] = <<>>
  BY <1>1, <1>2 DEF Handover, Calm, Live
<1>7. \A x \in Socket : Plain(x)' <=> Plain(x)
  BY <1>1 DEF Plain
<1>8. connectionState' = "connected" => connectionState = "connected"
  BY DEF Calm
<1>9. socket = NoSocket /\ ~closing =>
        /\ connectionState' = "disconnected"
        /\ \A x \in Socket : sock'[x] = "unused"
  BY DEF Calm, Handover
<1> QED BY <1>1, <1>4, <1>5, <1>6, <1>7, <1>8, <1>9 DEF Handover

\* Every step is one of five kinds.
LEMMA StepKinds ==
  ASSUME IosTypeOK, [ClientNext]_clientVars
  PROVE  \/ FarEnd
         \/ \E w \in Socket : LoopReads(w)
         \/ \E w \in Socket : Connect(w)
         \/ Close
         \/ Calm /\ UNCHANGED <<lastSeq, activeRunId, ended, missed>>
BY CalmSteps DEF ClientNext, UserConnects, RetryFires

\* Whenever the main actor lets connect() or close() in, no more than one
\* frame is left of a socket that was replaced, and all of those are read
\* before the next socket asks to connect: none comes in among the replies and
\* events of the connection that follows.
THEOREM HandoverAlways == ClientSpec => []Handover
<1>1. ClientInit => Handover
  <2> SUFFICES ASSUME ClientInit PROVE Handover
    OBVIOUS
  <2>1. /\ socket = NoSocket /\ connectionState = "disconnected"
        /\ NoSocket \notin Socket /\ accepted = {}
        /\ \A w \in Socket : /\ sock[w] = "unused" /\ inbox[w] = <<>>
                             /\ outbox[w] = <<>>
    BY IosAssumption DEF ClientInit, GatewayInit, IosAssumption
  <2>2. ASSUME NEW w \in Socket
        PROVE  Plain(w)
    <3>1. inbox[w] = <<>>
      BY <2>1
    <3> QED BY <3>1 DEF Plain, Has
  <2> QED BY <2>1, <2>2 DEF Handover, Live
<1>2. IosTypeOK /\ Handover /\ [ClientNext]_clientVars => Handover'
  BY GatewayAssumption, IosAssumption, StepKinds, FarEndHandover,
     ReadHandover, ConnectHandover, CloseHandover, CalmHandover
<1> QED BY <1>1, <1>2, IosTypeCorrect, PTL DEF ClientSpec

(***************************************************************************)
(* One handshake, and numbers that were used                               *)
(***************************************************************************)

\* On the current socket.
Shaken ==
  \A w \in Socket : w = socket => Handshake(w) /\ NumbersUsed(w)

\* A request sent while a frame is handled adds no handshake but the answer
\* to a challenge.
LEMMA ReadSends ==
  ASSUME GatewayAssumption, IosTypeOK, NEW w \in Socket, LoopReads(w),
         NEW x \in Socket, NEW m, m = Head(inbox[w])
  PROVE  \/ Quieter(outbox[x], outbox'[x], {"connect"})
         \/ /\ x = w /\ w = socket /\ m.type = "challenge"
            /\ \E s \in Session : Transmit(w, "connect", s)
<1>1. GatewayTypeOK /\ "connect" \in RequestType
  BY DEF IosTypeOK, RequestType
<1>2. \/ UNCHANGED outbox
      \/ \E t \in RequestType \ {"connect"} : Sends(t)
      \/ w = socket /\ Sends("connect") /\ m.type = "challenge"
  BY ReadFrame
<1>3. CASE UNCHANGED outbox
  BY <1>3, SameShake
<1>4. CASE \E t \in RequestType \ {"connect"} : Sends(t)
  BY <1>1, <1>4, SendsThere
<1>5. CASE w = socket /\ Sends("connect") /\ m.type = "challenge"
  <2>1. CASE x = w
    BY <1>5, <2>1 DEF Sends
  <2>2. CASE x # w
    BY <1>1, <1>5, <2>2, SendsThere, SameShake
  <2> QED BY <2>1, <2>2
<1> QED BY <1>2, <1>3, <1>4, <1>5

\* Every step keeps the current socket to one handshake.
LEMMA ShakenStep ==
  ASSUME GatewayAssumption, IosAssumption, IosTypeOK, Handover, Shaken,
         [ClientNext]_clientVars
  PROVE  Shaken'
<1>0. /\ GatewayTypeOK /\ gwSeq \in Nat
      /\ \A x \in Socket : inbox[x] \in Seq(Frame)
  BY DEF IosTypeOK, GatewayTypeOK
<1>1. CASE FarEnd
  <2>1. PICK w \in Socket : GatewayMoves(w) /\ w = socket
    BY <1>1, FarEndMoves
  <2>2. socket' = socket /\ Handshake(w) /\ NumbersUsed(w)
    BY <1>1, <2>1 DEF FarEnd, clientState, linkFields, Shaken
  <2>3. Handshake(w)' /\ NumbersUsed(w)'
    BY <1>0, <2>1, <2>2, GatewayHandshake, GatewayNumbers
  <2> QED BY <2>1, <2>2, <2>3 DEF Shaken
<1>2. ASSUME NEW w \in Socket, LoopReads(w)
      PROVE  Shaken'
  <2>0. PICK m : m = Head(inbox[w])
    OBVIOUS
  <2>1. /\ inbox[w] # <<>> /\ inbox'[w] = Tail(inbox[w])
        /\ \A x \in Socket \ {w} : inbox'[x] = inbox[x]
        /\ UNCHANGED <<sock, gateway, socket>>
    BY <1>2, <2>0, ReadFrame
  <2>2. UNCHANGED <<accepted, gwSeq, firstSent>>
    BY <2>1 DEF gateway
  <2>3. ASSUME NEW c \in Socket, c = socket
        PROVE  Handshake(c)' /\ NumbersUsed(c)'
    <3>1. Handshake(c) /\ NumbersUsed(c)
      BY <2>3 DEF Shaken
    <3>2. \/ Quieter(outbox[c], outbox'[c], {"connect"})
          \/ /\ c = w /\ m.type = "challenge"
             /\ \E s \in Session : Transmit(c, "connect", s)
      BY <1>2, <2>0, ReadSends
    <3>3. CASE c = w /\ Quieter(outbox[c], outbox'[c], {"connect"})
      BY <1>0, <2>1, <2>2, <3>1, <3>3, ReadHandshake, ReadNumbers
    <3>4. CASE /\ c = w /\ m.type = "challenge"
               /\ \E s \in Session : Transmit(c, "connect", s)
      <4>1. Head(inbox[c]).type \in Opening /\ sock'[c] = sock[c]
        BY <2>0, <2>1, <3>4 DEF Opening
      <4>2. Handshake(c)'
        BY <1>0, <2>1, <3>1, <3>4, <4>1, AskHandshake
      <4> QED BY <1>0, <2>1, <2>2, <3>1, <3>4, <4>1, <4>2, ReadNumbers
    <3>5. CASE c # w /\ Quieter(outbox[c], outbox'[c], {"connect"})
      <4>1. inbox'[c] = inbox[c] /\ sock'[c] = sock[c]
        BY <2>1, <3>5
      <4>2. Handshake(c)'
        BY <3>1, <3>5, <4>1, CalmHandshake, SameShake
      <4> QED BY <2>2, <3>1, <4>1, <4>2 DEF NumbersUsed
    <3> QED BY <3>2, <3>3, <3>4, <3>5
  <2> QED BY <2>1, <2>3 DEF Shaken
<1>3. ASSUME NEW w \in Socket, Connect(w)
      PROVE  Shaken'
  <2>1. /\ w # socket /\ w \notin accepted /\ inbox[w] = <<>>
        /\ outbox[w] = <<>> /\ socket' = w /\ sock'[w] = "opening"
        /\ accepted' = accepted /\ CancelTraffic
    BY <1>3 DEF Connect, Handover, gateway, HungUp
  <2>2. inbox'[w] = <<>> /\ outbox'[w] = <<>>
    BY <2>1, HangsUp
  <2> QED BY <2>1, <2>2 DEF Shaken, Handshake, NumbersUsed, Has, Once
<1>4. CASE Close
  BY <1>4, IosAssumption DEF Close, Shaken, IosAssumption
<1>5. CASE Calm
  <2>1. UNCHANGED <<inbox, socket, accepted, gwSeq, firstSent>>
    BY <1>5 DEF Calm, gateway
  <2>2. ASSUME NEW c \in Socket, c = socket
        PROVE  Handshake(c)' /\ NumbersUsed(c)'
    <3>1. /\ Handshake(c) /\ NumbersUsed(c)
          /\ Quieter(outbox[c], outbox'[c], {"connect"})
          /\ sock'[c] = "open" => sock[c] = "open"
          /\ sock'[c] \in {"unused", "opening"} => sock'[c] = sock[c]
      BY <1>5, <2>2, CalmQueues DEF Shaken
    <3>2. Handshake(c)'
      BY <2>1, <3>1, CalmHandshake, SameShake
    <3> QED BY <2>1, <3>1, <3>2 DEF NumbersUsed
  <2> QED BY <2>1, <2>2 DEF Shaken
<1> QED BY <1>1, <1>2, <1>3, <1>4, <1>5, StepKinds

LEMMA ShakenAlways == ClientSpec => []Shaken
<1>1. ClientInit => Shaken
  BY IosAssumption DEF ClientInit, Shaken, IosAssumption
<1>2. IosTypeOK /\ Handover /\ Shaken /\ [ClientNext]_clientVars => Shaken'
  BY GatewayAssumption, IosAssumption, ShakenStep
<1> QED BY <1>1, <1>2, IosTypeCorrect, HandoverAlways, PTL DEF ClientSpec

(***************************************************************************)
(* A run whose end was told                                                *)
(***************************************************************************)

\* What a replaced socket left revives no run.
Leaves(w, told, last) ==
  \A i \in DOMAIN inbox[w] :
    Dated(inbox[w][i]) /\ Harmless(w, inbox[w][i], told, last)

\* The runs whose end was told are over, the one in progress is not of them,
\* and neither the current socket nor those before it bring one of them back.
RunsEnd ==
  /\ \A r \in ended : r \in Run /\ runState[r] = "over"
  /\ activeRunId \notin ended
  /\ \A w \in Socket : IF w = socket THEN Telling(w, ended, lastSeq)
                                     ELSE Leaves(w, ended, lastSeq)

\* A socket nobody was let in on tells of nothing.
LEMMA PlainTells ==
  ASSUME NEW w \in Socket, w \notin accepted', Plain(w)', NEW told, NEW last
  PROVE  Telling(w, told, last)' /\ Leaves(w, told, last)'
<1>1. \A i \in DOMAIN inbox'[w] : inbox'[w][i].type \notin Answer
  BY DEF Plain, Has
<1>2. /\ Stream \subseteq Answer /\ {"delta", "sendOk"} \subseteq Answer
      /\ {"done", "aborted"} \subseteq Answer
  BY DEF Stream, Answer, EventType, ReplyType
<1>3. /\ \A i \in DOMAIN inbox'[w] : /\ inbox'[w][i].type \notin Stream
                                     /\ ~NamesRun(inbox'[w][i])
                                     /\ ~EndsRun(inbox'[w][i])
  BY <1>1, <1>2 DEF NamesRun, EndsRun
<1>4. Greeted(w)'
  BY <1>3 DEF Greeted, Has
<1>5. Ordered(w, last)'
  BY <1>3 DEF Ordered, Dated, After
<1>6. NoneRevived(w, told, last)' /\ Leaves(w, told, last)'
  BY <1>3 DEF NoneRevived, Harmless, Leaves, Dated
<1> QED BY <1>4, <1>5, <1>6 DEF Telling

\* The Gateway names no run it has ended but in events it sends again.
LEMMA FarEndRuns ==
  ASSUME GatewayAssumption, IosTypeOK, Handover, Shaken, RunsEnd, FarEnd
  PROVE  RunsEnd'
<1>1. PICK w \in Socket :
        /\ GatewayMoves(w) /\ w = socket
        /\ \A x \in Socket \ {w} : inbox'[x] = inbox[x]
  BY FarEndMoves
<1>2. /\ GatewayTypeOK /\ GatewayNext /\ NumbersUsed(w) /\ Handshake(w)
      /\ UNCHANGED <<socket, activeRunId, lastSeq, ended>>
  BY <1>1 DEF Shaken, IosTypeOK, FarEnd, clientState, linkFields,
     streamFields
<1>3. RunsOnward
  BY <1>2, RunsGoOn
<1>4. PICK told, last : told = ended /\ last = lastSeq
  OBVIOUS
<1>5. /\ \A r \in told : r \in Run /\ runState[r] = "over"
      /\ Telling(w, told, last)
  BY <1>1, <1>4 DEF RunsEnd
<1>6. Telling(w, told, last)'
  BY <1>1, <1>2, <1>3, <1>5, GatewayRuns
<1>7. Telling(w, ended, lastSeq)'
  BY <1>2, <1>4, <1>6 DEF Telling, Ordered, Repeats, After, Seen, NoneRevived,
     Harmless, Dropped
<1>8. (\A r \in ended : r \in Run /\ runState[r] = "over")'
  BY <1>2, <1>3 DEF RunsEnd, RunsOnward
<1>9. ASSUME NEW x \in Socket \ {w}
      PROVE  Leaves(x, ended, lastSeq)'
  <2>1. Leaves(x, ended, lastSeq) /\ inbox'[x] = inbox[x]
    BY <1>1 DEF RunsEnd
  <2> QED BY <1>2, <1>3, <2>1 DEF Leaves, Dated, NamesRun, Harmless, Dropped,
          RunsOnward
<1> QED BY <1>1, <1>2, <1>7, <1>8, <1>9 DEF RunsEnd

\* What a loop makes of a frame.
LEMMA ReadTakes ==
  ASSUME IosTypeOK, NEW w \in Socket, LoopReads(w),
         NEW m \in Frame, m = Head(inbox[w]),
         NEW told, NEW last, NEW active, NEW told2, NEW last2, NEW active2,
         told = ended, last = lastSeq, active = activeRunId,
         told2 = ended', last2 = lastSeq', active2 = activeRunId'
  PROVE  /\ Takes(m, told, last, active, told2, last2, active2)
         /\ m.type \notin Answer
              => told2 = told /\ last2 = last /\ active2 = active
<1> USE DEF streamFields
<1>0. last \in Nat \cup {-1}
  BY DEF IosTypeOK, NoSeq
<1>1. CASE OnEvent(w, m)
  <2>1. /\ m.type \in Answer /\ m.type \in EventType
        /\ m.type # "connectOk" /\ m.seq \in Nat
    BY <1>1 DEF OnEvent, Answer, EventType, Frame
  <2>2. CASE Stale(m)
    <3>1. last2 = last /\ m.seq <= last
      BY <1>1, <2>2 DEF OnEvent, Stale
    <3>2. told2 = told /\ active2 = active
      BY <1>1, <2>2 DEF OnEvent
    <3> QED BY <1>0, <2>1, <3>1, <3>2 DEF Takes
  <2>3. CASE ~Stale(m)
    <3>1. /\ active2 = IF m.type = "delta" THEN m.run ELSE NoRun
          /\ told2 = IF m.type = "delta" THEN told ELSE told \cup {m.run}
      BY <1>1, <2>3 DEF OnEvent
    <3>2. CASE m.seq = NoNumber
      <4>1. last2 = last
        BY <1>1, <2>3, <3>2 DEF OnEvent, SeesNumber
      <4> QED BY <1>0, <2>1, <3>1, <3>2, <4>1 DEF Takes
    <3>3. CASE m.seq # NoNumber
      <4>1. last2 = m.seq
        BY <1>1, <2>3, <3>3 DEF OnEvent, SeesNumber
      <4>2. last < m.seq
        BY <1>0, <2>1, <2>3, <3>3 DEF Stale, NoSeq
      <4> QED BY <1>0, <2>1, <3>1, <3>3, <4>1, <4>2 DEF Takes
    <3> QED BY <3>2, <3>3
  <2> QED BY <2>2, <2>3
<1>2. CASE OnSendOk(w, m) \/ OnAbortOk(w, m) \/ OnConnectOk(w, m)
  BY <1>0, <1>2 DEF OnSendOk, OnAbortOk, OnConnectOk, Takes, Answer, ReplyType,
     EventType
<1>3. CASE \/ OnChallenge(w, m) \/ OnPairingRequired(w, m)
           \/ OnHistory(w, m) \/ OnIgnored(w, m)
  <2>1. m.type \notin EventType
    BY <1>3 DEF OnChallenge, OnPairingRequired, OnHistory, OnIgnored, EventType
  <2>2. told2 = told /\ last2 = last /\ active2 = active
    BY <1>3 DEF OnChallenge, OnPairingRequired, OnHistory, OnIgnored
  <2> QED BY <1>0, <2>1, <2>2 DEF Takes
<1> QED BY <1>1, <1>2, <1>3 DEF LoopReads

\* What the current loop is told of a run comes before the run's end.
LEMMA CurrentRuns ==
  ASSUME GatewayAssumption, IosTypeOK, Handover, RunsEnd,
         NEW w \in Socket, LoopReads(w), w = socket
  PROVE  RunsEnd'
<1>0. PICK m : m = Head(inbox[w])
  OBVIOUS
<1>1. /\ inbox[w] \in Seq(Frame) /\ inbox[w] # <<>> /\ m \in Frame
      /\ inbox'[w] = Tail(inbox[w])
      /\ \A x \in Socket \ {w} : inbox'[x] = inbox[x]
      /\ Alone(w) /\ UNCHANGED <<sock, gateway, socket>>
  BY <1>0, ReadFrame
<1>2. PICK told, last, active, told2, last2, active2 :
        /\ told = ended /\ last = lastSeq /\ active = activeRunId
        /\ told2 = ended' /\ last2 = lastSeq' /\ active2 = activeRunId'
  OBVIOUS
<1>3. /\ last \in Int /\ last2 \in Int /\ firstSent \in Seq(EventFrame)
      /\ UNCHANGED <<accepted, firstSent, runState>>
      /\ sock'[w] = "open" => sock[w] = "open"
  <2>1. IosTypeOK'
    BY ReadType
  <2>2. last \in Int /\ last2 \in Int
    BY <1>2, <2>1 DEF IosTypeOK, NoSeq
  <2>3. firstSent \in Seq(EventFrame)
    BY DEF IosTypeOK, GatewayTypeOK
  <2>4. UNCHANGED <<accepted, firstSent, runState, sock>>
    BY <1>1 DEF gateway
  <2> QED BY <2>2, <2>3, <2>4
<1>4. /\ Telling(w, told, last) /\ active \notin told
      /\ \A r \in told : r \in Run /\ runState[r] = "over"
  BY <1>2 DEF RunsEnd
<1>5. Takes(m, told, last, active, told2, last2, active2)
  BY <1>0, <1>1, <1>2, ReadTakes
<1>6. w \in accepted => ~Has(outbox'[w], {"connect"})
  <2>1. w \in accepted => ~Has(outbox[w], {"connect"})
                          /\ ~Has(inbox[w], {"challenge"})
    BY <1>4 DEF Telling, Greeted
  <2>2. m.type = "challenge" => Has(inbox[w], {"challenge"})
    BY <1>0, <1>1, TailShake
  <2>3. \/ Quieter(outbox[w], outbox'[w], {"connect"})
        \/ m.type = "challenge"
    BY <1>0, ReadSends
  <2> QED BY <2>1, <2>2, <2>3 DEF Quieter
<1>7. /\ \A r \in told2 : r \in Run /\ runState[r] = "over"
      /\ active2 \notin told2
      /\ Telling(w, told2, last2)'
  <2>1. inbox[w] \in Seq(Frame) /\ inbox[w] # <<>>
    BY <1>1
  <2>2. inbox'[w] = Tail(inbox[w]) /\ m = Head(inbox[w])
    BY <1>0, <1>1
  <2>3. last \in Int /\ last2 \in Int /\ firstSent \in Seq(EventFrame)
    BY <1>3
  <2>4. UNCHANGED <<accepted, firstSent, runState>>
    BY <1>3
  <2>5. sock'[w] = "open" => sock[w] = "open"
    BY <1>3
  <2>6. Telling(w, told, last)
    BY <1>4
  <2>7. active \notin told /\ \A r \in told : r \in Run /\ runState[r] = "over"
    BY <1>4
  <2>8. /\ \A r \in told2 : r \in Run /\ runState[r] = "over"
        /\ active2 \notin told2
    BY ONLY <1>5, <1>6, <2>1, <2>2, <2>3, <2>4, <2>5, <2>6, <2>7,
       GatewayAssumption, w \in Socket, ReadRuns
  <2>9. Telling(w, told2, last2)'
    BY <1>5, <1>6, <2>1, <2>2, <2>3, <2>4, <2>5, <2>6, <2>7,
       GatewayAssumption, ReadRuns, Zenon
  <2> QED BY <2>8, <2>9
<1>8. Telling(w, ended, lastSeq)'
  BY <1>2, <1>7 DEF Telling, Ordered, Repeats, After, Seen, NoneRevived,
     Harmless, Dropped
<1>9. \A x \in Socket \ {w} : Leaves(x, ended, lastSeq)'
  BY <1>1 DEF Leaves, Alone
<1> QED BY <1>1, <1>2, <1>3, <1>7, <1>8, <1>9 DEF RunsEnd

\* What a cancelled loop is told is of what its socket left, and of a time
\* when the current socket tells of nothing yet.
LEMMA LeftoverRuns ==
  ASSUME GatewayAssumption, IosTypeOK, Handover, Handover', RunsEnd,
         NEW w \in Socket, LoopReads(w), w # socket
  PROVE  RunsEnd'
<1>0. PICK m : m = Head(inbox[w])
  OBVIOUS
<1>1. /\ inbox[w] \in Seq(Frame) /\ inbox[w] # <<>> /\ m \in Frame
      /\ inbox'[w] = Tail(inbox[w])
      /\ \A x \in Socket \ {w} : inbox'[x] = inbox[x]
      /\ UNCHANGED <<gateway, socket>>
  BY <1>0, ReadFrame
<1>2. PICK told, last, active, told2, last2, active2 :
        /\ told = ended /\ last = lastSeq /\ active = activeRunId
        /\ told2 = ended' /\ last2 = lastSeq' /\ active2 = activeRunId'
  OBVIOUS
<1>3. /\ last \in Int /\ last2 \in Int /\ UNCHANGED <<accepted, runState>>
      /\ Leaves(w, told, last) /\ active \notin told
      /\ \A r \in told : r \in Run /\ runState[r] = "over"
  <2>1. IosTypeOK'
    BY ReadType
  <2> QED BY <1>1, <1>2, <2>1 DEF IosTypeOK, gateway, NoSeq, RunsEnd
<1>4. /\ Takes(m, told, last, active, told2, last2, active2)
      /\ m.type \notin Answer
           => told2 = told /\ last2 = last /\ active2 = active
  BY <1>0, <1>1, <1>2, ReadTakes
<1>5. /\ inbox'[w] = <<>> /\ DOMAIN inbox[w] = {1} /\ inbox[w][1] = m
      /\ ~Has(inbox'[w], {"connectOk"})
  <2>1. Len(inbox[w]) <= 1
    BY DEF Handover
  <2>2. /\ inbox'[w] = <<>> /\ DOMAIN inbox[w] = {1} /\ inbox[w][1] = m
    BY <1>0, <1>1, <2>1
  <2> QED BY <2>2 DEF Has
<1>6. Dated(m) /\ Harmless(w, m, told, last)
  BY <1>3, <1>5 DEF Leaves
<1>7. /\ m.type \in Stream => ~Has(inbox[w], {"connectOk"})
      /\ m.type = "connectOk" => Has(inbox[w], {"connectOk"})
      /\ m.type \in Answer => ~Plain(w)
  BY <1>5 DEF Has, Stream, EventType, Plain
<1>8. /\ \A r \in told2 : r \in Run /\ runState[r] = "over"
      /\ active2 \notin told2
  BY <1>1, <1>3, <1>4, <1>5, <1>6, <1>7, TakesWell
<1>9. ASSUME NEW x \in Socket \ {w}, x # socket
      PROVE  Leaves(x, told2, last2)'
  <2>1. CASE m.type \in Answer
    <3>1. Plain(x)
      BY <1>7, <2>1 DEF Handover
    <3>2. Plain(x)'
      BY <1>1, <3>1 DEF Plain
    <3>3. \A i \in DOMAIN inbox'[x] : inbox'[x][i].type \notin Answer
      BY <3>2 DEF Plain, Has
    <3>4. \A i \in DOMAIN inbox'[x] : /\ ~NamesRun(inbox'[x][i])
                                      /\ ~EndsRun(inbox'[x][i])
      BY <3>3 DEF NamesRun, EndsRun, Answer, EventType, ReplyType
    <3> QED BY <3>4 DEF Leaves, Dated, Harmless
  <2>2. CASE m.type \notin Answer
    <3>1. Leaves(x, told, last)
      BY <1>2, <1>9 DEF RunsEnd
    <3> QED BY <1>1, <1>3, <1>4, <2>2, <3>1 DEF Leaves, Dated, Harmless,
            Dropped
  <2> QED BY <2>1, <2>2
<1>10. ASSUME NEW c \in Socket, c = socket
       PROVE  Telling(c, told2, last2)'
  <2>1. c \notin accepted /\ Plain(c)
    BY <1>1, <1>10, LeftoverFirst DEF Asked
  <2>2. c \notin accepted' /\ Plain(c)'
    BY <1>1, <1>3, <1>10, <2>1 DEF Plain
  <2> QED BY <2>2, PlainTells
<1>11. Leaves(w, told2, last2)'
  BY <1>5 DEF Leaves
<1>12. ASSUME NEW x \in Socket
       PROVE  IF x = socket' THEN Telling(x, ended, lastSeq)'
                             ELSE Leaves(x, ended, lastSeq)'
  <2>1. CASE x = socket
    <3>1. Telling(x, told2, last2)'
      BY <1>10, <2>1
    <3>2. Telling(x, ended, lastSeq)'
      BY <1>2, <3>1 DEF Telling, Ordered, Repeats, After, Seen, NoneRevived,
         Harmless, Dropped
    <3> QED BY <1>1, <2>1, <3>2
  <2>2. CASE x # socket
    <3>1. Leaves(x, told2, last2)'
      BY <1>9, <1>11, <2>2
    <3>2. Leaves(x, ended, lastSeq)'
      BY <1>2, <3>1 DEF Leaves, Harmless, Dropped
    <3> QED BY <1>1, <2>2, <3>2
  <2> QED BY <2>1, <2>2
<1> QED BY <1>2, <1>3, <1>8, <1>12 DEF RunsEnd

\* What a socket leaves when it is cancelled is as harmless as it was.
LEMMA HangsUpRuns ==
  ASSUME IosTypeOK, RunsEnd, CancelTraffic, UNCHANGED runState,
         UNCHANGED <<ended, lastSeq>>, NEW x \in Socket
  PROVE  Leaves(x, ended, lastSeq)'
<1>1. CASE x # socket
  <2>1. Leaves(x, ended, lastSeq) /\ inbox'[x] = inbox[x]
    BY <1>1, HangsUp DEF RunsEnd
  <2> QED BY <2>1 DEF Leaves, Dated, Harmless, Dropped
<1>2. CASE x = socket
  <2>1. \A i \in DOMAIN inbox'[x] : /\ i = 1 /\ 1 \in DOMAIN inbox[x]
                                    /\ inbox'[x][1] = inbox[x][1]
    BY <1>2, HangsUp
  <2>2. Telling(x, ended, lastSeq)
    BY <1>2 DEF RunsEnd
  <2>3. ASSUME NEW i \in DOMAIN inbox'[x]
        PROVE  /\ i \in DOMAIN inbox[x] /\ inbox'[x][i] = inbox[x][i]
               /\ Dated(inbox[x][i])
               /\ Harmless(x, inbox[x][i], ended, lastSeq)
    BY <2>1, <2>2 DEF Telling, Ordered, NoneRevived
  <2>4. ~Has(inbox[x], {"connectOk"}) => ~Has(inbox'[x], {"connectOk"})
    BY <2>3 DEF Has
  <2> QED BY <2>3, <2>4 DEF Leaves, Dated, Harmless, Dropped
<1> QED BY <1>1, <1>2

\* Every step leaves the runs whose end was told where they are.
LEMMA RunsStep ==
  ASSUME GatewayAssumption, IosAssumption, IosTypeOK, Handover, Handover',
         Shaken, RunsEnd, [ClientNext]_clientVars
  PROVE  RunsEnd'
<1>1. CASE FarEnd
  BY <1>1, FarEndRuns
<1>2. ASSUME NEW w \in Socket, LoopReads(w)
      PROVE  RunsEnd'
  BY <1>2, CurrentRuns, LeftoverRuns
<1>3. ASSUME NEW w \in Socket, Connect(w)
      PROVE  RunsEnd'
  <2>1. /\ w # socket /\ w \notin accepted /\ inbox[w] = <<>>
        /\ socket' = w /\ CancelTraffic
        /\ UNCHANGED <<accepted, runState, ended, lastSeq, activeRunId>>
    BY <1>3 DEF Connect, Handover, gateway, streamFields
  <2>2. w \notin accepted' /\ Plain(w)'
    BY <2>1, HangsUp DEF Plain, Has
  <2>3. PICK told, last : told = ended /\ last = lastSeq
    OBVIOUS
  <2>4. Telling(w, told, last)'
    BY <2>2, PlainTells
  <2>5. Telling(w, ended, lastSeq)'
    BY <2>1, <2>3, <2>4 DEF Telling, Ordered, Repeats, After, Seen, NoneRevived,
     Harmless, Dropped
  <2>6. \A x \in Socket : Leaves(x, ended, lastSeq)'
    BY <2>1, HangsUpRuns
  <2> QED BY <2>1, <2>5, <2>6 DEF RunsEnd
<1>4. CASE Close
  <2>1. /\ socket' = NoSocket /\ NoSocket \notin Socket /\ CancelTraffic
        /\ UNCHANGED <<runState, ended, lastSeq, activeRunId>>
    BY <1>4, IosAssumption DEF Close, gateway, streamFields, IosAssumption
  <2>2. \A x \in Socket : Leaves(x, ended, lastSeq)'
    BY <2>1, HangsUpRuns
  <2> QED BY <2>1, <2>2 DEF RunsEnd
<1>5. CASE Calm /\ UNCHANGED <<lastSeq, activeRunId, ended, missed>>
  <2>1. /\ UNCHANGED <<inbox, socket, accepted, runState, firstSent>>
        /\ UNCHANGED <<lastSeq, activeRunId, ended>>
    BY <1>5 DEF Calm, gateway
  <2>2. ASSUME NEW x \in Socket, x = socket
        PROVE  Telling(x, ended, lastSeq)'
    <3>1. PICK told, last : told = ended /\ last = lastSeq
      OBVIOUS
    <3>2. Telling(x, told, last)
      BY <2>2, <3>1 DEF RunsEnd
    <3>3. /\ Has(outbox'[x], {"connect"}) => Has(outbox[x], {"connect"})
          /\ sock'[x] = "open" => sock[x] = "open"
      BY <1>5, CalmQueues DEF Quieter
    <3>4. Telling(x, told, last)'
      BY <2>1, <3>2, <3>3, TellingRests DEF RunsOnward
    <3> QED BY <2>1, <3>1, <3>4 DEF Telling, Ordered, Repeats, After, Seen,
            NoneRevived, Harmless, Dropped
  <2>3. ASSUME NEW x \in Socket, x # socket
        PROVE  Leaves(x, ended, lastSeq)'
    <3>1. Leaves(x, ended, lastSeq)
      BY <2>3 DEF RunsEnd
    <3> QED BY <2>1, <3>1 DEF Leaves, Harmless, Dropped, Dated
  <2> QED BY <2>1, <2>2, <2>3 DEF RunsEnd
<1> QED BY <1>1, <1>2, <1>3, <1>4, <1>5, StepKinds

\* No run has ended when the client is started.
LEMMA RunsEndInit == ClientInit => RunsEnd
<1> SUFFICES ASSUME ClientInit PROVE RunsEnd
  OBVIOUS
<1>1. /\ ended = {} /\ socket = NoSocket /\ NoSocket \notin Socket
      /\ \A w \in Socket : inbox[w] = <<>>
  BY IosAssumption DEF ClientInit, GatewayInit, IosAssumption
<1> QED BY <1>1 DEF RunsEnd, Leaves

LEMMA RunsEndAlways == ClientSpec => []RunsEnd
<1>1. IosTypeOK /\ Handover /\ Handover' /\ Shaken /\ RunsEnd
        /\ [ClientNext]_clientVars => RunsEnd'
  BY GatewayAssumption, IosAssumption, RunsStep
<1> QED BY <1>1, RunsEndInit, IosTypeCorrect, HandoverAlways, ShakenAlways,
           PTL DEF ClientSpec

\* The composer offers Pause for no run whose end the client has been told,
\* though events are sent again, and though a loop that was cancelled reads
\* one more frame after connect() or close() replaced its socket.
THEOREM NoGhostRunAlways == ClientSpec => []NoGhostRun
<1>1. RunsEnd => NoGhostRun
  BY DEF RunsEnd, NoGhostRun
<1> QED BY <1>1, RunsEndAlways, PTL

(***************************************************************************)
(* The latest event, before and after the hello                            *)
(***************************************************************************)

\* The hello of a socket was sent and is not on its way.
Heard(w) == w \in accepted /\ ~Has(inbox[w], {"connectOk"})

\* A client that calls itself connected before the current socket said hello
\* has seen no event since; one that heard it has seen none to come.
LastSeen ==
  \A w \in Socket : w = socket /\ connectionState = "connected" =>
    /\ ~Heard(w) => lastSeq = NoSeq
    /\ sock[w] = "open" => lastSeq <= gwSeq

\* The Gateway says hello once.
LEMMA HeardOnce ==
  ASSUME GatewayAssumption, GatewayTypeOK, NEW w \in Socket, GatewayMoves(w),
         Heard(w), Greeted(w)
  PROVE  Heard(w)'
<1> USE DEF gateway
<1>0. /\ w \in accepted /\ ~Has(inbox[w], {"connectOk"})
      /\ ~Has(outbox[w], {"connect"})
      /\ inbox[w] \in Seq(Frame) /\ outbox[w] \in Seq(RequestFrame)
      /\ MainSession \in Session
  BY DEF Heard, Greeted, GatewayTypeOK, GatewayAssumption
<1>1. ASSUME NEW f \in Frame, f.type # "connectOk", Deliver(w, f)
      PROVE  ~Has(inbox'[w], {"connectOk"})
  <2>1. inbox'[w] = Append(inbox[w], f)
    BY <1>1 DEF Deliver, GatewayTypeOK
  <2> QED BY <1>0, <1>1, <2>1, AppendShake DEF Quieter
<1>2. w \in accepted'
  BY <1>0, AcceptedGrows DEF GatewayNext, GatewayMoves
<1>3. CASE Opens(w)
  <2>1. PICK c \in {"challenge", "badChallenge"} :
               Deliver(w, Reply(c, MainSession, NoRun))
    BY <1>3 DEF Opens
  <2>2. /\ Reply(c, MainSession, NoRun) \in Frame
        /\ Reply(c, MainSession, NoRun).type # "connectOk"
    BY <1>0, ReplyIsFrame DEF Reply
  <2> QED BY <1>1, <1>2, <2>1, <2>2 DEF Heard
<1>4. CASE Serve(w)
  <2> DEFINE q == Head(outbox[w])
  <2>1. outbox[w] # <<>>
    BY <1>4 DEF Serve
  <2>2. q.type # "connect"
    BY <1>0, <2>1, TailShake
  <2>3. PICK t \in ReplyType, s \in Session, r \in Run \cup {NoRun} :
          Deliver(w, Reply(t, s, r)) /\ t # "connectOk"
    BY <1>4, <2>2, ServeKinds
  <2>4. /\ Reply(t, s, r) \in Frame
        /\ Reply(t, s, r).type # "connectOk"
    BY <2>3, ReplyIsFrame DEF Reply
  <2> QED BY <1>1, <1>2, <2>3, <2>4 DEF Heard
<1>5. CASE Resend(w)
  <2>1. Head(firstSent) \in EventFrame /\ Deliver(w, Head(firstSent))
    BY <1>5 DEF Resend, GatewayTypeOK
  <2>2. Head(firstSent) \in Frame /\ Head(firstSent).type # "connectOk"
    BY <2>1 DEF EventFrame, Frame, EventType
  <2> QED BY <1>1, <1>2, <2>1, <2>2 DEF Heard
<1>6. ASSUME NEW r \in Run, NEW t \in EventType,
             EmitEvent(w, r, t) \/ EmitUnnumbered(w, r, t)
      PROVE  Heard(w)'
  <2>1. PICK n \in Nat : Deliver(w, Event(t, r, n)) \/ inbox' = inbox
    BY <1>6 DEF EmitEvent, EmitUnnumbered, NoNumber, GatewayTypeOK
  <2>2. Event(t, r, n) \in Frame /\ Event(t, r, n).type # "connectOk"
    BY EventIsFrame DEF EventType
  <2> QED BY <1>0, <1>1, <1>2, <2>1, <2>2 DEF Heard
<1>7. CASE NetworkFails(w)
  <2>1. inbox'[w] = <<>>
    BY <1>7 DEF NetworkFails, GatewayTypeOK
  <2> QED BY <1>2, <2>1 DEF Heard, Has
<1>8. CASE ServerCloses(w)
  BY <1>0, <1>2, <1>8 DEF ServerCloses, Heard
<1> QED BY <1>3, <1>4, <1>5, <1>6, <1>7, <1>8 DEF GatewayMoves

\* While frames are read, the client becomes connected by a hello only, sees
\* an event, or leaves what it has seen.
LEMMA ReadKinds ==
  ASSUME IosTypeOK, NEW w \in Socket, LoopReads(w), NEW m, m = Head(inbox[w])
  PROVE  \/ m.type = "connectOk" /\ lastSeq' = NoSeq /\ UNCHANGED missed
         \/ /\ m.type \in EventType /\ m.seq # NoNumber /\ ~Stale(m)
            /\ lastSeq' = m.seq /\ connectionState' = connectionState
            /\ missed' = IF lastSeq = NoSeq
                           THEN {s \in missed : s > m.seq} ELSE missed
            /\ Gap(m) => Hydrate(connectionState, selectedSession)
         \/ /\ UNCHANGED <<lastSeq, missed>>
            /\ connectionState' = "connected" => connectionState = "connected"
<1> USE DEF linkFields, streamFields
<1>1. CASE OnConnectOk(w, m)
  BY <1>1 DEF OnConnectOk
<1>2. CASE OnEvent(w, m)
  BY <1>2 DEF OnEvent, SeesNumber
<1>3. CASE \/ OnChallenge(w, m) \/ OnPairingRequired(w, m) \/ OnSendOk(w, m)
           \/ OnAbortOk(w, m) \/ OnHistory(w, m) \/ OnIgnored(w, m)
  BY <1>3 DEF OnChallenge, OnPairingRequired, OnSendOk, OnAbortOk, OnHistory,
     OnIgnored
<1> QED BY <1>1, <1>2, <1>3 DEF LoopReads

\* The Gateway counts on from what the client has seen.
LEMMA FarEndSeen ==
  ASSUME GatewayAssumption, IosTypeOK, Handover, Shaken, RunsEnd, LastSeen,
         FarEnd
  PROVE  LastSeen'
<1>1. PICK w \in Socket :
        /\ GatewayMoves(w) /\ w = socket
        /\ sock'[w] = "open" => sock[w] \in {"opening", "open"}
  BY FarEndMoves
<1>2. /\ GatewayTypeOK /\ NumbersUsed(w) /\ Greeted(w)
      /\ UNCHANGED <<socket, connectionState, lastSeq>>
      /\ gwSeq \in Nat /\ lastSeq \in Nat \cup {-1}
  BY <1>1 DEF Shaken, RunsEnd, Telling, IosTypeOK, GatewayTypeOK, FarEnd,
     clientState, linkFields, streamFields, NoSeq
<1>3. SUFFICES ASSUME connectionState = "connected"
               PROVE  /\ ~Heard(w)' => lastSeq = NoSeq
                      /\ sock'[w] = "open" => lastSeq <= gwSeq'
  BY <1>1, <1>2 DEF LastSeen, Heard
<1>4. ~Heard(w)' => lastSeq = NoSeq
  BY <1>1, <1>2, <1>3, HeardOnce DEF LastSeen
<1>5. ASSUME sock'[w] = "open"
      PROVE  lastSeq <= gwSeq'
  <2>1. gwSeq <= gwSeq' /\ gwSeq' \in Nat
    <3>1. GatewayTypeOK'
      BY <1>2, GatewayTypeStep DEF FarEnd
    <3> QED BY <1>1, <1>2, <1>5, <3>1, GatewayNumbers DEF GatewayTypeOK
  <2>2. CASE sock[w] = "open"
    BY <1>1, <1>2, <1>3, <2>1, <2>2 DEF LastSeen
  <2>3. CASE sock[w] = "opening"
    <3>1. lastSeq = -1
      BY <1>1, <1>2, <1>3, <2>3 DEF LastSeen, Heard, NumbersUsed, NoSeq
    <3> QED BY <2>1, <3>1
  <2> QED BY <1>1, <1>5, <2>2, <2>3
<1> QED BY <1>4, <1>5

\* No event is read before the hello of its socket.
LEMMA ReadKeepsSeen ==
  ASSUME GatewayAssumption, IosTypeOK, Handover, Shaken, RunsEnd, LastSeen,
         NEW w \in Socket, LoopReads(w)
  PROVE  LastSeen'
<1>0. PICK m : m = Head(inbox[w])
  OBVIOUS
<1>1. /\ inbox[w] \in Seq(Frame) /\ inbox[w] # <<>> /\ m \in Frame
      /\ inbox'[w] = Tail(inbox[w])
      /\ \A x \in Socket \ {w} : inbox'[x] = inbox[x]
      /\ UNCHANGED <<sock, gateway, socket>>
  BY <1>0, ReadFrame
<1>2. \/ m.type = "connectOk" /\ lastSeq' = NoSeq
      \/ /\ m.type \in EventType /\ lastSeq' = m.seq
         /\ connectionState' = connectionState
      \/ /\ lastSeq' = lastSeq
         /\ connectionState' = "connected" => connectionState = "connected"
  BY <1>0, ReadKinds
<1>3. UNCHANGED <<accepted, gwSeq>> /\ gwSeq \in Nat
  BY <1>1 DEF gateway, IosTypeOK, GatewayTypeOK
<1>4. ASSUME NEW c \in Socket, c = socket, connectionState' = "connected"
      PROVE  /\ ~Heard(c)' => lastSeq' = NoSeq
             /\ sock'[c] = "open" => lastSeq' <= gwSeq'
  <2>1. Heard(c) => Heard(c)'
    <3>1. CASE c = w
      <4>1. Quieter(inbox[c], inbox'[c], {"connectOk"})
        BY <1>1, <3>1, TailShake
      <4> QED BY <1>3, <4>1 DEF Heard, Quieter
    <3>2. CASE c # w
      BY <1>1, <1>3, <3>2 DEF Heard
    <3> QED BY <3>1, <3>2
  <2>2. CASE m.type = "connectOk" /\ lastSeq' = NoSeq
    BY <1>3, <2>2 DEF NoSeq
  <2>3. CASE /\ lastSeq' = lastSeq
             /\ connectionState = "connected"
    BY <1>1, <1>3, <1>4, <2>1, <2>3 DEF LastSeen
  <2>4. CASE /\ m.type \in EventType /\ lastSeq' = m.seq
             /\ connectionState = "connected"
    <3>1. ~Plain(w)
      <4>1. m.type \in Answer
        BY <2>4 DEF Answer
      <4> QED BY <1>0, <1>1, <4>1, TailShake DEF Plain
    <3>2. w = c
      BY <1>4, <2>4, <3>1 DEF Handover
    <3>3. Greeted(w) /\ NumbersUsed(w)
      BY <1>4, <3>2 DEF RunsEnd, Telling, Shaken
    <3>4. Heard(w)
      <4>1. /\ 1 \in DOMAIN inbox[w] /\ inbox[w][1] = m
            /\ DOMAIN inbox[w] \subseteq Nat
            /\ \A i \in DOMAIN inbox[w] : i >= 1
        BY <1>0, <1>1, Ahead
      <4>2. m.type \in Stream
        BY <2>4 DEF Stream
      <4>3. ASSUME NEW i \in DOMAIN inbox[w],
                   inbox[w][i].type = "connectOk"
            PROVE  FALSE
        <5>1. i < 1
          BY <3>3, <4>1, <4>2, <4>3 DEF Greeted
        <5> QED BY <4>1, <5>1
      <4> QED BY <3>3, <4>1, <4>2, <4>3 DEF Heard, Greeted, Has
    <3>5. sock[w] = "open" => m.seq <= gwSeq
      <4>1. UNCHANGED <<accepted, gwSeq, firstSent>>
        BY <1>1 DEF gateway
      <4>2. inbox[w] \in Seq(Frame) /\ inbox[w] # <<>>
            /\ inbox'[w] = Tail(inbox[w]) /\ sock'[w] = sock[w]
        BY <1>1
      <4>3. sock[w] = "open" /\ Head(inbox[w]).type \in EventType
              => Head(inbox[w]).seq <= gwSeq
        BY <1>3, <3>3, <4>1, <4>2, ReadNumbers
      <4> QED BY <1>0, <2>4, <4>3
    <3> QED BY <1>1, <1>3, <2>1, <2>4, <3>2, <3>4, <3>5
  <2> QED BY <1>2, <1>4, <2>2, <2>3, <2>4
<1> QED BY <1>1, <1>4 DEF LastSeen, Heard

\* Every step keeps it.
LEMMA SeenStep ==
  ASSUME GatewayAssumption, IosTypeOK, Handover, Shaken, RunsEnd, LastSeen,
         [ClientNext]_clientVars
  PROVE  LastSeen'
<1>1. CASE \E w \in Socket : Connect(w)
  BY <1>1 DEF Connect, LastSeen
<1>2. CASE Close
  BY <1>2 DEF Close, LastSeen
<1>3. CASE Calm /\ UNCHANGED <<lastSeq, activeRunId, ended, missed>>
  <2>1. /\ UNCHANGED <<inbox, socket, accepted, gwSeq, lastSeq>>
        /\ connectionState' = "connected" => connectionState = "connected"
    BY <1>3 DEF Calm, gateway
  <2>2. \A w \in Socket : sock'[w] = "open" => sock[w] = "open"
    BY <1>3, CalmQueues
  <2> QED BY <2>1, <2>2 DEF LastSeen, Heard
<1> QED BY <1>1, <1>2, <1>3, StepKinds, FarEndSeen, ReadKeepsSeen

LEMMA LastSeenAlways == ClientSpec => []LastSeen
<1>1. ClientInit => LastSeen
  BY DEF ClientInit, LastSeen
<1>2. IosTypeOK /\ Handover /\ Shaken /\ RunsEnd /\ LastSeen
        /\ [ClientNext]_clientVars => LastSeen'
  BY GatewayAssumption, SeenStep
<1> QED BY <1>1, <1>2, IosTypeCorrect, HandoverAlways, ShakenAlways,
           RunsEndAlways, PTL DEF ClientSpec

(***************************************************************************)
(* Every loss that shows is made good                                      *)
(***************************************************************************)

\* On the current connection nothing that was lost is on its way or seen, and
\* of what was lost before the last event seen a reload has been asked for.
Counts ==
  \A w \in Socket :
    w = socket /\ sock[w] = "open" /\ w \in accepted =>
      Counted(w) /\ (connectionState = "connected" => MadeGood(w, lastSeq))

\* The Gateway loses only what comes after all that was seen.
LEMMA FarEndCounts ==
  ASSUME GatewayAssumption, IosTypeOK, Handover, Shaken, LastSeen, Counts,
         FarEnd
  PROVE  Counts'
<1>1. PICK w \in Socket :
        /\ GatewayMoves(w) /\ w = socket
        /\ sock'[w] = "open" => sock[w] \in {"opening", "open"}
  BY FarEndMoves
<1>2. /\ GatewayTypeOK /\ NumbersUsed(w)
      /\ UNCHANGED <<socket, connectionState, lastSeq>>
      /\ gwSeq \in Nat /\ missed \subseteq Nat /\ lastSeq \in Int
      /\ sock[w] = "open" /\ connectionState = "connected"
           => lastSeq <= gwSeq
  BY <1>1 DEF Shaken, LastSeen, IosTypeOK, GatewayTypeOK, FarEnd,
     clientState, linkFields, streamFields, NoSeq
<1>3. SUFFICES ASSUME sock'[w] = "open", w \in accepted'
               PROVE  /\ Counted(w)'
                      /\ connectionState = "connected"
                           => MadeGood(w, lastSeq)'
  BY <1>1, <1>2 DEF Counts
<1>4. /\ Counted(w)'
      /\ \/ missed' = {}
         \/ /\ sock[w] = "open" /\ w \in accepted
            /\ missed' \subseteq missed \cup {gwSeq + 1}
            /\ refused \subseteq refused'
            /\ \/ missed \subseteq refused'
               \/ Has(outbox[w], {"history"}) => Has(outbox'[w], {"history"})
  BY <1>1, <1>2, <1>3, GatewayCounts DEF Counts
<1>5. PICK last : last = lastSeq
  OBVIOUS
<1>6. connectionState = "connected" => MadeGood(w, last)'
  <2>1. CASE missed' = {}
    BY <2>1 DEF MadeGood
  <2>2. CASE missed' # {} /\ connectionState = "connected"
    <3>1. MadeGood(w, last) /\ last <= gwSeq /\ last \in Int
      BY <1>1, <1>2, <1>4, <1>5, <2>2 DEF Counts
    <3> QED BY <1>2, <1>4, <2>2, <3>1, StaysGood
  <2> QED BY <2>1, <2>2
<1> QED BY <1>2, <1>4, <1>5, <1>6 DEF MadeGood

\* The current loop asks for a reload by the first event that shows a loss;
\* a cancelled one reads while nobody counts.
LEMMA ReadCountsOn ==
  ASSUME GatewayAssumption, IosTypeOK, Handover, Counts,
         NEW w \in Socket, LoopReads(w)
  PROVE  Counts'
<1>0. PICK m, last : m = Head(inbox[w]) /\ last = lastSeq
  OBVIOUS
<1>1. /\ inbox[w] \in Seq(Frame) /\ inbox[w] # <<>> /\ m \in Frame
      /\ inbox'[w] = Tail(inbox[w]) /\ UNCHANGED <<sock, gateway, socket>>
  BY <1>0, ReadFrame
<1>2. /\ GatewayTypeOK /\ missed \subseteq Nat /\ m.seq \in Nat
      /\ last \in Nat \cup {-1}
      /\ UNCHANGED <<gwSeq, firstSent, accepted, refused>>
      /\ selectedSession \in Session
  BY <1>0, <1>1 DEF IosTypeOK, GatewayTypeOK, gateway, NoSeq, Frame
<1>3. CASE w # socket
  <2>1. socket \in Socket => socket \notin accepted
    BY <1>1, <1>3, LeftoverFirst DEF Asked
  <2> QED BY <1>1, <1>2, <2>1 DEF Counts
<1>4. CASE w = socket
  <2>1. SUFFICES ASSUME sock[w] = "open", w \in accepted
                 PROVE  /\ Counted(w)'
                        /\ connectionState' = "connected"
                             => MadeGood(w, lastSeq)'
    BY <1>1, <1>2, <1>4 DEF Counts
  <2>2. Counted(w) /\ (connectionState = "connected" => MadeGood(w, last))
    BY <1>0, <1>4, <2>1 DEF Counts
  <2>3. \/ m.type = "connectOk" /\ lastSeq' = NoSeq /\ missed' = missed
        \/ /\ m.type \in EventType /\ m.seq # NoNumber /\ ~Stale(m)
           /\ lastSeq' = m.seq /\ connectionState' = connectionState
           /\ missed' = IF lastSeq = NoSeq
                          THEN {s \in missed : s > m.seq} ELSE missed
           /\ Gap(m) => Hydrate(connectionState, selectedSession)
        \/ /\ lastSeq' = lastSeq /\ missed' = missed
           /\ connectionState' = "connected" => connectionState = "connected"
    BY <1>0, ReadKinds
  <2>4. missed' \subseteq missed
    BY <2>3
  <2>5. Has(outbox[w], {"history"}) => Has(outbox'[w], {"history"})
    <3>1. \/ UNCHANGED outbox
          \/ \E t \in RequestType, s \in Session : Transmit(socket, t, s)
      <4>1. "connect" \in RequestType
        BY DEF RequestType
      <4> QED BY <1>0, <4>1, ReadFrame DEF Sends
    <3> QED BY <1>2, <3>1, TransmitAdds
  <2>6. Transmit(w, "history", selectedSession)
          => Has(outbox'[w], {"history"})
    <3>1. "history" \in RequestType
      BY DEF RequestType
    <3> QED BY <1>2, <2>1, <3>1, TransmitAdds
  <2>7. /\ Counted(w)'
        /\ MadeGood(w, last) => MadeGood(w, last)'
        /\ /\ MadeGood(w, last) /\ m.type \in EventType /\ last < m.seq
           /\ last # -1 /\ m.seq > last + 1 => Has(outbox'[w], {"history"})
           /\ last = -1 => \A s \in missed' : s > m.seq
           => MadeGood(w, m.seq)'
    BY <1>0, <1>1, <1>2, <2>2, <2>4, <2>5, ReadCounts
  <2>8. connectionState' = "connected" => MadeGood(w, lastSeq)'
    <3>1. CASE m.type = "connectOk" /\ lastSeq' = NoSeq /\ missed' = missed
      <4>1. lastSeq' = -1 /\ missed' \subseteq Nat
        BY <1>2, <3>1 DEF NoSeq
      <4> QED BY <4>1 DEF MadeGood
    <3>2. CASE /\ m.type \in EventType /\ m.seq # NoNumber /\ ~Stale(m)
               /\ lastSeq' = m.seq /\ connectionState = "connected"
               /\ missed' = IF lastSeq = NoSeq
                              THEN {s \in missed : s > m.seq} ELSE missed
               /\ Gap(m) => Hydrate(connectionState, selectedSession)
      <4>1. Gap(m) => Transmit(w, "history", selectedSession)
        BY <1>4, <3>2 DEF Hydrate, Request
      <4>2. /\ last < m.seq
            /\ last # -1 /\ m.seq > last + 1 => Gap(m)
            /\ last = -1 => \A s \in missed' : s > m.seq
        BY <1>0, <1>2, <3>2 DEF Gap, Stale, NoSeq
      <4>3. MadeGood(w, m.seq)'
        BY <2>2, <2>6, <2>7, <3>2, <4>1, <4>2
      <4> QED BY <3>2, <4>3 DEF MadeGood
    <3>3. CASE lastSeq' = lastSeq /\ connectionState = "connected"
      BY <1>0, <2>2, <2>7, <3>3 DEF MadeGood
    <3> QED BY <2>3, <3>1, <3>2, <3>3
  <2> QED BY <2>7, <2>8
<1> QED BY <1>3, <1>4

\* Every step keeps the account.
LEMMA CountsStep ==
  ASSUME GatewayAssumption, IosTypeOK, Handover, Shaken, LastSeen, Counts,
         [ClientNext]_clientVars
  PROVE  Counts'
<1>1. ASSUME NEW w \in Socket, Connect(w)
      PROVE  Counts'
  <2>1. w \notin accepted' /\ socket' = w
    BY <1>1 DEF Connect, Handover, gateway
  <2> QED BY <2>1 DEF Counts
<1>2. CASE Close
  BY <1>2, IosAssumption DEF Close, Counts, IosAssumption
<1>3. CASE Calm /\ UNCHANGED <<lastSeq, activeRunId, ended, missed>>
  <2>1. /\ UNCHANGED <<inbox, socket, accepted, gwSeq, firstSent, refused>>
        /\ UNCHANGED <<lastSeq, missed>>
        /\ connectionState' = "connected" => connectionState = "connected"
    BY <1>3 DEF Calm, gateway
  <2>2. \A w \in Socket :
          /\ sock'[w] = "open" => sock[w] = "open"
          /\ Has(outbox[w], {"history"}) => Has(outbox'[w], {"history"})
    BY <1>3, CalmQueues
  <2> QED BY <2>1, <2>2 DEF Counts, Counted, MadeGood
<1> QED BY <1>1, <1>2, <1>3, StepKinds, FarEndCounts, ReadCountsOn

LEMMA CountsAlways == ClientSpec => []Counts
<1>1. ClientInit => Counts
  BY DEF ClientInit, GatewayInit, Counts
<1>2. IosTypeOK /\ Handover /\ Shaken /\ LastSeen /\ Counts
        /\ [ClientNext]_clientVars => Counts'
  BY GatewayAssumption, CountsStep
<1> QED BY <1>1, <1>2, IosTypeCorrect, HandoverAlways, ShakenAlways,
           LastSeenAlways, PTL DEF ClientSpec

\* Whatever a connection loses, and whichever sockets it followed: once an
\* event read on a connected link shows a loss, a request for the history is
\* on its way there.  hydrate()'s guard turns none of them down.
THEOREM GapHasReloadAlways == ClientSpec => []GapHasReload
<1>1. IosTypeOK /\ Handover /\ LastSeen /\ Counts => GapHasReload
  <2> SUFFICES ASSUME IosTypeOK, Handover, LastSeen, Counts,
                      connectionState = "connected", ~closing,
                      sock[socket] = "open",
                      NEW s \in missed \ refused, s < lastSeq
               PROVE  Has(outbox[socket], {"history"})
    BY DEF GapHasReload, Has
  <2>1. socket \in Socket
    BY DEF Handover, IosTypeOK
  <2>2. s \in Nat
    BY DEF IosTypeOK, GatewayTypeOK
  <2>3. lastSeq # NoSeq
    BY <2>2 DEF NoSeq
  <2>4. socket \in accepted
    BY <2>1, <2>3 DEF LastSeen, Heard
  <2> QED BY <2>1, <2>4 DEF Counts, MadeGood
<1> QED BY <1>1, IosTypeCorrect, HandoverAlways, LastSeenAlways, CountsAlways,
           PTL
=============================================================================
