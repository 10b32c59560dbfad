--------------------------- MODULE AndroidProofs ---------------------------
(***************************************************************************)
(* Theorems of AndroidClient and of AndroidApp, for any number of sockets, *)
(* sessions and runs and any bounds on the queues.                         *)
(***************************************************************************)
EXTENDS AndroidApp, GatewayProofs

(***************************************************************************)
(* Type correctness                                                        *)
(***************************************************************************)

\* Well-typed notices keep what waits for the main thread well typed.
LEMMA PostKeepsType ==
  ASSUME posted \in Seq(Notice), NEW n \in Seq(Notice), Post(n)
  PROVE  posted' \in Seq(Notice)
BY DEF Post

\* A notice of a known type is a Notice.
LEMMA NoteType ==
  ASSUME NEW t \in PostType, NEW s \in Session
  PROVE  /\ Note(t, s) \in Notice
         /\ <<Note(t, s)>> \in Seq(Notice)
BY DEF Note, Notice

\* Reading a frame keeps every type.
LEMMA MessageType ==
  ASSUME ClientAssumption, GatewayAssumption, ClientTypeOK,
         NEW w \in Socket, OnMessage(w)
  PROVE  ClientTypeOK'
<1> DEFINE m == Head(inbox[w])
<1>m. /\ m \in Frame
      /\ inbox' = [inbox EXCEPT ![w] = Tail(@)]
      /\ UNCHANGED <<timers, scheduling, sock, gateway>>
  BY HeadIsFrame DEF OnMessage, ClientTypeOK
<1>f. /\ m.session \in Session
      /\ m.run \in Run \cup {NoRun}
      /\ m.seq \in Nat
  BY <1>m DEF Frame
<1>b. /\ MainSession \in Session
      /\ Tail(inbox[w]) \in Seq(Frame)
  BY HeadIsFrame DEF OnMessage, GatewayAssumption, ClientTypeOK
<1>i. /\ inbox' \in [Socket -> Seq(Frame)]
      /\ timers' \in Nat /\ scheduling' \in BOOLEAN
      /\ sock' \in [Socket -> SocketState]
      /\ accepted' \in SUBSET Socket /\ subscribed' \in SUBSET Session
      /\ gwSeq' \in Nat
      /\ runState' \in [Run -> {"free", "active", "over"}]
      /\ runSession' \in [Run -> Session]
      /\ talked' \in SUBSET Session
      /\ firstSent' \in Seq(EventFrame) /\ refused' \in SUBSET Nat
  BY <1>m, <1>b DEF ClientTypeOK, GatewayTypeOK, gateway
<1> HIDE DEF m
<1> USE DEF ClientTypeOK, GatewayTypeOK, uiFields, linkFields, streamFields,
            history
<1>1. CASE OnChallenge(w, m)
  <2>1. "connect" \in RequestType
    BY DEF RequestType
  <2> QED BY <1>1, <1>i, <1>b, <2>1, TransmitKeepsType DEF Request, OnChallenge
<1>2. CASE OnBadChallenge(w, m)
  <2>1. <<Note("localError", MainSession)>> \in Seq(Notice)
    BY NoteType, <1>b DEF PostType
  <2> QED BY <1>2, <1>i, <2>1, PostKeepsType DEF OnBadChallenge
<1>3. CASE OnConnectOk(w, m)
  <2>1. <<Note("connected", MainSession)>> \in Seq(Notice)
    BY NoteType, <1>b DEF PostType
  <2>2. "history" \in RequestType
    BY DEF RequestType
  <2>3. posted' \in Seq(Notice)
    BY <1>3, <2>1, PostKeepsType DEF OnConnectOk
  <2>4. outbox' \in [Socket -> Seq(RequestFrame)]
    BY <1>3, <2>2, TransmitKeepsType DEF Request, OnConnectOk, Hydrate
  <2> QED BY <1>3, <1>i, <2>3, <2>4 DEF OnConnectOk, ForgetSeq
<1>4. CASE OnPairingRequired(w, m)
  <2>1. <<Note("pairingRequired", MainSession)>> \in Seq(Notice)
    BY NoteType, <1>b DEF PostType
  <2> QED BY <1>4, <1>i, <2>1, PostKeepsType DEF OnPairingRequired
<1>5. CASE OnSendOk(w, m)
  <2>1. <<Note("running", m.session)>> \in Seq(Notice)
    BY NoteType, <1>f DEF PostType
  <2> QED BY <1>5, <1>i, <1>f, <2>1, PostKeepsType DEF OnSendOk
<1>6. CASE OnAbortOk(w, m)
  <2>1. <<Note("paused", m.session)>> \in Seq(Notice)
    BY NoteType, <1>f DEF PostType
  <2> QED BY <1>6, <1>i, <2>1, PostKeepsType DEF OnAbortOk
<1>7. CASE OnHistory(w, m)
  <2>1. <<Note(m.type, m.session)>> \in Seq(Notice)
    BY <1>7, NoteType, <1>f DEF PostType, OnHistory
  <2> QED BY <1>7, <1>i, <2>1, PostKeepsType DEF OnHistory
<1>8. CASE OnError(w, m)
  BY <1>8, <1>i DEF OnError
<1>9. CASE OnEvent(w, m)
  <2>1. /\ <<Note("gap", m.session)>> \in Seq(Notice)
        /\ <<Note(m.type, m.session)>> \in Seq(Notice)
    BY <1>9, NoteType, <1>f DEF PostType, OnEvent
  <2>2. outbox' \in [Socket -> Seq(RequestFrame)]
    <3>1. "history" \in RequestType
      BY DEF RequestType
    <3> QED BY <1>9, <3>1, TransmitKeepsType DEF Request, OnEvent, Hydrate
  <2>3. CASE Stale(m)
    BY <1>9, <1>i, <2>2, <2>3 DEF OnEvent
  <2>4. CASE ~Stale(m)
    <3> DEFINE n == (IF Gap(m) THEN <<Note("gap", m.session)>> ELSE <<>>)
                    \o <<Note(m.type, m.session)>>
    <3>1. n \in Seq(Notice)
      BY <2>1
    <3>2. posted' \in Seq(Notice)
      BY <1>9, <2>4, <3>1, PostKeepsType DEF OnEvent
    <3> QED BY <1>9, <1>i, <1>f, <2>2, <2>4, <3>2 DEF OnEvent, SeesNumber
  <2> QED BY <2>3, <2>4
<1> QED
  BY <1>1, <1>2, <1>3, <1>4, <1>5, <1>6, <1>7, <1>8, <1>9 DEF OnMessage, m

\* A broken or closed link leaves every field well typed.
LEMMA LossType ==
  ASSUME ClientAssumption, GatewayAssumption, ClientTypeOK, NEW w \in Socket,
         OnFailure(w) \/ OnClosed(w)
  PROVE  ClientTypeOK'
<1>1. /\ MainSession \in Session
      /\ <<Note("localError", MainSession)>> \in Seq(Notice)
      /\ <<Note("reconnecting", MainSession)>> \in Seq(Notice)
  BY NoteType DEF PostType, GatewayAssumption
<1>2. ASSUME NEW b \in Seq(Notice), ScheduleReconnect(b)
      PROVE  /\ posted' \in Seq(Notice)
             /\ reconnectAttempt' \in Nat
             /\ scheduling' \in BOOLEAN
  <2>1. posted' \in Seq(Notice)
    <3>1. b \o <<Note("reconnecting", MainSession)>> \in Seq(Notice)
      BY <1>1
    <3> QED BY <1>2, <3>1, PostKeepsType DEF ScheduleReconnect, ClientTypeOK
  <2>2. reconnectAttempt \in Nat /\ scheduling \in BOOLEAN
    BY DEF ClientTypeOK, GatewayTypeOK
  <2>3. CASE closing
    BY <1>2, <2>1, <2>2, <2>3 DEF ScheduleReconnect
  <2>4. CASE ~closing
    <3>1. reconnectAttempt' = reconnectAttempt + 1 /\ scheduling' = TRUE
      BY <1>2, <2>4 DEF ScheduleReconnect
    <3>2. reconnectAttempt' \in Nat
      BY <2>2, <3>1
    <3> QED BY <2>1, <3>1, <3>2
  <2> QED BY <2>3, <2>4
<1>3. ASSUME LoseLink(w)
      PROVE  sock' \in [Socket -> SocketState] /\ connected' \in BOOLEAN
  BY <1>3 DEF LoseLink, ClientTypeOK, GatewayTypeOK, SocketState
<1> USE DEF ClientTypeOK, GatewayTypeOK, uiFields, linkFields, streamFields,
            history, gateway
<1>4. CASE OnFailure(w)
  <2>1. ScheduleReconnect(<<Note("localError", MainSession)>>) /\ LoseLink(w)
    BY <1>4 DEF OnFailure
  <2> QED BY <1>1, <1>2, <1>3, <1>4, <2>1 DEF OnFailure
<1>5. CASE OnClosed(w)
  <2>1. ScheduleReconnect(<<>>) /\ LoseLink(w)
    BY <1>5 DEF OnClosed
  <2>2. /\ posted' \in Seq(Notice)
        /\ reconnectAttempt' \in Nat
        /\ scheduling' \in BOOLEAN
    <3>1. <<>> \in Seq(Notice)
      OBVIOUS
    <3> QED BY <1>2, <2>1, <3>1
  <2>3. outbox' \in [Socket -> Seq(RequestFrame)]
    BY <1>5 DEF OnClosed
  <2> QED BY <1>3, <1>5, <2>1, <2>2, <2>3 DEF OnClosed
<1> QED BY <1>4, <1>5

\* So do the timer and the calls of the main thread.
LEMMA MainThreadType ==
  ASSUME ClientAssumption, GatewayAssumption, ClientTypeOK,
         \/ \E w \in Socket : Start(w)
         \/ AssignSocket \/ TimerFires \/ PostReconnect \/ Close
         \/ TakeNotice \/ PauseOrStop
         \/ \E s \in Session : SelectSession(s) \/ SendChat(s)
  PROVE  ClientTypeOK'
<1> USE DEF ClientTypeOK, GatewayTypeOK, uiFields, linkFields, streamFields,
            threads, history, gateway, SocketState
<1>1. ASSUME NEW w \in Socket, Start(w)
      PROVE  ClientTypeOK'
  BY <1>1 DEF Start, Connect
<1>2. CASE TimerFires
  <2>1. timers' \in Nat
    BY <1>2 DEF TimerFires
  <2>2. /\ {ws, latest}' \subseteq Socket \cup {NoSocket}
        /\ closing' \in BOOLEAN
        /\ connected' \in BOOLEAN /\ sock' \in [Socket -> SocketState]
    BY <1>2 DEF TimerFires, Redial, Connect
  <2> QED BY <1>2, <2>1, <2>2 DEF TimerFires
<1>3. CASE Close
  BY <1>3 DEF Close, RemoveCallbacks, TakesSends
<1>4. CASE TakeNotice
  BY <1>4 DEF TakeNotice
<1>5. {"history", "send", "abort"} \subseteq RequestType
  BY DEF RequestType
<1>6. CASE PauseOrStop
  BY <1>5, <1>6, TransmitKeepsType DEF Request, PauseOrStop
<1>7. ASSUME NEW s \in Session, SelectSession(s) \/ SendChat(s)
      PROVE  ClientTypeOK'
  BY <1>5, <1>7, TransmitKeepsType
     DEF Request, SelectSession, SendChat, Hydrate
<1>8. CASE PostReconnect
  <2>1. timers' \in Nat
    BY <1>8 DEF PostReconnect
  <2> QED BY <1>8, <2>1 DEF PostReconnect
<1>9. CASE AssignSocket
  BY <1>9 DEF AssignSocket
<1> QED BY <1>1, <1>2, <1>3, <1>4, <1>6, <1>7, <1>8, <1>9

\* Every step keeps every type.
LEMMA ClientTypeStep ==
  ASSUME ClientTypeOK, [ClientNext]_clientVars
  PROVE  ClientTypeOK'
<1> USE DEF clientState, uiFields, linkFields, streamFields, threads
<1>1. CASE UNCHANGED clientVars
  BY <1>1 DEF clientVars, gatewayVars, wire, gateway, ClientTypeOK,
              GatewayTypeOK
<1>2. CASE FarEnd
  <2>1. GatewayTypeOK'
    BY <1>2, GatewayAssumption, GatewayTypeStep DEF FarEnd, ClientTypeOK
  <2> QED BY <1>2, <2>1 DEF FarEnd, ClientTypeOK
<1>3. CASE ClientNext /\ ~FarEnd
  BY <1>3, ClientAssumption, GatewayAssumption, MessageType, LossType,
     MainThreadType DEF ClientNext
<1> QED BY <1>1, <1>2, <1>3

\* The initial values have their types.
LEMMA ClientTypeInit ==
  ASSUME ClientInit
  PROVE  ClientTypeOK
<1>1. GatewayTypeOK
  BY GatewayTypeInit DEF ClientInit
<1>2. MainSession \in Session
  BY GatewayAssumption DEF GatewayAssumption
<1>3. posted \in Seq(Notice)
  BY DEF ClientInit
<1> QED BY <1>1, <1>2, <1>3 DEF ClientInit, ClientTypeOK

\* Every field, queue and record of the client keeps its type, for any numbers
\* of sockets, sessions and runs.
THEOREM TypeCorrect == ClientSpec => []ClientTypeOK
BY ClientTypeInit, ClientTypeStep, PTL DEF ClientSpec

(***************************************************************************)
(* One link at a time                                                      *)
(***************************************************************************)

linkState == <<latest, closing, timers, scheduling, sock>>

\* Answers and events leave every socket as it is.
LEMMA QuietGateway ==
  ASSUME NEW w \in Socket,
         \/ Serve(w) \/ Resend(w)
         \/ \E r \in Run, t \in EventType :
              EmitEvent(w, r, t) \/ EmitUnnumbered(w, r, t)
  PROVE  UNCHANGED sock
<1>1. CASE Serve(w)
  BY <1>1 DEF Serve, ServeConnect, ServeHistory, ServeSend, ServeAbort,
     ServeError, Answers
<1>2. CASE Resend(w)
  BY <1>2 DEF Resend
<1>3. CASE \E r \in Run, t \in EventType :
             EmitEvent(w, r, t) \/ EmitUnnumbered(w, r, t)
  BY <1>3 DEF EmitEvent, EmitUnnumbered
<1> QED BY <1>1, <1>2, <1>3

\* The network opens, breaks or half-closes a socket a client holds already.
LEMMA FarEndSockets ==
  ASSUME GatewayTypeOK, GatewayNext
  PROVE  \/ UNCHANGED sock
         \/ \E w \in Socket :
              /\ sock[w] \in {"opening", "open", "halfClosed", "closing"}
              /\ sock' \in {[sock EXCEPT ![w] = "open"],
                            [sock EXCEPT ![w] = "failed"],
                            [sock EXCEPT ![w] = "halfClosed"]}
<1> PICK w \in Socket :
      \/ Opens(w) \/ Serve(w) \/ Resend(w)
      \/ NetworkFails(w) \/ ServerCloses(w)
      \/ \E r \in Run, t \in EventType :
           EmitEvent(w, r, t) \/ EmitUnnumbered(w, r, t)
  BY DEF GatewayNext
<1>1. CASE Opens(w) \/ NetworkFails(w) \/ ServerCloses(w)
  BY <1>1 DEF Opens, NetworkFails, ServerCloses
<1> QED BY <1>1, QuietGateway

\* A step that touches neither sockets nor timers leaves the link as it is.
LEMMA QuietStep ==
  ASSUME \/ \E w \in Socket : OnMessage(w)
         \/ AssignSocket \/ TakeNotice \/ PauseOrStop
         \/ \E s \in Session : SelectSession(s) \/ SendChat(s)
  PROVE  UNCHANGED linkState
<1> USE DEF linkState, uiFields, linkFields, threads
<1>1. ASSUME NEW w \in Socket, OnMessage(w)
      PROVE  UNCHANGED linkState
  BY <1>1 DEF OnMessage, OnChallenge, OnBadChallenge, OnConnectOk,
     OnPairingRequired, OnSendOk, OnAbortOk, OnHistory, OnError, OnEvent
<1>2. AssignSocket \/ TakeNotice \/ PauseOrStop => UNCHANGED linkState
  BY DEF AssignSocket, TakeNotice, PauseOrStop
<1>3. ASSUME NEW s \in Session, SelectSession(s) \/ SendChat(s)
      PROVE  UNCHANGED linkState
  BY <1>3 DEF SelectSession, SendChat
<1> QED BY <1>1, <1>2, <1>3

\* Dialling, losing, retrying and closing each keep one link or one retry.
LEMMA OneLinkStep ==
  ASSUME ClientAssumption, GatewayAssumption, ClientTypeOK, OneLink,
         [ClientNext]_clientVars
  PROVE  OneLink'
<1> USE DEF ClientAssumption, ClientTypeOK, GatewayTypeOK, OneLink, Live
<1>1. CASE UNCHANGED linkState
  BY <1>1 DEF linkState
<1>2. ASSUME NEW w \in Socket, Start(w)
      PROVE  OneLink'
  BY <1>2 DEF Start, Connect, threads
<1>3. CASE TimerFires
  <2>1. /\ timers = 1 /\ timers' = 0 /\ ~scheduling /\ ~scheduling'
        /\ latest \in Socket
    BY <1>3 DEF TimerFires
  <2>2. CASE closing
    BY <1>3, <2>1, <2>2 DEF TimerFires, Redial
  <2>3. CASE ~closing
    <3>1. PICK w \in Socket : Connect(w)
      BY <1>3, <2>3 DEF TimerFires, Redial
    <3> QED BY <2>1, <2>3, <3>1 DEF Connect
  <2> QED BY <2>2, <2>3
<1>4. CASE Close
  BY <1>4 DEF Close, MainIsFree, RemoveCallbacks, TakesSends
<1>5. ASSUME NEW w \in Socket, OnFailure(w) \/ OnClosed(w)
      PROVE  OneLink'
  <2>1. /\ sock[w] \in Live /\ w = latest /\ timers = 0 /\ ~scheduling
        /\ sock' = [sock EXCEPT ![w] = "dead"]
        /\ UNCHANGED <<latest, closing, timers>>
    BY <1>5 DEF OnFailure, OnClosed, LoseLink, uiFields
  <2>2. scheduling' = ~closing
    <3>1. \/ ScheduleReconnect(<<Note("localError", MainSession)>>)
          \/ ScheduleReconnect(<<>>)
      BY <1>5 DEF OnFailure, OnClosed
    <3> QED BY <2>1, <3>1 DEF ScheduleReconnect
  <2> QED BY <2>1, <2>2
<1>6. CASE PostReconnect
  BY <1>6 DEF PostReconnect, uiFields, linkFields
<1>7. CASE FarEnd
  <2>1. UNCHANGED <<latest, closing, timers, scheduling>>
    BY <1>7 DEF FarEnd, clientState, uiFields, linkFields, threads
  <2>2. \/ UNCHANGED sock
        \/ \E w \in Socket :
             /\ sock[w] \in {"opening", "open", "halfClosed", "closing"}
             /\ sock' \in {[sock EXCEPT ![w] = "open"],
                           [sock EXCEPT ![w] = "failed"],
                           [sock EXCEPT ![w] = "halfClosed"]}
    BY <1>7, FarEndSockets DEF FarEnd
  <2> QED BY <2>1, <2>2
<1>8. CASE UNCHANGED clientVars
  BY <1>1, <1>8 DEF clientVars, clientState, gatewayVars, wire, linkState,
     uiFields, linkFields, threads
<1> QED BY <1>1, <1>2, <1>3, <1>4, <1>5, <1>6, <1>7, <1>8, QuietStep
        DEF ClientNext

\* One socket alive or one reconnect on its way, and until close() never
\* neither, however reader, timers and user interleave.
THEOREM OneLinkAlways == ClientSpec => []OneLink
<1>1. ClientInit => OneLink
  BY ClientAssumption
     DEF ClientAssumption, ClientInit, GatewayInit, OneLink, Live
<1>2. ClientTypeOK /\ OneLink /\ [ClientNext]_clientVars => OneLink'
  BY ClientAssumption, GatewayAssumption, OneLinkStep
<1> QED BY <1>1, <1>2, TypeCorrect, PTL DEF ClientSpec

\* No callback, timer or connect() that is still to run after close() opens a
\* socket again.
THEOREM CloseIsFinalAlways == ClientSpec => CloseIsFinal
<1>1. ClientTypeOK /\ OneLink /\ [ClientNext]_clientVars
        => [closing => closing' /\ latest' = latest]_clientVars
  <2> SUFFICES ASSUME ClientTypeOK, OneLink, [ClientNext]_clientVars, closing
               PROVE  closing' /\ latest' = latest
    OBVIOUS
  <2>1. CASE UNCHANGED clientVars
    BY <2>1 DEF clientVars, clientState, uiFields, linkFields
  <2>2. CASE UNCHANGED linkState
    BY <2>2 DEF linkState
  <2>3. ASSUME NEW w \in Socket, Start(w) PROVE FALSE
    BY <2>3 DEF Start, OneLink
  <2>4. CASE TimerFires
    BY <2>4 DEF TimerFires, Redial
  <2>5. CASE Close \/ PostReconnect
    BY <2>5 DEF Close, PostReconnect, uiFields, linkFields
  <2>6. ASSUME NEW w \in Socket, OnFailure(w) \/ OnClosed(w)
        PROVE  closing' /\ latest' = latest
    BY <2>6 DEF OnFailure, OnClosed, uiFields
  <2>7. CASE FarEnd
    BY <2>7 DEF FarEnd, clientState, uiFields, linkFields
  <2> QED BY <2>1, <2>2, <2>3, <2>4, <2>5, <2>6, <2>7, QuietStep
          DEF ClientNext
<1> QED BY <1>1, TypeCorrect, OneLinkAlways, PTL DEF ClientSpec, CloseIsFinal

(***************************************************************************)
(* "connected" means the Gateway said hello on the live socket             *)
(***************************************************************************)

authState == <<ws, closing, connected, connectId, accepted, sock>>

\* A hello the client will read was earned, whoever moves.
LEMMA HelloStep ==
  ASSUME GatewayAssumption, ClientTypeOK, HelloIsEarned,
         [ClientNext]_clientVars
  PROVE  HelloIsEarned'
<1> USE DEF gateway, history
<1>0. GatewayTypeOK
  BY DEF ClientTypeOK
<1>1. CASE UNCHANGED <<inbox, accepted>>
  BY <1>1 DEF HelloIsEarned
<1>2. CASE FarEnd
  BY <1>0, <1>2, GatewayHelloStep DEF FarEnd
<1>3. ASSUME NEW w \in Socket, OnMessage(w)
      PROVE  HelloIsEarned'
  BY <1>0, <1>3, ReadEarned DEF OnMessage
<1>4. ASSUME NEW w \in Socket, Start(w) \/ OnFailure(w) \/ OnClosed(w)
      PROVE  UNCHANGED <<inbox, accepted>>
  BY <1>4 DEF Start, OnFailure, OnClosed
<1>5. \/ AssignSocket \/ TimerFires \/ Close \/ PostReconnect \/ TakeNotice
      \/ PauseOrStop
      => UNCHANGED <<inbox, accepted>>
  BY DEF AssignSocket, TimerFires, Close, PostReconnect, TakeNotice,
     PauseOrStop
<1>6. ASSUME NEW s \in Session, SelectSession(s) \/ SendChat(s)
      PROVE  UNCHANGED <<inbox, accepted>>
  BY <1>6 DEF SelectSession, SendChat
<1>7. CASE UNCHANGED clientVars
  BY <1>1, <1>7 DEF clientVars, gatewayVars, wire
<1> QED BY <1>1, <1>2, <1>3, <1>4, <1>5, <1>6, <1>7 DEF ClientNext

\* Nothing has been asked on this socket, nor accepted.
Untouched(w) == outbox[w] = <<>> /\ w \notin accepted

\* No socket is used before it is dialled, nor the one being dialled before it
\* is assigned to ws; until then the client is neither connected nor closed.
Unassigned ==
  /\ \A w \in Socket : sock[w] = "unused" => Untouched(w)
  /\ ~MainIsFree => /\ latest \in Socket /\ Untouched(latest)
                    /\ ~connected /\ ~closing

\* The Gateway says hello only to those that ask.
LEMMA StaysUntouched ==
  ASSUME GatewayTypeOK, GatewayNext, NEW x \in Socket, Untouched(x)
  PROVE  Untouched(x)'
<1>1. PICK w \in Socket :
        /\ GatewayMoves(w)
        /\ \A y \in Socket \ {w} : /\ outbox'[y] = outbox[y]
                                   /\ y \in accepted' <=> y \in accepted
  BY OneMoves
<1>2. CASE x = w
  <2>1. ~Serve(w)
    BY <1>2 DEF Serve, Untouched
  <2>2. accepted' = accepted /\ (outbox' = outbox \/ outbox'[w] = <<>>)
    BY <1>1, <2>1 DEF GatewayMoves, Opens, Resend, NetworkFails, ServerCloses,
       EmitEvent, EmitUnnumbered, gateway, GatewayTypeOK
  <2> QED BY <1>2, <2>2 DEF Untouched
<1> QED BY <1>1, <1>2 DEF Untouched

\* What the reader sends before ws is assigned is lost.
LEMMA UnassignedStep ==
  ASSUME ClientAssumption, GatewayAssumption, ClientTypeOK, OneLink,
         HelloIsEarned, Unassigned, [ClientNext]_clientVars
  PROVE  Unassigned'
<1> USE DEF gateway
<1>0. /\ GatewayTypeOK
      /\ \A w \in Socket : sock[w] = "unused" => Untouched(w)
      /\ ~MainIsFree => /\ latest \in Socket /\ Untouched(latest)
                        /\ ~connected /\ ~closing
  BY DEF ClientTypeOK, Unassigned
<1>1. CASE UNCHANGED <<ws, latest, connected, closing, sock, outbox, accepted>>
  BY <1>1 DEF Unassigned, Untouched, MainIsFree
<1>2. ASSUME NEW w \in Socket, Connect(w), UNCHANGED <<outbox, accepted>>
      PROVE  Unassigned'
  <2>1. /\ Untouched(w)' /\ latest' = w /\ ~connected' /\ ~closing'
        /\ \A x \in Socket : sock'[x] = "unused" => sock[x] = "unused"
    BY <1>0, <1>2 DEF Connect, Untouched, GatewayTypeOK
  <2> QED BY <1>0, <1>2, <2>1 DEF Unassigned, Untouched
<1>3. ASSUME NEW w \in Socket, Start(w)
      PROVE  Unassigned'
  BY <1>2, <1>3 DEF Start
<1>4. CASE TimerFires
  <2>1. UNCHANGED <<outbox, accepted>>
    BY <1>4 DEF TimerFires
  <2> QED BY <1>1, <1>2, <1>4, <2>1 DEF TimerFires, Redial
<1>5. CASE AssignSocket
  <2>1. MainIsFree' /\ UNCHANGED <<sock, outbox, accepted>>
    BY <1>5 DEF AssignSocket, MainIsFree
  <2> QED BY <1>0, <2>1 DEF Unassigned, Untouched
<1>6. CASE Close
  <2>1. /\ MainIsFree' /\ UNCHANGED <<outbox, accepted>>
        /\ \A x \in Socket : sock'[x] = "unused" => sock[x] = "unused"
    BY <1>0, <1>6 DEF Close, MainIsFree, GatewayTypeOK, TakesSends
  <2> QED BY <1>0, <2>1 DEF Unassigned, Untouched
<1>7. ASSUME NEW w \in Socket, OnFailure(w) \/ OnClosed(w)
      PROVE  Unassigned'
  <2>1. /\ UNCHANGED <<ws, latest, closing, accepted>> /\ ~connected'
        /\ \A x \in Socket : sock'[x] = "unused" => sock[x] = "unused"
        /\ \A x \in Socket : outbox'[x] \in {outbox[x], <<>>}
    BY <1>0, <1>7 DEF OnFailure, OnClosed, LoseLink, uiFields, GatewayTypeOK
  <2> QED BY <1>0, <2>1 DEF Unassigned, Untouched, MainIsFree
<1>8. ASSUME NEW x, NEW t, NEW s, Transmit(x, t, s), x = ws,
             UNCHANGED <<ws, latest, closing, sock, accepted>>,
             ~MainIsFree => ~connected'
      PROVE  Unassigned'
  <2>1. ASSUME NEW w \in Socket, outbox'[w] # outbox[w]
        PROVE  w = ws /\ TakesSends(w)
    BY <1>0, <1>8, <2>1 DEF Transmit, GatewayTypeOK
  <2>2. \A w \in Socket : sock[w] = "unused" => outbox'[w] = outbox[w]
    BY <2>1 DEF TakesSends
  <2>3. ~MainIsFree => outbox'[latest] = outbox[latest]
    BY <1>0, <2>1 DEF MainIsFree
  <2> QED BY <1>0, <1>8, <2>2, <2>3 DEF Unassigned, Untouched, MainIsFree
<1>9. ASSUME PauseOrStop \/ \E s \in Session : SelectSession(s) \/ SendChat(s)
      PROVE  Unassigned'
  <2>1. /\ MainIsFree
        /\ UNCHANGED <<ws, latest, connected, closing, sock, accepted>>
    BY <1>9 DEF PauseOrStop, SelectSession, SendChat, UserCalls, uiFields,
       linkFields
  <2>2. \E t, s : Transmit(ws, t, s)
    BY <1>9 DEF PauseOrStop, SelectSession, SendChat, Hydrate, Request
  <2> QED BY <1>8, <2>1, <2>2
<1>10. ASSUME NEW w \in Socket, OnMessage(w)
       PROVE  Unassigned'
  <2>1. /\ UNCHANGED <<latest, closing, sock>> /\ w = latest
        /\ accepted' = accepted
    <3>1. UNCHANGED linkState
      BY <1>10, QuietStep
    <3> QED BY <1>10, <3>1 DEF linkState, OnMessage, OneLink, Live
  <2> DEFINE m == Head(inbox[w])
  <2>2. m.type = "connectOk" => w \in accepted
    <3>1. 1 \in DOMAIN inbox[w] /\ inbox[w][1] = m
      BY <1>0, <1>10 DEF OnMessage, GatewayTypeOK
    <3> QED BY <3>1 DEF HelloIsEarned
  <2> HIDE DEF m
  <2>3. /\ ws' = ws /\ (outbox' = outbox \/ \E t, s : Transmit(ws, t, s))
        /\ m.type = "connectOk" \/ connected' = connected \/ ~connected'
    BY <1>10 DEF OnMessage, m, OnChallenge, OnBadChallenge, OnConnectOk,
       OnPairingRequired, OnSendOk, OnAbortOk, OnHistory, OnError, OnEvent,
       linkFields, Hydrate, Request
  <2>4. ~MainIsFree => ~connected'
    BY <1>0, <2>1, <2>2, <2>3 DEF Untouched
  <2>5. CASE outbox' = outbox
    BY <1>0, <2>1, <2>3, <2>4, <2>5 DEF Unassigned, Untouched, MainIsFree
  <2> QED BY <1>8, <2>1, <2>3, <2>4, <2>5
<1>11. CASE FarEnd
  <2>1. UNCHANGED <<ws, latest, connected, closing>> /\ GatewayNext
    BY <1>11 DEF FarEnd, clientState, uiFields, linkFields
  <2>2. \A x \in Socket : sock'[x] = "unused" => sock[x] = "unused"
    BY <1>0, <2>1, FarEndSockets DEF GatewayTypeOK
  <2>3. \A x \in Socket : Untouched(x) => Untouched(x)'
    BY <1>0, <2>1, StaysUntouched
  <2> QED BY <1>0, <2>1, <2>2, <2>3 DEF Unassigned, MainIsFree
<1>12. CASE PostReconnect \/ TakeNotice \/ UNCHANGED clientVars
  <2>1. UNCHANGED <<ws, latest, connected, closing, sock, outbox, accepted>>
    BY <1>12 DEF PostReconnect, TakeNotice, clientVars, clientState,
       gatewayVars, wire, uiFields, linkFields
  <2> QED BY <1>1, <2>1
<1> QED BY <1>3, <1>4, <1>5, <1>6, <1>7, <1>9, <1>10, <1>11, <1>12
        DEF ClientNext

\* Until ws is assigned, in every reachable state.
LEMMA UnassignedAlways == ClientSpec => [](HelloIsEarned /\ Unassigned)
<1>1. ClientInit => HelloIsEarned /\ Unassigned
  BY DEF ClientInit, GatewayInit, HelloIsEarned, Unassigned, Untouched,
     MainIsFree
<1>2. /\ ClientTypeOK /\ OneLink /\ HelloIsEarned /\ Unassigned
      /\ [ClientNext]_clientVars
      => HelloIsEarned' /\ Unassigned'
  BY ClientAssumption, GatewayAssumption, HelloStep, UnassignedStep
<1> QED BY <1>1, <1>2, TypeCorrect, OneLinkAlways, PTL DEF ClientSpec

\* What "connected" promises survives every step.
LEMMA ConnectedStep ==
  ASSUME ClientAssumption, GatewayAssumption, ClientTypeOK, OneLink,
         HelloIsEarned, Unassigned, ConnectedMeansAuthenticated,
         [ClientNext]_clientVars
  PROVE  ConnectedMeansAuthenticated'
<1> USE DEF ConnectedMeansAuthenticated
<1>1. CASE UNCHANGED authState
  BY <1>1 DEF authState
<1>2. ASSUME NEW w \in Socket, OnMessage(w)
      PROVE  ConnectedMeansAuthenticated'
  <2> DEFINE m == Head(inbox[w])
  <2>1. /\ w = latest /\ UNCHANGED <<ws, closing, sock, accepted>>
        /\ sock[w] \notin {"unused", "opening", "dead"}
    <3>1. UNCHANGED <<closing, sock>>
      BY <1>2, QuietStep DEF linkState
    <3>2. ws' = ws
      BY <1>2 DEF OnMessage, OnChallenge, OnBadChallenge, OnConnectOk,
         OnPairingRequired, OnSendOk, OnAbortOk, OnHistory, OnError, OnEvent,
         linkFields
    <3>3. w = latest /\ sock[w] \in {"open", "closing"}
      BY <1>2 DEF OnMessage, OneLink, Live
    <3> QED BY <1>2, <3>1, <3>2, <3>3 DEF OnMessage, gateway
  <2>2. CASE OnConnectOk(w, m)
    <3>1. m.type = "connectOk" /\ connectId = w /\ connectId' = connectId
      BY <2>2 DEF OnConnectOk
    <3>2. 1 \in DOMAIN inbox[w] /\ inbox[w][1] = m
      BY <1>2 DEF OnMessage, ClientTypeOK, GatewayTypeOK
    <3>3. w \in accepted
      BY <3>1, <3>2 DEF HelloIsEarned
    <3>4. ws = w
      BY <2>1, <3>3 DEF Unassigned, Untouched, MainIsFree
    <3> QED BY <2>1, <3>1, <3>3, <3>4
  <2>3. CASE OnChallenge(w, m)
    <3>1. connected => ws = w
      BY <2>1 DEF Unassigned, MainIsFree
    <3> QED BY <2>1, <2>3, <3>1 DEF OnChallenge
  <2>4. CASE OnPairingRequired(w, m)
    BY <2>4 DEF OnPairingRequired
  <2>5. CASE \/ OnBadChallenge(w, m) \/ OnSendOk(w, m) \/ OnAbortOk(w, m)
             \/ OnHistory(w, m) \/ OnError(w, m) \/ OnEvent(w, m)
    <3>1. UNCHANGED <<connected, connectId>>
      BY <2>5 DEF OnBadChallenge, OnSendOk, OnAbortOk, OnHistory, OnError,
         OnEvent, linkFields
    <3> QED BY <2>1, <3>1
  <2> HIDE DEF m
  <2> QED BY <1>2, <2>2, <2>3, <2>4, <2>5 DEF OnMessage, m
<1>3. ASSUME NEW w \in Socket, Start(w) \/ OnFailure(w) \/ OnClosed(w)
      PROVE  ConnectedMeansAuthenticated'
  BY <1>3 DEF Start, Connect, OnFailure, OnClosed, LoseLink
<1>4. CASE FarEnd
  <2>1. UNCHANGED <<ws, closing, connected, connectId>>
    BY <1>4 DEF FarEnd, clientState, uiFields, linkFields
  <2>2. accepted \subseteq accepted' /\ accepted \subseteq Socket
    BY <1>4, AcceptedGrows DEF FarEnd, ClientTypeOK, GatewayTypeOK
  <2>3. \/ UNCHANGED sock
        \/ \E w \in Socket :
             sock' \in {[sock EXCEPT ![w] = "open"],
                        [sock EXCEPT ![w] = "failed"],
                        [sock EXCEPT ![w] = "halfClosed"]}
    BY <1>4, FarEndSockets DEF FarEnd, ClientTypeOK
  <2>4. \A x \in Socket : \/ sock'[x] = sock[x]
                          \/ sock'[x] \in {"open", "failed", "halfClosed"}
    BY <2>3 DEF ClientTypeOK, GatewayTypeOK
  <2> QED BY <2>1, <2>2, <2>4
<1>5. CASE AssignSocket
  <2>1. ~connected /\ connected' = connected
    BY <1>5 DEF AssignSocket, Unassigned
  <2> QED BY <2>1
<1>6. CASE TimerFires
  BY <1>6 DEF TimerFires, Redial, Connect, gateway
<1>7. CASE Close
  BY <1>7 DEF Close
<1>8. CASE \/ PostReconnect \/ TakeNotice \/ PauseOrStop
           \/ \E s \in Session : SelectSession(s) \/ SendChat(s)
  <2>1. UNCHANGED authState
    BY <1>8 DEF PostReconnect, TakeNotice, PauseOrStop, SelectSession,
       SendChat, authState, uiFields, linkFields, gateway
  <2> QED BY <1>1, <2>1
<1>9. CASE UNCHANGED clientVars
  BY <1>1, <1>9 DEF clientVars, clientState, gatewayVars, wire, authState,
     uiFields, linkFields, gateway
<1> QED BY <1>2, <1>3, <1>4, <1>5, <1>6, <1>7, <1>8, <1>9 DEF ClientNext

\* While the client runs, "connected" is never set but for the socket in use,
\* which the Gateway accepted and which has not been lost.
THEOREM ConnectedAlways == ClientSpec => []ConnectedMeansAuthenticated
<1>1. ClientInit => ConnectedMeansAuthenticated
  BY DEF ClientInit, GatewayInit, ConnectedMeansAuthenticated
<1>2. /\ ClientTypeOK /\ OneLink /\ HelloIsEarned /\ Unassigned
      /\ ConnectedMeansAuthenticated /\ [ClientNext]_clientVars
      => ConnectedMeansAuthenticated'
  BY ClientAssumption, GatewayAssumption, ConnectedStep
<1> QED BY <1>1, <1>2, TypeCorrect, OneLinkAlways, UnassignedAlways, PTL
        DEF ClientSpec

(***************************************************************************)
(* One handshake per socket                                                *)
(***************************************************************************)

\* Each socket has one handshake, and a client that is connected is done with
\* that of its own.
Shaken(w) ==
  /\ Handshake(w)
  /\ w = latest /\ connected => Settled(w)

OneHandshake == \A w \in Socket : Shaken(w)

\* A socket stays so when nothing is added to its handshake.
LEMMA CalmShake ==
  ASSUME NEW w \in Socket, Shaken(w),
         Quieter(inbox[w], inbox'[w], Opening),
         Quieter(outbox[w], outbox'[w], {"connect"}),
         sock'[w] \in {"unused", "opening"}
           => sock[w] \in {"unused", "opening"},
         w = latest' /\ connected' => w = latest /\ connected
  PROVE  Shaken(w)'
BY CalmHandshake DEF Shaken

\* The Gateway and the network keep each socket to one handshake.
LEMMA GatewayShake ==
  ASSUME GatewayAssumption, GatewayTypeOK, OneHandshake, GatewayNext,
         UNCHANGED <<latest, connected>>
  PROVE  OneHandshake'
<1>1. PICK w \in Socket :
        /\ GatewayMoves(w)
        /\ \A x \in Socket \ {w} : /\ inbox'[x] = inbox[x]
                                   /\ outbox'[x] = outbox[x]
                                   /\ sock'[x] = sock[x]
  BY OneMoves
<1>2. Shaken(w)'
  BY <1>1, GatewayHandshake DEF OneHandshake, Shaken
<1>3. ASSUME NEW x \in Socket \ {w}
      PROVE  Shaken(x)'
  BY <1>1, <1>3 DEF OneHandshake, Shaken, Handshake, Settled
<1> QED BY <1>2, <1>3 DEF OneHandshake

\* A frame is read on the socket in use; other sockets do not notice.
LEMMA MessageFrame ==
  ASSUME ClientAssumption, GatewayAssumption, ClientTypeOK, OneLink,
         NEW w \in Socket, OnMessage(w), NEW m, m = Head(inbox[w])
  PROVE  /\ w = latest /\ latest' = latest /\ UNCHANGED <<sock, gateway>>
         /\ inbox[w] \in Seq(Frame) /\ inbox[w] # <<>> /\ m \in Frame
         /\ inbox'[w] = Tail(inbox[w])
         /\ IF MainIsFree
              THEN OnChallenge(w, m) => Transmit(w, "connect", MainSession)
              ELSE UNCHANGED outbox
         /\ ~OnChallenge(w, m) =>
              \/ UNCHANGED outbox
              \/ Transmit(w, "history", selectedSession)
         /\ \A x \in Socket \ {w} : inbox'[x] = inbox[x]
                                    /\ outbox'[x] = outbox[x]
<1>1. w = latest /\ UNCHANGED <<latest, sock>>
  <2>1. UNCHANGED <<latest, sock>>
    BY QuietStep DEF linkState
  <2> QED BY <2>1 DEF OnMessage, OneLink, Live
<1>2. /\ inbox[w] \in Seq(Frame) /\ inbox[w] # <<>>
      /\ inbox' = [inbox EXCEPT ![w] = Tail(@)] /\ UNCHANGED gateway
      /\ inbox \in [Socket -> Seq(Frame)]
      /\ outbox \in [Socket -> Seq(RequestFrame)]
  BY DEF OnMessage, ClientTypeOK, GatewayTypeOK
<1>3. m \in Frame
  BY <1>2
<1>4. \/ OnChallenge(w, m) \/ OnBadChallenge(w, m) \/ OnConnectOk(w, m)
      \/ OnPairingRequired(w, m) \/ OnSendOk(w, m) \/ OnAbortOk(w, m)
      \/ OnHistory(w, m) \/ OnError(w, m) \/ OnEvent(w, m)
  BY DEF OnMessage
<1>5. /\ IF MainIsFree
           THEN OnChallenge(w, m) => Transmit(w, "connect", MainSession)
           ELSE UNCHANGED outbox
      /\ ~OnChallenge(w, m) => \/ UNCHANGED outbox
                               \/ Transmit(w, "history", selectedSession)
  <2>1. /\ OnChallenge(w, m) => Transmit(ws, "connect", MainSession)
        /\ ~OnChallenge(w, m) => \/ UNCHANGED outbox
                                 \/ Transmit(ws, "history", selectedSession)
    BY <1>4 DEF OnChallenge, OnBadChallenge, OnConnectOk,
       OnPairingRequired, OnSendOk, OnAbortOk, OnHistory, OnError, OnEvent,
       Hydrate, Request
  <2>2. CASE MainIsFree
    BY <1>1, <2>1, <2>2 DEF MainIsFree
  <2>3. CASE ~MainIsFree
    <3>1. ws \in Socket => ~TakesSends(ws)
      BY <2>3 DEF MainIsFree, OneLink, Live, TakesSends
    <3> QED BY <2>1, <2>3, <3>1 DEF Transmit
  <2> QED BY <2>2, <2>3
<1>6. ASSUME NEW x \in Socket \ {w}
      PROVE  inbox'[x] = inbox[x] /\ outbox'[x] = outbox[x]
  BY <1>2, <1>5 DEF Transmit
<1> QED BY <1>1, <1>2, <1>3, <1>5, <1>6

\* Reading a frame ends a handshake or takes it a step further.
LEMMA MessageShake ==
  ASSUME ClientAssumption, GatewayAssumption, ClientTypeOK, OneLink,
         OneHandshake, NEW w \in Socket, OnMessage(w)
  PROVE  OneHandshake'
<1>0. PICK m : m = Head(inbox[w])
  OBVIOUS
<1>1. /\ w = latest /\ latest' = latest /\ UNCHANGED sock
      /\ inbox[w] \in Seq(Frame) /\ inbox[w] # <<>>
      /\ inbox'[w] = Tail(inbox[w])
      /\ IF MainIsFree
           THEN OnChallenge(w, m) => Transmit(w, "connect", MainSession)
           ELSE UNCHANGED outbox
      /\ ~OnChallenge(w, m) => \/ UNCHANGED outbox
                               \/ Transmit(w, "history", selectedSession)
      /\ \A x \in Socket \ {w} : inbox'[x] = inbox[x]
                                 /\ outbox'[x] = outbox[x]
  BY <1>0, MessageFrame
<1>2. /\ GatewayTypeOK /\ Handshake(w) /\ (connected => Settled(w))
      /\ MainSession \in Session /\ selectedSession \in Session
      /\ "history" \in RequestType \ {"connect"}
  BY <1>1 DEF OneHandshake, Shaken, ClientTypeOK, GatewayAssumption,
     RequestType
<1>3. ASSUME NEW x \in Socket \ {w}
      PROVE  Shaken(x)'
  BY <1>1, <1>3 DEF OneHandshake, Shaken, Handshake, Settled
<1>4. CASE OnChallenge(w, m)
  <2>1. /\ m.type \in Opening /\ connected' = connected
        /\ Has(inbox[w], Opening)
    BY <1>0, <1>1, <1>4, TailShake DEF OnChallenge, Opening
  <2>2. Handshake(w)'
    <3>1. CASE MainIsFree
      BY <1>0, <1>1, <1>2, <1>4, <2>1, <3>1, AskHandshake
    <3>2. CASE ~MainIsFree
      BY <1>0, <1>1, <1>2, <3>2, ReadHandshake, SameShake
    <3> QED BY <3>1, <3>2
  <2>3. ~connected'
    BY <1>2, <2>1 DEF Settled
  <2> QED BY <1>3, <2>2, <2>3 DEF OneHandshake, Shaken
<1>5. CASE ~OnChallenge(w, m)
  <2>1. Quieter(outbox[w], outbox'[w], {"connect"})
    BY <1>1, <1>2, <1>5, TransmitShake, SameShake
  <2>2. /\ Handshake(w)' /\ (Settled(w) => Settled(w)')
        /\ m.type \in Opening => Settled(w)'
    BY <1>0, <1>1, <1>2, <2>1, ReadHandshake
  <2>3. connected' => connected \/ m.type \in Opening
    BY <1>0, <1>5 DEF OnMessage, OnBadChallenge, OnConnectOk,
       OnPairingRequired, OnSendOk, OnAbortOk, OnHistory, OnError, OnEvent,
       linkFields, Opening
  <2> QED BY <1>1, <1>2, <1>3, <2>2, <2>3 DEF OneHandshake, Shaken
<1> QED BY <1>4, <1>5

\* Every step of the client keeps each socket to one handshake.
LEMMA HandshakeStep ==
  ASSUME ClientAssumption, GatewayAssumption, ClientTypeOK, OneLink,
         OneHandshake, [ClientNext]_clientVars
  PROVE  OneHandshake'
<1>0. GatewayTypeOK
  BY DEF ClientTypeOK
<1>1. ASSUME NEW w \in Socket, OnMessage(w)
      PROVE  OneHandshake'
  BY <1>1, GatewayAssumption, MessageShake
<1>2. CASE FarEnd
  <2>1. UNCHANGED <<latest, connected>>
    BY <1>2 DEF FarEnd, clientState, linkFields
  <2> QED BY <1>0, <1>2, <2>1, GatewayShake DEF FarEnd
<1>3. SUFFICES ASSUME [ClientNext]_clientVars, ~FarEnd,
                      \A w \in Socket : ~OnMessage(w), NEW x \in Socket
               PROVE  Shaken(x)'
  BY <1>1, <1>2 DEF OneHandshake
<1>4. Shaken(x)
  BY DEF OneHandshake
<1>5. /\ Quieter(inbox[x], inbox[x], Opening)
      /\ Quieter(outbox[x], outbox[x], {"connect"})
      /\ Quieter(outbox[x], <<>>, {"connect"})
  BY SameShake
<1>6. ASSUME NEW w \in Socket, Start(w) \/ OnFailure(w) \/ OnClosed(w)
      PROVE  Shaken(x)'
  <2>1. /\ inbox' = inbox /\ outbox'[x] \in {outbox[x], <<>>}
        /\ sock'[x] \in {"unused", "opening"}
             => sock[x] \in {"unused", "opening"}
        /\ ~connected'
    BY <1>0, <1>6 DEF Start, Connect, OnFailure, OnClosed, LoseLink,
                      GatewayTypeOK
  <2> QED BY <1>4, <1>5, <2>1, CalmShake
<1>7. CASE TimerFires \/ Close
  <2>1. /\ inbox' = inbox /\ outbox' = outbox
        /\ sock'[x] \in {"unused", "opening"}
             => sock[x] \in {"unused", "opening"}
        /\ ~connected' \/ UNCHANGED <<latest, connected>>
    BY <1>0, <1>7 DEF TimerFires, Redial, Connect, Close, GatewayTypeOK
  <2> QED BY <1>4, <1>5, <2>1, CalmShake
<1>8. CASE AssignSocket \/ PostReconnect \/ TakeNotice \/ UNCHANGED clientVars
  <2>1. UNCHANGED <<inbox, outbox, sock, latest, connected>>
    BY <1>8 DEF AssignSocket, PostReconnect, TakeNotice, clientVars,
       clientState, linkFields, gatewayVars, wire
  <2> QED BY <1>4, <1>5, <2>1, CalmShake
<1>9. ASSUME PauseOrStop \/ \E s \in Session : SelectSession(s) \/ SendChat(s)
      PROVE  Shaken(x)'
  <2>1. UNCHANGED <<inbox, sock, latest, connected>>
    BY <1>9 DEF PauseOrStop, SelectSession, SendChat, linkFields
  <2>2. PICK t \in RequestType \ {"connect"}, s \in Session :
          Transmit(ws, t, s)
    BY <1>9 DEF PauseOrStop, SelectSession, SendChat, Hydrate, Request,
                ClientTypeOK, RequestType
  <2>3. Quieter(outbox[x], outbox'[x], {"connect"})
    BY <1>0, <2>2, TransmitShake
  <2> QED BY <1>4, <1>5, <2>1, <2>3, CalmShake
<1> QED BY <1>3, <1>6, <1>7, <1>8, <1>9 DEF ClientNext

\* Nothing is on its way at first.
LEMMA HandshakeInit ==
  ASSUME ClientInit
  PROVE  OneHandshake
<1> SUFFICES ASSUME NEW w \in Socket
             PROVE  Shaken(w)
  BY Zenon DEF OneHandshake
<1>1. inbox[w] = <<>> /\ outbox[w] = <<>> /\ connected = FALSE
  BY DEF ClientInit, GatewayInit
<1> QED BY <1>1 DEF Shaken, Handshake, Has, Once

(***************************************************************************)
(* The client implements LinkLifecycle                                     *)
(***************************************************************************)

\* A step that keeps the fields of the link is a stutter.
LEMMA LinkStutters ==
  ASSUME UNCHANGED <<Phase, latest, Dialled>>
  PROVE  UNCHANGED Link!linkVars
BY DEF Link!linkVars

\* connect() dials where nothing is alive.
LEMMA DialStep ==
  ASSUME ClientAssumption, ClientTypeOK, OneLink, NEW w \in Socket, Connect(w),
         latest = NoSocket \/ (~closing /\ timers > 0),
         timers' = 0, ~scheduling'
  PROVE  Link!Dial
<1>1. Phase \in {"idle", "waiting"}
  BY DEF Phase
<1>2. Phase' = "dialing"
  BY ClientAssumption DEF ClientAssumption, Phase, Connect
<1>3. latest' \in Socket \ Dialled
  BY DEF Connect, Dialled
<1>4. Dialled' = Dialled \cup {latest'}
  BY DEF Connect, Dialled, ClientTypeOK, GatewayTypeOK
<1> QED BY <1>1, <1>2, <1>3, <1>4 DEF Link!Dial

\* Reading a frame can only complete the handshake of the link.
LEMMA MessageLink ==
  ASSUME ClientAssumption, ClientTypeOK, OneLink, OneHandshake,
         NEW w \in Socket, OnMessage(w)
  PROVE  Link!Authenticate \/ UNCHANGED Link!linkVars
<1> DEFINE m == Head(inbox[w])
<1>1. /\ UNCHANGED <<latest, closing, timers, scheduling, Dialled>>
      /\ w = latest /\ latest # NoSocket /\ timers = 0 /\ ~scheduling
  <2>1. UNCHANGED <<latest, closing, timers, scheduling, sock>>
    BY QuietStep DEF linkState
  <2>2. w = latest /\ sock[latest] \in Live
    BY DEF OnMessage, OneLink, Live
  <2> QED BY <2>1, <2>2, ClientAssumption
          DEF OneLink, Dialled, ClientAssumption
<1>2. CASE OnConnectOk(w, m) /\ ~closing /\ ~connected
  <2>1. connected'
    BY <1>2 DEF OnConnectOk
  <2>2. Phase = "dialing" /\ Phase' = "online"
    BY <1>1, <1>2, <2>1, ClientAssumption DEF Phase, ClientTypeOK
  <2> QED BY <1>1, <2>2 DEF Link!Authenticate
<1>3. CASE connected' = connected \/ closing
  <2>1. Phase' = Phase
    BY <1>1, <1>3 DEF Phase
  <2> QED BY <1>1, <2>1, LinkStutters
<1>4. CASE OnPairingRequired(w, m) /\ connected
  <2>1. inbox[w] \in Seq(Frame) /\ inbox[w] # <<>>
    BY DEF OnMessage, ClientTypeOK, GatewayTypeOK
  <2>2. m.type \in Opening
    BY <1>4 DEF OnPairingRequired, Opening
  <2>3. Has(inbox[w], Opening)
    BY <2>1, <2>2, TailShake
  <2> QED BY <1>1, <1>4, <2>3 DEF OneHandshake, Shaken, Settled
<1>5. CASE OnPairingRequired(w, m) /\ ~connected
  <2>1. connected' = connected
    BY <1>5 DEF OnPairingRequired, ClientTypeOK
  <2> QED BY <1>3, <2>1
<1>6. CASE OnConnectOk(w, m) /\ connected
  <2>1. connected' = connected
    BY <1>6 DEF OnConnectOk, ClientTypeOK
  <2> QED BY <1>3, <2>1
<1>7. CASE \/ OnChallenge(w, m) \/ OnBadChallenge(w, m) \/ OnSendOk(w, m)
           \/ OnAbortOk(w, m) \/ OnHistory(w, m) \/ OnError(w, m)
           \/ OnEvent(w, m)
  <2>1. connected' = connected
    BY <1>7 DEF OnChallenge, OnBadChallenge, OnSendOk, OnAbortOk, OnHistory,
       OnError, OnEvent, linkFields
  <2> QED BY <1>3, <2>1
<1> HIDE DEF m
<1> QED BY <1>2, <1>3, <1>4, <1>5, <1>6, <1>7 DEF OnMessage, m

\* Every step of threads, timers and user is a step of LinkLifecycle.
LEMMA LinkStep ==
  ASSUME ClientAssumption, GatewayAssumption, ClientTypeOK, OneLink,
         OneHandshake, [ClientNext]_clientVars
  PROVE  [Link!LinkNext]_(Link!linkVars)
<1> USE DEF Link!LinkNext
<1>0. GatewayTypeOK
  BY DEF ClientTypeOK
<1>1. ASSUME NEW w \in Socket, Start(w)
      PROVE  Link!Dial
  <2>1. Connect(w) /\ latest = NoSocket /\ timers' = 0 /\ ~scheduling'
    BY <1>1 DEF Start, OneLink, threads
  <2> QED BY <2>1, DialStep
<1>2. CASE TimerFires /\ ~closing
  <2>1. PICK w \in Socket : Connect(w)
    BY <1>2 DEF TimerFires, Redial
  <2>2. timers > 0 /\ timers' = 0 /\ ~scheduling'
    BY <1>2 DEF TimerFires, OneLink, ClientTypeOK
  <2> QED BY <1>2, <2>1, <2>2, DialStep
<1>3. CASE TimerFires /\ closing
  <2>1. UNCHANGED <<latest, closing, sock>>
    BY <1>3 DEF TimerFires, Redial
  <2>2. UNCHANGED <<Phase, Dialled>>
    BY <1>3, <2>1 DEF Phase, Dialled, OneLink
  <2> QED BY <2>1, <2>2, LinkStutters
<1>4. ASSUME NEW w \in Socket, OnMessage(w)
      PROVE  [Link!LinkNext]_(Link!linkVars)
  BY <1>4, MessageLink
<1>5. ASSUME NEW w \in Socket, OnFailure(w) \/ OnClosed(w)
      PROVE  Link!Drop \/ UNCHANGED Link!linkVars
  <2>1. /\ sock[w] \in Live /\ w = latest /\ timers = 0 /\ ~scheduling
        /\ sock' = [sock EXCEPT ![w] = "dead"]
        /\ UNCHANGED <<latest, closing, timers>> /\ latest # NoSocket
    BY <1>5, ClientAssumption DEF OnFailure, OnClosed, LoseLink, uiFields,
       Live, OneLink, ClientAssumption
  <2>2. scheduling' = ~closing
    <3>1. \/ ScheduleReconnect(<<Note("localError", MainSession)>>)
          \/ ScheduleReconnect(<<>>)
      BY <1>5 DEF OnFailure, OnClosed
    <3> QED BY <2>1, <3>1 DEF ScheduleReconnect, ClientTypeOK
  <2>3. Dialled' = Dialled
    BY <1>0, <2>1 DEF Dialled, GatewayTypeOK, Live
  <2>4. CASE closing
    <3>1. Phase' = Phase
      BY <2>1, <2>4 DEF Phase
    <3> QED BY <2>1, <2>3, <3>1, LinkStutters
  <2>5. CASE ~closing
    <3>1. ~(timers > 0 \/ scheduling)
      BY <2>1
    <3>2. Phase \in {"dialing", "online"}
      BY <2>1, <2>5, <3>1 DEF Phase
    <3>3. scheduling' /\ latest' # NoSocket /\ ~closing'
      BY <2>1, <2>2, <2>5
    <3>4. Phase' = "waiting"
      BY <3>3 DEF Phase
    <3> QED BY <2>1, <2>3, <3>2, <3>4 DEF Link!Drop
  <2> QED BY <2>4, <2>5
<1>6. CASE Close
  <2>1. latest # NoSocket /\ ~closing /\ closing' /\ latest' = latest
    BY <1>6 DEF Close, MainIsFree
  <2>2. Dialled' = Dialled
    BY <1>0, <1>6 DEF Close, Dialled, GatewayTypeOK, TakesSends
  <2>3. Phase \in {"dialing", "online", "waiting"} /\ Phase' = "stopped"
    BY <2>1 DEF Phase
  <2> QED BY <2>1, <2>2, <2>3 DEF Link!Stop
<1>7. CASE PostReconnect
  <2>1. /\ UNCHANGED <<latest, closing, sock>> /\ scheduling
        /\ timers = 0 /\ timers' = timers + 1
    BY <1>7 DEF PostReconnect, uiFields, linkFields, OneLink
  <2>2. UNCHANGED <<Phase, Dialled>>
    BY <2>1 DEF Phase, Dialled
  <2> QED BY <2>1, <2>2, LinkStutters
<1>8. CASE FarEnd
  <2>1. UNCHANGED <<latest, closing, timers, scheduling, connected>>
    BY <1>8 DEF FarEnd, clientState, uiFields, linkFields, threads
  <2>2. Dialled' = Dialled
    BY <1>0, <1>8, FarEndSockets DEF FarEnd, Dialled, GatewayTypeOK
  <2>3. Phase' = Phase
    BY <2>1 DEF Phase
  <2> QED BY <2>1, <2>2, <2>3, LinkStutters
<1>9. CASE \/ AssignSocket \/ TakeNotice \/ PauseOrStop \/ UNCHANGED clientVars
           \/ \E s \in Session : SelectSession(s) \/ SendChat(s)
  <2>1. UNCHANGED <<latest, closing, timers, scheduling, connected, sock>>
    BY <1>9 DEF AssignSocket, TakeNotice, PauseOrStop, SelectSession,
       SendChat, uiFields, linkFields, threads, clientVars, clientState,
       gatewayVars, wire
  <2>2. UNCHANGED <<Phase, Dialled>>
    BY <2>1 DEF Phase, Dialled
  <2> QED BY <2>1, <2>2, LinkStutters
<1> QED BY <1>1, <1>2, <1>3, <1>4, <1>5, <1>6, <1>7, <1>8, <1>9
        DEF ClientNext

\* One handshake per socket, in every reachable state.
LEMMA HandshakeAlways == ClientSpec => []OneHandshake
<1>1. ClientTypeOK /\ OneLink /\ OneHandshake /\ [ClientNext]_clientVars
        => OneHandshake'
  BY ClientAssumption, GatewayAssumption, HandshakeStep
<1> QED BY <1>1, HandshakeInit, TypeCorrect, OneLinkAlways, PTL DEF ClientSpec

\* However reader, timers and user interleave, the client dials where nothing
\* is alive, waits before it dials again, and never dials once it is closed.
THEOREM ImplementsLinkAlways == ClientSpec => ImplementsLink
<1>1. ClientInit => Link!LinkInit
  BY DEF ClientInit, GatewayInit, Link!LinkInit, Phase, Dialled
<1>2. ClientTypeOK /\ OneLink /\ OneHandshake /\ [ClientNext]_clientVars
        => [Link!LinkNext]_(Link!linkVars)
  BY ClientAssumption, GatewayAssumption, LinkStep
<1> QED BY <1>1, <1>2, TypeCorrect, OneLinkAlways, HandshakeAlways, PTL
        DEF ClientSpec, ImplementsLink, Link!LinkSpec

(***************************************************************************)
(* Frames name their runs                                                  *)
(***************************************************************************)

\* Whoever moves, deltas and answers to a message name their run.
LEMMA NamedAlways == ClientSpec => []RunsNamed
<1>1. ClientInit => RunsNamed
  <2>1. <<>> \in Seq(NamedFrame)
    OBVIOUS
  <2> QED BY <2>1 DEF ClientInit, GatewayInit, RunsNamed
<1>2. ClientTypeOK /\ RunsNamed /\ [ClientNext]_clientVars => RunsNamed'
  <2> SUFFICES ASSUME ClientTypeOK, RunsNamed, [ClientNext]_clientVars
               PROVE  RunsNamed'
    OBVIOUS
  <2> USE DEF gateway, history
  <2>1. CASE UNCHANGED <<inbox, firstSent>>
    BY <2>1 DEF RunsNamed
  <2>2. CASE FarEnd
    BY <2>2, GatewayAssumption, GatewayNamed DEF FarEnd, ClientTypeOK
  <2>3. ASSUME NEW w \in Socket, OnMessage(w)
        PROVE  RunsNamed'
    <3>1. /\ inbox' = [inbox EXCEPT ![w] = Tail(@)] /\ firstSent' = firstSent
          /\ inbox[w] # <<>>
      BY <2>3 DEF OnMessage
    <3>2. Tail(inbox[w]) \in Seq(NamedFrame)
      BY <3>1 DEF RunsNamed
    <3> QED BY <3>1, <3>2 DEF RunsNamed
  <2>4. ASSUME NEW w \in Socket, Start(w) \/ OnFailure(w) \/ OnClosed(w)
        PROVE  UNCHANGED <<inbox, firstSent>>
    BY <2>4 DEF Start, OnFailure, OnClosed
  <2>5. \/ AssignSocket \/ TimerFires \/ Close \/ PostReconnect
        \/ TakeNotice \/ PauseOrStop
        => UNCHANGED <<inbox, firstSent>>
    BY DEF AssignSocket, TimerFires, Close, PostReconnect, TakeNotice,
       PauseOrStop
  <2>6. ASSUME NEW s \in Session, SelectSession(s) \/ SendChat(s)
        PROVE  UNCHANGED <<inbox, firstSent>>
    BY <2>6 DEF SelectSession, SendChat
  <2>7. CASE UNCHANGED clientVars
    BY <2>1, <2>7 DEF clientVars, gatewayVars, wire
  <2> QED BY <2>1, <2>2, <2>3, <2>4, <2>5, <2>6, <2>7 DEF ClientNext
<1> QED BY <1>1, <1>2, TypeCorrect, PTL DEF ClientSpec

(***************************************************************************)
(* Numbers of this connection                                              *)
(***************************************************************************)

\* What the client saw of the socket in use are numbers its Gateway has used.
NumbersOf(w) ==
  /\ NumbersUsed(w)
  /\ sock[w] = "open" /\ w = latest /\ connected => lastSeq <= gwSeq

Numbers == \A w \in Socket : NumbersOf(w)

\* The far end moves on the socket in use.
LEMMA FarEndMoves ==
  ASSUME ClientTypeOK, OneLink, FarEnd
  PROVE  \E w \in Socket :
           /\ GatewayMoves(w) /\ w = latest
           /\ sock'[w] = "open" => sock[w] \in {"opening", "open"}
           /\ \A x \in Socket \ {w} :
                /\ inbox'[x] = inbox[x] /\ sock'[x] = sock[x]
                /\ sock[x] \notin Live
                /\ x \in accepted' <=> x \in accepted
<1>1. GatewayTypeOK /\ GatewayNext
  BY DEF ClientTypeOK, FarEnd
<1>2. PICK w \in Socket :
        /\ GatewayMoves(w)
        /\ sock[w] \in {"opening", "open", "halfClosed", "closing"}
        /\ sock'[w] = "open" => sock[w] \in {"opening", "open"}
        /\ \A x \in Socket \ {w} :
             /\ inbox'[x] = inbox[x] /\ sock'[x] = sock[x]
             /\ x \in accepted' <=> x \in accepted
  BY <1>1, OneMoves
<1>3. w = latest
  BY <1>2 DEF OneLink, Live
<1>4. \A x \in Socket \ {w} : sock[x] \notin Live
  BY <1>3 DEF OneLink
<1> QED BY <1>2, <1>3, <1>4

\* The Gateway counts up until its socket breaks.
LEMMA FarEndNumbers ==
  ASSUME GatewayAssumption, ClientTypeOK, OneLink, OneHandshake, Numbers,
         FarEnd
  PROVE  Numbers'
<1>1. PICK w \in Socket :
        /\ GatewayMoves(w) /\ w = latest
        /\ sock'[w] = "open" => sock[w] \in {"opening", "open"}
        /\ \A x \in Socket \ {w} :
             /\ inbox'[x] = inbox[x] /\ sock'[x] = sock[x]
             /\ sock[x] \notin Live
             /\ x \in accepted' <=> x \in accepted
  BY FarEndMoves
<1>2. /\ GatewayTypeOK /\ NumbersOf(w) /\ Shaken(w)
      /\ UNCHANGED <<latest, connected, lastSeq>>
      /\ lastSeq \in Int /\ gwSeq \in Nat
  BY DEF Numbers, OneHandshake, ClientTypeOK, GatewayTypeOK, FarEnd,
     clientState, linkFields, streamFields, NoSeq
<1>3. NumbersUsed(w)' /\ (sock'[w] = "open" => gwSeq <= gwSeq')
  BY <1>1, <1>2, GatewayNumbers DEF NumbersOf
<1>4. sock'[w] = "open" /\ connected => sock[w] = "open"
  BY <1>1, <1>2 DEF Shaken, Settled
<1>5. gwSeq' \in Nat
  BY <1>2, GatewayTypeStep DEF FarEnd, GatewayTypeOK
<1>6. NumbersOf(w)'
  BY <1>1, <1>2, <1>3, <1>4, <1>5 DEF NumbersOf
<1>7. ASSUME NEW x \in Socket \ {w}
      PROVE  NumbersOf(x)'
  BY <1>1, <1>7 DEF Numbers, NumbersOf, NumbersUsed, Live
<1> QED BY <1>6, <1>7 DEF Numbers

\* The reader's own count is of the events it was sent.
LEMMA MessageNumbers ==
  ASSUME ClientAssumption, GatewayAssumption, ClientTypeOK, OneLink, Numbers,
         NEW w \in Socket, OnMessage(w)
  PROVE  Numbers'
<1>0. PICK m : m = Head(inbox[w])
  OBVIOUS
<1>1. /\ w = latest /\ latest' = latest /\ UNCHANGED <<sock, gateway>>
      /\ inbox[w] \in Seq(Frame) /\ inbox[w] # <<>>
      /\ inbox'[w] = Tail(inbox[w])
      /\ \A x \in Socket \ {w} : inbox'[x] = inbox[x]
  BY <1>0, MessageFrame
<1>2. NumbersOf(w) /\ gwSeq \in Nat /\ lastSeq \in Int
  BY DEF Numbers, ClientTypeOK, GatewayTypeOK, NoSeq
<1>3. /\ NumbersUsed(w)'
      /\ sock[w] = "open" /\ m.type \in EventType => m.seq <= gwSeq
  BY <1>0, <1>1, <1>2, ReadNumbers DEF NumbersOf, gateway
<1>4. \/ UNCHANGED <<connected, lastSeq>>
      \/ connected' = FALSE
      \/ lastSeq' = NoSeq
      \/ m.type \in EventType /\ lastSeq' = m.seq /\ connected' = connected
  BY <1>0 DEF OnMessage, OnChallenge, OnBadChallenge, OnConnectOk, ForgetSeq,
     OnPairingRequired, OnSendOk, OnAbortOk, OnHistory, OnError, OnEvent,
     SeesNumber, linkFields, streamFields
<1>5. gwSeq' = gwSeq /\ NoSeq <= gwSeq
  BY <1>1, <1>2 DEF gateway, NoSeq
<1>6. NumbersOf(w)'
  BY <1>1, <1>2, <1>3, <1>4, <1>5 DEF NumbersOf
<1>7. ASSUME NEW x \in Socket \ {w}
      PROVE  NumbersOf(x)'
  BY <1>1, <1>7 DEF Numbers, NumbersOf, NumbersUsed, gateway
<1> QED BY <1>6, <1>7 DEF Numbers

\* Whoever moves, the numbers in use are those of the socket in use.
LEMMA NumbersStep ==
  ASSUME ClientAssumption, GatewayAssumption, ClientTypeOK, OneLink,
         OneHandshake, Numbers, [ClientNext]_clientVars
  PROVE  Numbers'
<1> USE DEF gateway
<1>1. ASSUME NEW w \in Socket, Connect(w),
             UNCHANGED <<lastSeq, inbox, accepted, gwSeq, firstSent>>
      PROVE  Numbers'
  <2>1. ASSUME NEW x \in Socket
        PROVE  NumbersOf(x)'
    BY <1>1, <2>1 DEF Connect, Numbers, NumbersOf, NumbersUsed,
       ClientTypeOK, GatewayTypeOK
  <2> QED BY <2>1 DEF Numbers
<1>2. ASSUME NEW w \in Socket, Start(w)
      PROVE  Numbers'
  BY <1>1, <1>2 DEF Start, streamFields
<1>3. CASE TimerFires
  <2>1. UNCHANGED <<lastSeq, inbox, accepted, gwSeq, firstSent>>
    BY <1>3 DEF TimerFires, streamFields
  <2>2. CASE UNCHANGED <<connected, latest, sock>>
    BY <2>1, <2>2 DEF Numbers, NumbersOf, NumbersUsed
  <2> QED BY <1>1, <1>3, <2>1, <2>2 DEF TimerFires, Redial
<1>4. ASSUME NEW w \in Socket, OnFailure(w) \/ OnClosed(w)
      PROVE  Numbers'
  <2>1. /\ sock' = [sock EXCEPT ![w] = "dead"] /\ connected' = FALSE
        /\ UNCHANGED <<inbox, accepted, gwSeq, firstSent>>
    BY <1>4 DEF OnFailure, OnClosed, LoseLink
  <2>2. ASSUME NEW x \in Socket
        PROVE  NumbersOf(x)'
    BY <2>1, <2>2 DEF Numbers, NumbersOf, NumbersUsed, ClientTypeOK,
       GatewayTypeOK
  <2> QED BY <2>2 DEF Numbers
<1>5. CASE Close
  <2>1. /\ sock' = sock \/ sock' = [sock EXCEPT ![latest] = "closing"]
        /\ connected' = FALSE
        /\ UNCHANGED <<inbox, accepted, gwSeq, firstSent>>
    BY <1>5 DEF Close, MainIsFree
  <2>2. ASSUME NEW x \in Socket
        PROVE  NumbersOf(x)'
    BY <2>1, <2>2 DEF Numbers, NumbersOf, NumbersUsed, ClientTypeOK,
       GatewayTypeOK
  <2> QED BY <2>2 DEF Numbers
<1>6. CASE \/ AssignSocket \/ PostReconnect \/ TakeNotice \/ PauseOrStop
           \/ UNCHANGED clientVars
           \/ \E s \in Session : SelectSession(s) \/ SendChat(s)
  <2>1. UNCHANGED <<latest, connected, lastSeq, sock, inbox, accepted, gwSeq,
                    firstSent>>
    BY <1>6 DEF AssignSocket, PostReconnect, TakeNotice, PauseOrStop,
       SelectSession, SendChat, linkFields, streamFields, clientVars,
       clientState, gatewayVars, wire
  <2> QED BY <2>1 DEF Numbers, NumbersOf, NumbersUsed
<1>7. CASE FarEnd
  BY <1>7, GatewayAssumption, FarEndNumbers
<1>8. ASSUME NEW w \in Socket, OnMessage(w)
      PROVE  Numbers'
  BY <1>8, MessageNumbers
<1> QED BY <1>2, <1>3, <1>4, <1>5, <1>6, <1>7, <1>8 DEF ClientNext

\* Numbers in use are always those of the socket in use.
LEMMA NumbersAlways == ClientSpec => []Numbers
<1>1. ClientInit => Numbers
  <2> SUFFICES ASSUME ClientInit, NEW w \in Socket
               PROVE  NumbersOf(w)
    BY Zenon DEF Numbers
  <2>1. inbox[w] = <<>> /\ w \notin accepted /\ sock[w] = "unused"
    BY DEF ClientInit, GatewayInit
  <2> QED BY <2>1 DEF NumbersOf, NumbersUsed
<1>2. ClientTypeOK /\ OneLink /\ OneHandshake /\ Numbers
        /\ [ClientNext]_clientVars => Numbers'
  BY ClientAssumption, GatewayAssumption, NumbersStep
<1> QED BY <1>1, <1>2, TypeCorrect, OneLinkAlways, HandshakeAlways, PTL
        DEF ClientSpec

\* A Gateway that has restarted counts from 1 again, and the client with it:
\* no event of the connection in use is below a number kept from another.
THEOREM SeqOfThisConnectionAlways == ClientSpec => []SeqOfThisConnection
<1>1. ClientTypeOK /\ Unassigned /\ ConnectedMeansAuthenticated /\ Numbers
        => SeqOfThisConnection
  BY DEF ConnectedMeansAuthenticated, SeqOfThisConnection, Numbers,
     NumbersOf, NumbersUsed, ClientTypeOK, GatewayTypeOK, Unassigned,
     MainIsFree
<1> QED BY <1>1, TypeCorrect, NumbersAlways, ConnectedAlways,
           UnassignedAlways, PTL

(***************************************************************************)
(* A run whose end was told                                                *)
(***************************************************************************)

\* The runs whose end was told are over, the one in progress is not of them,
\* and the socket in use brings none of them back.
RunsEnd ==
  /\ \A r \in ended : r \in Run /\ runState[r] = "over"
  /\ activeRunId \notin ended
  /\ \A w \in Socket : w = latest => Telling(w, ended, lastSeq)

\* The Gateway names no run it has ended but in events it sends again.
LEMMA FarEndRuns ==
  ASSUME GatewayAssumption, ClientTypeOK, OneLink, OneHandshake, Numbers,
         RunsEnd, FarEnd
  PROVE  RunsEnd'
<1>1. PICK w \in Socket : GatewayMoves(w) /\ w = latest
  BY FarEndMoves
<1>2. /\ GatewayTypeOK /\ GatewayNext /\ NumbersUsed(w) /\ Handshake(w)
      /\ UNCHANGED <<latest, activeRunId, lastSeq, ended>>
  BY DEF Numbers, NumbersOf, OneHandshake, Shaken, ClientTypeOK, FarEnd,
     clientState, linkFields, streamFields
<1>3. RunsOnward
  BY <1>2, RunsGoOn
<1>4. PICK told, last : told = ended /\ last = lastSeq
  OBVIOUS
<1>5. /\ \A r \in told : r \in Run /\ runState[r] = "over"
      /\ Telling(w, told, last)
  BY <1>1, <1>4 DEF RunsEnd
<1>6. Telling(w, told, last)'
  BY <1>1, <1>2, <1>3, <1>5, GatewayRuns
<1>7. Telling(w, ended, lastSeq)'
  BY <1>2, <1>4, <1>6 DEF Telling, Ordered, Repeats, After, Seen,
     NoneRevived, Harmless, Dropped
<1>8. (\A r \in ended : r \in Run /\ runState[r] = "over")'
  BY <1>2, <1>3 DEF RunsEnd, RunsOnward
<1> QED BY <1>1, <1>2, <1>7, <1>8 DEF RunsEnd

\* What the reader is told of a run comes before the run's end.
LEMMA MessageRuns ==
  ASSUME ClientAssumption, GatewayAssumption, ClientTypeOK, OneLink,
         OneHandshake, RunsEnd, NEW w \in Socket, OnMessage(w)
  PROVE  RunsEnd'
<1>0. PICK m : m = Head(inbox[w])
  OBVIOUS
<1>1. /\ w = latest /\ latest' = latest /\ UNCHANGED <<sock, gateway>>
      /\ inbox[w] \in Seq(Frame) /\ inbox[w] # <<>> /\ m \in Frame
      /\ inbox'[w] = Tail(inbox[w])
      /\ IF MainIsFree
           THEN OnChallenge(w, m) => Transmit(w, "connect", MainSession)
           ELSE UNCHANGED outbox
      /\ ~OnChallenge(w, m) => \/ UNCHANGED outbox
                               \/ Transmit(w, "history", selectedSession)
  BY <1>0, MessageFrame
<1>2. PICK told, last, active, told2, last2, active2 :
        /\ told = ended /\ last = lastSeq /\ active = activeRunId
        /\ told2 = ended' /\ last2 = lastSeq' /\ active2 = activeRunId'
  OBVIOUS
<1>3. /\ GatewayTypeOK /\ last \in Int /\ last2 \in Int /\ m.seq \in Nat
      /\ firstSent \in Seq(EventFrame) /\ Handshake(w)
      /\ UNCHANGED <<accepted, firstSent, runState>>
      /\ Telling(w, told, last) /\ active \notin told
      /\ \A r \in told : r \in Run /\ runState[r] = "over"
  <2>1. GatewayTypeOK /\ last \in Int
    BY <1>2 DEF ClientTypeOK, NoSeq
  <2>2. m.seq \in Nat /\ firstSent \in Seq(EventFrame)
    BY <1>1, <2>1 DEF GatewayTypeOK, Frame
  <2>3. /\ Telling(w, told, last) /\ active \notin told
        /\ \A r \in told : r \in Run /\ runState[r] = "over"
    BY <1>1, <1>2 DEF RunsEnd
  <2>4. Handshake(w) /\ UNCHANGED <<accepted, firstSent, runState>>
    BY <1>1 DEF OneHandshake, Shaken, gateway
  <2>5. last2 \in Int
    <3>1. ClientTypeOK'
      BY MessageType
    <3> QED BY <1>2, <3>1 DEF ClientTypeOK, NoSeq
  <2> QED BY <2>1, <2>2, <2>3, <2>4, <2>5
<1>4. Takes(m, told, last, active, told2, last2, active2)
  <2>1. CASE OnEvent(w, m)
    <3>1. m.type \in EventType
      BY <2>1 DEF OnEvent
    <3>2. CASE Stale(m)
      <4>1. m.seq <= last /\ last2 = last
        BY <1>2, <2>1, <3>2 DEF Stale, OnEvent
      <4> QED BY <1>2, <1>3, <2>1, <3>1, <3>2, <4>1
              DEF OnEvent, history, Takes, EventType
    <3>3. CASE ~Stale(m)
      <4>1. m.seq = NoNumber \/ last < m.seq
        BY <1>2, <1>3, <3>3 DEF Stale, NoSeq, ClientTypeOK
      <4>2. last2 = IF m.seq = NoNumber THEN last ELSE m.seq
        BY <1>2, <2>1, <3>3 DEF OnEvent, SeesNumber
      <4>3. /\ active2 = IF m.type = "delta" THEN m.run ELSE NoRun
            /\ told2 = IF m.type = "delta" THEN told ELSE told \cup {m.run}
        BY <1>2, <2>1, <3>3 DEF OnEvent
      <4> QED BY <1>3, <3>1, <4>1, <4>2, <4>3 DEF Takes, EventType
    <3> QED BY <3>2, <3>3
  <2>2. CASE OnSendOk(w, m) \/ OnAbortOk(w, m)
    BY <1>2, <1>3, <2>2 DEF OnSendOk, OnAbortOk, history, Takes, EventType
  <2>3. CASE OnConnectOk(w, m)
    BY <1>2, <2>3 DEF OnConnectOk, history, Takes, EventType
  <2>4. CASE \/ OnChallenge(w, m) \/ OnBadChallenge(w, m)
             \/ OnPairingRequired(w, m) \/ OnHistory(w, m) \/ OnError(w, m)
    BY <1>2, <1>3, <2>4 DEF OnChallenge, OnBadChallenge, OnPairingRequired,
       OnHistory, OnError, streamFields, history, Takes, EventType
  <2> QED BY <1>0, <2>1, <2>2, <2>3, <2>4 DEF OnMessage
<1>5. w \in accepted => ~Has(outbox'[w], {"connect"})
  <2>1. w \in accepted => ~Has(outbox[w], {"connect"})
                          /\ ~Has(inbox[w], {"challenge"})
    BY <1>3 DEF Telling, Greeted
  <2>2. CASE OnChallenge(w, m)
    BY <1>0, <1>1, <2>1, <2>2, TailShake DEF OnChallenge
  <2>3. CASE ~OnChallenge(w, m)
    <3>1. /\ "history" \in RequestType \ {"connect"}
          /\ selectedSession \in Session
      BY DEF RequestType, ClientTypeOK
    <3>2. Quieter(outbox[w], outbox'[w], {"connect"})
      BY <1>1, <1>3, <2>3, <3>1, TransmitShake, SameShake
    <3> QED BY <2>1, <3>2 DEF Quieter
  <2> QED BY <2>2, <2>3
<1>6. /\ \A r \in told2 : r \in Run /\ runState[r] = "over"
      /\ active2 \notin told2
      /\ Telling(w, told2, last2)'
  <2>1. inbox[w] \in Seq(Frame) /\ inbox[w] # <<>>
    BY <1>1
  <2>2. inbox'[w] = Tail(inbox[w]) /\ m = Head(inbox[w])
    BY <1>0, <1>1
  <2>3. last \in Int /\ last2 \in Int /\ firstSent \in Seq(EventFrame)
    BY <1>3
  <2>4. UNCHANGED <<accepted, firstSent, runState>>
    BY <1>3
  <2>5. sock'[w] = "open" => sock[w] = "open"
    BY <1>1
  <2>6. Telling(w, told, last)
    BY <1>3
  <2>7. active \notin told /\ \A r \in told : r \in Run /\ runState[r] = "over"
    BY <1>3
  <2>8. /\ \A r \in told2 : r \in Run /\ runState[r] = "over"
        /\ active2 \notin told2
    BY ONLY <1>4, <1>5, <2>1, <2>2, <2>3, <2>4, <2>5, <2>6, <2>7,
       GatewayAssumption, w \in Socket, ReadRuns
  <2>9. Telling(w, told2, last2)'
    BY <1>4, <1>5, <2>1, <2>2, <2>3, <2>4, <2>5, <2>6, <2>7,
       GatewayAssumption, ReadRuns, Zenon
  <2> QED BY <2>8, <2>9
<1>7. Telling(w, ended, lastSeq)'
  BY <1>2, <1>6 DEF Telling, Ordered, Repeats, After, Seen, NoneRevived,
     Harmless, Dropped
<1> QED BY <1>1, <1>2, <1>3, <1>6, <1>7 DEF RunsEnd

runsState == <<latest, inbox, accepted, firstSent, runState, ended, lastSeq,
               activeRunId>>

\* Whoever moves, no run is named behind its end.
LEMMA RunsStep ==
  ASSUME ClientAssumption, GatewayAssumption, ClientTypeOK, OneLink,
         OneHandshake, Numbers, RunsEnd, [ClientNext]_clientVars
  PROVE  RunsEnd'
<1> USE DEF gateway
<1>1. ASSUME UNCHANGED runsState,
             \A w \in Socket : /\ sock'[w] = "open" => sock[w] = "open"
                               /\ Has(outbox'[w], {"connect"})
                                    => Has(outbox[w], {"connect"})
      PROVE  RunsEnd'
  <2>1. ASSUME NEW w \in Socket, w = latest
        PROVE  Telling(w, ended, lastSeq)'
    <3>1. PICK told, last : told = ended /\ last = lastSeq
      OBVIOUS
    <3>2. Telling(w, told, last) /\ RunsOnward
      BY <1>1, <2>1, <3>1 DEF RunsEnd, runsState, RunsOnward
    <3>3. Telling(w, told, last)'
      BY <1>1, <3>2, TellingRests DEF runsState
    <3> QED BY <1>1, <3>1, <3>3 DEF runsState, Telling, Ordered, Repeats,
            After, Seen, NoneRevived, Harmless, Dropped
  <2> QED BY <1>1, <2>1 DEF RunsEnd, runsState
<1>2. ASSUME NEW w \in Socket, Connect(w),
             UNCHANGED <<inbox, accepted, firstSent, runState, ended, lastSeq,
                         activeRunId>>
      PROVE  RunsEnd'
  <2>1. inbox'[w] = <<>> /\ w \notin accepted' /\ latest' = w
    BY <1>2 DEF Connect, Numbers, NumbersOf, NumbersUsed
  <2>2. Telling(w, ended, lastSeq)'
    BY <2>1 DEF Telling, Greeted, Ordered, NoneRevived, Has
  <2> QED BY <1>2, <2>1, <2>2 DEF RunsEnd
<1>3. ASSUME NEW w \in Socket, Start(w)
      PROVE  RunsEnd'
  BY <1>2, <1>3 DEF Start, streamFields, history
<1>4. CASE TimerFires
  <2>1. UNCHANGED <<inbox, outbox, accepted, firstSent, runState, ended,
                    lastSeq, activeRunId>>
    BY <1>4 DEF TimerFires, streamFields, history
  <2>2. CASE closing
    BY <1>1, <1>4, <2>1, <2>2 DEF TimerFires, Redial, runsState
  <2>3. CASE ~closing
    BY <1>2, <1>4, <2>1, <2>3 DEF TimerFires, Redial
  <2> QED BY <2>2, <2>3
<1>5. ASSUME NEW w \in Socket, OnFailure(w) \/ OnClosed(w)
      PROVE  RunsEnd'
  <2>1. UNCHANGED runsState
    BY <1>5 DEF OnFailure, OnClosed, LoseLink, runsState, streamFields,
       history
  <2>2. outbox' = outbox \/ outbox' = [outbox EXCEPT ![w] = <<>>]
    BY <1>5 DEF OnFailure, OnClosed
  <2>3. \A x \in Socket : outbox'[x] = outbox[x] \/ outbox'[x] = <<>>
    BY <2>2 DEF ClientTypeOK, GatewayTypeOK
  <2>4. \A x \in Socket : sock'[x] = "open" => sock[x] = "open"
    BY <1>5 DEF OnFailure, OnClosed, LoseLink, ClientTypeOK, GatewayTypeOK
  <2> QED BY <1>1, <2>1, <2>3, <2>4 DEF Has
<1>6. CASE \/ AssignSocket \/ Close \/ PostReconnect \/ TakeNotice
           \/ UNCHANGED clientVars
  <2>1. UNCHANGED runsState /\ UNCHANGED outbox
    BY <1>6 DEF AssignSocket, Close, PostReconnect, TakeNotice, runsState,
       linkFields, streamFields, history, clientVars, clientState, gatewayVars, wire
  <2>2. \A x \in Socket : sock'[x] = "open" => sock[x] = "open"
    BY <1>6 DEF AssignSocket, Close, PostReconnect, TakeNotice, clientVars,
       gatewayVars, wire, ClientTypeOK, GatewayTypeOK
  <2> QED BY <1>1, <2>1, <2>2
<1>7. ASSUME PauseOrStop \/ \E s \in Session : SelectSession(s) \/ SendChat(s)
      PROVE  RunsEnd'
  <2>1. UNCHANGED runsState /\ UNCHANGED sock
    BY <1>7 DEF PauseOrStop, SelectSession, SendChat, runsState, linkFields,
       streamFields, history
  <2>2. PICK t \in RequestType \ {"connect"}, s \in Session :
          Transmit(ws, t, s)
    BY <1>7 DEF PauseOrStop, SelectSession, SendChat, Hydrate, Request,
                ClientTypeOK, RequestType
  <2>3. GatewayTypeOK
    BY DEF ClientTypeOK
  <2>4. \A x \in Socket : Quieter(outbox[x], outbox'[x], {"connect"})
    BY <2>2, <2>3, TransmitShake
  <2> QED BY <1>1, <2>1, <2>4 DEF Quieter
<1>8. CASE FarEnd
  BY <1>8, GatewayAssumption, FarEndRuns
<1>9. ASSUME NEW w \in Socket, OnMessage(w)
      PROVE  RunsEnd'
  BY <1>9, MessageRuns
<1> QED BY <1>3, <1>4, <1>5, <1>6, <1>7, <1>8, <1>9 DEF ClientNext

\* A reply that comes late or an event sent twice never brings back, as the
\* run Pause is offered for, one whose end the client was told.
THEOREM NoGhostRunAlways == ClientSpec => []NoGhostRun
<1>1. ClientInit => RunsEnd
  BY ClientAssumption DEF ClientInit, RunsEnd, ClientAssumption
<1>2. ClientTypeOK /\ OneLink /\ OneHandshake /\ Numbers /\ RunsEnd
        /\ [ClientNext]_clientVars => RunsEnd'
  BY ClientAssumption, GatewayAssumption, RunsStep
<1>3. RunsEnd => NoGhostRun
  BY DEF RunsEnd, NoGhostRun
<1> QED BY <1>1, <1>2, <1>3, TypeCorrect, OneLinkAlways, HandshakeAlways,
           NumbersAlways, PTL DEF ClientSpec

(***************************************************************************)
(* Every loss that shows is made good                                      *)
(***************************************************************************)

\* On the connection in use nothing that was lost is on its way or seen, and
\* of what was lost before the last event seen a reload has been asked for.
Counts ==
  \A w \in Socket :
    w = latest /\ sock[w] = "open" /\ w \in accepted =>
      Counted(w) /\ (connected => MadeGood(w, lastSeq))

\* The Gateway loses only what comes after all that was seen.
LEMMA FarEndCounts ==
  ASSUME GatewayAssumption, ClientTypeOK, OneLink, OneHandshake, Numbers,
         Counts, FarEnd
  PROVE  Counts'
<1>1. PICK w \in Socket :
        /\ GatewayMoves(w) /\ w = latest
        /\ sock'[w] = "open" => sock[w] \in {"opening", "open"}
  BY FarEndMoves
<1>2. /\ GatewayTypeOK /\ NumbersUsed(w)
      /\ UNCHANGED <<latest, connected, lastSeq>>
      /\ gwSeq \in Nat /\ missed \subseteq Nat
      /\ sock[w] = "open" /\ connected => lastSeq <= gwSeq
  BY <1>1 DEF Numbers, NumbersOf, ClientTypeOK, GatewayTypeOK, FarEnd,
     clientState, linkFields, streamFields
<1>3. SUFFICES ASSUME sock'[w] = "open", w \in accepted'
               PROVE  Counted(w)' /\ (connected => MadeGood(w, lastSeq)')
  BY <1>1, <1>2 DEF Counts
<1>4. /\ Counted(w)'
      /\ \/ missed' = {}
         \/ /\ sock[w] = "open" /\ w \in accepted
            /\ missed' \subseteq missed \cup {gwSeq + 1}
            /\ refused \subseteq refused'
            /\ \/ missed \subseteq refused'
               \/ Has(outbox[w], {"history"}) => Has(outbox'[w], {"history"})
  BY <1>1, <1>2, <1>3, GatewayCounts DEF Counts
<1>5. PICK last : last = lastSeq
  OBVIOUS
<1>6. connected => MadeGood(w, last)'
  <2>1. CASE missed' = {}
    BY <2>1 DEF MadeGood
  <2>2. CASE missed' # {} /\ connected
    <3>1. MadeGood(w, last) /\ last <= gwSeq /\ last \in Int
      BY <1>1, <1>2, <1>4, <1>5, <2>2 DEF Counts, ClientTypeOK, NoSeq
    <3> QED BY <1>2, <1>4, <2>2, <3>1, StaysGood
  <2> QED BY <2>1, <2>2
<1> QED BY <1>2, <1>4, <1>5, <1>6 DEF MadeGood

\* The reader asks for a reload by the first event that shows a loss.
LEMMA MessageCounts ==
  ASSUME ClientAssumption, GatewayAssumption, ClientTypeOK, OneLink,
         Unassigned, Counts, NEW w \in Socket, OnMessage(w)
  PROVE  Counts'
<1>0. PICK m, last : m = Head(inbox[w]) /\ last = lastSeq
  OBVIOUS
<1>1. /\ w = latest /\ latest' = latest /\ UNCHANGED <<sock, gateway>>
      /\ inbox[w] \in Seq(Frame) /\ inbox[w] # <<>> /\ m \in Frame
      /\ inbox'[w] = Tail(inbox[w])
      /\ IF MainIsFree
           THEN OnChallenge(w, m) => Transmit(w, "connect", MainSession)
           ELSE UNCHANGED outbox
      /\ ~OnChallenge(w, m) => \/ UNCHANGED outbox
                               \/ Transmit(w, "history", selectedSession)
  BY <1>0, MessageFrame
<1>2. SUFFICES ASSUME sock[w] = "open", w \in accepted
               PROVE  Counted(w)' /\ (connected' => MadeGood(w, lastSeq)')
  BY <1>1 DEF Counts, gateway
<1>3. /\ Counted(w) /\ (connected => MadeGood(w, last))
      /\ GatewayTypeOK /\ missed \subseteq Nat /\ m.seq \in Nat
      /\ last \in Nat \cup {-1} /\ UNCHANGED <<gwSeq, firstSent, refused>>
  BY <1>0, <1>1, <1>2 DEF Counts, ClientTypeOK, GatewayTypeOK, gateway,
     NoSeq, Frame
<1>4. \/ OnChallenge(w, m) \/ OnBadChallenge(w, m) \/ OnConnectOk(w, m)
      \/ OnPairingRequired(w, m) \/ OnSendOk(w, m) \/ OnAbortOk(w, m)
      \/ OnHistory(w, m) \/ OnError(w, m) \/ OnEvent(w, m)
  BY <1>0 DEF OnMessage
<1>5. missed' \subseteq missed
  BY <1>4 DEF OnChallenge, OnBadChallenge, OnConnectOk, OnPairingRequired,
     OnSendOk, OnAbortOk, OnHistory, OnError, OnEvent, SeesNumber, history
<1>6. /\ Has(outbox[w], {"history"}) => Has(outbox'[w], {"history"})
      /\ Transmit(w, "history", selectedSession)
           => Has(outbox'[w], {"history"})
  <2>1. /\ {"history", "connect"} \subseteq RequestType
        /\ selectedSession \in Session /\ MainSession \in Session
    BY DEF RequestType, ClientTypeOK, GatewayAssumption
  <2> QED BY <1>1, <1>2, <1>3, <2>1, TransmitAdds
<1>7. /\ Counted(w)'
      /\ MadeGood(w, last) => MadeGood(w, last)'
      /\ /\ MadeGood(w, last) /\ m.type \in EventType /\ last < m.seq
         /\ last # -1 /\ m.seq > last + 1 => Has(outbox'[w], {"history"})
         /\ last = -1 => \A s \in missed' : s > m.seq
         => MadeGood(w, m.seq)'
  BY <1>0, <1>1, <1>3, <1>5, <1>6, ReadCounts
<1>8. connected' => MadeGood(w, lastSeq)'
  <2>1. CASE OnConnectOk(w, m)
    <3>1. lastSeq' = -1 /\ missed' \subseteq Nat
      BY <1>3, <1>5, <2>1 DEF OnConnectOk, ForgetSeq, NoSeq
    <3> QED BY <3>1 DEF MadeGood
  <2>2. CASE /\ OnEvent(w, m) /\ ~Stale(m) /\ m.seq # NoNumber
             /\ connected
    <3>1. /\ lastSeq' = m.seq /\ m.type \in EventType
          /\ Gap(m) => Transmit(w, "history", selectedSession)
          /\ last = -1 => missed' = {s \in missed : s > m.seq}
      <4>1. ws = w
        BY <1>1, <2>2 DEF Unassigned, MainIsFree
      <4> QED BY <1>0, <2>2, <4>1 DEF OnEvent, SeesNumber, Hydrate, Request,
              NoSeq
    <3>2. /\ last < m.seq
          /\ last # -1 /\ m.seq > last + 1 => Gap(m)
      BY <1>0, <1>3, <2>2 DEF Gap, Stale, NoSeq
    <3>3. MadeGood(w, m.seq)'
      BY <1>3, <1>6, <1>7, <2>2, <3>1, <3>2
    <3> QED BY <3>1, <3>3 DEF MadeGood
  <2>3. CASE UNCHANGED <<connected, lastSeq>>
    BY <1>0, <1>3, <1>7, <2>3 DEF MadeGood
  <2>4. CASE ~connected'
    BY <2>4
  <2> QED BY <1>4, <2>1, <2>2, <2>3, <2>4 DEF OnChallenge, OnBadChallenge,
          OnPairingRequired, OnSendOk, OnAbortOk, OnHistory, OnError,
          OnEvent, SeesNumber, linkFields, streamFields
<1> QED BY <1>7, <1>8

\* Whoever moves, a loss that shows is being made good.
LEMMA CountsStep ==
  ASSUME ClientAssumption, GatewayAssumption, ClientTypeOK, OneLink,
         Unassigned, OneHandshake, Numbers, Counts, [ClientNext]_clientVars
  PROVE  Counts'
<1> USE DEF gateway
<1>1. ASSUME NEW w \in Socket, Connect(w)
      PROVE  Counts'
  BY <1>1 DEF Connect, Counts, ClientTypeOK, GatewayTypeOK
<1>2. ASSUME UNCHANGED <<latest, connected, lastSeq, sock, inbox, accepted,
                         gwSeq, firstSent, missed, refused>>,
             \A w \in Socket : Has(outbox[w], {"history"})
                                 => Has(outbox'[w], {"history"})
      PROVE  Counts'
  BY <1>2 DEF Counts, Counted, MadeGood
<1>3. CASE TimerFires
  <2>1. CASE closing
    <3>1. UNCHANGED <<latest, connected, lastSeq, sock, inbox, accepted, gwSeq,
                      firstSent, missed, refused, outbox>>
      BY <1>3, <2>1 DEF TimerFires, Redial, streamFields, history
    <3> QED BY <1>2, <3>1
  <2>2. CASE ~closing
    BY <1>1, <1>3, <2>2 DEF TimerFires, Redial
  <2> QED BY <2>1, <2>2
<1>4. ASSUME NEW w \in Socket, OnFailure(w) \/ OnClosed(w)
      PROVE  Counts'
  <2>1. w = latest
    BY <1>4 DEF OnFailure, OnClosed, OneLink, Live
  <2>2. latest' = latest /\ sock'[w] = "dead"
    BY <1>4 DEF OnFailure, OnClosed, LoseLink, ClientTypeOK, GatewayTypeOK
  <2> QED BY <2>1, <2>2 DEF Counts
<1>5. CASE Close
  <2>1. latest' = latest /\ (latest \in Socket => sock'[latest] # "open")
    BY <1>5 DEF Close, MainIsFree, TakesSends, ClientTypeOK, GatewayTypeOK
  <2> QED BY <2>1 DEF Counts
<1>6. CASE AssignSocket \/ PostReconnect \/ TakeNotice \/ UNCHANGED clientVars
  <2>1. UNCHANGED <<latest, connected, lastSeq, sock, inbox, accepted, gwSeq,
                    firstSent, missed, refused, outbox>>
    BY <1>6 DEF AssignSocket, PostReconnect, TakeNotice, linkFields,
       streamFields, history,
       clientVars, clientState, gatewayVars, wire
  <2> QED BY <1>2, <2>1
<1>7. ASSUME PauseOrStop \/ \E s \in Session : SelectSession(s) \/ SendChat(s)
      PROVE  Counts'
  <2>1. UNCHANGED <<latest, connected, lastSeq, sock, inbox, accepted, gwSeq,
                    firstSent, missed, refused>>
    BY <1>7 DEF PauseOrStop, SelectSession, SendChat, linkFields,
       streamFields, history
  <2>2. PICK t \in RequestType, s \in Session : Transmit(ws, t, s)
    BY <1>7 DEF PauseOrStop, SelectSession, SendChat, Hydrate, Request,
                ClientTypeOK, RequestType
  <2>3. GatewayTypeOK
    BY DEF ClientTypeOK
  <2>4. \A w \in Socket : Has(outbox[w], {"history"})
                            => Has(outbox'[w], {"history"})
    BY <2>2, <2>3, TransmitAdds
  <2> QED BY <1>2, <2>1, <2>4
<1>8. ASSUME NEW w \in Socket, OnMessage(w)
      PROVE  Counts'
  BY <1>8, MessageCounts
<1>9. CASE FarEnd
  BY <1>9, GatewayAssumption, FarEndCounts
<1> QED BY <1>1, <1>3, <1>4, <1>5, <1>6, <1>7, <1>8, <1>9
        DEF ClientNext, Start

\* A gap in the numbers makes the reader reload, and no later event, repeated
\* one or reply lets it forget: until the Gateway answers, the request waits.
THEOREM GapHasReloadAlways == ClientSpec => []GapHasReload
<1>1. ClientInit => Counts
  BY DEF ClientInit, GatewayInit, Counts
<1>2. /\ ClientTypeOK /\ OneLink /\ Unassigned /\ OneHandshake /\ Numbers
      /\ Counts /\ [ClientNext]_clientVars
      => Counts'
  BY ClientAssumption, GatewayAssumption, CountsStep
<1>3. ClientTypeOK /\ Unassigned /\ ConnectedMeansAuthenticated /\ Counts
        => GapHasReload
  BY DEF Unassigned, MainIsFree, ConnectedMeansAuthenticated, GapHasReload,
     Counts, MadeGood, Has, ClientTypeOK, GatewayTypeOK
<1> QED BY <1>1, <1>2, <1>3, TypeCorrect, OneLinkAlways, HandshakeAlways,
           NumbersAlways, ConnectedAlways, UnassignedAlways, PTL DEF ClientSpec

(***************************************************************************)
(* The app                                                                 *)
(*                                                                         *)
(* It is the client with a screen, so what is shown of the client holds of *)
(* the app.                                                                *)
(***************************************************************************)

\* Every click, notice and callback is a step of the client or none.
LEMMA AppStepIsClientStep ==
  ASSUME session \in Session, [AppNext]_appVars
  PROVE  [ClientNext]_clientVars
<1>1. CASE UNCHANGED appVars
  BY <1>1 DEF appVars
<1>2. ASSUME NEW w \in Socket, AppStart(w)
      PROVE  ClientNext
  BY <1>2 DEF AppStart, ClientNext
<1>3. CASE AppTimerFires \/ AppClose \/ HandleGateway
  BY <1>3 DEF AppTimerFires, AppClose, HandleGateway, ClientNext
<1>4. ASSUME NEW s \in Session, SendChat(s) \/ SelectSession(s)
      PROVE  ClientNext
  BY <1>4 DEF ClientNext
<1>5. CASE ClickSend
  <2>1. SendChat(session) \/ UNCHANGED clientVars
    BY <1>5 DEF ClickSend
  <2> QED BY <1>4, <2>1
<1>6. CASE ClickContinue
  BY <1>4, <1>6 DEF ClickContinue
<1>7. CASE ClickPause
  BY <1>7 DEF ClickPause, ClientNext
<1>8. ASSUME NEW s \in Session, SwitchSession(s)
      PROVE  ClientNext
  BY <1>4, <1>8 DEF SwitchSession
<1>9. CASE Elsewhere
  BY <1>9 DEF Elsewhere, ClientNext
<1> QED BY <1>1, <1>2, <1>3, <1>5, <1>6, <1>7, <1>8, <1>9 DEF AppNext

(***************************************************************************)
(* Type correctness                                                        *)
(***************************************************************************)

\* Refreshing the composer keeps the controls Boolean.
LEMMA ComposerType ==
  ASSUME UpdateComposer
  PROVE  pauseVisible' \in BOOLEAN /\ sendEnabled' \in BOOLEAN
<1>1. pauseVisible' \in BOOLEAN
  BY Zenon DEF UpdateComposer
<1>2. sendEnabled' \in BOOLEAN
  BY Zenon DEF UpdateComposer
<1> QED BY <1>1, <1>2

\* Every step keeps the screen well typed.
LEMMA ScreenTypeStep ==
  ASSUME ClientTypeOK, ScreenTypeOK, [AppNext]_appVars
  PROVE  ScreenTypeOK'
<1> USE DEF ScreenTypeOK, transcriptVars, uiVars
<1>1. CASE UNCHANGED uiVars
  BY <1>1
<1>2. CASE ShowConnecting
  BY <1>2, ComposerType DEF ShowConnecting, UiState
<1>3. CASE HandleGateway
  <2> DEFINE n == Head(posted)
  <2>1. n \in Notice
    BY <1>3 DEF HandleGateway, TakeNotice, ClientTypeOK
  <2>2. n.session \in Session
    BY <2>1 DEF Notice
  <2> HIDE DEF n
  <2>3. CASE ShowConnectionState(n)
    BY <2>3, ComposerType DEF ShowConnectionState, UiState
  <2>4. CASE ShowStatus(n)
    <3>1. StatusOf(n) \in UiState
      BY <2>4 DEF ShowStatus, StatusOf, UiState
    <3> QED BY <2>4, <3>1 DEF ShowStatus
  <2>5. CASE ParseHistory(n)
    <3> DEFINE fresh == IF n.type = "historyFull" THEN {n.session} ELSE {}
    <3>1. fresh \in SUBSET Session
      BY <2>2
    <3>2. \/ shown' = fresh /\ streaming' = FALSE /\ Save(fresh)
          \/ UNCHANGED <<shown, streaming, cache>>
      BY <2>5 DEF ParseHistory
    <3>3. UNCHANGED <<session, uiState, paused, pauseVisible, sendEnabled>>
      BY <2>5 DEF ParseHistory
    <3> HIDE DEF fresh
    <3> QED BY <3>1, <3>2, <3>3 DEF Save
  <2>6. CASE AppendAssistantDelta(n)
    BY <2>2, <2>6 DEF AppendAssistantDelta, Save
  <2>7. CASE EndOfRun(n)
    <3>1. paused' \in BOOLEAN
      <4>1. paused' = (n.type \in {"aborted", "paused"})
        BY <2>7 DEF EndOfRun
      <4>2. (n.type \in {"aborted", "paused"}) \in BOOLEAN
        OBVIOUS
      <4> QED BY <4>1, <4>2, Zenon
    <3> QED BY <2>7, <3>1, ComposerType DEF EndOfRun, Save
  <2>8. CASE RunStarted(n)
    BY <2>8, ComposerType DEF RunStarted
  <2> QED BY <1>3, <2>3, <2>4, <2>5, <2>6, <2>7, <2>8 DEF HandleGateway, n
<1>4. CASE ClickSend
  BY <1>4, ComposerType DEF ClickSend, Save
<1>5. CASE ClickPause
  BY <1>5, ComposerType DEF ClickPause
<1>6. ASSUME NEW s \in Session, SwitchSession(s)
      PROVE  ScreenTypeOK'
  BY <1>6 DEF SwitchSession
<1>7. CASE UNCHANGED appVars
  BY <1>1, <1>7 DEF appVars
<1>8. ASSUME NEW w \in Socket, AppStart(w)
      PROVE  ScreenTypeOK'
  BY <1>2, <1>8 DEF AppStart
<1>9. CASE AppTimerFires \/ AppClose \/ ClickContinue \/ Elsewhere
  BY <1>1, <1>2, <1>9 DEF AppTimerFires, AppClose, ClickContinue, Elsewhere
<1> QED BY <1>3, <1>4, <1>5, <1>6, <1>7, <1>8, <1>9 DEF AppNext

\* Client, screen and cache keep their types through every click and notice.
THEOREM AppTypeCorrect == AppSpec => []AppTypeOK
<1>1. AppInit => AppTypeOK
  <2> SUFFICES ASSUME AppInit PROVE AppTypeOK
    OBVIOUS
  <2>1. ClientTypeOK
    BY ClientTypeInit DEF AppInit
  <2>2. cache \in [Session -> SUBSET Session] /\ session \in Session
    BY IntentAssumption DEF AppInit, IntentAssumption
  <2> QED BY <2>1, <2>2 DEF AppInit, AppTypeOK, ScreenTypeOK, UiState
<1>2. AppTypeOK /\ [AppNext]_appVars => AppTypeOK'
  BY AppStepIsClientStep, ClientTypeStep, ScreenTypeStep
     DEF AppTypeOK, ScreenTypeOK
<1> QED BY <1>1, <1>2, PTL DEF AppSpec

(***************************************************************************)
(* The app implements the client                                           *)
(***************************************************************************)

\* Whatever the activity does, the client under it behaves as AndroidClient.
THEOREM AppImplementsClient == AppSpec => ClientSpec
<1>1. AppInit => ClientInit
  BY DEF AppInit
<1>2. AppTypeOK /\ [AppNext]_appVars => [ClientNext]_clientVars
  BY AppStepIsClientStep DEF AppTypeOK, ScreenTypeOK
<1> QED BY <1>1, <1>2, AppTypeCorrect, PTL DEF AppSpec, ClientSpec

(***************************************************************************)
(* The cache mirrors the transcript                                        *)
(***************************************************************************)

\* What is on screen is on disk after every step: a process killed between two
\* callbacks loses nothing of the transcript.
THEOREM CacheMirrorsTranscript == AppSpec => []CacheIsTranscript
<1>1. AppInit => CacheIsTranscript
  BY DEF AppInit, CacheIsTranscript
<1>2. AppTypeOK /\ CacheIsTranscript /\ [AppNext]_appVars => CacheIsTranscript'
  <2> SUFFICES ASSUME ScreenTypeOK, CacheIsTranscript, [AppNext]_appVars
               PROVE  CacheIsTranscript'
    BY DEF AppTypeOK
  <2> USE DEF ScreenTypeOK, CacheIsTranscript, transcriptVars, uiVars, Save
  <2>1. CASE UNCHANGED transcriptVars
    BY <2>1
  <2>2. CASE HandleGateway
    <3> DEFINE n == Head(posted)
    <3> HIDE DEF n
    <3>1. CASE ParseHistory(n)
      <4>1. \/ \E fresh : shown' = fresh /\ Save(fresh)
            \/ UNCHANGED <<shown, cache>>
        BY <3>1 DEF ParseHistory
      <4>2. session' = session
        BY <3>1 DEF ParseHistory
      <4> QED BY <4>1, <4>2
    <3>2. CASE AppendAssistantDelta(n)
      BY <3>2 DEF AppendAssistantDelta
    <3>3. CASE EndOfRun(n)
      BY <3>3 DEF EndOfRun
    <3>4. CASE ShowConnectionState(n) \/ ShowStatus(n) \/ RunStarted(n)
      BY <2>1, <3>4 DEF ShowConnectionState, ShowStatus, RunStarted
    <3> QED BY <2>2, <3>1, <3>2, <3>3, <3>4 DEF HandleGateway, n
  <2>3. CASE ClickSend
    BY <2>3 DEF ClickSend
  <2>4. ASSUME NEW s \in Session, SwitchSession(s)
        PROVE  CacheIsTranscript'
    BY <2>4 DEF SwitchSession
  <2>5. CASE \/ \E w \in Socket : AppStart(w)
             \/ AppTimerFires \/ AppClose \/ ClickContinue \/ ClickPause
             \/ Elsewhere \/ UNCHANGED appVars
    BY <2>1, <2>5 DEF AppStart, AppTimerFires, AppClose, ClickContinue,
       ClickPause, Elsewhere, ShowConnecting, appVars
  <2> QED BY <2>2, <2>3, <2>4, <2>5 DEF AppNext
<1> QED BY <1>1, <1>2, AppTypeCorrect, PTL DEF AppSpec

(***************************************************************************)
(* Pause is taken down                                                     *)
(***************************************************************************)

\* Two queues in a row have what either has.
LEMMA JoinHas ==
  ASSUME NEW S, NEW q \in Seq(S), NEW r \in Seq(S), NEW T
  PROVE  Has(q \o r, T) <=> Has(q, T) \/ Has(r, T)
<1> DEFINE j == q \o r
<1>1. /\ Len(q) \in Nat /\ Len(r) \in Nat
      /\ DOMAIN q = 1 .. Len(q) /\ DOMAIN r = 1 .. Len(r)
      /\ DOMAIN j = 1 .. Len(q) + Len(r)
  OBVIOUS
<1>2. \A i \in 1 .. Len(q) : j[i] = q[i]
  OBVIOUS
<1>3. \A i \in 1 .. Len(r) : j[Len(q) + i] = r[i]
  OBVIOUS
<1> HIDE DEF j
<1>4. ASSUME Has(j, T)
      PROVE  Has(q, T) \/ Has(r, T)
  <2>1. PICK i \in DOMAIN j : j[i].type \in T
    BY <1>4 DEF Has
  <2>2. CASE i \in 1 .. Len(q)
    BY <1>1, <1>2, <2>1, <2>2 DEF Has
  <2>3. CASE i \notin 1 .. Len(q)
    <3> DEFINE k == i - Len(q)
    <3>1. k \in 1 .. Len(r) /\ i = Len(q) + k
      BY <1>1, <2>3
    <3>2. r[k].type \in T
      BY <1>3, <2>1, <3>1
    <3> QED BY <1>1, <3>1, <3>2 DEF Has
  <2> QED BY <2>2, <2>3
<1>5. ASSUME Has(q, T)
      PROVE  Has(j, T)
  <2>1. PICK i \in DOMAIN q : q[i].type \in T
    BY <1>5 DEF Has
  <2>2. i \in DOMAIN j /\ j[i] = q[i]
    BY <1>1, <1>2
  <2> QED BY <2>1, <2>2 DEF Has
<1>6. ASSUME Has(r, T)
      PROVE  Has(j, T)
  <2>1. PICK i \in DOMAIN r : r[i].type \in T
    BY <1>6 DEF Has
  <2>2. Len(q) + i \in DOMAIN j /\ j[Len(q) + i] = r[i]
    BY <1>1, <1>3
  <2> QED BY <2>1, <2>2 DEF Has
<1> QED BY <1>4, <1>5, <1>6 DEF j

\* A queue of one or two has what its entries are.
LEMMA ShortHas ==
  ASSUME NEW a, NEW b, NEW T
  PROVE  /\ Has(<<a>>, T) <=> a.type \in T
         /\ Has(<<a, b>>, T) <=> a.type \in T \/ b.type \in T
         /\ ~Has(<<>>, T)
<1>1. Has(<<a>>, T) <=> a.type \in T
  <2>1. DOMAIN <<a>> = {1} /\ <<a>>[1] = a
    OBVIOUS
  <2> QED BY <2>1 DEF Has
<1>2. Has(<<a, b>>, T) <=> a.type \in T \/ b.type \in T
  <2>1. DOMAIN <<a, b>> = {1, 2} /\ <<a, b>>[1] = a /\ <<a, b>>[2] = b
    OBVIOUS
  <2> QED BY <2>1 DEF Has
<1> QED BY <1>1, <1>2 DEF Has

\* What is in a queue is its head, or behind it.
LEMMA HeadOrTail ==
  ASSUME NEW S, NEW q \in Seq(S), q # <<>>, NEW T
  PROVE  Has(q, T) => Head(q).type \in T \/ Has(Tail(q), T)
<1> DEFINE r == Tail(q)
<1>1. \A i \in DOMAIN q : i = 1 \/ (i - 1 \in DOMAIN r /\ r[i - 1] = q[i])
  <2> TAKE i \in DOMAIN q
  <2>1. i \in 1 .. Len(q) /\ Len(q) \in Nat
    OBVIOUS
  <2>2. CASE i # 1
    <3>1. i - 1 \in 1 .. Len(q) - 1
      BY <2>1, <2>2
    <3>2. i - 1 \in DOMAIN r
      BY <3>1
    <3>3. r[i - 1] = q[i]
      BY <2>1, <3>1
    <3> QED BY <3>2, <3>3
  <2> QED BY <2>2
<1>2. Head(q) = q[1]
  OBVIOUS
<1> HIDE DEF r
<1>3. Has(q, T) => Head(q).type \in T \/ Has(r, T)
  BY <1>1, <1>2 DEF Has
<1> QED BY <1>3 DEF r

Ends == {"done", "aborted", "paused", "running"}

\* What the reader tells the activity about a frame: what made it forget a
\* run, a connection only if it is up.
ReaderTells(n) ==
  /\ n \in Seq(Notice)
  /\ posted' = posted \o n
  /\ activeRunId' = NoRun => activeRunId = NoRun \/ Has(n, Ends)
  /\ Has(n, {"connected"}) => connected'
  /\ connected => connected'

\* One notice, of a type that says what happened.
LEMMA OneNotice ==
  ASSUME ClientTypeOK, NEW t \in PostType, NEW s \in Session,
         Post(<<Note(t, s)>>),
         activeRunId' = NoRun => activeRunId = NoRun \/ t \in Ends,
         t = "connected" => connected',
         connected => connected'
  PROVE  \E n : ReaderTells(n)
<1> DEFINE n == <<Note(t, s)>>
<1>1. n \in Seq(Notice) /\ Note(t, s).type = t
  BY NoteType DEF Note
<1>2. \A T : Has(n, T) <=> t \in T
  BY <1>1, ShortHas
<1>3. posted' = posted \o n
  BY DEF Post
<1> HIDE DEF n
<1>4. ReaderTells(n)
  BY <1>1, <1>2, <1>3 DEF ReaderTells
<1> QED BY <1>4

\* No notice, of nothing that matters.
LEMMA NoNotice ==
  ASSUME ClientTypeOK, UNCHANGED <<posted, activeRunId, connected>>
  PROVE  \E n : ReaderTells(n)
<1>1. <<>> \in Seq(Notice) /\ posted = posted \o <<>>
  BY DEF ClientTypeOK
<1>2. ~Has(<<>>, {"connected"})
  BY DEF Has
<1>3. ReaderTells(<<>>)
  BY <1>1, <1>2 DEF ReaderTells
<1> QED BY <1>3

\* Every frame is told so.
LEMMA ReaderTellsAll ==
  ASSUME GatewayAssumption, ClientTypeOK, OneLink, OneHandshake, RunsNamed,
         NEW w \in Socket, OnMessage(w)
  PROVE  \E n : ReaderTells(n)
<1> DEFINE m == Head(inbox[w])
<1>1. /\ m \in Frame /\ m \in NamedFrame
      /\ inbox[w] \in Seq(Frame) /\ inbox[w] # <<>>
      /\ w = latest
  BY DEF OnMessage, OneLink, Live, ClientTypeOK, GatewayTypeOK, RunsNamed
<1>2. /\ m.session \in Session /\ MainSession \in Session
      /\ m.type = "delta" => m.run \in Run /\ m.run # NoRun
  BY <1>1 DEF Frame, NamedFrame, GatewayAssumption
<1>3. m.type \in Opening => ~connected
  <2>1. m.type \in Opening => Has(inbox[w], Opening)
    BY <1>1, TailShake
  <2> QED BY <1>1, <2>1 DEF OneHandshake, Shaken, Settled
<1> HIDE DEF m
<1> USE DEF linkFields, streamFields, PostType, Ends
<1>4. CASE OnChallenge(w, m) \/ OnError(w, m)
  BY <1>4, NoNotice DEF OnChallenge, OnError
<1>5. CASE OnBadChallenge(w, m)
  BY <1>2, <1>5, OneNotice DEF OnBadChallenge
<1>6. CASE OnConnectOk(w, m)
  BY <1>2, <1>6, OneNotice DEF OnConnectOk
<1>7. CASE OnPairingRequired(w, m)
  <2>1. ~connected
    BY <1>3, <1>7 DEF OnPairingRequired, Opening
  <2> QED BY <1>2, <1>7, <2>1, OneNotice DEF OnPairingRequired
<1>8. CASE OnSendOk(w, m)
  BY <1>2, <1>8, OneNotice DEF OnSendOk
<1>9. CASE OnAbortOk(w, m)
  BY <1>2, <1>9, OneNotice DEF OnAbortOk
<1>10. CASE OnHistory(w, m)
  BY <1>2, <1>10, OneNotice DEF OnHistory
<1>11. CASE OnEvent(w, m) /\ Stale(m)
  BY <1>11, NoNotice DEF OnEvent
<1>12. CASE OnEvent(w, m) /\ ~Stale(m)
  <2>1. m.type \in EventType /\ connected' = connected
    BY <1>12 DEF OnEvent
  <2>2. activeRunId' = NoRun => m.type \in Ends
    BY <1>2, <1>12, <2>1 DEF OnEvent, EventType
  <2>3. CASE ~Gap(m)
    <3>1. posted' = posted \o (<<>> \o <<Note(m.type, m.session)>>)
      BY <1>12, <2>3 DEF OnEvent, Post
    <3>2. Post(<<Note(m.type, m.session)>>)
      BY <3>1 DEF Post
    <3> QED BY <1>2, <2>1, <2>2, <3>2, OneNotice DEF EventType
  <2>4. CASE Gap(m)
    <3> DEFINE g == Note("gap", m.session)
               e == Note(m.type, m.session)
               n == <<g>> \o <<e>>
    <3>1. /\ <<g>> \in Seq(Notice) /\ <<e>> \in Seq(Notice)
          /\ g.type = "gap" /\ e.type = m.type
      BY <1>2, <2>1, NoteType DEF Note
    <3>2. posted' = posted \o n
      BY <1>12, <2>4 DEF OnEvent, Post
    <3> HIDE DEF g, e
    <3>3. n \in Seq(Notice)
      BY <3>1
    <3>4. \A T : Has(n, T) <=> "gap" \in T \/ m.type \in T
      <4> TAKE T
      <4>1. Has(n, T) <=> Has(<<g>>, T) \/ Has(<<e>>, T)
        BY <3>1, JoinHas
      <4>2. /\ Has(<<g>>, T) <=> g.type \in T
            /\ Has(<<e>>, T) <=> e.type \in T
        BY ShortHas
      <4> QED BY <3>1, <4>1, <4>2
    <3> HIDE DEF n
    <3>5. Has(n, Ends) <=> m.type \in Ends
      BY <3>4
    <3>6. ~Has(n, {"connected"})
      BY <2>1, <3>4 DEF EventType
    <3>7. ReaderTells(n)
      BY <2>1, <2>2, <3>2, <3>3, <3>5, <3>6 DEF ReaderTells
    <3> QED BY <3>7
  <2> QED BY <2>3, <2>4
<1> QED
  BY <1>4, <1>5, <1>6, <1>7, <1>8, <1>9, <1>10, <1>11, <1>12
  DEF OnMessage, m

\* A link that is lost is told last, and no connection with it.
LEMMA LossTold ==
  ASSUME GatewayAssumption, ClientTypeOK, NEW w \in Socket,
         OnFailure(w) \/ OnClosed(w)
  PROVE  /\ activeRunId' = activeRunId /\ closing' = closing
         /\ \E n \in Seq(Notice) :
              /\ ~Has(n, {"connected"})
              /\ \/ closing /\ posted' = posted \o n
                 \/ posted' = posted \o n
                                \o <<Note("reconnecting", MainSession)>>
<1>0. MainSession \in Session
  BY DEF GatewayAssumption
<1>1. activeRunId' = activeRunId /\ closing' = closing
  BY DEF OnFailure, OnClosed, uiFields, streamFields
<1>2. PICK b \in {<<Note("localError", MainSession)>>, <<>>} :
             ScheduleReconnect(b)
  BY DEF OnFailure, OnClosed
<1>3. b \in Seq(Notice) /\ ~Has(b, {"connected"})
  <2>1. Note("localError", MainSession).type = "localError"
    BY DEF Note
  <2>2. <<Note("localError", MainSession)>> \in Seq(Notice)
    BY <1>0, NoteType DEF PostType
  <2>3. ~Has(<<Note("localError", MainSession)>>, {"connected"})
    BY <2>1, ShortHas
  <2>4. <<>> \in Seq(Notice) /\ ~Has(<<>>, {"connected"})
    BY DEF Has
  <2> QED BY <1>2, <2>2, <2>3, <2>4
<1>4. \/ closing /\ posted' = posted \o b
      \/ posted' = posted \o b \o <<Note("reconnecting", MainSession)>>
  <2>1. <<Note("reconnecting", MainSession)>> \in Seq(Notice)
    BY <1>0, NoteType DEF PostType
  <2>2. posted \o (b \o <<Note("reconnecting", MainSession)>>)
          = posted \o b \o <<Note("reconnecting", MainSession)>>
    BY <1>3, <2>1 DEF ClientTypeOK
  <2> QED BY <1>2, <2>2 DEF ScheduleReconnect, Post
<1> QED BY <1>1, <1>3, <1>4

\* The screen's own steps take Pause down, or leave what will.
LEMMA PauseStep ==
  ASSUME GatewayAssumption, AppTypeOK, OneLink, OneHandshake, RunsNamed,
         PauseIsNotStale, [AppNext]_appVars
  PROVE  PauseIsNotStale'
<1> DEFINE Told == pauseVisible /\ activeRunId = NoRun => Has(posted, Ends)
<1>0. Told /\ posted \in Seq(Notice) /\ ClientTypeOK
  BY DEF PauseIsNotStale, Has, Ends, AppTypeOK, ClientTypeOK
<1> SUFFICES Told'
  BY DEF PauseIsNotStale, Has, Ends
<1> USE DEF uiVars, transcriptVars, clientState, streamFields, threads
<1>1. CASE UNCHANGED <<pauseVisible, activeRunId, posted>>
  BY <1>0, <1>1
<1>2. CASE UpdateComposer /\ UNCHANGED activeRunId
  BY <1>2 DEF UpdateComposer
<1>3. CASE HandleGateway
  <2> DEFINE n == Head(posted)
  <2>1. /\ UNCHANGED activeRunId /\ posted # <<>>
        /\ posted' = Tail(posted)
    BY <1>3 DEF HandleGateway, TakeNotice
  <2>2. Has(posted, Ends) => n.type \in Ends \/ Has(posted', Ends)
    BY <1>0, <2>1, HeadOrTail
  <2> HIDE DEF n
  <2>3. CASE ShowStatus(n) \/ ParseHistory(n) \/ AppendAssistantDelta(n)
    <3>1. UNCHANGED pauseVisible /\ n.type \notin Ends
      BY <2>3 DEF ShowStatus, ParseHistory, AppendAssistantDelta, Ends
    <3> QED BY <1>0, <2>1, <2>2, <3>1
  <2>4. CASE ShowConnectionState(n) \/ EndOfRun(n) \/ RunStarted(n)
    BY <1>2, <2>1, <2>4 DEF ShowConnectionState, EndOfRun, RunStarted
  <2> QED BY <1>3, <2>3, <2>4 DEF HandleGateway, n
<1>4. ASSUME UNCHANGED pauseVisible,
             NEW n \in Seq(Notice), posted' = posted \o n,
             activeRunId' = NoRun => activeRunId = NoRun \/ Has(n, Ends)
      PROVE  Told'
  <2>1. Has(posted', Ends) <=> Has(posted, Ends) \/ Has(n, Ends)
    BY <1>0, <1>4, JoinHas
  <2> QED BY <1>0, <1>4, <2>1
<1>5. CASE Elsewhere
  <2>1. UNCHANGED pauseVisible
    BY <1>5 DEF Elsewhere
  <2>2. ASSUME NEW w \in Socket, OnMessage(w)
        PROVE  Told'
    <3>1. PICK n : ReaderTells(n)
      BY <1>0, <2>2, ReaderTellsAll
    <3> QED BY <1>4, <2>1, <3>1 DEF ReaderTells
  <2>3. ASSUME NEW w \in Socket, OnFailure(w) \/ OnClosed(w)
        PROVE  Told'
    <3>1. activeRunId' = activeRunId
      BY <1>0, <2>3, LossTold
    <3>2. PICK n \in Seq(Notice) :
                 \/ posted' = posted \o n
                 \/ posted' = posted \o n
                                \o <<Note("reconnecting", MainSession)>>
      BY <1>0, <2>3, LossTold
    <3>3. CASE posted' = posted \o n
      BY <1>4, <2>1, <3>1, <3>3
    <3>4. CASE posted' = posted \o n \o <<Note("reconnecting", MainSession)>>
      <4> DEFINE k == n \o <<Note("reconnecting", MainSession)>>
      <4>1. <<Note("reconnecting", MainSession)>> \in Seq(Notice)
        BY NoteType DEF PostType, GatewayAssumption
      <4>2. k \in Seq(Notice) /\ posted' = posted \o k
        BY <1>0, <3>4, <4>1
      <4> HIDE DEF k
      <4> QED BY <1>4, <2>1, <3>1, <4>2
    <3> QED BY <3>2, <3>3, <3>4
  <2>4. CASE AssignSocket \/ PostReconnect \/ FarEnd
    BY <1>1, <2>1, <2>4 DEF AssignSocket, PostReconnect, FarEnd
  <2> QED BY <1>5, <2>2, <2>3, <2>4 DEF Elsewhere
<1>6. CASE \/ \E w \in Socket : AppStart(w)
           \/ AppTimerFires
  <2>1. activeRunId' = activeRunId /\ posted' = posted
    BY <1>6 DEF AppStart, Start, AppTimerFires, TimerFires
  <2>2. UpdateComposer \/ UNCHANGED uiVars
    BY <1>6 DEF AppStart, AppTimerFires, ShowConnecting
  <2> QED BY <1>1, <1>2, <2>1, <2>2
<1>7. CASE ClickSend \/ ClickContinue \/ ClickPause
  <2>1. activeRunId' = activeRunId /\ posted' = posted
    BY <1>7 DEF ClickSend, ClickContinue, ClickPause, SendChat, PauseOrStop,
       clientVars
  <2>2. UpdateComposer \/ UNCHANGED pauseVisible
    BY <1>7 DEF ClickSend, ClickContinue, ClickPause
  <2> QED BY <1>1, <1>2, <2>1, <2>2
<1>8. CASE AppClose \/ \E s \in Session : SwitchSession(s)
  <2>1. UNCHANGED <<pauseVisible, activeRunId, posted>>
    BY <1>8 DEF AppClose, Close, SwitchSession, SelectSession
  <2> QED BY <1>1, <2>1
<1>9. CASE UNCHANGED appVars
  BY <1>1, <1>9 DEF appVars, clientVars
<1> QED BY <1>3, <1>5, <1>6, <1>7, <1>8, <1>9 DEF AppNext

\* A Pause button left over by a run that the reader saw end is taken down by
\* a notice that is already waiting.
THEOREM PauseIsNotStaleAlways == AppSpec => []PauseIsNotStale
<1>1. AppInit => PauseIsNotStale
  BY DEF AppInit, PauseIsNotStale
<1>2. /\ AppTypeOK /\ OneLink /\ OneHandshake /\ RunsNamed
      /\ PauseIsNotStale /\ [AppNext]_appVars
      => PauseIsNotStale'
  BY GatewayAssumption, PauseStep
<1> QED BY <1>1, <1>2, AppTypeCorrect, AppImplementsClient, OneLinkAlways,
           HandshakeAlways, NamedAlways, PTL DEF AppSpec

(***************************************************************************)
(* Send is taken down                                                      *)
(***************************************************************************)

\* The loss of a link waits to be shown, and no connection after it.
Lost(queue) ==
  \E i \in DOMAIN queue :
    /\ queue[i].type = "reconnecting"
    /\ \A j \in DOMAIN queue : j > i => queue[j].type # "connected"

\* Other notices behind it leave it so.
LEMMA LostJoin ==
  ASSUME NEW q \in Seq(Notice), NEW r \in Seq(Notice),
         Lost(q), ~Has(r, {"connected"})
  PROVE  Lost(q \o r)
<1> DEFINE k == q \o r
<1>1. /\ Len(q) \in Nat /\ Len(r) \in Nat
      /\ DOMAIN q = 1 .. Len(q) /\ DOMAIN r = 1 .. Len(r)
      /\ DOMAIN k = 1 .. Len(q) + Len(r)
  OBVIOUS
<1>2. \A i \in 1 .. Len(q) : k[i] = q[i]
  OBVIOUS
<1>3. \A i \in 1 .. Len(r) : k[Len(q) + i] = r[i]
  OBVIOUS
<1> HIDE DEF k
<1>4. PICK i \in DOMAIN q :
             /\ q[i].type = "reconnecting"
             /\ \A j \in DOMAIN q : j > i => q[j].type # "connected"
  BY DEF Lost
<1>5. ASSUME NEW j \in DOMAIN k, j > i
      PROVE  k[j].type # "connected"
  <2>1. CASE j \in 1 .. Len(q)
    BY <1>1, <1>2, <1>4, <1>5, <2>1
  <2>2. CASE j \notin 1 .. Len(q)
    <3> DEFINE l == j - Len(q)
    <3>1. l \in 1 .. Len(r) /\ j = Len(q) + l
      BY <1>1, <2>2
    <3>2. k[j] = r[l]
      BY <1>3, <3>1
    <3> QED BY <1>1, <3>1, <3>2 DEF Has
  <2> QED BY <2>1, <2>2
<1>6. i \in DOMAIN k /\ k[i] = q[i]
  BY <1>1, <1>2
<1>7. Lost(k)
  BY <1>4, <1>5, <1>6 DEF Lost
<1> QED BY <1>7 DEF k

\* A loss just told is one.
LEMMA LostLast ==
  ASSUME NEW q \in Seq(Notice), NEW e \in Notice, e.type = "reconnecting"
  PROVE  Lost(q \o <<e>>)
<1> DEFINE k == q \o <<e>>
<1>1. /\ Len(q) \in Nat /\ DOMAIN k = 1 .. Len(q) + 1
      /\ k[Len(q) + 1] = e
  OBVIOUS
<1> HIDE DEF k
<1>2. Lost(k)
  BY <1>1 DEF Lost
<1> QED BY <1>2 DEF k

\* It waits on until it is shown.
LEMMA LostTail ==
  ASSUME NEW q \in Seq(Notice), q # <<>>, Lost(q)
  PROVE  \/ Lost(Tail(q))
         \/ Head(q).type = "reconnecting" /\ ~Has(Tail(q), {"connected"})
<1> DEFINE r == Tail(q)
<1>1. /\ Len(q) \in Nat /\ DOMAIN q = 1 .. Len(q)
      /\ DOMAIN r = 1 .. Len(q) - 1 /\ Head(q) = q[1]
  OBVIOUS
<1>2. \A i \in DOMAIN r : r[i] = q[i + 1]
  OBVIOUS
<1> HIDE DEF r
<1>3. PICK i \in DOMAIN q :
             /\ q[i].type = "reconnecting"
             /\ \A j \in DOMAIN q : j > i => q[j].type # "connected"
  BY DEF Lost
<1>4. CASE i = 1
  <2>1. ASSUME NEW j \in DOMAIN r
        PROVE  r[j].type # "connected"
    <3>1. j + 1 \in DOMAIN q /\ j + 1 > i
      BY <1>1, <1>4
    <3>2. r[j] = q[j + 1]
      BY <1>2
    <3> QED BY <1>3, <3>1, <3>2
  <2>2. ~Has(r, {"connected"})
    BY <2>1 DEF Has
  <2> QED BY <1>1, <1>3, <1>4, <2>2 DEF r
<1>5. CASE i # 1
  <2> DEFINE l == i - 1
  <2>1. l \in DOMAIN r /\ i = l + 1
    BY <1>1, <1>5
  <2>2. r[l].type = "reconnecting"
    BY <1>2, <1>3, <2>1
  <2>3. ASSUME NEW j \in DOMAIN r, j > l
        PROVE  r[j].type # "connected"
    <3>1. j + 1 \in DOMAIN q /\ j + 1 > i
      BY <1>1, <2>1, <2>3
    <3>2. r[j] = q[j + 1]
      BY <1>2
    <3> QED BY <1>3, <3>1, <3>2
  <2> HIDE DEF l
  <2>4. Lost(r)
    BY <2>1, <2>2, <2>3 DEF Lost
  <2> QED BY <2>4 DEF r
<1> QED BY <1>4, <1>5

\* A link that is down is shown so, or will be.
Offline ==
  /\ ~sendEnabled
  /\ uiState # "CONNECTED"
  /\ ~Has(posted, {"connected"})
LinkShown == ~closing /\ ~connected => Lost(posted) \/ Offline

\* Every step of reader, timers and user shows the link as it is, in the end.
LEMMA LinkShownStep ==
  ASSUME ClientAssumption, GatewayAssumption, AppTypeOK, OneLink,
         Unassigned, ConnectedMeansAuthenticated, OneHandshake, RunsNamed,
         LinkShown, [AppNext]_appVars
  PROVE  LinkShown'
<1>0. /\ posted \in Seq(Notice) /\ ClientTypeOK
      /\ closing \in BOOLEAN /\ connected \in BOOLEAN
  BY DEF AppTypeOK, ClientTypeOK
<1> SUFFICES ASSUME ~closing', ~connected'
             PROVE  Lost(posted)' \/ Offline'
  BY DEF LinkShown
<1> USE DEF uiVars, transcriptVars, clientState, uiFields, linkFields, threads
<1>1. CASE UNCHANGED <<closing, connected, posted, sendEnabled, uiState>>
  BY <1>1 DEF LinkShown, Offline, Lost
<1>2. CASE HandleGateway
  <2> DEFINE n == Head(posted)
  <2>1. /\ ~closing /\ ~connected /\ posted # <<>> /\ posted' = Tail(posted)
    BY <1>2 DEF HandleGateway, TakeNotice
  <2>2. CASE Lost(posted)
    <3>1. CASE Lost(Tail(posted))
      BY <2>1, <3>1 DEF Lost
    <3>2. CASE n.type = "reconnecting" /\ ~Has(Tail(posted), {"connected"})
      <4> HIDE DEF n
      <4>1. ShowConnectionState(n)
        BY <1>2, <3>2 DEF HandleGateway, n, ShowConnectionState, ShowStatus,
           ParseHistory, AppendAssistantDelta, EndOfRun, RunStarted
      <4>2. uiState' = "RECONNECTING"
        BY <3>2, <4>1 DEF ShowConnectionState
      <4>3. ~sendEnabled'
        BY <4>1, <4>2 DEF ShowConnectionState, UpdateComposer
      <4> QED BY <2>1, <3>2, <4>2, <4>3 DEF Offline
    <3> QED BY <1>0, <2>1, <2>2, <3>1, <3>2, LostTail
  <2>3. CASE Offline
    <3>1. n.type # "connected" /\ ~Has(posted', {"connected"})
      BY <1>0, <2>1, <2>3, TailShake DEF Offline, Quieter
    <3> HIDE DEF n
    <3>2. uiState' # "CONNECTED"
      BY <1>2, <2>3, <3>1 DEF HandleGateway, n, ShowConnectionState,
         ShowStatus, StatusOf, ParseHistory, AppendAssistantDelta, EndOfRun,
         RunStarted, Offline
    <3>3. UpdateComposer \/ UNCHANGED sendEnabled
      BY <1>2 DEF HandleGateway, ShowConnectionState, ShowStatus,
         ParseHistory, AppendAssistantDelta, EndOfRun, RunStarted
    <3>4. ~sendEnabled'
      BY <2>3, <3>2, <3>3 DEF UpdateComposer, Offline
    <3> QED BY <3>1, <3>2, <3>4 DEF Offline
  <2> QED BY <2>1, <2>2, <2>3 DEF LinkShown
<1>3. ASSUME NEW w \in Socket, OnMessage(w), UNCHANGED uiVars
      PROVE  Lost(posted)' \/ Offline'
  <2>1. PICK n : ReaderTells(n)
    BY <1>0, <1>3, ReaderTellsAll
  <2>2. ~closing /\ ~connected /\ ~Has(n, {"connected"})
    <3>1. closing' = closing
      BY <1>3, QuietStep DEF linkState
    <3> QED BY <2>1, <3>1 DEF ReaderTells
  <2>3. n \in Seq(Notice) /\ posted' = posted \o n
    BY <2>1 DEF ReaderTells
  <2>4. CASE Lost(posted)
    <3>1. Lost(posted \o n)
      BY <1>0, <2>2, <2>3, <2>4, LostJoin
    <3> QED BY <2>3, <3>1 DEF Lost
  <2>5. CASE Offline
    <3>1. ~Has(posted', {"connected"})
      BY <1>0, <2>2, <2>3, <2>5, JoinHas DEF Offline
    <3> QED BY <1>3, <2>5, <3>1 DEF Offline
  <2> QED BY <2>2, <2>4, <2>5 DEF LinkShown
<1>4. ASSUME NEW w \in Socket, OnFailure(w) \/ OnClosed(w)
      PROVE  Lost(posted)'
  <2> DEFINE e == Note("reconnecting", MainSession)
  <2>1. ~closing
    BY <1>0, <1>4, LossTold
  <2>2. PICK n \in Seq(Notice) : posted' = posted \o n \o <<e>>
    BY <1>0, <1>4, <2>1, LossTold
  <2>3. e \in Notice /\ e.type = "reconnecting"
    BY NoteType DEF Note, PostType, GatewayAssumption
  <2>4. posted \o n \in Seq(Notice)
    BY <1>0
  <2> HIDE DEF e
  <2>5. Lost(posted \o n \o <<e>>)
    BY <2>3, <2>4, LostLast
  <2> QED BY <2>2, <2>5 DEF Lost
<1>5. CASE Elsewhere
  <2>1. CASE AssignSocket \/ PostReconnect \/ FarEnd
    BY <1>1, <1>5, <2>1 DEF Elsewhere, AssignSocket, PostReconnect, FarEnd
  <2> QED BY <1>3, <1>4, <1>5, <2>1 DEF Elsewhere
<1>6. ASSUME ShowConnecting, posted' = posted,
             Lost(posted) \/ ~Has(posted, {"connected"})
      PROVE  Lost(posted)' \/ Offline'
  <2>1. uiState' = "CONNECTING"
    BY <1>6 DEF ShowConnecting
  <2>2. ~sendEnabled'
    BY <1>6, <2>1 DEF ShowConnecting, UpdateComposer
  <2> QED BY <1>6, <2>1, <2>2 DEF Offline, Lost
<1>7. ASSUME NEW w \in Socket, AppStart(w)
      PROVE  Lost(posted)' \/ Offline'
  <2>1. latest = NoSocket /\ posted' = posted /\ ShowConnecting
    BY <1>7 DEF AppStart, Start
  <2>2. ~closing /\ ~connected
    BY <1>0, <2>1, ClientAssumption
       DEF OneLink, ConnectedMeansAuthenticated, ClientTypeOK, GatewayTypeOK,
           ClientAssumption, Unassigned, MainIsFree
  <2> QED BY <1>6, <2>1, <2>2 DEF LinkShown, Offline
<1>8. CASE AppTimerFires
  <2>1. posted = <<>> /\ posted' = posted /\ ShowConnecting
    BY <1>8 DEF AppTimerFires, TimerFires, Redial
  <2>2. ~Has(posted, {"connected"})
    BY <2>1 DEF Has
  <2> QED BY <1>6, <2>1, <2>2
<1>9. CASE ClickSend \/ ClickContinue \/ ClickPause
  <2>1. UNCHANGED <<closing, connected, posted, uiState>>
    BY <1>9 DEF ClickSend, ClickContinue, ClickPause, SendChat, PauseOrStop,
       clientVars
  <2>2. UpdateComposer \/ UNCHANGED sendEnabled
    BY <1>9 DEF ClickSend, ClickContinue, ClickPause
  <2>3. CASE Offline
    BY <2>1, <2>2, <2>3 DEF UpdateComposer, Offline
  <2>4. CASE Lost(posted)
    BY <2>1, <2>4 DEF Lost
  <2> QED BY <2>1, <2>3, <2>4 DEF LinkShown
<1>10. CASE AppClose
  BY <1>10 DEF AppClose, Close
<1>11. CASE \/ \E s \in Session : SwitchSession(s)
            \/ UNCHANGED appVars
  <2>1. UNCHANGED <<closing, connected, posted, sendEnabled, uiState>>
    BY <1>11 DEF SwitchSession, SelectSession, appVars, clientVars
  <2> QED BY <1>1, <2>1
<1> QED BY <1>2, <1>5, <1>7, <1>8, <1>9, <1>10, <1>11 DEF AppNext

\* Once the main thread has taken what the reader told it, Send is enabled
\* only while the client is connected.
THEOREM SendOnlyOnLiveLinkAlways == AppSpec => []SendOnlyOnLiveLink
<1>1. AppInit => LinkShown
  <2> SUFFICES ASSUME AppInit PROVE LinkShown
    OBVIOUS
  <2>1. posted = <<>> /\ uiState = "DISCONNECTED" /\ sendEnabled = FALSE
    BY DEF AppInit, ClientInit
  <2> QED BY <2>1 DEF LinkShown, Offline, Has
<1>2. /\ AppTypeOK /\ OneLink /\ Unassigned /\ ConnectedMeansAuthenticated
      /\ OneHandshake /\ RunsNamed /\ LinkShown /\ [AppNext]_appVars
      => LinkShown'
  BY ClientAssumption, GatewayAssumption, LinkShownStep
<1>3. LinkShown => SendOnlyOnLiveLink
  BY DEF LinkShown, Lost, Offline, SendOnlyOnLiveLink
<1> QED BY <1>1, <1>2, <1>3, AppTypeCorrect, AppImplementsClient,
           OneLinkAlways, UnassignedAlways, ConnectedAlways, HandshakeAlways,
           NamedAlways, PTL
        DEF AppSpec

\* The client's guarantees hold of the app: one link, an honest "connected",
\* losses made good, no run that has ended offered for Pause, the lifecycle of
\* a link, and nothing dialled after the activity is gone.
THEOREM AppKeepsClientGuarantees ==
  AppSpec => /\ [](OneLink /\ ConnectedMeansAuthenticated)
             /\ [](SeqOfThisConnection /\ GapHasReload /\ NoGhostRun)
             /\ CloseIsFinal
             /\ ImplementsLink
BY AppImplementsClient, OneLinkAlways, ConnectedAlways,
   SeqOfThisConnectionAlways, GapHasReloadAlways, NoGhostRunAlways,
   CloseIsFinalAlways, ImplementsLinkAlways, PTL
=============================================================================
