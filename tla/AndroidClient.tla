--------------------------- MODULE AndroidClient ---------------------------
(***************************************************************************)
(* GatewayClient.kt: the Android client's link to the Gateway.             *)
(*                                                                         *)
(* Three threads of control meet here.  OkHttp's reader thread runs        *)
(* onMessage, onFailure and onClosed; the main thread runs the user's      *)
(* calls, the timers of postDelayed and whatever the reader handed over    *)
(* with runOnUiThread; the Gateway answers at the far end of a socket.     *)
(* Each callback is one action.  The queues between the threads (inbox,    *)
(* outbox, posted) carry the interleavings.                                *)
(***************************************************************************)
EXTENDS Gateway

CONSTANTS NoSocket,     \* ws before the first connect()
          MaxOutbox,    \* bound on requests in flight to the Gateway
          MaxPosted     \* bound on events waiting for the main thread

ASSUME ClientAssumption ==
  /\ NoSocket \notin Socket
  /\ {MaxOutbox, MaxPosted} \subseteq Nat \ {0}

VARIABLES
  \* fields of GatewayClient
  ws, connectId, selectedSession, lastSeq, reconnectAttempt, closing,
  connected, activeRunId,
  \* threads
  latest,      \* the socket newWebSocket() made last, to be assigned to ws
  posted,      \* events given to runOnUiThread, oldest first
  timers,      \* postDelayed callbacks not yet run
  scheduling,  \* the reader is past "if(closing)return", before postDelayed
  \* history of the execution, read by properties only
  ended        \* runs whose end the client has been told

uiFields == <<selectedSession, closing>>
linkFields == <<ws, latest, connectId, reconnectAttempt, connected>>
streamFields == <<lastSeq, activeRunId>>
threads == <<posted, timers, scheduling>>
history == <<missed, ended>>
clientState == <<uiFields, linkFields, streamFields, threads>>
clientVars == <<clientState, ended, gatewayVars>>

NoSeq == -1

\* What the listener is told, in the words of handleGateway's "when".
PostType == {"connected", "reconnecting", "pairingRequired", "localError",
             "gap", "running", "paused", "historyFull", "historyEmpty"}
            \cup EventType
Notice == [type : PostType, session : Session]
Note(type, session) == [type |-> type, session |-> session]
Post(notices) == posted' = posted \o notices

\* request() sends on the socket in use.
Request(type, session) == Transmit(ws, type, session)

\* sessions.subscribe, sessions.messages.subscribe and chat.history, as one.
Hydrate(session) == Request("history", session)
OutboxHasRoom == ws \in Socket => Len(outbox[ws]) < MaxOutbox

(***************************************************************************)
(* Start and stop                                                          *)
(***************************************************************************)

ClientInit ==
  /\ ws = NoSocket
  /\ latest = NoSocket
  /\ connectId = NoSocket
  /\ selectedSession = MainSession
  /\ lastSeq = NoSeq
  /\ reconnectAttempt = 0
  /\ closing = FALSE
  /\ connected = FALSE
  /\ activeRunId = NoRun
  /\ posted = <<>>
  /\ timers = 0
  /\ scheduling = FALSE
  /\ GatewayInit
  /\ ended = {}

\* The main thread is not in the middle of a connect().
MainIsFree == ws = latest

\* connect(), on the main thread, up to what newWebSocket() returns.  The
\* socket it replaces is not closed.
Connect(w) ==
  /\ sock[w] = "unused"
  /\ closing' = FALSE
  /\ connected' = FALSE
  /\ latest' = w
  /\ sock' = [sock EXCEPT ![w] = "opening"]
  /\ UNCHANGED ws

\* The end of connect(): by now the reader may have been called already.
AssignSocket ==
  /\ ~MainIsFree
  /\ ws' = latest
  /\ UNCHANGED <<uiFields, latest, connectId, reconnectAttempt, connected,
                 streamFields, threads, sock, inbox, outbox, gateway,
                 history>>

\* MainActivity.onCreate connects once.
Start(w) ==
  /\ latest = NoSocket
  /\ Connect(w)
  /\ UNCHANGED <<connectId, selectedSession, reconnectAttempt, streamFields,
                 threads, inbox, outbox, gateway, history>>

RedialAlways == \E w \in Socket : Connect(w)  \* mutant: closing not consulted

Redial ==
  IF closing
    THEN UNCHANGED <<closing, connected, ws, latest, sock>>
    ELSE \E w \in Socket : Connect(w)

\* The callback of postDelayed.  It was posted after the notices of the lost
\* link and with a later due time, so the main looper has run those first.
TimerFires ==
  /\ MainIsFree
  /\ timers > 0
  /\ posted = <<>>
  /\ timers' = timers - 1
  /\ Redial
  /\ UNCHANGED <<connectId, selectedSession, reconnectAttempt, streamFields,
                 posted, scheduling, inbox, outbox, gateway, history>>

RemoveOneCallback == timers' = timers - 1  \* mutant: only the latest one
RemoveCallbacks == timers' = 0

\* close(), from onDestroy.
Close ==
  /\ ws # NoSocket
  /\ MainIsFree
  /\ ~closing
  /\ closing' = TRUE
  /\ connected' = FALSE
  /\ RemoveCallbacks
  /\ sock' = IF TakesSends(ws) THEN [sock EXCEPT ![ws] = "closing"] ELSE sock
  /\ UNCHANGED <<ws, latest, connectId, selectedSession, reconnectAttempt,
                 streamFields, posted, scheduling, inbox, outbox, gateway,
                 history>>

(***************************************************************************)
(* The reader thread: onMessage                                            *)
(***************************************************************************)

\* Before ws is assigned, the answer is lost and nothing else will come.
OnChallenge(w, m) ==
  /\ m.type = "challenge"
  /\ connectId' = w
  /\ Request("connect", MainSession)
  /\ UNCHANGED <<uiFields, ws, latest, reconnectAttempt, connected,
                 streamFields, posted, history>>

OnBadChallenge(w, m) ==
  /\ m.type = "badChallenge"
  /\ Post(<<Note("localError", MainSession)>>)
  /\ UNCHANGED <<uiFields, linkFields, streamFields, outbox, history>>

KeepSeq == UNCHANGED lastSeq  \* mutant: numbering outlives the connection
ForgetSeq == lastSeq' = NoSeq

OnConnectOk(w, m) ==
  /\ m.type = "connectOk"
  /\ connectId = w
  /\ connected' = TRUE
  /\ reconnectAttempt' = 0
  /\ ForgetSeq
  /\ Post(<<Note("connected", MainSession)>>)
  /\ Hydrate(selectedSession)
  /\ UNCHANGED <<uiFields, ws, latest, connectId, activeRunId, history>>

OnPairingRequired(w, m) ==
  /\ m.type = "pairingRequired"
  /\ connectId = w
  /\ connected' = FALSE
  /\ Post(<<Note("pairingRequired", MainSession)>>)
  /\ UNCHANGED <<uiFields, ws, latest, connectId, reconnectAttempt,
                 streamFields, outbox, history>>

OnSendOk(w, m) ==
  /\ m.type = "sendOk"
  /\ activeRunId' = m.run
  /\ Post(<<Note("running", m.session)>>)
  /\ UNCHANGED <<uiFields, linkFields, lastSeq, outbox, history>>

OnAbortOk(w, m) ==
  /\ m.type = "abortOk"
  /\ activeRunId' = NoRun
  /\ Post(<<Note("paused", m.session)>>)
  /\ UNCHANGED <<uiFields, linkFields, lastSeq, outbox, history>>

OnHistory(w, m) ==
  /\ m.type \in {"historyFull", "historyEmpty"}
  /\ Post(<<Note(m.type, m.session)>>)
  /\ UNCHANGED <<uiFields, linkFields, streamFields, outbox, history>>

\* A refused connect other than for pairing, and any other failed request.
OnError(w, m) ==
  /\ m.type \in {"connectRefused", "error"}
  /\ UNCHANGED <<uiFields, linkFields, streamFields, posted, outbox, history>>

GapOffByOne(m) ==  \* mutant
  lastSeq # NoSeq /\ m.seq > lastSeq + 2
Gap(m) == lastSeq # NoSeq /\ m.seq > lastSeq + 1
StaleIfSame(m) ==  \* mutant: only an immediate repeat is dropped
  m.seq = lastSeq
Stale(m) == m.seq # NoNumber /\ lastSeq # NoSeq /\ m.seq <= lastSeq

\* Losses before the first event seen leave no gap: nothing can notice them.
SeesNumber(m) ==
  IF m.seq = NoNumber
    THEN UNCHANGED <<lastSeq, missed>>
    ELSE /\ lastSeq' = m.seq
         /\ missed' = IF lastSeq = NoSeq
                        THEN {s \in missed : s > m.seq} ELSE missed

\* An event without a number is neither early nor late.
OnEvent(w, m) ==
  /\ m.type \in EventType
  /\ IF Gap(m) THEN Hydrate(selectedSession) ELSE UNCHANGED outbox
  /\ IF Stale(m)
       THEN UNCHANGED <<lastSeq, activeRunId, posted, history>>
       ELSE /\ SeesNumber(m)
            /\ activeRunId' = IF m.type = "delta" THEN m.run ELSE NoRun
            /\ Post((IF Gap(m) THEN <<Note("gap", m.session)>> ELSE <<>>)
                    \o <<Note(m.type, m.session)>>)
            /\ ended' = IF m.type = "delta" THEN ended ELSE ended \cup {m.run}
  /\ UNCHANGED <<uiFields, linkFields>>

OnMessage(w) ==
  /\ sock[w] \in {"open", "closing"}
  /\ inbox[w] # <<>>
  /\ Len(posted) < MaxPosted
  /\ OutboxHasRoom
  /\ LET m == Head(inbox[w]) IN
       \/ OnChallenge(w, m)
       \/ OnBadChallenge(w, m)
       \/ OnConnectOk(w, m)
       \/ OnPairingRequired(w, m)
       \/ OnSendOk(w, m)
       \/ OnAbortOk(w, m)
       \/ OnHistory(w, m)
       \/ OnError(w, m)
       \/ OnEvent(w, m)
  /\ inbox' = [inbox EXCEPT ![w] = Tail(@)]
  /\ UNCHANGED <<timers, scheduling, sock, gateway>>

(***************************************************************************)
(* The reader thread: onFailure, onClosed and scheduleReconnect            *)
(***************************************************************************)

RetryIfChallenged(before) ==  \* mutant: no retry before the first challenge
  IF closing \/ connectId # ws
    THEN /\ Post(before)
         /\ UNCHANGED <<reconnectAttempt, scheduling>>
    ELSE /\ Post(before \o <<Note("reconnecting", MainSession)>>)
         /\ reconnectAttempt' = reconnectAttempt + 1
         /\ scheduling' = TRUE

\* scheduleReconnect up to its listener call; postDelayed follows separately.
ScheduleReconnect(before) ==
  IF closing
    THEN /\ Post(before)
         /\ UNCHANGED <<reconnectAttempt, scheduling>>
    ELSE /\ Post(before \o <<Note("reconnecting", MainSession)>>)
         /\ reconnectAttempt' = reconnectAttempt + 1
         /\ scheduling' = TRUE

LoseSocketOnly(w) ==  \* mutant: connected left for connect() to clear
  /\ sock' = [sock EXCEPT ![w] = "dead"]
  /\ UNCHANGED connected

LoseLink(w) ==
  /\ sock' = [sock EXCEPT ![w] = "dead"]
  /\ connected' = FALSE

OnFailure(w) ==
  /\ sock[w] = "failed"
  /\ Len(posted) < MaxPosted
  /\ LoseLink(w)
  /\ ScheduleReconnect(<<Note("localError", MainSession)>>)
  /\ UNCHANGED <<uiFields, ws, latest, connectId, streamFields, timers, inbox,
                 outbox, gateway, history>>

\* OkHttp reports a close once both peers have closed.  Whether it does for
\* one the Gateway alone asked for is left open.
OnClosed(w) ==
  /\ sock[w] \in {"halfClosed", "closing"}
  /\ inbox[w] = <<>>
  /\ Len(posted) < MaxPosted
  /\ outbox' = [outbox EXCEPT ![w] = <<>>]
  /\ LoseLink(w)
  /\ ScheduleReconnect(<<>>)
  /\ UNCHANGED <<uiFields, ws, latest, connectId, streamFields, timers, inbox,
                 gateway, history>>

\* handler.postDelayed, which a close() in between cannot take back.
PostReconnect ==
  /\ scheduling
  /\ scheduling' = FALSE
  /\ timers' = timers + 1
  /\ UNCHANGED <<uiFields, linkFields, streamFields, posted, sock, inbox,
                 outbox, gateway, history>>

(***************************************************************************)
(* The user's calls, on the main thread                                    *)
(***************************************************************************)

UserCalls == ws # NoSocket /\ MainIsFree /\ ~closing /\ OutboxHasRoom

\* selectSession(key)
SelectSession(s) ==
  /\ UserCalls
  /\ selectedSession' = s
  /\ Hydrate(s)
  /\ UNCHANGED <<closing, linkFields, streamFields, threads, sock, inbox,
                 gateway, history>>

\* sendChat(sessionKey, ...): nothing asks whether the link is up.
SendChat(s) ==
  /\ UserCalls
  /\ selectedSession' = s
  /\ Request("send", s)
  /\ UNCHANGED <<closing, linkFields, streamFields, threads, sock, inbox,
                 gateway, history>>

\* pauseOrStop()
PauseOrStop ==
  /\ UserCalls
  /\ Request("abort", selectedSession)
  /\ UNCHANGED <<uiFields, linkFields, streamFields, threads, sock, inbox,
                 gateway, history>>

\* The main thread takes the oldest notice; what it does with it is the app's.
TakeNotice ==
  /\ MainIsFree
  /\ posted # <<>>
  /\ posted' = Tail(posted)
  /\ UNCHANGED <<uiFields, linkFields, streamFields, timers, scheduling, sock,
                 inbox, outbox, gateway, history>>

\* What the Gateway and the network do leaves the client as it is.
FarEnd == GatewayNext /\ UNCHANGED <<clientState, ended>>

ClientNext ==
  \/ \E w \in Socket : Start(w) \/ OnMessage(w) \/ OnFailure(w) \/ OnClosed(w)
  \/ AssignSocket \/ TimerFires \/ Close \/ PostReconnect \/ TakeNotice
  \/ PauseOrStop
  \/ \E s \in Session : SelectSession(s) \/ SendChat(s)
  \/ FarEnd

ClientSpec == ClientInit /\ [][ClientNext]_clientVars

(***************************************************************************)
(* Properties                                                              *)
(***************************************************************************)

\* Every field, queue and record keeps its type.
ClientTypeOK ==
  /\ {ws, latest} \subseteq Socket \cup {NoSocket}
  /\ connectId \in Socket \cup {NoSocket}
  /\ selectedSession \in Session
  /\ lastSeq \in Nat \cup {NoSeq}
  /\ reconnectAttempt \in Nat
  /\ closing \in BOOLEAN
  /\ connected \in BOOLEAN
  /\ activeRunId \in Run \cup {NoRun}
  /\ posted \in Seq(Notice)
  /\ timers \in Nat
  /\ scheduling \in BOOLEAN
  /\ GatewayTypeOK
  /\ ended \in SUBSET (Run \cup {NoRun})

Live == {"opening", "open", "halfClosed", "closing", "failed"}

\* connect() never closes the socket it replaces, the new one's callbacks may
\* come before ws is assigned, and postDelayed is never cancelled but by
\* close().  Still a client has one socket alive, or one reconnect on its way,
\* and until close() never neither: no second socket whose events would arrive
\* twice, no link lost for good.
OneLink ==
  /\ \A w \in Socket : sock[w] \in Live => w = latest
  /\ latest \in Socket =>
       /\ sock[latest] # "unused"
       /\ sock[latest] \in Live => timers = 0 /\ ~scheduling
       /\ ~closing /\ sock[latest] \notin Live => timers = 1 \/ scheduling
  /\ latest = NoSocket => timers = 0 /\ ~scheduling /\ ~closing
  /\ timers <= 1
  /\ scheduling => timers = 0

\* "connected" is what the app shows and sends by.  The reader and the main
\* thread both write it, yet while the client runs it never outlives the
\* socket the Gateway said hello on.
ConnectedMeansAuthenticated ==
  connected /\ ~closing =>
    /\ ws \in accepted
    /\ connectId = ws
    /\ sock[ws] \notin {"unused", "opening", "dead"}

\* Once the reader has seen that events were lost, the history that makes them
\* good has been asked for on the link that is up, until the Gateway sends it
\* or refuses it.
GapHasReload ==
  connected /\ ~closing /\ sock[ws] = "open"
    /\ (\E s \in missed \ refused : s < lastSeq)
  => \E i \in DOMAIN outbox[ws] : outbox[ws][i].type = "history"

\* A Gateway that restarts counts events from 1 again.  A lastSeq kept across
\* the reconnect would have every event of the new connection dropped as old.
SeqOfThisConnection ==
  connected /\ ~closing /\ sock[ws] = "open" => lastSeq <= gwSeq

\* The run offered for Pause is never one whose end the client has been told,
\* though a reply and a repeated event may both name it later.
NoGhostRun == activeRunId \notin ended

\* After close() no socket is ever opened, whatever timers and callbacks still
\* run: closing stays set although connect() would clear it.
CloseIsFinal == [][closing => closing' /\ latest' = latest]_clientVars

Phase ==
  IF latest = NoSocket THEN "idle"
  ELSE IF closing THEN "stopped"
  ELSE IF timers > 0 \/ scheduling THEN "waiting"
  ELSE IF connected THEN "online"
  ELSE "dialing"

Dialled == {w \in Socket : sock[w] # "unused"}

Link == INSTANCE LinkLifecycle WITH phase <- Phase, link <- latest,
                                    used <- Dialled

\* Threads, timers and callbacks together keep the promise of LinkLifecycle.
ImplementsLink == Link!LinkSpec

\* What the platform schedules: frames are read, callbacks and timers run.
\* Neither the Gateway nor the network owes anything, nor does the user.
ClientFairness ==
  /\ \A w \in Socket : /\ WF_clientVars(OnMessage(w))
                       /\ WF_clientVars(OnFailure(w))
  /\ WF_clientVars(AssignSocket)
  /\ WF_clientVars(PostReconnect)
  /\ WF_clientVars(TimerFires)
  /\ WF_clientVars(TakeNotice)

FairClientSpec == ClientSpec /\ ClientFairness

\* A link that breaks is dialled again unless the app closes the client: the
\* retry survives the hand-over from reader to timer to main thread.
FailureIsRetried ==
  \A w \in Socket :
    (sock[w] = "failed" /\ ~closing)
      ~> (closing \/ latest # w \/ \A x \in Socket : sock[x] # "unused")
=============================================================================
