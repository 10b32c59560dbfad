----------------------------- MODULE IosClient -----------------------------
(***************************************************************************)
(* GatewayClient.swift: the iOS client, its transcript and its cache.      *)
(*                                                                         *)
(* All of it runs on the main actor, one piece at a time, but a piece ends *)
(* wherever the code awaits.  A receive loop awaits the next frame of its  *)
(* own socket, and a reconnect task awaits its delay and then the main     *)
(* actor, while connect(), close() and the user's calls run in between.    *)
(* A cancelled loop is not gone: it wakes up once more, with the frame it  *)
(* already had or with an error.                                           *)
(***************************************************************************)
EXTENDS Gateway

CONSTANTS NoSocket,     \* nil
          MaxOutbox,    \* bound on requests in flight to the Gateway
          Bubble,       \* ids of assistant bubbles
          NoBubble      \* nil

ASSUME IosAssumption ==
  /\ NoSocket \notin Socket
  /\ NoBubble \notin Bubble
  /\ MaxOutbox \in Nat \ {0}

VARIABLES
  \* fields of GatewayClient
  socket, connectId, selectedSession, lastSeq, closing, connectionState,
  activeRunId, streamingMessageId,
  messages,    \* sessions the bubbles are of, and the bubbles that spin
  cache,       \* the file of each session, by the same reduction
  \* tasks
  loop,        \* where the receive loop of each socket stands
  retries,     \* reconnect tasks asleep and not cancelled
  firing,      \* a reconnect task past its isCancelled, before connect()
  \* history of the execution, read by properties only
  ended        \* runs whose end the client has been told

linkFields == <<socket, connectId, closing, connectionState>>
streamFields == <<lastSeq, activeRunId>>
chatFields == <<selectedSession, streamingMessageId, messages, cache>>
tasks == <<loop, retries, firing>>
clientState == <<linkFields, streamFields, chatFields, tasks>>
clientVars == <<clientState, ended, gatewayVars>>

NoSeq == -1

Transcript == [from : SUBSET Session, spinning : SUBSET Bubble]
Saved(session) == [from |-> {session}, spinning |-> {}]
Blank == [from |-> {}, spinning |-> {}]

Request(type, session) == Transmit(socket, type, session)
OutboxHasRoom == socket \in Socket => Len(outbox[socket]) < MaxOutbox

\* hydrate(): three requests, as one, and only when connected.
Hydrate(state, session) ==
  IF state = "connected" THEN Request("history", session) ELSE UNCHANGED outbox

\* Either the app has never run or every session has a file.
ClientInit ==
  /\ socket = NoSocket
  /\ connectId = NoSocket
  /\ selectedSession = MainSession
  /\ lastSeq = NoSeq
  /\ closing = FALSE
  /\ connectionState = "disconnected"
  /\ activeRunId = NoRun
  /\ streamingMessageId = NoBubble
  /\ cache \in {[s \in Session |-> Blank], [s \in Session |-> Saved(s)]}
  /\ messages = cache[selectedSession]
  /\ loop = [w \in Socket |-> "none"]
  /\ retries = 0
  /\ firing = FALSE
  /\ GatewayInit
  /\ ended = {}

(***************************************************************************)
(* connect(), close() and the reconnect task                               *)
(***************************************************************************)

\* What cancelling a socket leaves its loop: the frame received already, or
\* nothing but the error.
Leftovers(w) ==
  {<<>>} \cup
  IF loop[w] = "waiting" /\ inbox[w] # <<>> THEN {<<Head(inbox[w])>>} ELSE {}

\* The sockets once the current one is cancelled, and what they carry.
HungUp == [w \in Socket |-> IF w = socket THEN "dead" ELSE sock[w]]
CancelTraffic ==
  IF socket = NoSocket
    THEN UNCHANGED <<inbox, outbox>>
    ELSE /\ \E rest \in Leftovers(socket) :
              inbox' = [inbox EXCEPT ![socket] = rest]
         /\ outbox' = [outbox EXCEPT ![socket] = <<>>]

\* connect()
Connect(w) ==
  /\ sock[w] = "unused"
  /\ closing' = FALSE
  /\ retries' = 0
  /\ CancelTraffic
  /\ sock' = [HungUp EXCEPT ![w] = "opening"]
  /\ connectionState' = "connecting"
  /\ socket' = w
  /\ loop' = [loop EXCEPT ![w] = "starting"]
  /\ UNCHANGED <<connectId, streamFields, chatFields, gateway, missed, ended>>

\* onAppear, and the Reconnect button.
UserConnects(w) ==
  /\ connectionState \in {"disconnected", "pairingRequired"}
  /\ ~closing
  /\ Connect(w)
  /\ UNCHANGED firing

\* The delay is over and the task finds itself not cancelled.
RetryWakes ==
  /\ retries > 0
  /\ ~firing
  /\ retries' = retries - 1
  /\ firing' = TRUE
  /\ UNCHANGED <<linkFields, streamFields, chatFields, loop, ended,
                 gatewayVars>>

\* It gets the main actor; a close() in between is not seen.
RetryFires(w) ==
  /\ firing
  /\ firing' = FALSE
  /\ Connect(w)

\* close(), when settings replace the client by another.
Close ==
  /\ socket # NoSocket
  /\ ~closing
  /\ closing' = TRUE
  /\ retries' = 0
  /\ CancelTraffic
  /\ sock' = HungUp
  /\ socket' = NoSocket
  /\ connectionState' = "disconnected"
  /\ UNCHANGED <<connectId, streamFields, chatFields, loop, firing, gateway,
                 missed, ended>>

(***************************************************************************)
(* The transcript                                                          *)
(***************************************************************************)

\* Every change of the transcript is saved under the selected session.
Save == cache' = [cache EXCEPT ![selectedSession] = messages']

\* The delta joins the streaming bubble if it is here, or starts a new one.
JoinBubble(m) ==
  \E b \in Bubble :
    /\ IF streamingMessageId \in messages.spinning
         THEN b = streamingMessageId
         ELSE \A s \in Session :
                b \notin messages.spinning \cup cache[s].spinning
    /\ streamingMessageId' = b
    /\ messages' = [from |-> messages.from \cup {m.session},
                    spinning |-> messages.spinning \cup {b}]

DeltaUnsaved(m) ==  \* mutant: saved when the run ends, not as it streams
  JoinBubble(m) /\ UNCHANGED <<selectedSession, cache>>

AppendAssistantDelta(m) ==
  JoinBubble(m) /\ Save /\ UNCHANGED selectedSession

FinishStreaming(bubble) ==
  /\ messages' = [messages EXCEPT !.spinning = @ \ {bubble}]
  /\ streamingMessageId' = NoBubble
  /\ Save
  /\ UNCHANGED selectedSession

\* What came replaces the transcript, whichever session it is of, unless
\* nothing came and something is shown.
ParseHistory(m) ==
  LET fresh == IF m.type = "historyFull" THEN Saved(m.session) ELSE Blank
  IN IF fresh # Blank \/ messages = Blank
       THEN /\ messages' = fresh
            /\ streamingMessageId' = NoBubble
            /\ Save
            /\ UNCHANGED selectedSession
       ELSE UNCHANGED chatFields

(***************************************************************************)
(* The receive loops                                                       *)
(***************************************************************************)

\* The answer goes to the current socket, even if a cancelled one asked.  The
\* signature may fail, and then nothing is sent.
OnChallenge(w, m) ==
  /\ m.type = "challenge"
  /\ \/ /\ w = socket
        /\ connectId' = w
        /\ Request("connect", MainSession)
     \/ /\ w # socket
        /\ connectId' = NoSocket
        /\ Request("badConnect", MainSession)
     \/ UNCHANGED <<connectId, outbox>>
  /\ UNCHANGED <<socket, closing, connectionState, streamFields, chatFields,
                 missed, ended>>

OnConnectOk(w, m) ==
  /\ m.type = "connectOk"
  /\ connectId = w
  /\ connectionState' = "connected"
  /\ lastSeq' = NoSeq
  /\ Hydrate(connectionState', selectedSession)
  /\ UNCHANGED <<socket, connectId, closing, activeRunId, chatFields, missed,
                 ended>>

OnPairingRequired(w, m) ==
  /\ m.type = "pairingRequired"
  /\ connectId = w
  /\ connectionState' = "pairingRequired"
  /\ UNCHANGED <<socket, connectId, closing, streamFields, chatFields, outbox,
                 missed, ended>>

OnSendOk(w, m) ==
  /\ m.type = "sendOk"
  /\ activeRunId' = m.run
  /\ UNCHANGED <<linkFields, lastSeq, chatFields, outbox, missed, ended>>

\* The streaming bubble is forgotten before finishStreaming() looks for it.
OnAbortOk(w, m) ==
  /\ m.type = "abortOk"
  /\ activeRunId' = NoRun
  /\ FinishStreaming(NoBubble)
  /\ UNCHANGED <<linkFields, lastSeq, outbox, missed, ended>>

OnHistory(w, m) ==
  /\ m.type \in {"historyFull", "historyEmpty"}
  /\ ParseHistory(m)
  /\ UNCHANGED <<linkFields, streamFields, outbox, missed, ended>>

\* Bad challenges, refusals, failures and replies to a connect since replaced.
OnIgnored(w, m) ==
  /\ \/ m.type \in {"badChallenge", "connectRefused", "error"}
     \/ m.type \in {"connectOk", "pairingRequired"} /\ connectId # w
  /\ UNCHANGED <<linkFields, streamFields, chatFields, outbox, missed, ended>>

GapOffByOne(m) ==  \* mutant
  lastSeq # NoSeq /\ m.seq > lastSeq + 2
Gap(m) == lastSeq # NoSeq /\ m.seq > lastSeq + 1
StaleIfSame(m) ==  \* mutant: only an immediate repeat is dropped
  m.seq = lastSeq
Stale(m) == m.seq # NoNumber /\ lastSeq # NoSeq /\ m.seq <= lastSeq

\* Losses before the first event seen leave no gap: nothing can notice them.
SeesNumber(m) ==
  IF m.seq = NoNumber
    THEN UNCHANGED <<lastSeq, missed>>
    ELSE /\ lastSeq' = m.seq
         /\ missed' = IF lastSeq = NoSeq
                        THEN {s \in missed : s > m.seq} ELSE missed

\* An event without a number is neither early nor late.
OnEvent(w, m) ==
  /\ m.type \in EventType
  /\ IF Gap(m) THEN Hydrate(connectionState, selectedSession)
               ELSE UNCHANGED outbox
  /\ IF Stale(m)
       THEN UNCHANGED <<streamFields, chatFields, missed, ended>>
       ELSE /\ SeesNumber(m)
            /\ IF m.type = "delta"
                 THEN /\ activeRunId' = m.run
                      /\ AppendAssistantDelta(m)
                      /\ UNCHANGED ended
                 ELSE /\ activeRunId' = NoRun
                      /\ FinishStreaming(streamingMessageId)
                      /\ ended' = ended \cup {m.run}
  /\ UNCHANGED linkFields

\* The loop of a new socket gets to run, unless it is cancelled already.
LoopStarts(w) ==
  /\ loop[w] = "starting"
  /\ loop' = [loop EXCEPT ![w] = IF w = socket THEN "waiting" ELSE "done"]
  /\ UNCHANGED <<linkFields, streamFields, chatFields, retries, firing, ended,
                 gatewayVars>>

\* A frame is handled.  The main actor resumes loops in the order in which
\* their frames came: what a cancelled socket left goes first.
LoopReads(w) ==
  /\ loop[w] = "waiting"
  /\ inbox[w] # <<>>
  /\ w = socket => \A x \in Socket \ {w} : inbox[x] = <<>>
  /\ OutboxHasRoom
  /\ LET m == Head(inbox[w]) IN
       \/ OnChallenge(w, m)
       \/ OnConnectOk(w, m)
       \/ OnPairingRequired(w, m)
       \/ OnSendOk(w, m)
       \/ OnAbortOk(w, m)
       \/ OnHistory(w, m)
       \/ OnIgnored(w, m)
       \/ OnEvent(w, m)
  /\ inbox' = [inbox EXCEPT ![w] = Tail(@)]
  /\ loop' = IF w = socket THEN loop ELSE [loop EXCEPT ![w] = "done"]
  /\ UNCHANGED <<retries, firing, sock, gateway>>

RetryIfConnected ==  \* mutant: only an established link is dialled again
  IF closing \/ connectionState # "connected"
    THEN UNCHANGED <<connectionState, retries>>
    ELSE /\ connectionState' = "reconnecting"
         /\ retries' = 1

RetryUncancelled ==  \* mutant: reconnectTask?.cancel() forgotten
  IF closing
    THEN UNCHANGED <<connectionState, retries>>
    ELSE /\ connectionState' = "reconnecting"
         /\ retries' = retries + 1

\* scheduleReconnect() cancels the task before.
ScheduleReconnect ==
  IF closing
    THEN UNCHANGED <<connectionState, retries>>
    ELSE /\ connectionState' = "reconnecting"
         /\ retries' = 1

\* receive() throws: the socket broke, was closed by the Gateway, or was
\* cancelled by connect() or close().
LoopFails(w) ==
  /\ loop[w] = "waiting"
  /\ inbox[w] = <<>>
  /\ sock[w] \in {"failed", "halfClosed", "dead"}
  /\ loop' = [loop EXCEPT ![w] = "done"]
  /\ sock' = [sock EXCEPT ![w] = "dead"]
  /\ ScheduleReconnect
  /\ UNCHANGED <<socket, connectId, closing, streamFields, chatFields, firing,
                 inbox, outbox, gateway, missed, ended>>

(***************************************************************************)
(* The user's calls                                                        *)
(***************************************************************************)

UserCalls == ~closing /\ OutboxHasRoom

SelectSession(s) ==
  /\ UserCalls
  /\ selectedSession' = s
  /\ messages' = cache[s]
  /\ Hydrate(connectionState, s)
  /\ UNCHANGED <<linkFields, streamFields, streamingMessageId, cache, tasks,
                 sock, inbox, gateway, missed, ended>>

\* sendChat(), from the composer when no run is active, or from Continue and
\* Retry under a bubble.
SendChat ==
  /\ UserCalls
  /\ connectionState = "connected"
  /\ activeRunId = NoRun \/ messages.from # {}
  /\ messages' = [messages EXCEPT !.from = @ \cup {selectedSession}]
  /\ Save
  /\ Request("send", selectedSession)
  /\ UNCHANGED <<linkFields, streamFields, selectedSession,
                 streamingMessageId, tasks, sock, inbox, gateway, missed,
                 ended>>

\* The composer shows Pause in place of Send while activeRunId is set.
PauseOrStop ==
  /\ UserCalls
  /\ activeRunId # NoRun
  /\ Request("abort", selectedSession)
  /\ UNCHANGED <<clientState, sock, inbox, gateway, missed, ended>>

FarEnd == GatewayNext /\ UNCHANGED <<clientState, ended>>

ClientNext ==
  \/ \E w \in Socket :
       \/ UserConnects(w) \/ RetryFires(w)
       \/ LoopStarts(w) \/ LoopReads(w) \/ LoopFails(w)
  \/ RetryWakes \/ Close
  \/ \E s \in Session : SelectSession(s)
  \/ SendChat \/ PauseOrStop
  \/ FarEnd

ClientSpec == ClientInit /\ [][ClientNext]_clientVars

(***************************************************************************)
(* Properties                                                              *)
(***************************************************************************)

\* Every field, task and bubble keeps its type; at most one reconnect task is
\* asleep, however many loops have failed.
IosTypeOK ==
  /\ socket \in Socket \cup {NoSocket}
  /\ connectId \in Socket \cup {NoSocket}
  /\ selectedSession \in Session
  /\ lastSeq \in Nat \cup {NoSeq}
  /\ closing \in BOOLEAN
  /\ connectionState \in {"disconnected", "connecting", "connected",
                          "reconnecting", "pairingRequired"}
  /\ activeRunId \in Run \cup {NoRun}
  /\ streamingMessageId \in Bubble \cup {NoBubble}
  /\ messages \in Transcript
  /\ cache \in [Session -> Transcript]
  /\ loop \in [Socket -> {"none", "starting", "waiting", "done"}]
  /\ retries \in {0, 1}
  /\ firing \in BOOLEAN
  /\ GatewayTypeOK
  /\ ended \in SUBSET (Run \cup {NoRun})

\* A client that was started and not closed always has a loop on its current
\* socket or a reconnect under way, though connect() cancels loops and
\* reconnects in flight and each may still wake up once.
NeverStranded ==
  ~closing /\ socket # NoSocket =>
    loop[socket] \in {"starting", "waiting"} \/ retries > 0 \/ firing

\* The file of the selected session is what is on screen, bubbles that stream
\* included: no handler changes one and not the other.
TranscriptOnDisk == cache[selectedSession] = messages

\* Once events are known lost on a connected link, the history that makes
\* them good is asked for there, until the Gateway sends it or refuses it:
\* hydrate()'s guard never turns it down.
GapHasReload ==
  connectionState = "connected" /\ ~closing /\ sock[socket] = "open"
    /\ (\E s \in missed \ refused : s < lastSeq)
  => \E i \in DOMAIN outbox[socket] : outbox[socket][i].type = "history"

\* The composer offers Pause for no run whose end the client has been told,
\* not even when a cancelled loop wakes up with an old frame.
NoGhostRun == activeRunId \notin ended

\* A reconnect is for a link that was lost: none is pending while the current
\* socket is on its way or up.
ReconnectsLostLinks ==
  retries > 0 \/ firing =>
    socket = NoSocket \/ sock[socket] \notin {"opening", "open"}

\* With no run active no bubble goes on spinning, and its Copy, Continue and
\* Retry are offered.
SpinnerStops ==
  activeRunId = NoRun /\ ~closing => messages.spinning = {}

\* What the system schedules: loops and tasks that can run do.
ClientFairness ==
  /\ \A w \in Socket : /\ WF_clientVars(LoopStarts(w))
                       /\ WF_clientVars(LoopReads(w))
                       /\ WF_clientVars(LoopFails(w))
  /\ WF_clientVars(RetryWakes)
  /\ WF_clientVars(\E w \in Socket : RetryFires(w))

FairClientSpec == ClientSpec /\ ClientFairness

\* A link that breaks or that the Gateway closes is dialled again unless the
\* client is closed.
LossIsRetried ==
  \A w \in Socket :
    (sock[w] \in {"failed", "halfClosed"} /\ ~closing)
      ~> (closing \/ socket # w \/ \A x \in Socket : sock[x] # "unused")
=============================================================================
