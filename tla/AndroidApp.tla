----------------------------- MODULE AndroidApp -----------------------------
(***************************************************************************)
(* MainActivity.kt on top of AndroidClient: the transcript, its cache and  *)
(* the status, Pause and Send controls.  The activity runs on the main     *)
(* thread only, so each of its actions is one click or one notice, joined  *)
(* with the client operation it calls.                                     *)
(*                                                                         *)
(* A transcript is reduced to the sessions its bubbles belong to, which is *)
(* all that telling one session's transcript from another's needs.         *)
(***************************************************************************)
EXTENDS AndroidClient

CONSTANT IntentSessions  \* what launching intents name, "main" for none

ASSUME IntentAssumption == IntentSessions \subseteq Session

VARIABLES session,      \* the activity's selectedSession
          shown,        \* sessions the bubbles of "messages" come from
          streaming,    \* a bubble is being appended to
          uiState,      \* connectionState
          paused,
          pauseVisible, sendEnabled,
          cache         \* the file of each session, by the same reduction

uiVars == <<session, shown, streaming, uiState, paused, pauseVisible,
            sendEnabled, cache>>
transcriptVars == <<session, shown, streaming, cache>>
appVars == <<clientVars, uiVars>>

UiState == {"DISCONNECTED", "CONNECTING", "CONNECTED", "RECONNECTING",
            "PAIRING_REQUIRED"}

\* cache.saveMessages(selectedSession, messages)
Save(bubbles) == cache' = [cache EXCEPT ![session] = bubbles]

ComposerByUnset ==  \* mutant: Send disabled by DISCONNECTED only
  /\ pauseVisible' = (activeRunId # NoRun /\ ~paused')
  /\ sendEnabled' = (uiState' # "DISCONNECTED")

\* updateComposer(), after the assignments of its caller.
UpdateComposer ==
  /\ pauseVisible' = (activeRunId # NoRun /\ ~paused')
  /\ sendEnabled' = (uiState' = "CONNECTED")

\* onCreate: the session named by the intent, its cached transcript, offline.
\* The client is not told: it starts with the main one.  Either the app has
\* never run or every session has a file.
AppInit ==
  /\ ClientInit
  /\ session \in IntentSessions
  /\ \E old \in BOOLEAN : cache = [s \in Session |-> IF old THEN {s} ELSE {}]
  /\ shown = cache[session]
  /\ streaming = FALSE
  /\ uiState = "DISCONNECTED"
  /\ paused = FALSE
  /\ pauseVisible = FALSE
  /\ sendEnabled = FALSE

\* connect() tells its listener on the spot when the main thread calls it.
ShowConnecting ==
  /\ uiState' = "CONNECTING"
  /\ UNCHANGED <<transcriptVars, paused>>
  /\ UpdateComposer

AppStart(w) == Start(w) /\ ShowConnecting

AppTimerFires ==
  /\ TimerFires
  /\ IF closing THEN UNCHANGED uiVars ELSE ShowConnecting

\* onDestroy
AppClose == Close /\ UNCHANGED uiVars

(***************************************************************************)
(* handleGateway                                                           *)
(***************************************************************************)

ShowConnectionState(n) ==
  /\ n.type \in {"connected", "reconnecting"}
  /\ uiState' = IF n.type = "connected" THEN "CONNECTED" ELSE "RECONNECTING"
  /\ UNCHANGED <<transcriptVars, paused>>
  /\ UpdateComposer

\* The composer is not refreshed with these.
StatusOf(n) == CASE n.type = "pairingRequired" -> "PAIRING_REQUIRED"
                 [] n.type = "localError" -> "DISCONNECTED"
                 [] n.type = "gap" -> "RECONNECTING"

ShowStatus(n) ==
  /\ n.type \in {"pairingRequired", "localError", "gap"}
  /\ uiState' = StatusOf(n)
  /\ UNCHANGED <<transcriptVars, paused, pauseVisible, sendEnabled>>

\* parseHistory: what came replaces the transcript, whichever session it is
\* of, unless nothing came and something is shown.
ParseHistory(n) ==
  /\ n.type \in {"historyFull", "historyEmpty"}
  /\ LET fresh == IF n.type = "historyFull" THEN {n.session} ELSE {}
     IN IF fresh # {} \/ shown = {}
          THEN /\ shown' = fresh
               /\ streaming' = FALSE
               /\ Save(fresh)
          ELSE UNCHANGED <<shown, streaming, cache>>
  /\ UNCHANGED <<session, uiState, paused, pauseVisible, sendEnabled>>

DeltaUnsaved(n) ==  \* mutant: saved when the run ends, not as it streams
  /\ n.type = "delta"
  /\ shown' = shown \cup {n.session}
  /\ streaming' = TRUE
  /\ UNCHANGED <<session, uiState, paused, pauseVisible, sendEnabled, cache>>

\* The delta joins the streaming bubble, or starts one, and is saved.
AppendAssistantDelta(n) ==
  /\ n.type = "delta"
  /\ shown' = shown \cup {n.session}
  /\ streaming' = TRUE
  /\ Save(shown')
  /\ UNCHANGED <<session, uiState, paused, pauseVisible, sendEnabled>>

EndOfRunUnrefreshed(n) ==  \* mutant: updateComposer() forgotten
  /\ n.type \in {"done", "aborted", "paused"}
  /\ streaming' = FALSE
  /\ paused' = (n.type \in {"aborted", "paused"})
  /\ Save(shown)
  /\ UNCHANGED <<session, shown, uiState, pauseVisible, sendEnabled>>

EndOfRun(n) ==
  /\ n.type \in {"done", "aborted", "paused"}
  /\ streaming' = FALSE
  /\ paused' = (n.type \in {"aborted", "paused"})
  /\ Save(shown)
  /\ UNCHANGED <<session, shown, uiState>>
  /\ UpdateComposer

RunStarted(n) ==
  /\ n.type = "running"
  /\ paused' = FALSE
  /\ UNCHANGED <<transcriptVars, uiState>>
  /\ UpdateComposer

HandleGateway ==
  /\ TakeNotice
  /\ LET n == Head(posted) IN
       \/ ShowConnectionState(n)
       \/ ShowStatus(n)
       \/ ParseHistory(n)
       \/ AppendAssistantDelta(n)
       \/ EndOfRun(n)
       \/ RunStarted(n)

(***************************************************************************)
(* Clicks                                                                  *)
(***************************************************************************)

\* sendMessage.  A message over the payload limit stays shown and unsent.
ClickSend ==
  /\ sendEnabled
  /\ ~closing
  /\ shown' = shown \cup {session}
  /\ Save(shown')
  /\ \/ /\ SendChat(session)
        /\ paused' = FALSE
        /\ UNCHANGED <<session, streaming, uiState>>
        /\ UpdateComposer
     \/ /\ UNCHANGED <<clientVars, session, streaming, uiState, paused,
                       pauseVisible, sendEnabled>>

\* Continue and Retry under an assistant bubble.
ClickContinue ==
  /\ shown # {}
  /\ SendChat(session)
  /\ UNCHANGED uiVars

ClickPause ==
  /\ pauseVisible
  /\ PauseOrStop
  /\ paused' = TRUE
  /\ UNCHANGED <<transcriptVars, uiState>>
  /\ UpdateComposer

\* switchSession
SwitchSession(s) ==
  /\ SelectSession(s)
  /\ session' = s
  /\ shown' = cache[s]
  /\ streaming' = FALSE
  /\ UNCHANGED <<uiState, paused, pauseVisible, sendEnabled, cache>>

\* The rest of connect() and what the reader thread, the Gateway and the
\* network do leaves the screen.
Elsewhere ==
  /\ \/ \E w \in Socket : OnMessage(w) \/ OnFailure(w) \/ OnClosed(w)
     \/ AssignSocket \/ PostReconnect
     \/ FarEnd
  /\ UNCHANGED uiVars

AppNext ==
  \/ \E w \in Socket : AppStart(w)
  \/ AppTimerFires \/ AppClose
  \/ HandleGateway
  \/ ClickSend \/ ClickContinue \/ ClickPause
  \/ \E s \in Session : SwitchSession(s)
  \/ Elsewhere

AppSpec == AppInit /\ [][AppNext]_appVars

(***************************************************************************)
(* Properties                                                              *)
(***************************************************************************)

ScreenTypeOK ==
  /\ session \in Session
  /\ shown \in SUBSET Session
  /\ streaming \in BOOLEAN
  /\ uiState \in UiState
  /\ paused \in BOOLEAN
  /\ pauseVisible \in BOOLEAN
  /\ sendEnabled \in BOOLEAN
  /\ cache \in [Session -> SUBSET Session]

\* The screen and the cache keep their types, and so does the client.
AppTypeOK == ClientTypeOK /\ ScreenTypeOK

\* The offline cache of the session on screen is what is on screen, after
\* every delta, reload, switch and message, in whatever order and under
\* whichever session they come: no handler changes one and not the other.
CacheIsTranscript == cache[session] = shown

\* The reader clears activeRunId behind the activity's back, at the end of a
\* run or for a send whose reply names none.  A Pause button with nothing to
\* pause is always about to be taken down.
PauseIsNotStale ==
  pauseVisible /\ activeRunId = NoRun =>
    \E i \in DOMAIN posted :
      posted[i].type \in {"done", "aborted", "paused", "running"}

\* Send is not left enabled on a link that is down: once the main thread has
\* caught up, it is enabled only while the client is connected.
SendOnlyOnLiveLink ==
  sendEnabled /\ posted = <<>> /\ ~closing => connected

\* The transcript of a session holds that session's messages and no others.
TranscriptIsolation ==
  /\ shown \subseteq {session}
  /\ \A s \in Session : cache[s] \subseteq {s}
=============================================================================
