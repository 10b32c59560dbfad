------------------------------ MODULE Desktop ------------------------------
(***************************************************************************)
(* The desktop program (gui/main.cpp): the FLTK thread, the worker thread  *)
(* that makes all calls of the core client, and what they share under two  *)
(* mutexes: the command queue and the status on its way to the screen.     *)
(***************************************************************************)
EXTENDS CoreClient, FiniteSets

CONSTANTS Url,          \* what the user may type as Gateway
          NoUrl,        \* active_gateway_ before the first command
          MaxCommands   \* bound on commands waiting

ASSUME DesktopAssumption ==
  /\ Url # {}
  /\ NoUrl \notin Url
  /\ MaxCommands \in Nat

VARIABLES
  gui,            \* where the FLTK thread is
  worker,         \* where the worker is
  commands, closing,
  command,        \* cmd of the worker; Stop while it has none
  activeGateway,
  status,         \* the label
  pendingStatus, awake

guiVars == <<gui, closing, status>>
workerVars == <<worker, command, activeGateway>>
shared == <<commands, pendingStatus, awake>>
desktopVars == <<guiVars, workerVars, shared, coreVars, gatewayVars>>

Status == {"Offline", "Connecting", "Connected", "PairingRequired"}
NoStatus == ""

\* The session field is never empty here.
Order ==
  [type : {"connect", "send", "abort"}, gateway : Url, session : Session]
Stop == [type |-> "stop", gateway |-> NoUrl, session |-> MainSession]
Command == Order \cup {Stop}

DesktopInit ==
  /\ CoreInit
  /\ GatewayInit
  /\ gui = "running"
  /\ worker = "top"
  /\ commands = <<>>
  /\ closing = FALSE
  /\ command = Stop
  /\ activeGateway = NoUrl
  /\ status = "Offline"
  /\ pendingStatus = NoStatus
  /\ awake = FALSE

SetStatus(text) == pendingStatus' = text /\ awake' = TRUE
AppendText == awake' = TRUE /\ UNCHANGED pendingStatus

(***************************************************************************)
(* The FLTK thread                                                         *)
(***************************************************************************)

GuiStep ==
  UNCHANGED <<worker, command, activeGateway, coreVars, gatewayVars>>

\* Bound: a socket is left for every command that may have to dial.
DialsLeft ==
  LET busy == IF worker \in {"top", "waiting", "pumping"} THEN 0 ELSE 1
  IN Cardinality({w \in Socket : sock[w] = "unused"}) > Len(commands) + busy
MayClick == gui = "running" /\ Len(commands) < MaxCommands /\ DialsLeft

Enqueue(types) ==
  \E c \in Order : c.type \in types /\ commands' = Append(commands, c)

\* connect(): the status first, under its own mutex.
ClickConnect ==
  /\ MayClick
  /\ SetStatus("Connecting")
  /\ gui' = "enqueuing"
  /\ UNCHANGED <<closing, status, commands>>
  /\ GuiStep

EnqueueConnect ==
  /\ gui = "enqueuing"
  /\ Enqueue({"connect"})
  /\ gui' = "running"
  /\ UNCHANGED <<closing, status, pendingStatus, awake>>
  /\ GuiStep

\* send() and abort().
ClickSendOrAbort ==
  /\ MayClick
  /\ Enqueue({"send", "abort"})
  /\ UNCHANGED <<guiVars, pendingStatus, awake>>
  /\ GuiStep

AwakeUnasked ==  \* mutant: the label is set though no status is pending
  /\ gui = "running"
  /\ awake
  /\ awake' = FALSE
  /\ pendingStatus' = NoStatus
  /\ status' = pendingStatus
  /\ UNCHANGED <<gui, closing, commands>>
  /\ GuiStep

\* awake_cb()
AwakeCb ==
  /\ gui = "running"
  /\ awake
  /\ awake' = FALSE
  /\ pendingStatus' = NoStatus
  /\ status' = IF pendingStatus # NoStatus THEN pendingStatus ELSE status
  /\ UNCHANGED <<gui, closing, commands>>
  /\ GuiStep

\* shutdown(): the flag, then Stop behind whatever waits, then the join.
Shutdown ==
  /\ gui = "running"
  /\ closing' = TRUE
  /\ gui' = "stopping"
  /\ UNCHANGED <<status, shared>>
  /\ GuiStep

EnqueueStop ==
  /\ gui = "stopping"
  /\ commands' = Append(commands, Stop)
  /\ gui' = "joining"
  /\ UNCHANGED <<closing, status, pendingStatus, awake>>
  /\ GuiStep

Joined ==
  /\ gui = "joining"
  /\ worker = "done"
  /\ gui' = "gone"
  /\ UNCHANGED <<closing, status, shared>>
  /\ GuiStep

GuiNext ==
  \/ ClickConnect \/ EnqueueConnect \/ ClickSendOrAbort \/ AwakeCb
  \/ Shutdown \/ EnqueueStop \/ Joined

(***************************************************************************)
(* The worker thread                                                       *)
(***************************************************************************)

Idle == UNCHANGED <<coreVars, gatewayVars>>
Quiet == UNCHANGED <<pendingStatus, awake>>

ConnectedToAny ==  \* mutant: which Gateway is not asked
  ready
AlreadyConnected == ready /\ activeGateway = command.gateway

\* while (!closing_)
LoopTop ==
  /\ worker = "top"
  /\ worker' = IF closing THEN "ending" ELSE "waiting"
  /\ UNCHANGED <<guiVars, command, activeGateway, shared>> /\ Idle

\* close() of the client the worker leaves, or that ensure_connected()
\* replaces by another, as far as it waits for the Gateway.
HangsUp ==
  /\ \/ worker = "ending"
     \/ worker = "ensuring" /\ ~AlreadyConnected
  /\ HangUp("close")
  /\ UNCHANGED <<guiVars, workerVars, shared>>

\* The worker's last act.
WorkerEnds ==
  /\ worker = "ending"
  /\ StreamIsDown
  /\ worker' = "done"
  /\ Close
  /\ call' = "none"
  /\ UNCHANGED <<needsRecovery, lastOuter, skipped, gateway, missed>>
  /\ UNCHANGED <<guiVars, command, activeGateway, shared>>

\* Commands are taken in turn, one even after shutdown() has begun.
TakeCommand ==
  /\ worker = "waiting"
  /\ commands # <<>>
  /\ command' = Head(commands)
  /\ commands' = Tail(commands)
  /\ worker' = IF command'.type = "stop" THEN "ending" ELSE "ensuring"
  /\ UNCHANGED <<guiVars, activeGateway>> /\ Quiet /\ Idle

\* The rest of a round: pump() if there is something to pump.
PumpOrTop ==
  /\ worker' = IF ready THEN "pumping" ELSE "top"
  /\ command' = Stop

WaitTimesOut ==
  /\ worker = "waiting"
  /\ commands = <<>>
  /\ PumpOrTop
  /\ UNCHANGED <<guiVars, activeGateway, shared>> /\ Idle

\* ensure_connected(): this client, or a new one that dials once the old one
\* is closed.
EnsureConnected ==
  /\ worker = "ensuring"
  /\ IF AlreadyConnected
       THEN worker' = "acting" /\ UNCHANGED activeGateway /\ Idle
       ELSE /\ worker' = "connecting"
            /\ activeGateway' = command.gateway
            /\ \E w \in Socket : Dial(w)
            /\ needsRecovery' = FALSE
            /\ lastOuter' = NoSeq
            /\ skipped' = {}
            /\ UNCHANGED <<gateway, missed>>
  /\ UNCHANGED <<guiVars, command, shared>>

AnswerChallenge ==
  /\ worker = "connecting"
  /\ SendConnect
  /\ UNCHANGED <<guiVars, workerVars, shared>>

\* The close() of a connect() that fails.
ConnectGivesUp ==
  /\ worker = "connecting"
  /\ GiveUp
  /\ UNCHANGED <<guiVars, workerVars, shared>>

ConnectOutcome ==
  /\ worker = "connecting"
  /\ \E state \in ConnectState :
       /\ ConnectReturns(state)
       /\ IF state = "Connected"
            THEN worker' = "hydrating" /\ UNCHANGED command
            ELSE worker' = "top" /\ command' = Stop
       /\ SetStatus(IF state = "Failed" THEN "Offline" ELSE state)
  /\ UNCHANGED <<guiVars, activeGateway, commands>>

\* hydrate(), and after it whatever became of it, the command.
StartHydrate ==
  /\ worker = "hydrating"
  /\ StartCall("history", command.session)
  /\ UNCHANGED <<guiVars, workerVars, shared>>

Hydrated ==
  /\ worker = "hydrating"
  /\ \E ok \in BOOLEAN : CallReturns(ok)
  /\ worker' = "acting"
  /\ AppendText
  /\ UNCHANGED <<guiVars, command, activeGateway, commands>>

\* process(): Connect has nothing left to do.
ActConnect ==
  /\ worker = "acting"
  /\ command.type = "connect"
  /\ PumpOrTop
  /\ UNCHANGED <<guiVars, activeGateway, shared>> /\ Idle

StartAct ==
  /\ worker = "acting"
  /\ command.type \in {"send", "abort"}
  /\ StartCall(command.type, command.session)
  /\ UNCHANGED <<guiVars, workerVars, shared>>

\* Any exception is shown as Offline.
Acted ==
  /\ worker = "acting"
  /\ \E ok \in BOOLEAN :
       /\ CallReturns(ok)
       /\ IF ok THEN AppendText ELSE SetStatus("Offline")
  /\ PumpOrTop
  /\ UNCHANGED <<guiVars, activeGateway, commands>>

SkipWhileCalling ==
  /\ worker \in {"hydrating", "acting"}
  /\ SkipEvent
  /\ UNCHANGED <<guiVars, workerVars, shared>>

\* pump() for 50 ms.  It swallows exceptions: the worker's handler, which
\* would say "Reconnecting…", never runs.
PumpEvent ==
  /\ worker = "pumping"
  /\ PumpReads
  /\ IF Stale(Frame1) THEN Quiet ELSE AppendText
  /\ UNCHANGED <<guiVars, workerVars, commands>>

PumpBreaks ==
  /\ worker = "pumping"
  /\ PumpLosesLink
  /\ worker' = "top"
  /\ UNCHANGED <<guiVars, command, activeGateway, shared>>

\* The worker is then out of reach of commands and of shutdown().
PumpBlocks ==
  /\ worker = "pumping"
  /\ PumpWaits
  /\ UNCHANGED <<guiVars, workerVars, shared>>

PumpWhileUp ==  \* mutant: pump() goes on for as long as the link is up
  /\ worker = "pumping"
  /\ Broken
  /\ worker' = "top"
  /\ UNCHANGED <<guiVars, command, activeGateway, shared>> /\ Idle

\* The deadline is looked at between two reads.
PumpEnds ==
  /\ worker = "pumping"
  /\ call = "none"
  /\ worker' = "top"
  /\ UNCHANGED <<guiVars, command, activeGateway, shared>> /\ Idle

WorkerNext ==
  \/ LoopTop \/ TakeCommand \/ WaitTimesOut
  \/ HangsUp \/ WorkerEnds
  \/ EnsureConnected \/ AnswerChallenge \/ ConnectGivesUp \/ ConnectOutcome
  \/ StartHydrate \/ Hydrated
  \/ ActConnect \/ StartAct \/ Acted \/ SkipWhileCalling
  \/ PumpEvent \/ PumpBreaks \/ PumpBlocks \/ PumpEnds

FarEnd ==
  /\ GatewayNext \/ FarEndCloses
  /\ UNCHANGED <<guiVars, workerVars, shared, coreVars>>

DesktopNext == GuiNext \/ WorkerNext \/ FarEnd

DesktopSpec == DesktopInit /\ [][DesktopNext]_desktopVars

(***************************************************************************)
(* Properties                                                              *)
(***************************************************************************)

\* Threads, queue and label keep their types, and the core client its own:
\* no call ever reads where no socket is.
DesktopTypeOK ==
  /\ gui \in {"running", "enqueuing", "stopping", "joining", "gone"}
  /\ worker \in {"top", "waiting", "ensuring", "connecting", "hydrating",
                 "acting", "pumping", "ending", "done"}
  /\ commands \in Seq(Command)
  /\ closing \in BOOLEAN
  /\ command \in Command
  /\ activeGateway \in Url \cup {NoUrl}
  /\ status \in Status
  /\ pendingStatus \in Status \cup {NoStatus}
  /\ awake \in BOOLEAN
  /\ CoreTypeOK

\* A command goes to the Gateway that was in the field when it was clicked,
\* whatever has been typed or connected to since.
SentToChosenGateway ==
  call \in Asks => activeGateway = command.gateway

\* With nothing going on, the label says connected just when the client is.
StatusIsTruthful ==
  gui = "running" /\ ~awake /\ worker = "waiting" /\ commands = <<>>
  => ((status = "Connected") <=> ready)

\* Threads run; pump() comes to its deadline if it looks often enough; and
\* nothing makes the Gateway answer.
DesktopFairness ==
  /\ WF_desktopVars(WorkerNext)
  /\ SF_desktopVars(PumpEnds)
  /\ WF_desktopVars(EnqueueStop \/ Joined)

FairDesktopSpec == DesktopSpec /\ DesktopFairness

\* shutdown() returns, past the commands still queued, unless on a connection
\* that is up the Gateway leaves a read, or a close, of the worker's without
\* an answer for ever.
ShutdownEnds ==
  <>[]FarEndIsSilent \/ (closing ~> gui = "gone")
=============================================================================
