--------------------------- MODULE DesktopProofs ---------------------------
(***************************************************************************)
(* Theorems of Desktop, for any sockets, sessions, runs and Gateways and   *)
(* any bounds on queues and numbers.                                       *)
(***************************************************************************)
EXTENDS Desktop, CoreClientProofs

Busy == {"connecting", "hydrating", "acting"}

\* The worker calls the core client only while it processes a command, and
\* its client is then one of the Gateway that command is for.  Between
\* commands, pump() may wait for an event.  It closes a client of its own
\* only to replace it, when it fails to connect, or at the end.
BusyOnCommand ==
  /\ call = "event" => worker = "pumping"
  /\ call \in Closings =>
       ~ready /\ worker \in {"ensuring", "connecting", "ending"}
  /\ call \notin {"none", "event"} \cup Closings => worker \in Busy
  /\ call # "none" /\ worker = "acting" => command.type # "connect"
  /\ worker \in Busy => activeGateway = command.gateway

\* Ready, unless a hello has yet to come.
ReadyHasSocket == ready => ws \in Socket

(***************************************************************************)
(* Type correctness                                                        *)
(***************************************************************************)

\* The FLTK thread's fields and queue.
ThreadsTypeOK ==
  /\ gui \in {"running", "enqueuing", "stopping", "joining", "gone"}
  /\ worker \in {"top", "waiting", "ensuring", "connecting", "hydrating",
                 "acting", "pumping", "ending", "done"}
  /\ commands \in Seq(Command)
  /\ closing \in BOOLEAN
  /\ command \in Command
  /\ activeGateway \in Url \cup {NoUrl}
  /\ status \in Status
  /\ pendingStatus \in Status \cup {NoStatus}
  /\ awake \in BOOLEAN

\* Clicks, callbacks and the shutdown keep the threads' types and the core.
LEMMA GuiTypeStep ==
  ASSUME DesktopTypeOK, GuiNext
  PROVE  DesktopTypeOK'
<1>0. Stop \in Command /\ Order \subseteq Command
  BY DEF Command
<1>1. CoreTypeOK'
  <2>1. UNCHANGED <<coreVars, gatewayVars>>
    BY DEF GuiNext, GuiStep, ClickConnect, EnqueueConnect, ClickSendOrAbort,
       AwakeCb, Shutdown, EnqueueStop, Joined
  <2> QED BY <2>1 DEF DesktopTypeOK, CoreTypeOK, coreVars, gatewayVars, wire,
             gateway, GatewayTypeOK
<1>2. UNCHANGED <<worker, command, activeGateway>>
  BY DEF GuiNext, GuiStep, ClickConnect, EnqueueConnect, ClickSendOrAbort,
     AwakeCb, Shutdown, EnqueueStop, Joined
<1>3. commands' \in Seq(Command)
  BY <1>0 DEF DesktopTypeOK, GuiNext, Enqueue, ClickConnect, EnqueueConnect,
     ClickSendOrAbort, AwakeCb, Shutdown, EnqueueStop, Joined, shared
<1>4. /\ gui' \in {"running", "enqueuing", "stopping", "joining", "gone"}
      /\ closing' \in BOOLEAN /\ awake' \in BOOLEAN
      /\ status' \in Status
      /\ pendingStatus' \in Status \cup {NoStatus}
  BY DEF DesktopTypeOK, GuiNext, SetStatus, ClickConnect, EnqueueConnect,
     ClickSendOrAbort, AwakeCb, Shutdown, EnqueueStop, Joined, shared, guiVars,
     Status
<1> QED BY <1>1, <1>2, <1>3, <1>4 DEF DesktopTypeOK

\* The worker's rounds keep the threads' types.
LEMMA WorkerThreadsType ==
  ASSUME ThreadsTypeOK, WorkerNext
  PROVE  ThreadsTypeOK'
<1> USE DEF ThreadsTypeOK, guiVars, workerVars, shared, Quiet
<1>0. Stop \in Command
  BY DEF Command
<1>1. CASE LoopTop \/ WorkerEnds
  BY <1>1 DEF LoopTop, WorkerEnds
<1>2. CASE TakeCommand
  <2>1. Head(commands) \in Command /\ Tail(commands) \in Seq(Command)
    BY <1>2 DEF TakeCommand
  <2> QED BY <1>2, <2>1 DEF TakeCommand
<1>3. CASE WaitTimesOut \/ ActConnect
  BY <1>0, <1>3 DEF WaitTimesOut, ActConnect, PumpOrTop
<1>4. CASE EnsureConnected
  <2>1. command.gateway \in Url \cup {NoUrl}
    BY DEF Command, Order, Stop
  <2> QED BY <1>4, <2>1 DEF EnsureConnected
<1>5. CASE \/ AnswerChallenge \/ StartHydrate \/ StartAct \/ SkipWhileCalling
           \/ HangsUp \/ ConnectGivesUp
  BY <1>5 DEF AnswerChallenge, StartHydrate, StartAct, SkipWhileCalling,
     HangsUp, ConnectGivesUp
<1>6. CASE ConnectOutcome
  BY <1>0, <1>6 DEF ConnectOutcome, SetStatus, Status, ConnectState
<1>7. CASE Hydrated
  BY <1>7 DEF Hydrated, AppendText
<1>8. CASE Acted
  BY <1>0, <1>8 DEF Acted, AppendText, SetStatus, PumpOrTop, Status
<1>9. CASE PumpEvent
  BY <1>9 DEF PumpEvent, AppendText
<1>10. CASE PumpBreaks \/ PumpBlocks \/ PumpEnds
  BY <1>10 DEF PumpBreaks, PumpBlocks, PumpEnds
<1> QED BY <1>1, <1>2, <1>3, <1>4, <1>5, <1>6, <1>7, <1>8, <1>9, <1>10
        DEF WorkerNext

\* Its calls keep the core client's.
LEMMA WorkerCoreType ==
  ASSUME GatewayAssumption, DesktopTypeOK, ReadyHasSocket, BusyOnCommand,
         WorkerNext
  PROVE  CoreTypeOK'
<1>0. CoreTypeOK /\ command \in Command
  BY DEF DesktopTypeOK
<1>1. CASE Idle
  BY <1>0, <1>1 DEF Idle, CoreTypeOK, coreVars, gatewayVars, wire, gateway,
     GatewayTypeOK
<1>2. CASE WorkerEnds
  BY <1>0, <1>2, CloseType DEF WorkerEnds
<1>3. CASE LoopTop \/ TakeCommand
  BY <1>1, <1>3 DEF LoopTop, TakeCommand
<1>4. CASE WaitTimesOut \/ ActConnect \/ PumpEnds
  BY <1>1, <1>4 DEF WaitTimesOut, ActConnect, PumpEnds
<1>5. CASE EnsureConnected
  <2>1. CASE AlreadyConnected
    BY <1>1, <1>5, <2>1 DEF EnsureConnected
  <2>2. CASE ~AlreadyConnected
    <3>1. PICK w \in Socket : Dial(w)
      BY <1>5, <2>2 DEF EnsureConnected
    <3> QED BY <1>0, <1>5, <2>2, <3>1, DialType DEF EnsureConnected
  <2> QED BY <2>1, <2>2
<1>6. CASE AnswerChallenge
  BY <1>0, <1>6, SendConnectType DEF AnswerChallenge
<1>7. CASE ConnectOutcome
  BY <1>0, <1>7, ConnectReturnsType DEF ConnectOutcome
<1>8. CASE StartHydrate \/ StartAct
  <2>1. PICK t \in {"history", "send", "abort"} : StartCall(t, command.session)
    BY <1>8 DEF StartHydrate, StartAct
  <2>2. command.session \in Session
    BY <1>0, GatewayAssumption DEF Command, Order, Stop, GatewayAssumption
  <2>3. ws \in Socket
    BY <2>1 DEF StartCall, ReadyHasSocket
  <2> QED BY <1>0, <2>1, <2>2, <2>3, StartCallType
<1>9. CASE Hydrated \/ Acted
  <2>1. PICK ok \in BOOLEAN : CallReturns(ok)
    BY <1>9 DEF Hydrated, Acted
  <2> QED BY <1>0, <2>1, CallReturnsType
<1>10. CASE SkipWhileCalling
  BY <1>0, <1>10, SkipEventType DEF SkipWhileCalling
<1>11. CASE PumpEvent
  BY <1>0, <1>11, PumpReadsType DEF PumpEvent
<1>12. CASE PumpBreaks
  BY <1>0, <1>12, PumpLosesLinkType DEF PumpBreaks
<1>13. CASE PumpBlocks
  BY <1>0, <1>13, PumpWaitsType DEF PumpBlocks
<1>14. CASE HangsUp
  BY <1>0, <1>14, HangUpType DEF HangsUp, Closings
<1>15. CASE ConnectGivesUp
  BY <1>0, <1>15, GiveUpType DEF ConnectGivesUp
<1> QED BY <1>2, <1>3, <1>4, <1>5, <1>6, <1>7, <1>8, <1>9, <1>10, <1>11, <1>12,
           <1>13, <1>14, <1>15
        DEF WorkerNext

(***************************************************************************)
(* One command at a time, for the Gateway it was clicked for               *)
(***************************************************************************)

\* Who calls, and for which Gateway, through every step.
LEMMA BusyStep ==
  ASSUME BusyOnCommand, [DesktopNext]_desktopVars
  PROVE  BusyOnCommand'
<1> USE DEF BusyOnCommand, Busy, Closings, workerVars
<1>1. CASE UNCHANGED <<workerVars, ready, call>>
  BY <1>1
<1>2. CASE GuiNext
  BY <1>1, <1>2 DEF GuiNext, GuiStep, ClickConnect, EnqueueConnect,
     ClickSendOrAbort, AwakeCb, Shutdown, EnqueueStop, Joined, coreVars
<1>3. CASE FarEnd \/ UNCHANGED desktopVars
  BY <1>1, <1>3 DEF FarEnd, desktopVars, coreVars
<1>4. CASE LoopTop \/ TakeCommand \/ WaitTimesOut \/ ActConnect \/ PumpEnds
  <2>1. call = "none" /\ call' = "none"
    BY <1>4 DEF LoopTop, TakeCommand, WaitTimesOut, ActConnect, PumpEnds,
       Idle, coreVars
  <2>2. worker' \notin Busy
    BY <1>4 DEF LoopTop, TakeCommand, WaitTimesOut, ActConnect, PumpEnds,
       PumpOrTop
  <2> QED BY <2>1, <2>2
<1>5. CASE EnsureConnected
  BY <1>5 DEF EnsureConnected, AlreadyConnected, Dial, Idle, coreVars
<1>6. CASE AnswerChallenge \/ StartHydrate \/ StartAct \/ SkipWhileCalling
  BY <1>6 DEF AnswerChallenge, StartHydrate, StartAct, SkipWhileCalling,
     SendConnect, StartCall, SkipEvent
<1>7. CASE ConnectOutcome \/ Hydrated \/ Acted
  BY <1>7 DEF ConnectOutcome, Hydrated, Acted, ConnectReturns, CallReturns,
     PumpOrTop
<1>8. CASE PumpEvent \/ PumpBreaks \/ PumpBlocks
  BY <1>8 DEF PumpEvent, PumpBreaks, PumpBlocks, PumpReads, PumpLosesLink,
     PumpWaits
<1>9. CASE HangsUp \/ WorkerEnds
  BY <1>9 DEF HangsUp, WorkerEnds, HangUp
<1>10. CASE ConnectGivesUp
  BY <1>10 DEF ConnectGivesUp, GiveUp, HangUp
<1> QED BY <1>2, <1>3, <1>4, <1>5, <1>6, <1>7, <1>8, <1>9, <1>10
        DEF DesktopNext, WorkerNext

\* A command goes to the Gateway that was in the field when it was clicked,
\* in whatever order clicks, commands and replies come.
THEOREM SentToChosenGatewayAlways == DesktopSpec => []SentToChosenGateway
<1>1. DesktopInit => BusyOnCommand
  BY DEF DesktopInit, CoreInit, BusyOnCommand, Busy, Closings
<1>2. BusyOnCommand /\ [DesktopNext]_desktopVars => BusyOnCommand'
  BY BusyStep
<1>3. BusyOnCommand => SentToChosenGateway
  BY DEF BusyOnCommand, SentToChosenGateway, Asks, Closings
<1> QED BY <1>1, <1>2, <1>3, PTL DEF DesktopSpec

(***************************************************************************)
(* Types and the hello, together                                           *)
(***************************************************************************)

\* What the worker does to the client leaves ready with a socket the Gateway
\* said hello on, and the helloes on the wire earned.
LEMMA WorkerHelloStep ==
  ASSUME CoreTypeOK, HelloIsEarned, ReadyMeansHello, WorkerNext
  PROVE  HelloIsEarned' /\ ReadyMeansHello'
<1>0. GatewayTypeOK
  BY DEF CoreTypeOK
<1>1. CASE UNCHANGED <<ws, ready, inbox, accepted>>
  BY <1>1 DEF HelloIsEarned, ReadyMeansHello
<1>2. CASE Close /\ accepted' = accepted
  BY <1>0, <1>2, ClearEarned DEF Close, ReadyMeansHello
<1>3. CASE Arrived /\ Consume /\ UNCHANGED <<ws, ready, accepted>>
  BY <1>0, <1>3, ConsumeEarned DEF ReadyMeansHello
<1>4. CASE LoopTop \/ TakeCommand
  BY <1>1, <1>4 DEF LoopTop, TakeCommand, Idle, coreVars, gatewayVars, wire,
     gateway
<1>5. CASE WaitTimesOut \/ ActConnect \/ PumpEnds
  BY <1>1, <1>5 DEF WaitTimesOut, ActConnect, PumpEnds, Idle, coreVars,
     gatewayVars, wire, gateway
<1>6. CASE EnsureConnected
  <2>1. CASE AlreadyConnected
    BY <1>1, <1>6, <2>1 DEF EnsureConnected, Idle, coreVars, gatewayVars, wire,
       gateway
  <2>2. CASE ~AlreadyConnected
    <3>1. PICK w \in Socket : Dial(w)
      BY <1>6, <2>2 DEF EnsureConnected
    <3>2. accepted' = accepted
      BY <1>6, <2>2 DEF EnsureConnected, gateway
    <3> QED BY <1>0, <3>1, <3>2, ClearEarned DEF Dial, ReadyMeansHello
  <2> QED BY <2>1, <2>2
<1>7. CASE AnswerChallenge
  BY <1>3, <1>7 DEF AnswerChallenge, SendConnect, gateway
<1>8. CASE ConnectOutcome
  <2>1. PICK state \in ConnectState : ConnectReturns(state)
    BY <1>8 DEF ConnectOutcome
  <2>2. ReadyMeansHello'
    BY <2>1, ConnectReturnsHello
  <2>3. accepted' = accepted
    BY <2>1 DEF ConnectReturns, gateway
  <2>4. CASE Close
    BY <1>2, <2>2, <2>3, <2>4
  <2>5. CASE Arrived /\ Consume
    BY <1>0, <2>2, <2>3, <2>5, ConsumeEarned
  <2>6. Close \/ (Arrived /\ Consume)
    BY <2>1 DEF ConnectReturns, ConnectState, Connected, PairingRequired,
       Failed
  <2> QED BY <2>2, <2>4, <2>5, <2>6
<1>9. CASE StartHydrate \/ StartAct \/ PumpBlocks
  BY <1>1, <1>9 DEF StartHydrate, StartAct, StartCall, PumpBlocks, PumpWaits,
     gatewayVars, wire, gateway
<1>10. CASE Hydrated \/ Acted
  <2>1. PICK ok \in BOOLEAN : CallReturns(ok)
    BY <1>10 DEF Hydrated, Acted
  <2> QED BY <1>1, <1>3, <2>1 DEF CallReturns, Replied, Broke, gateway
<1>11. CASE SkipWhileCalling
  BY <1>3, <1>11 DEF SkipWhileCalling, SkipEvent, gateway
<1>12. CASE PumpEvent
  BY <1>3, <1>12 DEF PumpEvent, PumpReads, gateway
<1>13. CASE PumpBreaks
  BY <1>13 DEF PumpBreaks, PumpLosesLink, gateway, ReadyMeansHello,
     HelloIsEarned
<1>14. CASE WorkerEnds
  BY <1>2, <1>14 DEF WorkerEnds, gateway
<1>15. CASE HangsUp \/ ConnectGivesUp
  BY <1>15, HangUpHello
     DEF HangsUp, ConnectGivesUp, GiveUp, HangUp, HelloIsEarned, gateway
<1> QED BY <1>4, <1>5, <1>6, <1>7, <1>8, <1>9, <1>10, <1>11, <1>12, <1>13,
           <1>14, <1>15
        DEF WorkerNext

\* The inductive invariant of the program.
DesktopInv ==
  /\ DesktopTypeOK
  /\ BusyOnCommand
  /\ HelloIsEarned
  /\ ReadyMeansHello

\* It holds at the start.
LEMMA DesktopInvInit ==
  ASSUME GatewayAssumption, CoreAssumption, DesktopAssumption, DesktopInit
  PROVE  DesktopInv
<1>1. GatewayTypeOK /\ HelloIsEarned
  BY GatewayTypeInit DEF DesktopInit, GatewayInit, HelloIsEarned
<1>2. CoreTypeOK
  BY <1>1 DEF DesktopInit, CoreInit, CoreTypeOK
<1>3. DesktopTypeOK
  <2>1. commands \in Seq(Command) /\ command \in Command
    BY DEF DesktopInit, Command
  <2> QED BY <1>2, <2>1 DEF DesktopInit, DesktopTypeOK, Status
<1>4. BusyOnCommand /\ ReadyMeansHello
  BY DEF DesktopInit, CoreInit, BusyOnCommand, Busy, Closings,
     ReadyMeansHello
<1> QED BY <1>1, <1>3, <1>4 DEF DesktopInv

\* Every step of either thread or of the Gateway keeps it.
LEMMA DesktopInvStep ==
  ASSUME GatewayAssumption, DesktopInv, [DesktopNext]_desktopVars
  PROVE  DesktopInv'
<1> USE DEF DesktopInv
<1>0. BusyOnCommand'
  BY BusyStep
<1>1. CoreTypeOK /\ GatewayTypeOK /\ ThreadsTypeOK
  BY DEF DesktopTypeOK, CoreTypeOK, ThreadsTypeOK
<1>2. CASE UNCHANGED desktopVars
  BY <1>0, <1>2 DEF DesktopTypeOK, CoreTypeOK, GatewayTypeOK, HelloIsEarned,
     ReadyMeansHello, desktopVars, guiVars, workerVars, shared, coreVars,
     gatewayVars, wire, gateway
<1>3. CASE GuiNext
  <2>1. UNCHANGED <<coreVars, gatewayVars>>
    BY <1>3 DEF GuiNext, GuiStep, ClickConnect, EnqueueConnect,
       ClickSendOrAbort, AwakeCb, Shutdown, EnqueueStop, Joined
  <2>2. HelloIsEarned' /\ ReadyMeansHello'
    BY <2>1 DEF HelloIsEarned, ReadyMeansHello, coreVars, gatewayVars, wire,
       gateway
  <2> QED BY <1>0, <1>3, <2>2, GuiTypeStep
<1>4. CASE WorkerNext
  <2>1. ReadyHasSocket
    BY <1>1 DEF ReadyHasSocket, ReadyMeansHello, GatewayTypeOK
  <2>2. CoreTypeOK' /\ ThreadsTypeOK'
    BY <1>1, <1>4, <2>1, WorkerCoreType, WorkerThreadsType
  <2>3. HelloIsEarned' /\ ReadyMeansHello'
    BY <1>1, <1>4, WorkerHelloStep
  <2> QED BY <1>0, <2>2, <2>3 DEF DesktopTypeOK, ThreadsTypeOK
<1>5. CASE FarEnd
  <2>1. GatewayTypeOK' /\ HelloIsEarned' /\ accepted \subseteq accepted'
    <3>1. CASE GatewayNext
      BY <1>1, <3>1, GatewayTypeStep, GatewayHelloStep, AcceptedGrows
    <3>2. CASE FarEndCloses
      BY <1>1, <3>2, FarEndClosesType DEF FarEndCloses, HelloIsEarned, gateway
    <3> QED BY <1>5, <3>1, <3>2 DEF FarEnd
  <2>2. UNCHANGED <<guiVars, workerVars, shared, coreVars>>
    BY <1>5 DEF FarEnd
  <2>3. DesktopTypeOK'
    BY <2>1, <2>2 DEF DesktopTypeOK, CoreTypeOK, guiVars, workerVars, shared,
       coreVars
  <2>4. ReadyMeansHello'
    BY <2>1, <2>2 DEF ReadyMeansHello, coreVars
  <2> QED BY <1>0, <2>1, <2>3, <2>4
<1> QED BY <1>2, <1>3, <1>4, <1>5 DEF DesktopNext

\* So it holds throughout.
LEMMA DesktopInvAlways == DesktopSpec => []DesktopInv
<1>1. DesktopInit => DesktopInv
  BY DesktopInvInit, GatewayAssumption, CoreAssumption, DesktopAssumption
<1>2. DesktopInv /\ [DesktopNext]_desktopVars => DesktopInv'
  BY DesktopInvStep, GatewayAssumption
<1> QED BY <1>1, <1>2, PTL DEF DesktopSpec

\* Whatever the user clicks and the Gateway sends, the threads' fields, the
\* queue and the client keep their types, and no call reads without a socket.
THEOREM DesktopTypeCorrect == DesktopSpec => []DesktopTypeOK
<1>1. DesktopInv => DesktopTypeOK
  BY DEF DesktopInv
<1> QED BY <1>1, DesktopInvAlways, PTL

\* The flag that write() and pump() go by never outlives its connection, nor
\* comes before its hello.
THEOREM ReadyMeansHelloAlways == DesktopSpec => []ReadyMeansHello
<1>1. DesktopInv => ReadyMeansHello
  BY DEF DesktopInv
<1> QED BY <1>1, DesktopInvAlways, PTL

(***************************************************************************)
(* The end of the worker                                                   *)
(***************************************************************************)

\* A window that waits for the worker's end has left Stop behind all other
\* commands, or the worker is at its end; and it is there only if told to.
AtEnd == worker \in {"ending", "done"}
JoinIsAnswered ==
  /\ gui = "joining" /\ ~AtEnd =>
       commands # <<>> /\ commands[Len(commands)].type = "stop"
  /\ AtEnd => closing

\* Only shutdown() stops: the flag comes first, then the command.
StopIsAsked ==
  /\ gui \in {"stopping", "joining", "gone"} => closing
  /\ \A i \in DOMAIN commands : commands[i].type = "stop" => closing

\* What is clicked is behind what was, and stops nothing.
LEMMA EnqueueOrder ==
  ASSUME DesktopTypeOK, NEW c \in Command, commands' = Append(commands, c)
  PROVE  /\ commands' # <<>> /\ commands'[Len(commands')] = c
         /\ \A i \in DOMAIN commands' :
              \/ i \in DOMAIN commands /\ commands'[i] = commands[i]
              \/ commands'[i] = c
<1>1. commands \in Seq(Command)
  BY DEF DesktopTypeOK
<1> QED BY <1>1

\* Taking the oldest of several leaves the last where it is.
LEMMA LastStays ==
  ASSUME NEW S, NEW q \in Seq(S), q # <<>>
  PROVE  \/ Tail(q) # <<>> /\ Tail(q)[Len(Tail(q))] = q[Len(q)]
         \/ q[Len(q)] = Head(q)
<1>1. PICK n \in Nat : n = Len(q)
  OBVIOUS
<1>2. n # 0
  BY <1>1
<1>3. Tail(q) \in Seq(S) /\ Len(Tail(q)) = n - 1
  BY <1>1, <1>2
<1>4. CASE n = 1
  BY <1>1, <1>4
<1>5. CASE n # 1
  <2>1. Tail(q)[n - 1] = q[n]
    BY <1>1, <1>2, <1>5
  <2>2. Tail(q) # <<>>
    <3>1. Len(<<>>) = 0
      OBVIOUS
    <3>2. n - 1 # 0
      BY <1>5
    <3> QED BY <1>3, <3>1, <3>2
  <2> QED BY <1>1, <1>3, <2>1, <2>2
<1> QED BY <1>4, <1>5

\* Every step leaves the wait of shutdown() one that Stop will end.
LEMMA JoinStep ==
  ASSUME DesktopTypeOK, JoinIsAnswered, StopIsAsked,
         [DesktopNext]_desktopVars
  PROVE  JoinIsAnswered' /\ StopIsAsked'
<1> USE DEF JoinIsAnswered, StopIsAsked, AtEnd
<1>1. CASE ClickConnect \/ AwakeCb \/ Shutdown \/ Joined
  BY <1>1 DEF ClickConnect, AwakeCb, Shutdown, Joined, shared, GuiStep
<1>2. CASE EnqueueConnect \/ ClickSendOrAbort
  <2>1. PICK c \in Order : commands' = Append(commands, c)
    BY <1>2 DEF EnqueueConnect, ClickSendOrAbort, Enqueue
  <2>2. c \in Command /\ c.type # "stop"
    BY <2>1 DEF Command, Order
  <2>3. \A i \in DOMAIN commands' : commands'[i].type = "stop" => closing
    BY <2>1, <2>2, EnqueueOrder
  <2>4. UNCHANGED <<worker, closing>> /\ gui' \in {gui, "running"}
        /\ gui # "joining"
    BY <1>2 DEF EnqueueConnect, ClickSendOrAbort, MayClick, GuiStep, guiVars
  <2> QED BY <2>3, <2>4
<1>3. CASE EnqueueStop
  <2>1. /\ commands' = Append(commands, Stop) /\ Stop \in Command
        /\ Stop.type = "stop" /\ closing /\ UNCHANGED <<worker, closing>>
    BY <1>3 DEF EnqueueStop, GuiStep, Command, Stop
  <2>2. commands' # <<>> /\ commands'[Len(commands')] = Stop
    BY <2>1, EnqueueOrder
  <2> QED BY <2>1, <2>2
<1>4. CASE TakeCommand
  <2>1. /\ commands \in Seq(Command) /\ commands # <<>>
        /\ commands' = Tail(commands) /\ UNCHANGED guiVars
        /\ Head(commands).type = "stop" => worker' = "ending"
        /\ Head(commands).type # "stop" => worker' = "ensuring"
    BY <1>4 DEF TakeCommand, DesktopTypeOK
  <2>2. /\ 1 \in DOMAIN commands /\ Head(commands) = commands[1]
        /\ \A i \in DOMAIN commands' :
             i + 1 \in DOMAIN commands /\ commands'[i] = commands[i + 1]
    BY <2>1
  <2>3. commands[Len(commands)].type = "stop" /\ Head(commands).type # "stop"
          => commands' # <<>> /\ commands'[Len(commands')].type = "stop"
    BY <2>1, LastStays
  <2>4. UNCHANGED <<gui, closing>> /\ ~AtEnd
    BY <1>4, <2>1 DEF TakeCommand, guiVars
  <2>5. Head(commands).type = "stop" => closing
    BY <2>2
  <2>6. \A i \in DOMAIN commands' : commands'[i].type = "stop" => closing
    BY <2>2
  <2>7. JoinIsAnswered'
    BY <2>1, <2>3, <2>4, <2>5
  <2> QED BY <2>4, <2>6, <2>7
<1>5. CASE LoopTop
  BY <1>5 DEF LoopTop, guiVars, shared
<1>6. CASE UNCHANGED <<gui, closing, commands, worker>>
  BY <1>6
<1>7. CASE HangsUp \/ WorkerEnds
  BY <1>7 DEF HangsUp, WorkerEnds, guiVars, workerVars, shared
<1>8. CASE /\ WorkerNext
           /\ ~(TakeCommand \/ LoopTop \/ HangsUp \/ WorkerEnds)
  <2>1. UNCHANGED <<gui, closing, commands>> /\ ~AtEnd' /\ ~AtEnd
    BY <1>8 DEF WorkerNext, WaitTimesOut, EnsureConnected, AnswerChallenge,
       ConnectGivesUp, ConnectOutcome, StartHydrate, Hydrated, ActConnect,
       StartAct, Acted, SkipWhileCalling, PumpEvent, PumpBreaks, PumpBlocks, PumpEnds,
       PumpOrTop, SetStatus, AppendText, guiVars, shared, workerVars
  <2> QED BY <2>1
<1> QED BY <1>1, <1>2, <1>3, <1>4, <1>5, <1>6, <1>7, <1>8
        DEF DesktopNext, GuiNext, FarEnd, desktopVars, guiVars, workerVars,
            shared

\* shutdown() never waits for a worker that nothing tells to end: until it
\* is at its end, Stop stands last in the queue, whatever was clicked before.
THEOREM JoinIsAnsweredAlways == DesktopSpec => []JoinIsAnswered
<1>1. DesktopInit => JoinIsAnswered /\ StopIsAsked
  BY DEF DesktopInit, JoinIsAnswered, StopIsAsked, AtEnd
<1>2. DesktopTypeOK /\ JoinIsAnswered /\ StopIsAsked
        /\ [DesktopNext]_desktopVars => JoinIsAnswered' /\ StopIsAsked'
  BY JoinStep
<1> QED BY <1>1, <1>2, DesktopTypeCorrect, PTL DEF DesktopSpec
=============================================================================
