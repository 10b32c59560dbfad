---------------------------- MODULE ShellProofs ----------------------------
(***************************************************************************)
(* Theorems of Shell, for any sockets, sessions and runs and any bounds on *)
(* attempts, queues and numbers.                                           *)
(***************************************************************************)
EXTENDS Shell, CoreClientProofs

\* Which call is made from where, what the client must be there, and what
\* is left of the attempts.
Control ==
  /\ call \in {"challenge", "hello"} => at = "connecting"
  /\ call = "history" => at = "hydrating"
  /\ call = "abort" => at = "aborting"
  /\ call = "send" => at = "sending"
  /\ call = "event" => at = "pumping"
  /\ call \in Closings => at \in {"dialing", "connecting", "closing", "leaving"}
  /\ at \in {"hydrating", "aborting", "sending", "pumping"} => ready
  /\ at \in {"dialing", "connecting", "hydrating", "closing"}
       => attempts < MaxAttempts

(***************************************************************************)
(* Types and control                                                       *)
(***************************************************************************)

\* Where the program is and why, and how often it has tried.
PlaceTypeOK ==
  /\ at \in {"dialing", "connecting", "hydrating", "closing", "sleeping",
             "prompt", "aborting", "sending", "pumping", "checking",
             "leaving", "gone"}
  /\ purpose \in {"open", "send", "recover", "none"}
  /\ attempts \in 0 .. MaxAttempts

\* One more attempt stays within the loop's bound.
LEMMA AttemptBound ==
  ASSUME ShellAssumption, attempts \in 0 .. MaxAttempts,
         attempts < MaxAttempts
  PROVE  attempts + 1 \in 0 .. MaxAttempts
BY DEF ShellAssumption

\* Every step of the program or its user leads from place to place.
LEMMA PlaceTypeStep ==
  ASSUME ShellAssumption, PlaceTypeOK, Control, ShellNext \/ UserNext
  PROVE  PlaceTypeOK'
<1> USE DEF PlaceTypeOK, GoOn, Exit, control
<1>0. 0 \in 0 .. MaxAttempts
  BY DEF ShellAssumption
<1>1. ASSUME FailAttempt, attempts < MaxAttempts
      PROVE  PlaceTypeOK'
  <2>1. attempts' \in 0 .. MaxAttempts
    BY <1>1, AttemptBound DEF FailAttempt
  <2> QED BY <1>1, <2>1 DEF FailAttempt
<1>2. ASSUME Prompt
      PROVE  PlaceTypeOK'
  BY <1>0, <1>2 DEF Prompt
<1>3. ASSUME NEW why \in {"send", "recover"}, Reconnect(why)
      PROVE  PlaceTypeOK'
  BY <1>0, <1>3 DEF Reconnect
<1>4. ASSUME NEW next \in {"connecting", "hydrating", "closing", "dialing",
                           "aborting", "sending", "pumping", "checking",
                           "leaving", "gone"},
             GoOn(next)
      PROVE  PlaceTypeOK'
  BY <1>4
<1>5. CASE UNCHANGED control
  BY <1>5
<1>6. CASE Dials \/ Pause \/ PumpBreaks \/ PumpEnds \/ Leave \/ Quit
  BY <1>4, <1>6 DEF Dials, Pause, PumpBreaks, PumpEnds, Leave, Quit
<1>7. CASE NoRoute \/ CloseFailed
  BY <1>1, <1>4, <1>7 DEF NoRoute, CloseFailed, Failure, Control
<1>8. CASE ConnectOutcome
  BY <1>1, <1>2, <1>4, <1>8 DEF ConnectOutcome, Failure, Control, ConnectState
<1>9. CASE Hydrated
  BY <1>2, <1>4, <1>9 DEF Hydrated, Loaded
<1>10. CASE Sleeps
  BY <1>2, <1>4, <1>10 DEF Sleeps
<1>11. CASE Aborted
  BY <1>2, <1>11 DEF Aborted
<1>12. CASE Message
  <2>1. CASE ready
    BY <1>12, <2>1 DEF Message
  <2>2. CASE ~ready
    BY <1>3, <1>12, <2>2 DEF Message
  <2> QED BY <2>1, <2>2
<1>13. CASE Sent
  BY <1>4, <1>13 DEF Sent
<1>14. CASE Check
  BY <1>2, <1>3, <1>14 DEF Check
<1>15. CASE \/ AnswerChallenge \/ StartHydrate \/ StartSend
            \/ SkipWhileCalling \/ PumpEvent \/ PumpBlocks
            \/ HangsUp \/ ConnectGivesUp
  BY <1>5, <1>15 DEF AnswerChallenge, StartHydrate, StartSend,
     SkipWhileCalling, PumpEvent, PumpBlocks, HangsUp, ConnectGivesUp
<1> QED BY <1>6, <1>7, <1>8, <1>9, <1>10, <1>11, <1>12, <1>13, <1>14, <1>15
        DEF ShellNext, UserNext

\* So it stays where its calls belong.
LEMMA ControlStep ==
  ASSUME ShellAssumption, PlaceTypeOK, Control, ShellNext \/ UserNext
  PROVE  Control'
<1> USE DEF Control, Closings, GoOn, Exit, control, coreVars
<1>0. 0 < MaxAttempts
  BY DEF ShellAssumption
<1>1. CASE Dials
  BY <1>1 DEF Dials, Dial
<1>2. CASE NoRoute \/ CloseFailed \/ Leave
  BY <1>2 DEF NoRoute, CloseFailed, Leave, ClosedOnly, Close, Failure,
     FailAttempt
<1>3. CASE AnswerChallenge
  BY <1>3 DEF AnswerChallenge, SendConnect
<1>4. CASE ConnectOutcome
  <2>1. PICK state \in ConnectState :
          /\ ConnectReturns(state)
          /\ CASE state = "Connected" -> GoOn("hydrating")
               [] state = "Failed" -> Failure
               [] OTHER -> IF purpose = "open" THEN Exit ELSE Prompt
    BY <1>4 DEF ConnectOutcome
  <2>2. call' = "none"
    BY <2>1 DEF ConnectReturns
  <2>3. CASE state = "Connected"
    <3>1. ready' /\ GoOn("hydrating")
      BY <2>1, <2>3 DEF ConnectReturns, Connected
    <3> QED BY <1>4, <2>2, <3>1 DEF ConnectOutcome
  <2>4. CASE state # "Connected"
    <3>1. at' \in {"sleeping", "leaving", "prompt"}
      BY <2>1, <2>4 DEF Failure, FailAttempt, Prompt, ConnectState
    <3> QED BY <2>2, <3>1
  <2> QED BY <2>3, <2>4
<1>5. CASE StartHydrate \/ StartSend
  BY <1>5 DEF StartHydrate, StartSend, StartCall
<1>6. CASE Hydrated
  <2>1. PICK ok \in BOOLEAN :
          /\ CallReturns(ok)
          /\ IF ok THEN Loaded
             ELSE IF purpose = "open" THEN Exit ELSE GoOn("closing")
    BY <1>6 DEF Hydrated
  <2>2. call' = "none" /\ ready' = ready /\ ready /\ attempts < MaxAttempts
    BY <1>6, <2>1 DEF Hydrated, CallReturns, Replied, Broke
  <2>3. \/ at' \in {"sending", "leaving", "prompt"}
        \/ at' = "closing" /\ attempts' = attempts
    BY <2>1 DEF Loaded, Prompt
  <2> QED BY <2>2, <2>3
<1>7. CASE Sleeps
  BY <1>7 DEF Sleeps, Prompt, Idle
<1>8. CASE Pause
  BY <1>8 DEF Pause, StartCall
<1>9. CASE Aborted \/ Sent
  BY <1>9 DEF Aborted, Sent, Prompt, CallReturns, Replied, Broke
<1>10. CASE Message
  <2>1. /\ call' = call /\ ready' = ready
        /\ call \notin {"challenge", "hello", "history", "abort", "send",
                       "event", "close", "closePairing"}
    BY <1>10 DEF Message, Idle
  <2> QED BY <1>0, <1>10, <2>1 DEF Message, Reconnect
<1>11. CASE SkipWhileCalling
  BY <1>11 DEF SkipWhileCalling, SkipEvent
<1>12. CASE PumpEvent \/ PumpBlocks \/ PumpBreaks
  BY <1>12 DEF PumpEvent, PumpBlocks, PumpBreaks, PumpReads, PumpWaits,
     PumpLosesLink
<1>13. CASE PumpEnds \/ Quit
  BY <1>13 DEF PumpEnds, Quit, Idle
<1>14. CASE Check
  BY <1>0, <1>14 DEF Check, Reconnect, Prompt, Idle
<1>15. CASE HangsUp
  BY <1>15 DEF HangsUp, HangUp
<1>16. CASE ConnectGivesUp
  BY <1>16 DEF ConnectGivesUp, GiveUp, HangUp
<1> QED BY <1>1, <1>2, <1>3, <1>4, <1>5, <1>6, <1>7, <1>8, <1>9, <1>10, <1>11,
           <1>12, <1>13, <1>14, <1>15, <1>16
        DEF ShellNext, UserNext

\* Its calls keep the core client's types.
LEMMA ShellCoreType ==
  ASSUME GatewayAssumption, CoreTypeOK, ReadyMeansHello, Control,
         ShellNext \/ UserNext
  PROVE  CoreTypeOK'
<1>1. CASE Idle
  BY <1>1 DEF Idle, CoreTypeOK, coreVars, gatewayVars, wire, gateway,
     GatewayTypeOK
<1>2. CASE ClosedOnly
  BY <1>2, CloseType DEF ClosedOnly
<1>3. CASE NoRoute \/ CloseFailed \/ Leave
  BY <1>2, <1>3 DEF NoRoute, CloseFailed, Leave
<1>4. CASE Sleeps \/ Message \/ PumpEnds \/ Check \/ Quit
  BY <1>1, <1>4 DEF Sleeps, Message, PumpEnds, Check, Quit
<1>5. CASE Dials
  <2>1. PICK w \in Socket : Dial(w)
    BY <1>5 DEF Dials
  <2>2. /\ needsRecovery' \in BOOLEAN /\ lastOuter' \in Nat \cup {NoSeq}
        /\ skipped' \in SUBSET Nat
    BY <1>5 DEF Dials, CoreTypeOK
  <2> QED BY <1>5, <2>1, <2>2, DialType DEF Dials
<1>6. CASE AnswerChallenge
  BY <1>6, SendConnectType DEF AnswerChallenge
<1>7. CASE ConnectOutcome
  BY <1>7, ConnectReturnsType DEF ConnectOutcome
<1>8. CASE StartHydrate \/ StartSend \/ Pause
  <2>1. PICK t \in {"history", "send", "abort"} : StartCall(t, MainSession)
    BY <1>8 DEF StartHydrate, StartSend, Pause
  <2>2. MainSession \in Session
    BY DEF GatewayAssumption
  <2>3. ws \in Socket
    BY <2>1 DEF StartCall, ReadyMeansHello, CoreTypeOK, GatewayTypeOK
  <2> QED BY <2>1, <2>2, <2>3, StartCallType
<1>9. CASE Hydrated \/ Aborted \/ Sent
  <2>1. PICK ok \in BOOLEAN : CallReturns(ok)
    BY <1>9 DEF Hydrated, Aborted, Sent
  <2> QED BY <2>1, CallReturnsType
<1>10. CASE SkipWhileCalling
  BY <1>10, SkipEventType DEF SkipWhileCalling
<1>11. CASE PumpEvent
  BY <1>11, PumpReadsType DEF PumpEvent
<1>12. CASE PumpBlocks
  BY <1>12, PumpWaitsType DEF PumpBlocks
<1>13. CASE PumpBreaks
  BY <1>13, PumpLosesLinkType DEF PumpBreaks
<1>14. CASE HangsUp
  BY <1>14, HangUpType DEF HangsUp, Closings
<1>15. CASE ConnectGivesUp
  BY <1>15, GiveUpType DEF ConnectGivesUp
<1> QED BY <1>3, <1>4, <1>5, <1>6, <1>7, <1>8, <1>9, <1>10, <1>11, <1>12, <1>13,
           <1>14, <1>15
        DEF ShellNext, UserNext

\* And leave ready with a socket the Gateway said hello on.
LEMMA ShellHelloStep ==
  ASSUME CoreTypeOK, HelloIsEarned, ReadyMeansHello, ShellNext \/ UserNext
  PROVE  HelloIsEarned' /\ ReadyMeansHello'
<1>0. GatewayTypeOK
  BY DEF CoreTypeOK
<1>1. CASE UNCHANGED <<ws, ready, inbox, accepted>>
  BY <1>1 DEF HelloIsEarned, ReadyMeansHello
<1>2. CASE Close /\ accepted' = accepted
  BY <1>0, <1>2, ClearEarned DEF Close, ReadyMeansHello
<1>3. CASE Arrived /\ Consume /\ UNCHANGED <<ws, ready, accepted>>
  BY <1>0, <1>3, ConsumeEarned DEF ReadyMeansHello
<1>4. CASE NoRoute \/ CloseFailed \/ Leave
  BY <1>2, <1>4 DEF NoRoute, CloseFailed, Leave, ClosedOnly, gateway
<1>5. CASE Sleeps \/ Message \/ PumpEnds \/ Check \/ Quit
  BY <1>1, <1>5 DEF Sleeps, Message, PumpEnds, Check, Quit, Idle, coreVars,
     gatewayVars, wire, gateway
<1>6. CASE Dials
  <2>1. PICK w \in Socket : Dial(w)
    BY <1>6 DEF Dials
  <2>2. accepted' = accepted
    BY <1>6 DEF Dials, gateway
  <2> QED BY <1>0, <2>1, <2>2, ClearEarned DEF Dial, ReadyMeansHello
<1>7. CASE AnswerChallenge
  BY <1>3, <1>7 DEF AnswerChallenge, SendConnect, gateway
<1>8. CASE ConnectOutcome
  <2>1. PICK state \in ConnectState : ConnectReturns(state)
    BY <1>8 DEF ConnectOutcome
  <2>2. ReadyMeansHello'
    BY <2>1, ConnectReturnsHello
  <2>3. accepted' = accepted
    BY <2>1 DEF ConnectReturns, gateway
  <2>4. CASE Close
    BY <1>2, <2>2, <2>3, <2>4
  <2>5. CASE Arrived /\ Consume
    BY <1>0, <2>2, <2>3, <2>5, ConsumeEarned
  <2>6. Close \/ (Arrived /\ Consume)
    BY <2>1 DEF ConnectReturns, ConnectState, Connected, PairingRequired,
       Failed
  <2> QED BY <2>2, <2>4, <2>5, <2>6
<1>9. CASE StartHydrate \/ StartSend \/ Pause \/ PumpBlocks
  BY <1>1, <1>9 DEF StartHydrate, StartSend, Pause, StartCall, PumpBlocks,
     PumpWaits, gatewayVars, wire, gateway
<1>10. CASE Hydrated \/ Aborted \/ Sent
  <2>1. PICK ok \in BOOLEAN : CallReturns(ok)
    BY <1>10 DEF Hydrated, Aborted, Sent
  <2> QED BY <1>1, <1>3, <2>1 DEF CallReturns, Replied, Broke, gateway
<1>11. CASE SkipWhileCalling
  BY <1>3, <1>11 DEF SkipWhileCalling, SkipEvent, gateway
<1>12. CASE PumpEvent
  BY <1>3, <1>12 DEF PumpEvent, PumpReads, gateway
<1>13. CASE PumpBreaks
  BY <1>13 DEF PumpBreaks, PumpLosesLink, gateway, ReadyMeansHello,
     HelloIsEarned
<1>14. CASE HangsUp \/ ConnectGivesUp
  BY <1>14, HangUpHello
     DEF HangsUp, ConnectGivesUp, GiveUp, HangUp, HelloIsEarned, gateway
<1> QED BY <1>4, <1>5, <1>6, <1>7, <1>8, <1>9, <1>10, <1>11, <1>12, <1>13,
           <1>14
        DEF ShellNext, UserNext

\* The inductive invariant of the program.
ShellInv ==
  /\ PlaceTypeOK
  /\ CoreTypeOK
  /\ Control
  /\ HelloIsEarned
  /\ ReadyMeansHello

\* It holds throughout.
LEMMA ShellInvAlways == ShellSpec => []ShellInv
<1> USE GatewayAssumption, CoreAssumption, ShellAssumption DEF ShellInv
<1>1. ShellInit => ShellInv
  <2> SUFFICES ASSUME ShellInit PROVE ShellInv
    OBVIOUS
  <2>1. GatewayTypeOK /\ HelloIsEarned
    BY GatewayTypeInit DEF ShellInit, GatewayInit, HelloIsEarned
  <2>2. CoreTypeOK
    BY <2>1 DEF ShellInit, CoreInit, CoreTypeOK
  <2>3. PlaceTypeOK /\ Control
    BY DEF ShellInit, CoreInit, PlaceTypeOK, Control, ShellAssumption,
       Closings
  <2>4. ReadyMeansHello
    BY DEF ShellInit, CoreInit, ReadyMeansHello
  <2> QED BY <2>1, <2>2, <2>3, <2>4
<1>2. ShellInv /\ [Next]_shellVars => ShellInv'
  <2> SUFFICES ASSUME ShellInv, [Next]_shellVars PROVE ShellInv'
    OBVIOUS
  <2>1. CASE ShellNext \/ UserNext
    BY <2>1, PlaceTypeStep, ControlStep, ShellCoreType, ShellHelloStep
  <2>2. CASE FarEnd
    <3>1. GatewayTypeOK' /\ HelloIsEarned' /\ accepted \subseteq accepted'
      <4>1. CASE GatewayNext
        BY <4>1, GatewayTypeStep, GatewayHelloStep, AcceptedGrows
           DEF CoreTypeOK
      <4>2. CASE FarEndCloses
        BY <4>2, FarEndClosesType
           DEF FarEndCloses, HelloIsEarned, gateway, CoreTypeOK
      <4> QED BY <2>2, <4>1, <4>2 DEF FarEnd
    <3>2. UNCHANGED <<control, coreVars>>
      BY <2>2 DEF FarEnd
    <3>3. PlaceTypeOK' /\ Control'
      BY <3>2 DEF PlaceTypeOK, Control, control, coreVars
    <3>4. CoreTypeOK' /\ ReadyMeansHello'
      BY <3>1, <3>2 DEF CoreTypeOK, ReadyMeansHello, coreVars
    <3> QED BY <3>1, <3>3, <3>4
  <2>3. CASE UNCHANGED shellVars
    BY <2>3 DEF shellVars, control, coreVars, gatewayVars, wire, gateway,
       PlaceTypeOK, Control, CoreTypeOK, GatewayTypeOK, HelloIsEarned,
       ReadyMeansHello
  <2> QED BY <2>1, <2>2, <2>3 DEF Next
<1> QED BY <1>1, <1>2, PTL DEF ShellSpec

\* Through every failure the program is somewhere its code knows of, its
\* attempts within their bound; and it calls send_chat() only with a
\* connection, so that none of its own checks can end the program.
THEOREM ShellTypeCorrect == ShellSpec => []ShellTypeOK
<1>1. ShellInv => ShellTypeOK
  BY DEF ShellInv, ShellTypeOK, PlaceTypeOK, Control
<1> QED BY <1>1, ShellInvAlways, PTL

\* In the shell, too, ready means that the Gateway said hello on the socket
\* the client would write to.
THEOREM ShellReadyMeansHello == ShellSpec => []ReadyMeansHello
<1>1. ShellInv => ReadyMeansHello
  BY DEF ShellInv
<1> QED BY <1>1, ShellInvAlways, PTL

(***************************************************************************)
(* One call at a time                                                      *)
(***************************************************************************)

\* The Gateway may yet read what this socket carries.
Live(w) == sock[w] \in {"unused", "opening", "open"}

Replies(queue) == {i \in DOMAIN queue : queue[i].type \in ReplyType}

\* Nothing asked is unanswered, no answer unread.
Silent ==
  \A w \in Socket :
    /\ Live(w) => outbox[w] = <<>>
    /\ Replies(inbox[w]) = {}

\* The request of the call in progress.
Asked == [type |-> IF call = "hello" THEN "connect" ELSE call,
          session |-> MainSession]

\* Only the call in progress has a request or a reply under way, and one of
\* the two, or is the close() that throws it away; and the answer to a reload
\* is an error or comes with the subscription.
OneCall ==
  \A w \in Socket :
    /\ Live(w) /\ outbox[w] # <<>> => w = ws /\ outbox[w] = <<Asked>>
    /\ \A i \in Replies(inbox[w]) :
         /\ w = ws
         /\ call \in {"hello", "history", "send", "abort"} \cup Closings
         /\ outbox[w] = <<>>
         /\ Replies(inbox[w]) = {i}
         /\ call = "history" /\ inbox[w][i].type # "error"
              => MainSession \in subscribed

\* Silence is in order, whatever the call waits for.
LEMMA SilentIsOneCall ==
  ASSUME Silent'
  PROVE  OneCall'
BY DEF Silent, OneCall

\* And in order between calls is silence: nothing else was asked.
LEMMA OneCallIsSilent ==
  ASSUME GatewayTypeOK, OneCall, call \in {"none", "challenge", "event"}
  PROVE  Silent
<1> SUFFICES ASSUME NEW w \in Socket
             PROVE  (Live(w) => outbox[w] = <<>>) /\ Replies(inbox[w]) = {}
  BY Zenon DEF Silent
<1>1. Replies(inbox[w]) = {}
  BY DEF OneCall, Closings
<1>2. ASSUME Live(w), outbox[w] # <<>>
      PROVE  FALSE
  <2>1. outbox[w] \in Seq(RequestFrame) /\ outbox[w] = <<Asked>>
    BY <1>2 DEF OneCall, GatewayTypeOK
  <2>2. Asked \in RequestFrame
    BY <2>1
  <2> QED BY <2>2 DEF Asked, RequestFrame, RequestType
<1> QED BY <1>1, <1>2

\* What a queue holds after its oldest element is taken.
LEMMA TailAt ==
  ASSUME NEW S, NEW q \in Seq(S), q # <<>>, NEW i \in DOMAIN Tail(q)
  PROVE  i + 1 \in DOMAIN q /\ Tail(q)[i] = q[i + 1] /\ i + 1 # 1
OBVIOUS

\* Reading a frame leaves the replies behind it.
LEMMA ConsumeReplies ==
  ASSUME GatewayTypeOK, Arrived, Consume
  PROVE  /\ \A w \in Socket \ {ws} : inbox'[w] = inbox[w]
         /\ \A i \in Replies(inbox'[ws]) :
              /\ i + 1 \in Replies(inbox[ws]) \ {1}
              /\ inbox'[ws][i] = inbox[ws][i + 1]
<1>1. /\ inbox[ws] \in Seq(Frame) /\ inbox[ws] # <<>> /\ ws \in Socket
      /\ inbox'[ws] = Tail(inbox[ws])
  BY DEF Arrived, Consume, GatewayTypeOK
<1>2. ASSUME NEW i \in Replies(inbox'[ws])
      PROVE  /\ i + 1 \in Replies(inbox[ws]) \ {1}
             /\ inbox'[ws][i] = inbox[ws][i + 1]
  <2> DEFINE q == inbox[ws]
  <2>0. i \in DOMAIN Tail(q) /\ q \in Seq(Frame) /\ q # <<>>
    BY <1>1, <1>2 DEF Replies
  <2> HIDE DEF q
  <2>1. i + 1 \in DOMAIN q /\ Tail(q)[i] = q[i + 1] /\ i + 1 # 1
    BY <2>0, TailAt
  <2> QED BY <1>1, <1>2, <2>1 DEF Replies, q
<1>3. \A w \in Socket \ {ws} : inbox'[w] = inbox[w]
  BY DEF Consume, GatewayTypeOK
<1> QED BY <1>2, <1>3

\* Taking the reply ends the call in silence.
LEMMA ReplyIsLast ==
  ASSUME GatewayTypeOK, OneCall, Arrived, Consume,
         Frame1.type \in ReplyType, UNCHANGED <<sock, outbox>>
  PROVE  Silent'
<1>1. ws \in Socket /\ 1 \in Replies(inbox[ws])
  BY DEF Arrived, Frame1, Replies, GatewayTypeOK
<1>2. outbox[ws] = <<>> /\ Replies(inbox[ws]) = {1}
  BY <1>1 DEF OneCall
<1>3. \A w \in Socket \ {ws} : Replies(inbox[w]) = {}
  BY DEF OneCall
<1>4. \A w \in Socket : Live(w) => outbox[w] = <<>>
  BY <1>2 DEF OneCall
<1>5. \A w \in Socket : Replies(inbox'[w]) = {}
  <2> TAKE w \in Socket
  <2>1. CASE w = ws
    BY <1>2, <2>1, ConsumeReplies
  <2>2. CASE w # ws
    BY <1>3, <2>2, ConsumeReplies DEF Replies
  <2> QED BY <2>1, <2>2
<1> QED BY <1>4, <1>5 DEF Silent, Live

\* Taking a frame that is no reply leaves none.
LEMMA NoReplyLeft ==
  ASSUME GatewayTypeOK, Silent, Arrived, Consume
  PROVE  \A w \in Socket : Replies(inbox'[w]) = {}
<1> TAKE w \in Socket
<1>1. CASE w = ws
  BY <1>1, ConsumeReplies DEF Silent
<1>2. CASE w # ws
  BY <1>2, ConsumeReplies DEF Silent, Replies
<1> QED BY <1>1, <1>2

\* And the rest as it was.
LEMMA OtherFrame ==
  ASSUME GatewayTypeOK, Silent, Arrived, Consume, UNCHANGED <<sock, outbox>>
  PROVE  Silent'
BY NoReplyLeft DEF Silent, Live

\* So does closing the socket, or opening another.
LEMMA ClosedIsSilent ==
  ASSUME GatewayTypeOK, OneCall, inbox' = Cleared(inbox),
         outbox' = Cleared(outbox),
         \A w \in Socket : Live(w)' => Live(w)
  PROVE  Silent'
<1> SUFFICES ASSUME NEW w \in Socket
             PROVE  (Live(w)' => outbox'[w] = <<>>) /\ Replies(inbox'[w]) = {}
  BY DEF Silent
<1>1. CASE w = ws
  <2>1. inbox'[w] = <<>> /\ outbox'[w] = <<>>
    BY <1>1 DEF Cleared
  <2> QED BY <2>1 DEF Replies
<1>2. CASE w # ws
  <2>1. inbox'[w] = inbox[w] /\ outbox'[w] = outbox[w]
    BY <1>2 DEF Cleared
  <2>2. Replies(inbox[w]) = {} /\ (Live(w) => outbox[w] = <<>>)
    BY <1>2 DEF OneCall
  <2> QED BY <2>1, <2>2 DEF Replies
<1> QED BY <1>1, <1>2

\* A broken socket has nothing left to say, and is read no more.
LEMMA BrokenIsSilent ==
  ASSUME GatewayTypeOK, OneCall, Broken,
         sock' = [sock EXCEPT ![ws] = "failed"],
         UNCHANGED <<inbox, outbox>>
  PROVE  Silent'
<1> SUFFICES ASSUME NEW w \in Socket
             PROVE  (Live(w)' => outbox'[w] = <<>>) /\ Replies(inbox'[w]) = {}
  BY DEF Silent
<1>1. CASE w = ws
  BY <1>1 DEF Broken, Replies, Live, GatewayTypeOK
<1>2. CASE w # ws
  BY <1>2 DEF OneCall, Replies, Live, GatewayTypeOK
<1> QED BY <1>1, <1>2

\* The request of a call goes out into silence.
LEMMA RequestIsOneCall ==
  ASSUME GatewayTypeOK, Silent, NEW t \in RequestType,
         Transmit(ws, t, MainSession), t = Asked'.type,
         \A w \in Socket : Replies(inbox'[w]) = {}, UNCHANGED <<ws, sock>>
  PROVE  OneCall'
<1> SUFFICES ASSUME NEW w \in Socket, Live(w), outbox'[w] # <<>>
             PROVE  w = ws /\ outbox'[w] = <<Asked'>>
  BY DEF OneCall, Live
<1>1. outbox[w] = <<>>
  BY DEF Silent
<1>2. /\ ws \in Socket /\ w = ws
      /\ outbox'[w] = Append(outbox[w],
                             [type |-> t, session |-> MainSession])
  BY <1>1 DEF Transmit, GatewayTypeOK
<1>3. Asked' = [type |-> t, session |-> MainSession]
  BY DEF Asked
<1>4. Append(<<>>, [type |-> t, session |-> MainSession])
        = <<[type |-> t, session |-> MainSession]>>
  OBVIOUS
<1> QED BY <1>1, <1>2, <1>3, <1>4

\* Requests that are no more, and replies that were there before, make no
\* second call.
LEMMA LessIsOneCall ==
  ASSUME OneCall,
         \A w \in Socket :
           /\ Live(w)' => Live(w)
           /\ outbox'[w] = outbox[w] \/ outbox'[w] = <<>>
           /\ \A i \in Replies(inbox'[w]) :
                \E j \in Replies(inbox[w]) :
                  /\ inbox'[w][i] = inbox[w][j]
                  /\ Replies(inbox[w]) = {j} => Replies(inbox'[w]) = {i},
         UNCHANGED <<ws, call, subscribed>>
  PROVE  OneCall'
<1>0. Asked' = Asked
  BY DEF Asked
<1> SUFFICES ASSUME NEW w \in Socket
             PROVE  /\ Live(w)' /\ outbox'[w] # <<>>
                         => w = ws' /\ outbox'[w] = <<Asked'>>
                    /\ \A i \in Replies(inbox'[w]) :
                         /\ w = ws'
                         /\ call' \in {"hello", "history", "send", "abort"}
                                       \cup Closings
                         /\ outbox'[w] = <<>>
                         /\ Replies(inbox'[w]) = {i}
                         /\ call' = "history" /\ inbox'[w][i].type # "error"
                              => MainSession \in subscribed'
  BY DEF OneCall
<1>1. ASSUME Live(w)', outbox'[w] # <<>>
      PROVE  w = ws' /\ outbox'[w] = <<Asked'>>
  BY <1>0, <1>1 DEF OneCall
<1>2. ASSUME NEW i \in Replies(inbox'[w])
      PROVE  /\ w = ws'
             /\ call' \in {"hello", "history", "send", "abort"}
                           \cup Closings
             /\ outbox'[w] = <<>>
             /\ Replies(inbox'[w]) = {i}
             /\ call' = "history" /\ inbox'[w][i].type # "error"
                  => MainSession \in subscribed'
  <2>1. PICK j \in Replies(inbox[w]) :
          /\ inbox'[w][i] = inbox[w][j]
          /\ Replies(inbox[w]) = {j} => Replies(inbox'[w]) = {i}
    BY <1>2
  <2>2. /\ w = ws
        /\ call \in {"hello", "history", "send", "abort"} \cup Closings
        /\ outbox[w] = <<>>
        /\ Replies(inbox[w]) = {j}
        /\ call = "history" /\ inbox[w][j].type # "error"
             => MainSession \in subscribed
    BY DEF OneCall
  <2> QED BY <2>1, <2>2
<1> QED BY <1>1, <1>2

\* A close frame ends what was asked, answered or not.
LEMMA HangUpIsOneCall ==
  ASSUME GatewayTypeOK, OneCall, NEW wait \in Closings, HangUp(wait)
  PROVE  OneCall'
<1>1. /\ ws \in Socket /\ sock'[ws] = "closing"
      /\ \A w \in Socket : Live(w)' => Live(w) /\ w # ws
      /\ call' = wait /\ wait # "history"
      /\ UNCHANGED <<ws, inbox, outbox>>
  BY DEF HangUp, Live, GatewayTypeOK, Closings
<1>2. ASSUME NEW w \in Socket
      PROVE  /\ Live(w)' /\ outbox'[w] # <<>> => FALSE
             /\ \A i \in Replies(inbox'[w]) :
                  /\ w = ws'
                  /\ outbox'[w] = <<>>
                  /\ Replies(inbox'[w]) = {i}
  BY <1>1 DEF OneCall
<1> QED BY <1>1, <1>2 DEF OneCall

\* An event skipped by a call shifts the reply behind it, if there is one.
LEMMA SkipIsOneCall ==
  ASSUME GatewayTypeOK, OneCall, SkipEvent
  PROVE  OneCall'
<1>1. /\ Arrived /\ Consume
      /\ UNCHANGED <<ws, call, sock, outbox, subscribed>>
  BY DEF SkipEvent, gateway
<1>2. ASSUME NEW w \in Socket, NEW i \in Replies(inbox'[w])
      PROVE  \E j \in Replies(inbox[w]) :
               /\ inbox'[w][i] = inbox[w][j]
               /\ Replies(inbox[w]) = {j} => Replies(inbox'[w]) = {i}
  <2>1. CASE w = ws
    <3>1. /\ i + 1 \in Replies(inbox[w]) \ {1}
          /\ inbox'[w][i] = inbox[w][i + 1]
      BY <1>1, <1>2, <2>1, ConsumeReplies
    <3>2. ASSUME Replies(inbox[w]) = {i + 1}, NEW k \in Replies(inbox'[w])
          PROVE  k = i
      <4>1. k + 1 = i + 1
        BY <1>1, <2>1, <3>2, ConsumeReplies
      <4>2. k \in Nat /\ i \in Nat
        <5>1. inbox'[w] \in Seq(Frame)
          BY <1>1, ConsumeType
        <5> QED BY <1>2, <3>2, <5>1 DEF Replies
      <4> QED BY <4>1, <4>2
    <3> QED BY <1>2, <3>1, <3>2
  <2>2. CASE w # ws
    BY <1>1, <1>2, <2>2, ConsumeReplies
  <2> QED BY <2>1, <2>2
<1>3. \A w \in Socket :
        /\ Live(w)' => Live(w)
        /\ outbox'[w] = outbox[w] \/ outbox'[w] = <<>>
  BY <1>1 DEF Live
<1> QED BY <1>1, <1>2, <1>3, LessIsOneCall

\* The Gateway answers the one call, and a reload with the subscription; it
\* takes a subscription back only with a new hello.
LEMMA GatewayOneCall ==
  ASSUME GatewayAssumption, GatewayTypeOK, OneCall, GatewayNext,
         call \in Waits \cup {"none"}, UNCHANGED <<ws, call>>
  PROVE  /\ OneCall'
         /\ subscribed \subseteq subscribed' \/ call = "hello"
<1>0. Asked' = Asked
  BY DEF Asked
<1>1. ASSUME NEW w \in Socket, NEW f, Deliver(w, f),
             f.type \notin ReplyType, outbox' = outbox,
             \A x \in Socket : Live(x)' = Live(x), subscribed' = subscribed
      PROVE  OneCall'
  <2>1. \A x \in Socket : /\ Replies(inbox'[x]) = Replies(inbox[x])
                          /\ \A i \in Replies(inbox[x]) :
                               inbox'[x][i] = inbox[x][i]
    <3> TAKE x \in Socket
    <3>1. CASE x = w
      <4>1. /\ inbox[w] \in Seq(Frame)
            /\ inbox'[w] = Append(inbox[w], f)
        BY <1>1 DEF Deliver, GatewayTypeOK
      <4> QED BY <1>1, <3>1, <4>1 DEF Replies
    <3>2. CASE x # w
      BY <1>1, <3>2 DEF Deliver, GatewayTypeOK
    <3> QED BY <3>1, <3>2
  <2> QED BY <1>1, <2>1, LessIsOneCall
<1>2. ASSUME NEW w \in Socket, Opens(w)
      PROVE  OneCall' /\ subscribed' = subscribed
  <2>1. PICK c \in {"challenge", "badChallenge"} :
          Deliver(w, Reply(c, MainSession, NoRun))
    BY <1>2 DEF Opens
  <2>2. Reply(c, MainSession, NoRun).type \notin ReplyType
    BY DEF Reply, ReplyType
  <2>3. \A x \in Socket : Live(x)' = Live(x)
    BY <1>2 DEF Opens, Live, GatewayTypeOK
  <2> QED BY <1>1, <1>2, <2>1, <2>2, <2>3 DEF Opens, gateway
<1>3. ASSUME NEW w \in Socket, Resend(w)
      PROVE  OneCall' /\ subscribed' = subscribed
  <2>1. Head(firstSent) \in EventFrame
    BY <1>3 DEF Resend, GatewayTypeOK
  <2>2. Head(firstSent).type \notin ReplyType
    BY <2>1 DEF EventFrame, EventType, ReplyType
  <2> QED BY <1>1, <1>3, <2>2 DEF Resend, Live, gateway
<1>4. ASSUME NEW w \in Socket, NEW r \in Run, NEW t \in EventType,
             EmitEvent(w, r, t) \/ EmitUnnumbered(w, r, t)
      PROVE  OneCall' /\ subscribed' = subscribed
  <2>1. \A n \in Nat : Event(t, r, n).type \notin ReplyType
    BY DEF Event, EventType, ReplyType
  <2>2. (\E n \in Nat : Deliver(w, Event(t, r, n))) \/ inbox' = inbox
    BY <1>4 DEF EmitEvent, EmitUnnumbered, NoNumber, GatewayTypeOK
  <2>3. UNCHANGED <<sock, outbox, subscribed>>
    BY <1>4 DEF EmitEvent, EmitUnnumbered
  <2>4. CASE \E n \in Nat : Deliver(w, Event(t, r, n))
    <3>1. PICK n \in Nat : Deliver(w, Event(t, r, n))
      BY <2>4
    <3>2. PICK e : e = Event(t, r, n)
      OBVIOUS
    <3> QED BY <1>1, <2>1, <2>3, <3>1, <3>2 DEF Live
  <2>5. CASE inbox' = inbox
    BY <1>0, <2>3, <2>5 DEF OneCall, Live
  <2> QED BY <2>2, <2>3, <2>4, <2>5
<1>5. ASSUME NEW w \in Socket, NetworkFails(w) \/ ServerCloses(w)
      PROVE  OneCall' /\ subscribed' = subscribed
  <2>1. /\ subscribed' = subscribed
        /\ \A x \in Socket : Live(x)' => Live(x)
        /\ \A x \in Socket : outbox'[x] = outbox[x] \/ outbox'[x] = <<>>
        /\ \A x \in Socket : inbox'[x] = inbox[x] \/ inbox'[x] = <<>>
    BY <1>5 DEF NetworkFails, ServerCloses, gateway, Live, GatewayTypeOK
  <2>2. Replies(<<>>) = {}
    BY DEF Replies
  <2> QED BY <2>1, <2>2, LessIsOneCall
<1>6. ASSUME NEW w \in Socket, Serve(w)
      PROVE  OneCall' /\ (subscribed \subseteq subscribed' \/ call = "hello")
  <2> DEFINE q == Head(outbox[w])
  <2>0. sock[w] = "open" /\ outbox[w] # <<>>
    BY <1>6 DEF Serve
  <2>1. /\ w = ws /\ outbox[w] = <<Asked>> /\ q = Asked
        /\ \A x \in Socket : Replies(inbox[x]) = {}
    <3>1. w = ws /\ outbox[w] = <<Asked>>
      BY <2>0 DEF OneCall, Live
    <3>2. Head(<<Asked>>) = Asked
      OBVIOUS
    <3>3. ASSUME NEW x \in Socket, NEW i \in Replies(inbox[x])
          PROVE  FALSE
      <4>1. x = ws /\ outbox[x] = <<>>
        BY <3>3 DEF OneCall
      <4> QED BY <2>0, <3>1, <4>1
    <3> QED BY <3>1, <3>2, <3>3
  <2>2. q.type \in RequestType /\ q.session = MainSession
    <3>1. q \in RequestFrame
      BY <1>6 DEF Serve, GatewayTypeOK
    <3> QED BY <2>1, <3>1 DEF RequestFrame, Asked
  <2>3. /\ q.type = "connect" => call = "hello"
        /\ q.type # "connect" => call = q.type
    BY <2>1, <2>2 DEF Asked, Waits, Asks, Closings
  <2> HIDE DEF q
  <2>4. PICK t \in ReplyType, s \in Session, r \in Run \cup {NoRun} :
          /\ Answers(w, Reply(t, s, r))
          /\ call \in {"hello", "history", "send", "abort"}
          /\ call = "history" /\ t # "error" => MainSession \in subscribed'
          /\ subscribed \subseteq subscribed' \/ call = "hello"
    <3>0. MainSession \in Session
      BY DEF GatewayAssumption
    <3>1. CASE ServeConnect(w, q)
      BY <2>3, <3>0, <3>1 DEF ServeConnect, ReplyType
    <3>2. CASE ServeHistory(w, q)
      <4> DEFINE t == IF q.session \in talked
                        THEN "historyFull" ELSE "historyEmpty"
      <4>1. t \in ReplyType /\ Answers(w, Reply(t, q.session, NoRun))
        BY <3>2 DEF ServeHistory, ReplyType
      <4>2. subscribed' = subscribed \cup {MainSession} /\ call = "history"
        BY <2>2, <2>3, <3>2 DEF ServeHistory
      <4> HIDE DEF t
      <4> QED BY <2>2, <3>0, <4>1, <4>2
    <3>3. CASE ServeSend(w, q)
      BY <2>2, <2>3, <3>0, <3>3 DEF ServeSend, ReplyType
    <3>4. CASE ServeAbort(w, q)
      BY <2>2, <2>3, <3>0, <3>4 DEF ServeAbort, ReplyType, gateway
    <3>5. CASE ServeError(w, q)
      BY <2>2, <2>3, <3>0, <3>5 DEF ServeError, ReplyType, RequestType, Waits,
         Asks, Closings
    <3> QED BY <1>6, <3>1, <3>2, <3>3, <3>4, <3>5 DEF Serve, q
  <2> DEFINE f == Reply(t, s, r)
  <2>5. f.type = t /\ t \in ReplyType
    BY DEF Reply
  <2>6. /\ inbox[w] \in Seq(Frame) /\ inbox'[w] = Append(inbox[w], f)
        /\ outbox'[w] = Tail(<<Asked>>)
        /\ \A x \in Socket \ {w} : /\ inbox'[x] = inbox[x]
                                  /\ outbox'[x] = outbox[x]
        /\ sock' = sock
    BY <2>1, <2>4 DEF Answers, Deliver, GatewayTypeOK
  <2> HIDE DEF f
  <2>7. outbox'[w] = <<>>
    BY <2>6
  <2>8. /\ Replies(inbox'[w]) = {Len(inbox[w]) + 1}
        /\ inbox'[w][Len(inbox[w]) + 1] = f
    BY <2>1, <2>5, <2>6 DEF Replies
  <2>9. ASSUME NEW x \in Socket, x # w
        PROVE  Replies(inbox'[x]) = {} /\ (Live(x) => outbox'[x] = <<>>)
    BY <2>1, <2>6, <2>9 DEF OneCall
  <2> QED BY <1>0, <2>1, <2>4, <2>5, <2>6, <2>7, <2>8, <2>9
          DEF OneCall, Live
<1> QED BY <1>2, <1>3, <1>4, <1>5, <1>6 DEF GatewayNext

(***************************************************************************)
(* The answer to a message is seen                                         *)
(***************************************************************************)

\* A client that is ready, and not just connected, follows the session.
Heard ==
  /\ at \in {"connecting", "sleeping"} => ~ready
  /\ ready /\ at \in {"prompt", "aborting", "sending", "pumping", "checking"}
       => MainSession \in subscribed

\* Every step of the program keeps to one call, and to a session followed.
LEMMA HeardStep ==
  ASSUME CoreTypeOK, Control, OneCall, Heard, ReadyMeansHello,
         ShellNext \/ UserNext
  PROVE  OneCall' /\ Heard'
<1> USE DEF Heard, GoOn, Exit, control, coreVars, gateway
<1>0. GatewayTypeOK
  BY DEF CoreTypeOK
<1>1. CASE NoRoute \/ CloseFailed \/ Leave
  <2>1. ClosedOnly
    BY <1>1 DEF NoRoute, CloseFailed, Leave
  <2>2. \A w \in Socket : Live(w)' => Live(w)
    BY <2>1 DEF ClosedOnly, Close, HungUp, Live
  <2>3. OneCall'
    BY <1>0, <2>1, <2>2, ClosedIsSilent, SilentIsOneCall
       DEF ClosedOnly, Close
  <2>4. Heard'
    BY <1>1, <2>1 DEF ClosedOnly, Close
  <2> QED BY <2>3, <2>4
<1>2. CASE Dials
  <2>1. PICK w \in Socket : Dial(w)
    BY <1>2 DEF Dials
  <2>2. \A x \in Socket : Live(x)' => Live(x)
    BY <2>1 DEF Dial, HungUp, Live
  <2>3. OneCall'
    BY <1>0, <2>1, <2>2, ClosedIsSilent, SilentIsOneCall DEF Dial
  <2> QED BY <1>2, <2>1, <2>3 DEF Dials, Dial
<1>3. CASE AnswerChallenge
  <2>1. /\ Silent /\ Arrived /\ Consume /\ call' = "hello"
        /\ Transmit(ws, "connect", MainSession) /\ UNCHANGED <<ws, sock>>
    BY <1>0, <1>3, OneCallIsSilent DEF AnswerChallenge, SendConnect
  <2>2. \A w \in Socket : Replies(inbox'[w]) = {}
    BY <1>0, <2>1, NoReplyLeft
  <2>3. OneCall'
    BY <1>0, <2>1, <2>2, RequestIsOneCall DEF Asked, RequestType
  <2> QED BY <1>3, <2>3 DEF AnswerChallenge, SendConnect
<1>4. CASE ConnectOutcome
  <2>1. PICK state \in ConnectState :
          /\ ConnectReturns(state)
          /\ CASE state = "Connected" -> GoOn("hydrating")
               [] state = "Failed" -> Failure
               [] OTHER -> IF purpose = "open" THEN Exit ELSE Prompt
    BY <1>4 DEF ConnectOutcome
  <2>2. CASE Close
    <3>1. \A w \in Socket : Live(w)' => Live(w)
      BY <2>2 DEF Close, HungUp, Live
    <3>2. OneCall'
      BY <1>0, <2>2, <3>1, ClosedIsSilent, SilentIsOneCall DEF Close
    <3> QED BY <2>2, <3>2 DEF Close
  <2>3. CASE state = "Connected"
    <3>0. Connected
      BY <2>1, <2>3 DEF ConnectReturns
    <3>1. OneCall'
      BY <1>0, <3>0, ReplyIsLast, SilentIsOneCall DEF Connected, ReplyType
    <3> QED BY <2>1, <2>3, <3>1
  <2>4. CASE /\ state = "Failed" /\ call = "challenge" /\ Arrived /\ Consume
             /\ UNCHANGED <<ws, ready, sock, outbox>>
    <3>1. OneCall'
      BY <1>0, <2>4, OneCallIsSilent, OtherFrame, SilentIsOneCall
    <3> QED BY <1>4, <2>1, <2>4, <3>1
            DEF ConnectOutcome, Failure, FailAttempt
  <2> QED BY <2>1, <2>2, <2>3, <2>4
          DEF ConnectReturns, ConnectState, PairingRequired, Failed
<1>5. CASE StartHydrate \/ StartSend \/ Pause
  <2>1. PICK t \in {"history", "send", "abort"} : StartCall(t, MainSession)
    BY <1>5 DEF StartHydrate, StartSend, Pause
  <2>2. Silent /\ \A w \in Socket : Replies(inbox'[w]) = {}
    BY <1>0, <2>1, OneCallIsSilent DEF StartCall, Silent
  <2>3. OneCall'
    BY <1>0, <2>1, <2>2, RequestIsOneCall DEF StartCall, Asked, RequestType
  <2> QED BY <1>5, <2>1, <2>3 DEF StartCall, StartHydrate, StartSend, Pause
<1>6. CASE Hydrated \/ Aborted \/ Sent
  <2>1. PICK ok \in BOOLEAN : CallReturns(ok)
    BY <1>6 DEF Hydrated, Aborted, Sent
  <2>2. ASSUME Replied(ok) PROVE OneCall'
    BY <1>0, <2>1, <2>2, ReplyIsLast, SilentIsOneCall DEF Replied, CallReturns
  <2>3. ASSUME Broke(ok) PROVE OneCall'
    BY <1>0, <2>1, <2>3, BrokenIsSilent, SilentIsOneCall DEF Broke, CallReturns
  <2>4. OneCall'
    BY <2>1, <2>2, <2>3 DEF CallReturns
  <2>5. UNCHANGED <<ready, subscribed>>
    BY <2>1 DEF CallReturns, Replied, Broke
  <2>6. CASE Aborted \/ Sent
    BY <2>4, <2>5, <2>6 DEF Aborted, Sent, Prompt
  <2>7. CASE Hydrated
    <3>1. PICK loaded \in BOOLEAN :
            /\ CallReturns(loaded)
            /\ IF loaded THEN Loaded
               ELSE IF purpose = "open" THEN Exit ELSE GoOn("closing")
      BY <2>7 DEF Hydrated
    <3>2. CASE loaded
      <4>1. Replied(TRUE) /\ call = "history"
        BY <2>7, <3>1, <3>2 DEF CallReturns, Broke, Replied, Hydrated, Control
      <4>2. /\ ws \in Socket /\ 1 \in Replies(inbox[ws])
            /\ inbox[ws][1].type # "error"
        BY <1>0, <4>1 DEF Replied, Arrived, Frame1, Replies, GatewayTypeOK
      <4>3. MainSession \in subscribed
        BY <4>1, <4>2 DEF OneCall
      <4> QED BY <2>4, <2>5, <3>1, <3>2, <4>3 DEF Loaded, Prompt
    <3>3. CASE ~loaded
      BY <2>4, <3>1, <3>3
    <3> QED BY <3>2, <3>3
  <2> QED BY <1>6, <2>6, <2>7
<1>7. CASE SkipWhileCalling
  BY <1>0, <1>7, SkipIsOneCall DEF SkipWhileCalling, SkipEvent
<1>8. CASE PumpEvent
  <2>1. PumpReads
    BY <1>8 DEF PumpEvent
  <2>2. OneCall'
    BY <1>0, <2>1, OneCallIsSilent, OtherFrame, SilentIsOneCall
       DEF PumpReads, Pumping
  <2> QED BY <1>8, <2>1, <2>2 DEF PumpEvent, PumpReads
<1>9. CASE PumpBlocks
  <2>1. PumpWaits
    BY <1>9 DEF PumpBlocks
  <2>2. Silent /\ Silent'
    BY <1>0, <2>1, OneCallIsSilent DEF PumpWaits, gatewayVars, wire, Silent,
       Live
  <2> QED BY <1>9, <2>1, <2>2, SilentIsOneCall DEF PumpBlocks, PumpWaits,
             gatewayVars
<1>10. CASE PumpBreaks
  <2>1. PumpLosesLink
    BY <1>10 DEF PumpBreaks
  <2>2. OneCall'
    BY <1>0, <2>1, BrokenIsSilent, SilentIsOneCall DEF PumpLosesLink
  <2> QED BY <1>10, <2>1, <2>2 DEF PumpBreaks, PumpLosesLink
<1>11. CASE Sleeps \/ Message \/ PumpEnds \/ Check \/ Quit
  <2>1. Idle
    BY <1>11 DEF Sleeps, Message, PumpEnds, Check, Quit
  <2>2. OneCall'
    BY <2>1 DEF Idle, OneCall, Live, Asked, gatewayVars, wire
  <2>3. UNCHANGED <<ready, subscribed>>
    BY <2>1 DEF Idle, gatewayVars
  <2> QED BY <1>11, <2>2, <2>3 DEF Sleeps, Message, PumpEnds, Check, Quit,
             Prompt, Reconnect
<1>12. CASE HangsUp \/ ConnectGivesUp
  <2>1. PICK wait \in Closings : HangUp(wait)
    BY <1>12 DEF HangsUp, ConnectGivesUp, GiveUp, Closings
  <2>2. OneCall'
    BY <1>0, <2>1, HangUpIsOneCall
  <2> QED BY <1>12, <2>1, <2>2 DEF HangsUp, ConnectGivesUp, HangUp
<1> QED BY <1>1, <1>2, <1>3, <1>4, <1>5, <1>6, <1>7, <1>8, <1>9, <1>10, <1>11,
           <1>12
        DEF ShellNext, UserNext

\* The Gateway keeps to them, too, whenever it answers.
LEMMA HeardAlways == ShellSpec => [](OneCall /\ Heard)
<1>1. ShellInit => OneCall /\ Heard
  <2> SUFFICES ASSUME ShellInit PROVE OneCall /\ Heard
    OBVIOUS
  <2>1. \A w \in Socket : inbox[w] = <<>> /\ outbox[w] = <<>>
    BY Zenon DEF ShellInit, GatewayInit
  <2> QED BY <2>1 DEF OneCall, Replies, Heard, ShellInit, CoreInit
<1>2. ShellInv /\ OneCall /\ Heard /\ [Next]_shellVars
        => (OneCall /\ Heard)'
  <2> SUFFICES ASSUME ShellInv, OneCall, Heard, [Next]_shellVars
               PROVE  OneCall' /\ Heard'
    OBVIOUS
  <2>1. CASE ShellNext \/ UserNext
    BY <2>1, HeardStep DEF ShellInv
  <2>2. CASE FarEnd
    <3>1. UNCHANGED <<control, coreVars>> /\ UNCHANGED <<ws, call>>
      BY <2>2 DEF FarEnd, coreVars
    <3>2. OneCall' /\ (subscribed \subseteq subscribed' \/ call = "hello")
      <4>1. CASE GatewayNext
        BY <3>1, <4>1, GatewayOneCall, GatewayAssumption
           DEF ShellInv, CoreTypeOK
      <4>2. CASE FarEndCloses
        <5>1. /\ \A w \in Socket : Live(w)' => Live(w)
              /\ UNCHANGED <<inbox, outbox, subscribed>>
          BY <4>2 DEF FarEndCloses, Live, gateway, ShellInv, CoreTypeOK,
             GatewayTypeOK
        <5> QED BY <3>1, <5>1, LessIsOneCall
      <4> QED BY <2>2, <4>1, <4>2 DEF FarEnd
    <3> QED BY <3>1, <3>2 DEF Heard, ShellInv, Control, control, coreVars
  <2>3. CASE UNCHANGED shellVars
    BY <2>3 DEF shellVars, control, coreVars, gatewayVars, wire, gateway,
       OneCall, Heard, Live, Asked
  <2> QED BY <2>1, <2>2, <2>3 DEF Next
<1> QED BY <1>1, <1>2, ShellInvAlways, PTL DEF ShellSpec

\* Whatever failed before, a message the shell sends goes over a connection
\* whose Gateway streams it the session's events.
THEOREM SendsAreHeardAlways == ShellSpec => []SendsAreHeard
<1>1. ShellInv /\ OneCall /\ Heard => SendsAreHeard
  BY DEF ShellInv, Control, Heard, SendsAreHeard
<1> QED BY <1>1, ShellInvAlways, HeardAlways, PTL

(***************************************************************************)
(* No event is lost unnoticed                                              *)
(***************************************************************************)

\* One socket at a time is in use, and only an open one has frames to read;
\* those of one that is closing are thrown away.
OneSocket ==
  \A w \in Socket :
    /\ sock[w] \in {"opening", "open", "halfClosed", "closing"} => w = ws
    /\ inbox[w] # <<>> =>
         /\ w = ws
         /\ \/ sock[w] = "open"
            \/ call \in Closings /\ sock[w] \in {"closing", "dead"}
    /\ sock[w] \in {"unused", "opening"} => w \notin accepted

\* The events the tracker counts.
HasNumber(frame) == frame.type \in EventType /\ frame.seq # NoNumber
Events(queue) == {i \in DOMAIN queue : HasNumber(queue[i])}

\* Before the client has read the hello, no event is on its way to it.
Fresh ==
  ~ready =>
    /\ \A w \in Socket : sock[w] = "open" => Events(inbox[w]) = {}
    /\ \A w \in accepted : sock[w] = "open" =>
         subscribed = {} /\ firstSent = <<>> /\ missed = {}

\* What the tracker saw, what is on its way and what was lost have numbers
\* of their own; only the first event may come twice.
Numbered ==
  /\ lastOuter <= gwSeq
  /\ \A s \in missed \cup skipped : s <= gwSeq
  /\ lastOuter # NoSeq => firstSent # <<>> /\ firstSent[1].seq <= lastOuter
  /\ firstSent # <<>> =>
       firstSent[1].seq <= gwSeq /\ firstSent[1].seq \notin missed
  /\ \A i \in Events(inbox[ws]) :
       /\ firstSent # <<>>
       /\ firstSent[1].seq <= inbox[ws][i].seq
       /\ inbox[ws][i].seq <= gwSeq
       /\ inbox[ws][i].seq \notin missed
       /\ inbox[ws][i].seq \in skipped
            => inbox[ws][i].seq = firstSent[1].seq
       /\ \A j \in Events(inbox[ws]) \ {i} :
            inbox[ws][j].seq = inbox[ws][i].seq
              => inbox[ws][i].seq = firstSent[1].seq

\* Events lost since a reload was answered are ones the tracker has yet to
\* miss.
Reloaded ==
  call = "history" =>
    \A i \in Replies(inbox[ws]) :
      inbox[ws][i].type # "error" => \A s \in missed : s > lastOuter

\* An event that was lost is not one that was seen, and is flagged when a
\* later one is.
Flagged ==
  ready => \A s \in missed \cup skipped :
             s # lastOuter /\ (s < lastOuter => needsRecovery)

LossInv ==
  /\ OneSocket
  /\ Fresh
  /\ ready /\ sock[ws] = "open" => Numbered
  /\ Reloaded
  /\ Flagged

\* With nothing new lost or sent, and frames only read, all stays numbered.
LEMMA FewerNumbered ==
  ASSUME Numbered, NEW d \in {0, 1},
         UNCHANGED <<ws, gwSeq, lastOuter, firstSent>>,
         missed' \subseteq missed, skipped' \subseteq skipped,
         \A i \in Events(inbox'[ws]) :
           /\ i \in Nat
           /\ i + d \in Events(inbox[ws])
           /\ inbox'[ws][i] = inbox[ws][i + d]
  PROVE  Numbered'
<1>1. /\ lastOuter' <= gwSeq'
      /\ \A s \in missed' \cup skipped' : s <= gwSeq'
      /\ lastOuter' # NoSeq
           => firstSent' # <<>> /\ firstSent'[1].seq <= lastOuter'
      /\ firstSent' # <<>> => /\ firstSent'[1].seq <= gwSeq'
                              /\ firstSent'[1].seq \notin missed'
  BY DEF Numbered
<1>2. ASSUME NEW i \in Events(inbox'[ws])
      PROVE  /\ firstSent' # <<>>
             /\ firstSent'[1].seq <= inbox'[ws][i].seq
             /\ inbox'[ws][i].seq <= gwSeq'
             /\ inbox'[ws][i].seq \notin missed'
             /\ inbox'[ws][i].seq \in skipped'
                  => inbox'[ws][i].seq = firstSent'[1].seq
             /\ \A j \in Events(inbox'[ws]) \ {i} :
                  inbox'[ws][j].seq = inbox'[ws][i].seq
                    => inbox'[ws][i].seq = firstSent'[1].seq
  <2>1. i + d \in Events(inbox[ws]) /\ inbox'[ws][i] = inbox[ws][i + d]
    BY <1>2
  <2>2. ASSUME NEW j \in Events(inbox'[ws]) \ {i},
               inbox'[ws][j].seq = inbox'[ws][i].seq
        PROVE  inbox'[ws][i].seq = firstSent'[1].seq
    <3>1. /\ j + d \in Events(inbox[ws]) \ {i + d}
          /\ inbox'[ws][j] = inbox[ws][j + d]
      BY <1>2, <2>2
    <3> QED BY <2>1, <2>2, <3>1 DEF Numbered
  <2> QED BY <2>1, <2>2 DEF Numbered
<1> QED BY <1>1, <1>2 DEF Numbered

\* The events left behind a frame that is read.
LEMMA ConsumeEvents ==
  ASSUME GatewayTypeOK, Arrived, Consume
  PROVE  /\ \A i \in Events(inbox'[ws]) :
              /\ i \in Nat \ {0}
              /\ i + 1 \in Events(inbox[ws]) \ {1}
              /\ inbox'[ws][i] = inbox[ws][i + 1]
         /\ \A w \in Socket \ {ws} : inbox'[w] = inbox[w]
<1>1. /\ inbox[ws] \in Seq(Frame) /\ inbox[ws] # <<>> /\ ws \in Socket
      /\ inbox'[ws] = Tail(inbox[ws])
  BY DEF Arrived, Consume, GatewayTypeOK
<1>2. ASSUME NEW i \in Events(inbox'[ws])
      PROVE  /\ i \in Nat \ {0}
             /\ i + 1 \in Events(inbox[ws]) \ {1}
             /\ inbox'[ws][i] = inbox[ws][i + 1]
  <2> DEFINE q == inbox[ws]
  <2>0. i \in DOMAIN Tail(q) /\ q \in Seq(Frame) /\ q # <<>>
    BY <1>1, <1>2 DEF Events
  <2> HIDE DEF q
  <2>1. i + 1 \in DOMAIN q /\ Tail(q)[i] = q[i + 1] /\ i + 1 # 1
    BY <2>0, TailAt
  <2>2. i \in Nat \ {0}
    BY <2>0
  <2> QED BY <1>1, <1>2, <2>1, <2>2 DEF Events, q
<1>3. \A w \in Socket \ {ws} : inbox'[w] = inbox[w]
  BY DEF Consume, GatewayTypeOK
<1> QED BY <1>2, <1>3

\* What a delivered frame adds to the events and the replies under way.
LEMMA DeliverIndexes ==
  ASSUME GatewayTypeOK, NEW w \in Socket, NEW f \in Frame, Deliver(w, f)
  PROVE  LET n == Len(inbox[w]) + 1
         IN  /\ n \in Nat \ {0} /\ inbox'[w][n] = f /\ inbox'[w] # <<>>
             /\ \A x \in Socket \ {w} : inbox'[x] = inbox[x]
             /\ \A i \in DOMAIN inbox'[w] :
                  \/ i = n
                  \/ /\ i \in Nat \ {n} /\ i \in DOMAIN inbox[w]
                     /\ inbox'[w][i] = inbox[w][i]
<1> DEFINE q == inbox[w]
           n == Len(q) + 1
<1>1. q \in Seq(Frame) /\ inbox'[w] = Append(q, f)
  BY DEF Deliver, GatewayTypeOK
<1>2. \A x \in Socket \ {w} : inbox'[x] = inbox[x]
  BY DEF Deliver, GatewayTypeOK
<1> HIDE DEF q
<1>3. /\ n \in Nat \ {0} /\ Append(q, f)[n] = f /\ Append(q, f) # <<>>
      /\ \A i \in DOMAIN Append(q, f) :
           \/ i = n
           \/ i \in Nat \ {n} /\ i \in DOMAIN q /\ Append(q, f)[i] = q[i]
  BY <1>1
<1> QED BY <1>1, <1>2, <1>3 DEF q

\* The number of the first event.
LEMMA FirstSentType ==
  ASSUME GatewayTypeOK, firstSent # <<>>
  PROVE  /\ firstSent[1].seq \in Nat /\ firstSent[1].type \in EventType
         /\ Head(firstSent) = firstSent[1]
<1>1. firstSent[1] \in EventFrame /\ Head(firstSent) = firstSent[1]
  BY DEF GatewayTypeOK
<1> QED BY <1>1 DEF EventFrame

\* A frame that is no event, or one without a number, disturbs nothing.
LEMMA PlainKeepsNumbered ==
  ASSUME GatewayTypeOK, Numbered, ws \in Socket, NEW w \in Socket,
         NEW f \in Frame, Deliver(w, f), ~HasNumber(f),
         UNCHANGED <<ws, gwSeq, lastOuter, firstSent, skipped>>,
         missed' \subseteq missed
  PROVE  Numbered'
<1>1. \A i \in Events(inbox'[ws]) :
        i \in Nat /\ i + 0 \in Events(inbox[ws])
        /\ inbox'[ws][i] = inbox[ws][i + 0]
  <2>1. inbox[ws] \in Seq(Frame)
    BY DEF GatewayTypeOK
  <2>2. CASE w = ws
    BY <2>2, DeliverIndexes DEF Events
  <2>3. CASE w # ws
    BY <2>1, <2>3, DeliverIndexes DEF Events
  <2> QED BY <2>2, <2>3
<1> QED BY <1>1, FewerNumbered

\* The next event has the next number, whether it is sent or lost.
LEMMA EmitNumbered ==
  ASSUME GatewayTypeOK, CoreTypeOK, Numbered, OneSocket, UNCHANGED coreVars,
         NEW r \in Run, NEW t \in EventType, EmitEvent(ws, r, t),
         ws \in Socket
  PROVE  Numbered'
<1> DEFINE e == Event(t, r, gwSeq + 1)
<1>0. UNCHANGED <<ws, lastOuter, skipped>>
  BY DEF coreVars
<1>1. /\ gwSeq' = gwSeq + 1 /\ gwSeq \in Nat
      /\ lastOuter \in Nat \cup {NoSeq}
      /\ missed \subseteq Nat /\ skipped \subseteq Nat
      /\ e \in Frame /\ e.seq = gwSeq + 1 /\ e.type \in EventType
  BY DEF EmitEvent, Event, GatewayTypeOK, CoreTypeOK, Frame
<1>2. firstSent # <<>> => firstSent[1].seq \in Nat
  BY FirstSentType
<1>3. ASSUME NEW i \in Events(inbox[ws])
      PROVE  inbox[ws][i].seq \in Nat
  <2>1. inbox[ws][i] \in Frame
    BY <1>3 DEF Events, GatewayTypeOK
  <2> QED BY <2>1 DEF Frame
<1>4. CASE missed' = missed \cup {gwSeq + 1} /\ UNCHANGED <<inbox, firstSent>>
  BY <1>0, <1>1, <1>2, <1>3, <1>4 DEF Numbered
<1>5. CASE /\ Deliver(ws, e)
           /\ firstSent' = IF firstSent = <<>> THEN <<e>> ELSE firstSent
           /\ UNCHANGED missed
  <2> DEFINE n == Len(inbox[ws]) + 1
  <2>1. /\ inbox'[ws][n] = e
        /\ \A i \in Events(inbox'[ws]) :
             \/ i = n
             \/ /\ i # n /\ i \in Events(inbox[ws])
                /\ inbox'[ws][i] = inbox[ws][i]
    BY <1>1, <1>5, DeliverIndexes DEF Events
  <2> HIDE DEF n
  <2>2. firstSent = <<>> => Events(inbox[ws]) = {} /\ lastOuter = NoSeq
    BY DEF Numbered
  <2>3. /\ firstSent' # <<>>
        /\ firstSent'[1].seq = IF firstSent = <<>> THEN gwSeq + 1
                                                  ELSE firstSent[1].seq
    BY <1>1, <1>5
  <2> HIDE DEF e
  <2>4. /\ lastOuter' <= gwSeq'
        /\ \A s \in missed' \cup skipped' : s <= gwSeq'
        /\ lastOuter' # NoSeq
             => firstSent' # <<>> /\ firstSent'[1].seq <= lastOuter'
        /\ firstSent' # <<>> => /\ firstSent'[1].seq <= gwSeq'
                                /\ firstSent'[1].seq \notin missed'
    BY <1>0, <1>1, <1>2, <1>5, <2>2, <2>3 DEF Numbered, NoSeq
  <2>5. ASSUME NEW i \in Events(inbox'[ws])
        PROVE  /\ firstSent' # <<>>
               /\ firstSent'[1].seq <= inbox'[ws][i].seq
               /\ inbox'[ws][i].seq <= gwSeq'
               /\ inbox'[ws][i].seq \notin missed'
               /\ inbox'[ws][i].seq \in skipped'
                    => inbox'[ws][i].seq = firstSent'[1].seq
               /\ \A j \in Events(inbox'[ws]) \ {i} :
                    inbox'[ws][j].seq = inbox'[ws][i].seq
                      => inbox'[ws][i].seq = firstSent'[1].seq
    <3>1. CASE i = n
      <4>1. inbox'[ws][i].seq = gwSeq + 1
        BY <1>1, <2>1, <3>1
      <4>2. \A j \in Events(inbox'[ws]) \ {i} : inbox'[ws][j].seq < gwSeq + 1
        BY <1>1, <1>3, <2>1, <3>1 DEF Numbered
      <4>3. firstSent'[1].seq <= gwSeq + 1
        BY <1>1, <1>2, <2>3 DEF Numbered
      <4>4. gwSeq + 1 \notin missed /\ gwSeq + 1 \notin skipped
        BY <1>1 DEF Numbered
      <4>5. \A j \in Events(inbox'[ws]) \ {i} :
              inbox'[ws][j].seq # inbox'[ws][i].seq
        BY <1>1, <1>3, <2>1, <3>1, <4>1, <4>2
      <4> QED BY <1>0, <1>1, <1>5, <2>3, <4>1, <4>3, <4>4, <4>5
    <3>2. CASE i # n
      <4>1. i \in Events(inbox[ws]) /\ inbox'[ws][i] = inbox[ws][i]
        BY <2>1, <2>5, <3>2
      <4>2. firstSent # <<>> /\ firstSent'[1].seq = firstSent[1].seq
        BY <2>3, <4>1 DEF Numbered
      <4>3. /\ firstSent[1].seq <= inbox[ws][i].seq
            /\ inbox[ws][i].seq <= gwSeq /\ inbox[ws][i].seq \in Nat
            /\ inbox[ws][i].seq \notin missed
            /\ inbox[ws][i].seq \in skipped
                 => inbox[ws][i].seq = firstSent[1].seq
        BY <1>3, <4>1 DEF Numbered
      <4>4. \A j \in Events(inbox'[ws]) \ {i} :
              inbox'[ws][j].seq = inbox'[ws][i].seq
                => inbox'[ws][i].seq = firstSent[1].seq
        BY <1>1, <2>1, <4>1, <4>3 DEF Numbered
      <4> QED BY <1>0, <1>1, <1>5, <2>3, <4>1, <4>2, <4>3, <4>4
    <3> QED BY <3>1, <3>2
  <2> QED BY <1>0, <2>4, <2>5 DEF Numbered
<1> QED BY <1>4, <1>5 DEF EmitEvent

\* The first event comes again under its own number.
LEMMA ResendNumbered ==
  ASSUME GatewayTypeOK, Numbered, UNCHANGED coreVars, Resend(ws),
         ws \in Socket
  PROVE  Numbered'
<1> DEFINE e == firstSent[1]
           n == Len(inbox[ws]) + 1
<1>0. UNCHANGED <<ws, lastOuter, skipped, gwSeq, firstSent, missed>>
  BY DEF coreVars, Resend, gateway
<1>1. /\ firstSent # <<>> /\ Deliver(ws, e) /\ e \in Frame
      /\ e.seq \in Nat
  <2>1. e \in EventFrame /\ Head(firstSent) = e /\ firstSent # <<>>
    BY DEF Resend, GatewayTypeOK
  <2> QED BY <2>1 DEF Resend, EventFrame, Frame
<1>2. /\ inbox'[ws][n] = e
      /\ \A i \in Events(inbox'[ws]) :
           \/ i = n
           \/ i \in Events(inbox[ws]) /\ inbox'[ws][i] = inbox[ws][i]
  BY <1>1, DeliverIndexes DEF Events
<1> HIDE DEF e, n
<1>3. e.seq <= gwSeq /\ e.seq \notin missed /\ e.seq <= e.seq
  BY <1>1 DEF Numbered, e
<1>4. ASSUME NEW i \in Events(inbox'[ws])
      PROVE  /\ firstSent'[1].seq <= inbox'[ws][i].seq
             /\ inbox'[ws][i].seq <= gwSeq'
             /\ inbox'[ws][i].seq \notin missed'
             /\ inbox'[ws][i].seq \in skipped'
                  => inbox'[ws][i].seq = firstSent'[1].seq
             /\ \A j \in Events(inbox'[ws]) \ {i} :
                  inbox'[ws][j].seq = inbox'[ws][i].seq
                    => inbox'[ws][i].seq = firstSent'[1].seq
  <2>1. CASE i = n
    BY <1>0, <1>2, <1>3, <2>1 DEF e
  <2>2. CASE i # n
    <3>1. i \in Events(inbox[ws]) /\ inbox'[ws][i] = inbox[ws][i]
      BY <1>2, <1>4, <2>2
    <3>2. /\ firstSent[1].seq <= inbox[ws][i].seq
          /\ inbox[ws][i].seq <= gwSeq
          /\ inbox[ws][i].seq \notin missed
          /\ inbox[ws][i].seq \in skipped
               => inbox[ws][i].seq = firstSent[1].seq
      BY <3>1 DEF Numbered
    <3>3. \A j \in Events(inbox'[ws]) \ {i} :
            inbox'[ws][j].seq = inbox'[ws][i].seq
              => inbox'[ws][i].seq = firstSent[1].seq
      BY <1>2, <3>1 DEF Numbered, e
    <3> QED BY <1>0, <3>1, <3>2, <3>3
  <2> QED BY <2>1, <2>2
<1> QED BY <1>0, <1>1, <1>4 DEF Numbered

\* What the Gateway does when it serves a request of the shell.
LEMMA ServeFacts ==
  ASSUME GatewayAssumption, GatewayTypeOK, OneCall, NEW w \in Socket, Serve(w),
         call \in Waits \cup {"none"}
  PROVE  /\ sock[w] = "open" /\ w = ws /\ UNCHANGED sock
         /\ \E f \in Frame :
              /\ Deliver(w, f) /\ f.type \in ReplyType
              /\ call = "history" /\ f.type # "error" => missed' = {}
         /\ \/ /\ call = "hello" /\ accepted' = accepted \cup {w}
               /\ subscribed' = {} /\ firstSent' = <<>> /\ missed' = {}
            \/ /\ call # "history" /\ UNCHANGED <<accepted, subscribed,
                                                gwSeq, firstSent, missed>>
            \/ /\ call \in {"history", "send", "abort"}
               /\ missed' \in {missed, {}}
               /\ UNCHANGED <<accepted, gwSeq, firstSent>>
<1> DEFINE q == Head(outbox[w])
<1>0. sock[w] = "open" /\ outbox[w] # <<>>
  BY DEF Serve
<1>1. w = ws /\ outbox[w] = <<Asked>>
  BY <1>0 DEF OneCall, Live
<1>2. q = Asked /\ q \in RequestFrame
  <2>1. Head(<<Asked>>) = Asked
    OBVIOUS
  <2>2. outbox[w] \in Seq(RequestFrame)
    BY DEF GatewayTypeOK
  <2>3. q \in RequestFrame
    BY <1>0, <2>2
  <2> QED BY <1>1, <2>1, <2>3
<1> HIDE DEF q
<1>3. /\ q.type \in RequestType /\ q.session \in Session
      /\ q.type = "connect" => call = "hello"
      /\ q.type # "connect" => call = q.type
  BY <1>2 DEF RequestFrame, Asked, Waits, Asks, Closings
<1>4. MainSession \in Session /\ NoRun \in Run \cup {NoRun}
  BY DEF GatewayAssumption
<1>5. /\ UNCHANGED sock
      /\ \E t \in ReplyType, s \in Session, r \in Run \cup {NoRun} :
           /\ Deliver(w, Reply(t, s, r))
           /\ call = "history" /\ t # "error" => missed' = {}
  <2>1. CASE ServeConnect(w, q)
    BY <1>3, <1>4, <2>1 DEF ServeConnect, Answers, ReplyType
  <2>2. CASE ServeHistory(w, q)
    <3>1. missed' = {} /\ \E t \in ReplyType :
                            Answers(w, Reply(t, q.session, NoRun))
      BY <2>2 DEF ServeHistory, ReplyType
    <3> QED BY <1>3, <3>1 DEF Answers
  <2>3. CASE ServeSend(w, q) \/ ServeAbort(w, q)
    BY <1>3, <2>3 DEF ServeSend, ServeAbort, Answers, ReplyType
  <2>4. CASE ServeError(w, q)
    BY <1>3, <2>4 DEF ServeError, Answers, ReplyType
  <2> QED BY <2>1, <2>2, <2>3, <2>4 DEF Serve, q
<1>6. \E f \in Frame :
        /\ Deliver(w, f) /\ f.type \in ReplyType
        /\ call = "history" /\ f.type # "error" => missed' = {}
  <2>1. PICK t \in ReplyType, s \in Session, r \in Run \cup {NoRun} :
          /\ Deliver(w, Reply(t, s, r))
          /\ call = "history" /\ t # "error" => missed' = {}
    BY <1>5
  <2>2. Reply(t, s, r) \in Frame /\ Reply(t, s, r).type = t
    BY ReplyIsFrame DEF Reply
  <2> QED BY <2>1, <2>2
<1>7. \/ /\ call = "hello" /\ accepted' = accepted \cup {w}
         /\ subscribed' = {} /\ firstSent' = <<>> /\ missed' = {}
      \/ /\ call # "history" /\ UNCHANGED <<accepted, subscribed,
                                          gwSeq, firstSent, missed>>
      \/ /\ call \in {"history", "send", "abort"}
         /\ missed' \in {missed, {}}
         /\ UNCHANGED <<accepted, gwSeq, firstSent>>
  <2>1. CASE ServeConnect(w, q)
    BY <1>3, <2>1 DEF ServeConnect, gateway
  <2>2. CASE ServeHistory(w, q)
    BY <1>3, <2>2 DEF ServeHistory
  <2>3. CASE ServeSend(w, q)
    BY <1>3, <2>3 DEF ServeSend
  <2>4. CASE ServeAbort(w, q)
    BY <1>3, <2>4 DEF ServeAbort, gateway
  <2>5. CASE ServeError(w, q)
    <3>1. call = q.type /\ call \in {"history", "send", "abort", "badConnect"}
      BY <1>3, <2>5 DEF ServeError, RequestType
    <3>2. call # "badConnect"
      BY DEF Waits, Asks, Closings
    <3> QED BY <2>5, <3>1, <3>2 DEF ServeError
  <2> QED BY <2>1, <2>2, <2>3, <2>4, <2>5 DEF Serve, q
<1> QED BY <1>0, <1>1, <1>5, <1>6, <1>7

\* What the far end does leaves every loss accounted for.
LEMMA GatewayLoss ==
  ASSUME ShellInv, OneCall, Heard, LossInv, GatewayNext,
         UNCHANGED <<control, coreVars>>, GatewayAssumption
  PROVE  LossInv'
<1> USE DEF LossInv
<1>0. /\ GatewayTypeOK /\ CoreTypeOK /\ ReadyMeansHello /\ Control
      /\ UNCHANGED <<ws, ready, needsRecovery, lastOuter, call, skipped>>
      /\ call \in {"challenge", "hello"} => ~ready
  BY DEF ShellInv, CoreTypeOK, coreVars, Control, Heard
<1>1. accepted \subseteq Socket /\ (ready => ws \in Socket)
  BY <1>0 DEF GatewayTypeOK, ReadyMeansHello
<1>2. ASSUME NEW w \in Socket, Opens(w)
      PROVE  LossInv'
  <2>1. /\ sock[w] = "opening" /\ w = ws /\ w \notin accepted /\ ~ready
        /\ sock' = [sock EXCEPT ![w] = "open"]
        /\ UNCHANGED <<accepted, subscribed, firstSent, missed>>
    BY <1>0, <1>2 DEF Opens, gateway, OneSocket, ReadyMeansHello
  <2>2. PICK f \in Frame : Deliver(w, f) /\ f.type \notin EventType
                                       /\ f.type \notin ReplyType
    <3>1. PICK c \in {"challenge", "badChallenge"} :
            Deliver(w, Reply(c, MainSession, NoRun))
      BY <1>2 DEF Opens
    <3>2. Reply(c, MainSession, NoRun) \in Frame
      BY ReplyIsFrame DEF GatewayAssumption
    <3> QED BY <3>1, <3>2 DEF Reply, EventType, ReplyType
  <2>3. OneSocket'
    BY <1>0, <2>1, <2>2, DeliverIndexes DEF OneSocket, GatewayTypeOK
  <2>4. Fresh'
    <3>1. \A x \in Socket : inbox[x] = <<>>
      BY <2>1 DEF OneSocket
    <3>2. \A x \in Socket : Events(inbox'[x]) = {}
      BY <1>0, <2>1, <2>2, <3>1, DeliverIndexes DEF Events, HasNumber
    <3> QED BY <1>0, <1>1, <2>1, <3>2 DEF Fresh, GatewayTypeOK
  <2>5. Reloaded' /\ Flagged' /\ ~ready'
    BY <1>0, <2>1 DEF Reloaded, Flagged, Control
  <2> QED BY <2>3, <2>4, <2>5
<1>3. ASSUME NEW w \in Socket, Serve(w)
      PROVE  LossInv'
  <2>1. /\ sock[w] = "open" /\ w = ws /\ UNCHANGED sock
        /\ \/ /\ call = "hello" /\ accepted' = accepted \cup {w}
              /\ subscribed' = {} /\ firstSent' = <<>> /\ missed' = {}
           \/ /\ call # "history" /\ UNCHANGED <<accepted, subscribed,
                                               gwSeq, firstSent, missed>>
           \/ /\ call \in {"history", "send", "abort"}
              /\ missed' \in {missed, {}}
              /\ UNCHANGED <<accepted, gwSeq, firstSent>>
    BY <1>0, <1>3, ServeFacts DEF CoreTypeOK
  <2>2. PICK f \in Frame :
          /\ Deliver(w, f) /\ f.type \in ReplyType
          /\ call = "history" /\ f.type # "error" => missed' = {}
    BY <1>0, <1>3, ServeFacts DEF CoreTypeOK
  <2>3. ~HasNumber(f)
    BY <2>2 DEF ReplyType, EventType, HasNumber
  <2>4. OneSocket'
    BY <1>0, <2>1, <2>2, DeliverIndexes DEF OneSocket
  <2>5. missed' \subseteq missed
    BY <2>1
  <2>6. Fresh'
    <3>1. CASE ready
      BY <1>0, <3>1 DEF Fresh
    <3>2. CASE ~ready
      <4>1. \A x \in Socket : sock[x] = "open" => Events(inbox'[x]) = {}
        BY <1>0, <2>1, <2>2, <2>3, <3>2, DeliverIndexes DEF Fresh, Events
      <4>2. call \notin {"history", "send", "abort"}
        BY <1>0, <3>2 DEF Control
      <4>3. \A x \in accepted' : sock[x] = "open" =>
              subscribed' = {} /\ firstSent' = <<>> /\ missed' = {}
        BY <2>1, <3>2, <4>2 DEF Fresh
      <4> QED BY <2>1, <4>1, <4>3 DEF Fresh
    <3> QED BY <3>1, <3>2
  <2>7. ASSUME ready'
        PROVE  Numbered'
    <3>1. UNCHANGED <<gwSeq, firstSent>> /\ Numbered
      BY <1>0, <2>1, <2>7
    <3> QED BY <1>0, <2>1, <2>2, <2>3, <2>5, <3>1, PlainKeepsNumbered
  <2>8. Reloaded'
    <3> SUFFICES ASSUME call = "history", NEW i \in Replies(inbox'[ws]),
                        inbox'[ws][i].type # "error", NEW x \in missed'
                 PROVE  x > lastOuter
      BY <1>0 DEF Reloaded
    <3>1. missed' # {} /\ x \in missed
      BY <2>5
    <3>2. f.type = "error"
      BY <2>2, <3>1
    <3>3. i \in Replies(inbox[ws]) /\ inbox'[ws][i] = inbox[ws][i]
      BY <1>0, <2>1, <2>2, <3>2, DeliverIndexes DEF Replies
    <3> QED BY <3>1, <3>3 DEF Reloaded
  <2>9. Flagged'
    BY <1>0, <2>5 DEF Flagged
  <2> QED BY <2>4, <2>6, <2>7, <2>8, <2>9
<1>4. ASSUME NEW w \in Socket, Streams(w)
      PROVE  /\ w = ws /\ sock[ws] = "open" /\ inbox[ws] \in Seq(Frame)
             /\ ready => Numbered
             /\ ~ready => subscribed = {} /\ firstSent = <<>>
  BY <1>0, <1>1, <1>4 DEF Streams, OneSocket, Fresh, GatewayTypeOK
<1>5. ASSUME NEW w \in Socket, Streams(w), ready,
             UNCHANGED <<sock, accepted>>, Numbered',
             missed' = missed \/ (missed' = missed \cup {gwSeq + 1}
                                 /\ inbox' = inbox),
             inbox' = inbox \/ \E e \in Frame : Deliver(w, e)
                                          /\ e.type \notin ReplyType
      PROVE  LossInv'
  <2>1. OneSocket'
    BY <1>0, <1>4, <1>5, DeliverIndexes DEF OneSocket
  <2>2. Fresh'
    BY <1>0, <1>5 DEF Fresh
  <2>3. /\ gwSeq \in Nat /\ lastOuter \in Nat \cup {NoSeq}
        /\ lastOuter <= gwSeq
    BY <1>0, <1>4, <1>5 DEF GatewayTypeOK, CoreTypeOK, Numbered
  <2>4. gwSeq + 1 > lastOuter /\ gwSeq + 1 # lastOuter
        /\ ~(gwSeq + 1 < lastOuter)
    BY <2>3 DEF NoSeq
  <2>5. Flagged'
    BY <1>0, <1>5, <2>4 DEF Flagged
  <2>6. \A i \in Replies(inbox'[ws]) :
          i \in Replies(inbox[ws]) /\ inbox'[ws][i] = inbox[ws][i]
    BY <1>0, <1>4, <1>5, DeliverIndexes DEF Replies
  <2>7. Reloaded'
    BY <1>0, <1>5, <2>4, <2>6 DEF Reloaded
  <2> QED BY <1>5, <2>1, <2>2, <2>5, <2>7
<1>6. ASSUME NEW w \in Socket, Resend(w)
      PROVE  LossInv'
  <2>1. Streams(w) /\ ready /\ w = ws
    BY <1>4, <1>6 DEF Resend
  <2>2. Head(firstSent) \in Frame /\ Head(firstSent).type \notin ReplyType
    <3>1. Head(firstSent) \in EventFrame
      BY <1>0, <1>6 DEF Resend, GatewayTypeOK
    <3> QED BY <3>1 DEF EventFrame, Frame, EventType, ReplyType
  <2>3. Numbered'
    BY <1>0, <1>4, <1>6, <2>1, ResendNumbered DEF coreVars
  <2> QED BY <1>5, <1>6, <2>1, <2>2, <2>3 DEF Resend, gateway
<1>7. ASSUME NEW w \in Socket, NEW r \in Run, NEW t \in EventType,
             EmitEvent(w, r, t)
      PROVE  LossInv'
  <2>1. Streams(w) /\ ready /\ w = ws
    BY <1>4, <1>7 DEF EmitEvent, RunEmits
  <2>2. Numbered'
    BY <1>0, <1>4, <1>7, <2>1, EmitNumbered DEF coreVars
  <2> DEFINE e == Event(t, r, gwSeq + 1)
  <2>3. e \in Frame /\ e.type \notin ReplyType
    BY <1>0 DEF Event, Frame, EventType, ReplyType, GatewayTypeOK
  <2>4. \/ Deliver(w, e) /\ missed' = missed
        \/ inbox' = inbox /\ missed' = missed \cup {gwSeq + 1}
    BY <1>7 DEF EmitEvent
  <2>5. UNCHANGED <<sock, accepted>>
    BY <1>7 DEF EmitEvent
  <2> HIDE DEF e
  <2> QED BY <1>5, <2>1, <2>2, <2>3, <2>4, <2>5
<1>8. ASSUME NEW w \in Socket, NetworkFails(w) \/ ServerCloses(w)
      PROVE  LossInv'
  <2>1. /\ w = ws
        /\ sock'[ws] # "open"
        /\ sock'[ws] \notin {"unused", "opening"}
        /\ \A x \in Socket \ {ws} : sock'[x] = sock[x] /\ inbox'[x] = inbox[x]
        /\ inbox'[ws] = <<>>
        /\ UNCHANGED <<accepted, subscribed, firstSent, missed>>
    BY <1>0, <1>8 DEF NetworkFails, ServerCloses, OneSocket, gateway,
       GatewayTypeOK
  <2>2. OneSocket'
    BY <1>0, <2>1 DEF OneSocket
  <2>3. Fresh'
    BY <1>0, <1>1, <2>1 DEF Fresh, Events
  <2>4. Reloaded' /\ Flagged'
    BY <1>0, <2>1 DEF Reloaded, Flagged, Replies
  <2> QED BY <1>0, <2>1, <2>2, <2>3, <2>4
<1>9. ASSUME NEW w \in Socket, NEW r \in Run, NEW t \in EventType,
             EmitUnnumbered(w, r, t)
      PROVE  LossInv'
  <2>1. Streams(w) /\ ready /\ w = ws /\ w \in Socket
    BY <1>4, <1>9 DEF EmitUnnumbered, RunEmits
  <2> DEFINE e == Event(t, r, NoNumber)
  <2>2. e \in Frame /\ e.type \notin ReplyType /\ ~HasNumber(e)
    BY <1>0 DEF Event, Frame, EventType, ReplyType, HasNumber, NoNumber,
       GatewayTypeOK
  <2>3. /\ Deliver(w, e) \/ inbox' = inbox
        /\ UNCHANGED <<sock, accepted, gwSeq, firstSent, missed>>
    BY <1>9 DEF EmitUnnumbered
  <2> HIDE DEF e
  <2>4. Numbered'
    <3>1. CASE Deliver(w, e)
      BY <1>0, <1>4, <2>1, <2>2, <2>3, <3>1, PlainKeepsNumbered
    <3>2. CASE inbox' = inbox
      BY <1>0, <1>4, <2>1, <2>3, <3>2 DEF Numbered
    <3> QED BY <2>3, <3>1, <3>2
  <2> QED BY <1>5, <2>1, <2>2, <2>3, <2>4
<1> QED BY <1>2, <1>3, <1>6, <1>7, <1>8, <1>9 DEF GatewayNext

\* The far end closes what this side has hung up on.
LEMMA FarEndLoss ==
  ASSUME CoreTypeOK, ReadyMeansHello, LossInv, FarEndCloses,
         UNCHANGED coreVars
  PROVE  LossInv'
<1> USE DEF LossInv
<1>0. /\ GatewayTypeOK /\ ws \in Socket
      /\ sock[ws] = "closing" /\ sock' = [sock EXCEPT ![ws] = "dead"]
      /\ UNCHANGED <<ws, ready, needsRecovery, lastOuter, call, skipped>>
      /\ UNCHANGED <<inbox, accepted, subscribed, firstSent, missed>>
      /\ accepted \subseteq Socket
  BY DEF FarEndCloses, CoreTypeOK, coreVars, gateway, GatewayTypeOK
<1>1. /\ sock'[ws] = "dead"
      /\ \A x \in Socket \ {ws} : sock'[x] = sock[x]
  BY <1>0 DEF GatewayTypeOK
<1>2. OneSocket'
  BY <1>0, <1>1 DEF OneSocket
<1>3. Fresh'
  BY <1>0, <1>1 DEF Fresh
<1>4. Reloaded' /\ Flagged'
  BY <1>0 DEF Reloaded, Flagged
<1> QED BY <1>0, <1>1, <1>2, <1>3, <1>4

\* A client that is not ready, or whose socket is gone, has little to keep.
LEMMA OffLoss ==
  ASSUME OneSocket', ~ready', call' # "history",
         \A w \in Socket : sock'[w] = "open" => Events(inbox'[w]) = {},
         \A w \in accepted' : sock'[w] = "open" =>
           subscribed' = {} /\ firstSent' = <<>> /\ missed' = {}
  PROVE  LossInv'
BY DEF LossInv, Fresh, Reloaded, Flagged

\* close() and the dial.
LEMMA CloseLoss ==
  ASSUME GatewayTypeOK, OneSocket, inbox' = Cleared(inbox), ~ready',
         call' # "history", accepted' = accepted,
         \/ sock' = HungUp /\ ws' = NoSocket
         \/ \E w \in Socket : /\ sock[w] = "unused" /\ ws' = w
                             /\ sock' = [HungUp EXCEPT ![w] = "opening"]
  PROVE  LossInv'
<1>1. OneSocket'
  <2>1. \A w \in Socket : inbox'[w] = <<>>
    BY DEF OneSocket, Cleared
  <2>2. /\ sock \in [Socket -> SocketState]
        /\ \A w \in Socket : sock[w] \in {"opening", "open", "halfClosed",
                                        "closing"} => w = ws
        /\ \A w \in Socket : sock[w] \in {"unused", "opening"}
                              => w \notin accepted
    BY DEF OneSocket, GatewayTypeOK
  <2>3. ASSUME NEW w \in Socket
        PROVE  /\ sock'[w] \in {"opening", "open", "halfClosed", "closing"}
                    => w = ws'
               /\ sock'[w] \in {"unused", "opening"} => w \notin accepted'
    BY <2>2 DEF HungUp
  <2> QED BY <2>1, <2>3 DEF OneSocket
<1>2. ASSUME NEW w \in Socket
      PROVE  Events(inbox'[w]) = {} /\ sock'[w] # "open"
  <2>1. inbox'[w] = <<>>
    BY DEF OneSocket, Cleared
  <2>2. Events(<<>>) = {}
    BY DEF Events
  <2>3. sock'[w] # "open"
    BY DEF OneSocket, HungUp, GatewayTypeOK
  <2> QED BY <2>1, <2>2, <2>3
<1>3. accepted \subseteq Socket
  BY DEF GatewayTypeOK
<1> QED BY <1>1, <1>2, <1>3, OffLoss

\* A close frame is sent.
LEMMA HangUpLoss ==
  ASSUME GatewayTypeOK, OneSocket, NEW wait \in Closings, HangUp(wait)
  PROVE  LossInv'
<1>1. /\ ws \in Socket /\ sock'[ws] = "closing" /\ sock[ws] \notin {"unused"}
      /\ \A w \in Socket \ {ws} : sock'[w] = sock[w]
      /\ sock[ws] \in {"open", "halfClosed"}
      /\ call' \in Closings /\ call' # "history" /\ ~ready'
      /\ UNCHANGED <<ws, inbox, accepted>>
  BY DEF HangUp, GatewayTypeOK, Closings, gateway
<1>2. OneSocket'
  BY <1>1 DEF OneSocket
<1>3. \A w \in Socket : sock'[w] # "open"
  BY <1>1 DEF OneSocket
<1>4. accepted' \subseteq Socket
  BY <1>1 DEF GatewayTypeOK
<1> QED BY <1>1, <1>2, <1>3, <1>4, OffLoss

\* The link is found broken, by a call or by pump().
LEMMA BreakLoss ==
  ASSUME ShellInv, LossInv, Broken, sock' = [sock EXCEPT ![ws] = "failed"],
         UNCHANGED <<ws, lastOuter, inbox, accepted, subscribed, firstSent,
                     missed>>,
         call' # "history",
         \/ UNCHANGED <<ready, needsRecovery, skipped>> \/ ~ready'
  PROVE  LossInv'
<1>0. GatewayTypeOK /\ ws \in Socket /\ sock'[ws] = "failed"
  BY DEF ShellInv, CoreTypeOK, Broken, GatewayTypeOK
<1>1. OneSocket'
  BY <1>0 DEF LossInv, OneSocket, Broken, GatewayTypeOK
<1>2. \A w \in Socket : Events(inbox'[w]) = {} /\ sock'[w] # "open"
  BY <1>0 DEF LossInv, OneSocket, Broken, Events, GatewayTypeOK
<1>3. accepted \subseteq Socket
  BY <1>0 DEF GatewayTypeOK
<1>4. Fresh' /\ Reloaded'
  BY <1>2, <1>3 DEF Fresh, Reloaded
<1>5. CASE UNCHANGED <<ready, needsRecovery, skipped>>
  BY <1>0, <1>1, <1>4, <1>5 DEF LossInv, Flagged
<1>6. CASE ~ready'
  BY <1>0, <1>1, <1>4, <1>6 DEF LossInv, Flagged
<1> QED BY <1>5, <1>6

\* A frame read: what follows for the sockets and for what is under way.
LEMMA ReadLoss ==
  ASSUME GatewayTypeOK, OneSocket, Arrived, Consume, call \notin Closings,
         UNCHANGED <<ws, sock, accepted>>
  PROVE  /\ OneSocket' /\ sock[ws] = "open" /\ ws \in Socket
         /\ Fresh /\ ~ready => \A w \in Socket : Events(inbox'[w]) = {}
<1>1. ws \in Socket /\ inbox[ws] # <<>> /\ sock[ws] = "open"
  BY DEF Arrived, OneSocket
<1>2. OneSocket'
  BY <1>1, ConsumeEvents DEF OneSocket
<1>3. ASSUME Fresh, ~ready, NEW w \in Socket
      PROVE  Events(inbox'[w]) = {}
  <2>1. CASE w = ws
    <3>1. Events(inbox[ws]) = {}
      BY <1>1, <1>3 DEF Fresh
    <3> QED BY <2>1, <3>1, ConsumeEvents
  <2>2. CASE w # ws
    <3>1. inbox'[w] = <<>>
      BY <2>2, ConsumeEvents DEF OneSocket
    <3> QED BY <3>1 DEF Events
  <2> QED BY <2>1, <2>2
<1> QED BY <1>1, <1>2, <1>3

\* The tracker sees the next event.
LEMMA ObserveLoss ==
  ASSUME CoreTypeOK, LossInv, PumpReads
  PROVE  LossInv'
<1> USE DEF LossInv
<1>0. /\ GatewayTypeOK /\ ready /\ ready' /\ Arrived /\ Consume
      /\ call' = "none" /\ UNCHANGED <<ws, sock, accepted, gwSeq, firstSent>>
      /\ call \notin Closings
  BY DEF PumpReads, Pumping, CoreTypeOK, gateway, Closings
<1>1. OneSocket' /\ sock[ws] = "open" /\ ws \in Socket
  BY <1>0, ReadLoss
<1>2. Numbered
  BY <1>0, <1>1
<1>3. Fresh' /\ Reloaded'
  BY <1>0 DEF Fresh, Reloaded
<1> DEFINE m == Frame1
<1>4. /\ m.seq # NoNumber => 1 \in Events(inbox[ws])
      /\ m = inbox[ws][1] /\ m.seq \in Nat
  <2> DEFINE q == inbox[ws]
  <2>1. q \in Seq(Frame) /\ q # <<>> /\ m = Head(q)
    BY <1>0, <1>1 DEF Arrived, Frame1, GatewayTypeOK
  <2>2. m.seq \in Nat /\ m.type \in EventType
    BY <1>0, Frame1Type DEF PumpReads
  <2> HIDE DEF q, m
  <2>3. 1 \in DOMAIN q /\ Head(q) = q[1]
    BY <2>1
  <2> QED BY <2>1, <2>2, <2>3 DEF Events, HasNumber, q
<1>5. /\ lastOuter \in Nat \cup {NoSeq} /\ gwSeq \in Nat
      /\ missed \subseteq Nat /\ skipped \subseteq Nat
      /\ firstSent # <<>> => firstSent[1].seq \in Nat
  BY <1>0, FirstSentType DEF CoreTypeOK, GatewayTypeOK
<1> HIDE DEF m
<1>6. CASE m.seq = NoNumber \/ Stale(m)
  <2>1. UNCHANGED <<needsRecovery, lastOuter, skipped, missed>>
    BY <1>6 DEF PumpReads, Observe, m
  <2>2. Flagged'
    BY <1>0, <2>1 DEF Flagged
  <2>3. Numbered'
    BY <1>0, <1>2, <2>1, ConsumeEvents, FewerNumbered
  <2> QED BY <1>1, <1>3, <2>2, <2>3
<1>7. CASE m.seq # NoNumber /\ ~Stale(m)
  <2>1. /\ needsRecovery' = (needsRecovery \/ Gap(m))
        /\ lastOuter' = m.seq
        /\ skipped' = FirstIs(m, skipped)
        /\ missed' = FirstIs(m, missed)
    BY <1>7 DEF PumpReads, Observe, m
  <2>2. missed' \subseteq missed /\ skipped' \subseteq skipped
    BY <2>1 DEF FirstIs
  <2>3. /\ firstSent # <<>> /\ firstSent[1].seq <= m.seq /\ m.seq <= gwSeq
        /\ m.seq \notin missed
        /\ m.seq \in skipped => m.seq = firstSent[1].seq
    BY <1>2, <1>4, <1>7 DEF Numbered
  <2>4. Flagged'
    <3> SUFFICES ASSUME NEW s \in missed' \cup skipped'
                 PROVE  s # m.seq /\ (s < m.seq => needsRecovery')
      BY <1>0, <2>1 DEF Flagged
    <3>0. s \in missed \cup skipped /\ s \in Nat
      BY <1>5, <2>2
    <3>1. CASE lastOuter = NoSeq
      <4>1. s > m.seq
        BY <2>1, <3>1 DEF FirstIs
      <4> QED BY <1>4, <3>0, <4>1
    <3>2. CASE lastOuter # NoSeq
      <4>1. /\ m.seq > lastOuter /\ lastOuter \in Nat
            /\ firstSent[1].seq <= lastOuter /\ firstSent[1].seq \in Nat
        BY <1>2, <1>4, <1>5, <1>7, <2>3, <3>2 DEF Stale, Numbered
      <4>2. s # m.seq
        BY <1>4, <2>3, <3>0, <4>1
      <4>3. s # lastOuter /\ (s < lastOuter => needsRecovery)
        BY <1>0, <3>0 DEF Flagged
      <4>4. ASSUME s < m.seq PROVE needsRecovery \/ Gap(m)
        BY <1>4, <3>0, <3>2, <4>1, <4>3, <4>4 DEF Gap
      <4> QED BY <2>1, <4>2, <4>4
    <3> QED BY <3>1, <3>2
  <2>5. Numbered'
    <3>1. /\ lastOuter' <= gwSeq' /\ firstSent'[1].seq <= lastOuter'
          /\ \A s \in missed' \cup skipped' : s <= gwSeq'
          /\ firstSent' # <<>> /\ firstSent'[1].seq <= gwSeq'
          /\ firstSent'[1].seq \notin missed'
      BY <1>0, <1>2, <2>1, <2>2, <2>3 DEF Numbered
    <3>2. ASSUME NEW i \in Events(inbox'[ws])
          PROVE  /\ firstSent'[1].seq <= inbox'[ws][i].seq
                 /\ inbox'[ws][i].seq <= gwSeq'
                 /\ inbox'[ws][i].seq \notin missed'
                 /\ inbox'[ws][i].seq \in skipped'
                      => inbox'[ws][i].seq = firstSent'[1].seq
                 /\ \A j \in Events(inbox'[ws]) \ {i} :
                      inbox'[ws][j].seq = inbox'[ws][i].seq
                        => inbox'[ws][i].seq = firstSent'[1].seq
      <4>1. /\ i + 1 \in Events(inbox[ws]) /\ i \in Nat
            /\ inbox'[ws][i] = inbox[ws][i + 1]
        BY <1>0, ConsumeEvents
      <4>2. /\ firstSent[1].seq <= inbox[ws][i + 1].seq
            /\ inbox[ws][i + 1].seq <= gwSeq
            /\ inbox[ws][i + 1].seq \notin missed
            /\ inbox[ws][i + 1].seq \in skipped
                 => inbox[ws][i + 1].seq = firstSent[1].seq
        BY <1>2, <4>1 DEF Numbered
      <4>3. ASSUME NEW j \in Events(inbox'[ws]) \ {i},
                   inbox'[ws][j].seq = inbox'[ws][i].seq
            PROVE  inbox'[ws][i].seq = firstSent[1].seq
        <5>0. /\ j \in Nat /\ j # i /\ j + 1 \in Events(inbox[ws])
              /\ inbox'[ws][j] = inbox[ws][j + 1]
          BY <1>0, ConsumeEvents
        <5>1. j + 1 # i + 1
          BY <4>1, <5>0
        <5> QED BY <1>2, <4>1, <4>3, <5>0, <5>1 DEF Numbered
      <4> QED BY <1>0, <2>2, <4>1, <4>2, <4>3
    <3> QED BY <1>0, <3>1, <3>2 DEF Numbered
  <2> QED BY <1>1, <1>3, <2>4, <2>5
<1> QED BY <1>6, <1>7

\* A call skips an event, and remembers that it did.
LEMMA SkipLoss ==
  ASSUME CoreTypeOK, LossInv, OneCall, SkipEvent, ready
  PROVE  LossInv'
<1> USE DEF LossInv
<1> DEFINE m == Frame1
<1>0. /\ GatewayTypeOK /\ Arrived /\ Consume
      /\ UNCHANGED <<ws, sock, accepted, gwSeq, firstSent, ready, lastOuter,
                     needsRecovery, missed, call>>
      /\ skipped' = IF m.seq = NoNumber \/ Stale(m)
                      THEN skipped ELSE skipped \cup {m.seq}
      /\ call \notin Closings
  BY DEF SkipEvent, CoreTypeOK, gateway, Closings
<1>1. OneSocket' /\ sock[ws] = "open" /\ ws \in Socket
  BY <1>0, ReadLoss
<1>2. Numbered
  BY <1>0, <1>1
<1>3. Fresh'
  BY <1>0 DEF Fresh
<1>4. Reloaded'
  BY <1>0, ConsumeReplies DEF Reloaded
<1>5. /\ m.seq # NoNumber => 1 \in Events(inbox[ws])
      /\ m = inbox[ws][1] /\ m.seq \in Nat
  <2> DEFINE q == inbox[ws]
  <2>1. q \in Seq(Frame) /\ q # <<>> /\ m = Head(q)
    BY <1>0, <1>1 DEF Arrived, Frame1, GatewayTypeOK
  <2>2. m.seq \in Nat /\ m.type \in EventType
    BY <1>0, Frame1Type DEF SkipEvent
  <2> HIDE DEF q, m
  <2>3. 1 \in DOMAIN q /\ Head(q) = q[1]
    BY <2>1
  <2> QED BY <2>1, <2>2, <2>3 DEF Events, HasNumber, q
<1> HIDE DEF m
<1>6. CASE m.seq = NoNumber \/ Stale(m)
  <2>1. Numbered'
    BY <1>0, <1>2, <1>6, ConsumeEvents, FewerNumbered
  <2>2. Flagged'
    BY <1>0, <1>6 DEF Flagged
  <2> QED BY <1>1, <1>3, <1>4, <2>1, <2>2
<1>7. CASE m.seq # NoNumber /\ ~Stale(m)
  <2>1. skipped' = skipped \cup {m.seq}
    BY <1>0, <1>7
  <2>2. m.seq # lastOuter /\ ~(m.seq < lastOuter)
    <3>1. lastOuter \in Nat \cup {NoSeq}
      BY DEF CoreTypeOK
    <3> QED BY <1>5, <1>7, <3>1 DEF Stale, NoSeq
  <2>3. Flagged'
    BY <1>0, <2>1, <2>2 DEF Flagged
  <2>4. /\ lastOuter' <= gwSeq' /\ m.seq <= gwSeq
        /\ \A s \in missed' \cup skipped' : s <= gwSeq'
        /\ lastOuter' # NoSeq
             => firstSent' # <<>> /\ firstSent'[1].seq <= lastOuter'
        /\ firstSent' # <<>> => /\ firstSent'[1].seq <= gwSeq'
                                /\ firstSent'[1].seq \notin missed'
    BY <1>0, <1>2, <1>5, <1>7, <2>1 DEF Numbered
  <2>5. ASSUME NEW i \in Events(inbox'[ws])
        PROVE  /\ firstSent' # <<>>
               /\ firstSent'[1].seq <= inbox'[ws][i].seq
               /\ inbox'[ws][i].seq <= gwSeq'
               /\ inbox'[ws][i].seq \notin missed'
               /\ inbox'[ws][i].seq \in skipped'
                    => inbox'[ws][i].seq = firstSent'[1].seq
               /\ \A j \in Events(inbox'[ws]) \ {i} :
                    inbox'[ws][j].seq = inbox'[ws][i].seq
                      => inbox'[ws][i].seq = firstSent'[1].seq
    <3>1. /\ i + 1 \in Events(inbox[ws]) \ {1} /\ i \in Nat
          /\ inbox'[ws][i] = inbox[ws][i + 1]
      BY <1>0, ConsumeEvents
    <3>2. /\ firstSent # <<>>
          /\ firstSent[1].seq <= inbox[ws][i + 1].seq
          /\ inbox[ws][i + 1].seq <= gwSeq
          /\ inbox[ws][i + 1].seq \notin missed
          /\ inbox[ws][i + 1].seq \in skipped
               => inbox[ws][i + 1].seq = firstSent[1].seq
      BY <1>2, <3>1 DEF Numbered
    <3>3. inbox[ws][i + 1].seq = m.seq => m.seq = firstSent[1].seq
      BY <1>2, <1>5, <1>7, <3>1 DEF Numbered
    <3>4. ASSUME NEW j \in Events(inbox'[ws]) \ {i},
                 inbox'[ws][j].seq = inbox'[ws][i].seq
          PROVE  inbox'[ws][i].seq = firstSent[1].seq
      <4>1. /\ j + 1 \in Events(inbox[ws]) \ {i + 1}
            /\ inbox'[ws][j] = inbox[ws][j + 1]
        BY <1>0, <3>1, ConsumeEvents
      <4> QED BY <1>2, <3>1, <3>4, <4>1 DEF Numbered
    <3> QED BY <1>0, <2>1, <3>1, <3>2, <3>3, <3>4
  <2>6. Numbered'
    BY <1>0, <2>4, <2>5 DEF Numbered
  <2> QED BY <1>1, <1>3, <1>4, <2>3, <2>6
<1> QED BY <1>6, <1>7

\* The hello starts the count anew; a reload makes good what was lost.
LEMMA ReturnLoss ==
  ASSUME CoreTypeOK, LossInv, OneCall, ReadyMeansHello', Arrived, Consume,
         call \notin Closings,
         UNCHANGED <<ws, sock, accepted, subscribed, gwSeq, firstSent>>,
         UNCHANGED missed,
         call' = "none",
         \/ /\ UNCHANGED <<ready, needsRecovery, lastOuter, skipped>>
         \/ /\ ~ready /\ ready' /\ lastOuter' = NoSeq /\ skipped' = {}
            /\ needsRecovery' = FALSE
         \/ /\ call = "history" /\ Frame1.type \in ReplyType \ {"error"}
            /\ skipped' = {} /\ needsRecovery' = FALSE
            /\ UNCHANGED <<ready, lastOuter>>
  PROVE  LossInv'
<1> USE DEF LossInv
<1>0. GatewayTypeOK
  BY DEF CoreTypeOK
<1>1. OneSocket' /\ sock[ws] = "open" /\ ws \in Socket
  BY <1>0, ReadLoss
<1>2. Reloaded'
  BY DEF Reloaded
<1>3. CASE ~ready /\ ready' /\ lastOuter' = NoSeq /\ skipped' = {}
  <2>1. \A w \in Socket : Events(inbox'[w]) = {}
    BY <1>0, <1>3, ReadLoss
  <2>2. firstSent' = <<>> /\ missed' = {} /\ gwSeq' \in Nat
    BY <1>0, <1>1, <1>3 DEF Fresh, ReadyMeansHello, GatewayTypeOK
  <2>3. Numbered'
    BY <1>1, <1>3, <2>1, <2>2 DEF Numbered, NoSeq
  <2> QED BY <1>1, <1>2, <1>3, <2>2, <2>3 DEF Fresh, Flagged
<1>4. CASE UNCHANGED <<ready, lastOuter>> /\ skipped' \in {skipped, {}}
  <2>1. Fresh'
    BY <1>0, <1>4, ReadLoss DEF Fresh
  <2>2. ready => Numbered'
    BY <1>0, <1>1, <1>4, ConsumeEvents, FewerNumbered
  <2>3. CASE UNCHANGED <<needsRecovery, skipped>>
    BY <1>1, <1>2, <1>4, <2>1, <2>2, <2>3 DEF Flagged
  <2>4. CASE /\ call = "history" /\ Frame1.type \in ReplyType \ {"error"}
             /\ skipped' = {}
    <3>1. 1 \in Replies(inbox[ws]) /\ inbox[ws][1].type # "error"
      BY <1>0, <1>1, <2>4 DEF Arrived, Frame1, Replies, GatewayTypeOK
    <3>2. \A s \in missed : s > lastOuter
      BY <2>4, <3>1 DEF Reloaded
    <3>3. missed \subseteq Nat /\ lastOuter \in Nat \cup {NoSeq}
      BY DEF CoreTypeOK, GatewayTypeOK
    <3>4. \A s \in missed : s # lastOuter /\ ~(s < lastOuter)
      BY <3>2, <3>3 DEF NoSeq
    <3> QED BY <1>1, <1>2, <1>4, <2>1, <2>2, <2>4, <3>4 DEF Flagged
  <2>5. ~(ready' /\ ~ready)
    BY <1>4
  <2> QED BY <2>3, <2>4, <2>5
<1> QED BY <1>3, <1>4

\* What the program does leaves every loss accounted for.
LEMMA ShellLoss ==
  ASSUME ShellInv, ShellInv', OneCall, Heard, LossInv, ShellNext \/ UserNext
  PROVE  LossInv'
<1> USE DEF LossInv, gateway
<1>0. /\ CoreTypeOK /\ GatewayTypeOK /\ Control
      /\ ReadyMeansHello /\ ReadyMeansHello'
  BY DEF ShellInv, CoreTypeOK
<1>1. CASE NoRoute \/ CloseFailed \/ Leave
  <2>1. ClosedOnly /\ call # "history"
    BY <1>0, <1>1 DEF NoRoute, CloseFailed, Leave, Control
  <2> QED BY <1>0, <2>1, CloseLoss DEF ClosedOnly, Close
<1>2. CASE Dials
  <2>1. PICK w \in Socket : Dial(w)
    BY <1>2 DEF Dials
  <2> QED BY <1>0, <1>2, <2>1, CloseLoss DEF Dial, Dials
<1>3. CASE AnswerChallenge
  <2>1. /\ SendConnect /\ ~ready /\ ~ready' /\ call' = "hello"
        /\ Arrived /\ Consume
        /\ UNCHANGED <<ws, sock, accepted, subscribed, firstSent, missed>>
    BY <1>3 DEF AnswerChallenge, SendConnect, Heard
  <2>2. OneSocket' /\ \A w \in Socket : Events(inbox'[w]) = {}
    <3>1. call \notin Closings
      BY <1>3 DEF AnswerChallenge, SendConnect, Closings
    <3> QED BY <1>0, <2>1, <3>1, ReadLoss
  <2> QED BY <2>1, <2>2, OffLoss DEF Fresh
<1>4. CASE ConnectOutcome
  <2>1. PICK state \in ConnectState : ConnectReturns(state)
    BY <1>4 DEF ConnectOutcome
  <2>2. ~ready /\ call' = "none" /\ UNCHANGED <<gateway, missed>>
    BY <1>4, <2>1 DEF ConnectOutcome, ConnectReturns, Heard
  <2>3. CASE Close
    BY <1>0, <2>2, <2>3, CloseLoss DEF Close
  <2>4. CASE Connected
    <3>1. call \notin Closings
      BY <2>4 DEF Connected, Closings
    <3> QED BY <1>0, <2>2, <2>4, <3>1, ReturnLoss DEF Connected
  <2>5. CASE /\ call = "challenge" /\ Arrived /\ Consume
             /\ UNCHANGED <<ws, ready, sock>>
             /\ UNCHANGED <<needsRecovery, lastOuter, skipped>>
    <3>1. call \notin Closings
      BY <2>5 DEF Closings
    <3> QED BY <1>0, <2>2, <2>5, <3>1, ReturnLoss
  <2> QED BY <2>1, <2>3, <2>4, <2>5
          DEF ConnectReturns, ConnectState, PairingRequired, Failed
<1>5. CASE StartHydrate \/ StartSend \/ Pause
  <2>1. PICK t \in {"history", "send", "abort"} : StartCall(t, MainSession)
    BY <1>5 DEF StartHydrate, StartSend, Pause
  <2>2. \A w \in Socket : Replies(inbox[w]) = {}
    BY <1>0, <2>1, OneCallIsSilent DEF StartCall, Silent
  <2>3. ws \in Socket
    BY <1>0, <2>1 DEF StartCall, ReadyMeansHello, GatewayTypeOK
  <2>4. Reloaded'
    BY <2>1, <2>2, <2>3 DEF StartCall, Reloaded
  <2> QED BY <2>1, <2>4 DEF StartCall, OneSocket, Fresh, Numbered, Flagged,
             Closings
<1>6. CASE Hydrated \/ Aborted \/ Sent
  <2>1. PICK ok \in BOOLEAN : CallReturns(ok)
    BY <1>6 DEF Hydrated, Aborted, Sent
  <2>2. CASE Replied(ok)
    <3>1. call \notin Closings
      BY <2>2 DEF Replied, Closings
    <3> QED BY <1>0, <2>1, <2>2, <3>1, ReturnLoss DEF CallReturns, Replied
  <2>3. CASE Broke(ok)
    BY <2>1, <2>3, BreakLoss DEF CallReturns, Broke
  <2> QED BY <2>1, <2>2, <2>3 DEF CallReturns
<1>7. CASE SkipWhileCalling
  BY <1>0, <1>7, SkipLoss DEF SkipWhileCalling, SkipEvent, Control
<1>8. CASE PumpEvent
  BY <1>0, <1>8, ObserveLoss DEF PumpEvent
<1>9. CASE PumpBreaks
  BY <1>9, BreakLoss DEF PumpBreaks, PumpLosesLink
<1>10. CASE PumpBlocks
  BY <1>10 DEF PumpBlocks, PumpWaits, gatewayVars, wire, OneSocket, Fresh,
     Numbered, Reloaded, Flagged
<1>11. CASE Sleeps \/ Message \/ PumpEnds \/ Check \/ Quit
  <2>1. Idle
    BY <1>11 DEF Sleeps, Message, PumpEnds, Check, Quit
  <2> QED BY <2>1 DEF Idle, coreVars, gatewayVars, wire, OneSocket, Fresh,
             Numbered, Reloaded, Flagged
<1>12. CASE HangsUp \/ ConnectGivesUp
  <2>1. PICK wait \in Closings : HangUp(wait)
    BY <1>12 DEF HangsUp, ConnectGivesUp, GiveUp, Closings
  <2> QED BY <1>0, <2>1, HangUpLoss
<1> QED BY <1>1, <1>2, <1>3, <1>4, <1>5, <1>6, <1>7, <1>8, <1>9, <1>10, <1>11,
           <1>12
        DEF ShellNext, UserNext

\* Every loss is accounted for throughout.
LEMMA LossInvAlways == ShellSpec => []LossInv
<1>1. ShellInit => LossInv
  <2> SUFFICES ASSUME ShellInit PROVE LossInv
    OBVIOUS
  <2>1. /\ \A w \in Socket : inbox[w] = <<>> /\ sock[w] = "unused"
        /\ accepted = {} /\ ~ready /\ call = "none"
    BY DEF ShellInit, GatewayInit, CoreInit
  <2> QED BY <2>1 DEF LossInv, OneSocket, Fresh, Events, Reloaded, Flagged
<1>2. /\ ShellInv /\ ShellInv' /\ OneCall /\ Heard /\ LossInv
      /\ [Next]_shellVars
      => LossInv'
  <2> SUFFICES ASSUME ShellInv, ShellInv', OneCall, Heard, LossInv,
                      [Next]_shellVars
               PROVE  LossInv'
    OBVIOUS
  <2>1. CASE ShellNext \/ UserNext
    BY <2>1, ShellLoss
  <2>2. CASE FarEnd
    <3>1. CASE GatewayNext
      BY <2>2, <3>1, GatewayLoss, GatewayAssumption DEF FarEnd
    <3>2. CASE FarEndCloses
      BY <2>2, <3>2, FarEndLoss DEF FarEnd, ShellInv
    <3> QED BY <2>2, <3>1, <3>2 DEF FarEnd
  <2>3. CASE UNCHANGED shellVars
    BY <2>3 DEF shellVars, coreVars, gatewayVars, wire, gateway, LossInv,
       OneSocket, Fresh, Numbered, Reloaded, Flagged
  <2> QED BY <2>1, <2>2, <2>3 DEF Next
<1> QED BY <1>1, <1>2, ShellInvAlways, HeardAlways, PTL DEF ShellSpec

\* In whatever order events, replies and failures come, an event lost by the
\* Gateway or skipped by a call is noticed when a later one is seen, and
\* recovery_needed() says so until a reload has made it good.
THEOREM LossIsFlaggedAlways == ShellSpec => []LossIsFlagged
<1>1. LossInv => LossIsFlagged
  BY DEF LossInv, Flagged, LossIsFlagged
<1> QED BY <1>1, LossInvAlways, PTL

\* A connection that lost something is given up before the next prompt.
Recovered ==
  ready /\ needsRecovery => at \in {"pumping", "checking", "dialing"}

\* It is, by every way there.
LEMMA RecoveredAlways == ShellSpec => []Recovered
<1>1. ShellInit => Recovered
  BY DEF ShellInit, CoreInit, Recovered
<1>2. ShellInv /\ Heard /\ Recovered /\ [Next]_shellVars => Recovered'
  <2> SUFFICES ASSUME ShellInv, Heard, Recovered, [Next]_shellVars
               PROVE  Recovered'
    OBVIOUS
  <2> USE DEF Recovered, GoOn, Exit, control
  <2>1. CASE UNCHANGED <<ready, needsRecovery, at>>
    BY <2>1
  <2>2. CASE NoRoute \/ CloseFailed \/ Leave
    BY <2>2 DEF NoRoute, CloseFailed, Leave, ClosedOnly, Close
  <2>3. CASE Dials
    BY <2>3 DEF Dials, Dial
  <2>4. CASE ConnectOutcome
    <3>1. PICK state \in ConnectState : ConnectReturns(state)
      BY <2>4 DEF ConnectOutcome
    <3>2. ~ready
      BY <2>4 DEF ConnectOutcome, Heard
    <3>3. ~ready' \/ needsRecovery' = FALSE
      BY <3>1, <3>2 DEF ConnectReturns, ConnectState, Connected,
         PairingRequired, Failed, Close
    <3> QED BY <3>3
  <2>5. CASE Hydrated \/ Aborted \/ Sent
    <3>1. PICK ok \in BOOLEAN : CallReturns(ok)
      BY <2>5 DEF Hydrated, Aborted, Sent
    <3>2. ready' = ready /\ (needsRecovery' => needsRecovery)
      BY <3>1 DEF CallReturns, Replied, Broke
    <3>3. at \in {"hydrating", "aborting", "sending"}
      BY <2>5 DEF Hydrated, Aborted, Sent
    <3> QED BY <3>2, <3>3
  <2>6. CASE \/ AnswerChallenge \/ StartHydrate \/ StartSend \/ Pause
             \/ SkipWhileCalling \/ PumpBlocks
    BY <2>6 DEF AnswerChallenge, StartHydrate, StartSend, Pause,
       SkipWhileCalling, PumpBlocks, SendConnect, StartCall, SkipEvent,
       PumpWaits
  <2>7. CASE PumpEvent \/ PumpBreaks
    BY <2>7 DEF PumpEvent, PumpBreaks, PumpLosesLink
  <2>8. CASE Sleeps \/ Message \/ PumpEnds \/ Quit
    BY <2>8 DEF Sleeps, Message, PumpEnds, Quit, Idle, coreVars, Reconnect
  <2>9. CASE Check
    BY <2>9 DEF Check, Prompt, Reconnect, Idle, coreVars
  <2>10. CASE FarEnd \/ UNCHANGED shellVars
    <3>1. UNCHANGED <<ready, needsRecovery, at>>
      BY <2>10 DEF FarEnd, shellVars, coreVars
    <3> QED BY <2>1, <3>1
  <2>11. CASE HangsUp \/ ConnectGivesUp
    BY <2>11 DEF HangsUp, ConnectGivesUp, GiveUp, HangUp
  <2> QED BY <2>2, <2>3, <2>4, <2>5, <2>6, <2>7, <2>8, <2>9, <2>10, <2>11
          DEF Next, ShellNext, UserNext
<1> QED BY <1>1, <1>2, ShellInvAlways, HeardAlways, PTL DEF ShellSpec

\* However the connections failed before, the prompt of a connected shell
\* stands below a transcript that misses nothing before its last event.
THEOREM PromptIsCurrentAlways == ShellSpec => []PromptIsCurrent
<1>1. LossInv /\ Recovered /\ ShellInv => PromptIsCurrent
  <2> SUFFICES ASSUME LossInv, Recovered, ShellInv, at = "prompt", ready,
                      NEW s \in missed \cup skipped
               PROVE  s >= lastOuter
    BY DEF PromptIsCurrent
  <2>1. ~(s < lastOuter)
    BY DEF LossInv, Flagged, Recovered
  <2>2. s \in Nat /\ lastOuter \in Nat \cup {NoSeq}
    BY DEF ShellInv, CoreTypeOK, GatewayTypeOK
  <2> QED BY <2>1, <2>2 DEF NoSeq
<1> QED BY <1>1, LossInvAlways, RecoveredAlways, ShellInvAlways, PTL
=============================================================================
