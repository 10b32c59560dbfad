------------------------- MODULE CoreClientProofs -------------------------
(***************************************************************************)
(* What each step of a synchronous call preserves, whichever program makes *)
(* the call.                                                               *)
(***************************************************************************)
EXTENDS CoreClient, GatewayProofs

\* What is left once the oldest frame is read is still frames.
LEMMA ConsumeType ==
  ASSUME GatewayTypeOK, Arrived, Consume
  PROVE  inbox' \in [Socket -> Seq(Frame)]
<1>1. Tail(inbox[ws]) \in Seq(Frame)
  BY HeadIsFrame DEF Arrived
<1> QED BY <1>1 DEF Consume, GatewayTypeOK

\* The frame at hand is a Frame.
LEMMA Frame1Type ==
  ASSUME GatewayTypeOK, Arrived
  PROVE  Frame1 \in Frame /\ Frame1.seq \in Nat
<1>1. Frame1 \in Frame
  BY HeadIsFrame DEF Arrived, Frame1
<1> QED BY <1>1 DEF Frame

\* Closing a socket empties its queues and leaves the others alone.
LEMMA ClearedType ==
  ASSUME GatewayTypeOK
  PROVE  /\ Cleared(inbox) \in [Socket -> Seq(Frame)]
         /\ Cleared(outbox) \in [Socket -> Seq(RequestFrame)]
         /\ HungUp \in [Socket -> SocketState]
<1>1. <<>> \in Seq(Frame) /\ <<>> \in Seq(RequestFrame)
  OBVIOUS
<1>2. Cleared(inbox) \in [Socket -> Seq(Frame)]
  BY <1>1 DEF Cleared, GatewayTypeOK
<1>3. Cleared(outbox) \in [Socket -> Seq(RequestFrame)]
  BY <1>1 DEF Cleared, GatewayTypeOK
<1>4. HungUp \in [Socket -> SocketState]
  BY DEF HungUp, GatewayTypeOK, SocketState
<1> QED BY <1>2, <1>3, <1>4

\* The far end's types rest on the queues alone when its tables do not move.
LEMMA WireType ==
  ASSUME GatewayTypeOK, sock' \in [Socket -> SocketState],
         inbox' \in [Socket -> Seq(Frame)],
         outbox' \in [Socket -> Seq(RequestFrame)],
         missed' \in SUBSET Nat, UNCHANGED gateway
  PROVE  GatewayTypeOK'
BY DEF GatewayTypeOK, gateway

\* close(), with no call in progress.
LEMMA CloseType ==
  ASSUME CoreTypeOK, Close, call' = "none",
         UNCHANGED <<needsRecovery, lastOuter, skipped, gateway, missed>>
  PROVE  CoreTypeOK'
<1>1. GatewayTypeOK'
  <2>1. missed' \in SUBSET Nat
    BY DEF CoreTypeOK, GatewayTypeOK
  <2> QED BY <2>1, ClearedType, WireType DEF Close, CoreTypeOK
<1> QED BY <1>1 DEF Close, CoreTypeOK

\* The close frame is sent, and the call waits for the far end's.
LEMMA HangUpType ==
  ASSUME CoreTypeOK, NEW wait \in Closings, HangUp(wait)
  PROVE  CoreTypeOK'
<1>1. sock' \in [Socket -> SocketState]
  BY DEF HangUp, CoreTypeOK, GatewayTypeOK, SocketState
<1>2. GatewayTypeOK'
  BY <1>1 DEF HangUp, CoreTypeOK, GatewayTypeOK, gateway
<1> QED BY <1>2 DEF HangUp, CoreTypeOK, Waits

\* The far end closes, and nothing else moves.
LEMMA FarEndClosesType ==
  ASSUME GatewayTypeOK, FarEndCloses
  PROVE  GatewayTypeOK'
<1>1. sock' \in [Socket -> SocketState]
  BY DEF FarEndCloses, GatewayTypeOK, SocketState
<1> QED BY <1>1 DEF FarEndCloses, GatewayTypeOK, gateway

\* connect() as far as the dial, by a client new or old.
LEMMA DialType ==
  ASSUME CoreTypeOK, NEW w \in Socket, Dial(w),
         needsRecovery' \in BOOLEAN, lastOuter' \in Nat \cup {NoSeq},
         skipped' \in SUBSET Nat, UNCHANGED <<gateway, missed>>
  PROVE  CoreTypeOK'
<1>1. sock' \in [Socket -> SocketState]
  BY ClearedType DEF Dial, CoreTypeOK, SocketState
<1>2. missed' \in SUBSET Nat
  BY DEF CoreTypeOK, GatewayTypeOK
<1>3. GatewayTypeOK'
  BY <1>1, <1>2, ClearedType, WireType DEF Dial, CoreTypeOK
<1> QED BY <1>3 DEF Dial, CoreTypeOK, Waits, Asks

\* The answer to the challenge.
LEMMA SendConnectType ==
  ASSUME GatewayAssumption, CoreTypeOK, SendConnect
  PROVE  CoreTypeOK'
<1>1. "connect" \in RequestType /\ MainSession \in Session
  BY DEF RequestType, GatewayAssumption
<1>2. outbox' \in [Socket -> Seq(RequestFrame)]
  BY <1>1, TransmitKeepsType DEF SendConnect, CoreTypeOK, GatewayTypeOK
<1>3. GatewayTypeOK'
  <2>1. /\ missed' \in SUBSET Nat
        /\ sock' \in [Socket -> SocketState]
    BY DEF SendConnect, CoreTypeOK, GatewayTypeOK
  <2>2. inbox' \in [Socket -> Seq(Frame)]
    BY ConsumeType DEF SendConnect, CoreTypeOK
  <2> QED BY <1>2, <2>1, <2>2, WireType DEF SendConnect, CoreTypeOK
<1> QED BY <1>3 DEF SendConnect, CoreTypeOK, Waits, Asks

\* connect() gives up and begins to close.
LEMMA GiveUpType ==
  ASSUME CoreTypeOK, GiveUp
  PROVE  CoreTypeOK'
<1>1. CASE HangUp("close")
  BY <1>1, HangUpType DEF Closings
<1>2. CASE HangUp("closePairing")
  BY <1>2, HangUpType DEF Closings
<1> QED BY <1>1, <1>2 DEF GiveUp

\* However connect() ends.
LEMMA ConnectReturnsType ==
  ASSUME CoreTypeOK, NEW state \in ConnectState, ConnectReturns(state)
  PROVE  CoreTypeOK'
<1>0. missed' \in SUBSET Nat
  BY DEF ConnectReturns, CoreTypeOK, GatewayTypeOK
<1>1. CASE /\ Close
           /\ UNCHANGED <<needsRecovery, lastOuter, skipped>>
  BY <1>1, CloseType DEF ConnectReturns
<1>2. CASE /\ Arrived /\ Consume
           /\ UNCHANGED <<ws, sock, outbox>>
           /\ ready' \in BOOLEAN /\ needsRecovery' \in BOOLEAN
           /\ lastOuter' \in Nat \cup {NoSeq}
           /\ skipped' \in SUBSET Nat
  <2>1. /\ inbox' \in [Socket -> Seq(Frame)]
        /\ sock' \in [Socket -> SocketState]
        /\ outbox' \in [Socket -> Seq(RequestFrame)]
    BY <1>2, ConsumeType DEF CoreTypeOK, GatewayTypeOK
  <2>2. GatewayTypeOK'
    BY <1>0, <2>1, WireType DEF ConnectReturns, CoreTypeOK
  <2> QED BY <1>2, <2>2 DEF ConnectReturns, CoreTypeOK
<1>3. \/ Connected
      \/ PairingRequired
      \/ Failed
  <2>1. CASE state = "Connected"
    BY <2>1 DEF ConnectReturns
  <2>2. CASE state = "PairingRequired"
    BY <2>2 DEF ConnectReturns
  <2>3. CASE state = "Failed"
    BY <2>3 DEF ConnectReturns
  <2> QED BY <2>1, <2>2, <2>3 DEF ConnectState
<1>4. CASE Connected
  BY <1>2, <1>4 DEF Connected
<1>5. CASE PairingRequired
  BY <1>1, <1>5 DEF PairingRequired
<1>6. CASE Failed
  BY <1>1, <1>2, <1>6 DEF Failed, CoreTypeOK
<1> QED BY <1>3, <1>4, <1>5, <1>6

\* The request of a call.
LEMMA StartCallType ==
  ASSUME CoreTypeOK, NEW t \in {"history", "send", "abort"},
         NEW s \in Session, StartCall(t, s), ws \in Socket
  PROVE  CoreTypeOK'
<1>1. t \in RequestType /\ t \in Waits
  BY DEF RequestType, Waits, Asks
<1>2. outbox' \in [Socket -> Seq(RequestFrame)]
  BY <1>1, TransmitKeepsType DEF StartCall, CoreTypeOK, GatewayTypeOK
<1>3. GatewayTypeOK'
  <2>1. /\ missed' \in SUBSET Nat
        /\ sock' \in [Socket -> SocketState]
        /\ inbox' \in [Socket -> Seq(Frame)]
    BY DEF StartCall, CoreTypeOK, GatewayTypeOK
  <2> QED BY <1>2, <2>1, WireType DEF StartCall, CoreTypeOK
<1> QED BY <1>1, <1>3 DEF StartCall, CoreTypeOK

\* A frame read by a call or by pump(), whatever it makes of it.
LEMMA ReadFrameType ==
  ASSUME CoreTypeOK, Arrived, Consume, call' \in {call, "none"},
         UNCHANGED <<ws, ready, sock, outbox, gateway>>,
         needsRecovery' \in BOOLEAN, lastOuter' \in Nat \cup {NoSeq},
         skipped' \in SUBSET Nat, missed' \in SUBSET Nat
  PROVE  CoreTypeOK'
<1>1. /\ inbox' \in [Socket -> Seq(Frame)]
      /\ sock' \in [Socket -> SocketState]
      /\ outbox' \in [Socket -> Seq(RequestFrame)]
  BY ConsumeType DEF CoreTypeOK, GatewayTypeOK
<1>2. GatewayTypeOK'
  BY <1>1, WireType DEF CoreTypeOK
<1> QED BY <1>2 DEF CoreTypeOK

\* A call skips an event.
LEMMA SkipEventType ==
  ASSUME CoreTypeOK, SkipEvent
  PROVE  CoreTypeOK'
<1>1. skipped' \in SUBSET Nat /\ missed' \in SUBSET Nat
  BY Frame1Type DEF SkipEvent, CoreTypeOK, GatewayTypeOK
<1>2. needsRecovery' \in BOOLEAN /\ lastOuter' \in Nat \cup {NoSeq}
  BY DEF SkipEvent, CoreTypeOK
<1> QED BY <1>1, <1>2, ReadFrameType DEF SkipEvent

\* The link is found broken.
LEMMA BreakType ==
  ASSUME CoreTypeOK, Broken, sock' = [sock EXCEPT ![ws] = "failed"],
         call' \in {call, "none"}, ready' \in BOOLEAN,
         needsRecovery' \in BOOLEAN,
         UNCHANGED <<ws, lastOuter, skipped, inbox, outbox, gateway, missed>>
  PROVE  CoreTypeOK'
<1>1. sock' \in [Socket -> SocketState]
  BY DEF Broken, CoreTypeOK, GatewayTypeOK, SocketState
<1>2. GatewayTypeOK'
  BY <1>1 DEF CoreTypeOK, GatewayTypeOK, gateway
<1> QED BY <1>2 DEF CoreTypeOK

\* However a call ends.
LEMMA CallReturnsType ==
  ASSUME CoreTypeOK, NEW ok \in BOOLEAN, CallReturns(ok)
  PROVE  CoreTypeOK'
<1>1. CASE Replied(ok)
  <2>1. /\ needsRecovery' \in BOOLEAN /\ lastOuter' \in Nat \cup {NoSeq}
        /\ skipped' \in SUBSET Nat /\ missed' \in SUBSET Nat
    BY <1>1 DEF Replied, CallReturns, CoreTypeOK, GatewayTypeOK
  <2> QED BY <1>1, <2>1, ReadFrameType DEF Replied, CallReturns
<1>2. CASE Broke(ok)
  BY <1>2, BreakType DEF Broke, CallReturns, CoreTypeOK
<1> QED BY <1>1, <1>2 DEF CallReturns

\* pump() reads an event.
LEMMA PumpReadsType ==
  ASSUME CoreTypeOK, PumpReads
  PROVE  CoreTypeOK'
<1>1. Frame1.seq \in Nat
  BY Frame1Type DEF PumpReads, CoreTypeOK
<1>2. /\ lastOuter' \in Nat \cup {NoSeq}
      /\ skipped' \in SUBSET Nat /\ missed' \in SUBSET Nat
  BY <1>1 DEF PumpReads, Observe, FirstIs, CoreTypeOK, GatewayTypeOK
<1>3. needsRecovery' \in BOOLEAN
  BY DEF PumpReads, Observe, CoreTypeOK
<1> QED BY <1>2, <1>3, ReadFrameType DEF PumpReads

\* pump() waits for the next frame.
LEMMA PumpWaitsType ==
  ASSUME CoreTypeOK, PumpWaits
  PROVE  CoreTypeOK'
<1>1. GatewayTypeOK'
  BY DEF PumpWaits, CoreTypeOK, GatewayTypeOK, gatewayVars, wire, gateway
<1> QED BY <1>1 DEF PumpWaits, CoreTypeOK, Waits

\* pump() finds the link lost.
LEMMA PumpLosesLinkType ==
  ASSUME CoreTypeOK, PumpLosesLink
  PROVE  CoreTypeOK'
BY BreakType DEF PumpLosesLink

(***************************************************************************)
(* "ready" means the Gateway said hello                                    *)
(***************************************************************************)

coreAuth == <<ws, ready, accepted>>

\* Only the hello makes the client ready.
LEMMA ConnectReturnsHello ==
  ASSUME CoreTypeOK, HelloIsEarned, ReadyMeansHello,
         NEW state \in ConnectState, ConnectReturns(state)
  PROVE  ReadyMeansHello'
<1> USE DEF ReadyMeansHello, gateway
<1>1. CASE Close
  BY <1>1 DEF Close
<1>2. CASE UNCHANGED <<ws, ready>>
  BY <1>2 DEF ConnectReturns
<1>3. CASE Connected
  <2>1. 1 \in DOMAIN inbox[ws] /\ inbox[ws][1] = Frame1 /\ ws \in Socket
    BY <1>3 DEF Connected, Arrived, Frame1, CoreTypeOK, GatewayTypeOK
  <2>2. ws \in accepted
    BY <1>3, <2>1 DEF Connected, HelloIsEarned
  <2> QED BY <1>3, <2>2 DEF Connected, ConnectReturns
<1> QED BY <1>1, <1>2, <1>3 DEF ConnectReturns, ConnectState, PairingRequired,
           Failed

\* A close frame leaves nobody ready.
LEMMA HangUpHello ==
  ASSUME NEW wait, HangUp(wait)
  PROVE  ReadyMeansHello'
BY DEF HangUp, ReadyMeansHello

\* Emptying the queue of a socket leaves only helloes that were earned.
LEMMA ClearEarned ==
  ASSUME GatewayTypeOK, HelloIsEarned, inbox' = Cleared(inbox),
         accepted' = accepted
  PROVE  HelloIsEarned'
BY DEF HelloIsEarned, Cleared, GatewayTypeOK

\* So does reading.
LEMMA ConsumeEarned ==
  ASSUME GatewayTypeOK, HelloIsEarned, Arrived, Consume, accepted' = accepted
  PROVE  HelloIsEarned'
BY ReadEarned DEF Arrived, Consume
=============================================================================
