----------------------------- MODULE CoreClient -----------------------------
(***************************************************************************)
(* The C++ GatewayClient (gateway_client.cpp, recovery.cpp), which desktop *)
(* and command line share.                                                 *)
(*                                                                         *)
(* It is synchronous: one thread calls it, and each call reads the socket  *)
(* until its own reply comes, without a timeout.  So does close(), which   *)
(* waits for the far end to close.  The actions here are the steps of      *)
(* those calls between two reads; a module for each program says which     *)
(* call comes when.                                                        *)
(***************************************************************************)
EXTENDS Gateway

CONSTANT NoSocket  \* neither plain nor secure is set

ASSUME CoreAssumption == NoSocket \notin Socket

VARIABLES
  ws,             \* plain or secure
  ready, needsRecovery,
  lastOuter,      \* of the SequenceTracker
  call,           \* what the call in progress waits for
  \* history of the execution, read by properties only
  skipped         \* events thrown away by calls, not made good by a reload

coreVars == <<ws, ready, needsRecovery, lastOuter, call, skipped>>

NoSeq == -1

\* What is asked of a Gateway, and what else is waited for: in close(), which
\* ends a refused connect(), too, the end of the connection.
Asks == {"challenge", "hello", "history", "send", "abort"}
Closings == {"close", "closePairing"}
Waits == Asks \cup Closings \cup {"event"}

CoreInit ==
  /\ ws = NoSocket
  /\ ready = FALSE
  /\ needsRecovery = FALSE
  /\ lastOuter = NoSeq
  /\ call = "none"
  /\ skipped = {}

Arrived == ws \in Socket /\ inbox[ws] # <<>>
Frame1 == Head(inbox[ws])
Consume == inbox' = [inbox EXCEPT ![ws] = Tail(@)]

\* read() throws: the connection broke or the Gateway closed it.
Broken ==
  /\ ws \in Socket
  /\ inbox[ws] = <<>>
  /\ sock[ws] \in {"failed", "halfClosed"}

(***************************************************************************)
(* close() and connect()                                                   *)
(***************************************************************************)

\* The socket in use is gone, and what it carried.
Cleared(queues) == [w \in Socket |-> IF w = ws THEN <<>> ELSE queues[w]]
HungUp == [w \in Socket |-> IF w = ws THEN "dead" ELSE sock[w]]

\* close() on a stream that is open: the close frame is sent, and what comes
\* is thrown away up to the far end's, without a timeout.
HangUp(wait) ==
  /\ ws \in Socket
  /\ sock[ws] \in {"open", "halfClosed"}
  /\ ready' = FALSE
  /\ sock' = [sock EXCEPT ![ws] = "closing"]
  /\ call' = wait
  /\ UNCHANGED <<ws, needsRecovery, lastOuter, skipped, inbox, outbox, gateway,
                 missed>>

\* The far end closes the connection in its turn.
FarEndCloses ==
  /\ ws \in Socket
  /\ sock[ws] = "closing"
  /\ sock' = [sock EXCEPT ![ws] = "dead"]
  /\ UNCHANGED <<inbox, outbox, gateway, missed>>

\* Nothing is left for close() to wait for.
StreamIsDown == ws \in Socket => sock[ws] \in {"failed", "dead"}

\* The rest of close(); all of it, on a stream that is down or was never up.
Close ==
  /\ ready' = FALSE
  /\ ws' = NoSocket
  /\ sock' = HungUp
  /\ inbox' = Cleared(inbox)
  /\ outbox' = Cleared(outbox)

DialKeepsReady(w) ==  \* mutant: ready is left to the hello to set
  /\ StreamIsDown
  /\ sock[w] = "unused"
  /\ ws' = w
  /\ sock' = [HungUp EXCEPT ![w] = "opening"]
  /\ inbox' = Cleared(inbox)
  /\ outbox' = Cleared(outbox)
  /\ call' = "challenge"
  /\ UNCHANGED ready

\* connect(), once its close() of the old stream is over, opens another.
Dial(w) ==
  /\ StreamIsDown
  /\ sock[w] = "unused"
  /\ ws' = w
  /\ sock' = [HungUp EXCEPT ![w] = "opening"]
  /\ inbox' = Cleared(inbox)
  /\ outbox' = Cleared(outbox)
  /\ call' = "challenge"
  /\ ready' = FALSE

SendConnect ==
  /\ call = "challenge"
  /\ Arrived
  /\ Frame1.type = "challenge"
  /\ Consume
  /\ Transmit(ws, "connect", MainSession)
  /\ call' = "hello"
  /\ UNCHANGED <<ws, ready, needsRecovery, lastOuter, skipped, sock, gateway,
                 missed>>

Connected ==
  /\ call = "hello"
  /\ Arrived
  /\ Frame1.type = "connectOk"
  /\ Consume
  /\ ready' = TRUE
  /\ lastOuter' = NoSeq
  /\ needsRecovery' = FALSE
  /\ skipped' = {}
  /\ UNCHANGED <<ws, sock, outbox>>

\* A refusal, or an identity or token store that throws, closes the socket.
GiveUp ==
  /\ call \in {"challenge", "hello"}
  /\ Arrived
  /\ \/ /\ Frame1.type \in {"challenge", "connectOk", "connectRefused"}
        /\ HangUp("close")
     \/ /\ call = "hello"
        /\ Frame1.type = "pairingRequired"
        /\ HangUp("closePairing")

PairingRequired ==
  /\ call = "closePairing"
  /\ StreamIsDown
  /\ Close
  /\ UNCHANGED <<needsRecovery, lastOuter, skipped>>

\* A challenge it cannot read leaves the socket open.  A read that throws has
\* taken the stream down already.
Failed ==
  /\ \/ /\ call = "challenge"
        /\ Arrived
        /\ Frame1.type = "badChallenge"
        /\ Consume
        /\ UNCHANGED <<ws, ready, sock, outbox>>
     \/ /\ \/ call \in {"challenge", "hello"} /\ Broken
           \/ call = "close" /\ StreamIsDown
        /\ Close
  /\ UNCHANGED <<needsRecovery, lastOuter, skipped>>

\* ConnectResult::State.
ConnectState == {"Connected", "PairingRequired", "Failed"}

ConnectReturns(state) ==
  /\ CASE state = "Connected" -> Connected
       [] state = "PairingRequired" -> PairingRequired
       [] state = "Failed" -> Failed
  /\ call' = "none"
  /\ UNCHANGED <<gateway, missed>>

(***************************************************************************)
(* call(), send_chat(), abort_chat(), hydrate()                            *)
(***************************************************************************)

\* hydrate() makes three such calls, here as one.
StartCall(type, session) ==
  /\ ready
  /\ call = "none"
  /\ Transmit(ws, type, session)
  /\ call' = type
  /\ UNCHANGED <<ws, ready, needsRecovery, lastOuter, skipped, sock, inbox,
                 gateway, missed>>

\* The tracker's verdict on the number of an event.
GapOffByOne(m) ==  \* mutant
  lastOuter # NoSeq /\ m.seq > lastOuter + 2
Gap(m) == lastOuter # NoSeq /\ m.seq > lastOuter + 1
Stale(m) == m.seq # NoNumber /\ lastOuter # NoSeq /\ m.seq <= lastOuter

\* An event that arrives first is dropped; the tracker does not see it.
SkipEvent ==
  /\ call \in {"history", "send", "abort"}
  /\ Arrived
  /\ Frame1.type \in EventType
  /\ Consume
  /\ skipped' = IF Frame1.seq = NoNumber \/ Stale(Frame1)
                  THEN skipped ELSE skipped \cup {Frame1.seq}
  /\ UNCHANGED <<ws, ready, needsRecovery, lastOuter, call, sock, outbox,
                 gateway, missed>>

\* The reply is returned, or thrown if it is an error.  Only the end of
\* hydrate() says that the client is up to date.
Replied(ok) ==
  /\ call \in {"history", "send", "abort"}
  /\ Arrived
  /\ Frame1.type \in ReplyType
  /\ ok = (Frame1.type # "error")
  /\ Consume
  /\ IF call = "history" /\ ok
       THEN needsRecovery' = FALSE /\ skipped' = {}
       ELSE UNCHANGED <<needsRecovery, skipped>>
  /\ UNCHANGED <<ready, sock>>

\* read() throws, and nobody resets ready.
Broke(ok) ==
  /\ call \in {"history", "send", "abort"}
  /\ Broken
  /\ ~ok
  /\ sock' = [sock EXCEPT ![ws] = "failed"]
  /\ UNCHANGED <<ready, needsRecovery, skipped, inbox>>

CallReturns(ok) ==
  /\ Replied(ok) \/ Broke(ok)
  /\ call' = "none"
  /\ UNCHANGED <<ws, lastOuter, outbox, gateway, missed>>

(***************************************************************************)
(* pump() and the SequenceTracker                                          *)
(***************************************************************************)

\* Before the first number it sees, the tracker has nothing to compare with.
FirstIs(m, seqs) ==
  IF lastOuter = NoSeq THEN {s \in seqs : s > m.seq} ELSE seqs

\* An event without a number is accepted and tells the tracker nothing.
Observe(m) ==
  IF m.seq = NoNumber \/ Stale(m)
    THEN UNCHANGED <<needsRecovery, lastOuter, skipped, missed>>
    ELSE /\ needsRecovery' = (needsRecovery \/ Gap(m))
         /\ lastOuter' = m.seq
         /\ skipped' = FirstIs(m, skipped)
         /\ missed' = FirstIs(m, missed)

Pumping == ready /\ call \in {"none", "event"}

\* The next frame, waited for or not.
PumpReads ==
  /\ Pumping
  /\ Arrived
  /\ Frame1.type \in EventType
  /\ Observe(Frame1)
  /\ Consume
  /\ call' = "none"
  /\ UNCHANGED <<ws, ready, sock, outbox, gateway>>

\* Bytes are available that make no frame: a ping, or the head of one still
\* on its way.  read() then waits as any call does, past the deadline.
PumpWaits ==
  /\ ready
  /\ call = "none"
  /\ ws \in Socket
  /\ sock[ws] = "open"
  /\ inbox[ws] = <<>>
  /\ call' = "event"
  /\ UNCHANGED <<ws, ready, needsRecovery, lastOuter, skipped, gatewayVars>>

\* available() fails, or read() throws.  A connection that broke in silence
\* may also look idle for ever.
PumpLosesLink ==
  /\ Pumping
  /\ Broken
  /\ ready' = FALSE
  /\ needsRecovery' = TRUE
  /\ call' = "none"
  /\ sock' = [sock EXCEPT ![ws] = "failed"]
  /\ UNCHANGED <<ws, lastOuter, skipped, inbox, outbox, gateway, missed>>

(***************************************************************************)
(* Properties, for whichever program makes the calls                       *)
(***************************************************************************)

CoreTypeOK ==
  /\ ws \in Socket \cup {NoSocket}
  /\ ready \in BOOLEAN
  /\ needsRecovery \in BOOLEAN
  /\ lastOuter \in Nat \cup {NoSeq}
  /\ call \in Waits \cup {"none"}
  /\ call # "none" => ws \in Socket
  /\ skipped \in SUBSET Nat
  /\ GatewayTypeOK

\* The far end owes what the client waits for: the connection is up, and the
\* reply, the event or the close frame has not come.
FarEndIsSilent ==
  call # "none" /\ sock[ws] \in {"opening", "open", "closing"}

\* pump() and write() go by ready alone: it is set only with a socket, and
\* only on the one the Gateway said hello on, through every failed attempt.
ReadyMeansHello == ready => ws \in accepted

\* An event lost, by the Gateway or by a call that skipped it, is noticed
\* with the next event: recovery_needed() says so until a reload.
LossIsFlagged ==
  ready /\ (\E s \in missed \cup skipped : s < lastOuter) => needsRecovery
=============================================================================
