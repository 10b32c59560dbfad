------------------------------ MODULE Gateway ------------------------------
(***************************************************************************)
(* The far end every client of this repository talks to: the Gateway's     *)
(* side of the protocol, and the WebSockets in between, as far as the      *)
(* clients' code depends on them.  Neither is under src/.                  *)
(*                                                                         *)
(* A socket carries requests one way and frames the other, each in order.  *)
(* It can break, or be closed by the Gateway.  The Gateway challenges,     *)
(* says hello or refuses, answers each request in turn, and streams the    *)
(* events of its agent runs, most of them numbered, some of which a slow   *)
(* socket loses.                                                           *)
(***************************************************************************)
EXTENDS Integers, Sequences

CONSTANTS Socket,       \* the WebSockets a client may open, one per dial
          Session,      \* chat session keys
          MainSession,  \* "main", selected until the user picks another
          Run,          \* agent runs the Gateway may start
          NoRun,        \* no run
          MaxSeq,       \* bound on the event numbers the Gateway uses; 0 for none
          MaxInbox      \* bound on frames in flight to the client

ASSUME GatewayAssumption ==
  /\ MainSession \in Session
  /\ NoRun \notin Run
  /\ MaxSeq \in Nat
  /\ MaxInbox \in Nat \ {0}

VARIABLES
  sock,        \* where each socket stands
  inbox,       \* frames on their way to the client
  outbox,      \* requests on their way to the Gateway
  accepted,    \* sockets whose connect request the Gateway approved
  subscribed,  \* sessions whose messages the current socket receives
  gwSeq,       \* number of the latest event
  runState, runSession,
  talked,      \* sessions with a non-empty history
  firstSent,   \* first event sent on the current socket, which may recur
  \* history of the execution, read by properties only
  missed,      \* lost events no reload has made good yet
  refused      \* lost events for whose reload the Gateway answered an error

wire == <<sock, inbox, outbox>>
gateway == <<accepted, subscribed, gwSeq, runState, runSession, talked,
             firstSent, refused>>
gatewayVars == <<wire, gateway, missed>>

SocketState == {"unused", "opening", "open", "halfClosed", "closing",
                "failed", "dead"}

EventType == {"delta", "done", "aborted"}
ReplyType == {"connectOk", "pairingRequired", "connectRefused",
              "sendOk", "abortOk", "historyFull", "historyEmpty", "error"}

NoNumber == 0

\* A frame on its way to the client; fields a type has no use for are fillers.
Frame == [type : EventType \cup ReplyType \cup {"challenge", "badChallenge"},
          session : Session, run : Run \cup {NoRun}, seq : Nat]

EventFrame == [type : EventType, session : Session, run : Run \cup {NoRun},
               seq : Nat]

Reply(type, session, run) ==
  [type |-> type, session |-> session, run |-> run, seq |-> NoNumber]

\* A badConnect answers the challenge of another socket.
RequestType == {"connect", "badConnect", "history", "send", "abort"}
RequestFrame == [type : RequestType, session : Session]

\* A socket queues what is sent while it is opening or open, drops the rest.
TakesSends(w) == sock[w] \in {"opening", "open", "halfClosed"}
Transmit(w, type, session) ==
  outbox' = IF w \in Socket /\ TakesSends(w)
              THEN [outbox EXCEPT ![w] =
                      Append(@, [type |-> type, session |-> session])]
              ELSE outbox

\* Runs other operators started may be going on before the client connects.
GatewayInit ==
  /\ sock = [w \in Socket |-> "unused"]
  /\ inbox = [w \in Socket |-> <<>>]
  /\ outbox = [w \in Socket |-> <<>>]
  /\ accepted = {}
  /\ subscribed = {}
  /\ gwSeq = 0
  /\ runState \in [Run -> {"free", "active"}]
  /\ runSession \in [Run -> Session]
  /\ talked = {runSession[r] : r \in {x \in Run : runState[x] = "active"}}
  /\ firstSent = <<>>
  /\ missed = {}
  /\ refused = {}

Deliver(w, frame) == inbox' = [inbox EXCEPT ![w] = Append(@, frame)]

\* The handshake completes and the Gateway challenges the device.
Opens(w) ==
  /\ sock[w] = "opening"
  /\ sock' = [sock EXCEPT ![w] = "open"]
  /\ \E c \in {"challenge", "badChallenge"} :
       Deliver(w, Reply(c, MainSession, NoRun))
  /\ UNCHANGED <<outbox, gateway, missed>>

Answers(w, frame) ==
  /\ Deliver(w, frame)
  /\ outbox' = [outbox EXCEPT ![w] = Tail(@)]
  /\ UNCHANGED sock

\* The event numbers a socket sees begin after its hello.
ServeConnect(w, q) ==
  /\ q.type = "connect"
  /\ \/ /\ Answers(w, Reply("connectOk", MainSession, NoRun))
        /\ accepted' = accepted \cup {w}
        /\ subscribed' = {}
        /\ firstSent' = <<>>
        /\ missed' = {}
        /\ refused' = {}
        /\ UNCHANGED <<gwSeq, runState, runSession, talked>>
     \/ /\ \E t \in {"pairingRequired", "connectRefused"} :
             Answers(w, Reply(t, MainSession, NoRun))
        /\ UNCHANGED <<gateway, missed>>

ServeHistory(w, q) ==
  /\ q.type = "history"
  /\ w \in accepted
  /\ Answers(w, Reply(IF q.session \in talked
                        THEN "historyFull" ELSE "historyEmpty",
                      q.session, NoRun))
  /\ subscribed' = subscribed \cup {q.session}
  /\ missed' = {}
  /\ refused' = {}
  /\ UNCHANGED <<accepted, gwSeq, runState, runSession, talked, firstSent>>

\* The reply may leave the run it started unnamed.
ServeSend(w, q) ==
  /\ q.type = "send"
  /\ w \in accepted
  /\ \E r \in Run :
       /\ runState[r] = "free"
       /\ \E named \in {r, NoRun} :
            Answers(w, Reply("sendOk", q.session, named))
       /\ runState' = [runState EXCEPT ![r] = "active"]
       /\ runSession' = [runSession EXCEPT ![r] = q.session]
  /\ talked' = talked \cup {q.session}
  /\ UNCHANGED <<accepted, subscribed, gwSeq, firstSent, missed, refused>>

\* The run an abort stops ends with an event of its own, in EmitEvent.
ServeAbort(w, q) ==
  /\ q.type = "abort"
  /\ w \in accepted
  /\ Answers(w, Reply("abortOk", q.session, NoRun))
  /\ UNCHANGED <<gateway, missed>>

\* Anything before the hello is refused; anything else may fail.  A reload
\* that fails makes nothing good.
ServeError(w, q) ==
  /\ q.type # "connect"
  /\ Answers(w, Reply("error", q.session, NoRun))
  /\ refused' = IF q.type = "history" THEN refused \cup missed ELSE refused
  /\ UNCHANGED <<accepted, subscribed, gwSeq, runState, runSession, talked,
                 firstSent, missed>>

Serve(w) ==
  /\ sock[w] = "open"
  /\ outbox[w] # <<>>
  /\ Len(inbox[w]) < MaxInbox
  /\ LET q == Head(outbox[w]) IN
       \/ ServeConnect(w, q)
       \/ ServeHistory(w, q)
       \/ ServeSend(w, q)
       \/ ServeAbort(w, q)
       \/ ServeError(w, q)

Streams(w) ==
  /\ sock[w] = "open"
  /\ w \in accepted
  /\ Len(inbox[w]) < MaxInbox

Event(type, r, seq) ==
  [type |-> type, session |-> runSession[r], run |-> r, seq |-> seq]

\* A run goes on with a delta and ends with any other event.
RunEmits(w, r, type) ==
  /\ Streams(w)
  /\ runState[r] = "active"
  /\ runSession[r] \in subscribed
  /\ runState' = IF type = "delta" THEN runState
                                   ELSE [runState EXCEPT ![r] = "over"]

\* An event of a run, numbered; a slow socket may have it dropped.
EmitEvent(w, r, type) ==
  /\ RunEmits(w, r, type)
  /\ gwSeq < MaxSeq
  /\ gwSeq' = gwSeq + 1
  /\ LET e == Event(type, r, gwSeq + 1)
     IN \/ /\ Deliver(w, e)
           /\ firstSent' = IF firstSent = <<>> THEN <<e>> ELSE firstSent
           /\ UNCHANGED missed
        \/ /\ missed' = missed \cup {gwSeq + 1}
           /\ UNCHANGED <<inbox, firstSent>>
  /\ UNCHANGED <<sock, outbox, accepted, subscribed, runSession, talked,
                 refused>>

\* One without a number: its loss leaves no trace, so it is not counted.
EmitUnnumbered(w, r, type) ==
  /\ RunEmits(w, r, type)
  /\ Deliver(w, Event(type, r, NoNumber)) \/ UNCHANGED inbox
  /\ UNCHANGED <<sock, outbox, accepted, subscribed, gwSeq, runSession, talked,
                 firstSent, missed, refused>>

\* A numbered event sent before is sent again.
Resend(w) ==
  /\ Streams(w)
  /\ firstSent # <<>>
  /\ Deliver(w, Head(firstSent))
  /\ UNCHANGED <<sock, outbox, gateway, missed>>

\* The connection breaks, with the Gateway's process or without: its event
\* numbers start again and the runs it had are gone.
NetworkFails(w) ==
  /\ sock[w] \in {"opening", "open", "halfClosed", "closing"}
  /\ sock' = [sock EXCEPT ![w] = "failed"]
  /\ inbox' = [inbox EXCEPT ![w] = <<>>]
  /\ outbox' = [outbox EXCEPT ![w] = <<>>]
  /\ \/ UNCHANGED gateway
     \/ /\ gwSeq' = 0
        /\ runState' = [r \in Run |-> IF runState[r] = "active"
                                        THEN "over" ELSE runState[r]]
        /\ UNCHANGED <<accepted, subscribed, runSession, talked, firstSent,
                       refused>>
  /\ UNCHANGED missed

\* The Gateway sends a close frame after all it had to say.
ServerCloses(w) ==
  /\ sock[w] = "open"
  /\ inbox[w] = <<>>
  /\ sock' = [sock EXCEPT ![w] = "halfClosed"]
  /\ UNCHANGED <<inbox, outbox, gateway, missed>>

GatewayNext ==
  \E w \in Socket :
    \/ Opens(w) \/ Serve(w) \/ Resend(w) \/ NetworkFails(w) \/ ServerCloses(w)
    \/ \E r \in Run, t \in EventType :
         EmitEvent(w, r, t) \/ EmitUnnumbered(w, r, t)

\* Sockets, queues and the Gateway's tables keep their types.
GatewayTypeOK ==
  /\ sock \in [Socket -> SocketState]
  /\ inbox \in [Socket -> Seq(Frame)]
  /\ outbox \in [Socket -> Seq(RequestFrame)]
  /\ accepted \in SUBSET Socket
  /\ subscribed \in SUBSET Session
  /\ gwSeq \in Nat
  /\ runState \in [Run -> {"free", "active", "over"}]
  /\ runSession \in [Run -> Session]
  /\ talked \in SUBSET Session
  /\ firstSent \in Seq(EventFrame)
  /\ missed \in SUBSET Nat
  /\ refused \in SUBSET Nat
=============================================================================
