--------------------------- MODULE GatewayProofs ---------------------------
(***************************************************************************)
(* Facts about the Gateway and the sockets that every client's proofs rest *)
(* on: their types, and that no hello reaches a client the Gateway has not *)
(* accepted.                                                               *)
(***************************************************************************)
EXTENDS Gateway, TLAPS

\* A hello on its way to the client was sent by a Gateway that accepted it.
HelloIsEarned ==
  \A w \in Socket : \A i \in DOMAIN inbox[w] :
    inbox[w][i].type = "connectOk" => w \in accepted

(***************************************************************************)
(* Type correctness                                                        *)
(***************************************************************************)

\* A well-typed frame keeps the inboxes well typed.
LEMMA DeliverType ==
  ASSUME inbox \in [Socket -> Seq(Frame)], NEW w \in Socket,
         NEW f \in Frame, Deliver(w, f)
  PROVE  inbox' \in [Socket -> Seq(Frame)]
BY DEF Deliver

\* A request keeps the outboxes well typed, sent or dropped.
LEMMA TransmitKeepsType ==
  ASSUME outbox \in [Socket -> Seq(RequestFrame)], NEW t \in RequestType,
         NEW s \in Session, NEW w, Transmit(w, t, s)
  PROVE  outbox' \in [Socket -> Seq(RequestFrame)]
<1>1. [type |-> t, session |-> s] \in RequestFrame
  BY DEF RequestFrame
<1> QED BY <1>1 DEF Transmit

\* What the Gateway replies is a Frame.
LEMMA ReplyIsFrame ==
  ASSUME NEW t \in ReplyType \cup {"challenge", "badChallenge"},
         NEW s \in Session, NEW r \in Run \cup {NoRun}
  PROVE  Reply(t, s, r) \in Frame
BY DEF Reply, Frame, NoNumber

\* So is an event of a run.
LEMMA EventIsFrame ==
  ASSUME GatewayTypeOK, NEW t \in EventType, NEW r \in Run, NEW n \in Nat
  PROVE  /\ Event(t, r, n) \in Frame /\ Event(t, r, n) \in EventFrame
         /\ Event(t, r, n).type = t /\ Event(t, r, n).run = r
         /\ Event(t, r, n).seq = n
BY DEF Event, Frame, EventFrame, GatewayTypeOK

\* The oldest frame of a non-empty inbox is a Frame, the rest are frames.
LEMMA HeadIsFrame ==
  ASSUME GatewayTypeOK, NEW w \in Socket, inbox[w] # <<>>
  PROVE  /\ Head(inbox[w]) \in Frame
         /\ Tail(inbox[w]) \in Seq(Frame)
BY DEF GatewayTypeOK

\* The initial tables have their types.
LEMMA GatewayTypeInit ==
  ASSUME GatewayInit
  PROVE  GatewayTypeOK
<1>1. /\ firstSent \in Seq(EventFrame)
      /\ inbox \in [Socket -> Seq(Frame)]
      /\ outbox \in [Socket -> Seq(RequestFrame)]
  BY DEF GatewayInit
<1>2. /\ runState \in [Run -> {"free", "active", "over"}]
      /\ runSession \in [Run -> Session]
      /\ talked \in SUBSET Session
  BY DEF GatewayInit
<1>3. sock \in [Socket -> SocketState]
  BY DEF GatewayInit, SocketState
<1> QED BY <1>1, <1>2, <1>3 DEF GatewayInit, GatewayTypeOK

\* Every step of the Gateway and the network keeps its types.
LEMMA GatewayTypeStep ==
  ASSUME GatewayAssumption, GatewayTypeOK, GatewayNext
  PROVE  GatewayTypeOK'
<1> SUFFICES ASSUME NEW w \in Socket,
                    \/ Opens(w) \/ Serve(w) \/ Resend(w) \/ NetworkFails(w)
                    \/ ServerCloses(w)
                    \/ \E r \in Run, t \in EventType :
                         EmitEvent(w, r, t) \/ EmitUnnumbered(w, r, t)
             PROVE  GatewayTypeOK'
  BY DEF GatewayNext
<1> USE DEF gateway
<1>0. /\ MainSession \in Session
      /\ \A t \in ReplyType \cup {"challenge", "badChallenge"}, s \in Session,
            r \in Run \cup {NoRun} : Reply(t, s, r) \in Frame
  BY ReplyIsFrame DEF GatewayAssumption
<1>1. CASE Opens(w)
  <2>1. inbox' \in [Socket -> Seq(Frame)]
    BY <1>0, <1>1, DeliverType DEF Opens, GatewayTypeOK
  <2> QED BY <1>1, <2>1 DEF Opens, GatewayTypeOK, SocketState
<1>2. CASE Serve(w)
  <2> DEFINE q == Head(outbox[w])
  <2>1. q \in RequestFrame /\ outbox[w] # <<>>
    BY <1>2 DEF Serve, GatewayTypeOK
  <2>2. q.session \in Session
    BY <2>1 DEF RequestFrame
  <2>3. ASSUME NEW f \in Frame, Answers(w, f)
        PROVE  /\ inbox' \in [Socket -> Seq(Frame)]
               /\ outbox' \in [Socket -> Seq(RequestFrame)]
               /\ UNCHANGED sock
    <3>1. inbox' \in [Socket -> Seq(Frame)]
      BY <2>3, DeliverType DEF Answers, GatewayTypeOK
    <3>2. Tail(outbox[w]) \in Seq(RequestFrame)
      BY <2>1 DEF GatewayTypeOK
    <3> QED BY <2>3, <3>1, <3>2 DEF Answers, GatewayTypeOK
  <2> HIDE DEF q
  <2>4. CASE ServeConnect(w, q)
    <3>1. \E t \in {"connectOk", "pairingRequired", "connectRefused"} :
            Answers(w, Reply(t, MainSession, NoRun))
      BY <2>4 DEF ServeConnect
    <3>2. PICK t \in {"connectOk", "pairingRequired", "connectRefused"} :
            Answers(w, Reply(t, MainSession, NoRun))
      BY <3>1
    <3>3. Reply(t, MainSession, NoRun) \in Frame
      BY <1>0 DEF ReplyType
    <3>4. /\ inbox' \in [Socket -> Seq(Frame)]
          /\ outbox' \in [Socket -> Seq(RequestFrame)]
          /\ UNCHANGED sock
      BY <2>3, <3>2, <3>3
    <3>5. /\ accepted' \in SUBSET Socket
          /\ subscribed' \in SUBSET Session
          /\ firstSent' \in Seq(EventFrame)
          /\ missed' \in SUBSET Nat /\ refused' \in SUBSET Nat
          /\ UNCHANGED <<gwSeq, runState, runSession, talked>>
      <4>1. CASE accepted' = accepted \cup {w} /\ subscribed' = {}
                 /\ firstSent' = <<>> /\ missed' = {} /\ refused' = {}
                 /\ UNCHANGED <<gwSeq, runState, runSession, talked>>
        <5>1. <<>> \in Seq(EventFrame)
          OBVIOUS
        <5> QED BY <4>1, <5>1 DEF GatewayTypeOK
      <4>2. CASE UNCHANGED <<gateway, missed>>
        BY <4>2 DEF GatewayTypeOK
      <4> QED BY <2>4, <4>1, <4>2 DEF ServeConnect
    <3> QED BY <3>4, <3>5 DEF GatewayTypeOK
  <2>5. CASE ServeHistory(w, q)
    <3> DEFINE f == Reply(IF q.session \in talked
                            THEN "historyFull" ELSE "historyEmpty",
                          q.session, NoRun)
    <3>1. f \in Frame
      BY <1>0, <2>2 DEF ReplyType
    <3>2. Answers(w, f)
      BY <2>5 DEF ServeHistory
    <3> HIDE DEF f
    <3> QED BY <2>2, <2>3, <2>5, <3>1, <3>2 DEF ServeHistory, GatewayTypeOK
  <2>6. CASE ServeSend(w, q)
    <3>1. PICK r \in Run :
            /\ \E named \in {r, NoRun} :
                 Answers(w, Reply("sendOk", q.session, named))
            /\ runState' = [runState EXCEPT ![r] = "active"]
            /\ runSession' = [runSession EXCEPT ![r] = q.session]
      BY <2>6 DEF ServeSend
    <3>2. PICK named \in {r, NoRun} :
                 Answers(w, Reply("sendOk", q.session, named))
      BY <3>1
    <3>3. Reply("sendOk", q.session, named) \in Frame
      BY <1>0, <2>2 DEF ReplyType
    <3> QED BY <2>2, <2>3, <2>6, <3>1, <3>2, <3>3 DEF ServeSend, GatewayTypeOK
  <2>7. CASE ServeAbort(w, q)
    <3>1. Reply("abortOk", q.session, NoRun) \in Frame
      BY <1>0, <2>2 DEF ReplyType
    <3> QED BY <2>3, <2>7, <3>1 DEF ServeAbort, GatewayTypeOK
  <2>8. CASE ServeError(w, q)
    <3>1. Reply("error", q.session, NoRun) \in Frame
      BY <1>0, <2>2 DEF ReplyType
    <3> QED BY <2>3, <2>8, <3>1 DEF ServeError, GatewayTypeOK
  <2> QED BY <1>2, <2>4, <2>5, <2>6, <2>7, <2>8 DEF Serve, q
<1>3. CASE Resend(w)
  <2>1. Head(firstSent) \in Frame
    <3>1. Head(firstSent) \in EventFrame
      BY <1>3 DEF Resend, GatewayTypeOK
    <3> QED BY <3>1 DEF EventFrame, Frame
  <2>2. inbox' \in [Socket -> Seq(Frame)]
    BY <1>3, <2>1, DeliverType DEF Resend, GatewayTypeOK
  <2> QED BY <1>3, <2>2 DEF Resend, GatewayTypeOK
<1>4. CASE NetworkFails(w)
  <2>1. /\ sock' \in [Socket -> SocketState]
        /\ inbox' \in [Socket -> Seq(Frame)]
        /\ outbox' \in [Socket -> Seq(RequestFrame)]
    BY <1>4 DEF NetworkFails, GatewayTypeOK, SocketState
  <2>2. gwSeq' \in Nat /\ runState' \in [Run -> {"free", "active", "over"}]
    BY <1>4 DEF NetworkFails, GatewayTypeOK
  <2>3. /\ UNCHANGED missed
        /\ UNCHANGED <<accepted, subscribed, runSession, talked, firstSent,
                       refused>>
    BY <1>4 DEF NetworkFails
  <2> QED BY <2>1, <2>2, <2>3 DEF GatewayTypeOK
<1>5. CASE ServerCloses(w)
  BY <1>5 DEF ServerCloses, GatewayTypeOK, SocketState
<1>6. ASSUME NEW r \in Run, NEW t \in EventType, EmitEvent(w, r, t)
      PROVE  GatewayTypeOK'
  <2>0. PICK e : e = Event(t, r, gwSeq + 1)
    OBVIOUS
  <2>1. e \in Frame /\ e \in EventFrame
    BY <2>0, EventIsFrame DEF GatewayTypeOK
  <2>2. /\ inbox' \in [Socket -> Seq(Frame)]
        /\ firstSent' \in Seq(EventFrame)
        /\ missed' \in SUBSET Nat
    <3>1. CASE /\ Deliver(w, e)
               /\ firstSent' = (IF firstSent = <<>> THEN <<e>> ELSE firstSent)
               /\ UNCHANGED missed
      <4>1. inbox' \in [Socket -> Seq(Frame)]
        BY <2>1, <3>1, DeliverType DEF GatewayTypeOK
      <4>2. <<e>> \in Seq(EventFrame)
        BY <2>1
      <4> QED BY <3>1, <4>1, <4>2 DEF GatewayTypeOK
    <3>2. CASE /\ missed' = missed \cup {gwSeq + 1}
               /\ UNCHANGED <<inbox, firstSent>>
      BY <3>2 DEF GatewayTypeOK
    <3> QED BY <1>6, <2>0, <3>1, <3>2 DEF EmitEvent
  <2>3. gwSeq' \in Nat
    BY <1>6 DEF EmitEvent, GatewayTypeOK
  <2>4. runState' \in [Run -> {"free", "active", "over"}]
    BY <1>6 DEF EmitEvent, RunEmits, GatewayTypeOK
  <2>5. UNCHANGED <<sock, outbox, accepted, subscribed, runSession, talked,
                    refused>>
    BY <1>6 DEF EmitEvent
  <2> QED BY <2>2, <2>3, <2>4, <2>5 DEF GatewayTypeOK
<1>7. ASSUME NEW r \in Run, NEW t \in EventType, EmitUnnumbered(w, r, t)
      PROVE  GatewayTypeOK'
  <2>1. Event(t, r, NoNumber) \in Frame
    BY EventIsFrame DEF NoNumber
  <2>2. inbox' \in [Socket -> Seq(Frame)]
    BY <1>7, <2>1, DeliverType DEF EmitUnnumbered, GatewayTypeOK
  <2>3. runState' \in [Run -> {"free", "active", "over"}]
    BY <1>7 DEF EmitUnnumbered, RunEmits, GatewayTypeOK
  <2> QED BY <1>7, <2>2, <2>3 DEF EmitUnnumbered, GatewayTypeOK
<1> QED BY <1>1, <1>2, <1>3, <1>4, <1>5, <1>6, <1>7

(***************************************************************************)
(* Hellos                                                                  *)
(***************************************************************************)

\* A new frame that is no hello, or one to an accepted socket, keeps
\* HelloIsEarned.
LEMMA DeliverEarned ==
  ASSUME GatewayTypeOK, HelloIsEarned, NEW w \in Socket, NEW f \in Frame,
         Deliver(w, f), f.type = "connectOk" => w \in accepted',
         accepted \subseteq accepted'
  PROVE  HelloIsEarned'
<1> SUFFICES ASSUME NEW x \in Socket, NEW i \in DOMAIN inbox'[x],
                    inbox'[x][i].type = "connectOk"
             PROVE  x \in accepted'
  BY DEF HelloIsEarned
<1>1. CASE x # w
  BY <1>1 DEF Deliver, HelloIsEarned, GatewayTypeOK
<1>2. CASE x = w
  <2>1. inbox[w] \in Seq(Frame) /\ inbox'[w] = Append(inbox[w], f)
    BY DEF Deliver, GatewayTypeOK
  <2>2. \/ i \in DOMAIN inbox[w] /\ inbox'[w][i] = inbox[w][i]
        \/ inbox'[w][i] = f
    BY <1>2, <2>1
  <2> QED BY <1>2, <2>2 DEF HelloIsEarned
<1> QED BY <1>1, <1>2

\* A client that reads a frame keeps it too.
LEMMA ReadEarned ==
  ASSUME GatewayTypeOK, HelloIsEarned, NEW w \in Socket, inbox[w] # <<>>,
         inbox' = [inbox EXCEPT ![w] = Tail(@)], accepted' = accepted
  PROVE  HelloIsEarned'
<1>1. inbox[w] \in Seq(Frame)
  BY DEF GatewayTypeOK
<1> SUFFICES ASSUME NEW x \in Socket, NEW i \in DOMAIN inbox'[x],
                    inbox'[x][i].type = "connectOk"
             PROVE  x \in accepted
  BY DEF HelloIsEarned
<1>3. CASE x # w
  BY <1>3 DEF HelloIsEarned, GatewayTypeOK
<1>4. CASE x = w
  <2>1. inbox'[w] = Tail(inbox[w])
    BY DEF GatewayTypeOK
  <2>2. i + 1 \in DOMAIN inbox[w] /\ inbox'[w][i] = inbox[w][i + 1]
    <3> DEFINE q == inbox[w]
    <3>1. q \in Seq(Frame) /\ q # <<>> /\ i \in DOMAIN Tail(q)
      BY <1>1, <1>4, <2>1
    <3>2. inbox'[w][i] = Tail(q)[i]
      BY <2>1
    <3> HIDE DEF q
    <3>3. i + 1 \in DOMAIN q /\ Tail(q)[i] = q[i + 1]
      BY <3>1
    <3> QED BY <3>2, <3>3 DEF q
  <2> QED BY <1>4, <2>2 DEF HelloIsEarned
<1> QED BY <1>3, <1>4

\* Every hello the Gateway puts in flight was earned.
LEMMA GatewayHelloStep ==
  ASSUME GatewayAssumption, GatewayTypeOK, HelloIsEarned, GatewayNext
  PROVE  HelloIsEarned'
<1>0. MainSession \in Session
  BY DEF GatewayAssumption
<1>1. CASE UNCHANGED <<inbox, accepted>>
  BY <1>1 DEF HelloIsEarned
<1>3. ASSUME NEW w \in Socket, Opens(w)
      PROVE  HelloIsEarned'
  <2>1. PICK c \in {"challenge", "badChallenge"} :
               Deliver(w, Reply(c, MainSession, NoRun))
    BY <1>3 DEF Opens
  <2>2. /\ Reply(c, MainSession, NoRun) \in Frame
        /\ Reply(c, MainSession, NoRun).type # "connectOk"
    BY <1>0, ReplyIsFrame DEF Reply
  <2>3. accepted' = accepted
    BY <1>3 DEF Opens, gateway
  <2> QED BY <2>1, <2>2, <2>3, DeliverEarned
<1>4. ASSUME NEW w \in Socket, Serve(w)
      PROVE  HelloIsEarned'
  <2> DEFINE q == Head(outbox[w])
  <2>1. q.session \in Session
    <3>1. q \in RequestFrame
      BY <1>4 DEF Serve, GatewayTypeOK
    <3> QED BY <3>1 DEF RequestFrame
  <2> HIDE DEF q
  <2>2. PICK t \in ReplyType, s \in Session, r \in Run \cup {NoRun} :
          /\ Deliver(w, Reply(t, s, r))
          /\ t = "connectOk" => w \in accepted'
          /\ accepted \subseteq accepted'
    <3>1. CASE ServeConnect(w, q)
      BY <1>0, <3>1 DEF ServeConnect, Answers, ReplyType, gateway
    <3>2. CASE ServeHistory(w, q)
      <4>1. Deliver(w, Reply(IF q.session \in talked
                               THEN "historyFull" ELSE "historyEmpty",
                             q.session, NoRun))
        BY <3>2 DEF ServeHistory, Answers
      <4>2. accepted' = accepted
        BY <3>2 DEF ServeHistory
      <4>3. CASE q.session \in talked
        BY <2>1, <4>1, <4>2, <4>3 DEF ReplyType
      <4>4. CASE q.session \notin talked
        BY <2>1, <4>1, <4>2, <4>4 DEF ReplyType
      <4> QED BY <4>3, <4>4
    <3>3. CASE ServeSend(w, q)
      BY <2>1, <3>3 DEF ServeSend, Answers, ReplyType
    <3>4. CASE ServeAbort(w, q)
      BY <2>1, <3>4 DEF ServeAbort, Answers, ReplyType, gateway
    <3>5. CASE ServeError(w, q)
      BY <2>1, <3>5 DEF ServeError, Answers, ReplyType, gateway
    <3> QED BY <1>4, <3>1, <3>2, <3>3, <3>4, <3>5 DEF Serve, q
  <2>3. Reply(t, s, r) \in Frame /\ Reply(t, s, r).type = t
    BY ReplyIsFrame DEF Reply
  <2> QED BY <2>2, <2>3, DeliverEarned
<1>5. ASSUME NEW w \in Socket, Resend(w)
      PROVE  HelloIsEarned'
  <2>1. Head(firstSent) \in EventFrame
    BY <1>5 DEF Resend, GatewayTypeOK
  <2>2. Head(firstSent) \in Frame /\ Head(firstSent).type # "connectOk"
    BY <2>1 DEF EventFrame, Frame, EventType
  <2> QED BY <1>5, <2>2, DeliverEarned DEF Resend, gateway
<1>6. ASSUME NEW w \in Socket, NetworkFails(w)
      PROVE  HelloIsEarned'
  <2>1. inbox' = [inbox EXCEPT ![w] = <<>>] /\ accepted' = accepted
    BY <1>6 DEF NetworkFails, gateway
  <2> QED BY <2>1 DEF HelloIsEarned, GatewayTypeOK
<1>7. ASSUME NEW w \in Socket, NEW r \in Run, NEW t \in EventType,
             EmitEvent(w, r, t) \/ EmitUnnumbered(w, r, t)
      PROVE  HelloIsEarned'
  <2>1. PICK n \in Nat : Deliver(w, Event(t, r, n)) \/ inbox' = inbox
    BY <1>7 DEF EmitEvent, EmitUnnumbered, NoNumber, GatewayTypeOK
  <2>2. Event(t, r, n) \in Frame /\ Event(t, r, n).type # "connectOk"
    BY EventIsFrame DEF EventType
  <2>3. accepted' = accepted
    BY <1>7 DEF EmitEvent, EmitUnnumbered
  <2>4. CASE Deliver(w, Event(t, r, n))
    BY <2>2, <2>3, <2>4, DeliverEarned
  <2>5. CASE inbox' = inbox
    BY <1>1, <2>3, <2>5
  <2> QED BY <2>1, <2>4, <2>5
<1>8. ASSUME NEW w \in Socket, ServerCloses(w)
      PROVE  HelloIsEarned'
  BY <1>1, <1>8 DEF ServerCloses, gateway
<1> QED BY <1>3, <1>4, <1>5, <1>6, <1>7, <1>8 DEF GatewayNext

\* The Gateway takes no acceptance back.
LEMMA AcceptedGrows ==
  ASSUME GatewayNext
  PROVE  accepted \subseteq accepted'
<1> USE DEF gateway
<1>1. ASSUME NEW w \in Socket, Opens(w) \/ Resend(w) \/ ServerCloses(w)
      PROVE  accepted \subseteq accepted'
  BY <1>1 DEF Opens, Resend, ServerCloses
<1>2. ASSUME NEW w \in Socket, Serve(w)
      PROVE  accepted \subseteq accepted'
  BY <1>2 DEF Serve, ServeConnect, ServeHistory, ServeSend, ServeAbort,
     ServeError
<1>3. ASSUME NEW w \in Socket, NetworkFails(w)
      PROVE  accepted \subseteq accepted'
  BY <1>3 DEF NetworkFails
<1>4. ASSUME NEW w \in Socket, NEW r \in Run, NEW t \in EventType,
             EmitEvent(w, r, t) \/ EmitUnnumbered(w, r, t)
      PROVE  accepted \subseteq accepted'
  BY <1>4 DEF EmitEvent, EmitUnnumbered
<1> QED BY <1>1, <1>2, <1>3, <1>4 DEF GatewayNext

(***************************************************************************)
(* Deltas name their run                                                   *)
(***************************************************************************)

NamedFrame ==
  {f \in Frame : f.type = "delta" => f.run \in Run}

RunsNamed ==
  /\ inbox \in [Socket -> Seq(NamedFrame)]
  /\ firstSent \in Seq(NamedFrame)

\* One more such frame.
LEMMA DeliverNamed ==
  ASSUME RunsNamed, NEW w \in Socket, NEW f \in NamedFrame, Deliver(w, f)
  PROVE  inbox' \in [Socket -> Seq(NamedFrame)]
BY DEF Deliver, RunsNamed

\* They do when they are sent, and when one is sent again.
LEMMA GatewayNamed ==
  ASSUME GatewayAssumption, GatewayTypeOK, RunsNamed, GatewayNext
  PROVE  RunsNamed'
<1> SUFFICES ASSUME NEW w \in Socket,
                    \/ Opens(w) \/ Serve(w) \/ Resend(w) \/ NetworkFails(w)
                    \/ ServerCloses(w)
                    \/ \E r \in Run, t \in EventType :
                         EmitEvent(w, r, t) \/ EmitUnnumbered(w, r, t)
             PROVE  RunsNamed'
  BY DEF GatewayNext
<1> USE DEF gateway
<1>0. MainSession \in Session
  BY DEF GatewayAssumption
<1>1. CASE Opens(w)
  <2>1. PICK c \in {"challenge", "badChallenge"} :
               Deliver(w, Reply(c, MainSession, NoRun))
    BY <1>1 DEF Opens
  <2>2. Reply(c, MainSession, NoRun) \in NamedFrame
    BY <1>0, ReplyIsFrame DEF Reply, NamedFrame
  <2>3. firstSent' = firstSent
    BY <1>1 DEF Opens
  <2> QED BY <2>1, <2>2, <2>3, DeliverNamed DEF RunsNamed
<1>2. CASE Serve(w)
  <2> DEFINE q == Head(outbox[w])
  <2>1. q.session \in Session
    <3>1. q \in RequestFrame
      BY <1>2 DEF Serve, GatewayTypeOK
    <3> QED BY <3>1 DEF RequestFrame
  <2> HIDE DEF q
  <2>2. PICK t \in ReplyType, s \in Session, r \in Run \cup {NoRun} :
          /\ Deliver(w, Reply(t, s, r))
          /\ firstSent' \in {firstSent, <<>>}
    <3>1. CASE ServeConnect(w, q)
      BY <1>0, <3>1 DEF ServeConnect, Answers, ReplyType
    <3>2. CASE ServeHistory(w, q)
      <4>1. PICK t \in {"historyFull", "historyEmpty"} :
                   Deliver(w, Reply(t, q.session, NoRun))
        BY <3>2 DEF ServeHistory, Answers
      <4>2. firstSent' = firstSent
        BY <3>2 DEF ServeHistory
      <4> QED BY <2>1, <4>1, <4>2 DEF ReplyType
    <3>3. CASE ServeSend(w, q)
      <4>1. PICK r \in Run \cup {NoRun} :
                   Deliver(w, Reply("sendOk", q.session, r))
        BY <3>3 DEF ServeSend, Answers
      <4>2. firstSent' = firstSent
        BY <3>3 DEF ServeSend
      <4> QED BY <2>1, <4>1, <4>2 DEF ReplyType
    <3>4. CASE ServeAbort(w, q)
      BY <2>1, <3>4 DEF ServeAbort, Answers, ReplyType
    <3>5. CASE ServeError(w, q)
      BY <2>1, <3>5 DEF ServeError, Answers, ReplyType
    <3> QED BY <1>2, <3>1, <3>2, <3>3, <3>4, <3>5 DEF Serve, q
  <2>3. Reply(t, s, r) \in NamedFrame
    BY <2>2, ReplyIsFrame DEF Reply, NamedFrame, ReplyType
  <2>4. <<>> \in Seq(NamedFrame)
    OBVIOUS
  <2> QED BY <2>2, <2>3, <2>4, DeliverNamed DEF RunsNamed
<1>3. CASE Resend(w)
  <2>1. Head(firstSent) \in NamedFrame /\ firstSent' = firstSent
    BY <1>3 DEF Resend, RunsNamed
  <2> QED BY <1>3, <2>1, DeliverNamed DEF Resend, RunsNamed
<1>4. CASE NetworkFails(w)
  <2>1. inbox' = [inbox EXCEPT ![w] = <<>>] /\ firstSent' = firstSent
    BY <1>4 DEF NetworkFails
  <2> QED BY <2>1 DEF RunsNamed
<1>5. ASSUME NEW r \in Run, NEW t \in EventType,
             EmitEvent(w, r, t) \/ EmitUnnumbered(w, r, t)
      PROVE  RunsNamed'
  <2>0. PICK n \in Nat :
          /\ Deliver(w, Event(t, r, n)) \/ inbox' = inbox
          /\ firstSent' = firstSent \/ firstSent' = <<Event(t, r, n)>>
    BY <1>5 DEF EmitEvent, EmitUnnumbered, NoNumber, GatewayTypeOK
  <2>1. PICK e :
          /\ e = Event(t, r, n)
          /\ Deliver(w, e) \/ inbox' = inbox
          /\ firstSent' = firstSent \/ firstSent' = <<e>>
    BY <2>0
  <2>2. e \in NamedFrame
    BY <2>1, EventIsFrame DEF NamedFrame
  <2>3. <<e>> \in Seq(NamedFrame)
    BY <2>2
  <2> QED BY <2>1, <2>2, <2>3, DeliverNamed DEF RunsNamed
<1>6. CASE ServerCloses(w)
  BY <1>6 DEF ServerCloses, RunsNamed
<1> QED BY <1>1, <1>2, <1>3, <1>4, <1>5, <1>6

(***************************************************************************)
(* Queues                                                                  *)
(***************************************************************************)

\* A queue has an entry of one of the types; it has one at most.
Has(queue, types) == \E i \in DOMAIN queue : queue[i].type \in types
Once(queue, types) ==
  \A i, j \in DOMAIN queue :
    queue[i].type \in types /\ queue[j].type \in types => i = j

\* A step that adds none and keeps the order.
Quieter(old, new, types) ==
  /\ Has(new, types) => Has(old, types)
  /\ Once(old, types) => Once(new, types)

\* What comes behind the others is none, or the only one.
LEMMA AppendShake ==
  ASSUME NEW S, NEW q \in Seq(S), NEW f \in S, NEW T
  PROVE  /\ f.type \notin T => Quieter(q, Append(q, f), T)
         /\ ~Has(q, T) => Once(Append(q, f), T)
<1> DEFINE r == Append(q, f)
<1>a. /\ Len(q) \in Nat /\ DOMAIN q = 1 .. Len(q)
      /\ DOMAIN r = 1 .. Len(q) + 1
  OBVIOUS
<1>b. \A i \in 1 .. Len(q) : r[i] = q[i]
  OBVIOUS
<1>c. r[Len(q) + 1] = f
  OBVIOUS
<1> HIDE DEF r
<1>1. \A i \in DOMAIN r : \/ i \in DOMAIN q /\ r[i] = q[i]
                          \/ i = Len(q) + 1 /\ r[i] = f
  BY <1>a, <1>b, <1>c
<1>2. ASSUME f.type \notin T
      PROVE  Quieter(q, r, T)
  BY <1>1, <1>2 DEF Quieter, Has, Once
<1>3. ASSUME ~Has(q, T)
      PROVE  Once(r, T)
  BY <1>1, <1>3 DEF Has, Once
<1> QED BY <1>2, <1>3 DEF r

\* A queue whose oldest entry is taken has no more than before, and none if
\* that was one.
LEMMA TailShake ==
  ASSUME NEW S, NEW q \in Seq(S), q # <<>>, NEW T
  PROVE  /\ Quieter(q, Tail(q), T)
         /\ Head(q).type \in T => Has(q, T)
         /\ Once(q, T) /\ Head(q).type \in T => ~Has(Tail(q), T)
<1> DEFINE r == Tail(q)
<1>1. \A i \in DOMAIN r : /\ i \in Nat /\ i # 0
                          /\ i + 1 \in DOMAIN q /\ r[i] = q[i + 1]
  <2> TAKE i \in DOMAIN r
  <2>1. i \in 1 .. Len(q) - 1 /\ Len(q) \in Nat
    OBVIOUS
  <2>2. r[i] = q[i + 1]
    BY <2>1
  <2> QED BY <2>1, <2>2
<1>2. 1 \in DOMAIN q /\ Head(q) = q[1]
  OBVIOUS
<1> HIDE DEF r
<1>3. Quieter(q, r, T)
  <2>1. Has(r, T) => Has(q, T)
    BY <1>1 DEF Has
  <2>2. ASSUME Once(q, T), NEW i \in DOMAIN r, NEW j \in DOMAIN r,
               r[i].type \in T, r[j].type \in T
        PROVE  i = j
    <3>1. i + 1 = j + 1
      BY <1>1, <2>2 DEF Once
    <3> QED BY <1>1, <3>1
  <2> QED BY <2>1, <2>2 DEF Quieter, Once
<1>4. Head(q).type \in T => Has(q, T)
  BY <1>2 DEF Has
<1>5. ASSUME Once(q, T), Head(q).type \in T, Has(r, T)
      PROVE  FALSE
  <2>1. PICK i \in DOMAIN r : r[i].type \in T
    BY <1>5 DEF Has
  <2>2. i + 1 = 1
    BY <1>1, <1>2, <1>5, <2>1 DEF Once
  <2> QED BY <1>1, <2>2
<1> QED BY <1>3, <1>4, <1>5 DEF r

\* A queue left alone, or emptied.
LEMMA SameShake ==
  ASSUME NEW q, NEW T
  PROVE  Quieter(q, q, T) /\ Quieter(q, <<>>, T)
BY DEF Quieter, Has, Once

\* The indices of a queue with one more.
LEMMA Behind ==
  ASSUME NEW q \in Seq(Frame), NEW f \in Frame
  PROVE  \A i \in DOMAIN Append(q, f) :
           \/ i \in DOMAIN q /\ i <= Len(q) /\ Append(q, f)[i] = q[i]
           \/ i = Len(q) + 1 /\ Append(q, f)[i] = f
<1> DEFINE r == Append(q, f)
<1>1. /\ Len(q) \in Nat /\ DOMAIN q = 1 .. Len(q)
      /\ DOMAIN r = 1 .. Len(q) + 1
  OBVIOUS
<1>2. \A i \in 1 .. Len(q) : r[i] = q[i]
  OBVIOUS
<1>3. r[Len(q) + 1] = f
  OBVIOUS
<1> HIDE DEF r
<1>4. \A i \in DOMAIN r : \/ i \in DOMAIN q /\ i <= Len(q) /\ r[i] = q[i]
                          \/ i = Len(q) + 1 /\ r[i] = f
  BY <1>1, <1>2, <1>3
<1> QED BY <1>4 DEF r

\* The indices of a queue with one less.
LEMMA Ahead ==
  ASSUME NEW q \in Seq(Frame), q # <<>>
  PROVE  /\ 1 \in DOMAIN q /\ Head(q) = q[1] /\ DOMAIN q \subseteq Nat
         /\ \A i \in DOMAIN q : i >= 1
         /\ DOMAIN Tail(q) \subseteq Nat
         /\ \A i \in DOMAIN Tail(q) : /\ i >= 1 /\ i + 1 \in DOMAIN q
                                      /\ Tail(q)[i] = q[i + 1]
<1>1. \A i \in DOMAIN Tail(q) : /\ i >= 1 /\ i + 1 \in DOMAIN q
                                /\ Tail(q)[i] = q[i + 1]
  <2> TAKE i \in DOMAIN Tail(q)
  <2>1. i \in 1 .. Len(q) - 1 /\ Len(q) \in Nat
    OBVIOUS
  <2>2. Tail(q)[i] = q[i + 1]
    BY <2>1
  <2> QED BY <2>1, <2>2
<1>2. /\ 1 \in DOMAIN q /\ Head(q) = q[1] /\ DOMAIN q \subseteq Nat
      /\ \A i \in DOMAIN q : i >= 1
  OBVIOUS
<1>3. DOMAIN Tail(q) \subseteq Nat
  OBVIOUS
<1> QED BY <1>1, <1>2, <1>3

\* A request sent on a socket that takes it is behind those sent before.
LEMMA TransmitAdds ==
  ASSUME GatewayTypeOK, NEW x, NEW t \in RequestType, NEW s \in Session,
         Transmit(x, t, s), NEW w \in Socket, NEW T
  PROVE  /\ Has(outbox[w], T) => Has(outbox'[w], T)
         /\ w = x /\ sock[w] = "open" => Has(outbox'[w], {t})
<1> DEFINE f == [type |-> t, session |-> s]
           q == outbox[w]
           r == Append(q, f)
<1>1. q \in Seq(RequestFrame) /\ f \in RequestFrame /\ f.type = t
  BY DEF GatewayTypeOK, RequestFrame
<1>2. /\ outbox'[w] = q \/ outbox'[w] = r
      /\ w = x /\ sock[w] = "open" => outbox'[w] = r
  BY DEF Transmit, GatewayTypeOK, TakesSends
<1> HIDE DEF f, q
<1>3. /\ \A i \in DOMAIN q : i \in DOMAIN r /\ r[i] = q[i]
      /\ Len(q) + 1 \in DOMAIN r /\ r[Len(q) + 1] = f
  BY <1>1
<1> HIDE DEF r
<1>4. Has(q, T) => Has(r, T)
  BY <1>3 DEF Has
<1>5. Has(r, {t})
  BY <1>1, <1>3 DEF Has
<1> QED BY <1>2, <1>4, <1>5 DEF q

\* A request other than connect adds nothing to a handshake.
LEMMA TransmitShake ==
  ASSUME GatewayTypeOK, NEW x,
         NEW t \in RequestType \ {"connect"}, NEW s \in Session,
         Transmit(x, t, s), NEW w \in Socket
  PROVE  Quieter(outbox[w], outbox'[w], {"connect"})
<1> DEFINE f == [type |-> t, session |-> s]
<1>1. f \in RequestFrame /\ f.type \notin {"connect"}
  BY DEF RequestFrame
<1>2. outbox[w] \in Seq(RequestFrame)
  BY DEF GatewayTypeOK
<1>3. outbox'[w] = outbox[w] \/ outbox'[w] = Append(outbox[w], f)
  BY DEF Transmit, GatewayTypeOK
<1> HIDE DEF f
<1> QED BY <1>1, <1>2, <1>3, AppendShake, SameShake

(***************************************************************************)
(* One socket at a time                                                    *)
(***************************************************************************)

\* What the Gateway and the network do on a socket.
GatewayMoves(w) ==
  \/ Opens(w) \/ Serve(w) \/ Resend(w) \/ NetworkFails(w) \/ ServerCloses(w)
  \/ \E r \in Run, t \in EventType :
       EmitEvent(w, r, t) \/ EmitUnnumbered(w, r, t)

\* They move on a socket that is up or on its way up, and leave all others as
\* they are.
LEMMA OneMoves ==
  ASSUME GatewayTypeOK, GatewayNext
  PROVE  \E w \in Socket :
           /\ GatewayMoves(w)
           /\ sock[w] \in {"opening", "open", "halfClosed", "closing"}
           /\ sock'[w] \in {"open", "halfClosed", "failed"}
           /\ sock'[w] = "open" => sock[w] \in {"opening", "open"}
           /\ \A x \in Socket \ {w} :
                /\ inbox'[x] = inbox[x] /\ outbox'[x] = outbox[x]
                /\ sock'[x] = sock[x] /\ (x \in accepted' <=> x \in accepted)
<1>1. PICK w \in Socket : GatewayMoves(w)
  BY DEF GatewayNext, GatewayMoves
<1> USE DEF gateway
<1>2. /\ sock[w] \in {"opening", "open", "halfClosed", "closing"}
      /\ \/ sock' = [sock EXCEPT ![w] = "open"] /\ sock[w] = "opening"
         \/ sock' = sock /\ sock[w] = "open"
         \/ sock' \in {[sock EXCEPT ![w] = "failed"],
                       [sock EXCEPT ![w] = "halfClosed"]}
  BY <1>1 DEF GatewayMoves, Opens, Serve, ServeConnect, ServeHistory,
     ServeSend, ServeAbort, ServeError, Answers, Resend, Streams,
     NetworkFails, ServerCloses, EmitEvent, EmitUnnumbered, RunEmits
<1>3. accepted' = accepted \/ accepted' = accepted \cup {w}
  BY <1>1 DEF GatewayMoves, Opens, Serve, ServeConnect, ServeHistory,
     ServeSend, ServeAbort, ServeError, Resend, NetworkFails, ServerCloses,
     EmitEvent, EmitUnnumbered
<1>4. \/ inbox' = inbox
      \/ \E q : inbox' = [inbox EXCEPT ![w] = q]
  BY <1>1 DEF GatewayMoves, Opens, Serve, ServeConnect, ServeHistory,
     ServeSend, ServeAbort, ServeError, Answers, Resend, NetworkFails,
     ServerCloses, EmitEvent, EmitUnnumbered, Deliver
<1>5. \/ outbox' = outbox
      \/ \E q : outbox' = [outbox EXCEPT ![w] = q]
  BY <1>1 DEF GatewayMoves, Opens, Serve, ServeConnect, ServeHistory,
     ServeSend, ServeAbort, ServeError, Answers, Resend, NetworkFails,
     ServerCloses, EmitEvent, EmitUnnumbered
<1>6. /\ sock'[w] \in {"open", "halfClosed", "failed"}
      /\ sock'[w] = "open" => sock[w] \in {"opening", "open"}
  BY <1>2 DEF GatewayTypeOK
<1>7. ASSUME NEW x \in Socket \ {w}
      PROVE  /\ inbox'[x] = inbox[x] /\ outbox'[x] = outbox[x]
             /\ sock'[x] = sock[x] /\ (x \in accepted' <=> x \in accepted)
  BY <1>2, <1>3, <1>4, <1>5, <1>7 DEF GatewayTypeOK
<1> QED BY <1>1, <1>2, <1>6, <1>7

\* A run that is over stays so, one that started is not free again.
RunsOnward ==
  \A x \in Run : /\ runState[x] # "free" => runState'[x] # "free"
                 /\ runState[x] = "over" => runState'[x] = "over"

\* A run that started is never free again, one that is over never active.
LEMMA RunsGoOn ==
  ASSUME GatewayTypeOK, GatewayNext
  PROVE  RunsOnward
<1> USE DEF gateway, RunsOnward
<1>1. PICK w \in Socket :
        \/ Opens(w) \/ Serve(w) \/ Resend(w)
        \/ NetworkFails(w) \/ ServerCloses(w)
        \/ \E r \in Run, t \in EventType :
             EmitEvent(w, r, t) \/ EmitUnnumbered(w, r, t)
  BY DEF GatewayNext
<1>2. CASE Opens(w) \/ Resend(w) \/ ServerCloses(w)
  BY <1>2 DEF Opens, Resend, ServerCloses
<1>3. CASE Serve(w)
  <2>1. \/ runState' = runState
        \/ \E r \in Run : /\ runState[r] = "free"
                          /\ runState' = [runState EXCEPT ![r] = "active"]
    BY <1>3 DEF Serve, ServeConnect, ServeHistory, ServeSend, ServeAbort,
       ServeError
  <2> QED BY <2>1 DEF GatewayTypeOK
<1>4. CASE NetworkFails(w)
  BY <1>4 DEF NetworkFails, GatewayTypeOK
<1>5. ASSUME NEW r \in Run, NEW t \in EventType,
             EmitEvent(w, r, t) \/ EmitUnnumbered(w, r, t)
      PROVE  \A x \in Run :
               /\ runState[x] # "free" => runState'[x] # "free"
               /\ runState[x] = "over" => runState'[x] = "over"
  <2>1. RunEmits(w, r, t)
    BY <1>5 DEF EmitEvent, EmitUnnumbered
  <2> QED BY <2>1 DEF RunEmits, GatewayTypeOK
<1> QED BY <1>1, <1>2, <1>3, <1>4, <1>5

\* What serving a request adds to the inbox and does to the runs.
LEMMA ServeKinds ==
  ASSUME GatewayAssumption, GatewayTypeOK, NEW w \in Socket, Serve(w)
  PROVE  \E t \in ReplyType, s \in Session, r \in Run \cup {NoRun} :
           /\ Deliver(w, Reply(t, s, r))
           /\ \/ /\ t = "connectOk" /\ Head(outbox[w]).type = "connect"
                 /\ accepted' = accepted \cup {w} /\ firstSent' = <<>>
              \/ /\ t = "sendOk" /\ w \in accepted
                 /\ r \in Run => runState[r] = "free" /\ runState'[r] # "free"
                 /\ UNCHANGED <<accepted, firstSent>>
              \/ /\ t \notin {"connectOk", "sendOk"}
                 /\ UNCHANGED <<accepted, firstSent>>
<1> DEFINE q == Head(outbox[w])
           Kind(t, s, r) ==
             /\ Deliver(w, Reply(t, s, r))
             /\ \/ /\ t = "connectOk" /\ q.type = "connect"
                   /\ accepted' = accepted \cup {w} /\ firstSent' = <<>>
                \/ /\ t = "sendOk" /\ w \in accepted
                   /\ r \in Run => /\ runState[r] = "free"
                                   /\ runState'[r] # "free"
                   /\ UNCHANGED <<accepted, firstSent>>
                \/ /\ t \notin {"connectOk", "sendOk"}
                   /\ UNCHANGED <<accepted, firstSent>>
<1> USE DEF gateway
<1>1. q.session \in Session /\ MainSession \in Session
  <2>1. q \in RequestFrame
    BY DEF Serve, GatewayTypeOK
  <2> QED BY <2>1 DEF RequestFrame, GatewayAssumption
<1>2. CASE ServeConnect(w, q)
  <2>1. \E t \in ReplyType : Kind(t, MainSession, NoRun)
    BY <1>2 DEF ServeConnect, Answers, ReplyType
  <2> QED BY <1>1, <2>1
<1>3. CASE ServeHistory(w, q)
  <2>1. \E t \in ReplyType : Kind(t, q.session, NoRun)
    BY <1>3 DEF ServeHistory, Answers, ReplyType
  <2> QED BY <1>1, <2>1
<1>4. CASE ServeSend(w, q)
  <2>1. PICK r \in Run, named \in Run \cup {NoRun} :
          /\ named \in {r, NoRun}
          /\ Deliver(w, Reply("sendOk", q.session, named))
          /\ runState[r] = "free"
          /\ runState' = [runState EXCEPT ![r] = "active"]
    BY <1>4 DEF ServeSend, Answers
  <2>2. w \in accepted /\ UNCHANGED <<accepted, firstSent>>
    BY <1>4 DEF ServeSend
  <2>3. named \in Run => runState[named] = "free" /\ runState'[named] # "free"
    BY <2>1 DEF GatewayTypeOK, GatewayAssumption
  <2>4. Kind("sendOk", q.session, named) /\ "sendOk" \in ReplyType
    BY <2>1, <2>2, <2>3 DEF ReplyType
  <2> QED BY <1>1, <2>1, <2>4
<1>5. CASE ServeAbort(w, q) \/ ServeError(w, q)
  <2>1. \E t \in ReplyType : Kind(t, q.session, NoRun)
    BY <1>5 DEF ServeAbort, ServeError, Answers, ReplyType
  <2> QED BY <1>1, <2>1
<1> QED BY <1>2, <1>3, <1>4, <1>5 DEF Serve

(***************************************************************************)
(* One handshake per socket                                                *)
(***************************************************************************)

Opening == {"challenge", "connectOk", "pairingRequired"}

\* Nor does a frame that is not of one.
LEMMA DeliverShake ==
  ASSUME GatewayTypeOK, NEW x \in Socket, NEW f \in Frame,
         f.type \notin Opening, Deliver(x, f), NEW w \in Socket
  PROVE  Quieter(inbox[w], inbox'[w], Opening)
<1>1. inbox[w] \in Seq(Frame)
  BY DEF GatewayTypeOK
<1>2. inbox'[w] = inbox[w] \/ inbox'[w] = Append(inbox[w], f)
  BY DEF Deliver, GatewayTypeOK
<1> QED BY <1>1, <1>2, AppendShake, SameShake

\* Of challenge, connect request and its reply a socket has one at a time on
\* its way, and none before it opens.
Handshake(w) ==
  /\ Once(inbox[w], Opening)
  /\ Once(outbox[w], {"connect"})
  /\ ~(Has(inbox[w], Opening) /\ Has(outbox[w], {"connect"}))
  /\ sock[w] \in {"unused", "opening"}
       => ~Has(inbox[w], Opening) /\ ~Has(outbox[w], {"connect"})

\* The handshake of a socket is over.
Settled(w) ==
  /\ sock[w] \notin {"unused", "opening"}
  /\ ~Has(inbox[w], Opening)
  /\ ~Has(outbox[w], {"connect"})

\* Both last when nothing is added to the handshake.
LEMMA CalmHandshake ==
  ASSUME NEW w \in Socket,
         Quieter(inbox[w], inbox'[w], Opening),
         Quieter(outbox[w], outbox'[w], {"connect"}),
         sock'[w] \in {"unused", "opening"}
           => sock[w] \in {"unused", "opening"}
  PROVE  /\ Handshake(w) => Handshake(w)'
         /\ Settled(w) => Settled(w)'
BY DEF Handshake, Settled, Quieter

\* The Gateway and the network keep a socket to one handshake.
LEMMA GatewayHandshake ==
  ASSUME GatewayAssumption, GatewayTypeOK, NEW w \in Socket, GatewayMoves(w),
         Handshake(w)
  PROVE  Handshake(w)' /\ (Settled(w) => Settled(w)')
<1>0. /\ MainSession \in Session
      /\ inbox[w] \in Seq(Frame) /\ outbox[w] \in Seq(RequestFrame)
  BY DEF GatewayTypeOK, GatewayAssumption
<1>s. /\ Quieter(inbox[w], inbox[w], Opening)
      /\ Quieter(inbox[w], <<>>, Opening)
      /\ Quieter(outbox[w], outbox[w], {"connect"})
      /\ Quieter(outbox[w], <<>>, {"connect"})
  BY SameShake
<1>1. CASE Opens(w)
  <2>1. PICK c \in {"challenge", "badChallenge"} :
               Deliver(w, Reply(c, MainSession, NoRun))
    BY <1>1 DEF Opens
  <2>2. Reply(c, MainSession, NoRun) \in Frame
    BY <1>0, <2>1, ReplyIsFrame
  <2>3. /\ sock'[w] = "open" /\ outbox' = outbox /\ sock[w] = "opening"
        /\ inbox'[w] = Append(inbox[w], Reply(c, MainSession, NoRun))
    BY <1>1, <2>1 DEF Opens, Deliver, GatewayTypeOK
  <2>4. ~Has(inbox[w], Opening) /\ ~Has(outbox[w], {"connect"})
    BY <2>3 DEF Handshake
  <2>5. Once(inbox'[w], Opening)
    BY <1>0, <2>2, <2>3, <2>4, AppendShake
  <2> QED BY <2>3, <2>4, <2>5 DEF Handshake, Settled
<1>2. CASE Serve(w)
  <2> DEFINE q == Head(outbox[w])
  <2>1. /\ q.session \in Session /\ sock' = sock /\ sock[w] = "open"
        /\ outbox[w] # <<>> /\ outbox'[w] = Tail(outbox[w])
    <3>1. q \in RequestFrame
      BY <1>2 DEF Serve, GatewayTypeOK
    <3>2. q.session \in Session
      BY <3>1 DEF RequestFrame
    <3> QED BY <1>2, <3>2 DEF Serve, ServeConnect, ServeHistory, ServeSend,
            ServeAbort, ServeError, Answers, GatewayTypeOK
  <2>2. PICK t \in ReplyType, s \in Session, r \in Run \cup {NoRun} :
          /\ Deliver(w, Reply(t, s, r))
          /\ t \in Opening => q.type = "connect"
    <3>1. CASE ServeConnect(w, q)
      BY <1>0, <3>1 DEF ServeConnect, Answers, ReplyType
    <3>2. CASE ServeHistory(w, q)
      <4>1. PICK t \in {"historyFull", "historyEmpty"} :
                   Deliver(w, Reply(t, q.session, NoRun))
        BY <3>2 DEF ServeHistory, Answers
      <4> QED BY <2>1, <4>1 DEF ReplyType, Opening
    <3>3. CASE ServeSend(w, q)
      <4>1. PICK r \in Run \cup {NoRun} :
                   Deliver(w, Reply("sendOk", q.session, r))
        BY <3>3 DEF ServeSend, Answers
      <4> QED BY <2>1, <4>1 DEF ReplyType, Opening
    <3>4. CASE ServeAbort(w, q)
      BY <2>1, <3>4 DEF ServeAbort, Answers, ReplyType, Opening
    <3>5. CASE ServeError(w, q)
      BY <2>1, <3>5 DEF ServeError, Answers, ReplyType, Opening
    <3> QED BY <1>2, <3>1, <3>2, <3>3, <3>4, <3>5 DEF Serve, q
  <2>3. Reply(t, s, r) \in Frame /\ Reply(t, s, r).type = t
    BY ReplyIsFrame DEF Reply
  <2>4. inbox'[w] = Append(inbox[w], Reply(t, s, r))
    BY <2>2 DEF Deliver, GatewayTypeOK
  <2>5. /\ Quieter(outbox[w], outbox'[w], {"connect"})
        /\ q.type = "connect" => Has(outbox[w], {"connect"})
        /\ Once(outbox[w], {"connect"}) /\ q.type = "connect"
             => ~Has(outbox'[w], {"connect"})
    BY <1>0, <2>1, TailShake
  <2>6. CASE t \notin Opening
    <3>1. Quieter(inbox[w], inbox'[w], Opening)
      BY <1>0, <2>3, <2>4, <2>6, AppendShake
    <3> QED BY <2>1, <2>5, <3>1, CalmHandshake
  <2>7. CASE t \in Opening
    <3>1. /\ ~Has(outbox'[w], {"connect"}) /\ ~Has(inbox[w], Opening)
          /\ ~Settled(w)
      BY <2>2, <2>5, <2>7 DEF Handshake, Settled
    <3>2. Once(inbox'[w], Opening)
      BY <1>0, <2>3, <2>4, <3>1, AppendShake
    <3>3. Once(outbox'[w], {"connect"})
      BY <3>1 DEF Has, Once
    <3> QED BY <2>1, <3>1, <3>2, <3>3 DEF Handshake
  <2> QED BY <2>6, <2>7
<1>3. CASE Resend(w)
  <2>1. Head(firstSent) \in EventFrame
    BY <1>3 DEF Resend, GatewayTypeOK
  <2>2. Head(firstSent) \in Frame /\ Head(firstSent).type \notin Opening
    BY <2>1 DEF EventFrame, Frame, EventType, Opening
  <2>3. Quieter(inbox[w], inbox'[w], Opening)
    BY <1>3, <2>2, DeliverShake DEF Resend
  <2> QED BY <1>3, <1>s, <2>3, CalmHandshake DEF Resend
<1>4. CASE NetworkFails(w)
  <2>1. inbox'[w] = <<>> /\ outbox'[w] = <<>> /\ sock'[w] = "failed"
    BY <1>4 DEF NetworkFails, GatewayTypeOK
  <2> QED BY <1>s, <2>1, CalmHandshake
<1>5. ASSUME NEW r \in Run, NEW t \in EventType,
             EmitEvent(w, r, t) \/ EmitUnnumbered(w, r, t)
      PROVE  Handshake(w)' /\ (Settled(w) => Settled(w)')
  <2>0. PICK n \in Nat : Deliver(w, Event(t, r, n)) \/ inbox' = inbox
    BY <1>5 DEF EmitEvent, EmitUnnumbered, NoNumber, GatewayTypeOK
  <2>1. PICK e : e = Event(t, r, n) /\ (Deliver(w, e) \/ inbox' = inbox)
    BY <2>0
  <2>2. e \in Frame /\ e.type \notin Opening
    BY <2>1, EventIsFrame DEF EventType, Opening
  <2>3. sock' = sock /\ outbox' = outbox
    BY <1>5 DEF EmitEvent, EmitUnnumbered
  <2>4. Quieter(inbox[w], inbox'[w], Opening)
    BY <1>s, <2>1, <2>2, DeliverShake
  <2> QED BY <1>s, <2>3, <2>4, CalmHandshake
<1>6. CASE ServerCloses(w)
  <2>1. inbox' = inbox /\ outbox' = outbox /\ sock'[w] = "halfClosed"
    BY <1>6 DEF ServerCloses, GatewayTypeOK
  <2> QED BY <1>s, <2>1, CalmHandshake
<1> QED BY <1>1, <1>2, <1>3, <1>4, <1>5, <1>6 DEF GatewayMoves

\* A client that reads a frame other than a challenge adds nothing.
LEMMA ReadHandshake ==
  ASSUME NEW w \in Socket, Handshake(w), inbox[w] \in Seq(Frame),
         inbox[w] # <<>>, inbox'[w] = Tail(inbox[w]), sock'[w] = sock[w],
         Quieter(outbox[w], outbox'[w], {"connect"})
  PROVE  /\ Handshake(w)' /\ (Settled(w) => Settled(w)')
         /\ Head(inbox[w]).type \in Opening => Settled(w)'
<1>1. /\ Quieter(inbox[w], inbox'[w], Opening)
      /\ Head(inbox[w]).type \in Opening
           => Has(inbox[w], Opening) /\ ~Has(inbox'[w], Opening)
  BY TailShake DEF Handshake
<1>2. ASSUME Head(inbox[w]).type \in Opening
      PROVE  Settled(w)'
  BY <1>1, <1>2 DEF Handshake, Settled, Quieter
<1> QED BY <1>1, <1>2, CalmHandshake

\* One that answers the challenge it read has asked, once.
LEMMA AskHandshake ==
  ASSUME GatewayTypeOK, NEW w \in Socket, Handshake(w), inbox[w] # <<>>,
         inbox'[w] = Tail(inbox[w]), sock'[w] = sock[w],
         Head(inbox[w]).type \in Opening, NEW s \in Session,
         Transmit(w, "connect", s)
  PROVE  Handshake(w)'
<1> DEFINE q == [type |-> "connect", session |-> s]
<1>1. /\ inbox[w] \in Seq(Frame) /\ outbox[w] \in Seq(RequestFrame)
      /\ q \in RequestFrame
      /\ outbox'[w] = outbox[w] \/ outbox'[w] = Append(outbox[w], q)
  BY DEF Transmit, GatewayTypeOK, RequestFrame, RequestType
<1> HIDE DEF q
<1>2. /\ Once(inbox'[w], Opening) /\ ~Has(inbox'[w], Opening)
      /\ Has(inbox[w], Opening)
  BY <1>1, TailShake DEF Handshake, Quieter
<1>3. /\ ~Has(outbox[w], {"connect"})
      /\ sock'[w] \notin {"unused", "opening"}
  BY <1>2 DEF Handshake
<1>4. Once(outbox'[w], {"connect"})
  BY <1>1, <1>3, AppendShake DEF Handshake
<1> QED BY <1>2, <1>3, <1>4 DEF Handshake

(***************************************************************************)
(* Numbers of one connection                                               *)
(***************************************************************************)

\* No event in the queue has a number the Gateway has not used.
Low(queue, top) ==
  \A i \in DOMAIN queue : queue[i].type \in EventType => queue[i].seq <= top

\* One more that is low, one less, and a greater top.
LEMMA LowSteps ==
  ASSUME NEW q \in Seq(Frame), NEW n \in Nat, Low(q, n)
  PROVE  /\ \A f \in Frame : (f.type \in EventType => f.seq <= n)
                               => Low(Append(q, f), n)
         /\ q # <<>> => Low(Tail(q), n)
         /\ q # <<>> => (Head(q).type \in EventType => Head(q).seq <= n)
         /\ Low(q, n + 1)
<1>1. ASSUME NEW f \in Frame, f.type \in EventType => f.seq <= n
      PROVE  Low(Append(q, f), n)
  <2> DEFINE r == Append(q, f)
  <2>1. /\ Len(q) \in Nat /\ DOMAIN q = 1 .. Len(q)
        /\ DOMAIN r = 1 .. Len(q) + 1
    OBVIOUS
  <2>2. \A i \in 1 .. Len(q) : r[i] = q[i]
    OBVIOUS
  <2>3. r[Len(q) + 1] = f
    OBVIOUS
  <2> HIDE DEF r
  <2>4. Low(r, n)
    BY <1>1, <2>1, <2>2, <2>3 DEF Low
  <2> QED BY <2>4 DEF r
<1>2. ASSUME q # <<>>
      PROVE  /\ Low(Tail(q), n)
             /\ Head(q).type \in EventType => Head(q).seq <= n
  <2> DEFINE r == Tail(q)
  <2>1. /\ Len(q) \in Nat /\ DOMAIN q = 1 .. Len(q) /\ 1 \in DOMAIN q
        /\ DOMAIN r = 1 .. Len(q) - 1 /\ Head(q) = q[1]
    BY <1>2
  <2>2. \A i \in DOMAIN r : r[i] = q[i + 1]
    BY <1>2
  <2> HIDE DEF r
  <2>3. \A i \in DOMAIN r : i + 1 \in DOMAIN q
    BY <2>1
  <2>4. Low(r, n)
    BY <2>2, <2>3 DEF Low
  <2> QED BY <2>1, <2>4 DEF Low, r
<1>3. Low(q, n + 1)
  <2>1. ASSUME NEW i \in DOMAIN q
        PROVE  q[i].seq \in Nat
    <3>1. q[i] \in Frame
      OBVIOUS
    <3> QED BY <3>1 DEF Frame
  <2> QED BY <2>1 DEF Low
<1> QED BY <1>1, <1>2, <1>3

\* What a socket carries and what it may carry again are numbers its Gateway
\* has used; one not open yet carries nothing and has no hello.
NumbersUsed(w) ==
  /\ sock[w] \in {"unused", "opening"} => inbox[w] = <<>> /\ w \notin accepted
  /\ sock[w] = "open" =>
       /\ Low(inbox[w], gwSeq)
       /\ w \in accepted =>
            \A i \in DOMAIN firstSent : firstSent[i].seq <= gwSeq

\* The Gateway counts up until the socket breaks.
LEMMA GatewayNumbers ==
  ASSUME GatewayAssumption, GatewayTypeOK, NEW w \in Socket, GatewayMoves(w),
         NumbersUsed(w)
  PROVE  NumbersUsed(w)' /\ (sock'[w] = "open" => gwSeq <= gwSeq')
<1> USE DEF gateway
<1>0. /\ MainSession \in Session /\ inbox[w] \in Seq(Frame) /\ gwSeq \in Nat
  BY DEF GatewayTypeOK, GatewayAssumption
<1>2. ASSUME NEW f \in Frame, Deliver(w, f),
             f.type \in EventType => f.seq <= gwSeq
      PROVE  /\ inbox'[w] = Append(inbox[w], f)
             /\ Low(inbox[w], gwSeq) => Low(inbox'[w], gwSeq)
  <2>1. inbox'[w] = Append(inbox[w], f)
    BY <1>2 DEF Deliver, GatewayTypeOK
  <2>2. Low(inbox[w], gwSeq) => Low(Append(inbox[w], f), gwSeq)
    BY <1>0, <1>2, LowSteps
  <2> QED BY <2>1, <2>2
<1>3. CASE Opens(w)
  <2>1. PICK c \in {"challenge", "badChallenge"} :
               Deliver(w, Reply(c, MainSession, NoRun))
    BY <1>3 DEF Opens
  <2>2. /\ Reply(c, MainSession, NoRun) \in Frame
        /\ Reply(c, MainSession, NoRun).type \notin EventType
    BY <1>0, ReplyIsFrame DEF Reply, EventType
  <2>3. /\ sock[w] = "opening" /\ sock'[w] = "open"
        /\ UNCHANGED <<accepted, gwSeq, firstSent>>
    BY <1>3 DEF Opens, GatewayTypeOK
  <2>4. Low(<<>>, gwSeq)
    BY DEF Low
  <2>5. Low(inbox'[w], gwSeq)
    BY <1>2, <2>1, <2>2, <2>3, <2>4 DEF NumbersUsed
  <2> QED BY <1>0, <2>3, <2>5 DEF NumbersUsed
<1>4. CASE Serve(w)
  <2>1. PICK t \in ReplyType, s \in Session, r \in Run \cup {NoRun} :
          /\ Deliver(w, Reply(t, s, r))
          /\ \/ UNCHANGED <<accepted, firstSent>>
             \/ firstSent' = <<>>
    BY <1>4, ServeKinds
  <2>2. /\ Reply(t, s, r) \in Frame
        /\ Reply(t, s, r).type \notin EventType
    BY ReplyIsFrame DEF Reply, ReplyType, EventType
  <2>3. Low(inbox[w], gwSeq) => Low(inbox'[w], gwSeq)
    BY <1>2, <2>1, <2>2
  <2>4. sock[w] = "open" /\ sock' = sock /\ gwSeq' = gwSeq
    BY <1>4 DEF Serve, ServeConnect, ServeHistory, ServeSend, ServeAbort,
       ServeError, Answers
  <2>5. CASE UNCHANGED <<accepted, firstSent>>
    BY <1>0, <2>3, <2>4, <2>5 DEF NumbersUsed
  <2>6. CASE firstSent' = <<>>
    BY <1>0, <2>3, <2>4, <2>6 DEF NumbersUsed
  <2> QED BY <2>1, <2>5, <2>6
<1>5. CASE Resend(w)
  <2>1. /\ sock[w] = "open" /\ w \in accepted /\ firstSent # <<>>
        /\ firstSent \in Seq(EventFrame) /\ Deliver(w, Head(firstSent))
        /\ UNCHANGED <<sock, accepted, gwSeq, firstSent>>
    BY <1>5 DEF Resend, Streams, GatewayTypeOK
  <2>2. Head(firstSent) = firstSent[1] /\ 1 \in DOMAIN firstSent
    BY <2>1
  <2>3. Head(firstSent).seq <= gwSeq
    BY <2>1, <2>2 DEF NumbersUsed
  <2>4. Head(firstSent) \in Frame
    <3>1. Head(firstSent) \in EventFrame
      BY <2>1
    <3> QED BY <3>1 DEF EventFrame, Frame
  <2>5. Low(inbox[w], gwSeq) => Low(inbox'[w], gwSeq)
    BY <1>2, <2>1, <2>3, <2>4
  <2> QED BY <1>0, <2>1, <2>5 DEF NumbersUsed
<1>6. CASE NetworkFails(w) \/ ServerCloses(w)
  <2>1. sock'[w] \notin {"unused", "opening", "open"}
    BY <1>6 DEF NetworkFails, ServerCloses, GatewayTypeOK
  <2> QED BY <2>1 DEF NumbersUsed
<1>7. ASSUME NEW r \in Run, NEW t \in EventType, EmitEvent(w, r, t)
      PROVE  NumbersUsed(w)' /\ (sock'[w] = "open" => gwSeq <= gwSeq')
  <2> DEFINE e == Event(t, r, gwSeq + 1)
  <2>0. e \in Frame /\ e.seq = gwSeq + 1
    BY <1>0, EventIsFrame
  <2> HIDE DEF e
  <2>1. /\ e \in Frame /\ e.seq = gwSeq + 1
        /\ Deliver(w, e) \/ inbox' = inbox
        /\ firstSent' = firstSent \/ firstSent' = <<e>>
        /\ UNCHANGED <<sock, accepted>> /\ gwSeq' = gwSeq + 1
        /\ sock[w] = "open"
    BY <1>7, <2>0 DEF EmitEvent, RunEmits, Streams, e
  <2>2. Low(inbox[w], gwSeq) => Low(inbox'[w], gwSeq + 1)
    <3>1. Low(inbox[w], gwSeq) => Low(inbox[w], gwSeq + 1)
      BY <1>0, LowSteps
    <3>2. inbox'[w] = inbox[w] \/ inbox'[w] = Append(inbox[w], e)
      BY <2>1 DEF Deliver, GatewayTypeOK
    <3>3. gwSeq + 1 \in Nat /\ e.seq <= gwSeq + 1
      BY <1>0, <2>1
    <3>4. Low(inbox[w], gwSeq + 1) => Low(Append(inbox[w], e), gwSeq + 1)
      BY <1>0, <2>1, <3>3, LowSteps
    <3> QED BY <3>1, <3>2, <3>4
  <2>3. ASSUME \A i \in DOMAIN firstSent : firstSent[i].seq <= gwSeq,
               NEW i \in DOMAIN firstSent'
        PROVE  firstSent'[i].seq <= gwSeq + 1
    <3>1. CASE firstSent' = firstSent
      <4>1. firstSent[i] \in EventFrame
        BY <3>1 DEF GatewayTypeOK
      <4> QED BY <1>0, <2>3, <3>1, <4>1 DEF EventFrame
    <3>2. CASE firstSent' = <<e>>
      <4>1. firstSent'[i] = e
        BY <3>2
      <4> QED BY <1>0, <2>1, <4>1
    <3> QED BY <2>1, <3>1, <3>2
  <2>4. gwSeq <= gwSeq + 1
    BY <1>0
  <2> QED BY <2>1, <2>2, <2>3, <2>4 DEF NumbersUsed
<1>8. ASSUME NEW r \in Run, NEW t \in EventType, EmitUnnumbered(w, r, t)
      PROVE  NumbersUsed(w)' /\ (sock'[w] = "open" => gwSeq <= gwSeq')
  <2>0. PICK e : e = Event(t, r, NoNumber)
    OBVIOUS
  <2>1. e \in Frame /\ e.seq <= gwSeq
    BY <1>0, <2>0, EventIsFrame DEF NoNumber
  <2>2. /\ Deliver(w, e) \/ inbox' = inbox
        /\ UNCHANGED <<sock, accepted, firstSent, gwSeq>>
        /\ sock[w] = "open"
    BY <1>8, <2>0 DEF EmitUnnumbered, RunEmits, Streams
  <2>3. Low(inbox[w], gwSeq) => Low(inbox'[w], gwSeq)
    BY <1>2, <2>1, <2>2
  <2> QED BY <1>0, <2>2, <2>3 DEF NumbersUsed
<1> QED BY <1>3, <1>4, <1>5, <1>6, <1>7, <1>8 DEF GatewayMoves

\* Taking a frame from a queue leaves its numbers low.
LEMMA ReadNumbers ==
  ASSUME NEW w \in Socket, NumbersUsed(w), inbox[w] \in Seq(Frame),
         inbox[w] # <<>>, inbox'[w] = Tail(inbox[w]), gwSeq \in Nat,
         sock'[w] = sock[w], UNCHANGED <<accepted, gwSeq, firstSent>>
  PROVE  /\ NumbersUsed(w)'
         /\ sock[w] = "open" /\ Head(inbox[w]).type \in EventType
              => Head(inbox[w]).seq <= gwSeq
<1>1. Low(inbox[w], gwSeq)
        => /\ Low(inbox'[w], gwSeq)
           /\ Head(inbox[w]).type \in EventType => Head(inbox[w]).seq <= gwSeq
  BY LowSteps
<1> QED BY <1>1 DEF NumbersUsed

(***************************************************************************)
(* The runs a connection tells of                                          *)
(***************************************************************************)

Stream == EventType \cup {"sendOk"}
NamesRun(f) == f.type \in {"delta", "sendOk"} /\ f.run \in Run
EndsRun(f) == f.type \in {"done", "aborted"}

\* Nothing of a run is before the hello, and there is one hello.
Greeted(w) ==
  /\ w \notin accepted => ~Has(inbox[w], Stream)
  /\ w \in accepted => /\ ~Has(inbox[w], {"challenge"})
                       /\ ~Has(outbox[w], {"connect"})
  /\ \A i, j \in DOMAIN inbox[w] :
       inbox[w][i].type = "connectOk" /\ inbox[w][j].type \in Stream => i < j

\* A frame of a run is of one that started, and its last of one that is over.
Dated(f) ==
  /\ NamesRun(f) => runState[f.run] # "free"
  /\ EndsRun(f) => f.run \in Run /\ runState[f.run] = "over"

\* A client that saw events up to last has seen number n on this connection,
\* or will by the time it has read the first i frames on their way to it.
Seen(w, i, n, last) ==
  \/ n <= last /\ ~Has(inbox[w], {"connectOk"})
  \/ \E k \in DOMAIN inbox[w] :
       k <= i /\ inbox[w][k].type \in EventType /\ n <= inbox[w][k].seq

\* What names a run behind its end is an event from before it, sent again.
After(w, i, f, last) ==
  EndsRun(inbox[w][i]) /\ NamesRun(f) /\ inbox[w][i].run = f.run
    => f.type = "delta" /\ f.seq # NoNumber /\ Seen(w, i, f.seq, last)

\* The event that may be sent again is one of the numbers seen.
Repeats(w, f, last) ==
  /\ Dated(f) /\ f.seq # NoNumber
  /\ \A i \in DOMAIN inbox[w] : After(w, i, f, last)
  /\ sock[w] = "open" => Seen(w, Len(inbox[w]), f.seq, last)

Ordered(w, last) ==
  /\ \A i \in DOMAIN inbox[w] : Dated(inbox[w][i])
  /\ \A i, j \in DOMAIN inbox[w] : i < j => After(w, i, inbox[w][j], last)
  /\ w \in accepted /\ firstSent # <<>> => Repeats(w, firstSent[1], last)

\* To a client that was told the ends of the runs in told and has seen events
\* up to last, an event is old, or its run has not ended.
Dropped(w, f, last) ==
  /\ f.type = "delta" /\ f.seq # NoNumber /\ f.seq <= last
  /\ ~Has(inbox[w], {"connectOk"})
Harmless(w, f, told, last) ==
  NamesRun(f) => f.run \notin told \/ Dropped(w, f, last)

NoneRevived(w, told, last) ==
  /\ \A i \in DOMAIN inbox[w] : Harmless(w, inbox[w][i], told, last)
  /\ w \in accepted /\ firstSent # <<>> =>
       Harmless(w, firstSent[1], told, last)

\* All that is said of the runs on a socket.
Telling(w, told, last) ==
  Greeted(w) /\ Ordered(w, last) /\ NoneRevived(w, told, last)

\* A frame arrives on a socket: the hello stays first.
LEMMA ArrivesGreeted ==
  ASSUME NEW w \in Socket, NEW f \in Frame, inbox[w] \in Seq(Frame),
         inbox'[w] = Append(inbox[w], f), Greeted(w),
         w \in accepted => w \in accepted',
         f.type \in Stream => w \in accepted',
         f.type = "connectOk" => ~Has(inbox[w], Stream),
         w \in accepted' => /\ f.type # "challenge"
                            /\ ~Has(inbox[w], {"challenge"})
                            /\ ~Has(outbox'[w], {"connect"})
  PROVE  Greeted(w)'
<1> DEFINE q == inbox[w]
           r == inbox'[w]
<1>1. \A i \in DOMAIN r : \/ i \in DOMAIN q /\ i <= Len(q) /\ r[i] = q[i]
                          \/ i = Len(q) + 1 /\ r[i] = f
  BY Behind
<1>2. Len(q) \in Nat /\ DOMAIN q \subseteq Nat
  OBVIOUS
<1>3. /\ \A i \in DOMAIN q : q[i].type \in Stream => Has(q, Stream)
      /\ \A i \in DOMAIN q : q[i].type = "challenge" => Has(q, {"challenge"})
  BY DEF Has
<1>4. \A i, j \in DOMAIN q : q[i].type = "connectOk" /\ q[j].type \in Stream
                               => i < j
  BY DEF Greeted
<1>5. "connectOk" \notin Stream
  BY DEF Stream, EventType
<1> HIDE DEF q, r
<1>6. w \notin accepted' => ~Has(r, Stream)
  BY <1>1, <1>3 DEF Has, Greeted, q
<1>7. w \in accepted' => ~Has(r, {"challenge"})
  BY <1>1, <1>3 DEF Has, q
<1>8. ASSUME NEW i \in DOMAIN r, NEW j \in DOMAIN r,
             r[i].type = "connectOk", r[j].type \in Stream
      PROVE  i < j
  BY <1>1, <1>2, <1>3, <1>4, <1>5, <1>8 DEF q
<1> QED BY <1>6, <1>7, <1>8 DEF Greeted, r

\* What was seen on a connection stays seen as frames arrive.
LEMMA ArrivesSeen ==
  ASSUME NEW w \in Socket, NEW f \in Frame, inbox[w] \in Seq(Frame),
         inbox'[w] = Append(inbox[w], f), f.type # "connectOk",
         NEW last, NEW n, NEW i, Seen(w, i, n, last)
  PROVE  Seen(w, i, n, last)'
<1> DEFINE q == inbox[w]
           r == inbox'[w]
<1>1. \A k \in DOMAIN r : \/ k \in DOMAIN q /\ k <= Len(q) /\ r[k] = q[k]
                          \/ k = Len(q) + 1 /\ r[k] = f
  BY Behind
<1>2. \A k \in DOMAIN q : k \in DOMAIN r /\ r[k] = q[k]
  OBVIOUS
<1> HIDE DEF q, r
<1>3. ~Has(q, {"connectOk"}) => ~Has(r, {"connectOk"})
  BY <1>1 DEF Has
<1> QED BY <1>2, <1>3 DEF Seen, q, r

\* A frame arrives: what was in order behind an end is so.
LEMMA ArrivesAfter ==
  ASSUME NEW w \in Socket, NEW f \in Frame, inbox[w] \in Seq(Frame),
         inbox'[w] = Append(inbox[w], f), f.type # "connectOk",
         NEW last, NEW g, NEW i \in DOMAIN inbox[w], After(w, i, g, last)
  PROVE  After(w, i, g, last)'
<1>1. inbox'[w][i] = inbox[w][i]
  OBVIOUS
<1>2. Seen(w, i, g.seq, last) => Seen(w, i, g.seq, last)'
  BY ArrivesSeen
<1> QED BY <1>1, <1>2 DEF After

\* A frame arrives: the runs stay in order.
LEMMA ArrivesOrdered ==
  ASSUME NEW w \in Socket, NEW f \in Frame, inbox[w] \in Seq(Frame),
         inbox'[w] = Append(inbox[w], f), f.type # "connectOk",
         NEW last, Ordered(w, last), RunsOnward, Dated(f)',
         \A i \in DOMAIN inbox[w] : After(w, i, f, last),
         w \in accepted' /\ firstSent' # <<>> => Repeats(w, firstSent[1], last)'
  PROVE  Ordered(w, last)'
<1> DEFINE q == inbox[w]
           r == inbox'[w]
<1>1. \A i \in DOMAIN r : \/ i \in DOMAIN q /\ i <= Len(q) /\ r[i] = q[i]
                          \/ i = Len(q) + 1 /\ r[i] = f
  BY Behind
<1>2. Len(q) \in Nat /\ DOMAIN q \subseteq Nat
  OBVIOUS
<1>3. /\ \A i \in DOMAIN q : Dated(q[i])
      /\ \A i, j \in DOMAIN q : i < j => After(w, i, q[j], last)
  BY DEF Ordered
<1>a. \A i \in DOMAIN q : After(w, i, f, last)
  OBVIOUS
<1>b. ASSUME NEW i \in DOMAIN q, NEW g, After(w, i, g, last)
      PROVE  After(w, i, g, last)'
  BY <1>b, ArrivesAfter
<1> HIDE DEF q, r
<1>4. (\A i \in DOMAIN inbox[w] : Dated(inbox[w][i]))'
  BY <1>1, <1>3 DEF Dated, RunsOnward, NamesRun, r
<1>5. ASSUME NEW i \in DOMAIN r, NEW j \in DOMAIN r, i < j, NEW g, g = r[j]
      PROVE  After(w, i, g, last)'
  <2>1. i \in DOMAIN q
    BY <1>1, <1>2, <1>5
  <2>2. After(w, i, g, last)
    BY <1>1, <1>2, <1>3, <1>5, <1>a, <2>1
  <2> QED BY <1>b, <2>1, <2>2
<1>6. ASSUME NEW i \in DOMAIN r, NEW j \in DOMAIN r, i < j
      PROVE  After(w, i, inbox[w][j], last)'
  <2>1. PICK g : g = r[j]
    OBVIOUS
  <2>2. After(w, i, g, last)'
    BY <1>5, <1>6, <2>1
  <2> QED BY <2>1, <2>2 DEF After, r
<1> QED BY <1>4, <1>6 DEF Ordered, r

\* A frame arrives: the event that may be sent again is in order.
LEMMA ArrivesRepeats ==
  ASSUME NEW w \in Socket, NEW f \in Frame, inbox[w] \in Seq(Frame),
         inbox'[w] = Append(inbox[w], f), f.type # "connectOk",
         NEW last, NEW g, Repeats(w, g, last), RunsOnward,
         sock'[w] = sock[w] \/ sock'[w] # "open",
         EndsRun(f) => sock[w] = "open" /\ (NamesRun(g) => g.type = "delta")
  PROVE  Repeats(w, g, last)'
<1> DEFINE q == inbox[w]
           r == inbox'[w]
<1>0. PICK n : n = Len(q)
  OBVIOUS
<1>1. \A i \in DOMAIN r : \/ i \in DOMAIN q /\ i <= n /\ r[i] = q[i]
                          \/ i = n + 1 /\ r[i] = f
  BY <1>0, Behind
<1>2. n \in Nat /\ Len(r) = n + 1 /\ DOMAIN r \subseteq Nat
  BY <1>0
<1>3. ASSUME Seen(w, n, g.seq, last)
      PROVE  Seen(w, n + 1, g.seq, last)'
  <2>1. Seen(w, n, g.seq, last)'
    BY <1>3, ArrivesSeen
  <2>2. \A k \in DOMAIN r : k <= n => k <= n + 1
    BY <1>2
  <2> QED BY <2>1, <2>2 DEF Seen
<1>4. \A i \in DOMAIN q : After(w, i, g, last)'
  BY ArrivesAfter DEF Repeats
<1> HIDE DEF q, r
<1>5. Dated(g)'
  BY DEF Dated, RunsOnward, Repeats, NamesRun
<1>6. sock[w] = "open" => Seen(w, n, g.seq, last)
  BY <1>0 DEF Repeats, q
<1>7. sock'[w] = "open" => Seen(w, Len(inbox[w]), g.seq, last)'
  BY <1>2, <1>3, <1>6 DEF Seen, r
<1>8. ASSUME NEW i \in DOMAIN r
      PROVE  After(w, i, g, last)'
  <2>1. CASE i \in DOMAIN q
    BY <1>4, <2>1
  <2>2. CASE i = n + 1 /\ r[i] = f
    <3>1. EndsRun(f) => Seen(w, i, g.seq, last)'
      BY <1>3, <1>6, <2>2
    <3> QED BY <2>2, <3>1 DEF After, Repeats, r
  <2> QED BY <1>1, <2>1, <2>2
<1> QED BY <1>5, <1>7, <1>8 DEF Repeats, r

\* A frame arrives: none is of a run whose end was told, but what is dropped.
LEMMA ArrivesHarmless ==
  ASSUME NEW w \in Socket, NEW f \in Frame, inbox[w] \in Seq(Frame),
         inbox'[w] = Append(inbox[w], f), NEW told, NEW last,
         \A i \in DOMAIN inbox[w] : Harmless(w, inbox[w][i], told, last),
         Harmless(w, f, told, last),
         f.type = "connectOk" => ~Has(inbox[w], Stream)
  PROVE  /\ (\A i \in DOMAIN inbox[w] : Harmless(w, inbox[w][i], told, last))'
         /\ f.type # "connectOk" =>
              \A g : Harmless(w, g, told, last) => Harmless(w, g, told, last)'
<1> DEFINE q == inbox[w]
           r == inbox'[w]
<1>1. \A i \in DOMAIN r : \/ i \in DOMAIN q /\ i <= Len(q) /\ r[i] = q[i]
                          \/ i = Len(q) + 1 /\ r[i] = f
  BY Behind
<1>2. \A i \in DOMAIN q : Harmless(w, q[i], told, last)
  OBVIOUS
<1> HIDE DEF q, r
<1>3. ASSUME f.type # "connectOk", NEW g, Harmless(w, g, told, last)
      PROVE  Harmless(w, g, told, last)'
  <2>1. Has(r, {"connectOk"}) => Has(q, {"connectOk"})
    BY <1>1, <1>3 DEF Has
  <2> QED BY <1>3, <2>1 DEF Harmless, Dropped, q, r
<1>4. ASSUME f.type = "connectOk", NEW i \in DOMAIN r
      PROVE  ~NamesRun(r[i])
  BY <1>1, <1>4 DEF NamesRun, Has, Stream, EventType, q
<1>5. ASSUME NEW i \in DOMAIN r, NEW g, g = r[i]
      PROVE  Harmless(w, g, told, last)'
  <2>1. CASE f.type = "connectOk"
    BY <1>4, <1>5, <2>1 DEF Harmless
  <2>2. CASE f.type # "connectOk"
    <3>1. Harmless(w, g, told, last)
      BY <1>1, <1>2, <1>5
    <3> QED BY <1>3, <2>2, <3>1
  <2> QED BY <2>1, <2>2
<1>6. (\A i \in DOMAIN inbox[w] : Harmless(w, inbox[w][i], told, last))'
  BY <1>5 DEF Harmless, Dropped, r
<1> QED BY <1>3, <1>6

\* A frame that is not of a run arrives; it is no hello.
LEMMA ArrivesPlain ==
  ASSUME GatewayTypeOK, NEW w \in Socket, NEW f \in Frame, Deliver(w, f),
         f.type \notin Stream \cup {"connectOk"},
         NEW told, NEW last, Telling(w, told, last),
         UNCHANGED <<accepted, firstSent>>, RunsOnward,
         w \in accepted => sock'[w] = sock[w],
         w \in accepted => f.type # "challenge",
         Has(outbox'[w], {"connect"}) => Has(outbox[w], {"connect"})
  PROVE  Telling(w, told, last)'
<1> USE DEF Telling, RunsOnward
<1>0. inbox[w] \in Seq(Frame) /\ inbox'[w] = Append(inbox[w], f)
  BY DEF Deliver, GatewayTypeOK
<1>1. ~NamesRun(f) /\ ~EndsRun(f) /\ f.type # "connectOk"
  BY DEF NamesRun, EndsRun, Stream, EventType
<1>2. Greeted(w)'
  BY <1>0, ArrivesGreeted DEF Greeted
<1>3. Ordered(w, last)'
  <2>1. Dated(f)' /\ \A i : After(w, i, f, last)
    BY <1>1 DEF Dated, After
  <2>2. ASSUME w \in accepted', firstSent' # <<>>
        PROVE  Repeats(w, firstSent[1], last)'
    <3>1. PICK g : g = firstSent[1]
      OBVIOUS
    <3>2. Repeats(w, g, last)'
      BY <1>0, <1>1, <2>2, <3>1, ArrivesRepeats DEF Ordered
    <3> QED BY <3>1, <3>2 DEF Repeats, After, Dated
  <2> QED BY <1>0, <1>1, <2>1, <2>2, ArrivesOrdered
<1>4. NoneRevived(w, told, last)'
  <2>1. Harmless(w, f, told, last)
    BY <1>1 DEF Harmless
  <2>2. /\ (\A i \in DOMAIN inbox[w] : Harmless(w, inbox[w][i], told, last))'
        /\ \A g : Harmless(w, g, told, last) => Harmless(w, g, told, last)'
    BY <1>0, <1>1, <2>1, ArrivesHarmless DEF NoneRevived
  <2>3. ASSUME w \in accepted', firstSent' # <<>>, NEW g, g = firstSent[1]
        PROVE  Harmless(w, g, told, last)'
    BY <2>2, <2>3 DEF NoneRevived
  <2> QED BY <2>2, <2>3 DEF NoneRevived, Harmless, Dropped
<1> QED BY <1>2, <1>3, <1>4

\* Nothing arrives and nothing is read: the runs stay as they are told.
LEMMA TellingRests ==
  ASSUME NEW w \in Socket, NEW told, NEW last, Telling(w, told, last),
         inbox'[w] = inbox[w], UNCHANGED <<accepted, firstSent>>, RunsOnward,
         sock'[w] = "open" => sock[w] = "open",
         Has(outbox'[w], {"connect"}) => Has(outbox[w], {"connect"})
  PROVE  Telling(w, told, last)'
<1> USE DEF Telling, RunsOnward
<1>1. Greeted(w)'
  BY DEF Greeted
<1>2. \A f : Dated(f) => Dated(f)'
  BY DEF Dated, NamesRun
<1>3. \A i, f : After(w, i, f, last) => After(w, i, f, last)'
  BY DEF After, Seen
<1>4. \A f : Repeats(w, f, last) => Repeats(w, f, last)'
  BY <1>2, <1>3 DEF Repeats, Seen
<1>5. Ordered(w, last)'
  <2>1. (\A i \in DOMAIN inbox[w] : Dated(inbox[w][i]))'
    BY DEF Ordered, Dated, NamesRun
  <2>2. (\A i, j \in DOMAIN inbox[w] :
           i < j => After(w, i, inbox[w][j], last))'
    BY DEF Ordered, After, Seen
  <2>3. ASSUME w \in accepted', firstSent' # <<>>
        PROVE  Repeats(w, firstSent[1], last)'
    <3>1. PICK g : g = firstSent[1]
      OBVIOUS
    <3>2. Repeats(w, g, last)'
      BY <1>4, <2>3, <3>1 DEF Ordered
    <3> QED BY <3>1, <3>2 DEF Repeats, After, Dated
  <2> QED BY <2>1, <2>2, <2>3 DEF Ordered
<1>6. NoneRevived(w, told, last)'
  BY DEF NoneRevived, Harmless, Dropped
<1> QED BY <1>1, <1>5, <1>6

\* The Gateway names no run it has ended but in events it sends again.
LEMMA GatewayRuns ==
  ASSUME GatewayAssumption, GatewayTypeOK, NEW w \in Socket, GatewayMoves(w),
         RunsOnward, Handshake(w), NumbersUsed(w), NEW told, NEW last,
         \A r \in told : r \in Run /\ runState[r] = "over",
         Telling(w, told, last)
  PROVE  Telling(w, told, last)'
<1> USE DEF gateway, Telling, RunsOnward
<1>1. /\ MainSession \in Session
      /\ inbox[w] \in Seq(Frame) /\ outbox[w] \in Seq(RequestFrame)
      /\ firstSent \in Seq(EventFrame) /\ gwSeq \in Nat
      /\ GatewayTypeOK /\ Handshake(w) /\ NumbersUsed(w)
      /\ Greeted(w) /\ Ordered(w, last) /\ NoneRevived(w, told, last)
  BY DEF GatewayTypeOK, GatewayAssumption
<1>2. CASE Opens(w)
  <2>1. PICK c \in {"challenge", "badChallenge"} :
               Deliver(w, Reply(c, MainSession, NoRun))
    BY <1>2 DEF Opens
  <2>2. /\ Reply(c, MainSession, NoRun) \in Frame
        /\ Reply(c, MainSession, NoRun).type \notin Stream \cup {"connectOk"}
    BY <1>1, ReplyIsFrame DEF Reply, Stream, EventType
  <2>3. w \notin accepted /\ UNCHANGED <<accepted, firstSent, outbox>>
    BY <1>1, <1>2 DEF Opens, NumbersUsed
  <2> QED BY <1>1, <2>1, <2>2, <2>3, ArrivesPlain
<1>3. CASE Serve(w)
  <2>1. PICK t \in ReplyType, s \in Session, r \in Run \cup {NoRun} :
           /\ Deliver(w, Reply(t, s, r))
           /\ \/ /\ t = "connectOk" /\ Head(outbox[w]).type = "connect"
                 /\ accepted' = accepted \cup {w} /\ firstSent' = <<>>
              \/ /\ t = "sendOk" /\ w \in accepted
                 /\ r \in Run => runState[r] = "free" /\ runState'[r] # "free"
                 /\ UNCHANGED <<accepted, firstSent>>
              \/ /\ t \notin {"connectOk", "sendOk"}
                 /\ UNCHANGED <<accepted, firstSent>>
    BY <1>1, <1>3, GatewayAssumption, ServeKinds
  <2> DEFINE f == Reply(t, s, r)
  <2>2. /\ f \in Frame /\ f.type = t /\ f.run = r /\ f.type # "challenge"
        /\ f.type \notin EventType
    BY <2>1, ReplyIsFrame DEF Reply, ReplyType, EventType
  <2> HIDE DEF f
  <2>3. inbox'[w] = Append(inbox[w], f)
    BY <1>1, <2>1 DEF Deliver, GatewayTypeOK, f
  <2>4. outbox'[w] = Tail(outbox[w]) /\ outbox[w] # <<>>
    BY <1>1, <1>3 DEF Serve, ServeConnect, ServeHistory, ServeSend,
       ServeAbort, ServeError, Answers, GatewayTypeOK
  <2>5. /\ Has(outbox'[w], {"connect"}) => Has(outbox[w], {"connect"})
        /\ Head(outbox[w]).type = "connect"
             => /\ Has(outbox[w], {"connect"})
                /\ ~Has(outbox'[w], {"connect"})
    BY <1>1, <2>4, TailShake DEF Quieter, Handshake
  <2>6. CASE t = "connectOk"
    <3>1. /\ accepted' = accepted \cup {w} /\ firstSent' = <<>>
          /\ Has(outbox[w], {"connect"}) /\ ~Has(outbox'[w], {"connect"})
      BY <2>1, <2>5, <2>6
    <3>2. w \notin accepted /\ ~Has(inbox[w], Stream)
      BY <1>1, <3>1 DEF Greeted
    <3>3. ~Has(inbox[w], {"challenge"})
      BY <1>1, <3>1 DEF Handshake, Has, Opening
    <3>4. ~NamesRun(f) /\ ~EndsRun(f)
      BY <2>2, <2>6 DEF NamesRun, EndsRun
    <3>5. Greeted(w)'
      BY <1>1, <2>2, <2>3, <3>1, <3>2, <3>3, ArrivesGreeted
    <3>6. Ordered(w, last)'
      <4> DEFINE now == inbox'[w]
      <4>1. \A i \in DOMAIN now :
              (i \in DOMAIN inbox[w] /\ now[i] = inbox[w][i]) \/ now[i] = f
        BY <1>1, <2>2, <2>3, Behind
      <4>2. \A i \in DOMAIN inbox[w] : ~NamesRun(inbox[w][i])
                                      /\ ~EndsRun(inbox[w][i])
        BY <3>2 DEF Has, NamesRun, EndsRun, Stream, EventType
      <4> HIDE DEF now
      <4>3. \A i \in DOMAIN now : ~NamesRun(now[i]) /\ ~EndsRun(now[i])
        BY <3>4, <4>1, <4>2
      <4> QED BY <3>1, <4>3 DEF Ordered, Dated, After, NamesRun, EndsRun, now
    <3>7. NoneRevived(w, told, last)'
      <4>1. Harmless(w, f, told, last)
        BY <3>4 DEF Harmless
      <4>2. (\A i \in DOMAIN inbox[w] : Harmless(w, inbox[w][i], told, last))'
        BY <1>1, <2>2, <2>3, <3>2, <4>1, ArrivesHarmless
           DEF NoneRevived
      <4> QED BY <3>1, <4>2 DEF NoneRevived
    <3> QED BY <3>5, <3>6, <3>7
  <2>7. CASE t = "sendOk"
    <3>1. /\ w \in accepted /\ UNCHANGED <<accepted, firstSent>>
          /\ r \in Run => runState[r] = "free" /\ runState'[r] # "free"
      BY <2>1, <2>7
    <3>2. f.type = "sendOk" /\ f.run = r /\ f.type # "connectOk"
      BY <2>2, <2>7
    <3>3. Greeted(w)'
      BY <1>1, <2>2, <2>3, <2>5, <3>1, <3>2, ArrivesGreeted DEF Greeted
    <3>4. Ordered(w, last)'
      <4>1. Dated(f)' /\ ~EndsRun(f)
        BY <3>1, <3>2 DEF Dated, NamesRun, EndsRun
      <4>2. \A i \in DOMAIN inbox[w] : After(w, i, f, last)
        BY <1>1, <3>1, <3>2 DEF Ordered, Dated, After, EndsRun, NamesRun
      <4>3. ASSUME w \in accepted', firstSent' # <<>>
            PROVE  Repeats(w, firstSent[1], last)'
        <5>1. PICK g : g = firstSent[1]
          OBVIOUS
        <5>2. sock'[w] = sock[w]
          BY <1>3 DEF Serve, ServeConnect, ServeHistory, ServeSend,
             ServeAbort, ServeError, Answers
        <5>3. Repeats(w, g, last)
          BY <1>1, <3>1, <4>3, <5>1 DEF Ordered
        <5>4. Repeats(w, g, last)'
          BY <1>1, <2>2, <2>3, <3>2, <4>1, <5>2, <5>3, ArrivesRepeats
        <5> QED BY <3>1, <5>1, <5>4 DEF Repeats, After, Dated
      <4> QED BY <1>1, <2>2, <2>3, <3>2, <4>1, <4>2, <4>3, ArrivesOrdered
    <3>5. NoneRevived(w, told, last)'
      <4>1. Harmless(w, f, told, last)
        BY <3>1, <3>2 DEF Harmless, NamesRun
      <4>2. /\ (\A i \in DOMAIN inbox[w] :
                   Harmless(w, inbox[w][i], told, last))'
            /\ \A g : Harmless(w, g, told, last) => Harmless(w, g, told, last)'
        BY <1>1, <2>2, <2>3, <3>2, <4>1, ArrivesHarmless
           DEF NoneRevived
      <4>3. ASSUME w \in accepted', firstSent' # <<>>,
                   NEW g, g = firstSent[1]
            PROVE  Harmless(w, g, told, last)'
        BY <1>1, <3>1, <4>2, <4>3 DEF NoneRevived
      <4> QED BY <3>1, <4>2, <4>3 DEF NoneRevived, Harmless, Dropped
    <3> QED BY <3>3, <3>4, <3>5
  <2>8. CASE t \notin {"connectOk", "sendOk"}
    <3>1. UNCHANGED <<accepted, firstSent>>
      BY <2>1, <2>8
    <3>2. f.type \notin Stream \cup {"connectOk"}
      BY <2>2, <2>8 DEF Stream
    <3>3. Deliver(w, f)
      BY <2>1 DEF f
    <3>4. sock' = sock
      BY <1>3 DEF Serve, ServeConnect, ServeHistory, ServeSend, ServeAbort,
         ServeError, Answers
    <3> QED BY <1>1, <2>2, <2>5, <3>1, <3>2, <3>3, <3>4, ArrivesPlain
  <2> QED BY <2>6, <2>7, <2>8
<1>4. CASE Resend(w)
  <2>0. PICK f : f = firstSent[1]
    OBVIOUS
  <2>1. /\ w \in accepted /\ firstSent # <<>> /\ Head(firstSent) = f
        /\ f \in EventFrame
        /\ sock[w] = "open"
        /\ UNCHANGED <<sock, accepted, firstSent, outbox, runState>>
    BY <1>1, <1>4, <2>0 DEF Resend, Streams
  <2>2. f \in Frame /\ f.type \in EventType /\ f.type # "connectOk"
    BY <2>1 DEF EventFrame, Frame, EventType
  <2>3. inbox'[w] = Append(inbox[w], f)
    BY <1>4, <2>1 DEF Resend, Deliver, GatewayTypeOK
  <2>4. /\ Dated(f) /\ Harmless(w, f, told, last) /\ Repeats(w, f, last)
        /\ \A i \in DOMAIN inbox[w] : After(w, i, f, last)
    BY <1>1, <2>0, <2>1 DEF Ordered, NoneRevived, Repeats
  <2>5. firstSent'[1] = f /\ firstSent[1] = f
    BY <2>0, <2>1
  <2>6. Greeted(w)'
    <3>1. f.type # "challenge" /\ f.type \in Stream
      BY <2>2 DEF EventType, Stream
    <3> QED BY <1>1, <2>1, <2>2, <2>3, <3>1, ArrivesGreeted DEF Greeted
  <2>7. Ordered(w, last)'
    <3>1. Dated(f)'
      BY <2>1, <2>4 DEF Dated
    <3>2. NamesRun(f) => f.type = "delta"
      BY <2>2 DEF NamesRun, EventType
    <3>3. Repeats(w, f, last)'
      BY <1>1, <2>1, <2>2, <2>3, <2>4, <3>2, ArrivesRepeats
    <3>4. Repeats(w, firstSent[1], last)'
      BY <2>5, <3>3 DEF Repeats, After, Dated
    <3> QED BY <1>1, <2>2, <2>3, <2>4, <3>1, <3>4, ArrivesOrdered
  <2>8. NoneRevived(w, told, last)'
    <3>1. /\ (\A i \in DOMAIN inbox[w] : Harmless(w, inbox[w][i], told, last))'
          /\ Harmless(w, f, told, last)'
      BY <1>1, <2>2, <2>3, <2>4, ArrivesHarmless DEF NoneRevived
    <3> QED BY <2>5, <3>1 DEF NoneRevived, Harmless, Dropped
  <2> QED BY <2>6, <2>7, <2>8
<1>5. CASE NetworkFails(w)
  <2>1. /\ inbox'[w] = <<>> /\ outbox'[w] = <<>> /\ sock'[w] = "failed"
        /\ UNCHANGED <<accepted, firstSent>>
    BY <1>5 DEF NetworkFails, GatewayTypeOK
  <2>2. Greeted(w)'
    BY <2>1 DEF Greeted, Has
  <2>3. Ordered(w, last)'
    BY <1>1, <2>1 DEF Ordered, Dated, Repeats, NamesRun
  <2>4. NoneRevived(w, told, last)'
    <3>1. ~Has(inbox'[w], {"connectOk"})
      BY <2>1 DEF Has
    <3> QED BY <1>1, <2>1, <3>1 DEF NoneRevived, Harmless, Dropped
  <2> QED BY <2>2, <2>3, <2>4
<1>6. ASSUME NEW e, e \in Frame, e \in EventFrame, e.run \in Run,
             RunEmits(w, e.run, e.type), inbox'[w] = Append(inbox[w], e),
             UNCHANGED <<sock, accepted, outbox>>,
             firstSent # <<>> => firstSent' = firstSent,
             firstSent = <<>> =>
               \/ firstSent' = <<>>
               \/ e.seq # NoNumber /\ firstSent' = <<e>>
      PROVE  Telling(w, told, last)'
  <2>1. /\ runState[e.run] = "active" /\ runState'[e.run] # "free"
        /\ e.type # "delta" => runState'[e.run] = "over"
        /\ w \in accepted /\ sock[w] = "open"
    BY <1>1, <1>6 DEF RunEmits, Streams, GatewayTypeOK
  <2>2. /\ e.type \in EventType /\ e.type # "connectOk"
        /\ e.type # "challenge" /\ e.type \in Stream
        /\ NamesRun(e) => e.type = "delta" /\ ~EndsRun(e)
    BY <1>6 DEF EventFrame, EventType, Stream, NamesRun, EndsRun
  <2>3. Dated(e)' /\ Harmless(w, e, told, last)
    BY <1>6, <2>1, <2>2 DEF Dated, Harmless, NamesRun, EndsRun, EventType
  <2>4. \A i \in DOMAIN inbox[w] : After(w, i, e, last)
    BY <1>1, <1>6, <2>1 DEF Ordered, Dated, After
  <2>5. Greeted(w)'
    BY <1>1, <1>6, <2>1, <2>2, ArrivesGreeted DEF Greeted
  <2>6. ASSUME w \in accepted', firstSent' # <<>>, NEW g, g = firstSent'[1]
        PROVE  Repeats(w, g, last)' /\ Harmless(w, g, told, last)
    <3>1. CASE firstSent # <<>>
      <4>1. g = firstSent[1] /\ g \in EventFrame
        BY <1>1, <1>6, <2>6, <3>1
      <4>2. Repeats(w, g, last) /\ Harmless(w, g, told, last)
        BY <1>1, <2>1, <3>1, <4>1 DEF Ordered, NoneRevived
      <4>3. NamesRun(g) => g.type = "delta"
        BY <4>1 DEF EventFrame, EventType, NamesRun
      <4> QED BY <1>1, <1>6, <2>1, <2>2, <4>2, <4>3, ArrivesRepeats
    <3>2. CASE firstSent = <<>>
      <4> DEFINE q == inbox[w]
                 r == inbox'[w]
      <4>1. g = e /\ e.seq # NoNumber
        BY <1>6, <2>6, <3>2
      <4>2. /\ Len(q) \in Nat /\ Len(r) = Len(q) + 1 /\ Len(r) \in DOMAIN r
            /\ r[Len(r)] = e
        BY <1>1, <1>6
      <4>3. \A i \in DOMAIN r : i \in DOMAIN q \/ r[i] = e
        BY <1>1, <1>6, Behind
      <4>a. \A i \in DOMAIN q : After(w, i, e, last)'
        BY <1>1, <1>6, <2>2, <2>4, ArrivesAfter
      <4> HIDE DEF q, r
      <4>4. e.seq \in Nat
        BY <1>6 DEF Frame
      <4>5. Seen(w, Len(inbox[w]), e.seq, last)'
        BY <2>2, <4>2, <4>4 DEF Seen, r
      <4>6. \A i \in DOMAIN r : After(w, i, e, last)'
        BY <2>2, <4>3, <4>a DEF After, r
      <4>7. Repeats(w, e, last)'
        BY <2>3, <4>1, <4>5, <4>6 DEF Repeats, r
      <4> QED BY <2>3, <4>1, <4>7
    <3> QED BY <3>1, <3>2
  <2>7. ASSUME w \in accepted', firstSent' # <<>>
        PROVE  Repeats(w, firstSent[1], last)'
    <3>1. PICK g : g = firstSent'[1]
      OBVIOUS
    <3> QED BY <2>6, <2>7, <3>1 DEF Repeats, After, Dated
  <2>8. Ordered(w, last)'
    BY <1>1, <1>6, <2>2, <2>3, <2>4, <2>7, ArrivesOrdered
  <2>9. NoneRevived(w, told, last)'
    <3>1. /\ (\A i \in DOMAIN inbox[w] : Harmless(w, inbox[w][i], told, last))'
          /\ \A g : Harmless(w, g, told, last) => Harmless(w, g, told, last)'
      BY <1>1, <1>6, <2>2, <2>3, ArrivesHarmless DEF NoneRevived
    <3>2. ASSUME w \in accepted', firstSent' # <<>>, NEW g, g = firstSent'[1]
          PROVE  Harmless(w, g, told, last)'
      BY <2>6, <3>1, <3>2
    <3> QED BY <3>1, <3>2 DEF NoneRevived, Harmless, Dropped
  <2> QED BY <2>5, <2>8, <2>9
<1>7. ASSUME UNCHANGED <<inbox, outbox, accepted, firstSent>>,
             sock'[w] = "open" => sock[w] = "open"
      PROVE  Telling(w, told, last)'
  BY <1>1, <1>7, TellingRests
<1>8. ASSUME NEW r \in Run, NEW t \in EventType, EmitEvent(w, r, t)
      PROVE  Telling(w, told, last)'
  <2>1. PICK e : e = Event(t, r, gwSeq + 1)
    OBVIOUS
  <2>2. /\ e \in Frame /\ e \in EventFrame
        /\ e.type = t /\ e.run = r /\ e.seq = gwSeq + 1
    BY <1>1, <2>1, EventIsFrame
  <2>3. /\ e.seq # NoNumber /\ RunEmits(w, e.run, e.type)
        /\ UNCHANGED <<sock, accepted, outbox>>
    BY <1>1, <1>8, <2>2 DEF EmitEvent, NoNumber
  <2>4. \/ /\ inbox'[w] = Append(inbox[w], e)
           /\ firstSent' = IF firstSent = <<>> THEN <<e>> ELSE firstSent
        \/ UNCHANGED <<inbox, firstSent>>
    BY <1>1, <1>8, <2>1 DEF EmitEvent, Deliver, GatewayTypeOK
  <2> QED BY <1>6, <1>7, <2>2, <2>3, <2>4
<1>9. ASSUME NEW r \in Run, NEW t \in EventType, EmitUnnumbered(w, r, t)
      PROVE  Telling(w, told, last)'
  <2>1. PICK e : e = Event(t, r, NoNumber)
    OBVIOUS
  <2>2. /\ e \in Frame /\ e \in EventFrame /\ e.type = t /\ e.run = r
    BY <1>1, <2>1, EventIsFrame DEF NoNumber
  <2>3. /\ RunEmits(w, e.run, e.type)
        /\ UNCHANGED <<sock, accepted, outbox, firstSent>>
    BY <1>9, <2>2 DEF EmitUnnumbered
  <2>4. inbox'[w] = Append(inbox[w], e) \/ UNCHANGED inbox
    BY <1>1, <1>9, <2>1 DEF EmitUnnumbered, Deliver, GatewayTypeOK
  <2> QED BY <1>6, <1>7, <2>2, <2>3, <2>4
<1>10. CASE ServerCloses(w)
  <2>1. /\ UNCHANGED <<inbox, outbox, accepted, firstSent>>
        /\ sock'[w] # "open"
    BY <1>10 DEF ServerCloses, GatewayTypeOK
  <2> QED BY <1>7, <2>1
<1> QED BY <1>2, <1>3, <1>4, <1>5, <1>8, <1>9, <1>10 DEF GatewayMoves

\* What a client makes of a frame m: told, last and active are the runs whose
\* end it was told, the number of the latest event and the run in progress,
\* before it, the others after it.
Takes(m, told, last, active, told2, last2, active2) ==
  /\ m.type # "connectOk" => last <= last2
  /\ m.type \in EventType /\ m.seq # NoNumber => m.seq <= last2
  /\ \/ m.type = "connectOk" /\ told2 = told /\ active2 = active
     \/ told2 = told /\ active2 \in {active, NoRun}
     \/ m.type = "sendOk" /\ told2 = told /\ active2 = m.run
     \/ /\ m.type \in EventType
        /\ m.seq = NoNumber \/ last < m.seq
        /\ active2 = IF m.type = "delta" THEN m.run ELSE NoRun
        /\ told2 = IF m.type = "delta" THEN told ELSE told \cup {m.run}

\* A frame that is harmless makes no run active whose end was told, and those
\* that are harmless behind it stay so.
LEMMA TakesWell ==
  ASSUME GatewayAssumption, NEW w \in Socket, NEW m \in Frame,
         NEW told, NEW last \in Int, NEW active,
         NEW told2, NEW last2 \in Int, NEW active2,
         Takes(m, told, last, active, told2, last2, active2),
         \A r \in told : r \in Run /\ runState[r] = "over", active \notin told,
         Dated(m), Harmless(w, m, told, last),
         m.type \in Stream => ~Has(inbox[w], {"connectOk"}),
         m.type = "connectOk" => Has(inbox[w], {"connectOk"}),
         Has(inbox'[w], {"connectOk"}) => Has(inbox[w], {"connectOk"})
  PROVE  /\ \A r \in told2 : r \in Run /\ runState[r] = "over"
         /\ active2 \notin told2
         /\ \A g \in Frame :
              /\ Harmless(w, g, told, last)
              /\ EndsRun(m) /\ NamesRun(g) /\ m.run = g.run
                   => g.type = "delta" /\ g.seq # NoNumber /\ g.seq <= last2
              => Harmless(w, g, told2, last2)'
<1>0. NoRun \notin told /\ NoRun \notin Run
  BY DEF GatewayAssumption
<1>a. \A g \in Frame : g.seq \in Nat
  BY DEF Frame
<1>b. /\ m.type # "connectOk" => last <= last2
      /\ m.type \in EventType /\ m.seq # NoNumber => m.seq <= last2
  BY DEF Takes
<1>c. ASSUME NEW g \in Frame, Dropped(w, g, last)
      PROVE  Dropped(w, g, last2)'
  BY <1>a, <1>b, <1>c DEF Dropped
<1>1. CASE told2 = told /\ active2 \in {active, NoRun}
  BY <1>0, <1>1, <1>c DEF Harmless
<1>3. CASE m.type = "sendOk" /\ told2 = told /\ active2 = m.run
  <2>1. m.run \in Run => m.run \notin told
    BY <1>3 DEF Harmless, Dropped, NamesRun
  <2>2. m.run \notin told
    BY <2>1
  <2> QED BY <1>3, <1>c, <2>2 DEF Harmless
<1>4. CASE /\ m.type \in EventType
           /\ m.seq = NoNumber \/ last < m.seq
           /\ active2 = (IF m.type = "delta" THEN m.run ELSE NoRun)
           /\ told2 = (IF m.type = "delta" THEN told ELSE told \cup {m.run})
  <2>0. m.type \in Stream
    BY <1>4 DEF Stream
  <2>1. /\ ~Has(inbox'[w], {"connectOk"}) /\ m.seq \in Nat
        /\ m.type # "delta" => EndsRun(m)
    <3>1. ~Has(inbox'[w], {"connectOk"})
      BY <2>0
    <3>2. m.type # "delta" => EndsRun(m)
      BY <1>4 DEF EventType, EndsRun
    <3> QED BY <1>a, <3>1, <3>2
  <2>2. m.type = "delta" /\ m.run \in Run => m.run \notin told
    <3>1. ~Dropped(w, m, last)
      <4>1. m.seq = NoNumber \/ last < m.seq
        BY <1>4
      <4> QED BY <1>a, <4>1 DEF Dropped
    <3> QED BY <3>1 DEF Harmless, NamesRun
  <2>3. \A r \in told2 : r \in Run /\ runState[r] = "over"
    BY <1>4, <2>1 DEF Dated
  <2>4. active2 \notin told2
    BY <1>0, <1>4, <2>1, <2>2 DEF Dated
  <2>5. ASSUME NEW g \in Frame, Harmless(w, g, told, last),
               EndsRun(m) /\ NamesRun(g) /\ m.run = g.run
                 => g.type = "delta" /\ g.seq # NoNumber /\ g.seq <= last2
        PROVE  Harmless(w, g, told2, last2)'
    <3>3. CASE m.type = "delta"
      BY <1>4, <1>c, <2>5, <3>3 DEF Harmless
    <3>4. CASE m.type # "delta"
      <4>1. NamesRun(g) /\ g.run = m.run => Dropped(w, g, last2)'
        BY <2>1, <2>5, <3>4 DEF Dropped
      <4> QED BY <1>4, <1>c, <2>5, <3>4, <4>1 DEF Harmless
    <3> QED BY <3>3, <3>4
  <2> QED BY <2>3, <2>4, <2>5
<1> QED BY <1>1, <1>3, <1>4 DEF Takes

\* What a client reads moves what is behind it up; what it has seen stays.
LEMMA TailSeen ==
  ASSUME NEW w \in Socket, inbox[w] \in Seq(Frame), inbox[w] # <<>>,
         inbox'[w] = Tail(inbox[w]), NEW m, m = Head(inbox[w]),
         NEW last \in Int, NEW last2 \in Int,
         m.type # "connectOk" => last <= last2,
         m.type \in EventType /\ m.seq # NoNumber => m.seq <= last2,
         m.type \in Stream => ~Has(inbox[w], {"connectOk"}),
         NEW n \in Nat, n # NoNumber, NEW i \in Nat, NEW j \in Nat, i <= j + 1,
         Seen(w, i, n, last)
  PROVE  Seen(w, j, n, last2)'
<1>1. /\ 1 \in DOMAIN inbox[w] /\ inbox[w][1] = m /\ m \in Frame
      /\ DOMAIN inbox[w] \subseteq Nat
      /\ \A k \in DOMAIN inbox[w] : k >= 1
      /\ \A k \in DOMAIN inbox'[w] : /\ k + 1 \in DOMAIN inbox[w]
                                     /\ inbox'[w][k] = inbox[w][k + 1]
  BY Ahead
<1>2. ASSUME NEW k \in DOMAIN inbox[w], k # 1
      PROVE  k - 1 \in DOMAIN inbox'[w] /\ inbox'[w][k - 1] = inbox[w][k]
  <2> DEFINE q == inbox[w]
  <2>1. q \in Seq(Frame) /\ q # <<>> /\ k \in 1 .. Len(q) /\ Len(q) \in Nat
    BY <1>2
  <2> HIDE DEF q
  <2>2. DOMAIN Tail(q) = 1 .. Len(q) - 1
    BY <2>1
  <2>a. k \in Int /\ Len(q) \in Int /\ 1 <= k /\ k <= Len(q) /\ k # 1
    BY <1>2, <2>1
  <2>3. k - 1 \in DOMAIN Tail(q) /\ (k - 1) + 1 = k
    <3>1. k - 1 \in 1 .. Len(q) - 1 /\ (k - 1) + 1 = k
      BY <2>a
    <3> QED BY <2>2, <3>1
  <2>4. Tail(q)[k - 1] = q[(k - 1) + 1]
    BY <2>1, <2>3, Ahead
  <2> QED BY <2>3, <2>4 DEF q
<1>3. Has(inbox'[w], {"connectOk"}) => Has(inbox[w], {"connectOk"})
  BY <1>1 DEF Has
<1>4. m.seq \in Nat
  BY <1>1 DEF Frame
<1>5. CASE n <= last /\ ~Has(inbox[w], {"connectOk"})
  <2>1. m.type # "connectOk"
    BY <1>1, <1>5 DEF Has
  <2>2. n <= last2
    BY <1>5, <2>1
  <2> QED BY <1>3, <1>5, <2>2 DEF Seen
<1>6. ASSUME NEW k \in DOMAIN inbox[w], k <= i,
             inbox[w][k].type \in EventType, n <= inbox[w][k].seq
      PROVE  Seen(w, j, n, last2)'
  <2>1. CASE k = 1
    <3>1. m.type \in EventType /\ n <= m.seq
      BY <1>1, <1>6, <2>1
    <3>2. m.seq # NoNumber
      BY <1>4, <3>1 DEF NoNumber
    <3>3. n <= last2
      BY <1>4, <3>1, <3>2
    <3>4. ~Has(inbox'[w], {"connectOk"})
      BY <1>3, <3>1 DEF Stream
    <3> QED BY <3>3, <3>4 DEF Seen
  <2>2. CASE k # 1
    <3>0. k \in Nat
      BY <1>1
    <3>1. k - 1 <= j
      BY <1>6, <3>0
    <3>2. k - 1 \in DOMAIN inbox'[w] /\ inbox'[w][k - 1] = inbox[w][k]
      BY <1>2, <2>2
    <3> QED BY <1>6, <3>1, <3>2 DEF Seen
  <2> QED BY <2>1, <2>2
<1> QED BY <1>5, <1>6 DEF Seen

\* What a client is told of a run on a socket comes before the run's end.
LEMMA ReadRuns ==
  ASSUME GatewayAssumption, NEW w \in Socket, inbox[w] \in Seq(Frame),
         inbox[w] # <<>>, inbox'[w] = Tail(inbox[w]),
         firstSent \in Seq(EventFrame),
         UNCHANGED <<accepted, firstSent, runState>>,
         sock'[w] = "open" => sock[w] = "open",
         NEW m, m = Head(inbox[w]),
         w \in accepted => ~Has(outbox'[w], {"connect"}),
         NEW told, NEW last, last \in Int, NEW active,
         NEW told2, NEW last2, last2 \in Int, NEW active2,
         Takes(m, told, last, active, told2, last2, active2),
         \A r \in told : r \in Run /\ runState[r] = "over", active \notin told,
         Telling(w, told, last)
  PROVE  /\ \A r \in told2 : r \in Run /\ runState[r] = "over"
         /\ active2 \notin told2
         /\ Telling(w, told2, last2)'
<1> USE DEF Telling
<1>1. /\ 1 \in DOMAIN inbox[w] /\ inbox[w][1] = m /\ m \in Frame
      /\ DOMAIN inbox[w] \subseteq Nat /\ DOMAIN inbox'[w] \subseteq Nat
      /\ \A i \in DOMAIN inbox[w] : i >= 1
      /\ \A i \in DOMAIN inbox'[w] : /\ i >= 1 /\ i + 1 \in DOMAIN inbox[w]
                                     /\ inbox'[w][i] = inbox[w][i + 1]
  BY Ahead
<1>2. \A T : Has(inbox'[w], T) => Has(inbox[w], T)
  BY <1>1 DEF Has
<1>3. m.type \in Stream => w \in accepted /\ ~Has(inbox[w], {"connectOk"})
  <2>1. m.type \in Stream => Has(inbox[w], Stream)
    BY <1>1 DEF Has
  <2>2. ASSUME NEW i \in DOMAIN inbox[w], inbox[w][i].type = "connectOk",
               m.type \in Stream
        PROVE  FALSE
    <3>1. i < 1
      BY <1>1, <2>2 DEF Greeted
    <3> QED BY <1>1, <3>1
  <2> QED BY <2>1, <2>2 DEF Greeted, Has
<1>s. ASSUME NEW n \in Nat, n # NoNumber, NEW i \in Nat, NEW j \in Nat,
             i <= j + 1, Seen(w, i, n, last)
      PROVE  Seen(w, j, n, last2)'
  BY <1>3, <1>s, TailSeen DEF Takes
<1>4. /\ \A r \in told2 : r \in Run /\ runState[r] = "over"
      /\ active2 \notin told2
      /\ \A g \in Frame : Harmless(w, g, told, last) /\ After(w, 1, g, last)
                            => Harmless(w, g, told2, last2)'
  <2>1. Dated(m) /\ Harmless(w, m, told, last)
    BY <1>1 DEF Ordered, NoneRevived
  <2>2. m.type = "connectOk" => Has(inbox[w], {"connectOk"})
    BY <1>1 DEF Has
  <2>3. ASSUME NEW g \in Frame, After(w, 1, g, last),
               EndsRun(m), NamesRun(g), m.run = g.run
        PROVE  g.type = "delta" /\ g.seq # NoNumber /\ g.seq <= last2
    <3>1. g.type = "delta" /\ g.seq # NoNumber /\ Seen(w, 1, g.seq, last)
      BY <1>1, <2>3 DEF After
    <3>2. Seen(w, 0, g.seq, last2)'
      <4>1. g.seq \in Nat
        BY DEF Frame
      <4>2. 1 \in Nat /\ 0 \in Nat /\ 1 <= 0 + 1
        OBVIOUS
      <4> QED BY <1>s, <3>1, <4>1, <4>2
    <3>3. \A k \in DOMAIN inbox'[w] : ~(k <= 0)
      BY <1>1
    <3> QED BY <3>1, <3>2, <3>3 DEF Seen
  <2>4. /\ \A r \in told2 : r \in Run /\ runState[r] = "over"
        /\ active2 \notin told2
        /\ \A g \in Frame :
             /\ Harmless(w, g, told, last)
             /\ EndsRun(m) /\ NamesRun(g) /\ m.run = g.run
                  => g.type = "delta" /\ g.seq # NoNumber /\ g.seq <= last2
             => Harmless(w, g, told2, last2)'
    BY <1>1, <1>2, <1>3, <2>1, <2>2, TakesWell
  <2> QED BY <2>3, <2>4
<1>5. Greeted(w)'
  <2>1. ASSUME NEW i \in DOMAIN inbox'[w], NEW j \in DOMAIN inbox'[w],
               inbox'[w][i].type = "connectOk", inbox'[w][j].type \in Stream
        PROVE  i < j
    <3>1. i + 1 < j + 1
      BY <1>1, <2>1 DEF Greeted
    <3> QED BY <1>1, <3>1
  <2> QED BY <1>2, <2>1 DEF Greeted
<1>6. Ordered(w, last2)'
  <2>0. ASSUME NEW i \in DOMAIN inbox'[w], NEW g \in Frame,
               After(w, i + 1, g, last)
        PROVE  After(w, i, g, last2)'
    <3>1. /\ i \in Nat /\ i + 1 \in Nat
          /\ inbox'[w][i] = inbox[w][i + 1] /\ g.seq \in Nat
      BY <1>1 DEF Frame
    <3>2. g.seq # NoNumber /\ Seen(w, i + 1, g.seq, last)
            => Seen(w, i, g.seq, last2)'
      BY <1>s, <3>1
    <3> QED BY <2>0, <3>1, <3>2 DEF After
  <2>1. ASSUME NEW i \in DOMAIN inbox'[w], NEW j \in DOMAIN inbox'[w], i < j
        PROVE  After(w, i, inbox[w][j], last2)'
    <3>1. PICK g : g = inbox'[w][j]
      OBVIOUS
    <3>0. i \in Nat /\ j \in Nat /\ j + 1 \in DOMAIN inbox[w]
      BY <1>1
    <3>2. i + 1 < j + 1 /\ g = inbox[w][j + 1] /\ g \in Frame
      <4>1. inbox[w][j + 1] \in Frame
        <5>1. \A k \in DOMAIN inbox[w] : inbox[w][k] \in Frame
          OBVIOUS
        <5> QED BY <3>0, <5>1
      <4>2. g = inbox[w][j + 1]
        BY <1>1, <3>1
      <4> QED BY <2>1, <3>0, <4>1, <4>2
    <3>3. After(w, i + 1, g, last)
      BY <1>1, <2>1, <3>2 DEF Ordered
    <3>4. After(w, i, g, last2)'
      BY <2>0, <3>2, <3>3
    <3> QED BY <3>1, <3>4 DEF After
  <2>2. ASSUME NEW f, Dated(f)
        PROVE  Dated(f)'
    BY <2>2 DEF Dated
  <2>3. (\A i \in DOMAIN inbox[w] : Dated(inbox[w][i]))'
    BY <1>1 DEF Ordered, Dated, NamesRun
  <2>4. ASSUME w \in accepted', firstSent' # <<>>
        PROVE  Repeats(w, firstSent[1], last2)'
    <3>1. PICK g : g = firstSent[1]
      OBVIOUS
    <3>2. g \in EventFrame
      BY <2>4, <3>1
    <3>3. g \in Frame /\ g.seq \in Nat
      BY <3>2 DEF EventFrame, Frame
    <3>4. Repeats(w, g, last)
      BY <2>4, <3>1 DEF Ordered
    <3>5. \A i \in DOMAIN inbox'[w] : After(w, i, g, last2)'
      BY <1>1, <2>0, <3>3, <3>4 DEF Repeats
    <3>6. sock'[w] = "open" => Seen(w, Len(inbox[w]), g.seq, last2)'
      <4>1. /\ Len(inbox[w]) \in Nat /\ Len(inbox'[w]) \in Nat
            /\ Len(inbox[w]) <= Len(inbox'[w]) + 1
        OBVIOUS
      <4>2. PICK l \in Nat : l = Len(inbox'[w])
        BY <4>1
      <4>3. sock'[w] = "open" => Seen(w, l, g.seq, last2)'
        BY <1>s, <3>3, <3>4, <4>1, <4>2 DEF Repeats
      <4> QED BY <4>2, <4>3 DEF Seen
    <3>7. Repeats(w, g, last2)'
      BY <2>2, <3>4, <3>5, <3>6 DEF Repeats
    <3> QED BY <3>1, <3>7 DEF Repeats, After, Dated
  <2> QED BY <2>1, <2>3, <2>4 DEF Ordered
<1>7. NoneRevived(w, told2, last2)'
  <2>1. ASSUME NEW i \in DOMAIN inbox'[w], NEW g, g = inbox'[w][i]
        PROVE  Harmless(w, g, told2, last2)'
    <3>1. /\ g = inbox[w][i + 1] /\ i + 1 \in DOMAIN inbox[w]
          /\ 1 < i + 1
      BY <1>1, <2>1
    <3>2. g \in Frame /\ Harmless(w, g, told, last) /\ After(w, 1, g, last)
      BY <1>1, <3>1 DEF NoneRevived, Ordered
    <3> QED BY <1>4, <3>2
  <2>2. ASSUME w \in accepted', firstSent' # <<>>, NEW g, g = firstSent[1]
        PROVE  Harmless(w, g, told2, last2)'
    <3>1. g \in EventFrame
      BY <2>2
    <3>2. g \in Frame
      BY <3>1 DEF EventFrame, Frame
    <3>3. Harmless(w, g, told, last) /\ After(w, 1, g, last)
      BY <1>1, <2>2 DEF NoneRevived, Ordered, Repeats
    <3> QED BY <1>4, <3>2, <3>3
  <2> QED BY <2>1, <2>2 DEF NoneRevived, Harmless, Dropped
<1> QED BY <1>4, <1>5, <1>6, <1>7

(***************************************************************************)
(* The losses of a connection                                              *)
(***************************************************************************)

\* Nothing that was lost on a connection is on its way or will be sent again.
Counted(w) ==
  /\ \A i \in DOMAIN inbox[w] :
       inbox[w][i].type \in EventType => inbox[w][i].seq \notin missed
  /\ \A i \in DOMAIN firstSent : firstSent[i].seq \notin missed
  /\ NoNumber \notin missed
  /\ \A s \in missed : s <= gwSeq

\* Of what was lost before the last event seen a reload has been asked for, or
\* asked for and refused.
MadeGood(w, last) ==
  /\ last \notin missed
  /\ (\E s \in missed \ refused : s < last) => Has(outbox[w], {"history"})

\* Serving a request other than for the history takes none of those away.
LEMMA ServeKeeps ==
  ASSUME GatewayTypeOK, NEW w \in Socket, Serve(w)
  PROVE  \/ missed' = {}
         \/ /\ UNCHANGED <<missed, accepted, firstSent>>
            /\ refused \subseteq refused'
            /\ \/ missed \subseteq refused'
               \/ Has(outbox[w], {"history"}) => Has(outbox'[w], {"history"})
<1> USE DEF gateway
<1>1. /\ outbox[w] # <<>> /\ outbox[w] \in Seq(RequestFrame)
      /\ outbox'[w] = Tail(outbox[w])
  BY DEF Serve, ServeConnect, ServeHistory, ServeSend, ServeAbort,
     ServeError, Answers, GatewayTypeOK
<1>2. \/ missed' = {}
      \/ /\ UNCHANGED <<missed, accepted, firstSent>>
         /\ refused \subseteq refused'
         /\ missed \subseteq refused' \/ Head(outbox[w]).type # "history"
  BY DEF Serve, ServeConnect, ServeHistory, ServeSend, ServeAbort, ServeError
<1>3. ASSUME Head(outbox[w]).type # "history", Has(outbox[w], {"history"})
      PROVE  Has(outbox'[w], {"history"})
  <2> DEFINE q == outbox[w]
  <2>1. PICK i \in DOMAIN q : q[i].type = "history"
    BY <1>3 DEF Has
  <2>2. i \in 1 .. Len(q) /\ Len(q) \in Nat /\ Head(q) = q[1]
    BY <1>1
  <2>3. i # 1
    BY <1>3, <2>1, <2>2
  <2>4. i - 1 \in DOMAIN Tail(q) /\ Tail(q)[i - 1] = q[i]
    BY <1>1, <2>2, <2>3
  <2> QED BY <1>1, <2>1, <2>4 DEF Has
<1> QED BY <1>2, <1>3

\* The Gateway loses only what comes after all that was seen, and with its
\* hello the counting begins.
LEMMA GatewayCounts ==
  ASSUME GatewayAssumption, GatewayTypeOK, NEW w \in Socket, GatewayMoves(w),
         NumbersUsed(w), sock'[w] = "open", w \in accepted',
         sock[w] = "open" /\ w \in accepted => Counted(w)
  PROVE  /\ Counted(w)'
         /\ \/ missed' = {}
            \/ /\ sock[w] = "open" /\ w \in accepted
               /\ missed' \subseteq missed \cup {gwSeq + 1}
               /\ gwSeq + 1 \in missed' => gwSeq' = gwSeq + 1
               /\ refused \subseteq refused'
               /\ \/ missed \subseteq refused'
                  \/ Has(outbox[w], {"history"}) => Has(outbox'[w], {"history"})
<1> USE DEF gateway
<1>1. /\ inbox[w] \in Seq(Frame) /\ gwSeq \in Nat
      /\ firstSent \in Seq(EventFrame) /\ missed \subseteq Nat
  BY DEF GatewayTypeOK
<1>2. ASSUME NEW f \in Frame, Deliver(w, f), Counted(w),
             f.type \in EventType => f.seq \notin missed
      PROVE  \A i \in DOMAIN inbox'[w] :
               inbox'[w][i].type \in EventType
                 => inbox'[w][i].seq \notin missed
  <2>1. inbox'[w] = Append(inbox[w], f)
    BY <1>2 DEF Deliver, GatewayTypeOK
  <2>2. \A i \in DOMAIN inbox'[w] :
          \/ i \in DOMAIN inbox[w] /\ inbox'[w][i] = inbox[w][i]
          \/ inbox'[w][i] = f
    BY <1>1, <2>1, Behind
  <2> QED BY <1>2, <2>2 DEF Counted
<1>3. CASE Opens(w)
  <2>1. w \notin accepted'
    BY <1>3 DEF Opens, NumbersUsed
  <2> QED BY <2>1
<1>4. CASE Serve(w)
  <2>1. CASE missed' = {}
    BY <2>1 DEF Counted
  <2>2. CASE missed' # {}
    <3>1. /\ UNCHANGED <<missed, accepted, firstSent>>
          /\ refused \subseteq refused'
          /\ \/ missed \subseteq refused'
             \/ Has(outbox[w], {"history"}) => Has(outbox'[w], {"history"})
      BY <1>4, <2>2, ServeKeeps
    <3>2. sock[w] = "open" /\ Counted(w) /\ gwSeq' = gwSeq
      BY <1>4, <3>1 DEF Serve, ServeConnect, ServeHistory, ServeSend,
         ServeAbort, ServeError
    <3>3. PICK t \in ReplyType, s \in Session, r \in Run \cup {NoRun} :
            Deliver(w, Reply(t, s, r))
      BY <1>4, ServeKinds
    <3>4. /\ Reply(t, s, r) \in Frame
          /\ Reply(t, s, r).type \notin EventType
      BY ReplyIsFrame DEF Reply, ReplyType, EventType
    <3>5. \A i \in DOMAIN inbox'[w] :
            inbox'[w][i].type \in EventType => inbox'[w][i].seq \notin missed
      BY <1>2, <3>2, <3>3, <3>4
    <3>6. gwSeq + 1 \notin missed
      BY <1>1, <3>2 DEF Counted
    <3> QED BY <3>1, <3>2, <3>5, <3>6 DEF Counted
  <2> QED BY <2>1, <2>2
<1>5. CASE Resend(w)
  <2>1. PICK f : f = firstSent[1]
    OBVIOUS
  <2>2. /\ w \in accepted /\ sock[w] = "open" /\ firstSent # <<>>
        /\ UNCHANGED <<accepted, firstSent, outbox, missed, refused, gwSeq>>
        /\ Deliver(w, Head(firstSent))
    BY <1>5 DEF Resend, Streams
  <2>3. f \in EventFrame /\ Head(firstSent) = f /\ 1 \in DOMAIN firstSent
    BY <1>1, <2>1, <2>2
  <2>4. f \in Frame /\ f.seq \notin missed
    BY <2>1, <2>2, <2>3 DEF Counted, EventFrame, Frame
  <2>5. \A i \in DOMAIN inbox'[w] :
          inbox'[w][i].type \in EventType => inbox'[w][i].seq \notin missed
    BY <1>2, <2>2, <2>3, <2>4
  <2>6. gwSeq + 1 \notin missed
    BY <1>1, <2>2 DEF Counted
  <2> QED BY <2>2, <2>5, <2>6 DEF Counted
<1>6. CASE NetworkFails(w) \/ ServerCloses(w)
  <2>1. sock'[w] # "open"
    BY <1>6 DEF NetworkFails, ServerCloses, GatewayTypeOK
  <2> QED BY <2>1
<1>7. ASSUME NEW r \in Run, NEW t \in EventType, EmitEvent(w, r, t)
      PROVE  /\ Counted(w)' /\ sock[w] = "open" /\ w \in accepted
             /\ missed' \subseteq missed \cup {gwSeq + 1}
             /\ gwSeq' = gwSeq + 1 /\ UNCHANGED <<outbox, refused>>
  <2>0. PICK e : e = Event(t, r, gwSeq + 1)
    OBVIOUS
  <2>1. e \in Frame /\ e.seq = gwSeq + 1
    BY <1>1, <2>0, EventIsFrame
  <2>2. /\ w \in accepted /\ sock[w] = "open" /\ gwSeq' = gwSeq + 1
        /\ UNCHANGED <<outbox, refused>> /\ Counted(w)
    BY <1>7 DEF EmitEvent, RunEmits, Streams
  <2>3. \/ /\ Deliver(w, e) /\ UNCHANGED missed
           /\ firstSent' = IF firstSent = <<>> THEN <<e>> ELSE firstSent
        \/ missed' = missed \cup {gwSeq + 1} /\ UNCHANGED <<inbox, firstSent>>
    BY <1>7, <2>0 DEF EmitEvent
  <2>4. gwSeq + 1 \notin missed /\ \A s \in missed : s <= gwSeq + 1
    <3>1. \A s \in missed : s \in Nat /\ s <= gwSeq
      BY <1>1, <2>2 DEF Counted
    <3> QED BY <1>1, <3>1
  <2>5. CASE missed' = missed \cup {gwSeq + 1}
             /\ UNCHANGED <<inbox, firstSent>>
    <3>1. \A i \in DOMAIN inbox[w] :
            inbox[w][i].type \in EventType => inbox[w][i].seq # gwSeq + 1
      <4>1. \A i \in DOMAIN inbox[w] : inbox[w][i] \in Frame
        BY <1>1
      <4>2. \A i \in DOMAIN inbox[w] :
              /\ inbox[w][i].seq \in Nat
              /\ inbox[w][i].type \in EventType => inbox[w][i].seq <= gwSeq
        BY <2>2, <4>1 DEF NumbersUsed, Low, Frame
      <4> QED BY <1>1, <4>2
    <3>2. \A i \in DOMAIN firstSent : firstSent[i].seq # gwSeq + 1
      <4>1. \A i \in DOMAIN firstSent : firstSent[i] \in EventFrame
        BY <1>1
      <4>2. \A i \in DOMAIN firstSent :
              firstSent[i].seq \in Nat /\ firstSent[i].seq <= gwSeq
        BY <2>2, <4>1 DEF NumbersUsed, EventFrame
      <4> QED BY <1>1, <4>2
    <3>3. NoNumber \notin missed' /\ \A s \in missed' : s <= gwSeq'
      BY <1>1, <2>2, <2>4, <2>5 DEF Counted, NoNumber
    <3> QED BY <2>2, <2>5, <3>1, <3>2, <3>3 DEF Counted
  <2>6. CASE /\ Deliver(w, e) /\ UNCHANGED missed
             /\ firstSent' = IF firstSent = <<>> THEN <<e>> ELSE firstSent
    <3>1. \A i \in DOMAIN inbox'[w] :
            inbox'[w][i].type \in EventType => inbox'[w][i].seq \notin missed
      BY <1>2, <2>1, <2>2, <2>4, <2>6
    <3>2. \A i \in DOMAIN firstSent' : firstSent'[i].seq \notin missed
      <4>1. CASE firstSent = <<>>
        <5>1. firstSent' = <<e>>
          BY <2>6, <4>1
        <5>2. \A i \in DOMAIN firstSent' : firstSent'[i] = e
          BY <5>1
        <5> QED BY <2>1, <2>4, <5>2
      <4>2. CASE firstSent # <<>>
        BY <2>2, <2>6, <4>2 DEF Counted
      <4> QED BY <4>1, <4>2
    <3>3. UNCHANGED missed
      BY <2>6
    <3> QED BY <2>2, <2>4, <3>1, <3>2, <3>3 DEF Counted
  <2> QED BY <2>3, <2>5, <2>6
<1>8. ASSUME NEW r \in Run, NEW t \in EventType, EmitUnnumbered(w, r, t)
      PROVE  /\ Counted(w)' /\ sock[w] = "open" /\ w \in accepted
             /\ gwSeq + 1 \notin missed /\ UNCHANGED <<outbox, missed, refused>>
  <2>0. PICK e : e = Event(t, r, NoNumber)
    OBVIOUS
  <2>1. e \in Frame /\ e.seq = NoNumber
    BY <2>0, EventIsFrame DEF NoNumber
  <2>2. /\ w \in accepted /\ sock[w] = "open" /\ Counted(w)
        /\ UNCHANGED <<outbox, missed, refused, gwSeq, firstSent>>
        /\ Deliver(w, e) \/ UNCHANGED inbox
    BY <1>8, <2>0 DEF EmitUnnumbered, RunEmits, Streams
  <2>3. \A i \in DOMAIN inbox'[w] :
          inbox'[w][i].type \in EventType => inbox'[w][i].seq \notin missed
    BY <1>2, <2>1, <2>2 DEF Counted
  <2>4. gwSeq + 1 \notin missed
    BY <1>1, <2>2 DEF Counted
  <2> QED BY <2>2, <2>3, <2>4 DEF Counted
<1> QED BY <1>3, <1>4, <1>5, <1>6, <1>7, <1>8 DEF GatewayMoves

\* So what was made good stays so while the Gateway moves.
LEMMA StaysGood ==
  ASSUME gwSeq \in Nat, missed \subseteq Nat, NEW w \in Socket,
         NEW last \in Int, MadeGood(w, last), last <= gwSeq,
         \/ missed' = {}
         \/ /\ missed' \subseteq missed \cup {gwSeq + 1}
            /\ refused \subseteq refused'
            /\ \/ missed \subseteq refused'
               \/ Has(outbox[w], {"history"}) => Has(outbox'[w], {"history"})
  PROVE  MadeGood(w, last)'
<1>1. CASE missed' = {}
  BY <1>1 DEF MadeGood
<1>2. CASE /\ missed' \subseteq missed \cup {gwSeq + 1}
           /\ refused \subseteq refused'
           /\ \/ missed \subseteq refused'
              \/ Has(outbox[w], {"history"}) => Has(outbox'[w], {"history"})
  <2>1. last # gwSeq + 1 /\ ~(gwSeq + 1 < last)
    OBVIOUS
  <2>2. last \notin missed'
    BY <1>2, <2>1 DEF MadeGood
  <2>3. \A s \in missed' : s < last => s \in missed
    BY <1>2, <2>1
  <2> QED BY <1>2, <2>2, <2>3 DEF MadeGood
<1> QED BY <1>1, <1>2

\* The first event that shows a loss makes it good; later ones find it so.
LEMMA ReadCounts ==
  ASSUME NEW w \in Socket, inbox[w] \in Seq(Frame), inbox[w] # <<>>,
         inbox'[w] = Tail(inbox[w]), missed \subseteq Nat, Counted(w),
         missed' \subseteq missed, UNCHANGED <<gwSeq, firstSent, refused>>,
         Has(outbox[w], {"history"}) => Has(outbox'[w], {"history"}),
         NEW m, m = Head(inbox[w]), NEW last \in Nat \cup {-1}
  PROVE  /\ Counted(w)'
         /\ MadeGood(w, last) => MadeGood(w, last)'
         /\ /\ MadeGood(w, last) /\ m.type \in EventType /\ last < m.seq
            /\ last # -1 /\ m.seq > last + 1 => Has(outbox'[w], {"history"})
            /\ last = -1 => \A s \in missed' : s > m.seq
            => MadeGood(w, m.seq)'
<1>1. /\ 1 \in DOMAIN inbox[w] /\ inbox[w][1] = m /\ m \in Frame
      /\ \A i \in DOMAIN inbox'[w] : /\ i + 1 \in DOMAIN inbox[w]
                                     /\ inbox'[w][i] = inbox[w][i + 1]
  BY Ahead
<1>2. Counted(w)'
  BY <1>1 DEF Counted
<1>3. MadeGood(w, last) => MadeGood(w, last)'
  BY DEF MadeGood
<1>4. ASSUME MadeGood(w, last), m.type \in EventType, last < m.seq,
             last # -1 /\ m.seq > last + 1 => Has(outbox'[w], {"history"}),
             last = -1 => \A s \in missed' : s > m.seq
      PROVE  MadeGood(w, m.seq)'
  <2>1. m.seq \notin missed' /\ m.seq \in Nat
    BY <1>1, <1>4 DEF Counted, Frame
  <2>2. ASSUME NEW s \in missed' \ refused', s < m.seq
        PROVE  Has(outbox'[w], {"history"})
    <3>1. s \in missed \ refused /\ s \in Nat /\ last \in Nat
      BY <1>4, <2>1, <2>2
    <3>2. CASE m.seq > last + 1
      BY <1>4, <3>1, <3>2
    <3>3. CASE ~(m.seq > last + 1)
      <4>1. m.seq = last + 1 /\ s # last
        BY <1>4, <2>1, <3>1, <3>3 DEF MadeGood
      <4>2. s < last
        BY <2>2, <3>1, <4>1
      <4> QED BY <1>4, <3>1, <4>2 DEF MadeGood
    <3> QED BY <3>2, <3>3
  <2> QED BY <2>1, <2>2 DEF MadeGood
<1> QED BY <1>2, <1>3, <1>4
=============================================================================
