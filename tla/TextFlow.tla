------------------------------ MODULE TextFlow ------------------------------
(***************************************************************************)
(* Texts on their way between the C++ core and the Gateway: a request, a   *)
(* frame, the challenge and its answer, and a device token from the hello  *)
(* through the token file to the next connect.  One side writes what it    *)
(* means ("told"), the other reads ("heard"), and the two are compared.    *)
(***************************************************************************)
EXTENDS CoreText

CONSTANTS Letter,    \* symbols strings are made of
          MaxString  \* bound on the length of the string a text is about

\* Every symbol of the texts that follow.
Punctuation == {Quote, Backslash, ",", ":", "{", "}", "[", "]"}
Word ==
  {"1", "2", "-1", "huge", "true", "false", "a",
   "type", "req", "res", "event", "id", "method", "params", "ok", "payload",
   "error", "seq", "data", "connect", "chat.send", "chat.abort",
   "chat.history", "sessionKey", "message", "idempotencyKey", "sessionId",
   "runId", "limit", "auth", "token", "device", "signedAt", "nonce", "ts",
   "connect.challenge", "deviceToken", "role", "scopes", "hello-ok", "version",
   "code", "PAIRING_REQUIRED", "requestId"}
Symbol ==
  Letter \cup Control \cup {"n", "r", "t", "u0001"} \cup Punctuation \cup Word

ASSUME NoTextAssumption ==
  NoText \notin Symbol \cup Seq(Symbol) \cup [nonce : Seq(Symbol), ts : Symbol]
ASSUME MaxStringAssumption == MaxString \in Nat

Strings == BoundedSeq(Letter, MaxString)
Shorts == BoundedSeq(Letter, 1)

VARIABLES at,        \* where the text is
          told, text, heard

flowVars == <<at, told, text, heard>>

Id == <<"a">>
Nothing == [what |-> "nothing"]

\* Strings that come through the readers of both files and the escaper of
\* device_identity.cpp unharmed; what they name is opaque and printable.
Plain(s) == ToSet(s) \cap {"return", "tab", "ctl"} = {}
Bare(s) == ToSet(s) \cap (Control \cup {Quote, Backslash, "]"}) = {}

FlowInit ==
  /\ at = "nowhere"
  /\ told = Nothing
  /\ text = <<>>
  /\ heard = NoText

Write(meaning, t, to) ==
  /\ at' = to
  /\ told' = meaning
  /\ text' = t
  /\ UNCHANGED heard

Pass(from, t, to) ==
  /\ at = from
  /\ at' = to
  /\ text' = t
  /\ UNCHANGED <<told, heard>>

Hear(from, what) ==
  /\ at = from
  /\ at' = "read"
  /\ heard' = what
  /\ UNCHANGED <<told, text>>

Forget ==
  /\ at = "read"
  /\ at' = "nowhere"
  /\ told' = Nothing
  /\ text' = <<>>
  /\ heard' = NoText

(***************************************************************************)
(* Requests                                                                *)
(***************************************************************************)

Asks(method, p, t) ==
  Write([what |-> "request", method |-> method, params |-> p], t, "gateway")

WriteRequest ==
  \E s \in Strings, short \in Shorts :
    \/ LET p == [sessionKey |-> short, message |-> s, sessionId |-> short]
       IN  Asks("chat.send", p, ChatSend(Id, p))
    \/ LET p == [sessionKey |-> s, runId |-> short]
       IN  Asks("chat.abort", p, ChatAbort(Id, p))
    \/ LET p == [sessionKey |-> s]
       IN  Asks("chat.history", p, ChatHistory(Id, p))

GatewayReads ==
  LET params == ValueOf(text, "params")
  IN  /\ told.what = "request"
      /\ Hear("gateway",
              [id |-> StringOf(ValueOf(text, "id")),
               method |-> StringOf(ValueOf(text, "method")),
               params |-> [name \in DOMAIN told.params |->
                             StringOf(ValueOf(params, name))]])

\* Whatever the user types or a session is called, the Gateway reads it so,
\* and nothing in it passes for a member of its own; a session or a run that
\* is not known is left out.
RequestArrives ==
  at = "read" /\ told.what = "request" =>
    /\ heard.id = Id
    /\ heard.method = <<told.method>>
    /\ \A name \in DOMAIN told.params :
         heard.params[name] =
           IF name \in {"sessionId", "runId"} /\ told.params[name] = <<>>
           THEN NoText
           ELSE told.params[name]

(***************************************************************************)
(* Frames                                                                  *)
(***************************************************************************)

\* A payload has one member, which may have the name of a frame's own.
One(name, value) == Object(<<Member(name, value)>>)
EmptyObject == <<"{", "}">>
Payloads ==
  {EmptyObject}
    \cup {One(name, JsonString(s)) : name \in {"data", "event"},
                                     s \in Strings}
    \cup {One("data", One("data", JsonString(s))) : s \in Strings}
    \cup {One(name, <<"1">>) : name \in {"data", "seq"}}
    \cup {One("ok", <<"true">>)}

Numbers == {NoText, <<"1">>, <<"huge">>, <<"-1">>}

Names == {<<"a">>, <<"seq">>, <<"payload">>}

\* Members of an event after its type.
Orders == {<<"event", "seq", "payload">>, <<"event", "payload", "seq">>,
           <<"seq", "event", "payload">>}

EventText(order, name, payload, seq) ==
  LET value == [event |-> JsonString(name), payload |-> payload, seq |-> seq]
      Kept(i) == IF value[order[i]] = NoText THEN <<>>
                 ELSE <<Member(order[i], value[order[i]])>>
  IN  Object(<<Member("type", JsonString(<<"event">>))>>
             \o Kept(1) \o Kept(2) \o Kept(3))

WriteEvent ==
  \E order \in Orders, name \in Names, payload \in Payloads,
     seq \in Numbers :
    Write([what |-> "event", order |-> order, event |-> name,
           payload |-> payload, seq |-> seq],
          EventText(order, name, payload, seq), "client")

ReplyText(ok, body) ==
  LET truth == IF ok THEN "true" ELSE "false"
      rest == IF ok THEN "payload" ELSE "error"
  IN  Object(<<Member("type", JsonString(<<"res">>)),
               Member("id", JsonString(Id)), Member("ok", <<truth>>),
               Member(rest, body)>>)

PairingError(requestId) ==
  Object(<<Member("code", JsonString(<<"PAIRING_REQUIRED">>)),
           Member("requestId", JsonString(requestId))>>)

\* A reply carries a payload, or an error: any, or that of an unpaired device.
WriteReply ==
  \/ \E ok \in BOOLEAN, body \in Payloads :
       Write([what |-> "reply", ok |-> ok, body |-> body, asked |-> NoText],
             ReplyText(ok, body), "client")
  \/ \E asked \in Shorts :
       LET body == PairingError(asked) IN
       Write([what |-> "reply", ok |-> FALSE, body |-> body,
              asked |-> asked],
             ReplyText(FALSE, body), "client")

ReadEvent == told.what = "event" /\ Hear("client", Parse(text))

\* The connect loop asks the text of a refusal whether it is about pairing.
ReadReply ==
  /\ told.what = "reply"
  /\ Hear("client", [frame |-> Parse(text),
                     pairing |-> ParsePairingRequired(text)])

\* No string and no member of the payload called "seq" stands before its own.
SeqComesFirst(e) ==
  \/ e.order[2] = "seq" /\ e.seq # NoText
  \/ KeyAt(e.payload, "seq") = 0

\* A frame is read as it was written, brackets and quotes in its strings
\* included, wherever searching the text for names can do: the name of an
\* event stands next to its type and is no member's; its number is the first
\* thing in the text to be called "seq"; no refusal has a member that says ok.
\* A refusal is taken for one that asks for pairing if it does, and only if
\* the word for it stands in its text.
FrameIsRead ==
  /\ /\ at = "read" /\ told.what = "event"
     /\ told.order[1] = "event" /\ told.event = <<"a">>
     =>
       /\ heard.kind = "event"
       /\ heard.event = told.event
       /\ heard.payload = told.payload
       /\ SeqComesFirst(told) =>
            heard.seq = IF told.seq = <<"1">> THEN "1" ELSE NoText
  /\ at = "read" /\ told.what = "reply" =>
       /\ heard.frame.kind = "response"
       /\ heard.frame.id = Id
       /\ KeyAt(told.body, "ok") = 0 => heard.frame.ok = told.ok
       /\ told.body = IF told.ok THEN heard.frame.payload
                                 ELSE heard.frame.error
       /\ told.asked = NoText /\ "PAIRING_REQUIRED" \notin ToSet(told.body) =>
            heard.pairing = NoText
       /\ told.asked # NoText /\ Plain(told.asked) =>
            heard.pairing = told.asked

(***************************************************************************)
(* The challenge, its answer, and the device token                         *)
(***************************************************************************)

ChallengeText(nonce, ts) ==
  EventText(<<"event", "payload", "seq">>, <<"connect.challenge">>,
            Object(<<Member("nonce", JsonString(nonce)), Member("ts", ts)>>),
            NoText)

WriteChallenge ==
  \E nonce \in Strings, token \in Shorts, ts \in Numbers \ {NoText} :
    Write([what |-> "challenge", token |-> token, nonce |-> nonce, ts |-> ts],
          ChallengeText(nonce, ts), "client")

\* connect(): a challenge that cannot be read ends it.
AnswerChallenge ==
  LET c == Challenge(text)
  IN  /\ told.what = "challenge"
      /\ IF c = NoText THEN Hear("client", NoText)
         ELSE Pass("client", Connect(Id, told.token, DeviceJson(c)), "gateway")

HelloText(token, role, scope) ==
  LET auth == Object(<<Member("deviceToken", JsonString(token)),
                       Member("role", JsonString(role)),
                       Member("scopes", Array(<<JsonString(scope),
                                                JsonString(Id)>>))>>)
      payload == Object(<<Member("type", JsonString(<<"hello-ok">>)),
                          Member("auth", auth)>>)
  IN  Object(<<Member("type", JsonString(<<"res">>)), Member("ok", <<"true">>),
               Member("payload", payload)>>)

WriteHello ==
  \E token \in Strings, role, scope \in Shorts :
    Write([what |-> "hello", token |-> token, role |-> role,
           scopes |-> <<scope, Id>>],
          HelloText(token, role, scope), "client")

\* parse_hello_device_token() and store_token()
StoreToken ==
  LET d == ReadToken(text, "deviceToken")
  IN  /\ told.what = "hello"
      /\ IF d = NoText THEN Hear("client", NoText)
         ELSE Pass("client", TokenFile(d), "file")

LoadToken ==
  told.what = "hello" /\ Hear("file", ReadToken(text, "token"))

GatewayReadsAnswer ==
  LET params == ValueOf(text, "params")
      device == ValueOf(params, "device")
  IN  /\ told.what = "challenge"
      /\ Hear("gateway",
              [token |-> StringOf(ValueOf(ValueOf(params, "auth"), "token")),
               nonce |-> StringOf(ValueOf(device, "nonce")),
               ts |-> ValueOf(device, "signedAt")])

\* The token that proves the pairing is read from the hello, kept and read
\* back as it was issued, and sent as it was kept; the nonce the device signs
\* comes back to the Gateway as it was given, whichever of the two escapers
\* and the two field readers of the core it passes.  A token that ends in the
\* name of the scopes is where these are looked for: a bracket in the role
\* would be taken for theirs.
SecretsSurvive ==
  /\ at = "read" /\ told.what = "hello" /\ Plain(told.token) =>
       IF told.token = <<>> THEN heard = NoText
       ELSE /\ heard.token = told.token
            /\ Plain(told.role) => heard.role = told.role
            /\ "scopes" \notin ToSet(told.token) /\ Bare(told.scopes[1]) =>
                 heard.scopes = told.scopes
  /\ at = "read" /\ told.what = "challenge" /\ Plain(told.nonce) =>
       IF told.nonce = <<>> \/ told.ts # <<"1">> THEN heard = NoText
       ELSE /\ heard.token = told.token
            /\ heard.nonce = told.nonce
            /\ heard.ts = told.ts

FlowNext ==
  \/ /\ at = "nowhere"
     /\ WriteRequest \/ WriteEvent \/ WriteReply \/ WriteChallenge
          \/ WriteHello
  \/ GatewayReads \/ ReadEvent \/ ReadReply
  \/ AnswerChallenge \/ GatewayReadsAnswer
  \/ StoreToken \/ LoadToken
  \/ Forget

FlowSpec == FlowInit /\ [][FlowNext]_flowVars
=============================================================================
